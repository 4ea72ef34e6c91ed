------------------------------ MODULE SuitParser ------------------------------
(***************************************************************************)
(* The SUIT envelope and manifest parser (lib/suit/lib/suit-parser.c) and  *)
(* the steps in which it is used on one envelope: the agent authenticates  *)
(* the envelope of an Update, adds its manifest to the SUIT context, and   *)
(* then a directive looks a payload up, or a client of the command reader  *)
(* reads a sequence of the manifest.  Every step looks its fields up again *)
(* in the bytes of the envelope.                                           *)
(***************************************************************************)
EXTENDS TeeCbor

CONSTANTS
    Envelope,               \* envelopes: [heads]
    PayloadName,            \* values of the text strings payloads are asked by
    SUIT_DEPENDENCY_MAX,
    SUIT_COMPONENT_MAX

ASSUME SuitParserAssumption ==
    /\ SUIT_DEPENDENCY_MAX \in Nat /\ SUIT_COMPONENT_MAX \in Nat
    /\ {e.heads : e \in Envelope} \subseteq Seq(CborHead)

SUIT_AUTHENTICATION_WRAPPER == 2
SUIT_MANIFEST == 3
SUIT_ENVELOPE_TAG == 107
CBOR_TAG_COSE_SIGN1 == 18
SUIT_DIGEST_ALG_SHA256 == -16

VARIABLES
    envelope,        \* the envelope of the Update
    stage,           \* what has been done with it
    manifest,        \* the suit_manifest_t it was parsed into
    reader,          \* suit_command_reader_t of an open command sequence
    payload          \* what the last lookup by name returned

vars == <<envelope, stage, manifest, reader, payload>>

Empty == [k \in {} |-> 0]

\* while (!tcbor_is_end_of_context(s.map)): every turn reads a head at least.
Loop(s, Turn(_)) ==
    LET turns == Len(s.map.r) + 1
        f[i \in 0 .. turns] ==
            IF i = 0 THEN s
            ELSE LET p == f[i - 1] IN IF ~p.ok \/ AtEnd(p.map) THEN p ELSE Turn(p)
    IN  f[turns]

----------------------------------------------------------------------------
(* Envelopes                                                               *)

\* Mutant: a payload whose name is a prefix of the one asked for is taken.
IsKeyOrPrefix(h, use_tstr, key) ==
    IF use_tstr THEN IsTstr(h) /\ h.val <= key ELSE IsUint(h) /\ h.val = key

\* The key asked for: a name, or a number.
IsKey(h, use_tstr, key) ==
    IF use_tstr THEN IsTstr(h) /\ h.val = key ELSE IsUint(h) /\ h.val = key

\* One entry of the envelope.  Only a byte string is taken for the field asked
\* for, and the last one counts; the value of any other key is skipped.
FieldTurn(s, use_tstr, key) ==
    LET k == ReadAny(s.map)
        hit == IsKey(k.val, use_tstr, key)
        v == IF hit THEN ReadBstr(k.ctx) ELSE Skip(k.ctx, 1)
    IN  IF ~k.ok \/ IsTag(k.val) \/ ~v.ok THEN [s EXCEPT !.ok = FALSE]
        ELSE [s EXCEPT !.map = v.ctx, !.field = IF hit THEN v.val ELSE @]

\* suit_envelope_get_field: without the field the null range is returned, and
\* what follows the map is not looked at.
GetField(heads, use_tstr, key) ==
    LET tag == ReadTag(TopLevel(Bytes(heads)))
        map == ReadMap(tag.ctx)
        none == [ok |-> FALSE, map |-> <<>>, field |-> NullRange]
    IN  IF ~tag.ok THEN none
        ELSE IF tag.val # SUIT_ENVELOPE_TAG \/ ~map.ok THEN none
        ELSE Loop([ok |-> TRUE, map |-> map.val, field |-> NullRange],
                  LAMBDA s : FieldTurn(s, use_tstr, key))

GetFieldByKey(heads, key) == GetField(heads, FALSE, key)
GetFieldByName(heads, name) == GetField(heads, TRUE, name)

----------------------------------------------------------------------------
(* Digests and authentication                                              *)

\* read_digest: [algorithm, bytes, ...]
ReadDigest(ctx) ==
    LET array == ReadArray(ctx)
        alg   == ReadInt(array.val)
        bytes == ReadBstr(alg.ctx)
        rest  == SkipAll(bytes.ctx)
    IN  IF ~array.ok THEN Failed
        ELSE IF ~alg.ok THEN Failed
        ELSE IF ~bytes.ok THEN Failed
        ELSE IF ~rest.ok THEN Failed
        ELSE Done(Close(array.ctx, rest.ctx).ctx,
                  [algorithm_id |-> alg.val, bytes |-> bytes.val])

\* The message digest, external: no two manifests have the same.
Sha256(range) == Bytes(<<[mt |-> 2, val |-> 0, body |-> Heads(range)]>>)

\* t_cose_sign1_verify_detached, external: the block names what it signs.
CoseVerifies(block, digest_bstr) ==
    Len(Heads(block)) = 2 /\ Heads(block)[2].body = Heads(digest_bstr)

VerifyAuthBlock(block, digest_bstr) ==
    LET tag == ReadTag(TopLevel(block))
    IN  tag.ok /\ tag.val = CBOR_TAG_COSE_SIGN1 /\ CoseVerifies(block, digest_bstr)

\* Mutant: the digest of the wrapper is read, and compared with nothing.
VerifyDigestOnlyRead(digest_bstr, manifest_bstr) == ReadDigest(TopLevel(digest_bstr)).ok

\* verify_digest hashes the manifest with the header of its byte string.
VerifyDigest(digest_bstr, manifest_bstr) ==
    LET d == ReadDigest(TopLevel(digest_bstr))
    IN  /\ d.ok /\ d.val.algorithm_id = SUIT_DIGEST_ALG_SHA256
        /\ d.val.bytes = Sha256(manifest_bstr)

\* One block of the wrapper: every one of them must verify.
AuthBlockTurn(s, digest) ==
    LET b == ReadBstr(s.map)
    IN  IF ~b.ok THEN [s EXCEPT !.ok = FALSE]
        ELSE IF ~VerifyAuthBlock(b.val, digest) THEN [s EXCEPT !.ok = FALSE]
        ELSE [s EXCEPT !.map = b.ctx, !.authenticated = TRUE]

\* suit_authenticate_envelope
Authenticated(heads) ==
    LET wrapper == GetFieldByKey(heads, SUIT_AUTHENTICATION_WRAPPER)
        array   == ReadArray(TopLevel(wrapper.field))
        digest  == ReadBstr(array.val)
        blocks  == Loop([ok |-> TRUE, map |-> digest.ctx, authenticated |-> FALSE],
                        LAMBDA s : AuthBlockTurn(s, digest.val))
        m       == GetFieldByKey(heads, SUIT_MANIFEST)
    IN  /\ wrapper.ok /\ array.ok /\ digest.ok
        /\ blocks.ok /\ blocks.authenticated
        /\ m.ok /\ VerifyDigest(digest.val, m.field)

----------------------------------------------------------------------------
(* Manifests                                                               *)

\* read_severed: the sequence itself, or the digest it was replaced by.
ReadSevered(ctx) ==
    LET body == ReadBstr(ctx)
        digest == ReadDigest(ctx)
    IN  IF body.ok THEN Done(body.ctx, [severed |-> FALSE, body |-> body.val])
        ELSE IF digest.ok THEN Done(digest.ctx, [severed |-> TRUE, digest |-> digest.val])
        ELSE Failed

\* read_dependency: a map of anything.
ReadDependency(ctx) ==
    LET map == ReadMap(ctx)
        rest == SkipAll(map.val)
    IN  IF ~map.ok THEN Failed ELSE IF ~rest.ok THEN Failed
        ELSE Done(Close(map.ctx, rest.ctx).ctx, TRUE)

\* Mutant: the capacity is compared after the entry is stored.
ListTurnOneMore(s, max, x) ==
    IF Len(s.list) > max THEN [s EXCEPT !.ok = FALSE]
    ELSE IF ~x.ok THEN [s EXCEPT !.ok = FALSE]
    ELSE [s EXCEPT !.map = x.ctx, !.list = Append(@, x.val)]

\* One entry, read as x, of a list that has room for max.
ListTurn(s, max, x) ==
    IF Len(s.list) = max THEN [s EXCEPT !.ok = FALSE]
    ELSE IF ~x.ok THEN [s EXCEPT !.ok = FALSE]
    ELSE [s EXCEPT !.map = x.ctx, !.list = Append(@, x.val)]

\* tcbor_close, when all of the list has been read.
CloseList(array, all) ==
    IF array.ok /\ all.ok THEN Done(Close(array.ctx, all.map).ctx, all.list) ELSE Failed

\* The list of dependencies or of components.
ReadList(ctx, name) ==
    LET array == ReadArray(ctx)
        turn(s) == IF name = "dependencies"
                   THEN ListTurn(s, SUIT_DEPENDENCY_MAX, ReadDependency(s.map))
                   ELSE ListTurn(s, SUIT_COMPONENT_MAX, ReadSubobject(s.map))
    IN  CloseList(array, Loop([ok |-> TRUE, map |-> array.val, list |-> <<>>], turn))

\* A structure with a field added, or replaced.
WithField(fields, name, val) ==
    [f \in DOMAIN fields \cup {name} |-> IF f = name THEN val ELSE fields[f]]

\* A turn that reads v as the field of that name.
KeepField(s, v, name) ==
    IF v.ok THEN [s EXCEPT !.map = v.ctx, !.fields = WithField(@, name, v.val)]
            ELSE [s EXCEPT !.ok = FALSE]

\* One entry of the common section: known keys only, each once.
CommonTurn(s) ==
    LET k == ReadAny(s.map)
        name == CASE k.val.val = 1 -> "dependencies" [] k.val.val = 2 -> "components"
                  [] k.val.val = 4 -> "command_sequence" [] OTHER -> "none"
        v == IF name \in {"dependencies", "components"} THEN ReadList(k.ctx, name)
             ELSE ReadBstr(k.ctx)
    IN  IF ~k.ok THEN [s EXCEPT !.ok = FALSE]
        ELSE IF ~IsUint(k.val) \/ name \in DOMAIN s.fields \cup {"none"}
             THEN [s EXCEPT !.ok = FALSE]
        ELSE KeepField(s, v, name)

\* suit_parse_common
ParseCommon(range) ==
    LET map == ReadMap(TopLevel(range))
    IN  IF map.ok THEN Loop([ok |-> TRUE, map |-> map.val, fields |-> Empty], CommonTurn)
        ELSE Failed

\* The keys of a manifest whose value is a byte string, or may be severed.
PlainKey ==
    [key \in {4, 10, 11, 12} |->
        CASE key = 4 -> "reference_uri" [] key = 10 -> "validate"
          [] key = 11 -> "load" [] key = 12 -> "run"]
SeverableKey ==
    [key \in {7, 8, 9, 13, 14} |->
        CASE key = 7 -> "dependency_resolution" [] key = 8 -> "payload_fetch"
          [] key = 9 -> "install" [] key = 13 -> "text" [] key = 14 -> "coswid"]

\* The common section, which is parsed at once.
ReadCommon(ctx) ==
    LET v == ReadBstr(ctx)
        At(common) == IF common.ok THEN Done(v.ctx, common.fields) ELSE Failed
    IN  IF v.ok THEN At(ParseCommon(v.val)) ELSE Failed

\* One entry of the manifest after the version and the sequence number.  Of two
\* equal keys the second counts; the value of an unknown key is skipped.
ManifestTurn(s) ==
    LET k == ReadAny(s.map)
        key == k.val.val
    IN  IF ~k.ok THEN [s EXCEPT !.ok = FALSE]
        ELSE IF IsTag(k.val) \/ (IsUint(k.val) /\ key \in {1, 2}) THEN [s EXCEPT !.ok = FALSE]
        ELSE IF IsUint(k.val) /\ key = 3 THEN KeepField(s, ReadCommon(k.ctx), "common")
        ELSE IF IsUint(k.val) /\ key \in DOMAIN PlainKey
             THEN KeepField(s, ReadBstr(k.ctx), PlainKey[key])
        ELSE IF IsUint(k.val) /\ key \in DOMAIN SeverableKey
             THEN KeepField(s, ReadSevered(k.ctx), SeverableKey[key])
        ELSE LET v == Skip(k.ctx, 1)
             IN  IF v.ok THEN [s EXCEPT !.map = v.ctx] ELSE [s EXCEPT !.ok = FALSE]

\* read_key_and_uint
ReadKeyAndUint(ctx, key) ==
    LET k == ReadUint(ctx)
    IN  IF ~k.ok THEN Failed ELSE IF k.val # key THEN Failed ELSE ReadUint(k.ctx)

\* The common section must be there.
FinishManifest(all) ==
    IF all.ok /\ "common" \in DOMAIN all.fields THEN Done(all.map, all.fields) ELSE Failed

\* suit_manifest_parse: the version and the sequence number come first.
ParseManifest(range) ==
    LET map == ReadMap(TopLevel(range))
        version == ReadKeyAndUint(map.val, 1)
        number == ReadKeyAndUint(version.ctx, 2)
    IN  IF ~map.ok THEN Failed
        ELSE IF ~version.ok THEN Failed
        ELSE IF version.val # 1 \/ ~number.ok THEN Failed
        ELSE FinishManifest(Loop([ok |-> TRUE, map |-> number.ctx,
                                  fields |-> [sequence_number |-> number.val]], ManifestTurn))

----------------------------------------------------------------------------
(* The steps                                                               *)

Init ==
    /\ envelope \in Envelope
    /\ stage = "received"
    /\ manifest = Empty
    /\ reader = Failed
    /\ payload = Failed

\* store_envelope
Authenticate ==
    /\ stage = "received"
    /\ stage' = IF Authenticated(envelope.heads) THEN "authenticated" ELSE "refused"
    /\ UNCHANGED <<envelope, manifest, reader, payload>>

\* suit_envelope_get_manifest
GetManifest(heads) ==
    LET field == GetFieldByKey(heads, SUIT_MANIFEST)
    IN  IF field.ok THEN ParseManifest(field.field) ELSE Failed

\* suit_context_add_envelope
AddEnvelope ==
    /\ stage = "authenticated"
    /\ \E m \in {GetManifest(envelope.heads)} :
          \/ m.ok /\ stage' = "added" /\ manifest' = m.val
          \/ ~m.ok /\ stage' = "refused" /\ UNCHANGED manifest
    /\ UNCHANGED <<envelope, reader, payload>>

\* The byte ranges of command sequences a manifest holds.
Sequences ==
    {manifest[f] : f \in DOMAIN manifest \cap {"validate", "load", "run"}}
    \cup {manifest[f].body : f \in {g \in DOMAIN manifest \cap {"install", "payload_fetch",
                                                              "dependency_resolution"} :
                                      ~manifest[g].severed}}
    \cup {manifest["common"][f] : f \in DOMAIN manifest["common"] \cap {"command_sequence"}}

\* suit_command_sequence_open
OpenSequence ==
    /\ stage = "added"
    /\ \E s \in Sequences :
          LET array == ReadArray(TopLevel(s))
          IN  /\ reader' = IF array.ok THEN Done(array.val, <<>>) ELSE Failed
              /\ stage' = IF array.ok THEN "command" ELSE "error"
    /\ UNCHANGED <<envelope, manifest, payload>>

\* suit_command_sequence_read_command
ReadCommand ==
    /\ stage = "command" /\ ~AtEnd(reader.ctx)
    /\ LET c == ReadUint(reader.ctx)
       IN  \/ /\ c.ok /\ c.val <= INT_MAX
              /\ reader' = Done(c.ctx, Append(reader.val, c.val))
              /\ stage' = "parameter"
           \/ /\ ~(c.ok /\ c.val <= INT_MAX)
              /\ stage' = "error" /\ UNCHANGED reader
    /\ UNCHANGED <<envelope, manifest, payload>>

\* Mutant: only the head of the parameter is skipped.
SkipParameterHead ==
    /\ stage = "parameter"
    /\ LET p == ReadAny(reader.ctx)
       IN  \/ /\ p.ok
              /\ reader' = Done(p.ctx, reader.val) /\ stage' = "command"
           \/ /\ ~p.ok
              /\ stage' = "error" /\ UNCHANGED reader
    /\ UNCHANGED <<envelope, manifest, payload>>

\* suit_command_sequence_skip_param
SkipParameter ==
    /\ stage = "parameter"
    /\ LET p == Skip(reader.ctx, 1)
       IN  \/ /\ p.ok
              /\ reader' = Done(p.ctx, reader.val) /\ stage' = "command"
           \/ /\ ~p.ok
              /\ stage' = "error" /\ UNCHANGED reader
    /\ UNCHANGED <<envelope, manifest, payload>>

\* suit_command_sequence_end_of_sequence
EndSequence ==
    /\ stage = "command" /\ AtEnd(reader.ctx)
    /\ stage' = "read"
    /\ UNCHANGED <<envelope, manifest, reader, payload>>

\* The lookup of directive_fetch for a local uri.
GetPayload(name) ==
    /\ stage = "added"
    /\ LET f == GetFieldByName(envelope.heads, name)
       IN  payload' = IF f.ok THEN Done(name, f.field) ELSE Failed
    /\ stage' = "read"
    /\ UNCHANGED <<envelope, manifest, reader>>

Next ==
    \/ Authenticate \/ AddEnvelope
    \/ OpenSequence \/ ReadCommand \/ SkipParameter \/ EndSequence
    \/ \E name \in PayloadName : GetPayload(name)

Spec == Init /\ [][Next]_vars
=============================================================================
