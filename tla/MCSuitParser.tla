---------------------------- MODULE MCSuitParser -----------------------------
(***************************************************************************)
(* Envelopes for SuitParser, and the reference it is compared with: a      *)
(* recursive decoder of the heads into trees, with integers that do not    *)
(* wrap, and the meaning of an envelope and of a manifest read off the     *)
(* trees.                                                                  *)
(***************************************************************************)
EXTENDS SuitItems, SequencesExt

----------------------------------------------------------------------------
(* Encoding                                                                *)

H(mt, v) == <<[mt |-> mt, val |-> v, body |-> <<>>]>>
U(n) == H(0, n)
N(n) == H(1, n)                                  \* the integer -1 - n
B(heads) == <<[mt |-> 2, val |-> 0, body |-> heads]>>
T(n) == H(3, n)
A(items) == H(4, Len(items)) \o FlattenSeq(items)
M(items) == H(5, Len(items) \div 2) \o FlattenSeq(items)
Tagged(t, heads) == H(6, t) \o heads
Claims(mt, n, heads) == H(mt, n) \o heads        \* a count that need not be true

----------------------------------------------------------------------------
(* Decoding                                                                *)

RECURSIVE Decode(_), DecodeItems(_, _, _)
Decode(heads) ==
    IF heads = <<>> THEN Failed
    ELSE LET h == heads[1]
             of(n) == LET k == DecodeItems(Tail(heads), n, <<>>)
                      IN  IF k.ok THEN Done(k.ctx, [h |-> h, kids |-> k.val]) ELSE Failed
         IN  CASE h.mt = Unreadable -> Failed
               [] IsArray(h)        -> of(h.val)
               [] IsMap(h)          -> of(2 * h.val)
               [] IsTag(h)          -> of(1)
               [] OTHER             -> of(0)
DecodeItems(heads, n, done) ==
    IF n = 0 THEN Done(heads, done)
    ELSE LET x == Decode(heads)
         IN  IF x.ok THEN DecodeItems(x.ctx, n - 1, Append(done, x.val)) ELSE Failed

RECURSIVE Encode(_)
Encode(t) == <<t.h>> \o FlattenSeq([i \in DOMAIN t.kids |-> Encode(t.kids[i])])

\* The item at the beginning of a range, <<>> if there is none.
Item(range) == LET d == Decode(Heads(range)) IN IF d.ok THEN <<d.val>> ELSE <<>>

Keys(map) == [i \in 1 .. (Len(map.kids) \div 2) |-> map.kids[2 * i - 1]]
Value(map, i) == map.kids[2 * i]
LastIndex(S) == CHOOSE i \in S : \A j \in S : j <= i

----------------------------------------------------------------------------
(* The meaning of an envelope.  A result is a tuple: <<>> for "refused".   *)

RefField(heads, Asked(_)) ==
    LET d == Decode(heads)
        map == d.val.kids[1]
        keys == Keys(map)
        hits == {i \in DOMAIN keys : Asked(keys[i].h)}
    IN  IF \/ ~d.ok \/ ~IsTag(d.val.h) \/ d.val.h.val # SUIT_ENVELOPE_TAG
           \/ ~IsMap(map.h)
           \/ \E i \in DOMAIN keys : IsTag(keys[i].h)
           \/ \E i \in hits : ~IsBstr(Value(map, i).h)
        THEN <<>>
        ELSE <<IF hits = {} THEN NullRange ELSE Bytes(Value(map, LastIndex(hits)).h.body)>>

RefFieldByKey(heads, key) == RefField(heads, LAMBDA h : IsUint(h) /\ h.val = key)

\* An integer that an int can hold.
RefInt(t) ==
    IF t.h.mt \in {0, 1} /\ t.h.val <= INT_MAX
    THEN <<IF IsUint(t.h) THEN t.h.val ELSE -1 - t.h.val>> ELSE <<>>

RefDigest(t) ==
    IF ~IsArray(t.h) \/ Len(t.kids) < 2 THEN <<>>
    ELSE IF RefInt(t.kids[1]) = <<>> \/ ~IsBstr(t.kids[2].h) THEN <<>>
    ELSE <<[algorithm_id |-> RefInt(t.kids[1])[1], bytes |-> Bytes(t.kids[2].h.body)]>>

RefSevered(t) ==
    IF IsBstr(t.h) THEN <<[severed |-> FALSE, body |-> Bytes(t.h.body)]>>
    ELSE LET d == RefDigest(t)
         IN  IF d = <<>> THEN <<>> ELSE <<[severed |-> TRUE, digest |-> d[1]]>>

RefAuthentic(heads) ==
    LET wrapper == RefFieldByKey(heads, SUIT_AUTHENTICATION_WRAPPER)
        w == Item(wrapper[1])
        manifests == RefFieldByKey(heads, SUIT_MANIFEST)
        parts == w[1].kids
        signed == Item(Bytes(parts[1].h.body))
    IN  /\ wrapper # <<>> /\ manifests # <<>>
        /\ w # <<>> /\ IsArray(w[1].h) /\ Len(parts) >= 2
        /\ \A p \in ToSet(parts) : IsBstr(p.h)
        /\ \A i \in 2 .. Len(parts) :
              VerifyAuthBlock(Bytes(parts[i].h.body), Bytes(parts[1].h.body))
        /\ signed # <<>>
        /\ RefDigest(signed[1])
              = <<[algorithm_id |-> SUIT_DIGEST_ALG_SHA256, bytes |-> Sha256(manifests[1])]>>

RefList(t, max, OK(_)) ==
    IsArray(t.h) /\ Len(t.kids) <= max /\ \A k \in ToSet(t.kids) : OK(k)

RefCommon(range) ==
    LET d == Item(range)
        keys == Keys(d[1])
        at(n) == CHOOSE i \in DOMAIN keys : keys[i].h.val = n
        ok(i) == LET v == Value(d[1], i)
                 IN  CASE keys[i].h.val = 1 ->
                            RefList(v, SUIT_DEPENDENCY_MAX, LAMBDA k : IsMap(k.h))
                       [] keys[i].h.val = 2 -> RefList(v, SUIT_COMPONENT_MAX, LAMBDA k : TRUE)
                       [] keys[i].h.val = 4 -> IsBstr(v.h)
                       [] OTHER -> FALSE
        has == {keys[i].h.val : i \in DOMAIN keys}
        kids(n) == Value(d[1], at(n)).kids
    IN  IF d = <<>> THEN <<>>
        ELSE IF \/ ~IsMap(d[1].h)
                \/ \E i \in DOMAIN keys : ~IsUint(keys[i].h) \/ ~ok(i)
                \/ \E i, j \in DOMAIN keys : i # j /\ keys[i].h.val = keys[j].h.val
             THEN <<>>
        ELSE <<(IF 1 \in has THEN "dependencies" :> [i \in DOMAIN kids(1) |-> TRUE] ELSE Empty)
               @@ (IF 2 \in has THEN "components" :>
                                    [i \in DOMAIN kids(2) |-> Bytes(Encode(kids(2)[i]))]
                   ELSE Empty)
               @@ (IF 4 \in has THEN "command_sequence" :> Bytes(Value(d[1], at(4)).h.body)
                   ELSE Empty)>>

RefManifest(range) ==
    LET d == Item(range)
        keys == Keys(d[1])
        val(i) == Value(d[1], i)
        uint(i, n) == IsUint(keys[i].h) /\ keys[i].h.val = n
        KnownKeys == DOMAIN PlainKey \cup DOMAIN SeverableKey \cup {3}
        meaning(i) == LET n == keys[i].h.val
                      IN  IF n = 3 THEN IF IsBstr(val(i).h) THEN RefCommon(Bytes(val(i).h.body))
                                        ELSE <<>>
                          ELSE IF n \in DOMAIN SeverableKey THEN RefSevered(val(i))
                          ELSE IF IsBstr(val(i).h) THEN <<Bytes(val(i).h.body)>> ELSE <<>>
        name(n) == IF n = 3 THEN "common" ELSE (PlainKey @@ SeverableKey)[n]
        known == {i \in 3 .. Len(keys) : \E n \in KnownKeys : uint(i, n)}
        last == {i \in known : \A j \in known : j > i => keys[j].h.val # keys[i].h.val}
    IN  IF d = <<>> THEN <<>>
        ELSE IF \/ ~IsMap(d[1].h) \/ Len(keys) < 3
                \/ ~uint(1, 1) \/ ~uint(2, 2)
                \/ ~IsUint(val(1).h) \/ val(1).h.val # 1 \/ ~IsUint(val(2).h)
                \/ \E i \in 3 .. Len(keys) : IsTag(keys[i].h) \/ uint(i, 1) \/ uint(i, 2)
                \/ \E i \in known : meaning(i) = <<>>
                \/ ~\E i \in known : uint(i, 3)
             THEN <<>>
        ELSE <<"sequence_number" :> val(2).h.val
               @@ [f \in {name(keys[i].h.val) : i \in last} |->
                     meaning(CHOOSE i \in last : name(keys[i].h.val) = f)[1]]>>

----------------------------------------------------------------------------
(* Instances                                                               *)

Nested == A(<<M(<<U(1), A(<<>>)>>), Tagged(5, T(1))>>)   \* something to skip
Wraps == A(<<Claims(4, Modulus - 1, <<>>), U(1)>>)        \* the count comes out as 0
Cut == H(Unreadable, 0)

Component(n) == A(<<B(<<>>), T(n)>>)
CommonSeq == B(A(<<U(2), M(<<U(1), T(1)>>), U(INT_MAX), Nested>>))
Commons ==
    {M(<<>>), M(<<U(2), A(<<Component(1)>>), U(4), CommonSeq>>),
     M(<<U(4), CommonSeq, U(2), A(<<Tagged(5, Component(1)), Nested>>), U(1),
         A(<<M(<<U(1), Nested>>)>>)>>),
     M(<<U(2), A([i \in 1 .. (SUIT_COMPONENT_MAX + 1) |-> Component(i)])>>),
     M(<<U(1), A([i \in 1 .. (SUIT_DEPENDENCY_MAX + 1) |-> M(<<>>)])>>),
     M(<<U(2), A(<<Component(1)>>), U(2), A(<<>>)>>),
     M(<<U(2), A(<<Wraps>>)>>), M(<<U(1), A(<<Claims(5, Modulus \div 2, <<>>)>>)>>),
     M(<<U(9), U(1)>>), M(<<N(1), U(1)>>), M(<<U(4), Nested>>),
     Claims(5, Modulus \div 2, U(2) \o A(<<Component(1)>>)), Cut, <<>>, A(<<>>)}
BaseCommon == M(<<U(2), A(<<Component(1)>>), U(4), CommonSeq>>)

DigestOf(m) == A(<<N(-1 - SUIT_DIGEST_ALG_SHA256), B(Heads(Sha256(Bytes(m))))>>)
Seqs == {A(<<>>), A(<<U(21), U(2)>>), A(<<U(21)>>), A(<<N(1), U(2)>>),
         A(<<U(INT_MAX + 1), U(1)>>), M(<<>>),
         A(<<U(1), Wraps>>), A(<<U(1), Nested, U(2), B(<<>>)>>)}

\* Entries of a manifest after the version and the sequence number.
Entries ==
    {<<U(3), B(BaseCommon)>>, <<U(3), U(1)>>, <<U(9), B(A(<<U(21), U(2)>>))>>,
     <<U(9), DigestOf(<<>>)>>, <<U(9), U(1)>>, <<U(9), A(<<U(1)>>)>>,
     <<U(10), B(A(<<>>))>>, <<U(10), Nested>>, <<U(4), B(<<>>)>>, <<U(14), B(<<>>)>>,
     <<U(1), U(1)>>, <<U(20), Nested>>, <<N(3), Nested>>, <<T(1), Tagged(6, Nested)>>,
     <<Tagged(5, U(20)), U(1)>>, <<U(20), Wraps>>, <<U(20), Cut>>}
Start == <<U(1), U(1), U(2), U(5)>>
Manifests ==
    {M(Start \o <<U(3), B(c)>>) : c \in Commons}
    \cup {M(Start \o <<U(3), B(BaseCommon), U(9), B(s)>>) : s \in Seqs}
    \cup {M(Start \o FlattenSeq(e)) : e \in UNION {[1 .. n -> Entries] : n \in 0 .. 2}}
    \cup {M(<<U(2), U(5), U(1), U(1), U(3), B(BaseCommon)>>),
          M(<<U(1), U(2), U(2), U(5), U(3), B(BaseCommon)>>),
          M(Start \o <<U(3), B(BaseCommon)>>) \o U(1), Cut, <<>>,
          Claims(5, 4, FlattenSeq(Start \o <<U(3), B(BaseCommon)>>)),
          Claims(5, Modulus \div 2, FlattenSeq(Start \o <<U(3), B(BaseCommon)>>))}

\* The holder of the key signs the digest d.
Signs(d) == B(Tagged(CBOR_TAG_COSE_SIGN1, B(d)))
Wrapper(d, blocks) == B(A(<<B(d)>> \o blocks))
Signed1 == M(Start \o <<U(3), B(BaseCommon), U(9), B(A(<<U(21), U(2)>>))>>)
Forged == M(Start \o <<U(3), B(BaseCommon), U(9), B(A(<<U(22), U(2)>>))>>)
D1 == DigestOf(Signed1)
D2 == DigestOf(Forged)
WithAlg(n) == A(<<n, B(Heads(Sha256(Bytes(Signed1))))>>)

Wrappers ==
    {Wrapper(D1, <<Signs(D1)>>), Wrapper(D2, <<Signs(D1)>>), Wrapper(D1, <<>>),
     Wrapper(D1, <<Signs(D1), Signs(D1)>>), Wrapper(D1, <<Signs(D1), Signs(D2)>>),
     Wrapper(D1, <<Signs(D2), Signs(D1)>>), Wrapper(D1, <<B(Tagged(17, B(D1)))>>),
     Wrapper(D1, <<B(<<>>)>>), Wrapper(D1, <<U(1)>>), B(M(<<>>)), B(<<>>), U(1)}
    \cup {Wrapper(d, <<Signs(d)>>) :
             d \in {WithAlg(U(1)), WithAlg(U(Modulus + SUIT_DIGEST_ALG_SHA256)),
                    WithAlg(N(Modulus - 1)), WithAlg(T(1)), A(<<N(15)>>),
                    D1 \o U(1), Claims(4, 3, Tail(D1) \o Nested), Claims(4, 3, Tail(D1)),
                    Claims(4, 4, Tail(D1) \o Wraps)}}

\* Entries of an envelope.
Fields == {<<U(2), w>> : w \in {Wrapper(D1, <<Signs(D1)>>), Wrapper(D2, <<Signs(D1)>>)}}
          \cup {<<U(3), m>> : m \in {B(Signed1), B(Forged), U(1)}}
          \cup {<<T(1), B(U(7))>>, <<T(1), U(1)>>, <<T(2), Nested>>, <<U(20), Nested>>,
                <<N(3), B(Forged)>>, <<U(20), Wraps>>, <<Tagged(3, U(3)), B(Forged)>>,
                <<A(<<U(0)>>), U(3)>>, <<B(Forged), U(1)>>}

Env(entries) == Tagged(SUIT_ENVELOPE_TAG, M(FlattenSeq(entries)))
Good == <<<<U(2), Wrapper(D1, <<Signs(D1)>>)>>, <<U(3), B(Signed1)>>>>
MCEnvelope ==
    {[heads |-> Env(e), signed |-> {Signed1}] :
        e \in UNION {[1 .. n -> Fields] : n \in 0 .. 3} \cup {Good \o e : e \in [1 .. 2 -> Fields]}}
    \cup {[heads |-> Env(<<<<U(3), B(Signed1)>>, <<U(2), w>>>>), signed |-> {Signed1}] :
             w \in Wrappers}
    \cup {[heads |-> Env(<<<<U(2), Wrapper(DigestOf(m), <<Signs(DigestOf(m))>>)>>,
                           <<U(3), B(m)>>>>), signed |-> {m}] : m \in Manifests}
    \cup {[heads |-> h, signed |-> {Signed1}] :
             h \in {Tagged(106, Tail(Env(Good))), Tail(Env(Good)), Env(Good) \o Cut, Cut, <<>>,
                    Tagged(SUIT_ENVELOPE_TAG, Env(Good)),
                    Tagged(SUIT_ENVELOPE_TAG, Claims(5, Modulus \div 2, FlattenSeq(FlattenSeq(Good))))}}

\* The heads of all envelopes, those inside byte strings included.
RECURSIVE Within(_)
Within(S) ==
    LET inner == UNION {ToSet(h.body) : h \in S}
    IN  IF inner = {} THEN S ELSE S \cup Within(inner)
MCHead == Within(UNION {ToSet(e.heads) : e \in MCEnvelope})

MCPayloadName == {1, 2, 3}

----------------------------------------------------------------------------
(* Properties                                                              *)

\* A key that is itself an array or a map is not skipped as one item: what follows
\* its head is read as its value.
ContainerKey(heads) ==
    LET d == Decode(heads)
    IN  d.ok /\ IsTag(d.val.h) /\ IsMap(d.val.kids[1].h)
        /\ \E i \in DOMAIN Keys(d.val.kids[1]) : Keys(d.val.kids[1])[i].h.mt \in {4, 5}

\* The wrapper's algorithm is a value at the top of its range, which tcbor_read_int
\* takes for an int of the other sign.
WrappedAlgorithm(heads) ==
    LET wrapper == RefFieldByKey(heads, SUIT_AUTHENTICATION_WRAPPER)
        w == Item(wrapper[1])
        d == Item(Bytes(w[1].kids[1].h.body))
    IN  /\ wrapper # <<>> /\ w # <<>> /\ w[1].kids # <<>> /\ d # <<>> /\ d[1].kids # <<>>
        /\ d[1].kids[1].h.val >= Modulus - (INT_MAX + 1)

\* The manifest that is added to the SUIT context means what the holder of the key
\* signed, whichever fields the envelope repeats, mixes or hides: authentication
\* and execution look the manifest up separately.
RunsSignedManifest ==
    stage = "added" => \E m \in envelope.signed : RefManifest(Bytes(m)) = <<manifest>>

\* suit_authenticate_envelope followed by suit_context_add_envelope accepts exactly
\* the envelopes that decode to a signed, well-formed manifest within the limits,
\* no count that wraps around among them.
AcceptedAsReference ==
    stage \in {"added", "refused"} /\ ~ContainerKey(envelope.heads)
        /\ ~WrappedAlgorithm(envelope.heads) =>
    ((stage = "added") <=>
        /\ RefAuthentic(envelope.heads)
        /\ RefManifest(RefFieldByKey(envelope.heads, SUIT_MANIFEST)[1]) # <<>>)
=============================================================================
