---------------------------- MODULE MCTeepMessage ----------------------------
(***************************************************************************)
(* Messages for TeepMessage, written as trees of CBOR items; the item      *)
(* stream the decoder makes of a tree; and the reference the parser is     *)
(* compared with: the messages that fit struct teep_message of libteep.h,  *)
(* and what each of its members then holds.                                *)
(***************************************************************************)
EXTENDS TeepItems, SequencesExt

----------------------------------------------------------------------------
(* Trees                                                                   *)

Leaf(t, v) == [label |-> "none", type |-> t, val |-> v, kids |-> <<>>, indef |-> FALSE]
Node(t, k) == [label |-> "none", type |-> t, val |-> 0, kids |-> k, indef |-> FALSE]
Under(l, t) == [t EXCEPT !.label = l]
Open(t) == [t EXCEPT !.indef = TRUE]

Count(t) == IF t.indef THEN IndefCount ELSE Len(t.kids)

\* The items of a tree at nesting level lv that is followed by one at level after.
RECURSIVE Flatten(_, _, _)
Flatten(t, lv, after) ==
    <<[label |-> t.label, type |-> t.type, val |-> t.val, count |-> Count(t),
       next |-> IF t.kids = <<>> THEN after ELSE lv + 1]>>
    \o FlattenSeq([i \in DOMAIN t.kids |->
                     Flatten(t.kids[i], lv + 1, IF i = Len(t.kids) THEN after ELSE lv + 1)])

Bare(t) == LET s == Flatten(t, 0, 0)
           IN  [i \in DOMAIN s |-> <<s[i].label, s[i].type, s[i].val, s[i].count>>]

Message(kind, options, rest) == Node("array", <<kind, options>> \o rest)

----------------------------------------------------------------------------
(* The reference                                                           *)

\* The members of struct teep_message by message type (data_item_requested and
\* err_code follow the map and are not options).
Schema(t) ==
    ("token" :> "bytes") @@
    CASE t = "query-request" ->
           "supported-cipher-suits" :> "uint32s" @@ "supported-freshness-mechanisms" :> "uint32s"
           @@ "challenge" :> "bytes" @@ "versions" :> "uint32s" @@ "ocsp-data" :> "bytes"
      [] t = "query-response" ->
           "selected-cipher-suit" :> "uint32" @@ "selected-version" :> "uint32"
           @@ "evidence-format" :> "text" @@ "evidence" :> "bytes" @@ "tc-list" :> "infos"
           @@ "requested-tc-list" :> "infos" @@ "unneeded-tc-list" :> "ids"
           @@ "ext-list" :> "uint32s"
      [] t = "update"  -> "manifest-list" :> "bufs"
      [] t = "success" -> "msg" :> "text" @@ "suit-reports" :> "bufs"
      [] t = "error"   ->
           "err-msg" :> "text" @@ "supported-cipher-suits" :> "uint32s"
           @@ "supported-freshness-mechanisms" :> "uint32s" @@ "versions" :> "uint32s"
           @@ "suit-reports" :> "bufs"

UInt32(t) == t.type = "int" /\ t.val >= 0 /\ t.val < UINT32_LIMIT
IdOK(t) == t.type = "array" /\ \A k \in ToSet(t.kids) : k.type \in {"bytes", "text"}
InfoOK(t) ==
    t.type = "map" /\ \A k \in ToSet(t.kids) :
        \/ k.label = "component-id" /\ IdOK(k)
        \/ k.label \in {"tc-manifest-sequence-number", "have-binary"} /\ UInt32(k)

Fits(t, shape) ==
    LET all(P(_)) == t.type = "array" /\ \A k \in ToSet(t.kids) : P(k)
    IN  CASE shape \in {"bytes", "text"} -> t.type = shape
          [] shape = "uint32"  -> UInt32(t)
          [] shape = "uint32s" -> all(UInt32)
          [] shape = "bufs"    -> all(LAMBDA k : k.type = "bytes")
          [] shape = "ids"     -> all(IdOK)
          [] shape = "infos"   -> all(InfoOK)

\* The last member of kids with each label.
LastOf(kids, labels) ==
    [l \in {k.label : k \in ToSet(kids)} \cap labels |->
        kids[CHOOSE i \in DOMAIN kids :
                /\ kids[i].label = l
                /\ \A j \in DOMAIN kids : j > i => kids[j].label # l]]

Meaning(t, shape) ==
    CASE shape \in {"bytes", "text", "uint32"} -> t.val
      [] shape \in {"uint32s", "bufs"} -> [i \in DOMAIN t.kids |-> t.kids[i].val]
      [] shape = "ids"   -> [i \in DOMAIN t.kids |-> Bare(t.kids[i])]
      [] shape = "infos" ->
           [i \in DOMAIN t.kids |->
              LET last == LastOf(t.kids[i].kids, STRING)
              IN  [l \in DOMAIN last |-> Bare(last[l])]]

\* tree is a whole TEEP message, options of other messages aside.
KindOf(tree) == TypeOf(tree.kids[1].val)
Trailing(tree) == IF KindOf(tree) \in {"query-request", "error"} THEN 1 ELSE 0
Conforms(tree) ==
    /\ tree.type = "array" /\ Len(tree.kids) >= 2
    /\ tree.kids[1].type = "int" /\ KindOf(tree) # "none"
    /\ Len(tree.kids) = 2 + Trailing(tree)
    /\ Trailing(tree) = 1 => tree.kids[3].type = "int"
    /\ tree.kids[2].type = "map"
    /\ LET schema == Schema(KindOf(tree))
       IN  \A o \in ToSet(tree.kids[2].kids) :
              /\ o.label # "text"
              /\ o.label \in DOMAIN schema => Fits(o, schema[o.label])

Reading(tree) ==
    LET schema == Schema(KindOf(tree))
        last == LastOf(tree.kids[2].kids, DOMAIN schema)
        options == [l \in DOMAIN last |-> Meaning(last[l], schema[l])]
        trailing == IF KindOf(tree) = "query-request"
                    THEN "data-item-requested" :> tree.kids[3].val
                    ELSE "err-code" :> tree.kids[3].val
    IN  IF Trailing(tree) = 1 THEN trailing @@ options ELSE options

\* Well-formed messages the parser does not support: an indefinite length, and
\* HAVE_BINARY, whose case has no break.
RECURSIVE Unsupported(_)
Unsupported(t) ==
    t.indef \/ t.label = "have-binary" \/ \E k \in ToSet(t.kids) : Unsupported(k)

\* The last option is one the parser skips (see UnknownOptionSkipped).
LastSkipped(tree) ==
    /\ tree.type = "array" /\ Len(tree.kids) >= 2 /\ tree.kids[2].kids # <<>>
    /\ KindOf(tree) # "none"
    /\ Last(tree.kids[2].kids).label \notin DOMAIN Schema(KindOf(tree)) \cup {"text"}

----------------------------------------------------------------------------
(* Instances                                                               *)

Int1 == Leaf("int", 1)
Ids(s) == Node("array", s)

\* Values of each shape: those that fit, then those that do not.
Arrays == {Node("array", <<>>), Node("array", <<Int1, Leaf("int", 2)>>),
           Node("array", <<Leaf("bytes", 3)>>), Node("array", <<Leaf("int", UINT32_LIMIT)>>),
           Node("array", <<Node("array", <<Int1>>)>>), Open(Node("array", <<Int1>>)), Int1}
IdArrays == {Ids(<<Ids(<<Leaf("text", 1), Leaf("bytes", 2)>>), Ids(<<>>)>>),
             Ids(<<Leaf("text", 1)>>), Ids(<<Ids(<<Int1>>)>>)}
Info(k) == Node("map", k)
Id1 == Under("component-id", Ids(<<Leaf("bytes", 1)>>))
Id2 == Under("component-id", Ids(<<Leaf("text", 2), Leaf("text", 3)>>))
Seq1 == Under("tc-manifest-sequence-number", Int1)
InfoArrays == {Ids(<<Info(<<Id1, Seq1, Id2>>), Info(<<>>), Info(<<Id2>>)>>),
               Ids(<<Info(<<Seq1, Under("have-binary", Int1)>>)>>),
               Ids(<<Leaf("text", 1)>>),
               Ids(<<Info(<<Id1, Under("text", Int1)>>)>>)}

\* Some options of every kind, in messages they belong to and in others.
Options ==
    {Under("versions", a) : a \in Arrays} \cup {Under("manifest-list", a) : a \in Arrays}
    \cup {Under("supported-freshness-mechanisms", Node("array", <<Int1>>))}
    \cup {Under("suit-reports", Node("array", <<Leaf("bytes", 1)>>))}
    \cup {Under("token", Leaf(t, n)) : t \in {"bytes", "text"}, n \in {0, 8}}
    \cup {Under("selected-version", Leaf("int", v)) :
             v \in {-1, 1, UINT32_LIMIT - 1, UINT32_LIMIT}}
    \cup {Under("evidence-format", Leaf("text", 1)), Under("msg", Leaf("text", 1)),
          Under("err-msg", Leaf("bytes", 1)), Under("challenge", Leaf("bytes", 1))}
    \cup {Under("requested-tc-list", a) : a \in InfoArrays}
    \cup {Under("unneeded-tc-list", a) : a \in IdArrays}
    \cup {Under("unknown", t) :
             t \in {Int1, Node("array", <<Int1, Node("map", <<Under("unknown", Int1)>>)>>)}}
    \cup {Under("text", Int1)}

\* The options that are also put together in pairs, in both orders.
Paired ==
    {Under("versions", Node("array", <<Int1, Leaf("int", 2)>>)),
     Under("versions", Node("array", <<Leaf("int", UINT32_LIMIT)>>)),
     Under("manifest-list", Node("array", <<Leaf("bytes", 3)>>)),
     Under("manifest-list", Node("array", <<>>)),
     Under("suit-reports", Node("array", <<Leaf("bytes", 1)>>)),
     Under("unneeded-tc-list", Ids(<<Ids(<<Leaf("text", 1), Leaf("bytes", 2)>>), Ids(<<>>)>>)),
     Under("token", Leaf("bytes", 8)),
     Under("msg", Leaf("text", 1)),
     Under("unknown", Node("array", <<Int1, Node("map", <<Under("unknown", Int1)>>)>>)),
     Under("unknown", Int1)}

Types == {Leaf("int", n) : n \in {1, 2, 3, 5, 6}}
Rest == {<<>>, <<Int1>>, <<Node("array", <<Int1>>)>>}

\* Messages of every type with no option, one, or two of the paired ones; messages
\* with other parts wrong; and query requests with the tokens and the data items
\* that matter to the answer.
Trees ==
    {Message(t, Node("map", o), r) :
        t \in Types, o \in {<<>>} \cup [1 .. 1 -> Options] \cup [1 .. 2 -> Paired], r \in Rest}
    \cup {Message(Leaf("int", 4), Node("map", <<>>), <<Int1>>),
          Message(Leaf("text", 1), Node("map", <<>>), <<Int1>>),
          Message(Int1, Node("array", <<Int1>>), <<Int1>>),
          Message(Int1, Open(Node("map", <<Under("token", Leaf("bytes", 8))>>)), <<Int1>>),
          Node("map", <<Under("unknown", Int1)>>)}

TokenLens == {0, 8, 56, 57, 64, 2042, 2043}
Queries ==
    {Message(Int1, Node("map", o), <<Leaf("int", items)>>) :
        o \in {<<>>} \cup {<<Under("token", Leaf("bytes", n))>> : n \in TokenLens},
        items \in {0, 2, 3, 6, -1}}

Stream(t) == Flatten(t, 0, 0)
MCInput ==
    {[tree |-> t, items |-> Stream(t), complete |-> TRUE, whole |-> TRUE] :
        t \in Trees \cup Queries}
    \cup {[tree |-> t, items |-> Front(Stream(t)), complete |-> FALSE, whole |-> FALSE] :
             t \in Queries}
    \cup {[tree |-> t, items |-> Append(Stream(t), Stream(Int1)[1]), complete |-> TRUE,
           whole |-> FALSE] : t \in Queries}

Tc(n, m) == [len |-> n, mark |-> m]
MCRequestList ==
    {[i \in 1 .. n |-> Tc(127, m)] : n \in {0, 1, 15, 16}, m \in {"plain", "requested", "unneeded"}}
    \cup {<<Tc(0, "plain"), Tc(23, "requested"), Tc(24, "unneeded")>>}

----------------------------------------------------------------------------
(* Properties                                                              *)

\* A message parse_teep_message accepts is one that fits struct teep_message, to
\* the last byte, and its members hold what the message says, the last of two
\* equal options counting.  The other way round, what fits is accepted, unless
\* malloc returned NULL or the message uses one of the two things the parser does
\* not support.  A message that ends in a skipped option is left out.
AcceptedAsTree ==
    /\ phase = "parsed" /\ ~LastSkipped(input.tree) =>
          /\ input.whole
          /\ Conforms(input.tree)
          /\ type = KindOf(input.tree)
          /\ fields = Reading(input.tree)
    /\ phase = "refused" /\ input.whole /\ Conforms(input.tree) =>
          starved \/ Unsupported(input.tree) \/ LastSkipped(input.tree)

\* "skip unknown option" (libteep.c:406): an option the message type does not know
\* does not change whether the message is accepted, wherever it stands in the map.
UnknownOptionSkipped ==
    phase = "refused" /\ input.whole /\ Conforms(input.tree) =>
        starved \/ Unsupported(input.tree)
=============================================================================
