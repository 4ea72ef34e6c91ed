------------------------- MODULE TeepMessageProofs -------------------------
(***************************************************************************)
(* Proofs about the message codec, for every message of the TAM, well      *)
(* formed or not, and every list of requests: free_parsed_teep_message     *)
(* frees what the parser allocated, once, a QueryResponse of bounded parts *)
(* fits post_data, the parser accepts exactly the messages whose options   *)
(* fit and stores the last of each label, and the token comes back.        *)
(*                                                                         *)
(* They need induction over data: over the members of an array option, and *)
(* over the requests of a list.  It is done over sets: SetInduction turns  *)
(* a set that holds 0 and is closed under successor into all of Nat.       *)
(***************************************************************************)
EXTENDS TeepItems, WellFoundedInduction, TLAPS

----------------------------------------------------------------------------
(* Induction and recursion over Nat                                        *)

\* A set of numbers with no least number outside it has them all.
LEMMA SetInduction ==
    ASSUME NEW S, 0 \in S, \A n \in Nat : n \in S => n + 1 \in S
    PROVE  \A n \in Nat : n \in S
<1> DEFINE R == OpToRel(<, Nat)
           T == Nat \ S
<1>1. IsWellFoundedOn(R, Nat)
  BY NatLessThanWellFounded
<1>2. ASSUME T # {} PROVE FALSE
  <2> HIDE DEF R
  <2>1. PICK x \in T : \A y \in T : ~(<<y, x>> \in R)
    BY <1>1, <1>2, WFMin
  <2>2. x \in Nat /\ x # 0 /\ x - 1 \in Nat
    OBVIOUS
  <2>3. <<x - 1, x>> \in R
    BY <2>2 DEF R, OpToRel
  <2>4. x - 1 \in S
    BY <2>1, <2>2, <2>3
  <2>5. QED
    BY <2>2, <2>4
<1>3. QED
  BY <1>2

\* A function on 0 .. n whose values are computed by g from the one before.
Recursion(e, n, c, g) == e = [i \in 0 .. n |-> IF i = 0 THEN c ELSE g[<<e[i - 1], i>>]]

\* Such functions exist.
LEMMA RecursionExists ==
    ASSUME NEW S, NEW c \in S, NEW g \in [S \X Nat -> S]
    PROVE  \A n \in Nat : \E e \in [0 .. n -> S] : Recursion(e, n, c, g)
<1> DEFINE D == {n \in Nat : \E e \in [0 .. n -> S] : Recursion(e, n, c, g)}
<1>1. 0 \in D
  <2>1. [i \in 0 .. 0 |-> c] \in [0 .. 0 -> S]
    OBVIOUS
  <2>2. Recursion([i \in 0 .. 0 |-> c], 0, c, g)
    BY DEF Recursion
  <2>3. QED
    BY <2>1, <2>2
<1>2. ASSUME NEW n \in Nat, n \in D PROVE n + 1 \in D
  <2>1. PICK e \in [0 .. n -> S] : Recursion(e, n, c, g)
    BY <1>2
  <2> DEFINE next == [i \in 0 .. (n + 1) |-> IF i = n + 1 THEN g[<<e[n], n + 1>>] ELSE e[i]]
  <2>2. g[<<e[n], n + 1>>] \in S
    OBVIOUS
  <2>3. next \in [0 .. (n + 1) -> S]
    BY <2>2
  <2>4. ASSUME NEW i \in 0 .. (n + 1)
        PROVE  next[i] = IF i = 0 THEN c ELSE g[<<next[i - 1], i>>]
    <3>1. CASE i = n + 1
      <4>1. i # 0 /\ i - 1 = n /\ n \in 0 .. (n + 1) /\ n # n + 1
        BY <3>1
      <4>2. next[n] = e[n]
        BY <4>1
      <4>3. next[i] = g[<<e[n], i>>]
        BY <3>1
      <4>4. QED
        BY <4>1, <4>2, <4>3
    <3>2. CASE i \in 0 .. n
      <4>1. e[i] = IF i = 0 THEN c ELSE g[<<e[i - 1], i>>]
        BY <2>1, <3>2 DEF Recursion
      <4>2. next[i] = e[i]
        BY <3>2
      <4>3. i # 0 => next[i - 1] = e[i - 1]
        BY <3>2
      <4>4. QED
        BY <4>1, <4>2, <4>3
    <3>3. QED
      BY <3>1, <3>2
  <2>5. Recursion(next, n + 1, c, g)
    BY <2>4 DEF Recursion
  <2>6. QED
    BY <2>3, <2>5
<1>3. \A n \in Nat : n \in D
  <2> HIDE DEF D
  <2>1. QED
    BY <1>1, <1>2, SetInduction
<1>4. QED
  BY <1>3

----------------------------------------------------------------------------
(* Positions of items                                                      *)

\* An item has a count; past the end of the message there is one of no members.
LEMMA AtType ==
    ASSUME input \in Input, NEW p
    PROVE  /\ At(p).count \in Nat /\ At(p).val \in Int
           /\ At(p).label # "none" => p \in DOMAIN input.items /\ At(p) = input.items[p]
<1>1. CASE p \in DOMAIN input.items
  <2>1. input.items \in Seq(ItemType)
    BY TeepMessageAssumption
  <2>2. input.items[p] \in ItemType
    BY <1>1, <2>1
  <2>3. QED
    BY <1>1, <2>2 DEF At, ItemType
<1>2. CASE p \notin DOMAIN input.items
  BY <1>2 DEF At, NoItem
<1>3. QED
  BY <1>1, <1>2

\* Where a value that starts at p ends: at p or after it, or it is refused.
After(p, end) == end \in Nat /\ (end = 0 \/ end >= p)

\* A component id.
LEMMA ComponentIdAfter ==
    ASSUME input \in Input, NEW p \in Nat
    PROVE  After(p, ComponentIdEnd(p))
  BY AtType DEF After, ComponentIdEnd, ArrayEnd

\* The entry of a tc-info.
LEMMA TcInfoEntryAfter ==
    ASSUME input \in Input, NEW p \in Nat
    PROVE  After(p, TcInfoEntryEnd(p))
  BY ComponentIdAfter DEF After, TcInfoEntryEnd

\* Every end is computed by f from the one before.
Follows(e, p, n, f) ==
    /\ e[0] = p
    /\ \A i \in 0 .. (n - 1) : e[i + 1] = IF e[i] = 0 THEN 0 ELSE f[e[i] + 1]

\* The ends of consecutive values follow each other.
LEMMA EndsFollow ==
    ASSUME NEW p \in Nat, NEW n \in Nat, NEW f \in [Nat -> Nat]
    PROVE  Follows(Ends(p, n, f), p, n, f)
<1> DEFINE g == [x \in Nat \X Nat |-> IF x[1] = 0 THEN 0 ELSE f[x[1] + 1]]
           e == Ends(p, n, f)
<1>1. g \in [Nat \X Nat -> Nat]
  OBVIOUS
<1>2. PICK x \in [0 .. n -> Nat] : Recursion(x, n, p, g)
  <2> HIDE DEF g
  <2>1. QED
    BY <1>1, RecursionExists
<1>3. ASSUME NEW i \in 0 .. n, i # 0
      PROVE  g[<<x[i - 1], i>>] = IF x[i - 1] = 0 THEN 0 ELSE f[x[i - 1] + 1]
  <2>1. x[i - 1] \in Nat /\ i \in Nat
    BY <1>3
  <2>2. QED
    BY <2>1
<1>4. x = [i \in 0 .. n |-> IF i = 0 THEN p
              ELSE IF x[i - 1] = 0 THEN 0 ELSE f[x[i - 1] + 1]]
  <2> HIDE DEF g
  <2>1. QED
    BY <1>2, <1>3 DEF Recursion
<1>5. e = [i \in 0 .. n |-> IF i = 0 THEN p
              ELSE IF e[i - 1] = 0 THEN 0 ELSE f[e[i - 1] + 1]]
  BY <1>4, Zenon DEF Ends
<1> HIDE DEF e
<1>6. e[0] = p
  BY <1>5
<1>7. ASSUME NEW i \in 0 .. (n - 1)
      PROVE  e[i + 1] = IF e[i] = 0 THEN 0 ELSE f[e[i] + 1]
  <2>1. i + 1 \in 0 .. n /\ i + 1 # 0 /\ (i + 1) - 1 = i
    OBVIOUS
  <2>2. QED
    BY <1>5, <2>1
<1>8. Follows(e, p, n, f)
  BY <1>6, <1>7 DEF Follows
<1>9. QED
  BY <1>8 DEF e

\* If no value ends before it starts, neither does a row of them.
LEMMA EndsAfter ==
    ASSUME NEW p \in Nat, NEW n \in Nat, NEW f \in [Nat -> Nat],
           \A q \in Nat : After(q, f[q])
    PROVE  After(p, Ends(p, n, f)[n])
<1> DEFINE e == Ends(p, n, f)
           D == {i \in Nat : i <= n => After(p, e[i])}
<1>1. Follows(e, p, n, f)
  BY EndsFollow
<1> HIDE DEF e
<1>2. /\ e[0] = p
      /\ \A i \in 0 .. (n - 1) : e[i + 1] = IF e[i] = 0 THEN 0 ELSE f[e[i] + 1]
  BY <1>1 DEF Follows
<1>3. 0 \in D
  BY <1>2 DEF After
<1>4. ASSUME NEW i \in Nat, i \in D PROVE i + 1 \in D
  <2> SUFFICES ASSUME i + 1 <= n PROVE After(p, e[i + 1])
    OBVIOUS
  <2>1. After(p, e[i])
    BY <1>4
  <2>2. e[i + 1] = IF e[i] = 0 THEN 0 ELSE f[e[i] + 1]
    BY <1>2
  <2>3. CASE e[i] = 0
    BY <2>2, <2>3 DEF After
  <2>4. CASE e[i] # 0
    <3>1. After(e[i] + 1, f[e[i] + 1])
      BY <2>1 DEF After
    <3>2. QED
      BY <2>1, <2>2, <2>4, <3>1 DEF After
  <2>5. QED
    BY <2>3, <2>4
<1>5. \A i \in Nat : i \in D
  <2> HIDE DEF D
  <2>1. QED
    BY <1>3, <1>4, SetInduction
<1>6. After(p, e[n])
  BY <1>5
<1>7. QED
  BY <1>6 DEF e

\* A tc-info.
LEMMA TcInfoAfter ==
    ASSUME input \in Input, NEW p \in Nat
    PROVE  After(p, TcInfoEnd(p))
<1> DEFINE f == [q \in Nat |-> TcInfoEntryEnd(q)]
           n == At(p).count
<1>1. n \in Nat
  BY AtType
<1>2. f \in [Nat -> Nat] /\ \A q \in Nat : After(q, f[q])
  BY TcInfoEntryAfter DEF After
<1>3. TcInfoEnd(p) = IF At(p).type = "map" THEN Ends(p, n, f)[n] ELSE 0
  BY DEF TcInfoEnd, TcInfoEnds
<1> HIDE DEF f, n
<1>4. After(p, Ends(p, n, f)[n])
  BY <1>1, <1>2, EndsAfter
<1>5. QED
  BY <1>3, <1>4 DEF After

\* The value of an option of any kind, for any message.
LEMMA ValueAfter ==
    ASSUME input \in Input, NEW p \in Nat, NEW kind
    PROVE  After(p, ValueEnd(p, kind))
<1> DEFINE n == At(p).count
           ids == [q \in Nat |-> ComponentIdEnd(q)]
           infos == [q \in Nat |-> TcInfoEnd(q)]
<1>1. n \in Nat
  BY AtType
<1>2. ids \in [Nat -> Nat] /\ \A q \in Nat : After(q, ids[q])
  BY ComponentIdAfter DEF After
<1>3. infos \in [Nat -> Nat] /\ \A q \in Nat : After(q, infos[q])
  BY TcInfoAfter DEF After
<1>4. IdArrayEnds(p) = Ends(p, n, ids) /\ TcInfoArrayEnds(p) = Ends(p, n, infos)
  BY DEF IdArrayEnds, TcInfoArrayEnds
<1> HIDE DEF ids, infos
<1>5. After(p, IdArrayEnds(p)[n]) /\ After(p, TcInfoArrayEnds(p)[n])
  <2> HIDE DEF n
  <2>1. After(p, Ends(p, n, ids)[n])
    BY <1>1, <1>2, EndsAfter
  <2>2. After(p, Ends(p, n, infos)[n])
    BY <1>1, <1>3, EndsAfter
  <2>3. QED
    BY <1>4, <2>1, <2>2
<1>6. \A fit : After(p, ArrayEnd(p, fit))
  BY <1>1 DEF ArrayEnd, After
<1>7. \A b \in BOOLEAN : After(p, IF b THEN p ELSE 0)
  BY DEF After
<1>8. QED
  BY <1>5, <1>6, <1>7 DEF ValueEnd

----------------------------------------------------------------------------
(* Allocations                                                             *)

\* Where the options are read, and where the message has been released.
Reading == phase \in {"options", "option", "skip"}
Freed == phase \in {"refused", "released", "posting"}

\* The types of the variables, as far as the proofs need them.
ParserType ==
    /\ input \in Input /\ pos \in Nat
    /\ type \in MessageKind \cup {"none"}
    /\ ptr \subseteq ArrayLabel
    /\ live \in [ArrayLabel -> Nat]

\* There is a message, of a type that has a table of arrays, as soon as there is
\* one to free; the pointers that are set are in the table of its type, and none
\* is set any more once it has been freed.
PointersInTable ==
    /\ phase = "header" => pos = 0 /\ \A l \in ArrayLabel : live[l] = 0
    /\ phase \notin {"header", "refused", "posting"} => type \in MessageKind
    /\ phase = "header" \/ Freed => ptr = {}
    /\ type \in MessageKind => ptr \subseteq ArraysFreed(type)

\* An option with label l has been read.
Seen(l) == \E i \in DOMAIN input.items : input.items[i].label = l /\ (Reading => i <= pos)

\* A block belongs to an option that was read; a pointer points at a block; and
\* unless the option came twice there is one block for a pointer and none without.
BlocksOwned ==
    \A l \in ArrayLabel :
        /\ live[l] > 0 => Seen(l)
        /\ l \in ptr => live[l] > 0
        /\ Twice(l) \/ live[l] = IF l \in ptr THEN 1 ELSE 0

LeakInv == ParserType /\ PointersInTable /\ BlocksOwned

\* Every array that parse_option takes in a message is one that
\* free_parsed_teep_message frees in a message of its type.
LEMMA ArrayOption ==
    ASSUME NEW l, NEW t \in MessageKind, OptionKind(l, t) \in ArrayKind
    PROVE  l \in ArraysFreed(t) /\ l \in ArrayLabel
  BY DEF OptionKind, ArraysFreed, ArrayLabel, ArrayKind, MessageKind

\* Only arrays are freed.
LEMMA FreedAreArrays ==
    ASSUME NEW t \in MessageKind
    PROVE  ArraysFreed(t) \subseteq ArrayLabel
  BY DEF ArraysFreed, ArrayLabel, MessageKind

\* Nothing is allocated at the start.
LEMMA LeakInit == Init => LeakInv
<1> SUFFICES ASSUME Init PROVE LeakInv
  OBVIOUS
<1>1. ParserType
  BY DEF Init, ParserType
<1>2. PointersInTable
  BY DEF Init, PointersInTable, Freed, MessageKind
<1>3. BlocksOwned
  BY DEF Init, BlocksOwned
<1>4. QED
  BY <1>1, <1>2, <1>3 DEF LeakInv

\* Steps that neither allocate nor free, and do not read backwards.
LEMMA SameBlocks ==
    ASSUME LeakInv, UNCHANGED <<input, ptr, live>>, pos' \in Nat, pos' >= pos,
           Reading' => Reading \/ phase = "header",
           type' = type \/ (phase = "header" /\ type' \in MessageKind),
           phase' # "header",
           Freed' => Freed \/ phase = "header",
           phase' \notin {"refused", "posting"} => type' \in MessageKind
    PROVE  LeakInv'
<1>1. ParserType'
  BY DEF LeakInv, ParserType
<1>2. PointersInTable'
  BY DEF LeakInv, PointersInTable, Freed
<1>3. BlocksOwned'
  <2> SUFFICES ASSUME NEW l \in ArrayLabel
               PROVE  /\ live'[l] > 0 => Seen(l)'
                      /\ l \in ptr' => live'[l] > 0
                      /\ Twice(l)' \/ live'[l] = IF l \in ptr' THEN 1 ELSE 0
    BY DEF BlocksOwned
  <2>1. live'[l] > 0 => Seen(l)'
    <3> SUFFICES ASSUME live[l] > 0 PROVE Seen(l)'
      OBVIOUS
    <3>1. PICK i \in DOMAIN input.items : input.items[i].label = l /\ (Reading => i <= pos)
      BY DEF LeakInv, BlocksOwned, Seen
    <3>2. phase # "header"
      BY DEF LeakInv, PointersInTable
    <3>3. Reading' => i <= pos'
      <4>1. i \in Nat /\ pos \in Nat
        BY TeepMessageAssumption DEF LeakInv, ParserType
      <4>2. QED
        BY <3>1, <3>2, <4>1
    <3>4. QED
      BY <3>1, <3>3 DEF Seen
  <2>2. Twice(l)' = Twice(l)
    BY DEF Twice
  <2>3. QED
    BY <2>1, <2>2 DEF LeakInv, BlocksOwned
<1>4. QED
  BY <1>1, <1>2, <1>3 DEF LeakInv

\* The steps that neither allocate nor free.
LEMMA OtherSteps ==
    ASSUME LeakInv,
           \/ ReadHeader \/ OpenOptions \/ RefuseLabel \/ ReadScalar
           \/ SkipOption \/ SkipItem \/ SkipDone \/ ReadTrailing \/ Finish \/ HandleMessage
           \/ \E list \in RequestList : BuildQueryResponse(list)
           \/ BuildSuccess \/ BuildError
    PROVE  LeakInv'
<1> USE DEF Reading, Freed, InOption, sessionVars, parserVars
<1>1. CASE ReadHeader
  <2>1. /\ UNCHANGED <<input, ptr, live>> /\ pos' = 2 /\ pos = 0
        /\ phase = "header" /\ phase' \in {"options", "refused"}
        /\ phase' = "options" => type' \in MessageKind
        /\ phase' = "refused" => type' = type
    BY <1>1 DEF ReadHeader, LeakInv, PointersInTable, TypeOf, MessageKind
  <2>2. type' = type \/ type' \in MessageKind
    BY <2>1
  <2>3. QED
    BY <2>1, <2>2, SameBlocks
<1>2. CASE OpenOptions \/ RefuseLabel \/ SkipOption \/ SkipItem \/ SkipDone \/ Finish
  <2>1. /\ UNCHANGED <<input, ptr, live, type>> /\ (pos' = pos \/ pos' = pos + 1)
        /\ phase \in {"options", "option", "skip", "finish"}
        /\ phase' \in {"option", "skip", "err", "parsed"} /\ (Reading' => Reading)
    BY <1>2 DEF OpenOptions, RefuseLabel, SkipOption, SkipItem, SkipDone, Finish
  <2>2. pos' \in Nat /\ pos' >= pos /\ type \in MessageKind
    BY <2>1 DEF LeakInv, ParserType, PointersInTable
  <2>3. QED
    BY <2>1, <2>2, SameBlocks
<1>3. CASE ReadScalar \/ ReadTrailing
  <2>1. /\ UNCHANGED <<input, ptr, live, type>> /\ (pos' = pos \/ pos' = pos + 1)
        /\ phase = "option" /\ phase' \in {"option", "err", "finish"}
    BY <1>3 DEF ReadScalar, ReadTrailing
  <2>2. pos' \in Nat /\ pos' >= pos /\ type \in MessageKind
    BY <2>1 DEF LeakInv, ParserType, PointersInTable
  <2>3. QED
    BY <2>1, <2>2, SameBlocks
<1>4. CASE HandleMessage
  <2>1. /\ UNCHANGED <<input, ptr, live, type, pos>>
        /\ phase = "parsed" /\ phase' \in {"handled", "crashed"}
    BY <1>4 DEF HandleMessage
  <2>2. pos' \in Nat /\ pos' >= pos /\ type \in MessageKind
    BY <2>1 DEF LeakInv, ParserType, PointersInTable
  <2>3. QED
    BY <2>1, <2>2, SameBlocks
<1>5. CASE \/ \E list \in RequestList : BuildQueryResponse(list)
           \/ BuildSuccess \/ BuildError
  <2>1. /\ UNCHANGED <<input, ptr, live, type, pos>>
        /\ phase \in {"released", "refused", "posting"} /\ phase' = "posting"
    BY <1>5 DEF BuildQueryResponse, BuildSuccess, BuildError
  <2>2. pos' \in Nat /\ pos' >= pos
    BY <2>1 DEF LeakInv, ParserType
  <2>3. QED
    BY <2>1, <2>2, SameBlocks
<1>6. QED
  BY <1>1, <1>2, <1>3, <1>4, <1>5

\* free_parsed_teep_message: every pointer that is set is in the table.
LEMMA FreeKeeps ==
    ASSUME LeakInv, FreeParsed, UNCHANGED <<input, pos, type>>, type \in MessageKind,
           phase' \in {"refused", "released"}
    PROVE  LeakInv'
<1>1. ASSUME NEW l \in ArrayLabel
      PROVE  live'[l] = IF l \in ptr THEN live[l] - 1 ELSE live[l]
  BY DEF LeakInv, PointersInTable, FreeParsed
<1>2. \A l \in ArrayLabel : live[l] \in Nat /\ (l \in ptr => live[l] > 0)
  BY DEF LeakInv, ParserType, BlocksOwned
<1>3. ptr' = {}
  BY DEF FreeParsed
<1>4. ParserType'
  <2>1. \A l \in ArrayLabel : live'[l] \in Nat
    BY <1>1, <1>2
  <2>2. live' = [l \in ArrayLabel |-> live'[l]]
    BY DEF FreeParsed
  <2>3. live' \in [ArrayLabel -> Nat]
    BY <2>1, <2>2, Zenon
  <2>4. QED
    BY <1>3, <2>3 DEF LeakInv, ParserType
<1>5. PointersInTable'
  BY <1>3 DEF PointersInTable
<1>6. BlocksOwned'
  <2> SUFFICES ASSUME NEW l \in ArrayLabel
               PROVE  /\ live'[l] > 0 => Seen(l)'
                      /\ l \in ptr' => live'[l] > 0
                      /\ Twice(l)' \/ live'[l] = IF l \in ptr' THEN 1 ELSE 0
    BY DEF BlocksOwned
  <2>1. live'[l] > 0 => Seen(l)'
    <3>1. live'[l] > 0 => live[l] > 0
      BY <1>1, <1>2
    <3>2. Seen(l) => Seen(l)'
      BY DEF Seen, Reading
    <3>3. QED
      BY <3>1, <3>2 DEF LeakInv, BlocksOwned
  <2>2. Twice(l)' = Twice(l)
    BY DEF Twice
  <2>3. QED
    BY <1>1, <1>3, <2>1, <2>2 DEF LeakInv, BlocksOwned
<1>7. QED
  BY <1>4, <1>5, <1>6 DEF LeakInv

\* An array option: a block is added and its pointer set, or the pointer is lost.
LEMMA ReadArrayKeeps ==
    ASSUME LeakInv, ReadArray
    PROVE  LeakInv'
<1> DEFINE end == ValueEnd(pos + 1, Kind)
<1>0. PICK l : l = Option.label
  OBVIOUS
<1>1. /\ phase = "option" /\ UNCHANGED <<input, type>> /\ l \notin {"none", "text"}
      /\ Kind \in ArrayKind /\ phase' \in {"option", "err"}
  BY <1>0 DEF ReadArray, InOption
<1>2. /\ input \in Input /\ pos \in Nat /\ pos + 1 \in Nat /\ type \in MessageKind
      /\ live \in [ArrayLabel -> Nat]
  BY <1>1 DEF LeakInv, ParserType, PointersInTable
<1>3. /\ pos + 1 \in DOMAIN input.items /\ input.items[pos + 1].label = l
  BY <1>0, <1>1, <1>2, AtType DEF Option
<1>4. l \in ArraysFreed(type) /\ l \in ArrayLabel
  BY <1>0, <1>1, <1>2, ArrayOption DEF Kind
<1>5. end \in Nat /\ (end # 0 => end >= pos + 1)
  BY <1>2, ValueAfter DEF After
<1> HIDE DEF end
<1>6. \/ UNCHANGED <<ptr, live>> /\ pos' = pos + 1 /\ phase' = "err"
      \/ /\ ptr' = ptr \ {l} /\ live' = live /\ pos' = pos + 1 /\ phase' = "err"
      \/ /\ ptr' = ptr \cup {l} /\ live' = [live EXCEPT ![l] = live[l] + 1]
         /\ \/ phase' = "err" /\ pos' = pos
            \/ end # 0 /\ pos' = end /\ phase' = phase
  BY <1>0 DEF ReadArray, end
<1>7. pos' \in Nat /\ (phase' = "option" => pos' >= pos + 1)
  BY <1>1, <1>2, <1>5, <1>6
<1>8. ParserType'
  BY <1>1, <1>2, <1>4, <1>6, <1>7 DEF LeakInv, ParserType
<1>9. PointersInTable'
  BY <1>1, <1>2, <1>4, <1>6 DEF LeakInv, PointersInTable, Freed
<1>10. ASSUME NEW k \in ArrayLabel
       PROVE  /\ live'[k] > 0 => Seen(k)'
              /\ k \in ptr' => live'[k] > 0
              /\ Twice(k)' \/ live'[k] = IF k \in ptr' THEN 1 ELSE 0
  <2>1. \A i \in DOMAIN input.items : i \in Nat
    <3>1. input.items \in Seq(ItemType)
      BY <1>2, TeepMessageAssumption
    <3>2. QED
      BY <3>1
  <2>2. Seen(k) => Seen(k)'
    <3> SUFFICES ASSUME Seen(k) PROVE Seen(k)'
      OBVIOUS
    <3>1. PICK i \in DOMAIN input.items : input.items[i].label = k /\ i <= pos
      BY <1>1 DEF Seen, Reading
    <3>2. Reading' => i <= pos'
      BY <1>1, <1>2, <1>7, <2>1, <3>1 DEF Reading
    <3>3. QED
      BY <1>1, <3>1, <3>2 DEF Seen
  <2>3. Seen(l)'
    BY <1>1, <1>2, <1>3, <1>7 DEF Seen, Reading
  <2>4. Twice(k)' = Twice(k)
    BY <1>1 DEF Twice
  <2>5. Seen(l) => Twice(l)
    <3> SUFFICES ASSUME Seen(l) PROVE Twice(l)
      OBVIOUS
    <3>1. PICK i \in DOMAIN input.items : input.items[i].label = l /\ i <= pos
      BY <1>1 DEF Seen, Reading
    <3>2. i # pos + 1
      BY <1>2, <2>1, <3>1
    <3>3. QED
      BY <1>3, <3>1, <3>2 DEF Twice
  <2>6. CASE k # l
    <3>1. live'[k] = live[k] /\ (k \in ptr' <=> k \in ptr)
      BY <1>2, <1>6, <2>6
    <3>2. QED
      BY <2>2, <2>4, <3>1 DEF LeakInv, BlocksOwned
  <2>7. CASE k = l
    <3>1. live[l] \in Nat /\ (live[l] > 0 => Twice(l))
      BY <1>2, <1>4, <2>5 DEF LeakInv, BlocksOwned
    <3>2. CASE UNCHANGED <<ptr, live>>
      BY <2>2, <2>4, <2>7, <3>2 DEF LeakInv, BlocksOwned
    <3>3. CASE ptr' = ptr \ {l} /\ live' = live
      BY <2>2, <2>3, <2>4, <2>7, <3>1, <3>3 DEF LeakInv, BlocksOwned
    <3>4. CASE ptr' = ptr \cup {l} /\ live' = [live EXCEPT ![l] = live[l] + 1]
      <4>1. live'[l] = live[l] + 1
        BY <1>2, <1>4, <3>4
      <4>2. QED
        BY <2>3, <2>4, <2>7, <3>1, <3>4, <4>1
    <3>5. QED
      BY <1>6, <3>2, <3>3, <3>4
  <2>8. QED
    BY <2>6, <2>7
<1>11. BlocksOwned'
  BY <1>10 DEF BlocksOwned
<1>12. QED
  BY <1>8, <1>9, <1>11 DEF LeakInv

\* Every step of the codec preserves the invariant.
LEMMA LeakNext == LeakInv /\ [Next]_vars => LeakInv'
<1> SUFFICES ASSUME LeakInv, [Next]_vars PROVE LeakInv'
  OBVIOUS
<1>1. CASE Refuse \/ Release
  <2>1. /\ FreeParsed /\ UNCHANGED <<input, pos, type>> /\ phase' \in {"refused", "released"}
        /\ phase \in {"err", "handled"}
    BY <1>1 DEF Refuse, Release
  <2>2. type \in MessageKind
    BY <2>1 DEF LeakInv, PointersInTable
  <2>3. QED
    BY <2>1, <2>2, FreeKeeps
<1>2. CASE ReadArray
  BY <1>2, ReadArrayKeeps
<1>3. CASE UNCHANGED vars
  <2>1. UNCHANGED <<input, pos, phase, type, ptr, live>>
    BY <1>3 DEF vars, parserVars
  <2>2. QED
    BY <2>1 DEF LeakInv, ParserType, PointersInTable, BlocksOwned, Freed, Seen, Reading, Twice
<1>4. CASE Next /\ ~(Refuse \/ Release \/ ReadArray)
  BY <1>4, OtherSteps DEF Next, ParseStep
<1>5. QED
  BY <1>1, <1>2, <1>3, <1>4

\* The inductive invariant of the parser's allocations, for every input.
THEOREM AllocationInvariant == Spec => []LeakInv
  BY LeakInit, LeakNext, PTL DEF Spec

\* No array is leaked or freed twice: for every message that parse_teep_message is
\* given, accepted or refused at any item, free_parsed_teep_message leaves no block
\* behind, unless an option came twice.
THEOREM NeverLeaks == Spec => []NothingLeaked
<1>1. LeakInv => NothingLeaked
  BY DEF LeakInv, PointersInTable, BlocksOwned, NothingLeaked, Freed
<1>2. QED
  BY <1>1, AllocationInvariant, PTL

----------------------------------------------------------------------------
(* The messages that are built                                             *)

\* The largest encoding of one request: {component-id: [id]} with an id of IdMax.
TcMax == 132

LEMMA AddTcBound ==
    ASSUME NEW r \in RequestType
    PROVE  AddTc(r) \in 0 .. TcMax
  BY DEF RequestType, IdMax, AddTc, StringLen, HeadLen, TcMax

\* The encoding of a list is bounded by that of its members.
LEMMA ListLenBound ==
    ASSUME NEW list \in Seq(RequestType)
    PROVE  ListLen(list) \in Nat /\ ListLen(list) <= 6 + TcMax * Len(list)
<1> DEFINE n == Len(list)
           g == [x \in Nat \X Nat |->
                    IF x[2] \in 1 .. n THEN x[1] + AddTc(list[x[2]]) ELSE 0]
           Sum(x) == x = [i \in 0 .. n |-> IF i = 0 THEN 0 ELSE x[i - 1] + AddTc(list[i])]
<1>1. n \in Nat /\ \A i \in 1 .. n : AddTc(list[i]) \in 0 .. TcMax
  BY AddTcBound
<1>2. g \in [Nat \X Nat -> Nat]
  <2>1. ASSUME NEW u \in Nat, NEW i \in 1 .. n
        PROVE  u + AddTc(list[i]) \in Nat
    <3>1. AddTc(list[i]) \in 0 .. 132
      BY <1>1, Zenon DEF TcMax
    <3>2. \A a \in 0 .. 132 : u + a \in Nat
      OBVIOUS
    <3>3. QED
      BY <3>1, <3>2, Zenon
  <2>2. QED
    BY <2>1
<1>3. PICK x \in [0 .. n -> Nat] : Recursion(x, n, 0, g)
  <2> HIDE DEF g, n
  <2>1. QED
    BY <1>1, <1>2, RecursionExists
<1>4. ASSUME NEW i \in 0 .. n, i # 0
      PROVE  g[<<x[i - 1], i>>] = x[i - 1] + AddTc(list[i])
  <2>1. x[i - 1] \in Nat /\ i \in Nat /\ i \in 1 .. n
    BY <1>1, <1>4, SMTT(30)
  <2>2. QED
    BY <2>1
<1>5. Sum(x)
  <2> HIDE DEF g, n
  <2>1. QED
    BY <1>3, <1>4 DEF Recursion
<1>6. PICK s : Sum(s) /\ ListLen(list) = 6 + s[n]
  BY <1>5, Zenon DEF ListLen
<1> DEFINE D == {i \in Nat : i <= n => s[i] \in Nat /\ s[i] <= TcMax * i}
<1> HIDE DEF n
<1>7. 0 \in D
  <2>1. s[0] = 0
    BY <1>1, <1>6
  <2>2. QED
    BY <2>1 DEF TcMax
<1>8. ASSUME NEW i \in Nat, i \in D PROVE i + 1 \in D
  <2> SUFFICES ASSUME i + 1 <= n
               PROVE  s[i + 1] \in Nat /\ s[i + 1] <= TcMax * (i + 1)
    OBVIOUS
  <2>1. s[i] \in Nat /\ s[i] <= TcMax * i
    BY <1>1, <1>8
  <2>2. i + 1 \in 0 .. n /\ i + 1 # 0 /\ (i + 1) - 1 = i /\ i + 1 \in 1 .. n
    BY <1>1
  <2>3. s[i + 1] = s[i] + AddTc(list[i + 1])
    BY <1>6, <2>2
  <2>4. AddTc(list[i + 1]) \in 0 .. TcMax
    BY <1>1, <2>2
  <2>5. \A u \in Nat, a \in 0 .. TcMax :
            u <= TcMax * i => u + a \in Nat /\ u + a <= TcMax * (i + 1)
    BY DEF TcMax
  <2>6. QED
    BY <2>1, <2>3, <2>4, <2>5, Zenon
<1>9. \A i \in Nat : i \in D
  <2> HIDE DEF D
  <2>1. QED
    BY <1>7, <1>8, SetInduction
<1>10. s[n] \in Nat /\ s[n] <= TcMax * n
  BY <1>1, <1>9
<1>11. QED
  BY <1>1, <1>6, <1>10 DEF n, TcMax

\* The token, with its label.
LEMMA AddTokenBound ==
    ASSUME NEW t \in Int
    PROVE  AddToken(t) \in Int /\ (t <= SafeToken => AddToken(t) <= 59)
  BY DEF AddToken, StringLen, HeadLen, SafeToken, Null

\* The session's token is a length or Null, and it is final before anything is built
\* from it.
SessionInv ==
    /\ input \in Input
    /\ "token" \in DOMAIN fields => fields["token"] \in Int
    /\ session_token \in Int
    /\ posted.type # "none" => phase = "posting"
    /\ BuiltWhole

\* Nothing has been built at the start.
LEMMA SessionInit == Init => SessionInv
  BY DEF Init, SessionInv, BuiltWhole, Empty, Null

\* A step of the parser that stores a member of m, or none.
LEMMA FieldsKept ==
    ASSUME NEW l, NEW x, l = "token" => x \in Int,
           "token" \in DOMAIN fields => fields["token"] \in Int
    PROVE  "token" \in DOMAIN With(fields, l, x) => With(fields, l, x)["token"] \in Int
  BY DEF With

\* A token is a string, in every message.
LEMMA TokenIsString ==
    ASSUME NEW t
    PROVE  OptionKind("token", t) = "bytes"
  BY DEF OptionKind

\* Until the answer is built, nothing is; the token of a QueryRequest is copied.
LEMMA SessionParse ==
    ASSUME SessionInv, ParseStep
    PROVE  SessionInv'
<1>1. phase # "posting" /\ posted.type = "none" /\ posted' = posted /\ input' = input
  <2>1. phase # "posting"
    BY DEF ParseStep, ReadHeader, OpenOptions, RefuseLabel, ReadScalar, ReadArray, SkipOption,
           SkipItem, SkipDone, ReadTrailing, Finish, Refuse, HandleMessage, Release, InOption
  <2>2. posted' = posted /\ input' = input
    BY DEF ParseStep, ReadHeader, OpenOptions, RefuseLabel, ReadScalar, ReadArray, SkipOption,
           SkipItem, SkipDone, ReadTrailing, Finish, Refuse, HandleMessage, Release, sessionVars
  <2>3. QED
    BY <2>1, <2>2 DEF SessionInv
<1>2. "token" \in DOMAIN fields' => fields'["token"] \in Int
  <2>1. CASE \/ ReadHeader \/ OpenOptions \/ RefuseLabel \/ SkipOption \/ SkipItem \/ SkipDone
             \/ Finish \/ HandleMessage
    BY <2>1 DEF ReadHeader, OpenOptions, RefuseLabel, SkipOption, SkipItem, SkipDone, Finish,
                HandleMessage, SessionInv
  <2>2. CASE Refuse \/ Release
    BY <2>2 DEF Refuse, Release, FreeParsed, Empty
  <2>3. CASE ReadScalar
    <3>1. fields' = fields \/ fields' = With(fields, Option.label, Value(pos + 1, Kind))
      BY <2>3 DEF ReadScalar
    <3>2. Option.label = "token" => Value(pos + 1, Kind) \in Int
      <4> SUFFICES ASSUME Option.label = "token" PROVE Value(pos + 1, Kind) \in Int
        OBVIOUS
      <4>1. Kind = "bytes"
        BY TokenIsString DEF Kind
      <4>2. Value(pos + 1, Kind) = At(pos + 1).val
        BY <4>1 DEF Value
      <4>3. QED
        BY <4>2, AtType DEF SessionInv
    <3>3. QED
      BY <3>1, <3>2, FieldsKept DEF SessionInv
  <2>4. CASE ReadArray
    <3>1. Option.label # "token"
      BY <2>4, TokenIsString DEF ReadArray, Kind, ArrayKind
    <3>2. fields' = fields \/ fields' = With(fields, Option.label, Value(pos + 1, Kind))
      BY <2>4 DEF ReadArray
    <3>3. QED
      BY <3>1, <3>2, FieldsKept DEF SessionInv
  <2>5. CASE ReadTrailing
    <3>1. fields' = fields \/ fields' = With(fields, TrailingField, At(pos + 1).val)
      BY <2>5 DEF ReadTrailing
    <3>2. TrailingField # "token"
      BY DEF TrailingField
    <3>3. QED
      BY <3>1, <3>2, FieldsKept DEF SessionInv
  <2>6. QED
    BY <2>1, <2>2, <2>3, <2>4, <2>5 DEF ParseStep
<1>3. session_token' \in Int
  <2>1. CASE HandleMessage
    <3>1. TokenLen \in Int
      BY DEF TokenLen, Token, Null, SessionInv
    <3>2. QED
      BY <2>1, <3>1 DEF HandleMessage, Null, SessionInv
  <2>2. CASE ~HandleMessage
    BY <2>2 DEF ParseStep, ReadHeader, OpenOptions, RefuseLabel, ReadScalar, ReadArray,
           SkipOption, SkipItem, SkipDone, ReadTrailing, Finish, Refuse, Release, sessionVars,
           SessionInv
  <2>3. QED
    BY <2>1, <2>2
<1>4. QED
  BY <1>1, <1>2, <1>3 DEF SessionInv, BuiltWhole

\* A message is built: what is in it fits.
LEMMA SessionBuild ==
    ASSUME SessionInv, POST_DATA_LEN >= 2048,
           \/ \E list \in RequestList : BuildQueryResponse(list)
           \/ BuildSuccess \/ BuildError
    PROVE  SessionInv'
<1>1. /\ input \in Input /\ session_token \in Int /\ POST_DATA_LEN \in Nat
  BY TeepMessageAssumption DEF SessionInv
<1>2. /\ UNCHANGED <<input, fields, session_token>> /\ phase' = "posting"
  BY DEF BuildQueryResponse, BuildSuccess, BuildError, parserVars
<1>3. PICK t \in {"query-response", "success", "error"}, c \in Nat, len \in Int :
          /\ Built(t, c, len)
          /\ session_token <= SafeToken /\ c <= SafeRequests => len <= 2048
  <2> DEFINE tok == AddToken(session_token)
  <2>1. tok \in Int /\ (session_token <= SafeToken => tok <= 59)
    BY <1>1, AddTokenBound
  <2> HIDE DEF tok
  <2>2. ASSUME NEW list \in RequestList, BuildQueryResponse(list)
        PROVE  \E t \in {"query-response", "success", "error"}, c \in Nat, len \in Int :
                  /\ Built(t, c, len)
                  /\ session_token <= SafeToken /\ c <= SafeRequests => len <= 2048
    <3>1. list \in Seq(RequestType) /\ Len(list) \in Nat
      BY TeepMessageAssumption
    <3>2. ListLen(list) \in Nat /\ ListLen(list) <= 6 + 132 * Len(list)
      BY <3>1, ListLenBound DEF TcMax
    <3>3. ResponseLen(list) \in Int
          /\ ResponseLen(list) <= 3 + tok + ListLen(list)
      BY <2>1, <3>2 DEF ResponseLen, tok
    <3>4. session_token <= SafeToken /\ Len(list) <= SafeRequests => ResponseLen(list) <= 2048
      BY <1>1, <2>1, <3>1, <3>2, <3>3 DEF SafeRequests
    <3>5. Built("query-response", Len(list), ResponseLen(list))
      BY <2>2 DEF BuildQueryResponse
    <3>6. QED
      BY <3>1, <3>3, <3>4, <3>5
  <2>3. ASSUME BuildSuccess
        PROVE  \E t \in {"query-response", "success", "error"}, c \in Nat, len \in Int :
                  /\ Built(t, c, len)
                  /\ session_token <= SafeToken /\ c <= SafeRequests => len <= 2048
    <3>1. Built("success", 0, 3 + tok)
      BY <2>3 DEF BuildSuccess, tok
    <3>2. 3 + tok \in Int /\ (session_token <= SafeToken => 3 + tok <= 2048)
      BY <2>1
    <3>3. QED
      BY <3>1, <3>2
  <2>4. ASSUME BuildError
        PROVE  \E t \in {"query-response", "success", "error"}, c \in Nat, len \in Int :
                  /\ Built(t, c, len)
                  /\ session_token <= SafeToken /\ c <= SafeRequests => len <= 2048
    <3>1. Built("error", 0, 3 + tok + 2)
      BY <2>4 DEF BuildError, HeadLen, tok
    <3>2. 3 + tok + 2 \in Int /\ (session_token <= SafeToken => 3 + tok + 2 <= 2048)
      BY <2>1
    <3>3. QED
      BY <3>1, <3>2
  <2>5. QED
    BY <2>2, <2>3, <2>4
<1>4. posted'.components = c /\ posted'.needed = len
  BY <1>3 DEF Built
<1>5. BuiltWhole'
  BY <1>1, <1>2, <1>3, <1>4 DEF BuiltWhole
<1>6. QED
  BY <1>2, <1>5 DEF SessionInv

\* post_data holds every QueryResponse of at most SafeRequests components, Success
\* and Error with a token of at most SafeToken bytes, for all lists and messages:
\* for them it is harmless that query_next_broker_task does not look at the result
\* of the encoder.
THEOREM AnswersFit == POST_DATA_LEN >= 2048 => (Spec => []BuiltWhole)
<1> SUFFICES ASSUME POST_DATA_LEN >= 2048 PROVE Spec => []BuiltWhole
  OBVIOUS
<1>1. SessionInv /\ [Next]_vars => SessionInv'
  <2> SUFFICES ASSUME SessionInv, [Next]_vars PROVE SessionInv'
    OBVIOUS
  <2>1. CASE ParseStep
    BY <2>1, SessionParse
  <2>2. CASE \/ \E list \in RequestList : BuildQueryResponse(list)
             \/ BuildSuccess \/ BuildError
    BY <2>2, SessionBuild
  <2>3. CASE UNCHANGED vars
    BY <2>3 DEF vars, parserVars, sessionVars, SessionInv, BuiltWhole
  <2>4. QED
    BY <2>1, <2>2, <2>3 DEF Next
<1>2. SessionInv => BuiltWhole
  BY DEF SessionInv
<1>3. QED
  BY <1>1, <1>2, SessionInit, PTL DEF Spec
----------------------------------------------------------------------------
(* The token                                                               *)

\* A byte string of the message under the label of the token.
TokenItem(t) ==
    \E i \in DOMAIN input.items :
        /\ input.items[i].label = "token" /\ input.items[i].type = "bytes"
        /\ input.items[i].val = t

\* An answer bears a token only if the message was a QueryRequest that has it, or
\* no token to speak of.
ReceivedToken(t) == t \in {Null, 0} \/ (type = "query-request" /\ TokenItem(t))

TokenInv ==
    /\ "token" \in DOMAIN fields => TokenItem(fields["token"])
    /\ phase = "header" => session_token = Null
    /\ ReceivedToken(session_token)
    /\ posted.type # "none" => phase = "posting" /\ posted.token = session_token

\* Nothing has been read at the start.
LEMMA TokenInit == Init => TokenInv
  BY DEF Init, TokenInv, ReceivedToken, Empty

\* A member that is stored under another name leaves the token.
LEMMA TokenKept ==
    ASSUME NEW l, NEW x, l = "token" => TokenItem(x),
           "token" \in DOMAIN fields => TokenItem(fields["token"])
    PROVE  "token" \in DOMAIN With(fields, l, x) => TokenItem(With(fields, l, x)["token"])
<1>1. CASE l = "token"
  <2>1. With(fields, l, x)["token"] = x
    BY <1>1 DEF With
  <2>2. QED
    BY <1>1, <2>1
<1>2. CASE l # "token"
  <2>1. "token" \in DOMAIN With(fields, l, x) =>
            "token" \in DOMAIN fields /\ With(fields, l, x)["token"] = fields["token"]
    BY <1>2 DEF With
  <2>2. QED
    BY <2>1
<1>3. QED
  BY <1>1, <1>2

\* The parser and its caller: the token in m is an item of the message, and the
\* session's is a copy of it.
LEMMA TokenParse ==
    ASSUME TokenInv, ParseStep
    PROVE  TokenInv'
<1>1. /\ phase # "posting" /\ phase' # "header" /\ posted.type = "none"
      /\ posted' = posted /\ input' = input
  <2>1. phase # "posting"
    BY DEF ParseStep, ReadHeader, OpenOptions, RefuseLabel, ReadScalar, ReadArray, SkipOption,
           SkipItem, SkipDone, ReadTrailing, Finish, Refuse, HandleMessage, Release, InOption
  <2>2. posted' = posted /\ input' = input
    BY DEF ParseStep, ReadHeader, OpenOptions, RefuseLabel, ReadScalar, ReadArray, SkipOption,
           SkipItem, SkipDone, ReadTrailing, Finish, Refuse, HandleMessage, Release, sessionVars
  <2>3. phase' # "header"
    BY DEF ParseStep, ReadHeader, OpenOptions, RefuseLabel, ReadScalar, ReadArray, SkipOption,
           SkipItem, SkipDone, ReadTrailing, Finish, Refuse, HandleMessage, Release, InOption
  <2>4. QED
    BY <2>1, <2>2, <2>3 DEF TokenInv
<1>2. \A t : TokenItem(t)' <=> TokenItem(t)
  BY <1>1 DEF TokenItem
<1>3. "token" \in DOMAIN fields' => TokenItem(fields'["token"])
  <2>1. CASE \/ ReadHeader \/ OpenOptions \/ RefuseLabel \/ SkipOption \/ SkipItem \/ SkipDone
             \/ Finish \/ HandleMessage
    BY <2>1 DEF ReadHeader, OpenOptions, RefuseLabel, SkipOption, SkipItem, SkipDone, Finish,
                HandleMessage, TokenInv
  <2>2. CASE Refuse \/ Release
    BY <2>2 DEF Refuse, Release, FreeParsed, Empty
  <2>3. CASE ReadScalar
    <3>1. \/ fields' = fields
          \/ fields' = With(fields, Option.label, Value(pos + 1, Kind))
             /\ ValueEnd(pos + 1, Kind) # 0
      BY <2>3 DEF ReadScalar
    <3>2. ASSUME Option.label = "token", ValueEnd(pos + 1, Kind) # 0
          PROVE  TokenItem(Value(pos + 1, Kind))
      <4>1. Kind = "bytes"
        BY <3>2, TokenIsString DEF Kind
      <4>2. Value(pos + 1, Kind) = At(pos + 1).val /\ At(pos + 1).type = "bytes"
        BY <3>2, <4>1 DEF Value, ValueEnd
      <4>3. pos + 1 \in DOMAIN input.items /\ At(pos + 1) = input.items[pos + 1]
        BY <4>2 DEF At, NoItem
      <4>4. QED
        BY <3>2, <4>2, <4>3 DEF TokenItem, Option
    <3>3. QED
      BY <3>1, <3>2, TokenKept DEF TokenInv
  <2>4. CASE ReadArray
    <3>1. Option.label # "token"
      BY <2>4, TokenIsString DEF ReadArray, Kind, ArrayKind
    <3>2. fields' = fields \/ fields' = With(fields, Option.label, Value(pos + 1, Kind))
      BY <2>4 DEF ReadArray
    <3>3. QED
      BY <3>1, <3>2, TokenKept DEF TokenInv
  <2>5. CASE ReadTrailing
    <3>1. fields' = fields \/ fields' = With(fields, TrailingField, At(pos + 1).val)
      BY <2>5 DEF ReadTrailing
    <3>2. TrailingField # "token"
      BY DEF TrailingField
    <3>3. QED
      BY <3>1, <3>2, TokenKept DEF TokenInv
  <2>6. QED
    BY <2>1, <2>2, <2>3, <2>4, <2>5 DEF ParseStep
<1>4. ReceivedToken(session_token)'
  <2>1. CASE HandleMessage
    <3>1. TokenLen = 0 \/ TokenItem(TokenLen)
      BY DEF TokenLen, Token, TokenInv
    <3>2. type' = type
      BY <2>1 DEF HandleMessage
    <3>3. \/ session_token' = session_token
          \/ type = "query-request" /\ session_token' \in {TokenLen, Null}
      BY <2>1 DEF HandleMessage
    <3>4. QED
      BY <1>2, <3>1, <3>2, <3>3 DEF ReceivedToken, TokenInv
  <2>2. CASE ReadHeader
    BY <2>2 DEF ReadHeader, sessionVars, TokenInv, ReceivedToken
  <2>3. CASE ~HandleMessage /\ ~ReadHeader
    <3>1. session_token' = session_token /\ type' = type
      BY <2>3 DEF ParseStep, OpenOptions, RefuseLabel, ReadScalar, ReadArray,
             SkipOption, SkipItem, SkipDone, ReadTrailing, Finish, Refuse, Release, sessionVars
    <3>2. QED
      BY <1>2, <3>1 DEF ReceivedToken, TokenInv
  <2>4. QED
    BY <2>1, <2>2, <2>3
<1>5. QED
  BY <1>1, <1>2, <1>3, <1>4 DEF TokenInv

\* A QueryResponse, a Success and an Error carry the session's token, which was read
\* from a QueryRequest that has been released since: it is the value of a token of
\* that message, for every message the TAM may send, or there is none.
THEOREM TokenIsReceived == Spec => [](posted.type # "none" => ReceivedToken(posted.token))
<1>1. TokenInv /\ [Next]_vars => TokenInv'
  <2> SUFFICES ASSUME TokenInv, [Next]_vars PROVE TokenInv'
    OBVIOUS
  <2>1. CASE ParseStep
    BY <2>1, TokenParse
  <2>2. CASE \/ \E list \in RequestList : BuildQueryResponse(list)
             \/ BuildSuccess \/ BuildError
    <3>1. /\ UNCHANGED <<input, fields, session_token, type>> /\ phase' = "posting"
      BY <2>2 DEF BuildQueryResponse, BuildSuccess, BuildError, parserVars
    <3>2. posted'.token = session_token
      BY <2>2 DEF BuildQueryResponse, BuildSuccess, BuildError, Built
    <3>3. QED
      BY <3>1, <3>2 DEF TokenInv, ReceivedToken, TokenItem
  <2>3. CASE UNCHANGED vars
    BY <2>3 DEF vars, parserVars, sessionVars, TokenInv, ReceivedToken, TokenItem
  <2>4. QED
    BY <2>1, <2>2, <2>3 DEF Next
<1>2. TokenInv => (posted.type # "none" => ReceivedToken(posted.token))
  BY DEF TokenInv
<1>3. QED
  BY <1>1, <1>2, TokenInit, PTL DEF Spec

----------------------------------------------------------------------------
(* The message as a row of options                                         *)

\* What a message says depends on the message alone.
LEMMA SameItems ==
    ASSUME input' = input
    PROVE  /\ \A p : At(p)' = At(p)
           /\ MessageType' = MessageType
           /\ OptionEnds' = OptionEnds
           /\ \A p, kind : Value(p, kind)' = Value(p, kind)
<1>1. \A p : At(p)' = At(p)
  BY DEF At
<1>2. MessageType' = MessageType
  BY <1>1 DEF MessageType
<1>3. \A p : Members(p)' = Members(p)
  BY <1>1 DEF Members
<1>4. \A p : ComponentIdEnd(p)' = ComponentIdEnd(p)
  BY <1>1, <1>3 DEF ComponentIdEnd, ArrayEnd
<1>5. \A p : TcInfoEntryEnd(p)' = TcInfoEntryEnd(p)
  BY <1>1, <1>4 DEF TcInfoEntryEnd, IsUInt32
<1>6. \A p : TcInfoEnds(p)' = TcInfoEnds(p)
  <2>1. [q \in Nat |-> TcInfoEntryEnd(q)]' = [q \in Nat |-> TcInfoEntryEnd(q)]
    BY <1>5
  <2>2. QED
    BY <1>1, <2>1, Zenon DEF TcInfoEnds
<1>7. \A p : TcInfoEnd(p)' = TcInfoEnd(p)
  BY <1>1, <1>6 DEF TcInfoEnd
<1>8. \A p : IdArrayEnds(p)' = IdArrayEnds(p) /\ TcInfoArrayEnds(p)' = TcInfoArrayEnds(p)
  <2>1. [q \in Nat |-> ComponentIdEnd(q)]' = [q \in Nat |-> ComponentIdEnd(q)]
    BY <1>4
  <2>2. [q \in Nat |-> TcInfoEnd(q)]' = [q \in Nat |-> TcInfoEnd(q)]
    BY <1>7
  <2>3. QED
    BY <1>1, <2>1, <2>2, Zenon DEF IdArrayEnds, TcInfoArrayEnds
<1>9. \A p : SkipEnds(p)' = SkipEnds(p)
  BY <1>1 DEF SkipEnds, OptionLevel
<1>10. \A p : OptionEnd(p)' = OptionEnd(p)
  <2>1. \A p : KindAt(p)' = KindAt(p)
    BY <1>1, <1>2 DEF KindAt
  <2>2. \A p : (CHOOSE e \in SkipEnds(p) : TRUE)' = CHOOSE e \in SkipEnds(p) : TRUE
    BY <1>9, Zenon
  <2>3. \A p : ValueEnd(p, KindAt(p))' = ValueEnd(p, KindAt(p))
    BY <1>1, <1>3, <1>8, <2>1 DEF ValueEnd, ArrayEnd, IsUInt32
  <2>4. QED
    BY <1>1, <1>9, <2>1, <2>2, <2>3, Zenon DEF OptionEnd
<1>11. OptionEnds' = OptionEnds
  <2>1. [q \in Nat |-> OptionEnd(q)]' = [q \in Nat |-> OptionEnd(q)]
    BY <1>10
  <2>2. QED
    BY <1>1, <2>1, Zenon DEF OptionEnds, OptionCount
<1>12. \A f, l : Slice(f, l)' = Slice(f, l)
  BY DEF Slice
<1>13. \A p : TcInfo(p)' = TcInfo(p)
  BY DEF TcInfo, TcInfoEnds, TcInfoEntryEnd, ComponentIdEnd, ArrayEnd, Members, IsUInt32,
         Slice, At, Ends
<1>14. \A p, kind : Value(p, kind)' = Value(p, kind)
  BY <1>1, <1>8, <1>12, <1>13, Zenon DEF Value
<1>15. QED
  BY <1>1, <1>2, <1>11, <1>14

\* And so does what is said with it.
LEMMA SameMessage ==
    ASSUME input' = input
    PROVE  /\ (WellFormed)' <=> WellFormed
           /\ OptionCount' = OptionCount /\ OptionLevel' = OptionLevel
           /\ OptionsEnd' = OptionsEnd /\ HasTrailing' = HasTrailing
           /\ TrailingLabel' = TrailingLabel
           /\ \A k : First(k)' = First(k)
           /\ \A p : KindAt(p)' = KindAt(p)
           /\ \A f, n : HoldsOptions(f, n)' <=> HoldsOptions(f, n)
           /\ \A f : HoldsMessage(f)' <=> HoldsMessage(f)
<1> DEFINE Facts == /\ \A p : At(p)' = At(p)
                    /\ MessageType' = MessageType
                    /\ OptionEnds' = OptionEnds
                    /\ \A p, kind : Value(p, kind)' = Value(p, kind)
<1>1. Facts
  BY SameItems
<1>2. /\ OptionCount' = OptionCount /\ OptionLevel' = OptionLevel
      /\ OptionsEnd' = OptionsEnd /\ HasTrailing' = HasTrailing
      /\ TrailingLabel' = TrailingLabel
      /\ \A p : KindAt(p)' = KindAt(p)
      /\ \A k : First(k)' = First(k)
  BY <1>1 DEF OptionCount, OptionLevel, OptionsEnd, HasTrailing, TrailingLabel, KindAt, First
<1>3. (WellFormed)' <=> WellFormed
  BY <1>1, <1>2 DEF WellFormed
<1>4. \A n : Stored(n)' = Stored(n) /\ LastStored(n)' = LastStored(n)
  BY <1>1, <1>2 DEF Stored, LastStored
<1>5. \A f, n : HoldsOptions(f, n)' <=> HoldsOptions(f, n)
  BY <1>1, <1>2, <1>4 DEF HoldsOptions
<1>6. \A f : HoldsMessage(f)' <=> HoldsMessage(f)
  BY <1>1, <1>2, <1>4, <1>5 DEF HoldsMessage
<1>7. QED
  BY <1>2, <1>3, <1>5, <1>6

\* An option ends where it starts or after it, or not at all.
LEMMA OptionAfter ==
    ASSUME input \in Input, NEW p \in Nat
    PROVE  After(p, OptionEnd(p))
<1>1. After(p, ValueEnd(p, KindAt(p)))
  BY ValueAfter
<1>2. Len(input.items) \in Nat
  BY TeepMessageAssumption
<1>3. ASSUME SkipEnds(p) # {} PROVE After(p, CHOOSE e \in SkipEnds(p) : TRUE)
  <2>1. \A e \in SkipEnds(p) : After(p, e)
    BY <1>2 DEF SkipEnds, After
  <2>2. QED
    BY <1>3, <2>1
<1>4. QED
  BY <1>1, <1>3 DEF OptionEnd, After

\* The options one after the other.
LEMMA OptionsFollow ==
    ASSUME input \in Input
    PROVE  /\ OptionCount \in Nat /\ OptionEnds[0] = 3
           /\ \A k \in 0 .. (OptionCount - 1) :
                 OptionEnds[k + 1] = IF OptionEnds[k] = 0 THEN 0 ELSE OptionEnd(OptionEnds[k] + 1)
<1> DEFINE f == [q \in Nat |-> OptionEnd(q)]
<1>1. OptionCount \in Nat
  BY AtType DEF OptionCount
<1>2. f \in [Nat -> Nat]
  BY OptionAfter DEF After
<1>3. OptionEnds = Ends(3, OptionCount, f)
  BY DEF OptionEnds
<1>4. Follows(OptionEnds, 3, OptionCount, f)
  <2> HIDE DEF f
  <2>1. QED
    BY <1>1, <1>2, <1>3, EndsFollow
<1> DEFINE n == OptionCount
           D == {i \in Nat : i <= n => OptionEnds[i] \in Nat}
<1>5. /\ OptionEnds[0] = 3
      /\ \A i \in 0 .. (n - 1) :
            OptionEnds[i + 1] = IF OptionEnds[i] = 0 THEN 0 ELSE f[OptionEnds[i] + 1]
  BY <1>4 DEF Follows
<1> HIDE DEF n
<1>6. \A i \in Nat : i \in D
  <2>1. 0 \in D
    BY <1>5
  <2>2. ASSUME NEW i \in Nat, i \in D PROVE i + 1 \in D
    <3> SUFFICES ASSUME i + 1 <= n PROVE OptionEnds[i + 1] \in Nat
      OBVIOUS
    <3>1. n \in Nat /\ i \in 0 .. (n - 1) /\ OptionEnds[i] \in Nat
      BY <1>1, <2>2 DEF n
    <3> HIDE DEF f
    <3>2. QED
      BY <1>2, <1>5, <3>1
  <2> HIDE DEF D
  <2>3. QED
    BY <2>1, <2>2, SetInduction
<1>7. \A k \in 0 .. (n - 1) :
          OptionEnds[k + 1] = IF OptionEnds[k] = 0 THEN 0 ELSE OptionEnd(OptionEnds[k] + 1)
  <2> SUFFICES ASSUME NEW k \in 0 .. (n - 1)
               PROVE  OptionEnds[k + 1] = IF OptionEnds[k] = 0 THEN 0
                                          ELSE OptionEnd(OptionEnds[k] + 1)
    OBVIOUS
  <2>1. n \in Nat /\ k \in Nat /\ k <= n
    BY <1>1 DEF n
  <2>2. OptionEnds[k] \in Nat
    BY <1>6, <2>1
  <2>3. f[OptionEnds[k] + 1] = OptionEnd(OptionEnds[k] + 1)
    BY <2>2
  <2> HIDE DEF f
  <2>4. QED
    BY <1>5, <2>3
<1>8. QED
  BY <1>1, <1>5, <1>7 DEF n

\* After an option that cannot be one the message is not well formed.
LEMMA BadOptionStays ==
    ASSUME input \in Input, NEW k \in 0 .. OptionCount, OptionEnds[k] = 0
    PROVE  ~WellFormed
<1> DEFINE n == OptionCount
           D == {i \in Nat : k + i <= n => OptionEnds[k + i] = 0}
<1>1. n \in Nat /\ \A i \in 0 .. (n - 1) : OptionEnds[i] = 0 => OptionEnds[i + 1] = 0
  BY OptionsFollow
<1>2. \A i \in Nat : i \in D
  <2>1. 0 \in D
    BY <1>1
  <2>2. ASSUME NEW i \in Nat, i \in D PROVE i + 1 \in D
    <3> SUFFICES ASSUME k + (i + 1) <= n PROVE OptionEnds[k + (i + 1)] = 0
      OBVIOUS
    <3> HIDE DEF n
    <3>1. k \in Nat
      BY <1>1 DEF n
    <3>2. k + i \in 0 .. (n - 1) /\ k + i <= n /\ k + (i + 1) = (k + i) + 1
      BY <1>1, <3>1
    <3>3. OptionEnds[k + i] = 0
      BY <2>2, <3>2
    <3>4. QED
      BY <1>1, <3>2, <3>3
  <2> HIDE DEF D
  <2>3. QED
    BY <2>1, <2>2, SetInduction
<1> HIDE DEF n
<1>3. n - k \in Nat /\ k + (n - k) = n
  BY <1>1 DEF n
<1>4. OptionEnds[n] = 0
  BY <1>1, <1>2, <1>3
<1>5. QED
  BY <1>4 DEF n, WellFormed, OptionsEnd

\* One more option is skipped or stored.
LEMMA HoldsNext ==
    ASSUME NEW n \in Nat, NEW f, HoldsOptions(f, n),
           NEW p, First(n + 1) = p
    PROVE  /\ KindAt(p) = "skip" => HoldsOptions(f, n + 1)
           /\ KindAt(p) # "skip" =>
                 HoldsOptions(With(f, At(p).label, Value(p, KindAt(p))), n + 1)
<1>1. CASE KindAt(p) = "skip"
  <2>1. Stored(n + 1) = Stored(n)
    BY <1>1 DEF Stored
  <2>2. LastStored(n + 1) = LastStored(n)
    BY <2>1 DEF LastStored
  <2>3. QED
    BY <1>1, <2>1, <2>2 DEF HoldsOptions
<1>2. CASE KindAt(p) # "skip"
  <2> DEFINE l == At(p).label
             g == With(f, l, Value(p, KindAt(p)))
  <2>1. Stored(n + 1) = Stored(n) \cup {n + 1}
    BY <1>2 DEF Stored
  <2>2. \A k \in Stored(n) : k \in Nat /\ k < n + 1
    BY DEF Stored
  <2>3. DOMAIN g = {At(First(k)).label : k \in Stored(n + 1)}
    <3>1. DOMAIN g = DOMAIN f \cup {l}
      BY DEF With
    <3>2. DOMAIN f = {At(First(k)).label : k \in Stored(n)}
      BY DEF HoldsOptions
    <3> HIDE DEF g
    <3>3. QED
      BY <2>1, <3>1, <3>2
  <2>4. ASSUME NEW k \in LastStored(n + 1)
        PROVE  g[At(First(k)).label] = Value(First(k), KindAt(First(k)))
    <3>1. CASE k = n + 1
      BY <3>1 DEF With
    <3>2. CASE k # n + 1
      <4>1. k \in Stored(n)
        BY <2>1, <3>2 DEF LastStored
      <4>2. At(First(k)).label # l
        BY <2>1, <2>2, <4>1 DEF LastStored
      <4>3. k \in LastStored(n)
        BY <2>1, <4>1 DEF LastStored
      <4>4. f[At(First(k)).label] = Value(First(k), KindAt(First(k)))
        BY <4>3 DEF HoldsOptions
      <4>5. At(First(k)).label \in DOMAIN f
        BY <4>1 DEF HoldsOptions
      <4>6. QED
        BY <4>2, <4>4, <4>5 DEF With
    <3>3. QED
      BY <3>1, <3>2
  <2> HIDE DEF g
  <2>5. HoldsOptions(g, n + 1)
    BY <2>3, <2>4 DEF HoldsOptions
  <2>6. QED
    BY <1>2, <2>5 DEF g
<1>3. QED
  BY <1>1, <1>2

\* The integer after the options has a name that no option has.
LEMMA HoldsTrailing ==
    ASSUME NEW f, HoldsOptions(f, OptionCount), HasTrailing
    PROVE  HoldsMessage(With(f, TrailingLabel, At(OptionsEnd + 1).val))
<1>1. \A t : OptionKind("data-item-requested", t) = "skip" /\ OptionKind("err-code", t) = "skip"
  BY DEF OptionKind
<1>2. \A k \in Stored(OptionCount) : At(First(k)).label # TrailingLabel
  BY <1>1 DEF Stored, KindAt, TrailingLabel
<1>3. \A k \in LastStored(OptionCount) : k \in Stored(OptionCount)
  BY DEF LastStored
<1>4. QED
  BY <1>2, <1>3 DEF HoldsMessage, HoldsOptions, With

----------------------------------------------------------------------------
(* The parser walks along that row                                         *)

\* Between two options: those before are read, and the members hold them.
Between ==
    /\ MessageType # "none" /\ type = MessageType
    /\ At(3).type = "map" /\ nest_level = OptionLevel
    /\ todo \in 0 .. OptionCount
    /\ HoldsOptions(fields, OptionCount - todo)

\* Inside an option that is skipped: none of its items so far was its last.
Inside ==
    LET p == OptionEnds[OptionCount - todo] + 1
    IN  /\ todo > 0 /\ p \in Nat /\ OptionEnds[OptionCount - todo] # 0
        /\ At(p).label \notin {"none", "text"} /\ KindAt(p) = "skip"
        /\ pos \in p .. Len(input.items) /\ level = At(pos).next
        /\ \A i \in p .. (pos - 1) : At(i).next # OptionLevel

\* Where the parser is on the row, phase by phase, until it has accepted or refused.
WalkInv ==
    /\ input \in Input /\ pos \in Nat
    /\ phase \in {"header", "options"} => fields = Empty
    /\ phase = "options" => MessageType # "none" /\ type = MessageType /\ pos = 2
    /\ phase = "option" => Between /\ pos = OptionEnds[OptionCount - todo] /\ pos # 0
    /\ phase = "skip" => Between /\ Inside
    /\ phase = "finish" =>
          /\ MessageType # "none" /\ type = MessageType
          /\ At(3).type = "map" /\ OptionsEnd # 0
          /\ HasTrailing => At(OptionsEnd + 1).type = "int"
          /\ pos = OptionsEnd + (IF HasTrailing THEN 1 ELSE 0)
          /\ HoldsMessage(fields)
    /\ AcceptedAsItems
    /\ phase = "err" => starved \/ ~WellFormed

\* Nothing has been read at the start.
LEMMA WalkInit == Init => WalkInv
  BY DEF Init, WalkInv, AcceptedAsItems

\* The header.
LEMMA WalkHeader ==
    ASSUME WalkInv, ReadHeader
    PROVE  WalkInv'
<1>1. input' = input /\ fields' = fields /\ fields = Empty
  BY DEF ReadHeader, WalkInv
<1>2. MessageType' = MessageType /\ (WellFormed' <=> WellFormed)
  BY <1>1, SameItems, SameMessage
<1>3. \/ phase' = "options" /\ MessageType # "none" /\ type' = MessageType
      \/ phase' = "refused" /\ (starved' \/ MessageType = "none")
  BY DEF ReadHeader, MessageType
<1>4. pos' = 2
  BY DEF ReadHeader
<1>5. QED
  BY <1>1, <1>2, <1>3, <1>4 DEF WalkInv, AcceptedAsItems, WellFormed

\* Before the first option there are no members.
LEMMA HoldsNone == HoldsOptions(Empty, 0)
<1>1. Stored(0) = {}
  BY DEF Stored
<1>2. QED
  BY <1>1 DEF HoldsOptions, LastStored, Empty

\* The map of the options.
LEMMA WalkOpen ==
    ASSUME WalkInv, OpenOptions
    PROVE  WalkInv'
<1>1. input' = input /\ fields' = Empty /\ type' = type /\ input \in Input /\ starved' = starved
  BY DEF OpenOptions, WalkInv
<1>2. pos = 2 /\ pos' = 3 /\ MessageType # "none" /\ type = MessageType
  BY DEF OpenOptions, WalkInv
<1>3. /\ phase' = IF At(3).type = "map" THEN "option" ELSE "err"
      /\ todo' = OptionCount /\ nest_level' = OptionLevel
  BY <1>2 DEF OpenOptions, OptionCount, OptionLevel
<1>4. OptionCount \in Nat /\ OptionEnds[0] = 3
  BY <1>1, OptionsFollow
<1>5. CASE At(3).type = "map"
  <2>1. Between'
    <3>1. HoldsOptions(Empty, 0)'
      BY <1>1, HoldsNone, SameMessage
    <3>2. OptionCount' - todo' = 0 /\ todo' \in 0 .. OptionCount'
      BY <1>1, <1>3, <1>4, SameMessage
    <3>3. HoldsOptions(fields, OptionCount - todo)'
      BY <1>1, <3>1, <3>2
    <3>4. QED
      BY <1>1, <1>2, <1>3, <1>5, <3>2, <3>3, SameItems, SameMessage DEF Between
  <2>2. pos' = OptionEnds'[OptionCount' - todo']
    BY <1>1, <1>2, <1>3, <1>4, SameItems, SameMessage
  <2>3. QED
    BY <1>1, <1>2, <1>3, <1>5, <2>1, <2>2 DEF WalkInv, AcceptedAsItems
<1>6. CASE At(3).type # "map"
  <2>1. ~WellFormed /\ ~WellFormed'
    BY <1>1, <1>6, SameMessage DEF WellFormed
  <2>2. QED
    BY <1>1, <1>2, <1>3, <1>6, <2>1 DEF WalkInv, AcceptedAsItems
<1>7. QED
  BY <1>5, <1>6

\* The option at hand is the next of the row.
LEMMA AtNextOption ==
    ASSUME WalkInv, InOption
    PROVE  LET k == OptionCount - todo IN
           /\ input \in Input /\ OptionCount \in Nat /\ todo \in 1 .. OptionCount
           /\ k \in 0 .. (OptionCount - 1) /\ k \in Nat
           /\ First(k + 1) = pos + 1 /\ Option = At(pos + 1) /\ Kind = KindAt(pos + 1)
           /\ OptionEnds[k + 1] = OptionEnd(pos + 1)
           /\ OptionEnd(pos + 1) = 0 => ~WellFormed
<1> DEFINE k == OptionCount - todo
<1>1. /\ input \in Input /\ Between /\ pos = OptionEnds[k] /\ pos # 0 /\ todo > 0
  BY DEF WalkInv, InOption
<1>2. OptionCount \in Nat
  BY <1>1, OptionsFollow
<1>3. todo \in 1 .. OptionCount /\ k \in 0 .. (OptionCount - 1) /\ k \in Nat
  BY <1>1, <1>2 DEF Between
<1>4. OptionEnds[k + 1] = OptionEnd(pos + 1)
  BY <1>1, <1>3, OptionsFollow
<1>5. First(k + 1) = pos + 1
  <2>1. (k + 1) - 1 = k
    BY <1>3
  <2>2. QED
    BY <1>1, <2>1 DEF First
<1>6. Option = At(pos + 1) /\ Kind = KindAt(pos + 1)
  BY <1>1 DEF Option, Kind, KindAt, Between
<1>7. OptionEnd(pos + 1) = 0 => ~WellFormed
  <2>1. k + 1 \in 0 .. OptionCount
    BY <1>2, <1>3
  <2>2. QED
    BY <1>1, <1>4, <2>1, BadOptionStays
<1>8. QED
  BY <1>1, <1>2, <1>3, <1>4, <1>5, <1>6, <1>7

\* The message is refused.
LEMMA WalkRefused ==
    ASSUME WalkInv, input' = input, pos' \in Nat, phase' = "err", starved' \/ ~WellFormed
    PROVE  WalkInv'
  BY SameMessage DEF WalkInv, AcceptedAsItems

\* One more option has been stored.
LEMMA WalkStored ==
    ASSUME WalkInv, InOption, UNCHANGED <<input, phase, type, nest_level>>, starved' = starved,
           OptionEnd(pos + 1) # 0, pos' = OptionEnd(pos + 1), todo' = todo - 1,
           Kind # "skip", fields' = With(fields, Option.label, Value(pos + 1, Kind))
    PROVE  WalkInv'
<1> DEFINE k == OptionCount - todo
           p == pos + 1
<1>1. /\ input \in Input /\ OptionCount \in Nat /\ todo \in 1 .. OptionCount
      /\ k \in Nat /\ First(k + 1) = p /\ Option = At(p) /\ Kind = KindAt(p)
      /\ OptionEnds[k + 1] = OptionEnd(p)
  BY AtNextOption
<1>2. Between /\ HoldsOptions(fields, k) /\ pos \in Nat /\ phase = "option"
  BY DEF WalkInv, InOption, Between
<1>3. HoldsOptions(fields', k + 1)
  <2> HIDE DEF k, p
  <2>1. QED
    BY <1>1, <1>2, HoldsNext DEF p
<1>4. OptionCount' - todo' = k + 1 /\ todo' \in 0 .. OptionCount'
  BY <1>1, SameMessage
<1>5. HoldsOptions(fields, OptionCount - todo)'
  <2>1. PICK f, n : f = fields' /\ n = k + 1
    OBVIOUS
  <2> HIDE DEF k
  <2>2. HoldsOptions(f, n)'
    BY <1>3, <2>1, SameMessage
  <2>3. QED
    BY <1>4, <2>1, <2>2
<1>6. Between'
  BY <1>2, <1>4, <1>5, SameItems, SameMessage DEF Between
<1>7. pos' = OptionEnds'[OptionCount' - todo'] /\ pos' # 0
  BY <1>1, <1>4, SameItems
<1>8. pos' \in Nat
  <2>1. p \in Nat
    BY <1>2
  <2>2. QED
    BY <1>1, <2>1, OptionAfter DEF After
<1>9. QED
  BY <1>2, <1>6, <1>7, <1>8 DEF WalkInv, AcceptedAsItems

\* An option without a label the parser knows of.
LEMMA WalkRefuseLabel ==
    ASSUME WalkInv, RefuseLabel
    PROVE  WalkInv'
<1>1. InOption /\ Option.label \in {"none", "text"} /\ phase' = "err" /\ input' = input
  BY DEF RefuseLabel
<1>2. pos' \in Nat
  BY DEF RefuseLabel, WalkInv
<1>3. ~WellFormed
  BY <1>1, AtNextOption DEF OptionEnd
<1>4. QED
  BY <1>1, <1>2, <1>3, WalkRefused

\* A string or a number.
LEMMA WalkScalar ==
    ASSUME WalkInv, ReadScalar
    PROVE  WalkInv'
<1>1. /\ InOption /\ Option.label \notin {"none", "text"} /\ Kind \in {"uint32", "bytes", "text"}
      /\ pos' = pos + 1 /\ UNCHANGED <<input, type, nest_level, starved>>
  BY DEF ReadScalar
<1>2. pos \in Nat /\ pos + 1 # 0 /\ pos' \in Nat
  BY <1>1 DEF WalkInv
<1>3. Option = At(pos + 1) /\ Kind = KindAt(pos + 1) /\ (OptionEnd(pos + 1) = 0 => ~WellFormed)
  BY <1>1, AtNextOption
<1>4. OptionEnd(pos + 1) = ValueEnd(pos + 1, Kind)
  BY <1>1, <1>3 DEF OptionEnd, ArrayKind
<1>5. CASE ValueEnd(pos + 1, Kind) # 0
  <2>1. ValueEnd(pos + 1, Kind) = pos + 1
    BY <1>1, <1>5 DEF ValueEnd
  <2>2. /\ fields' = With(fields, Option.label, Value(pos + 1, Kind))
        /\ todo' = todo - 1 /\ phase' = phase
    BY <1>5 DEF ReadScalar
  <2>3. QED
    BY <1>1, <1>2, <1>4, <2>1, <2>2, WalkStored
<1>6. CASE ValueEnd(pos + 1, Kind) = 0
  <2>1. phase' = "err"
    BY <1>6 DEF ReadScalar
  <2>2. QED
    BY <1>1, <1>2, <1>3, <1>4, <1>6, <2>1, WalkRefused
<1>7. QED
  BY <1>5, <1>6

\* An array, for which there may be no memory.
LEMMA WalkArray ==
    ASSUME WalkInv, ReadArray
    PROVE  WalkInv'
<1>1. /\ InOption /\ Option.label \notin {"none", "text"} /\ Kind \in ArrayKind
      /\ UNCHANGED <<input, type, nest_level>>
  BY DEF ReadArray
<1>2. pos \in Nat /\ pos + 1 \in Nat
  BY DEF WalkInv
<1>3. Option = At(pos + 1) /\ Kind = KindAt(pos + 1) /\ (OptionEnd(pos + 1) = 0 => ~WellFormed)
  BY <1>1, AtNextOption
<1>4. OptionEnd(pos + 1) = IF Option.type = "array" THEN ValueEnd(pos + 1, Kind) ELSE 0
  BY <1>1, <1>3 DEF OptionEnd, ArrayKind
<1>5. CASE phase' = "err"
  <2>1. pos' \in Nat
    BY <1>2, <1>5 DEF ReadArray, InOption
  <2>2. starved' \/ OptionEnd(pos + 1) = 0
    BY <1>1, <1>4, <1>5 DEF ReadArray, InOption
  <2>3. QED
    BY <1>1, <1>3, <1>5, <2>1, <2>2, WalkRefused
<1>6. CASE phase' # "err"
  <2>1. /\ Option.type = "array" /\ ValueEnd(pos + 1, Kind) # 0 /\ phase' = phase
        /\ pos' = ValueEnd(pos + 1, Kind) /\ todo' = todo - 1 /\ starved' = starved
        /\ fields' = With(fields, Option.label, Value(pos + 1, Kind))
    BY <1>6 DEF ReadArray
  <2>2. Kind # "skip"
    BY <1>1 DEF ArrayKind
  <2>3. QED
    BY <1>1, <1>4, <2>1, <2>2, WalkStored
<1>7. QED
  BY <1>5, <1>6

\* The items of the message are those up to its length.
LEMMA ItemsInside ==
    ASSUME input \in Input, NEW p \in Nat
    PROVE  /\ Len(input.items) \in Nat
           /\ At(p).type # "none" <=> p \in 1 .. Len(input.items)
           /\ At(p).label # "none" => p \in 1 .. Len(input.items)
<1>1. input.items \in Seq(ItemType)
  BY TeepMessageAssumption
<1>2. Len(input.items) \in Nat /\ DOMAIN input.items = 1 .. Len(input.items)
  BY <1>1
<1>3. CASE p \in DOMAIN input.items
  <2>1. input.items[p] \in ItemType
    BY <1>1, <1>3
  <2>2. QED
    BY <1>2, <1>3, <2>1 DEF At, ItemType
<1>4. CASE p \notin DOMAIN input.items
  BY <1>2, <1>4 DEF At, NoItem
<1>5. QED
  BY <1>3, <1>4

\* A skipped option: its first item.
LEMMA WalkSkipOption ==
    ASSUME WalkInv, SkipOption
    PROVE  WalkInv'
<1> DEFINE k == OptionCount - todo
           p == pos + 1
<1>1. /\ InOption /\ Option.label \notin {"none", "text"} /\ Kind = "skip"
      /\ pos' = p /\ level' = Option.next /\ phase' = "skip"
      /\ UNCHANGED <<input, todo, nest_level, type, fields, starved>>
  BY DEF SkipOption
<1>2. /\ input \in Input /\ Option = At(p) /\ Kind = KindAt(p) /\ todo \in 1 .. OptionCount
      /\ OptionCount \in Nat
  BY <1>1, AtNextOption
<1>3. Between /\ pos = OptionEnds[k] /\ pos # 0 /\ pos \in Nat /\ p \in Nat
  BY <1>1 DEF WalkInv, InOption
<1>4. p \in 1 .. Len(input.items) /\ Len(input.items) \in Nat
  BY <1>1, <1>2, <1>3, ItemsInside
<1>5. Between'
  <2>1. PICK f, n : f = fields /\ n = k
    OBVIOUS
  <2>2. HoldsOptions(f, n)'
    BY <1>1, <1>3, <2>1, SameMessage DEF Between
  <2>3. f = fields' /\ n = OptionCount' - todo'
    BY <1>1, <2>1, SameMessage
  <2>4. HoldsOptions(fields, OptionCount - todo)'
    BY <2>2, <2>3
  <2>5. QED
    BY <1>1, <1>3, <2>4, SameItems, SameMessage DEF Between
<1>6. Inside'
  <2>1. (OptionEnds[OptionCount - todo] + 1)' = p
    BY <1>1, <1>3, SameItems, SameMessage
  <2>2. At(pos)' = At(p)
    BY <1>1, SameItems
  <2>3. PICK q : q = p
    OBVIOUS
  <2>4. At(q)' = At(q) /\ KindAt(q)' = KindAt(q)
    BY <1>1, SameItems, SameMessage
  <2>5. \A i \in q .. (q - 1) : FALSE
    BY <1>3, <2>3
  <2>6. OptionEnds'[OptionCount' - todo'] # 0
    BY <1>1, <1>3, SameItems, SameMessage
  <2>7. todo' > 0
    BY <1>1, <1>2
  <2> HIDE DEF p
  <2>8. QED
    BY <1>1, <1>2, <1>3, <1>4, <2>1, <2>2, <2>3, <2>4, <2>5, <2>6, <2>7 DEF Inside
<1>7. QED
  BY <1>1, <1>3, <1>5, <1>6 DEF WalkInv, AcceptedAsItems, p

\* One more item of a skipped option; past the last item the message is refused.
LEMMA WalkSkipItem ==
    ASSUME WalkInv, SkipItem
    PROVE  WalkInv'
<1> DEFINE k == OptionCount - todo
           p == OptionEnds[k] + 1
<1>1. /\ phase = "skip" /\ level # nest_level /\ pos' = pos + 1 /\ level' = At(pos + 1).next
      /\ phase' = IF At(pos + 1).type = "none" THEN "err" ELSE "skip"
      /\ UNCHANGED <<input, todo, nest_level, type, fields, starved>>
  BY DEF SkipItem
<1>2. input \in Input /\ pos \in Nat /\ Between /\ Inside
  BY <1>1 DEF WalkInv
<1>3. /\ todo > 0 /\ p \in Nat /\ OptionEnds[k] # 0
      /\ At(p).label \notin {"none", "text"} /\ KindAt(p) = "skip"
      /\ pos \in p .. Len(input.items) /\ level = At(pos).next
      /\ \A i \in p .. (pos - 1) : At(i).next # OptionLevel
  BY <1>2 DEF Inside
<1>4. Len(input.items) \in Nat /\ (At(pos + 1).type # "none" <=> pos + 1 \in 1 .. Len(input.items))
  BY <1>2, ItemsInside
<1>5. \A i \in p .. pos : At(i).next # OptionLevel
  <2>1. At(pos).next # OptionLevel
    BY <1>1, <1>2, <1>3 DEF Between
  <2> HIDE DEF p
  <2>2. QED
    BY <1>2, <1>3, <2>1
<1>6. CASE At(pos + 1).type = "none"
  <2>1. pos = Len(input.items)
    BY <1>3, <1>4, <1>6
  <2>2. SkipEnds(p) = {}
    BY <1>5, <2>1 DEF SkipEnds
  <2>3. OptionEnd(p) = 0
    BY <1>3, <2>2 DEF OptionEnd
  <2>4. k \in 0 .. (OptionCount - 1) /\ k + 1 \in 0 .. OptionCount
    BY <1>2, <1>3, OptionsFollow DEF Between
  <2>5. OptionEnds[k + 1] = 0
    BY <1>2, <1>3, <2>3, <2>4, OptionsFollow
  <2>6. ~WellFormed
    BY <1>2, <2>4, <2>5, BadOptionStays
  <2>7. QED
    BY <1>1, <1>2, <1>6, <2>6, WalkRefused
<1>7. CASE At(pos + 1).type # "none"
  <2>1. PICK f, n, q : f = fields /\ n = k /\ q = p
    OBVIOUS
  <2>2. Between'
    <3>1. HoldsOptions(f, n)'
      BY <1>1, <1>2, <2>1, SameMessage DEF Between
    <3>2. f = fields' /\ n = OptionCount' - todo'
      BY <1>1, <2>1, SameMessage
    <3>3. HoldsOptions(fields, OptionCount - todo)'
      BY <3>1, <3>2
    <3>4. QED
      BY <1>1, <1>2, <3>3, SameItems, SameMessage DEF Between
  <2>3. Inside'
    <3>1. (OptionEnds[OptionCount - todo] + 1)' = q /\ (OptionEnds[OptionCount - todo])' # 0
      BY <1>1, <1>3, <2>1, SameItems, SameMessage
    <3>2. At(q)' = At(q) /\ KindAt(q)' = KindAt(q)
      BY <1>1, SameItems, SameMessage
    <3>3. At(pos)' = At(pos + 1)
      BY <1>1, SameItems
    <3>4. pos' \in q .. Len(input'.items) /\ pos' - 1 = pos
      BY <1>1, <1>2, <1>3, <1>4, <1>7, <2>1
    <3>5. \A i \in q .. pos : At(i)'.next # OptionLevel'
      BY <1>1, <1>5, <2>1, SameItems, SameMessage
    <3>6. todo' > 0
      BY <1>1, <1>3
    <3> HIDE DEF p
    <3>7. QED
      BY <1>1, <1>3, <2>1, <3>1, <3>2, <3>3, <3>4, <3>5, <3>6 DEF Inside
  <2>4. QED
    BY <1>1, <1>2, <1>7, <2>2, <2>3 DEF WalkInv, AcceptedAsItems
<1>8. QED
  BY <1>6, <1>7

\* The end of a skipped option is the one SkipEnds has, the only one.
LEMMA WalkSkipDone ==
    ASSUME WalkInv, SkipDone
    PROVE  WalkInv'
<1> DEFINE k == OptionCount - todo
           p == OptionEnds[k] + 1
<1>1. /\ phase = "skip" /\ level = nest_level /\ phase' = "option" /\ todo' = todo - 1
      /\ UNCHANGED <<input, pos, nest_level, type, fields, starved>>
  BY DEF SkipDone
<1>2. input \in Input /\ pos \in Nat /\ Between /\ Inside
  BY <1>1 DEF WalkInv
<1>3. /\ todo > 0 /\ p \in Nat /\ OptionEnds[k] # 0
      /\ At(p).label \notin {"none", "text"} /\ KindAt(p) = "skip"
      /\ pos \in p .. Len(input.items) /\ At(pos).next = OptionLevel
      /\ \A i \in p .. (pos - 1) : At(i).next # OptionLevel
  BY <1>1, <1>2 DEF Inside, Between
<1>4. Len(input.items) \in Nat
  BY <1>2, ItemsInside
<1>5. /\ OptionCount \in Nat /\ k \in 0 .. (OptionCount - 1) /\ k \in Nat
  BY <1>2, <1>3, OptionsFollow DEF Between
<1>6. pos # 0
  <2>1. p >= 1
    <3>1. p # 0
      <4>1. At(p).label # "none"
        BY <1>3
      <4>2. p \in 1 .. Len(input.items)
        BY <1>2, <1>3, <4>1, ItemsInside
      <4>3. QED
        BY <1>4, <4>2
    <3>2. QED
      BY <1>3, <3>1
  <2>2. QED
    BY <1>2, <1>3, <2>1
<1>7. OptionEnd(p) = pos
  <2>1. pos \in SkipEnds(p)
    BY <1>3 DEF SkipEnds
  <2>2. ASSUME NEW e \in SkipEnds(p) PROVE e = pos
    <3>1. /\ e \in p .. Len(input.items) /\ At(e).next = OptionLevel
          /\ \A i \in p .. (e - 1) : At(i).next # OptionLevel
      BY DEF SkipEnds
    <3> HIDE DEF p
    <3>2. ~(e < pos) /\ ~(pos < e)
      BY <1>2, <1>3, <1>4, <3>1
    <3>3. QED
      BY <1>2, <1>3, <1>4, <3>1, <3>2
  <2>3. (CHOOSE e \in SkipEnds(p) : TRUE) = pos
    BY <2>1, <2>2
  <2>4. QED
    BY <1>3, <2>1, <2>3 DEF OptionEnd
<1>8. OptionEnds[k + 1] = pos
  BY <1>2, <1>3, <1>5, <1>7, OptionsFollow
<1>9. HoldsOptions(fields, k + 1)
  <2>1. (k + 1) - 1 = k
    BY <1>5
  <2>2. First(k + 1) = p
    BY <2>1 DEF First
  <2>3. HoldsOptions(fields, k)
    BY <1>2 DEF Between
  <2> HIDE DEF k, p
  <2>4. QED
    BY <1>3, <1>5, <2>2, <2>3, HoldsNext
<1>10. OptionCount' - todo' = k + 1 /\ todo' \in 0 .. OptionCount'
  <2>1. todo \in 1 .. OptionCount
    BY <1>2, <1>3, <1>5 DEF Between
  <2>2. QED
    BY <1>1, <1>5, <2>1, SameMessage
<1>11. Between'
  <2>1. PICK f, n : f = fields /\ n = k + 1
    OBVIOUS
  <2>2. HoldsOptions(f, n)'
    BY <1>1, <1>9, <2>1, SameMessage
  <2>3. f = fields' /\ n = OptionCount' - todo'
    BY <1>1, <1>10, <2>1
  <2>4. HoldsOptions(fields, OptionCount - todo)'
    BY <2>2, <2>3
  <2>5. QED
    BY <1>1, <1>2, <1>10, <2>4, SameItems, SameMessage DEF Between
<1>12. pos' = OptionEnds'[OptionCount' - todo']
  BY <1>1, <1>8, <1>10, SameItems
<1>13. QED
  BY <1>1, <1>2, <1>6, <1>11, <1>12 DEF WalkInv, AcceptedAsItems

\* The item after the options.
LEMMA WalkTrailing ==
    ASSUME WalkInv, ReadTrailing
    PROVE  WalkInv'
<1>1. phase = "option" /\ todo = 0 /\ UNCHANGED <<input, type, starved>>
  BY DEF ReadTrailing
<1>2. input \in Input /\ Between /\ pos \in Nat /\ pos # 0 /\ pos = OptionEnds[OptionCount - todo]
  BY <1>1 DEF WalkInv
<1>3. OptionCount \in Nat /\ OptionCount - todo = OptionCount
  BY <1>1, <1>2, OptionsFollow
<1>4. pos = OptionsEnd /\ HoldsOptions(fields, OptionCount) /\ type = MessageType
      /\ MessageType # "none" /\ At(3).type = "map"
  BY <1>2, <1>3 DEF OptionsEnd, Between
<1>5. HasTrailing <=> type \in {"query-request", "error"}
  BY <1>4 DEF HasTrailing
<1>6. TrailingField = TrailingLabel
  BY <1>4 DEF TrailingField, TrailingLabel
<1>7. CASE phase' = "err"
  <2>1. HasTrailing /\ At(OptionsEnd + 1).type # "int" /\ pos' = pos + 1
    BY <1>1, <1>4, <1>5, <1>7 DEF ReadTrailing
  <2>2. ~WellFormed
    BY <2>1 DEF WellFormed
  <2>3. QED
    BY <1>1, <1>2, <1>7, <2>1, <2>2, WalkRefused
<1>8. CASE phase' # "err"
  <2>1. /\ phase' = "finish" /\ pos' = OptionsEnd + (IF HasTrailing THEN 1 ELSE 0)
        /\ HasTrailing => At(OptionsEnd + 1).type = "int"
        /\ fields' = IF HasTrailing THEN With(fields, TrailingLabel, At(OptionsEnd + 1).val)
                     ELSE fields
    BY <1>2, <1>4, <1>5, <1>6, <1>8 DEF ReadTrailing
  <2>2. PICK f : f = fields'
    OBVIOUS
  <2>3. HoldsMessage(f)
    <3>1. CASE HasTrailing
      BY <1>4, <2>1, <2>2, <3>1, HoldsTrailing
    <3>2. CASE ~HasTrailing
      BY <1>4, <2>1, <2>2, <3>2 DEF HoldsMessage
    <3>3. QED
      BY <3>1, <3>2
  <2>4. HoldsMessage(f)'
    BY <1>1, <2>3, SameMessage
  <2>5. HoldsMessage(fields)'
    BY <2>2, <2>4
  <2>6. PICK e : e = OptionsEnd + 1
    OBVIOUS
  <2>7. At(e)' = At(e) /\ At(3)' = At(3) /\ (OptionsEnd + 1)' = e
    BY <1>1, <2>6, SameItems, SameMessage
  <2>8. (HasTrailing => At(OptionsEnd + 1).type = "int")'
    BY <1>1, <2>1, <2>6, <2>7, SameMessage
  <2>9. (pos = OptionsEnd + (IF HasTrailing THEN 1 ELSE 0))'
    BY <1>1, <2>1, SameMessage
  <2>10. /\ (MessageType # "none" /\ type = MessageType)'
         /\ (At(3).type = "map" /\ OptionsEnd # 0)'
    BY <1>1, <1>2, <1>4, <2>7, SameItems, SameMessage
  <2>11. pos' \in Nat
    BY <1>2, <1>4, <2>1
  <2>12. QED
    BY <1>1, <1>2, <2>1, <2>5, <2>8, <2>9, <2>10, <2>11 DEF WalkInv, AcceptedAsItems
<1>9. QED
  BY <1>7, <1>8

\* The parser is at the last item exactly if the message is well formed.
LEMMA WalkFinish ==
    ASSUME WalkInv, Finish
    PROVE  WalkInv'
<1>1. /\ phase = "finish" /\ phase' = IF DecodeFinish THEN "parsed" ELSE "err"
      /\ UNCHANGED <<input, pos, type, fields, starved>>
  BY DEF Finish
<1>2. /\ MessageType # "none" /\ type = MessageType /\ input \in Input /\ pos \in Nat
      /\ At(3).type = "map" /\ OptionsEnd # 0
      /\ HasTrailing => At(OptionsEnd + 1).type = "int"
      /\ pos = OptionsEnd + (IF HasTrailing THEN 1 ELSE 0)
      /\ HoldsMessage(fields)
  BY <1>1 DEF WalkInv
<1>3. DecodeFinish <=> WellFormed
  BY <1>2 DEF DecodeFinish, WellFormed
<1>4. CASE DecodeFinish
  <2>1. PICK f : f = fields
    OBVIOUS
  <2>2. HoldsMessage(f)' /\ f = fields'
    BY <1>1, <1>2, <2>1, SameMessage
  <2>3. HoldsMessage(fields)'
    BY <2>2
  <2>4. QED
    BY <1>1, <1>2, <1>3, <1>4, <2>3, SameItems, SameMessage DEF WalkInv, AcceptedAsItems
<1>5. CASE ~DecodeFinish
  BY <1>1, <1>2, <1>3, <1>5, WalkRefused
<1>6. QED
  BY <1>4, <1>5

\* Every step keeps the parser on the row of options.
LEMMA WalkNext == WalkInv /\ [Next]_vars => WalkInv'
<1> SUFFICES ASSUME WalkInv, [Next]_vars PROVE WalkInv'
  OBVIOUS
<1>1. CASE ReadHeader \/ OpenOptions
  BY <1>1, WalkHeader, WalkOpen
<1>2. CASE RefuseLabel \/ ReadScalar \/ ReadArray
  BY <1>2, WalkRefuseLabel, WalkScalar, WalkArray
<1>3. CASE SkipOption \/ SkipItem \/ SkipDone
  BY <1>3, WalkSkipOption, WalkSkipItem, WalkSkipDone
<1>4. CASE ReadTrailing \/ Finish
  BY <1>4, WalkTrailing, WalkFinish
<1>5. CASE Refuse
  BY <1>5, SameMessage DEF Refuse, WalkInv, AcceptedAsItems
<1>6. CASE \/ HandleMessage \/ Release
           \/ \E list \in RequestList : BuildQueryResponse(list)
           \/ BuildSuccess \/ BuildError
  <2>1. input' = input /\ pos' = pos /\ phase' \in {"handled", "crashed", "released", "posting"}
    BY <1>6 DEF HandleMessage, Release, BuildQueryResponse, BuildSuccess, BuildError, parserVars
  <2>2. QED
    BY <2>1 DEF WalkInv, AcceptedAsItems
<1>7. CASE UNCHANGED vars
  <2>1. UNCHANGED <<input, pos, phase, todo, nest_level, level, type, fields, starved>>
    BY <1>7 DEF vars, parserVars
  <2>2. PICK f, n, q, e : /\ f = fields /\ n = OptionCount - todo /\ q = OptionEnds[n] + 1
                          /\ e = OptionsEnd + 1
    OBVIOUS
  <2>3. /\ HoldsOptions(f, n)' <=> HoldsOptions(f, n)
        /\ HoldsMessage(f)' <=> HoldsMessage(f)
        /\ At(q)' = At(q) /\ KindAt(q)' = KindAt(q) /\ At(e)' = At(e)
        /\ fields' = f /\ OptionCount' - todo' = n /\ (OptionEnds[OptionCount - todo] + 1)' = q
        /\ (OptionsEnd + 1)' = e
    BY <2>1, <2>2, SameItems, SameMessage
  <2>4. Between => Between'
    BY <2>1, <2>2, <2>3, SameItems, SameMessage DEF Between
  <2>5. Inside => Inside'
    BY <2>1, <2>2, <2>3, SameItems, SameMessage DEF Inside
  <2>6. QED
    BY <2>1, <2>2, <2>3, <2>4, <2>5, SameItems, SameMessage DEF WalkInv, AcceptedAsItems
<1>8. QED
  BY <1>1, <1>2, <1>3, <1>4, <1>5, <1>6, <1>7 DEF Next, ParseStep

\* For every message, well formed or not, and every pattern of failing allocations
\* parse_teep_message accepts exactly the messages whose options all fit, up to the
\* last byte, and their members then hold the last option of each label.
THEOREM MessagesReadExactly == Spec => []AcceptedAsItems
<1>1. WalkInv => AcceptedAsItems
  BY DEF WalkInv
<1>2. QED
  BY <1>1, WalkInit, WalkNext, PTL DEF Spec

----------------------------------------------------------------------------
(* The token of the last option                                            *)

\* t may answer the token of the message, or its having none.
Carries(t) ==
    /\ \A k \in LastStored(OptionCount) :
          At(First(k)).label = "token" => t \in Echoes(At(First(k)).val)
    /\ (\A k \in Stored(OptionCount) : At(First(k)).label # "token") => t \in Echoes(Null)

\* From the hand-over on the session's token is that of the message.
EchoInv ==
    /\ phase \in {"handled", "released"} /\ type = "query-request" =>
          WellFormed /\ MessageType = "query-request" /\ Carries(session_token)
    /\ posted.type # "none" => phase = "posting" /\ posted.token = session_token
    /\ posted.type = "query-response" =>
          WellFormed /\ MessageType = "query-request" /\ Carries(session_token)

\* The token of a message depends on the message alone.
LEMMA SameToken ==
    ASSUME input' = input
    PROVE  \A t : Carries(t)' <=> Carries(t)
<1>1. /\ \A p : At(p)' = At(p)
      /\ OptionCount' = OptionCount
      /\ \A k : First(k)' = First(k)
      /\ \A p : KindAt(p)' = KindAt(p)
  BY SameItems, SameMessage
<1>2. \A n : Stored(n)' = Stored(n) /\ LastStored(n)' = LastStored(n)
  BY <1>1 DEF Stored, LastStored
<1>3. QED
  BY <1>1, <1>2 DEF Carries

\* The session's copy of the token is that of the message.
LEMMA TokenCopied ==
    ASSUME MessageType = "query-request", HoldsMessage(fields),
           NEW t, t = TokenLen \/ (t = Null /\ TokenLen = 0)
    PROVE  Carries(t)
<1>1. t \in Echoes(TokenLen)
  BY DEF Echoes, Null
<1>2. /\ DOMAIN fields = {At(First(k)).label : k \in Stored(OptionCount)} \cup {TrailingLabel}
      /\ TrailingLabel # "token"
      /\ \A k \in LastStored(OptionCount) :
            fields[At(First(k)).label] = Value(First(k), KindAt(First(k)))
  BY DEF HoldsMessage, HasTrailing, TrailingLabel
<1>3. ASSUME NEW k \in LastStored(OptionCount), At(First(k)).label = "token"
      PROVE  t \in Echoes(At(First(k)).val)
  <2>1. k \in Stored(OptionCount)
    BY DEF LastStored
  <2>2. KindAt(First(k)) = "bytes"
    BY <1>3, TokenIsString DEF KindAt
  <2>3. Value(First(k), KindAt(First(k))) = At(First(k)).val
    BY <2>2 DEF Value
  <2>4. "token" \in DOMAIN fields /\ fields["token"] = At(First(k)).val
    BY <1>2, <1>3, <2>1, <2>3
  <2>5. QED
    BY <1>1, <2>4 DEF TokenLen, Token, Echoes, Null
<1>4. ASSUME \A k \in Stored(OptionCount) : At(First(k)).label # "token"
      PROVE  t \in Echoes(Null)
  <2>1. "token" \notin DOMAIN fields
    BY <1>2, <1>4
  <2>2. QED
    BY <1>1, <2>1 DEF TokenLen, Token, Echoes, Null
<1>5. QED
  BY <1>3, <1>4 DEF Carries

\* The copy outlives the message, and every answer is built from it.
LEMMA EchoNext == WalkInv /\ EchoInv /\ [Next]_vars => EchoInv'
<1> SUFFICES ASSUME WalkInv, EchoInv, [Next]_vars PROVE EchoInv'
  OBVIOUS
<1>1. CASE HandleMessage
  <2>1. phase = "parsed" /\ UNCHANGED <<input, type, posted>> /\ posted.type = "none"
    BY <1>1 DEF HandleMessage, EchoInv
  <2>2. CASE type = "query-request" /\ phase' = "handled"
    <3>1. WellFormed /\ MessageType = "query-request" /\ HoldsMessage(fields)
      BY <2>1, <2>2 DEF WalkInv, AcceptedAsItems
    <3>2. PICK t : t = session_token'
      OBVIOUS
    <3>3. t = TokenLen \/ (t = Null /\ TokenLen = 0)
      BY <1>1, <2>2, <3>2 DEF HandleMessage
    <3>4. Carries(t)
      BY <3>1, <3>3, TokenCopied
    <3>5. Carries(t)'
      BY <2>1, <3>4, SameToken
    <3>6. Carries(session_token)'
      BY <3>2, <3>5
    <3>7. QED
      BY <2>1, <3>1, <3>6, SameItems, SameMessage DEF EchoInv
  <2>3. CASE ~(type = "query-request" /\ phase' = "handled")
    <3>1. phase' \in {"handled", "crashed"}
      BY <1>1 DEF HandleMessage
    <3>2. QED
      BY <2>1, <2>3, <3>1 DEF EchoInv
  <2>4. QED
    BY <2>2, <2>3
<1>2. CASE ParseStep /\ ~HandleMessage /\ ~Release
  <2>1. /\ phase \notin {"posting", "handled"} /\ phase' \notin {"handled", "released"}
        /\ UNCHANGED <<input, posted>>
    BY <1>2 DEF ParseStep, ReadHeader, OpenOptions, RefuseLabel, ReadScalar, ReadArray,
           SkipOption, SkipItem, SkipDone, ReadTrailing, Finish, Refuse, InOption, sessionVars
  <2>2. QED
    BY <2>1 DEF EchoInv
<1>3. CASE Release \/ UNCHANGED vars
  <2>1. UNCHANGED <<input, type, session_token, posted>>
        /\ (phase' = phase \/ (phase = "handled" /\ phase' = "released"))
    <3>1. CASE Release
      BY <3>1 DEF Release, sessionVars
    <3>2. CASE UNCHANGED vars
      BY <3>2 DEF vars, parserVars, sessionVars
    <3>3. QED
      BY <1>3, <3>1, <3>2
  <2>2. PICK t : t = session_token
    OBVIOUS
  <2>3. (Carries(t)' <=> Carries(t)) /\ t = session_token'
    BY <2>1, <2>2, SameToken
  <2>4. QED
    BY <2>1, <2>2, <2>3, SameItems, SameMessage DEF EchoInv
<1>4. CASE \/ \E list \in RequestList : BuildQueryResponse(list)
           \/ BuildSuccess \/ BuildError
  <2>1. /\ UNCHANGED <<input, type, session_token>> /\ phase' = "posting"
        /\ posted'.token = session_token
    BY <1>4 DEF BuildQueryResponse, BuildSuccess, BuildError, Built, parserVars
  <2>2. PICK t : t = session_token
    OBVIOUS
  <2>3. (Carries(t)' <=> Carries(t)) /\ t = session_token'
    BY <2>1, <2>2, SameToken
  <2>4. ASSUME posted'.type = "query-response"
        PROVE  WellFormed /\ MessageType = "query-request" /\ Carries(session_token)
    BY <1>4, <2>4 DEF BuildQueryResponse, BuildSuccess, BuildError, Built, EchoInv
  <2>5. QED
    BY <2>1, <2>2, <2>3, <2>4, SameItems, SameMessage DEF EchoInv
<1>5. QED
  BY <1>1, <1>2, <1>3, <1>4 DEF Next, ParseStep

\* A QueryResponse carries the token the QueryRequest has, the last one if it has
\* several, though the request has been released; a request with no token, or an
\* empty one, is answered with an empty token or none.
THEOREM TokenIsEchoed == Spec => []TokenEchoed
<1>1. Init => EchoInv
  BY DEF Init, EchoInv
<1>2. EchoInv => TokenEchoed
  BY DEF EchoInv, TokenEchoed, Carries
<1>3. QED
  BY <1>1, <1>2, WalkInit, WalkNext, EchoNext, PTL DEF Spec
=============================================================================
