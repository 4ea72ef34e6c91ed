--------------------------- MODULE SuitParserProofs ---------------------------
(***************************************************************************)
(* The CBOR reader and the SUIT parser for every envelope and every width  *)
(* of a count and of an int: counting and skipping are exact, integers are *)
(* read as they were encoded, the manifest that is executed is one that    *)
(* every block of the wrapper has signed, its lists fit their arrays, and  *)
(* command sequences and payloads are what the items of the envelope say.  *)
(***************************************************************************)
EXTENDS SuitItems, WellFoundedInduction, TLAPS

Count == 0 .. (Modulus - 1)

----------------------------------------------------------------------------
(* Induction and recursion over Nat                                        *)

\* A set of numbers with no least number outside it has them all.
LEMMA SetInduction ==
    ASSUME NEW S, 0 \in S, \A n \in Nat : n \in S => n + 1 \in S
    PROVE  \A n \in Nat : n \in S
<1> DEFINE R == OpToRel(<, Nat)
           T == Nat \ S
<1>1. IsWellFoundedOn(R, Nat)
  BY NatLessThanWellFounded
<1>2. ASSUME T # {} PROVE FALSE
  <2> HIDE DEF R
  <2>1. PICK x \in T : \A y \in T : ~(<<y, x>> \in R)
    BY <1>1, <1>2, WFMin
  <2>2. x \in Nat /\ x # 0 /\ x - 1 \in Nat
    OBVIOUS
  <2>3. <<x - 1, x>> \in R
    BY <2>2 DEF R, OpToRel
  <2>4. x - 1 \in S
    BY <2>1, <2>2, <2>3
  <2>5. QED
    BY <2>2, <2>4
<1>3. QED
  BY <1>2

\* A function on 0 .. n whose values are computed by g from the one before.
Recursion(e, n, c, g) == e = [i \in 0 .. n |-> IF i = 0 THEN c ELSE g[<<e[i - 1], i>>]]

\* Such functions exist.
LEMMA RecursionExists ==
    ASSUME NEW S, NEW c \in S, NEW g \in [S \X Nat -> S]
    PROVE  \A n \in Nat : \E e \in [0 .. n -> S] : Recursion(e, n, c, g)
<1> DEFINE D == {n \in Nat : \E e \in [0 .. n -> S] : Recursion(e, n, c, g)}
<1>1. 0 \in D
  <2>1. [i \in 0 .. 0 |-> c] \in [0 .. 0 -> S]
    OBVIOUS
  <2>2. Recursion([i \in 0 .. 0 |-> c], 0, c, g)
    BY DEF Recursion
  <2>3. QED
    BY <2>1, <2>2
<1>2. ASSUME NEW n \in Nat, n \in D PROVE n + 1 \in D
  <2>1. PICK e \in [0 .. n -> S] : Recursion(e, n, c, g)
    BY <1>2
  <2> DEFINE next == [i \in 0 .. (n + 1) |-> IF i = n + 1 THEN g[<<e[n], n + 1>>] ELSE e[i]]
  <2>2. g[<<e[n], n + 1>>] \in S
    OBVIOUS
  <2>3. next \in [0 .. (n + 1) -> S]
    BY <2>2
  <2>4. ASSUME NEW i \in 0 .. (n + 1)
        PROVE  next[i] = IF i = 0 THEN c ELSE g[<<next[i - 1], i>>]
    <3>1. CASE i = n + 1
      <4>1. i # 0 /\ i - 1 = n /\ n \in 0 .. (n + 1) /\ n # n + 1
        BY <3>1
      <4>2. next[n] = e[n]
        BY <4>1
      <4>3. next[i] = g[<<e[n], i>>]
        BY <3>1
      <4>4. QED
        BY <4>1, <4>2, <4>3
    <3>2. CASE i \in 0 .. n
      <4>1. e[i] = IF i = 0 THEN c ELSE g[<<e[i - 1], i>>]
        BY <2>1, <3>2 DEF Recursion
      <4>2. next[i] = e[i]
        BY <3>2
      <4>3. i # 0 => next[i - 1] = e[i - 1]
        BY <3>2
      <4>4. QED
        BY <4>1, <4>2, <4>3
    <3>3. QED
      BY <3>1, <3>2
  <2>5. Recursion(next, n + 1, c, g)
    BY <2>4 DEF Recursion
  <2>6. QED
    BY <2>3, <2>5
<1>3. \A n \in Nat : n \in D
  <2> HIDE DEF D
  <2>1. QED
    BY <1>1, <1>2, SetInduction
<1>4. QED
  BY <1>3

----------------------------------------------------------------------------
(* Counting                                                                *)

\* The test for an overflow after an addition of uint64_t (teecbor.h:173, 388):
\* the sum is below its first term if and only if it was too large, and otherwise
\* it is the true sum.
LEMMA CheckedAddExact ==
    ASSUME NEW count \in Count, NEW c \in Count
    PROVE  CheckedAdd(count, c) = IF count + c < Modulus THEN count + c ELSE Overflow
<1>1. Modulus \in Nat \ {0}
    BY TeeCborAssumption
<1>2. CASE count + c < Modulus
    <2>1. (count + c) % Modulus = count + c
        BY <1>1, <1>2 DEF Count
    <2> QED
        BY <1>1, <1>2, <2>1 DEF CheckedAdd, Count
<1>3. CASE count + c >= Modulus
    <2>1. (count + c) % Modulus = count + c - Modulus
        <3>1. count + c - Modulus \in 0 .. (Modulus - 1)
            BY <1>1, <1>3 DEF Count
        <3>2. count + c = Modulus * 1 + (count + c - Modulus)
            BY <1>1 DEF Count
        <3> QED
            BY <1>1, <3>1, <3>2 DEF Count
    <2> QED
        BY <1>1, <1>3, <2>1 DEF CheckedAdd, Count, Overflow
<1> QED
    BY <1>1, <1>2, <1>3 DEF Count

\* tcbor_primitive_skip has the true number of items left after every head, or
\* reports an overflow because a uint64_t cannot hold it (teecbor.h:163).
THEOREM SkipCountExact ==
    ASSUME NEW h, h.val \in Count, NEW count \in Count \ {0}
    PROVE  CountAfter(h, count) = IF TrueCount(h, count) < Modulus
                                  THEN TrueCount(h, count) ELSE Overflow
<1>0. Modulus \in Nat \ {0} /\ count - 1 \in Count /\ count < Modulus /\ count \in Nat
    BY TeeCborAssumption DEF Count
<1>1. CASE IsTag(h)
    BY <1>0, <1>1 DEF CountAfter, TrueCount
<1>2. CASE ~IsTag(h) /\ IsArray(h)
    BY <1>0, <1>2, CheckedAddExact DEF CountAfter, TrueCount, Members
<1>3. CASE ~IsTag(h) /\ ~IsArray(h) /\ IsMap(h)
    <2> DEFINE once == CheckedAdd(count - 1, h.val)
    <2>1. once = IF count - 1 + h.val < Modulus THEN count - 1 + h.val ELSE Overflow
        BY <1>0, CheckedAddExact
    <2>2. CountAfter(h, count) = IF once = Overflow THEN Overflow ELSE CheckedAdd(once, h.val)
        BY <1>3 DEF CountAfter
    <2>3. TrueCount(h, count) = count - 1 + h.val + h.val
        BY <1>0, <1>3 DEF TrueCount, Members, Count
    <2>4. CASE count - 1 + h.val >= Modulus
        <3>1. TrueCount(h, count) >= Modulus
            BY <1>0, <2>3, <2>4 DEF Count
        <3> QED
            BY <1>0, <2>1, <2>2, <2>4, <3>1, <2>3 DEF Count
    <2>5. CASE count - 1 + h.val < Modulus
        <3>1. once = count - 1 + h.val /\ once \in Count /\ once # Overflow
            BY <1>0, <2>1, <2>5 DEF Count, Overflow
        <3>2. CheckedAdd(once, h.val) = IF once + h.val < Modulus THEN once + h.val ELSE Overflow
            BY <3>1, CheckedAddExact
        <3> HIDE DEF once
        <3> QED
            BY <3>1, <3>2, <2>2, <2>3
    <2> QED
        BY <1>0, <2>4, <2>5 DEF Count
<1>4. CASE ~IsTag(h) /\ ~IsArray(h) /\ ~IsMap(h)
    <2>1. CountAfter(h, count) = count - 1
        BY <1>4 DEF CountAfter
    <2>2. TrueCount(h, count) = count - 1
        BY <1>0, <1>4 DEF TrueCount, Members
    <2>3. count - 1 < Modulus
        BY <1>0
    <2> QED
        BY <2>1, <2>2, <2>3
<1> QED
    BY <1>1, <1>2, <1>3, <1>4
----------------------------------------------------------------------------
(* Skipping                                                                *)

\* The true number of items left after each head, for a counter of any size.
TrueLeft(left, heads, count) ==
    left = [i \in 0 .. Len(heads) |->
              IF i = 0 THEN count
              ELSE IF left[i - 1] = 0 THEN 0 ELSE TrueCount(heads[i], left[i - 1])]

\* The counter of tcbor_primitive_skip after each head.
CountLeft(left, heads, count) ==
    left = [i \in 0 .. Len(heads) |->
              IF i = 0 THEN count
              ELSE IF left[i - 1] \in {0, Overflow} THEN left[i - 1]
              ELSE IF heads[i].mt = Unreadable THEN Overflow
              ELSE CountAfter(heads[i], left[i - 1])]

\* A head is a head, wherever it stands.
LEMMA HeadType ==
    ASSUME NEW heads \in Seq(CborHead), NEW i \in 1 .. Len(heads)
    PROVE  /\ heads[i] \in CborHead /\ heads[i].val \in Count /\ heads[i].mt \in 0 .. Unreadable
           /\ heads[i].body \in Seq(CborHead)
<1>1. heads[i] \in CborHead
    OBVIOUS
<1> QED
    BY <1>1, TeeCborAssumption DEF Count

\* The counter stays in its range, or has overflowed.
LEMMA CountLeftExists ==
    ASSUME NEW heads \in Seq(CborHead), NEW count \in Count
    PROVE  \E left \in [0 .. Len(heads) -> Count \cup {Overflow}] : CountLeft(left, heads, count)
<1> DEFINE S == Count \cup {Overflow}
           n == Len(heads)
           g == [x \in S \X Nat |->
                    IF x[1] \in {0, Overflow} \/ x[2] \notin 1 .. n THEN x[1]
                    ELSE IF heads[x[2]].mt = Unreadable THEN Overflow
                    ELSE CountAfter(heads[x[2]], x[1])]
<1>1. n \in Nat /\ count \in S
    OBVIOUS
<1>2. ASSUME NEW c \in Count \ {0}, NEW i \in 1 .. n PROVE CountAfter(heads[i], c) \in S
    <2>1. heads[i].val \in Count
        BY HeadType
    <2>2. TrueCount(heads[i], c) \in Nat
        <3>1. c \in Nat \ {0} /\ heads[i].val \in Nat
            BY <2>1, TeeCborAssumption DEF Count
        <3> QED
            BY <3>1 DEF TrueCount, Members
    <2>3. CountAfter(heads[i], c) = IF TrueCount(heads[i], c) < Modulus
                                    THEN TrueCount(heads[i], c) ELSE Overflow
        BY <2>1, SkipCountExact
    <2> QED
        BY <2>2, <2>3, TeeCborAssumption DEF Count
<1>3. g \in [S \X Nat -> S]
    <2>1. ASSUME NEW x \in S \X Nat PROVE g[x] \in S
        <3>1. CASE x[1] \in {0, Overflow} \/ x[2] \notin 1 .. n
            BY <3>1
        <3>2. CASE x[1] \in Count \ {0} /\ x[2] \in 1 .. n
            <4>1. CountAfter(heads[x[2]], x[1]) \in S
                BY <1>2, <3>2
            <4> QED
                BY <3>2, <4>1
        <3> QED
            BY <3>1, <3>2
    <2> QED
        BY <2>1
<1>4. PICK left \in [0 .. n -> S] : Recursion(left, n, count, g)
    <2> HIDE DEF g, S, n
    <2> QED
        BY <1>1, <1>3, RecursionExists
<1>5. ASSUME NEW i \in 0 .. n, i # 0
      PROVE  g[<<left[i - 1], i>>] =
                 IF left[i - 1] \in {0, Overflow} THEN left[i - 1]
                 ELSE IF heads[i].mt = Unreadable THEN Overflow
                 ELSE CountAfter(heads[i], left[i - 1])
    <2>1. <<left[i - 1], i>> \in S \X Nat /\ i \in 1 .. n
        BY <1>1, <1>5
    <2> HIDE DEF S
    <2> QED
        BY <2>1
<1>6. CountLeft(left, heads, count)
    <2> HIDE DEF g, S
    <2> QED
        BY <1>4, <1>5 DEF Recursion, CountLeft
<1> QED
    BY <1>6

\* The true numbers are defined for every sequence of heads.
LEMMA TrueLeftExists ==
    ASSUME NEW heads \in Seq(CborHead), NEW count \in Count
    PROVE  \E left \in [0 .. Len(heads) -> Nat] : TrueLeft(left, heads, count)
<1> DEFINE n == Len(heads)
           g == [x \in Nat \X Nat |->
                    IF x[1] = 0 \/ x[2] \notin 1 .. n THEN 0 ELSE TrueCount(heads[x[2]], x[1])]
<1>1. n \in Nat /\ count \in Nat
    BY TeeCborAssumption DEF Count
<1>2. ASSUME NEW c \in Nat \ {0}, NEW i \in 1 .. n PROVE TrueCount(heads[i], c) \in Nat
    <2>1. heads[i].val \in Nat
        BY HeadType, TeeCborAssumption DEF Count
    <2> QED
        BY <2>1 DEF TrueCount, Members
<1>3. g \in [Nat \X Nat -> Nat]
    BY <1>2
<1>4. PICK left \in [0 .. n -> Nat] : Recursion(left, n, count, g)
    <2> HIDE DEF g, n
    <2> QED
        BY <1>1, <1>3, RecursionExists
<1>5. ASSUME NEW i \in 0 .. n, i # 0
      PROVE  g[<<left[i - 1], i>>] =
                 IF left[i - 1] = 0 THEN 0 ELSE TrueCount(heads[i], left[i - 1])
    <2>1. <<left[i - 1], i>> \in Nat \X Nat /\ i \in 1 .. n
        BY <1>1, <1>5
    <2> QED
        BY <2>1
<1>6. TrueLeft(left, heads, count)
    <2> HIDE DEF g
    <2> QED
        BY <1>4, <1>5 DEF Recursion, TrueLeft
<1> QED
    BY <1>6

LEMMA ItemsLeftTrue ==
    ASSUME NEW heads \in Seq(CborHead), NEW count \in Count
    PROVE  TrueLeft(ItemsLeft(heads, count), heads, count)
<1> DEFINE left == CHOOSE f : f = [i \in 0 .. Len(heads) |->
                      IF i = 0 THEN count
                      ELSE IF f[i - 1] = 0 THEN 0 ELSE TrueCount(heads[i], f[i - 1])]
<1>1. \E f : TrueLeft(f, heads, count)
    BY TrueLeftExists
<1>2. TrueLeft(left, heads, count)
    BY <1>1, Zenon DEF TrueLeft
<1>3. ItemsLeft(heads, count) = left
    BY Zenon DEF ItemsLeft
<1> QED
    BY <1>2, <1>3

\* The counter and the true number, head by head: they agree until the counter
\* overflows, which it does not do without a cause.
LEMMA CounterAgrees ==
    ASSUME NEW heads \in Seq(CborHead), NEW count \in Count,
           NEW a, CountLeft(a, heads, count), NEW b, TrueLeft(b, heads, count)
    PROVE  \A i \in 0 .. Len(heads) :
             /\ a[i] \in Count \cup {Overflow} /\ b[i] \in Nat
             /\ a[i] # Overflow =>
                   /\ a[i] = b[i]
                   /\ \A j \in 0 .. (i - 1) :
                         a[j] # Overflow /\ (a[j] # 0 => heads[j + 1].mt # Unreadable)
             /\ (\A j \in 0 .. (i - 1) : b[j] \in 1 .. (Modulus - 1) /\ heads[j + 1].mt # Unreadable)
                /\ b[i] \in Count => a[i] # Overflow
<1> DEFINE n == Len(heads)
           Clear(j) == b[j] \in 1 .. (Modulus - 1) /\ heads[j + 1].mt # Unreadable
           Type(i) == a[i] \in Count \cup {Overflow} /\ b[i] \in Nat
           Agree(i) == a[i] # Overflow =>
                          /\ a[i] = b[i]
                          /\ \A j \in 0 .. (i - 1) :
                                a[j] # Overflow /\ (a[j] # 0 => heads[j + 1].mt # Unreadable)
           Caused(i) == (\A j \in 0 .. (i - 1) : Clear(j)) /\ b[i] \in Count => a[i] # Overflow
           D == {i \in Nat : i <= n => Type(i) /\ Agree(i) /\ Caused(i)}
<1>1. n \in Nat /\ Modulus \in Nat \ {0} /\ count \in Nat /\ count # Overflow
    BY TeeCborAssumption DEF Count, Overflow
<1>2. 0 \in D
    <2>1. a[0] = count /\ b[0] = count
        BY <1>1 DEF CountLeft, TrueLeft
    <2> QED
        BY <1>1, <2>1
<1>3. ASSUME NEW i \in Nat, i \in D PROVE i + 1 \in D
    <2> SUFFICES ASSUME i + 1 <= n PROVE Type(i + 1) /\ Agree(i + 1) /\ Caused(i + 1)
        OBVIOUS
    <2>1. Type(i) /\ Agree(i) /\ Caused(i)
        BY <1>1, <1>3
    <2>2. i + 1 \in 0 .. n /\ i + 1 # 0 /\ (i + 1) - 1 = i /\ i + 1 \in 1 .. n
        BY <1>1
    <2>3. a[i + 1] = IF a[i] \in {0, Overflow} THEN a[i]
                     ELSE IF heads[i + 1].mt = Unreadable THEN Overflow
                     ELSE CountAfter(heads[i + 1], a[i])
        BY <2>2 DEF CountLeft
    <2>4. b[i + 1] = IF b[i] = 0 THEN 0 ELSE TrueCount(heads[i + 1], b[i])
        BY <2>2 DEF TrueLeft
    <2>5. heads[i + 1].val \in Count /\ heads[i + 1].val \in Nat
        BY <2>2, HeadType, TeeCborAssumption DEF Count
    <2>6. b[i] # 0 => TrueCount(heads[i + 1], b[i]) \in Nat
        BY <2>1, <2>5 DEF TrueCount, Members
    <2>7. b[i + 1] \in Nat
        BY <2>4, <2>6
    <2>8. \A j \in 0 .. i : j = i \/ j \in 0 .. (i - 1)
        OBVIOUS
    <2>9. CASE a[i] = Overflow
        <3>1. a[i + 1] = Overflow
            BY <2>3, <2>9
        <3>2. Caused(i + 1)
            <4> SUFFICES ASSUME \A j \in 0 .. ((i + 1) - 1) : Clear(j) PROVE FALSE
                OBVIOUS
            <4>1. (\A j \in 0 .. (i - 1) : Clear(j)) /\ Clear(i)
                BY <2>2
            <4>2. b[i] \in Count
                BY <1>1, <4>1 DEF Count
            <4> QED
                BY <2>1, <2>9, <4>1, <4>2
        <3> QED
            BY <2>7, <3>1, <3>2
    <2>10. CASE a[i] = 0
        <3>1. a[i + 1] = 0 /\ b[i] = 0 /\ b[i + 1] = 0
            BY <2>1, <2>3, <2>4, <2>10 DEF Overflow
        <3> QED
            BY <1>1, <2>1, <2>2, <2>8, <2>10, <3>1 DEF Count, Overflow
    <2>11. CASE a[i] \notin {0, Overflow}
        <3>1. a[i] \in Count \ {0} /\ b[i] = a[i] /\ b[i] # 0
            BY <2>1, <2>11
        <3>2. CASE heads[i + 1].mt = Unreadable
            <4>1. a[i + 1] = Overflow
                BY <2>3, <2>11, <3>2
            <4>2. ~Clear(i) /\ i \in 0 .. ((i + 1) - 1)
                BY <3>2
            <4> QED
                BY <2>7, <4>1, <4>2
        <3>3. CASE heads[i + 1].mt # Unreadable
            <4>1. CountAfter(heads[i + 1], a[i]) =
                      IF TrueCount(heads[i + 1], a[i]) < Modulus
                      THEN TrueCount(heads[i + 1], a[i]) ELSE Overflow
                BY <2>5, <3>1, SkipCountExact
            <4>2. a[i + 1] = IF b[i + 1] < Modulus THEN b[i + 1] ELSE Overflow
                BY <2>3, <2>4, <2>11, <3>1, <3>3, <4>1
            <4>3. b[i + 1] # Overflow
                BY <2>7 DEF Overflow
            <4>4. Type(i + 1)
                BY <1>1, <2>7, <4>2 DEF Count
            <4>5. Agree(i + 1)
                BY <2>1, <2>2, <2>8, <2>11, <3>3, <4>2
            <4>6. Caused(i + 1)
                <5>1. b[i + 1] \in Count => b[i + 1] < Modulus
                    BY <1>1 DEF Count
                <5> QED
                    BY <4>2, <4>3, <5>1
            <4> QED
                BY <4>4, <4>5, <4>6
        <3> QED
            BY <3>2, <3>3
    <2> QED
        BY <2>9, <2>10, <2>11
<1>4. \A i \in Nat : i \in D
    <2> HIDE DEF D
    <2> QED
        BY <1>2, <1>3, SetInduction
<1> QED
    BY <1>1, <1>4

\* The first number of heads after which nothing is left, as tcbor_primitive_skip
\* finds it.
SkipResult(heads, left) ==
    LET ends == {i \in 0 .. Len(heads) : left[i] = 0}
    IN  IF ends = {} THEN Failed
        ELSE LET n == CHOOSE i \in ends : \A j \in ends : i <= j
             IN  Done(SubSeq(heads, n + 1, Len(heads)), SubSeq(heads, 1, n))

LEMMA SkipCounts ==
    ASSUME NEW heads \in Seq(CborHead), NEW count \in Count
    PROVE  \E left : CountLeft(left, heads, count) /\ PrimitiveSkip(heads, count) = SkipResult(heads, left)
<1>1. \E left : CountLeft(left, heads, count)
    BY CountLeftExists
<1> DEFINE left == CHOOSE f : f = [i \in 0 .. Len(heads) |->
                      IF i = 0 THEN count
                      ELSE IF f[i - 1] \in {0, Overflow} THEN f[i - 1]
                      ELSE IF heads[i].mt = Unreadable THEN Overflow
                      ELSE CountAfter(heads[i], f[i - 1])]
<1>2. CountLeft(left, heads, count)
    BY <1>1, Zenon DEF CountLeft
<1>3. PrimitiveSkip(heads, count) = SkipResult(heads, left)
    BY Zenon DEF PrimitiveSkip, SkipResult
<1> QED
    BY <1>2, <1>3

\* A set of numbers that is not empty has a least number.
LEMMA LeastExists ==
    ASSUME NEW S \in SUBSET Nat, S # {}
    PROVE  \E n \in S : \A m \in S : n <= m
<1> DEFINE R == OpToRel(<, Nat)
<1>1. IsWellFoundedOn(R, Nat)
    BY NatLessThanWellFounded
<1>2. PICK n \in S : \A m \in S : ~(<<m, n>> \in R)
    <2> HIDE DEF R
    <2> QED
        BY <1>1, WFMin
<1>3. ASSUME NEW m \in S PROVE n <= m
    <2>1. n \in Nat /\ m \in Nat /\ ~(<<m, n>> \in R)
        BY <1>2
    <2> QED
        BY <2>1 DEF OpToRel
<1> QED
    BY <1>3

\* tcbor_primitive_skip (teecbor.h:153) passes the items it is asked to pass,
\* nested and tagged as they may be: it stops after exactly the heads of count
\* items, and it gives up only if a head of theirs cannot be read, if the input
\* ends before they do, or if the number of open items outgrows a uint64_t.
THEOREM SkipExact ==
    ASSUME NEW heads \in Seq(CborHead), NEW count \in Count
    PROVE  LET s == PrimitiveSkip(heads, count)
           IN  /\ s.ok => \E n : /\ Passed(heads, count, n)
                                 /\ s.val = SubSeq(heads, 1, n)
                                 /\ s.ctx = SubSeq(heads, n + 1, Len(heads))
               /\ (\E n : Passed(heads, count, n)) => s.ok
<1> DEFINE s == PrimitiveSkip(heads, count)
           b == ItemsLeft(heads, count)
<1>0. Len(heads) \in Nat /\ Modulus \in Nat \ {0}
    BY TeeCborAssumption
<1>1. TrueLeft(b, heads, count)
    BY ItemsLeftTrue
<1>2. PICK a : CountLeft(a, heads, count) /\ s = SkipResult(heads, a)
    BY SkipCounts
<1> HIDE DEF b, s
<1> DEFINE ends == {i \in 0 .. Len(heads) : a[i] = 0}
<1>3. \A i \in 0 .. Len(heads) :
             /\ a[i] \in Count \cup {Overflow} /\ b[i] \in Nat
             /\ a[i] # Overflow =>
                   /\ a[i] = b[i]
                   /\ \A j \in 0 .. (i - 1) :
                         a[j] # Overflow /\ (a[j] # 0 => heads[j + 1].mt # Unreadable)
             /\ (\A j \in 0 .. (i - 1) : b[j] \in 1 .. (Modulus - 1) /\ heads[j + 1].mt # Unreadable)
                /\ b[i] \in Count => a[i] # Overflow
    BY <1>1, <1>2, CounterAgrees
<1>4. ASSUME s.ok
      PROVE  \E n : /\ Passed(heads, count, n)
                    /\ s.val = SubSeq(heads, 1, n)
                    /\ s.ctx = SubSeq(heads, n + 1, Len(heads))
    <2>1. ends # {} /\ ends \subseteq Nat
        BY <1>2, <1>4 DEF SkipResult, Failed
    <2> DEFINE n == CHOOSE i \in ends : \A j \in ends : i <= j
    <2>2. n \in ends /\ \A j \in ends : n <= j
        <3> HIDE DEF ends
        <3>1. \E i \in ends : \A j \in ends : i <= j
            BY <2>1, LeastExists
        <3> QED
            BY <3>1
    <2>3. s = Done(SubSeq(heads, n + 1, Len(heads)), SubSeq(heads, 1, n))
        BY <1>2, <2>1, Zenon DEF SkipResult
    <2> HIDE DEF n
    <2>4. n \in 0 .. Len(heads) /\ a[n] = 0 /\ a[n] # Overflow
        BY <2>2 DEF Overflow
    <2>5. b[n] = 0
        BY <1>3, <2>4
    <2>6. ASSUME NEW i \in 0 .. (n - 1)
          PROVE  b[i] \in 1 .. (Modulus - 1) /\ heads[i + 1].mt # Unreadable
        <3>1. i \in 0 .. Len(heads) /\ i < n
            BY <1>0, <2>4
        <3>2. a[i] # 0
            BY <2>2, <2>4, <3>1
        <3>3. a[i] # Overflow /\ heads[i + 1].mt # Unreadable
            BY <1>3, <2>4, <3>2
        <3>4. a[i] \in Count /\ b[i] = a[i]
            BY <1>3, <3>1, <3>3
        <3> QED
            BY <1>0, <3>2, <3>3, <3>4 DEF Count
    <2>7. Passed(heads, count, n)
        BY <2>4, <2>5, <2>6 DEF Passed, b
    <2> QED
        BY <2>3, <2>7 DEF Done
<1>5. ASSUME NEW n, Passed(heads, count, n)
      PROVE  s.ok
    <2>1. /\ n \in 0 .. Len(heads) /\ b[n] = 0
          /\ \A i \in 0 .. (n - 1) : b[i] \in 1 .. (Modulus - 1) /\ heads[i + 1].mt # Unreadable
        BY <1>5 DEF Passed, b
    <2>2. b[n] \in Count
        BY <1>0, <2>1 DEF Count
    <2>3. a[n] = 0
        BY <1>3, <2>1, <2>2
    <2>4. ends # {}
        BY <2>1, <2>3
    <2> QED
        BY <1>2, <2>4 DEF SkipResult, Done
<1> QED
    BY <1>4, <1>5 DEF s

----------------------------------------------------------------------------
(* Integers                                                                *)

LEMMA ToIntRange ==
    ASSUME NEW n \in Int
    PROVE  ToInt(n) \in -(INT_MAX + 1) .. INT_MAX
<1> DEFINE m == 2 * (INT_MAX + 1)
<1>1. INT_MAX \in Nat /\ m \in Nat \ {0} /\ n % m \in 0 .. (m - 1)
    BY TeeCborAssumption
<1>2. ToInt(n) = IF n % m > INT_MAX THEN (n % m) - m ELSE n % m
    BY DEF ToInt
<1> QED
    BY <1>1, <1>2

\* The value of a head as a mathematical integer.
TrueInt(h) == IF IsUint(h) THEN h.val ELSE -1 - h.val

\* tcbor_read_int (teecbor.h:318) returns the integer that was encoded, unless the
\* encoded value is within INT_MAX + 1 of the top of the range of uint64_t.
THEOREM ReadIntSound ==
    ASSUME NEW ctx, ReadInt(ctx).ok,
           ReadAny(ctx).val.val \in 0 .. (Modulus - (INT_MAX + 1) - 1)
    PROVE  ReadInt(ctx).val = TrueInt(ReadAny(ctx).val)
<1> DEFINE h == ReadAny(ctx).val
           v == h.val
           r == IF IsUint(h) THEN ToInt(v) ELSE ToInt(Modulus - 1 - v)
           back == IF IsUint(h) THEN r ELSE -1 - r
           x == ReadAny(ctx)
<1>0. INT_MAX \in Nat /\ Modulus \in Nat \ {0} /\ v \in 0 .. (Modulus - (INT_MAX + 1) - 1)
      /\ Modulus >= 2 * (INT_MAX + 1)
    BY TeeCborAssumption
<1>1. x.ok /\ (IsUint(h) \/ IsNint(h))
    BY DEF ReadInt, Failed
<1>2. ReadInt(ctx) = IF back % Modulus = v THEN Done(x.ctx, r) ELSE Failed
    BY <1>1 DEF ReadInt
<1>3. back % Modulus = v /\ ReadInt(ctx).val = r
    BY <1>2 DEF Failed, Done
<1>4. r \in -(INT_MAX + 1) .. INT_MAX
    <2>1. v \in Int /\ Modulus - 1 - v \in Int
        BY <1>0
    <2> QED
        BY <2>1, ToIntRange
<1>5. back \in -(INT_MAX + 1) .. INT_MAX
    BY <1>0, <1>4
<1> HIDE DEF r
<1>6. CASE back >= 0
    <2>1. back % Modulus = back
        BY <1>0, <1>5, <1>6
    <2> QED
        BY <1>0, <1>3, <1>4, <2>1 DEF TrueInt
<1>7. CASE back < 0
    <2> DEFINE top == Modulus + back
    <2>1. top \in 0 .. (Modulus - 1) /\ back = Modulus * (-1) + top /\ back \in Int
        BY <1>0, <1>5, <1>7
    <2>2. back % Modulus = top
        BY <1>0, <2>1
    <2> QED
        BY <1>0, <1>3, <1>5, <2>2
<1> QED
    BY <1>5, <1>6, <1>7
----------------------------------------------------------------------------
(* Reading                                                                 *)

Reading == [r : Seq(CborHead), index : Int, count : Int]

\* What is left of a sequence of heads when some of them have been read.
Suffix(r, heads) ==
    /\ Len(r) <= Len(heads)
    /\ \A k \in 1 .. Len(r) : r[k] = heads[Len(heads) - Len(r) + k]

LEMMA SuffixTail ==
    ASSUME NEW r \in Seq(CborHead), NEW heads \in Seq(CborHead), r # <<>>, Suffix(r, heads)
    PROVE  /\ Tail(r) \in Seq(CborHead) /\ Suffix(Tail(r), heads)
           /\ r[1] = heads[Len(heads) - Len(r) + 1] /\ Len(Tail(r)) = Len(r) - 1
           /\ Len(r) >= 1
<1>1. Len(r) \in Nat \ {0} /\ Len(heads) \in Nat
    OBVIOUS
<1>2. Tail(r) \in Seq(CborHead) /\ Len(Tail(r)) = Len(r) - 1
    BY <1>1
<1>3. \A k \in 1 .. Len(Tail(r)) : Tail(r)[k] = r[k + 1]
    BY <1>1, <1>2
<1> QED
    BY <1>1, <1>2, <1>3 DEF Suffix

LEMMA SuffixSubSeq ==
    ASSUME NEW r \in Seq(CborHead), NEW heads \in Seq(CborHead), Suffix(r, heads),
           NEW n \in 0 .. Len(r)
    PROVE  SubSeq(r, n + 1, Len(r)) \in Seq(CborHead) /\ Suffix(SubSeq(r, n + 1, Len(r)), heads)
<1> DEFINE t == SubSeq(r, n + 1, Len(r))
<1>1. Len(r) \in Nat /\ Len(heads) \in Nat /\ n \in Nat /\ n <= Len(r)
    OBVIOUS
<1>2. \A k \in (n + 1) .. Len(r) : r[k] \in CborHead
    BY <1>1
<1>3. t \in Seq(CborHead) /\ Len(t) = Len(r) - n
    BY <1>1, <1>2
<1>4. \A k \in 1 .. Len(t) : t[k] = r[n + k]
    BY <1>1, <1>3
<1> HIDE DEF t
<1>5. Suffix(t, heads)
    BY <1>1, <1>3, <1>4 DEF Suffix
<1> QED
    BY <1>3, <1>5 DEF t

\* A context whose cursor has moved.
Move(ctx, r, i) == [ctx EXCEPT !.r = r, !.index = i]

LEMMA Moved ==
    ASSUME NEW ctx \in Reading, NEW r \in Seq(CborHead), NEW i \in Int
    PROVE  /\ Move(ctx, r, i) \in Reading
           /\ Move(ctx, r, i).r = r /\ Move(ctx, r, i).index = i
           /\ Move(ctx, r, i).count = ctx.count
    BY DEF Reading, Move

\* tcbor_read_any moves past one head, which an item is charged for unless it is a
\* tag.
LEMMA ReadAnyReads ==
    ASSUME NEW ctx \in Reading, ReadAny(ctx).ok
    PROVE  /\ ~AtEnd(ctx) /\ ctx.r # <<>>
           /\ ReadAny(ctx).val = ctx.r[1] /\ ctx.r[1] \in CborHead
           /\ ReadAny(ctx).ctx \in Reading /\ ReadAny(ctx).ctx.r = Tail(ctx.r)
           /\ ReadAny(ctx).ctx.index = IF IsTag(ctx.r[1]) THEN ctx.index ELSE ctx.index + 1
           /\ ReadAny(ctx).ctx.count = ctx.count
<1>1. ~AtEnd(ctx) /\ Readable(ctx.r)
    BY DEF ReadAny, Failed
<1>2. ctx.r \in Seq(CborHead) /\ ctx.r # <<>> /\ Tail(ctx.r) \in Seq(CborHead) /\ ctx.r[1] \in CborHead
    BY <1>1 DEF Readable, Reading
<1>3. ReadAny(ctx) = Done([ctx EXCEPT !.r = Tail(@), !.index = IF IsTag(ctx.r[1]) THEN @ ELSE @ + 1],
                          ctx.r[1])
    BY <1>1 DEF ReadAny
<1>4. /\ ReadAny(ctx).val = ctx.r[1]
      /\ ReadAny(ctx).ctx = [ctx EXCEPT !.r = Tail(@), !.index = IF IsTag(ctx.r[1]) THEN @ ELSE @ + 1]
    BY <1>3 DEF Done
<1> DEFINE i == IF IsTag(ctx.r[1]) THEN ctx.index ELSE ctx.index + 1
           next == ReadAny(ctx).ctx
<1>5. i \in Int
    BY DEF Reading
<1>6. next = Move(ctx, Tail(ctx.r), i)
    BY <1>4 DEF Move
<1>7. next \in Reading /\ next.r = Tail(ctx.r) /\ next.index = i /\ next.count = ctx.count
    <2> HIDE DEF i, next
    <2> QED
        BY <1>2, <1>5, <1>6, Moved
<1> QED
    BY <1>1, <1>2, <1>4, <1>7

\* tcbor_read_bstr reads one item, a byte string.
LEMMA ReadBstrReads ==
    ASSUME NEW ctx \in Reading, ReadBstr(ctx).ok
    PROVE  /\ ~AtEnd(ctx) /\ ctx.r # <<>>
           /\ ctx.r[1] \in CborHead /\ IsBstr(ctx.r[1]) /\ ctx.r[1].body \in Seq(CborHead)
           /\ ReadBstr(ctx).val = Bytes(ctx.r[1].body)
           /\ ReadBstr(ctx).ctx \in Reading /\ ReadBstr(ctx).ctx.r = Tail(ctx.r)
           /\ ReadBstr(ctx).ctx.index = ctx.index + 1
           /\ ReadBstr(ctx).ctx.count = ctx.count
<1> DEFINE x == ReadAny(ctx)
<1>1. x.ok /\ IsBstr(x.val) /\ ReadBstr(ctx) = Done(x.ctx, Bytes(x.val.body))
    BY DEF ReadBstr, Failed
<1>2. ReadBstr(ctx).ctx = x.ctx /\ ReadBstr(ctx).val = Bytes(x.val.body)
    BY <1>1 DEF Done
<1>3. ~IsTag(x.val)
    BY <1>1 DEF IsBstr, IsTag
<1>4. x.val = ctx.r[1] /\ ctx.r[1] \in CborHead
    BY <1>1, ReadAnyReads
<1>5. ctx.r[1].body \in Seq(CborHead)
    BY <1>4, TeeCborAssumption
<1> HIDE DEF x
<1> QED
    BY <1>1, <1>2, <1>3, <1>4, <1>5, ReadAnyReads DEF x

\* tcbor_skip moves forward in what it reads.
LEMMA SkipReads ==
    ASSUME NEW ctx \in Reading, NEW heads \in Seq(CborHead), Suffix(ctx.r, heads), Skip(ctx, 1).ok
    PROVE  Skip(ctx, 1).ctx \in Reading /\ Suffix(Skip(ctx, 1).ctx.r, heads)
<1> DEFINE s == PrimitiveSkip(ctx.r, 1)
<1>1. s.ok /\ Skip(ctx, 1) = Done([ctx EXCEPT !.r = s.ctx, !.index = @ + 1], s.val)
    BY DEF Skip, Failed
<1>2. ctx.r \in Seq(CborHead) /\ 1 \in Count
    BY TeeCborAssumption DEF Reading, Count
<1>3. PICK n : Passed(ctx.r, 1, n) /\ s.ctx = SubSeq(ctx.r, n + 1, Len(ctx.r))
    BY <1>1, <1>2, SkipExact
<1>4. n \in 0 .. Len(ctx.r)
    BY <1>3 DEF Passed
<1>5. s.ctx \in Seq(CborHead) /\ Suffix(s.ctx, heads)
    BY <1>2, <1>3, <1>4, SuffixSubSeq
<1> DEFINE i == ctx.index + 1
<1>6. Skip(ctx, 1).ctx = Move(ctx, s.ctx, i)
    BY <1>1 DEF Done, Move
<1>7. i \in Int
    BY DEF Reading
<1>8. Skip(ctx, 1).ctx \in Reading /\ Skip(ctx, 1).ctx.r = s.ctx
    <2> DEFINE rest == s.ctx
    <2>1. rest \in Seq(CborHead)
        BY <1>5
    <2> HIDE DEF s, i, rest
    <2>2. Move(ctx, rest, i) \in Reading /\ Move(ctx, rest, i).r = rest
        BY <2>1, <1>7, Moved
    <2> QED
        BY <1>6, <2>2, Zenon DEF rest
<1> QED
    BY <1>5, <1>8
----------------------------------------------------------------------------
(* Looping                                                                 *)

\* A turn of the loop over a list of dependencies or components.
TurnOfList(name, s) ==
    IF name = "dependencies" THEN ListTurn(s, SUIT_DEPENDENCY_MAX, ReadDependency(s.map))
    ELSE ListTurn(s, SUIT_COMPONENT_MAX, ReadSubobject(s.map))

\* A turn of a loop of the parser: over the entries of an envelope, with a the key
\* and b its kind, over a list, with a its name, over the entries of the common
\* section or of a manifest, or over the blocks of a wrapper, with a the digest.
Turn(of, a, b, s) ==
    IF ~s.ok \/ AtEnd(s.map) THEN s
    ELSE IF of = "entries" THEN FieldTurn(s, b, a)
    ELSE IF of = "list" THEN TurnOfList(a, s)
    ELSE IF of = "common" THEN CommonTurn(s)
    ELSE IF of = "manifest" THEN ManifestTurn(s)
    ELSE AuthBlockTurn(s, a)

Turns(f, n, of, a, b, s) ==
    f = [i \in 0 .. n |-> IF i = 0 THEN s ELSE Turn(of, a, b, f[i - 1])]

\* A loop has a state after every turn.
LEMMA TurnsExist ==
    ASSUME NEW of, NEW a, NEW b, NEW s
    PROVE  \A n \in Nat : \E f : Turns(f, n, of, a, b, s)
<1> DEFINE D == {n \in Nat : \E f : Turns(f, n, of, a, b, s)}
<1>1. 0 \in D
  <2>1. Turns([i \in 0 .. 0 |-> s], 0, of, a, b, s)
    BY DEF Turns
  <2>2. QED
    BY <2>1
<1>2. ASSUME NEW n \in Nat, n \in D PROVE n + 1 \in D
  <2>1. PICK f : Turns(f, n, of, a, b, s)
    BY <1>2
  <2> DEFINE next == [i \in 0 .. (n + 1) |->
                         IF i = n + 1 THEN Turn(of, a, b, f[n]) ELSE f[i]]
  <2>2. ASSUME NEW i \in 0 .. (n + 1)
        PROVE  next[i] = IF i = 0 THEN s ELSE Turn(of, a, b, next[i - 1])
    <3>1. CASE i = n + 1
      <4>1. i # 0 /\ i - 1 = n /\ n \in 0 .. (n + 1) /\ n # n + 1
        BY <3>1
      <4>2. next[n] = f[n] /\ next[i] = Turn(of, a, b, f[n])
        BY <3>1, <4>1
      <4>3. QED
        BY <4>1, <4>2
    <3>2. CASE i \in 0 .. n
      <4>1. f[i] = IF i = 0 THEN s ELSE Turn(of, a, b, f[i - 1])
        BY <2>1, <3>2 DEF Turns
      <4>2. next[i] = f[i] /\ (i # 0 => next[i - 1] = f[i - 1])
        BY <3>2
      <4>3. QED
        BY <4>1, <4>2
    <3>3. QED
      BY <3>1, <3>2
  <2>3. Turns(next, n + 1, of, a, b, s)
    BY <2>2 DEF Turns
  <2>4. QED
    BY <2>3
<1>3. \A n \in Nat : n \in D
  <2> HIDE DEF D
  <2>1. QED
    BY <1>1, <1>2, SetInduction
<1>4. QED
  BY <1>3

FieldLoop(s, b, a) == Loop(s, LAMBDA t : FieldTurn(t, b, a))
BlockLoop(s, a) == Loop(s, LAMBDA t : AuthBlockTurn(t, a))

\* The loop of suit_envelope_get_field is such a sequence of turns.
LEMMA FieldLoopTurns ==
    ASSUME NEW a, NEW b, NEW s, Len(s.map.r) \in Nat
    PROVE  \E f : /\ Turns(f, Len(s.map.r) + 1, "entries", a, b, s)
                  /\ FieldLoop(s, b, a) = f[Len(s.map.r) + 1]
<1>1. Len(s.map.r) + 1 \in Nat
    OBVIOUS
<1>2. \E f : Turns(f, Len(s.map.r) + 1, "entries", a, b, s)
    BY <1>1, TurnsExist
<1>3. QED
    BY <1>2, ZenonT(40) DEF FieldLoop, Loop, Turns, Turn

\* The loop of suit_authenticate_envelope is one.
LEMMA BlockLoopTurns ==
    ASSUME NEW a, NEW s, Len(s.map.r) \in Nat
    PROVE  \E f : /\ Turns(f, Len(s.map.r) + 1, "blocks", a, 0, s)
                  /\ BlockLoop(s, a) = f[Len(s.map.r) + 1]
<1>1. Len(s.map.r) + 1 \in Nat /\ "blocks" \notin {"entries", "list", "common", "manifest"}
    OBVIOUS
<1>2. \E f : Turns(f, Len(s.map.r) + 1, "blocks", a, 0, s)
    BY <1>1, TurnsExist
<1>3. QED
    BY <1>1, <1>2, ZenonT(40) DEF BlockLoop, Loop, Turns, Turn

\* So are the loops of suit_manifest_parse and of the functions it calls.
LEMMA ManifestLoopTurns ==
    ASSUME NEW s, Len(s.map.r) \in Nat
    PROVE  \E f : /\ Turns(f, Len(s.map.r) + 1, "manifest", 0, 0, s)
                  /\ Loop(s, ManifestTurn) = f[Len(s.map.r) + 1]
<1>1. Len(s.map.r) + 1 \in Nat /\ "manifest" \notin {"entries", "list", "common"}
    OBVIOUS
<1>2. \E f : Turns(f, Len(s.map.r) + 1, "manifest", 0, 0, s)
    BY <1>1, TurnsExist
<1>3. QED
    BY <1>1, <1>2, ZenonT(40) DEF Loop, Turns, Turn

LEMMA CommonLoopTurns ==
    ASSUME NEW s, Len(s.map.r) \in Nat
    PROVE  \E f : /\ Turns(f, Len(s.map.r) + 1, "common", 0, 0, s)
                  /\ Loop(s, CommonTurn) = f[Len(s.map.r) + 1]
<1>1. Len(s.map.r) + 1 \in Nat /\ "common" \notin {"entries", "list"}
    OBVIOUS
<1>2. \E f : Turns(f, Len(s.map.r) + 1, "common", 0, 0, s)
    BY <1>1, TurnsExist
<1>3. QED
    BY <1>1, <1>2, ZenonT(40) DEF Loop, Turns, Turn

ListLoop(s, name) == Loop(s, LAMBDA t : TurnOfList(name, t))

LEMMA ListLoopTurns ==
    ASSUME NEW s, NEW name, Len(s.map.r) \in Nat
    PROVE  \E f : /\ Turns(f, Len(s.map.r) + 1, "list", name, 0, s)
                  /\ ListLoop(s, name) = f[Len(s.map.r) + 1]
<1>1. Len(s.map.r) + 1 \in Nat /\ "list" # "entries"
    OBVIOUS
<1>2. \E f : Turns(f, Len(s.map.r) + 1, "list", name, 0, s)
    BY <1>1, TurnsExist
<1>3. QED
    BY <1>1, <1>2, ZenonT(40) DEF ListLoop, Loop, Turns, Turn

\* A loop whose turns stay in T and read a head at least ends in T, and at the end
\* of its map unless it gave up.
LEMMA LoopEnds ==
    ASSUME NEW of, NEW a, NEW b, NEW T, NEW s \in T,
           \A x \in T : x.map.r \in Seq(CborHead),
           \A x \in T : x.ok /\ ~AtEnd(x.map) =>
               /\ Turn(of, a, b, x) \in T
               /\ Turn(of, a, b, x).ok => Len(Turn(of, a, b, x).map.r) < Len(x.map.r),
           NEW f, Turns(f, Len(s.map.r) + 1, of, a, b, s)
    PROVE  LET e == f[Len(s.map.r) + 1] IN e \in T /\ (e.ok => AtEnd(e.map))
<1> DEFINE n == Len(s.map.r) + 1
           Goes(x) == x.ok /\ ~AtEnd(x.map)
           D == {i \in Nat : i <= n => f[i] \in T /\ (Goes(f[i]) => Len(f[i].map.r) <= n - 1 - i)}
<1>1. n \in Nat /\ n - 1 = Len(s.map.r)
    OBVIOUS
<1> HIDE DEF n
<1>2. 0 \in D
    <2>1. f[0] = s
        BY <1>1 DEF Turns, n
    <2> QED
        BY <1>1, <2>1
<1>3. ASSUME NEW i \in Nat, i \in D PROVE i + 1 \in D
    <2> SUFFICES ASSUME i + 1 <= n
                 PROVE  f[i + 1] \in T /\ (Goes(f[i + 1]) => Len(f[i + 1].map.r) <= n - 1 - (i + 1))
        OBVIOUS
    <2>1. i + 1 \in 0 .. n /\ i + 1 # 0 /\ (i + 1) - 1 = i /\ i <= n
        BY <1>1
    <2>2. f[i + 1] = Turn(of, a, b, f[i])
        BY <2>1 DEF Turns, n
    <2>3. f[i] \in T /\ (Goes(f[i]) => Len(f[i].map.r) <= n - 1 - i)
        BY <1>3, <2>1
    <2>4. CASE Goes(f[i])
        <3>1. /\ f[i + 1] \in T
              /\ f[i + 1].ok => Len(f[i + 1].map.r) < Len(f[i].map.r)
            BY <2>2, <2>3, <2>4
        <3>2. Len(f[i].map.r) \in Nat /\ Len(f[i + 1].map.r) \in Nat
            BY <2>3, <3>1, SMTT(30)
        <3>3. f[i + 1].ok => Len(f[i + 1].map.r) <= n - 1 - (i + 1)
            BY <1>1, <2>3, <2>4, <3>1, <3>2, SMTT(30)
        <3> QED
            BY <3>1, <3>3
    <2>5. CASE ~Goes(f[i])
        <3>1. f[i + 1] = f[i]
            BY <2>2, <2>5 DEF Turn
        <3> QED
            BY <2>3, <2>5, <3>1
    <2> QED
        BY <2>4, <2>5
<1>4. \A i \in Nat : i \in D
    <2> HIDE DEF D
    <2> QED
        BY <1>2, <1>3, SetInduction
<1>5. f[n] \in T /\ (Goes(f[n]) => Len(f[n].map.r) <= n - 1 - n)
    BY <1>1, <1>4
<1>6. ~Goes(f[n])
    <2>1. Len(f[n].map.r) \in Nat
        BY <1>5
    <2> QED
        BY <1>1, <1>5, <2>1
<1> QED
    BY <1>5, <1>6 DEF n
----------------------------------------------------------------------------
(* Looking up                                                              *)

ByteRange == {NullRange} \cup {Bytes(b) : b \in Seq(CborHead)}

\* A field of an envelope: the byte string right after the key asked for.
FieldOf(heads, use_tstr, key, field) ==
    \/ field = NullRange
    \/ \E j \in 1 .. (Len(heads) - 1) :
          /\ IsKey(heads[j], use_tstr, key) /\ IsBstr(heads[j + 1])
          /\ field = Bytes(heads[j + 1].body)

LookupState == [ok : BOOLEAN, map : Reading, field : ByteRange]

\* The states of the loop in suit_envelope_get_field.
Lookup(heads, use_tstr, key, s) ==
    /\ s \in LookupState /\ Suffix(s.map.r, heads)
    /\ FieldOf(heads, use_tstr, key, s.field)

Found(s, m, f) == [s EXCEPT !.map = m, !.field = f]
Gave(s) == [s EXCEPT !.ok = FALSE]

LEMMA FoundType ==
    ASSUME NEW s \in LookupState, NEW m \in Reading, NEW f \in ByteRange
    PROVE  Found(s, m, f) \in LookupState /\ Found(s, m, f).map = m /\ Found(s, m, f).field = f
    BY DEF LookupState, Found

LEMMA GaveType ==
    ASSUME NEW s \in LookupState
    PROVE  Gave(s) \in LookupState /\ Gave(s).map = s.map /\ Gave(s).field = s.field
    BY DEF LookupState, Gave

\* An entry that is the field asked for replaces the one before; another is passed.
LEMMA FieldTurnLookup ==
    ASSUME NEW heads \in Seq(CborHead), NEW use_tstr, NEW key, NEW s,
           Lookup(heads, use_tstr, key, s)
    PROVE  Lookup(heads, use_tstr, key, FieldTurn(s, use_tstr, key))
<1> DEFINE k == ReadAny(s.map)
           hit == IsKey(k.val, use_tstr, key)
           v == IF hit THEN ReadBstr(k.ctx) ELSE Skip(k.ctx, 1)
           t == FieldTurn(s, use_tstr, key)
<1>1. /\ s \in LookupState /\ s.map \in Reading /\ s.field \in ByteRange
      /\ Suffix(s.map.r, heads) /\ FieldOf(heads, use_tstr, key, s.field)
      /\ s.map.r \in Seq(CborHead)
    BY DEF Lookup, LookupState, Reading
<1>2. CASE ~k.ok \/ IsTag(k.val) \/ ~v.ok
    <2>1. t = Gave(s)
        BY <1>2 DEF FieldTurn, Gave
    <2>2. Gave(s) \in LookupState /\ Gave(s).map = s.map /\ Gave(s).field = s.field
        BY <1>1, GaveType
    <2> HIDE DEF t
    <2> QED
        BY <1>1, <2>1, <2>2 DEF Lookup, t
<1>3. CASE k.ok /\ ~IsTag(k.val) /\ v.ok
    <2>1. /\ s.map.r # <<>> /\ k.val = s.map.r[1]
          /\ k.ctx \in Reading /\ k.ctx.r = Tail(s.map.r)
        BY <1>1, <1>3, ReadAnyReads
    <2> DEFINE r == s.map.r
    <2>2. /\ Tail(r) \in Seq(CborHead) /\ Suffix(Tail(r), heads) /\ Len(r) >= 1
          /\ r[1] = heads[Len(heads) - Len(r) + 1] /\ Len(Tail(r)) = Len(r) - 1
        <3> HIDE DEF r
        <3> QED
            BY <1>1, <2>1, SuffixTail DEF r
    <2>3. CASE ~hit
        <3>1. v = Skip(k.ctx, 1) /\ Skip(k.ctx, 1).ok
            BY <1>3, <2>3
        <3>2. v.ctx \in Reading /\ Suffix(v.ctx.r, heads)
            BY <2>1, <2>2, <3>1, SkipReads
        <3>3. t = Found(s, v.ctx, s.field)
            BY <1>3, <2>3 DEF FieldTurn, Found
        <3>4. Found(s, v.ctx, s.field) \in LookupState
              /\ Found(s, v.ctx, s.field).map = v.ctx /\ Found(s, v.ctx, s.field).field = s.field
            <4> HIDE DEF v
            <4> QED
                BY <1>1, <3>2, FoundType
        <3> HIDE DEF t, v
        <3> QED
            BY <1>1, <3>2, <3>3, <3>4 DEF Lookup, t
    <2>4. CASE hit
        <3>1. v = ReadBstr(k.ctx) /\ ReadBstr(k.ctx).ok
            BY <1>3, <2>4
        <3> DEFINE u == Tail(r)
        <3>2. /\ u # <<>> /\ IsBstr(u[1]) /\ u[1].body \in Seq(CborHead)
              /\ v.val = Bytes(u[1].body) /\ v.ctx \in Reading /\ v.ctx.r = Tail(u)
            BY <2>1, <3>1, ReadBstrReads
        <3>3. /\ Suffix(Tail(u), heads) /\ Len(u) >= 1
              /\ u[1] = heads[Len(heads) - Len(u) + 1]
            <4> HIDE DEF u
            <4> QED
                BY <2>2, <3>2, SuffixTail DEF u
        <3> DEFINE j == Len(heads) - Len(r) + 1
        <3>4. /\ j \in 1 .. (Len(heads) - 1) /\ heads[j] = r[1] /\ heads[j + 1] = u[1]
            <4>1. Len(heads) \in Nat /\ Len(r) \in Nat /\ Len(r) <= Len(heads) /\ Len(u) = Len(r) - 1
                BY <1>1, <2>2 DEF Suffix
            <4>2. j \in 1 .. (Len(heads) - 1) /\ Len(heads) - Len(u) + 1 = j + 1
                <5> HIDE DEF r, u
                <5> QED
                    BY <3>3, <4>1
            <4> QED
                BY <2>2, <3>3, <4>2
        <3>5. FieldOf(heads, use_tstr, key, v.val)
            <4>1. IsKey(heads[j], use_tstr, key)
                BY <2>1, <2>4, <3>4
            <4> HIDE DEF j, u, v
            <4> QED
                BY <3>2, <3>4, <4>1 DEF FieldOf
        <3>6. v.val \in ByteRange
            BY <3>2 DEF ByteRange
        <3>7. t = Found(s, v.ctx, v.val)
            BY <1>3, <2>4 DEF FieldTurn, Found
        <3>8. Found(s, v.ctx, v.val) \in LookupState
              /\ Found(s, v.ctx, v.val).map = v.ctx /\ Found(s, v.ctx, v.val).field = v.val
            <4> HIDE DEF v
            <4> QED
                BY <1>1, <3>2, <3>6, FoundType
        <3> HIDE DEF t, v, u
        <3> QED
            BY <1>1, <3>2, <3>3, <3>5, <3>7, <3>8 DEF Lookup, t
    <2> QED
        BY <2>3, <2>4
<1> QED
    BY <1>2, <1>3

\* All turns together.
LEMMA FieldLoopLookup ==
    ASSUME NEW heads \in Seq(CborHead), NEW use_tstr, NEW key, NEW s,
           Lookup(heads, use_tstr, key, s)
    PROVE  Lookup(heads, use_tstr, key, FieldLoop(s, use_tstr, key))
<1> DEFINE n == Len(s.map.r) + 1
<1>1. Len(s.map.r) \in Nat /\ n \in Nat
    BY DEF Lookup, LookupState, Reading
<1>2. PICK f : /\ Turns(f, n, "entries", key, use_tstr, s)
               /\ FieldLoop(s, use_tstr, key) = f[n]
    BY <1>1, FieldLoopTurns
<1> DEFINE D == {i \in Nat : i <= n => Lookup(heads, use_tstr, key, f[i])}
<1> HIDE DEF n
<1>3. 0 \in D
    BY <1>1, <1>2 DEF Turns
<1>4. ASSUME NEW i \in Nat, i \in D PROVE i + 1 \in D
    <2> SUFFICES ASSUME i + 1 <= n PROVE Lookup(heads, use_tstr, key, f[i + 1])
        OBVIOUS
    <2>1. i + 1 \in 0 .. n /\ i + 1 # 0 /\ (i + 1) - 1 = i /\ i <= n
        BY <1>1
    <2>2. f[i + 1] = Turn("entries", key, use_tstr, f[i])
        BY <1>2, <2>1 DEF Turns
    <2>3. Lookup(heads, use_tstr, key, f[i])
        BY <1>4, <2>1
    <2>4. f[i + 1] = f[i] \/ f[i + 1] = FieldTurn(f[i], use_tstr, key)
        BY <2>2 DEF Turn
    <2> QED
        BY <2>3, <2>4, FieldTurnLookup
<1>5. \A i \in Nat : i \in D
    <2> HIDE DEF D
    <2> QED
        BY <1>3, <1>4, SetInduction
<1>6. Lookup(heads, use_tstr, key, f[n])
    BY <1>1, <1>5
<1> QED
    BY <1>2, <1>6

\* tcbor_read_tag, tcbor_read_map and tcbor_read_array: what is left of the heads
\* is read on.
LEMMA ReadTagReads ==
    ASSUME NEW ctx \in Reading, NEW heads \in Seq(CborHead), Suffix(ctx.r, heads), ReadTag(ctx).ok
    PROVE  ReadTag(ctx).ctx \in Reading /\ Suffix(ReadTag(ctx).ctx.r, heads)
<1> DEFINE x == ReadAny(ctx)
<1>1. x.ok /\ ReadTag(ctx).ctx = x.ctx
    BY DEF ReadTag, Failed, Done
<1>2. ctx.r \in Seq(CborHead) /\ ctx.r # <<>> /\ x.ctx \in Reading /\ x.ctx.r = Tail(ctx.r)
    BY <1>1, ReadAnyReads DEF Reading
<1>3. Suffix(Tail(ctx.r), heads)
    BY <1>2, SuffixTail
<1> HIDE DEF x
<1> QED
    BY <1>1, <1>2, <1>3

LEMMA ReadMapReads ==
    ASSUME NEW ctx \in Reading, NEW heads \in Seq(CborHead), Suffix(ctx.r, heads), ReadMap(ctx).ok
    PROVE  ReadMap(ctx).val \in Reading /\ Suffix(ReadMap(ctx).val.r, heads)
<1> DEFINE x == ReadAny(ctx)
           n == CheckedAdd(x.val.val, x.val.val)
<1>1. x.ok /\ n # Overflow /\ ReadMap(ctx).val = Context(x.ctx.r, n)
    BY DEF ReadMap, Failed, Done
<1>2. /\ ctx.r \in Seq(CborHead) /\ ctx.r # <<>> /\ x.ctx.r = Tail(ctx.r)
      /\ x.val \in CborHead
    BY <1>1, ReadAnyReads DEF Reading
<1>3. Tail(ctx.r) \in Seq(CborHead) /\ Suffix(Tail(ctx.r), heads)
    BY <1>2, SuffixTail
<1>4. n \in Int
    <2>1. x.val.val \in Count /\ x.val.val \in Int
        BY <1>2, TeeCborAssumption DEF Count
    <2> HIDE DEF x
    <2>2. n = IF x.val.val + x.val.val < Modulus THEN x.val.val + x.val.val ELSE Overflow
        BY <2>1, CheckedAddExact
    <2> QED
        BY <2>1, <2>2 DEF Overflow
<1> HIDE DEF x, n
<1> QED
    BY <1>1, <1>2, <1>3, <1>4 DEF Reading, Context

\* suit_envelope_get_field finds nothing, or a byte string of the envelope right
\* after the key asked for.
LEMMA GetFieldFinds ==
    ASSUME NEW heads \in Seq(CborHead), NEW use_tstr, NEW key, GetField(heads, use_tstr, key).ok
    PROVE  FieldOf(heads, use_tstr, key, GetField(heads, use_tstr, key).field)
<1> DEFINE top == TopLevel(Bytes(heads))
           tag == ReadTag(top)
           map == ReadMap(tag.ctx)
           s == [ok |-> TRUE, map |-> map.val, field |-> NullRange]
<1>1. top = [r |-> heads, index |-> 0, count |-> 1]
    BY DEF TopLevel, Context, Heads, Bytes, NullRange
<1>2. top \in Reading /\ Suffix(top.r, heads)
    BY <1>1 DEF Reading, Suffix
<1>3. tag.ok /\ map.ok /\ GetField(heads, use_tstr, key) = FieldLoop(s, use_tstr, key)
    <2>1. GetField(heads, use_tstr, key) =
            IF ~tag.ok THEN [ok |-> FALSE, map |-> <<>>, field |-> NullRange]
            ELSE IF tag.val # SUIT_ENVELOPE_TAG \/ ~map.ok
                 THEN [ok |-> FALSE, map |-> <<>>, field |-> NullRange]
            ELSE FieldLoop(s, use_tstr, key)
        BY Zenon DEF GetField, FieldLoop
    <2>2. ([ok |-> FALSE, map |-> <<>>, field |-> NullRange]).ok = FALSE
        OBVIOUS
    <2> HIDE DEF tag, map, s
    <2> QED
        BY <2>1, <2>2, Zenon
<1>4. tag.ctx \in Reading /\ Suffix(tag.ctx.r, heads)
    <2> HIDE DEF top
    <2> QED
        BY <1>2, <1>3, ReadTagReads
<1>5. map.val \in Reading /\ Suffix(map.val.r, heads)
    <2> HIDE DEF tag
    <2> QED
        BY <1>3, <1>4, ReadMapReads
<1>6. Lookup(heads, use_tstr, key, s)
    <2> HIDE DEF map
    <2> QED
        BY <1>5 DEF Lookup, LookupState, ByteRange, FieldOf
<1>7. Lookup(heads, use_tstr, key, FieldLoop(s, use_tstr, key))
    <2> HIDE DEF s
    <2> QED
        BY <1>6, FieldLoopLookup
<1> QED
    BY <1>3, <1>7 DEF Lookup

----------------------------------------------------------------------------
(* The blocks of the wrapper                                               *)

\* The heads of an authentication wrapper: an array of the digest and at least one
\* block, all of them byte strings, and every block verifies the digest.
Verifies(w, k) == IsBstr(w[k]) /\ VerifyAuthBlock(Bytes(w[k].body), Bytes(w[2].body))
SignedWrapper(w) ==
    /\ IsArray(w[1]) /\ w[1].val >= 2 /\ w[1].val < Len(w)
    /\ IsBstr(w[2])
    /\ \A k \in 3 .. (w[1].val + 1) : Verifies(w, k)

BlockState == [ok : BOOLEAN, map : Reading, authenticated : BOOLEAN]

\* The states of the loop in suit_authenticate_envelope: the cursor is after the
\* items it has counted, and the blocks among them verified.
BlocksRead(w, i, s) ==
    /\ s.map.index \in 1 .. w[1].val /\ s.map.count = w[1].val
    /\ Len(s.map.r) = Len(w) - 1 - s.map.index
    /\ \A k \in 3 .. (s.map.index + 1) : Verifies(w, k)
    /\ s.authenticated => s.map.index >= 2
    /\ s.map.index = w[1].val \/ s.map.index = i + 1
Blocks(w, i, s) ==
    s \in BlockState /\ Suffix(s.map.r, w) /\ (s.ok => BlocksRead(w, i, s))

Stopped(s) == [s EXCEPT !.ok = FALSE]
Verified(s, m) == [s EXCEPT !.map = m, !.authenticated = TRUE]

LEMMA StoppedType ==
    ASSUME NEW s \in BlockState
    PROVE  Stopped(s) \in BlockState /\ Stopped(s).map = s.map /\ ~Stopped(s).ok
    BY DEF BlockState, Stopped

LEMMA VerifiedType ==
    ASSUME NEW s \in BlockState, NEW m \in Reading
    PROVE  Verified(s, m) \in BlockState /\ Verified(s, m).map = m
    BY DEF BlockState, Verified

LEMMA BlockTurnVerifies ==
    ASSUME NEW w \in Seq(CborHead), w # <<>>, NEW i \in Nat, NEW s, Blocks(w, i, s),
           s.ok, ~AtEnd(s.map)
    PROVE  Blocks(w, i + 1, AuthBlockTurn(s, Bytes(w[2].body)))
<1> DEFINE b == ReadBstr(s.map)
           t == AuthBlockTurn(s, Bytes(w[2].body))
           n == w[1].val
           r == s.map.r
           c == s.map.index
<1>0. n \in Nat /\ Len(w) \in Nat
    <2>1. w[1] \in CborHead
        OBVIOUS
    <2> QED
        BY <2>1, TeeCborAssumption
<1>1. /\ s \in BlockState /\ s.map \in Reading /\ r \in Seq(CborHead) /\ Suffix(r, w)
      /\ BlocksRead(w, i, s)
    BY DEF Blocks, BlockState, Reading
<1>2. CASE ~b.ok \/ ~VerifyAuthBlock(b.val, Bytes(w[2].body))
    <2>1. t = Stopped(s)
        BY <1>2 DEF AuthBlockTurn, Stopped
    <2>2. Stopped(s) \in BlockState /\ Stopped(s).map = s.map /\ ~Stopped(s).ok
        BY <1>1, StoppedType
    <2> HIDE DEF t
    <2> QED
        BY <1>1, <2>1, <2>2 DEF Blocks, t
<1>3. CASE b.ok /\ VerifyAuthBlock(b.val, Bytes(w[2].body))
    <2>1. /\ r # <<>> /\ IsBstr(r[1]) /\ b.val = Bytes(r[1].body)
          /\ b.ctx \in Reading /\ b.ctx.r = Tail(r) /\ b.ctx.index = c + 1
          /\ b.ctx.count = s.map.count
        BY <1>1, <1>3, ReadBstrReads
    <2>2. /\ Suffix(Tail(r), w) /\ r[1] = w[Len(w) - Len(r) + 1]
          /\ Len(Tail(r)) = Len(r) - 1
        <3> HIDE DEF r
        <3> QED
            BY <1>1, <2>1, SuffixTail
    <2>3. /\ c \in 1 .. n /\ s.map.count = n /\ Len(r) = Len(w) - 1 - c
          /\ \A k \in 3 .. (c + 1) : Verifies(w, k)
          /\ c = n \/ c = i + 1
        BY <1>1 DEF BlocksRead
    <2>4. c # n
        BY <2>3 DEF AtEnd
    <2>5. c + 1 \in 1 .. n /\ c + 1 >= 2 /\ c + 1 = (i + 1) + 1 /\ Len(w) - Len(r) + 1 = c + 2
        <3> HIDE DEF n, r, c
        <3> QED
            BY <1>0, <2>3, <2>4
    <2>6. Verifies(w, c + 2)
        BY <1>3, <2>1, <2>2, <2>5 DEF Verifies
    <2>7. \A k \in 3 .. ((c + 1) + 1) : Verifies(w, k)
        <3> HIDE DEF n, r, c
        <3>1. \A k \in 3 .. ((c + 1) + 1) : k \in 3 .. (c + 1) \/ k = c + 2
            BY <1>0, <2>3
        <3> QED
            BY <2>3, <2>6, <3>1
    <2>8. t = Verified(s, b.ctx)
        BY <1>3 DEF AuthBlockTurn, Verified
    <2> DEFINE m == b.ctx
    <2>9. Verified(s, m) \in BlockState /\ Verified(s, m).map = m
        <3>1. m \in Reading
            BY <2>1
        <3> HIDE DEF m
        <3> QED
            BY <1>1, <3>1, VerifiedType
    <2>10. t \in BlockState /\ t.map = m
        <3> HIDE DEF t, m
        <3> QED
            BY <2>8, <2>9 DEF m
    <2>11. Len(m.r) = Len(w) - 1 - (c + 1)
        <3>1. Len(m.r) = Len(r) - 1
            BY <2>1, <2>2
        <3> HIDE DEF m, r, c
        <3> QED
            BY <1>0, <2>3, <3>1
    <2>12. m.index = c + 1 /\ m.count = n /\ Suffix(m.r, w)
        BY <2>1, <2>2, <2>3
    <2> HIDE DEF t, m, c, n
    <2>13. BlocksRead(w, i + 1, t)
        BY <2>5, <2>7, <2>10, <2>11, <2>12 DEF BlocksRead, n
    <2> QED
        BY <2>10, <2>12, <2>13 DEF Blocks, t
<1> QED
    BY <1>2, <1>3

\* At the end of the loop every item of the wrapper has been read.
LEMMA BlockLoopVerifies ==
    ASSUME NEW w \in Seq(CborHead), w # <<>>, NEW s, Blocks(w, 0, s),
           s.ok, s.map.index = 1,
           BlockLoop(s, Bytes(w[2].body)).ok, BlockLoop(s, Bytes(w[2].body)).authenticated
    PROVE  /\ w[1].val >= 2 /\ w[1].val < Len(w)
           /\ \A k \in 3 .. (w[1].val + 1) : Verifies(w, k)
<1> DEFINE n == Len(s.map.r) + 1
           digest == Bytes(w[2].body)
<1>0. w[1].val \in Nat /\ Len(w) \in Nat
    <2>1. w[1] \in CborHead
        OBVIOUS
    <2> QED
        BY <2>1, TeeCborAssumption
<1>1. Len(s.map.r) \in Nat /\ n \in Nat /\ n = Len(w) - 1
    BY <1>0 DEF Blocks, BlocksRead, BlockState, Reading
<1> HIDE DEF digest
<1>2. PICK f : /\ Turns(f, n, "blocks", digest, 0, s)
               /\ BlockLoop(s, digest) = f[n]
    BY <1>1, BlockLoopTurns
<1> DEFINE D == {i \in Nat : i <= n => Blocks(w, i, f[i])}
<1> HIDE DEF n
<1>3. 0 \in D
    BY <1>1, <1>2 DEF Turns
<1>4. ASSUME NEW i \in Nat, i \in D PROVE i + 1 \in D
    <2> SUFFICES ASSUME i + 1 <= n PROVE Blocks(w, i + 1, f[i + 1])
        OBVIOUS
    <2>1. i + 1 \in 0 .. n /\ i + 1 # 0 /\ (i + 1) - 1 = i /\ i <= n
        BY <1>1
    <2>2. f[i + 1] = Turn("blocks", digest, 0, f[i])
        BY <1>2, <2>1 DEF Turns
    <2>3. Blocks(w, i, f[i])
        BY <1>4, <2>1
    <2>4. CASE ~f[i].ok
        BY <2>2, <2>3, <2>4 DEF Turn, Blocks
    <2>5. CASE f[i].ok /\ AtEnd(f[i].map)
        <3>1. f[i + 1] = f[i] /\ f[i].map.index = w[1].val
            BY <2>2, <2>3, <2>5 DEF Turn, Blocks, BlocksRead, AtEnd
        <3> QED
            BY <2>3, <3>1 DEF Blocks, BlocksRead
    <2>6. CASE f[i].ok /\ ~AtEnd(f[i].map)
        <3>1. f[i + 1] = AuthBlockTurn(f[i], digest)
            BY <2>2, <2>6 DEF Turn
        <3> QED
            BY <2>3, <2>6, <3>1, BlockTurnVerifies DEF digest
    <2> QED
        BY <2>4, <2>5, <2>6
<1>5. \A i \in Nat : i \in D
    <2> HIDE DEF D
    <2> QED
        BY <1>3, <1>4, SetInduction
<1>6. Blocks(w, n, f[n]) /\ f[n].ok /\ f[n].authenticated
    BY <1>1, <1>2, <1>5 DEF digest
<1>7. BlocksRead(w, n, f[n]) /\ Len(f[n].map.r) \in Nat /\ f[n].map.index \in Nat
    BY <1>6 DEF Blocks, BlocksRead, BlockState, Reading
<1>8. f[n].map.index = w[1].val
    BY <1>0, <1>1, <1>7 DEF BlocksRead
<1> QED
    BY <1>0, <1>1, <1>6, <1>7, <1>8 DEF BlocksRead

\* A wrapper that was found, as suit_authenticate_envelope reads it.
LEMMA ReadArrayReads ==
    ASSUME NEW w \in Seq(CborHead), ReadArray(TopLevel(Bytes(w))).ok
    PROVE  /\ w # <<>> /\ IsArray(w[1])
           /\ ReadArray(TopLevel(Bytes(w))).val
                = [r |-> Tail(w), index |-> 0, count |-> w[1].val]
<1> DEFINE top == TopLevel(Bytes(w))
           x == ReadAny(top)
<1>1. top = [r |-> w, index |-> 0, count |-> 1]
    BY DEF TopLevel, Context, Heads, Bytes, NullRange
<1>2. top \in Reading /\ top.r = w
    BY <1>1 DEF Reading
<1>3. x.ok /\ IsArray(x.val) /\ ReadArray(top).val = Context(x.ctx.r, x.val.val)
    BY DEF ReadArray, Failed, Done
<1>4. w # <<>> /\ x.val = w[1] /\ x.ctx.r = Tail(w)
    <2> HIDE DEF top
    <2> QED
        BY <1>2, <1>3, ReadAnyReads
<1> HIDE DEF x
<1> QED
    BY <1>3, <1>4 DEF Context

\* Nothing is found in the null range.
LEMMA NullRangeIsEmpty ==
    ~ReadArray(TopLevel(NullRange)).ok /\ ~ReadMap(TopLevel(NullRange)).ok
<1>1. TopLevel(NullRange).r = <<>>
    BY DEF TopLevel, Context, Heads
<1>2. ReadAny(TopLevel(NullRange)) = Failed
    BY <1>1 DEF ReadAny, Readable
<1>3. ~ReadAny(TopLevel(NullRange)).ok
    BY <1>2 DEF Failed
<1> QED
    BY <1>3 DEF ReadArray, ReadMap, Failed

\* suit_authenticate_envelope accepts an envelope only if its wrapper is signed, in
\* every block, over the digest of the manifest field.
IsField(heads, key, j) ==
    j \in 1 .. (Len(heads) - 1) /\ IsKey(heads[j], FALSE, key) /\ IsBstr(heads[j + 1])

LEMMA AuthenticatedIsSigned ==
    ASSUME NEW heads \in Seq(CborHead), Authenticated(heads)
    PROVE  \E i : /\ IsField(heads, SUIT_AUTHENTICATION_WRAPPER, i)
                  /\ SignedWrapper(heads[i + 1].body)
                  /\ VerifyDigest(Bytes(heads[i + 1].body[2].body),
                                  GetFieldByKey(heads, SUIT_MANIFEST).field)
<1> DEFINE wrapper == GetFieldByKey(heads, SUIT_AUTHENTICATION_WRAPPER)
           array == ReadArray(TopLevel(wrapper.field))
           digest == ReadBstr(array.val)
           s == [ok |-> TRUE, map |-> digest.ctx, authenticated |-> FALSE]
           m == GetFieldByKey(heads, SUIT_MANIFEST)
<1>1. /\ wrapper.ok /\ array.ok /\ digest.ok
      /\ BlockLoop(s, digest.val).ok /\ BlockLoop(s, digest.val).authenticated
      /\ VerifyDigest(digest.val, m.field)
    BY Zenon DEF Authenticated, BlockLoop
<1>2. wrapper.field # NullRange
    BY <1>1, NullRangeIsEmpty
<1>3. PICK i : /\ IsField(heads, SUIT_AUTHENTICATION_WRAPPER, i)
               /\ wrapper.field = Bytes(heads[i + 1].body)
    <2>1. FieldOf(heads, FALSE, SUIT_AUTHENTICATION_WRAPPER, wrapper.field)
        BY <1>1, GetFieldFinds DEF GetFieldByKey
    <2> HIDE DEF wrapper
    <2> QED
        BY <1>2, <2>1 DEF FieldOf, IsField
<1> DEFINE w == heads[i + 1].body
<1>4. w \in Seq(CborHead)
    <2>1. i + 1 \in 1 .. Len(heads)
        BY <1>3 DEF IsField
    <2> QED
        BY <2>1, HeadType
<1>5. /\ w # <<>> /\ IsArray(w[1])
      /\ array.val = [r |-> Tail(w), index |-> 0, count |-> w[1].val]
    <2>1. array = ReadArray(TopLevel(Bytes(w)))
        BY <1>3
    <2> HIDE DEF array, w
    <2> QED
        BY <1>1, <1>4, <2>1, ReadArrayReads
<1>6. /\ w[1].val \in Nat /\ Tail(w) \in Seq(CborHead) /\ Suffix(Tail(w), w)
      /\ Len(Tail(w)) = Len(w) - 1 /\ Len(w) \in Nat
    <2> HIDE DEF w
    <2>1. w[1] \in CborHead /\ Len(w) \in Nat
        BY <1>4, <1>5
    <2>2. Suffix(w, w)
        BY <2>1 DEF Suffix
    <2> QED
        BY <1>4, <1>5, <2>1, <2>2, SuffixTail, TeeCborAssumption
<1>7. array.val \in Reading
    <2> HIDE DEF array, w
    <2> QED
        BY <1>5, <1>6 DEF Reading
<1> DEFINE u == Tail(w)
<1>8. /\ w[1].val # 0 /\ u # <<>> /\ IsBstr(u[1]) /\ digest.val = Bytes(u[1].body)
      /\ digest.ctx \in Reading /\ digest.ctx.r = Tail(u) /\ digest.ctx.index = 1
      /\ digest.ctx.count = w[1].val
    <2> HIDE DEF array, w
    <2>1. array.val.r = u /\ array.val.index = 0 /\ array.val.count = w[1].val
        BY <1>5
    <2> DEFINE p == array.val
    <2> HIDE DEF u, p
    <2>2. p \in Reading /\ ReadBstr(p).ok
        BY <1>1, <1>7 DEF p
    <2>3. /\ ~AtEnd(p) /\ p.r # <<>> /\ IsBstr(p.r[1])
          /\ ReadBstr(p).val = Bytes(p.r[1].body)
          /\ ReadBstr(p).ctx \in Reading /\ ReadBstr(p).ctx.r = Tail(p.r)
          /\ ReadBstr(p).ctx.index = p.index + 1 /\ ReadBstr(p).ctx.count = p.count
        BY <2>2, ReadBstrReads
    <2>4. p.r = u /\ p.index = 0 /\ p.count = w[1].val
        BY <2>1 DEF p
    <2>5. digest = ReadBstr(p)
        BY DEF p
    <2>6. w[1].val # 0
        BY <2>3, <2>4 DEF AtEnd
    <2> HIDE DEF digest
    <2> QED
        BY <2>3, <2>4, <2>5, <2>6
<1>9. /\ Suffix(Tail(u), w) /\ Len(Tail(u)) = Len(w) - 2 /\ u[1] = w[2]
    <2> HIDE DEF w, u
    <2>1. /\ Suffix(Tail(u), w) /\ Len(Tail(u)) = Len(u) - 1 /\ u[1] = w[Len(w) - Len(u) + 1]
        BY <1>4, <1>6, <1>8, SuffixTail DEF u
    <2>2. Len(u) = Len(w) - 1
        BY <1>6 DEF u
    <2>3. Len(w) - Len(u) + 1 = 2 /\ Len(u) - 1 = Len(w) - 2
        BY <1>6, <2>2
    <2> QED
        BY <2>1, <2>3
<1>10. s \in BlockState /\ s.ok /\ ~s.authenticated /\ s.map = digest.ctx
    <2> HIDE DEF digest
    <2> QED
        BY <1>8 DEF BlockState
<1>11. Blocks(w, 0, s) /\ s.map.index = 1
    <2> HIDE DEF digest, u, w, s
    <2>1. BlocksRead(w, 0, s)
        BY <1>6, <1>8, <1>9, <1>10 DEF BlocksRead
    <2> QED
        BY <1>8, <1>9, <1>10, <2>1 DEF Blocks
<1>12. SignedWrapper(w)
    <2>1. digest.val = Bytes(w[2].body) /\ IsBstr(w[2])
        BY <1>8, <1>9
    <2> HIDE DEF digest, w, s, u
    <2>2. /\ w[1].val >= 2 /\ w[1].val < Len(w)
          /\ \A k \in 3 .. (w[1].val + 1) : Verifies(w, k)
        BY <1>1, <1>4, <1>5, <1>10, <1>11, <2>1, BlockLoopVerifies
    <2> QED
        BY <1>5, <2>1, <2>2 DEF SignedWrapper
<1> QED
    BY <1>1, <1>3, <1>8, <1>9, <1>12
----------------------------------------------------------------------------
(* What is executed                                                        *)

\* The byte string of the manifest as it is looked up.
ManifestBstr == GetFieldByKey(envelope.heads, SUIT_MANIFEST).field

\* The manifest in the SUIT context was parsed from the byte string that was looked
\* up and checked before, and a payload from the envelope of that manifest.
FromAuthenticated ==
    /\ envelope \in Envelope
    /\ stage \in {"authenticated", "added", "command", "parameter", "read", "error"} =>
          Authenticated(envelope.heads)
    /\ stage \in {"added", "command", "parameter", "read", "error"} =>
          manifest = ParseManifest(ManifestBstr).val /\ ParseManifest(ManifestBstr).ok
    /\ payload.ok => FieldOf(envelope.heads, TRUE, payload.ctx, payload.val)

LEMMA EnvelopeHeads == envelope \in Envelope => envelope.heads \in Seq(CborHead)
    BY SuitParserAssumption

LEMMA FromAuthenticatedInit == Init => FromAuthenticated
    BY DEF Init, Failed, FromAuthenticated

LEMMA FromAuthenticatedStep == FromAuthenticated /\ [Next]_vars => FromAuthenticated'
<1> SUFFICES ASSUME FromAuthenticated, [Next]_vars
             PROVE  FromAuthenticated'
    OBVIOUS
<1>1. CASE Authenticate
    BY <1>1 DEF Authenticate, FromAuthenticated, ManifestBstr
<1>2. CASE AddEnvelope
    <2>1. UNCHANGED <<envelope, payload>> /\ stage = "authenticated"
        BY <1>2 DEF AddEnvelope
    <2>2. \/ stage' = "refused"
          \/ /\ stage' = "added" /\ ParseManifest(ManifestBstr).ok
             /\ manifest' = ParseManifest(ManifestBstr).val
        BY <1>2 DEF AddEnvelope, GetManifest, Failed, ManifestBstr
    <2>3. ManifestBstr' = ManifestBstr
        BY <2>1 DEF ManifestBstr
    <2>4. (payload.ok => FieldOf(envelope.heads, TRUE, payload.ctx, payload.val))'
        BY <2>1 DEF FromAuthenticated
    <2> QED
        BY <2>1, <2>2, <2>3, <2>4 DEF FromAuthenticated
<1>3. CASE OpenSequence
    BY <1>3 DEF OpenSequence, FromAuthenticated, ManifestBstr
<1>4. CASE ReadCommand
    BY <1>4 DEF ReadCommand, FromAuthenticated, ManifestBstr
<1>5. CASE SkipParameter
    BY <1>5 DEF SkipParameter, FromAuthenticated, ManifestBstr
<1>6. CASE EndSequence
    BY <1>6 DEF EndSequence, FromAuthenticated, ManifestBstr
<1>7. ASSUME NEW name \in PayloadName, GetPayload(name)
      PROVE  FromAuthenticated'
    <2> DEFINE f == GetFieldByName(envelope.heads, name)
    <2>1. f.ok => FieldOf(envelope.heads, TRUE, name, f.field)
        BY EnvelopeHeads, GetFieldFinds DEF FromAuthenticated, GetFieldByName
    <2>2. payload' = (IF f.ok THEN Done(name, f.field) ELSE Failed)
          /\ UNCHANGED <<envelope, manifest>> /\ stage = "added"
        BY <1>7 DEF GetPayload
    <2>3. payload'.ok => FieldOf(envelope.heads, TRUE, payload'.ctx, payload'.val)
        <3> HIDE DEF f
        <3> QED
            BY <2>1, <2>2 DEF Done, Failed
    <2> QED
        BY <2>2, <2>3 DEF FromAuthenticated, ManifestBstr
<1>8. CASE UNCHANGED vars
    BY <1>8 DEF vars, FromAuthenticated, ManifestBstr
<1> QED
    BY <1>1, <1>2, <1>3, <1>4, <1>5, <1>6, <1>7, <1>8 DEF Next

\* The manifest that is executed, in terms of the heads of the envelope alone: the
\* byte string after a key suit-manifest, whose digest stands in the wrapper after
\* a key suit-authentication-wrapper, of which every block verifies.
ExecutesSigned ==
    stage \in {"added", "command", "parameter", "read", "error"} =>
    \E i, j :
       LET wrapper == envelope.heads[i + 1].body
           bytes == Bytes(envelope.heads[j + 1].body)
       IN  /\ IsField(envelope.heads, SUIT_AUTHENTICATION_WRAPPER, i)
           /\ IsField(envelope.heads, SUIT_MANIFEST, j)
           /\ SignedWrapper(wrapper)
           /\ VerifyDigest(Bytes(wrapper[2].body), bytes)
           /\ ParseManifest(bytes).ok /\ manifest = ParseManifest(bytes).val

LEMMA NoManifestInNullRange == ~ParseManifest(NullRange).ok
<1>1. ParseManifest(NullRange) = Failed
    BY NullRangeIsEmpty, Zenon DEF ParseManifest
<1> QED
    BY <1>1 DEF Failed

LEMMA AuthenticatedExecutesSigned == FromAuthenticated => ExecutesSigned
<1> SUFFICES ASSUME FromAuthenticated,
                    stage \in {"added", "command", "parameter", "read", "error"}
             PROVE  \E i, j :
                       LET wrapper == envelope.heads[i + 1].body
                           bytes == Bytes(envelope.heads[j + 1].body)
                       IN  /\ IsField(envelope.heads, SUIT_AUTHENTICATION_WRAPPER, i)
                           /\ IsField(envelope.heads, SUIT_MANIFEST, j)
                           /\ SignedWrapper(wrapper)
                           /\ VerifyDigest(Bytes(wrapper[2].body), bytes)
                           /\ ParseManifest(bytes).ok /\ manifest = ParseManifest(bytes).val
    BY DEF ExecutesSigned
<1>1. /\ envelope.heads \in Seq(CborHead) /\ Authenticated(envelope.heads)
      /\ manifest = ParseManifest(ManifestBstr).val /\ ParseManifest(ManifestBstr).ok
    BY EnvelopeHeads DEF FromAuthenticated
<1>2. PICK i : /\ IsField(envelope.heads, SUIT_AUTHENTICATION_WRAPPER, i)
               /\ SignedWrapper(envelope.heads[i + 1].body)
               /\ VerifyDigest(Bytes(envelope.heads[i + 1].body[2].body), ManifestBstr)
    BY <1>1, AuthenticatedIsSigned DEF ManifestBstr
<1>3. ManifestBstr # NullRange
    BY <1>1, NoManifestInNullRange
<1>4. GetFieldByKey(envelope.heads, SUIT_MANIFEST).ok
    BY <1>1, Zenon DEF Authenticated
<1>5. FieldOf(envelope.heads, FALSE, SUIT_MANIFEST, ManifestBstr)
    BY <1>1, <1>4, GetFieldFinds DEF GetFieldByKey, ManifestBstr
<1>6. PICK j : /\ IsField(envelope.heads, SUIT_MANIFEST, j)
               /\ ManifestBstr = Bytes(envelope.heads[j + 1].body)
    <2> HIDE DEF ManifestBstr
    <2> QED
        BY <1>3, <1>5 DEF FieldOf, IsField
<1> QED
    BY <1>1, <1>2, <1>6

\* suit_context_add_envelope and directive handlers look the manifest up again in
\* the bytes suit_authenticate_envelope has checked; for every envelope, with any
\* fields repeated, nested or cut off, what they execute is a manifest whose digest
\* every block of the wrapper verifies, and there is such a block.
THEOREM ExecutesAuthenticated == Spec => []ExecutesSigned
    BY FromAuthenticatedInit, FromAuthenticatedStep, AuthenticatedExecutesSigned, PTL DEF Spec

\* The lookup of directive_fetch for a local uri returns a byte string of the
\* envelope right after the text string asked for, or the null range.
THEOREM PayloadIsField ==
    Spec => [](payload.ok => FieldOf(envelope.heads, TRUE, payload.ctx, payload.val))
<1>1. FromAuthenticated => (payload.ok => FieldOf(envelope.heads, TRUE, payload.ctx, payload.val))
    BY DEF FromAuthenticated
<1> QED
    BY <1>1, FromAuthenticatedInit, FromAuthenticatedStep, PTL DEF Spec

----------------------------------------------------------------------------
(* Items                                                                   *)

\* An item ends in one place only.
LEMMA ItemEndsOnce ==
    ASSUME NEW heads \in Seq(CborHead), NEW n, NEW m, Passed(heads, 1, n), Passed(heads, 1, m)
    PROVE  n = m /\ n \in 1 .. Len(heads)
<1> DEFINE left == ItemsLeft(heads, 1)
<1>1. 1 \in Count
    BY TeeCborAssumption DEF Count
<1>2. left[0] = 1
    <2>1. TrueLeft(left, heads, 1) /\ 0 \in 0 .. Len(heads)
        BY <1>1, ItemsLeftTrue
    <2> QED
        BY <2>1 DEF TrueLeft
<1>3. /\ n \in 0 .. Len(heads) /\ left[n] = 0 /\ \A i \in 0 .. (n - 1) : left[i] \in 1 .. (Modulus - 1)
      /\ m \in 0 .. Len(heads) /\ left[m] = 0 /\ \A i \in 0 .. (m - 1) : left[i] \in 1 .. (Modulus - 1)
    BY DEF Passed
<1> HIDE DEF left
<1>4. ~(n < m) /\ ~(m < n)
    BY <1>3
<1> QED
    BY <1>2, <1>3, <1>4

LEMMA ItemPassed ==
    ASSUME NEW heads \in Seq(CborHead), NEW n, Passed(heads, 1, n)
    PROVE  /\ HasItem(heads) /\ ItemLen(heads) = n /\ n \in 1 .. Len(heads)
           /\ AfterItem(heads) = SubSeq(heads, n + 1, Len(heads))
<1>1. n \in 1 .. Len(heads) /\ n \in 0 .. Len(heads)
    BY ItemEndsOnce
<1>2. HasItem(heads)
    BY <1>1 DEF HasItem
<1>3. Passed(heads, 1, ItemLen(heads))
    BY <1>1, Zenon DEF ItemLen
<1>4. ItemLen(heads) = n
    BY <1>3, ItemEndsOnce
<1> QED
    BY <1>1, <1>2, <1>4 DEF AfterItem

\* The heads after an item.
LEMMA AfterItemType ==
    ASSUME NEW heads \in Seq(CborHead), HasItem(heads)
    PROVE  AfterItem(heads) \in Seq(CborHead) /\ Len(AfterItem(heads)) < Len(heads)
<1>1. PICK n : Passed(heads, 1, n)
    BY DEF HasItem
<1>2. n \in 1 .. Len(heads) /\ AfterItem(heads) = SubSeq(heads, n + 1, Len(heads))
    BY <1>1, ItemPassed
<1>3. SubSeq(heads, n + 1, Len(heads)) \in Seq(CborHead)
    BY <1>2
<1>4. Len(SubSeq(heads, n + 1, Len(heads))) = Len(heads) - n
    BY <1>2
<1> QED
    BY <1>2, <1>3, <1>4

\* tcbor_primitive_skip of one item, in terms of items.
LEMMA SkipItem ==
    ASSUME NEW heads \in Seq(CborHead)
    PROVE  /\ PrimitiveSkip(heads, 1).ok = HasItem(heads)
           /\ HasItem(heads) => PrimitiveSkip(heads, 1).ctx = AfterItem(heads)
<1> DEFINE s == PrimitiveSkip(heads, 1)
<1>1. 1 \in Count
    BY TeeCborAssumption DEF Count
<1>2. /\ s.ok => \E n : Passed(heads, 1, n) /\ s.ctx = SubSeq(heads, n + 1, Len(heads))
      /\ (\E n : Passed(heads, 1, n)) => s.ok
    BY <1>1, SkipExact
<1>3. s.ok \in BOOLEAN
    BY DEF PrimitiveSkip, Failed, Done
<1>4. s.ok => HasItem(heads) /\ s.ctx = AfterItem(heads)
    <2> HIDE DEF s
    <2> QED
        BY <1>2, ItemPassed
<1>5. HasItem(heads) => s.ok
    BY <1>2 DEF HasItem
<1>6. HasItem(heads) \in BOOLEAN
    BY DEF HasItem
<1> HIDE DEF s
<1> QED
    BY <1>3, <1>4, <1>5, <1>6 DEF s

\* A head without members is an item.
LEMMA BstrItem ==
    ASSUME NEW heads \in Seq(CborHead), heads # <<>>, IsBstr(heads[1])
    PROVE  HasItem(heads) /\ AfterItem(heads) = Tail(heads)
<1> DEFINE left == ItemsLeft(heads, 1)
<1>1. Modulus \in Nat \ {0} /\ Modulus >= 2 /\ 1 \in Count
    BY TeeCborAssumption DEF Count
<1>2. TrueLeft(left, heads, 1) /\ Len(heads) \in Nat \ {0}
    BY <1>1, ItemsLeftTrue
<1>3. 0 \in 0 .. Len(heads) /\ 1 \in 0 .. Len(heads)
    BY <1>2
<1>4. left[0] = 1
    BY <1>2, <1>3 DEF TrueLeft
<1>5. left[1] = TrueCount(heads[1], 1)
    BY <1>2, <1>3, <1>4 DEF TrueLeft
<1>6. left[1] = 0
    BY <1>5 DEF TrueCount, Members, IsBstr, IsTag, IsArray, IsMap
<1> HIDE DEF left
<1>7. Passed(heads, 1, 1)
    <2>1. heads[1].mt # Unreadable
        BY DEF IsBstr, Unreadable
    <2>2. \A i \in 0 .. (1 - 1) : i = 0
        OBVIOUS
    <2> QED
        BY <1>1, <1>3, <1>4, <1>6, <2>1, <2>2 DEF Passed, left
<1>8. HasItem(heads) /\ AfterItem(heads) = SubSeq(heads, 1 + 1, Len(heads))
    BY <1>7, ItemPassed
<1>9. SubSeq(heads, 2, Len(heads)) = Tail(heads)
    BY <1>2
<1> QED
    BY <1>8, <1>9
----------------------------------------------------------------------------
(* Pairs                                                                   *)

LEMMA AfterPairType ==
    ASSUME NEW heads \in Seq(CborHead)
    PROVE  /\ AfterPair(heads) \in Seq(CborHead)
           /\ IsPair(heads) => /\ Len(AfterPair(heads)) < Len(heads)
                               /\ heads # <<>> /\ Tail(heads) \in Seq(CborHead)
                               /\ Len(Tail(heads)) = Len(heads) - 1
                               /\ heads[1] \in CborHead
<1>1. CASE IsPair(heads)
    <2>1. heads # <<>> /\ HasItem(Tail(heads)) /\ AfterPair(heads) = AfterItem(Tail(heads))
        BY <1>1 DEF IsPair, AfterPair
    <2>2. Tail(heads) \in Seq(CborHead) /\ Len(Tail(heads)) = Len(heads) - 1 /\ heads[1] \in CborHead
        BY <2>1
    <2>3. AfterItem(Tail(heads)) \in Seq(CborHead) /\ Len(AfterItem(Tail(heads))) < Len(Tail(heads))
        BY <2>1, <2>2, AfterItemType
    <2> QED
        BY <1>1, <2>1, <2>2, <2>3
<1>2. CASE ~IsPair(heads)
    BY <1>2 DEF AfterPair
<1> QED
    BY <1>1, <1>2

\* The rest after each pair.
PairPlaces(at, heads, n) ==
    at = [k \in 0 .. n |-> IF k = 0 THEN heads ELSE AfterPair(at[k - 1])]

LEMMA PairsOfPlaces ==
    ASSUME NEW heads \in Seq(CborHead), NEW n \in Nat
    PROVE  /\ PairPlaces(PairsOf(heads, n), heads, n)
           /\ PairsOf(heads, n) \in [0 .. n -> Seq(CborHead)]
           /\ PairsOf(heads, n)[0] = heads
           /\ \A k \in 0 .. (n - 1) : PairsOf(heads, n)[k + 1] = AfterPair(PairsOf(heads, n)[k])
<1> DEFINE S == Seq(CborHead)
           g == [x \in S \X Nat |-> AfterPair(x[1])]
           at == CHOOSE f : f = [k \in 0 .. n |-> IF k = 0 THEN heads ELSE AfterPair(f[k - 1])]
<1>1. g \in [S \X Nat -> S]
    BY AfterPairType
<1>2. PICK e \in [0 .. n -> S] : Recursion(e, n, heads, g)
    <2> HIDE DEF g
    <2> QED
        BY <1>1, RecursionExists
<1>3. ASSUME NEW k \in 0 .. n, k # 0 PROVE g[<<e[k - 1], k>>] = AfterPair(e[k - 1])
    <2>1. <<e[k - 1], k>> \in S \X Nat
        BY <1>3
    <2> QED
        BY <2>1
<1>4. PairPlaces(e, heads, n)
    <2> HIDE DEF g
    <2> QED
        BY <1>2, <1>3 DEF Recursion, PairPlaces
<1>5. PairPlaces(at, heads, n)
    BY <1>4, Zenon DEF PairPlaces
<1>6. PairsOf(heads, n) = at
    BY Zenon DEF PairsOf
<1> HIDE DEF at
<1>7. at[0] = heads /\ \A k \in 0 .. (n - 1) : at[k + 1] = AfterPair(at[k])
    <2>1. at[0] = heads
        BY <1>5 DEF PairPlaces
    <2>2. ASSUME NEW k \in 0 .. (n - 1) PROVE at[k + 1] = AfterPair(at[k])
        <3>1. k + 1 \in 0 .. n /\ k + 1 # 0 /\ (k + 1) - 1 = k
            OBVIOUS
        <3> QED
            BY <1>5, <3>1 DEF PairPlaces
    <2> QED
        BY <2>1, <2>2
<1>8. at \in [0 .. n -> S]
    <2> DEFINE D == {k \in Nat : k \in 0 .. n => at[k] \in S}
    <2>1. 0 \in D
        BY <1>7
    <2>2. ASSUME NEW k \in Nat, k \in D PROVE k + 1 \in D
        <3>1. k + 1 \in 0 .. n => k \in 0 .. (n - 1) /\ k \in 0 .. n
            OBVIOUS
        <3>2. k + 1 \in 0 .. n => at[k + 1] = AfterPair(at[k]) /\ at[k] \in S
            BY <1>7, <2>2, <3>1
        <3>3. k + 1 \in 0 .. n => at[k + 1] \in S
            BY <3>2, AfterPairType
        <3> QED
            BY <3>3
    <2>3. \A k \in Nat : k \in D
        <3> HIDE DEF D
        <3> QED
            BY <2>1, <2>2, SetInduction
    <2>4. \A k \in 0 .. n : at[k] \in S
        BY <2>3
    <2>5. at = [k \in 0 .. n |-> at[k]]
        BY <1>5 DEF PairPlaces
    <2> QED
        BY <2>4, <2>5
<1> QED
    BY <1>5, <1>6, <1>7, <1>8

----------------------------------------------------------------------------
(* Cursors                                                                 *)

\* A context between two of its items.
Cursor == {c \in [r : Seq(CborHead), index : Nat, count : Count] : c.index <= c.count}

LEMMA CursorMoved ==
    ASSUME NEW c \in Cursor, NEW r \in Seq(CborHead), NEW i \in Nat, i <= c.count
    PROVE  /\ Move(c, r, i) \in Cursor
           /\ Move(c, r, i).r = r /\ Move(c, r, i).index = i /\ Move(c, r, i).count = c.count
    BY DEF Cursor, Move

LEMMA CursorFields ==
    ASSUME NEW c \in Cursor
    PROVE  /\ c.r \in Seq(CborHead) /\ c.index \in Nat /\ c.count \in Count /\ c.index <= c.count
           /\ c.count \in Nat /\ c \in Reading
<1>1. Modulus \in Nat
    BY TeeCborAssumption
<1> QED
    BY <1>1 DEF Cursor, Reading, Count

LEMMA ContextCursor ==
    ASSUME NEW r \in Seq(CborHead), NEW n \in Count
    PROVE  /\ Context(r, n) \in Cursor /\ Context(r, n).r = r
           /\ Context(r, n).index = 0 /\ Context(r, n).count = n
<1>1. n \in Nat
    BY TeeCborAssumption DEF Count
<1> QED
    BY <1>1 DEF Context, Cursor

\* The top level of a range is a cursor in front of one item.
LEMMA TopLevelCursor ==
    ASSUME NEW range, Heads(range) \in Seq(CborHead)
    PROVE  /\ TopLevel(range) \in Cursor /\ TopLevel(range).r = Heads(range)
           /\ TopLevel(range).index = 0 /\ TopLevel(range).count = 1
<1>1. 1 \in Count
    BY TeeCborAssumption DEF Count
<1> HIDE DEF Heads
<1> QED
    BY <1>1, ContextCursor DEF TopLevel

\* Reading one head.
LEMMA ReadAnyCursor ==
    ASSUME NEW ctx \in Cursor
    PROVE  /\ ReadAny(ctx).ok = (ctx.index # ctx.count /\ Readable(ctx.r))
           /\ ReadAny(ctx).ok =>
                 /\ ReadAny(ctx).val = ctx.r[1] /\ ctx.r[1] \in CborHead /\ ctx.r # <<>>
                 /\ ReadAny(ctx).ctx \in Cursor /\ ReadAny(ctx).ctx.r = Tail(ctx.r)
                 /\ ReadAny(ctx).ctx.index = IF IsTag(ctx.r[1]) THEN ctx.index ELSE ctx.index + 1
                 /\ ReadAny(ctx).ctx.count = ctx.count
                 /\ Len(Tail(ctx.r)) = Len(ctx.r) - 1
<1>1. ReadAny(ctx).ok = (ctx.index # ctx.count /\ Readable(ctx.r))
    BY DEF ReadAny, AtEnd, Readable, Failed, Done
<1>2. ASSUME ReadAny(ctx).ok
      PROVE  /\ ReadAny(ctx).val = ctx.r[1] /\ ctx.r[1] \in CborHead /\ ctx.r # <<>>
             /\ ReadAny(ctx).ctx \in Cursor /\ ReadAny(ctx).ctx.r = Tail(ctx.r)
             /\ ReadAny(ctx).ctx.index = IF IsTag(ctx.r[1]) THEN ctx.index ELSE ctx.index + 1
             /\ ReadAny(ctx).ctx.count = ctx.count
             /\ Len(Tail(ctx.r)) = Len(ctx.r) - 1
    <2>1. ctx.r # <<>> /\ ctx.index # ctx.count
        BY <1>1, <1>2 DEF Readable
    <2>2. /\ ctx.r \in Seq(CborHead) /\ ctx.index \in Nat /\ ctx.count \in Nat
          /\ ctx.index <= ctx.count
        BY CursorFields
    <2>3. /\ Tail(ctx.r) \in Seq(CborHead) /\ ctx.r[1] \in CborHead
          /\ Len(Tail(ctx.r)) = Len(ctx.r) - 1
        BY <2>1, <2>2
    <2> DEFINE i == IF IsTag(ctx.r[1]) THEN ctx.index ELSE ctx.index + 1
               t == Tail(ctx.r)
    <2>4. i \in Nat /\ i <= ctx.count
        BY <2>1, <2>2
    <2>5. ReadAny(ctx).val = ctx.r[1] /\ ReadAny(ctx).ctx = Move(ctx, t, i)
        BY <1>1, <1>2 DEF ReadAny, AtEnd, Done, Move
    <2>6. /\ Move(ctx, t, i) \in Cursor /\ Move(ctx, t, i).r = t
          /\ Move(ctx, t, i).index = i /\ Move(ctx, t, i).count = ctx.count
        <3>1. t \in Seq(CborHead)
            BY <2>3
        <3> HIDE DEF i, t
        <3> QED
            BY <2>4, <3>1, CursorMoved
    <2> HIDE DEF t, i
    <2>7. ReadAny(ctx).ctx.r = t /\ ReadAny(ctx).ctx.index = i /\ ReadAny(ctx).ctx.count = ctx.count
          /\ ReadAny(ctx).ctx \in Cursor
        BY <2>5, <2>6
    <2> QED
        BY <2>1, <2>3, <2>5, <2>7 DEF i, t
<1> QED
    BY <1>1, <1>2

\* Skipping items.
LEMMA SkipCursor ==
    ASSUME NEW ctx \in Cursor, NEW count \in Count, Skip(ctx, count).ok
    PROVE  /\ Skip(ctx, count).ctx \in Cursor
           /\ Skip(ctx, count).ctx.index = ctx.index + count
           /\ Skip(ctx, count).ctx.count = ctx.count
           /\ Len(Skip(ctx, count).ctx.r) <= Len(ctx.r)
           /\ Skip(ctx, count).val \in Seq(CborHead)
<1> DEFINE s == PrimitiveSkip(ctx.r, count)
           i == ctx.index + count
           rest == s.ctx
<1>1. /\ s.ok /\ ~(ctx.count - ctx.index < count)
      /\ Skip(ctx, count) = Done(Move(ctx, rest, i), s.val)
    BY DEF Skip, Failed, Move
<1>2. /\ ctx.r \in Seq(CborHead) /\ ctx.index \in Nat /\ ctx.count \in Nat /\ count \in Nat
      /\ Len(ctx.r) \in Nat
    <2>1. count \in Nat
        BY TeeCborAssumption DEF Count
    <2> QED
        BY <2>1, CursorFields
<1>3. PICK n : /\ Passed(ctx.r, count, n) /\ s.ctx = SubSeq(ctx.r, n + 1, Len(ctx.r))
               /\ s.val = SubSeq(ctx.r, 1, n)
    BY <1>1, <1>2, SkipExact
<1>4. n \in 0 .. Len(ctx.r)
    BY <1>3 DEF Passed
<1>5. /\ SubSeq(ctx.r, n + 1, Len(ctx.r)) \in Seq(CborHead)
      /\ Len(SubSeq(ctx.r, n + 1, Len(ctx.r))) = Len(ctx.r) - n
      /\ SubSeq(ctx.r, 1, n) \in Seq(CborHead)
    BY <1>2, <1>4
<1>6. rest \in Seq(CborHead) /\ Len(rest) <= Len(ctx.r) /\ s.val \in Seq(CborHead)
    <2>1. Len(ctx.r) - n <= Len(ctx.r)
        BY <1>2, <1>4
    <2> QED
        BY <1>3, <1>5, <2>1
<1>7. i \in Nat /\ i <= ctx.count
    BY <1>1, <1>2
<1>8. Skip(ctx, count).ctx = Move(ctx, rest, i) /\ Skip(ctx, count).val = s.val
    BY <1>1 DEF Done
<1> HIDE DEF s, rest, i
<1>9. /\ Move(ctx, rest, i) \in Cursor /\ Move(ctx, rest, i).r = rest
      /\ Move(ctx, rest, i).index = i /\ Move(ctx, rest, i).count = ctx.count
    BY <1>6, <1>7, CursorMoved
<1> QED
    BY <1>6, <1>8, <1>9 DEF i

\* Skipping one item, exactly.
LEMMA SkipOneCursor ==
    ASSUME NEW ctx \in Cursor
    PROVE  /\ Skip(ctx, 1).ok = (ctx.index # ctx.count /\ HasItem(ctx.r))
           /\ Skip(ctx, 1).ok =>
                 /\ Skip(ctx, 1).ctx \in Cursor /\ Skip(ctx, 1).ctx.r = AfterItem(ctx.r)
                 /\ Skip(ctx, 1).ctx.index = ctx.index + 1
                 /\ Skip(ctx, 1).ctx.count = ctx.count
                 /\ Len(AfterItem(ctx.r)) < Len(ctx.r)
                 /\ Skip(ctx, 1).val \in Seq(CborHead)
<1> DEFINE s == PrimitiveSkip(ctx.r, 1)
<1>1. /\ ctx.r \in Seq(CborHead) /\ ctx.index \in Nat /\ ctx.count \in Nat /\ 1 \in Count
      /\ ctx.index <= ctx.count
    <2>1. 1 \in Count
        BY TeeCborAssumption DEF Count
    <2> QED
        BY <2>1, CursorFields
<1>2. /\ s.ok = HasItem(ctx.r) /\ (HasItem(ctx.r) => s.ctx = AfterItem(ctx.r))
      /\ HasItem(ctx.r) \in BOOLEAN
    BY <1>1, SkipItem DEF HasItem
<1>3. (ctx.count - ctx.index < 1) = (ctx.index = ctx.count)
    BY <1>1
<1>4. Skip(ctx, 1).ok = (ctx.index # ctx.count /\ HasItem(ctx.r))
    <2>1. CASE ctx.index = ctx.count \/ ~HasItem(ctx.r)
        <3>1. ctx.count - ctx.index < 1 \/ ~s.ok
            BY <1>2, <1>3, <2>1
        <3>2. Skip(ctx, 1) = Failed
            BY <3>1 DEF Skip
        <3>3. Skip(ctx, 1).ok = FALSE
            BY <3>2 DEF Failed
        <3> QED
            BY <2>1, <3>3
    <2>2. CASE ctx.index # ctx.count /\ HasItem(ctx.r)
        <3>1. Skip(ctx, 1) = Done([ctx EXCEPT !.r = s.ctx, !.index = @ + 1], s.val)
            BY <1>2, <1>3, <2>2 DEF Skip
        <3>2. Skip(ctx, 1).ok = TRUE
            BY <3>1 DEF Done
        <3> QED
            BY <2>2, <3>2
    <2> QED
        BY <2>1, <2>2
<1>5. ASSUME Skip(ctx, 1).ok PROVE Skip(ctx, 1).ctx.r = AfterItem(ctx.r)
    <2>1. Skip(ctx, 1) = Done(Move(ctx, s.ctx, ctx.index + 1), s.val)
        BY <1>5 DEF Skip, Failed, Move
    <2>2. Skip(ctx, 1).ctx = Move(ctx, s.ctx, ctx.index + 1)
        BY <2>1 DEF Done
    <2>3. Skip(ctx, 1).ctx.r = s.ctx
        BY <2>2 DEF Move, Cursor
    <2>4. HasItem(ctx.r)
        BY <1>4, <1>5
    <2> QED
        BY <1>2, <2>3, <2>4
<1>6. HasItem(ctx.r) => Len(AfterItem(ctx.r)) < Len(ctx.r)
    BY <1>1, AfterItemType
<1>7. ASSUME Skip(ctx, 1).ok
      PROVE  /\ Skip(ctx, 1).ctx \in Cursor
             /\ Skip(ctx, 1).ctx.index = ctx.index + 1
             /\ Skip(ctx, 1).ctx.count = ctx.count
             /\ Skip(ctx, 1).val \in Seq(CborHead)
    BY <1>1, <1>7, SkipCursor
<1> QED
    BY <1>4, <1>5, <1>6, <1>7

\* A byte string.
LEMMA ReadBstrCursor ==
    ASSUME NEW ctx \in Cursor
    PROVE  /\ ReadBstr(ctx).ok = (ctx.index # ctx.count /\ ctx.r # <<>> /\ IsBstr(ctx.r[1]))
           /\ ReadBstr(ctx).ok =>
                 /\ ReadBstr(ctx).val = Bytes(ctx.r[1].body) /\ ctx.r[1].body \in Seq(CborHead)
                 /\ ReadBstr(ctx).ctx \in Cursor /\ ReadBstr(ctx).ctx.r = Tail(ctx.r)
                 /\ ReadBstr(ctx).ctx.index = ctx.index + 1
                 /\ ReadBstr(ctx).ctx.count = ctx.count
                 /\ Len(Tail(ctx.r)) = Len(ctx.r) - 1
<1> DEFINE x == ReadAny(ctx)
<1>1. /\ x.ok = (ctx.index # ctx.count /\ Readable(ctx.r))
      /\ x.ok => /\ x.val = ctx.r[1] /\ ctx.r[1] \in CborHead /\ ctx.r # <<>>
                 /\ x.ctx \in Cursor /\ x.ctx.r = Tail(ctx.r)
                 /\ x.ctx.index = IF IsTag(ctx.r[1]) THEN ctx.index ELSE ctx.index + 1
                 /\ x.ctx.count = ctx.count
                 /\ Len(Tail(ctx.r)) = Len(ctx.r) - 1
    BY ReadAnyCursor
<1> HIDE DEF x
<1>2. CASE x.ok /\ IsBstr(x.val)
    <2>1. ReadBstr(ctx) = Done(x.ctx, Bytes(x.val.body))
        BY <1>2 DEF ReadBstr, x
    <2>2. ReadBstr(ctx).ok = TRUE /\ ReadBstr(ctx).ctx = x.ctx /\ ReadBstr(ctx).val = Bytes(x.val.body)
        BY <2>1 DEF Done
    <2>3. x.val = ctx.r[1] /\ ~IsTag(ctx.r[1]) /\ ctx.r[1].body \in Seq(CborHead)
        BY <1>1, <1>2, TeeCborAssumption DEF IsBstr, IsTag
    <2> QED
        BY <1>1, <1>2, <2>2, <2>3
<1>3. CASE ~(x.ok /\ IsBstr(x.val))
    <2>1. ReadBstr(ctx) = Failed
        BY <1>3 DEF ReadBstr, x
    <2>2. ReadBstr(ctx).ok = FALSE
        BY <2>1 DEF Failed
    <2>3. ASSUME ctx.index # ctx.count, ctx.r # <<>>, IsBstr(ctx.r[1]) PROVE FALSE
        <3>1. Readable(ctx.r)
            BY <2>3 DEF Readable, IsBstr, Unreadable
        <3>2. x.ok /\ x.val = ctx.r[1]
            BY <1>1, <2>3, <3>1
        <3> QED
            BY <1>3, <2>3, <3>2
    <2> QED
        BY <2>2, <2>3
<1> QED
    BY <1>2, <1>3

\* A tag, an unsigned number, an integer.
LEMMA ReadTagCursor ==
    ASSUME NEW ctx \in Cursor, ReadTag(ctx).ok
    PROVE  /\ ctx.index # ctx.count /\ ctx.r # <<>> /\ IsTag(ctx.r[1])
           /\ ReadTag(ctx).val = ctx.r[1].val
           /\ ReadTag(ctx).ctx \in Cursor /\ ReadTag(ctx).ctx.r = Tail(ctx.r)
           /\ ReadTag(ctx).ctx.index = ctx.index /\ ReadTag(ctx).ctx.count = ctx.count
<1> DEFINE x == ReadAny(ctx)
<1>1. x.ok /\ IsTag(x.val) /\ ReadTag(ctx) = Done(x.ctx, x.val.val)
    BY DEF ReadTag, Failed
<1>2. ReadTag(ctx).ctx = x.ctx /\ ReadTag(ctx).val = x.val.val
    BY <1>1 DEF Done
<1> HIDE DEF x
<1> QED
    BY <1>1, <1>2, ReadAnyCursor DEF x

LEMMA ReadUintCursor ==
    ASSUME NEW ctx \in Cursor
    PROVE  /\ ReadUint(ctx).ok = (ctx.index # ctx.count /\ ctx.r # <<>> /\ IsUint(ctx.r[1]))
           /\ ReadUint(ctx).ok =>
                 /\ ReadUint(ctx).val = ctx.r[1].val /\ ReadUint(ctx).val \in Count
                 /\ ReadUint(ctx).ctx \in Cursor /\ ReadUint(ctx).ctx.r = Tail(ctx.r)
                 /\ ReadUint(ctx).ctx.index = ctx.index + 1
                 /\ ReadUint(ctx).ctx.count = ctx.count
<1> DEFINE x == ReadAny(ctx)
<1>1. /\ x.ok = (ctx.index # ctx.count /\ Readable(ctx.r))
      /\ x.ok => /\ x.val = ctx.r[1] /\ ctx.r[1] \in CborHead /\ ctx.r # <<>>
                 /\ x.ctx \in Cursor /\ x.ctx.r = Tail(ctx.r)
                 /\ x.ctx.index = IF IsTag(ctx.r[1]) THEN ctx.index ELSE ctx.index + 1
                 /\ x.ctx.count = ctx.count
    BY ReadAnyCursor
<1> HIDE DEF x
<1>2. CASE x.ok /\ IsUint(x.val)
    <2>1. ReadUint(ctx) = Done(x.ctx, x.val.val)
        BY <1>2 DEF ReadUint, x
    <2>2. ReadUint(ctx).ok = TRUE /\ ReadUint(ctx).ctx = x.ctx /\ ReadUint(ctx).val = x.val.val
        BY <2>1 DEF Done
    <2>3. x.val = ctx.r[1] /\ ~IsTag(ctx.r[1]) /\ ctx.r[1].val \in Count
        BY <1>1, <1>2, TeeCborAssumption DEF IsUint, IsTag, Count
    <2> QED
        BY <1>1, <1>2, <2>2, <2>3
<1>3. CASE ~(x.ok /\ IsUint(x.val))
    <2>1. ReadUint(ctx) = Failed
        BY <1>3 DEF ReadUint, x
    <2>2. ReadUint(ctx).ok = FALSE
        BY <2>1 DEF Failed
    <2>3. ASSUME ctx.index # ctx.count, ctx.r # <<>>, IsUint(ctx.r[1]) PROVE FALSE
        <3>1. Readable(ctx.r)
            BY <2>3 DEF Readable, IsUint, Unreadable
        <3>2. x.ok /\ x.val = ctx.r[1]
            BY <1>1, <2>3, <3>1
        <3> QED
            BY <1>3, <2>3, <3>2
    <2> QED
        BY <2>2, <2>3
<1> QED
    BY <1>2, <1>3

LEMMA ReadIntCursor ==
    ASSUME NEW ctx \in Cursor, ReadInt(ctx).ok
    PROVE  /\ ReadInt(ctx).ctx \in Cursor /\ ReadInt(ctx).ctx.count = ctx.count
           /\ ReadInt(ctx).ctx.r = Tail(ctx.r) /\ Len(Tail(ctx.r)) = Len(ctx.r) - 1
<1> DEFINE x == ReadAny(ctx)
<1>1. x.ok /\ ReadInt(ctx).ctx = x.ctx
    BY DEF ReadInt, Failed, Done
<1> HIDE DEF x
<1> QED
    BY <1>1, ReadAnyCursor DEF x

\* An array or a map opens a cursor in front of its items.
LEMMA ReadArrayCursor ==
    ASSUME NEW ctx \in Cursor
    PROVE  /\ ReadArray(ctx).ok = (ctx.index # ctx.count /\ ctx.r # <<>> /\ IsArray(ctx.r[1]))
           /\ ReadArray(ctx).ok =>
                 /\ ReadArray(ctx).ctx \in Cursor /\ ReadArray(ctx).ctx.r = Tail(ctx.r)
                 /\ ReadArray(ctx).ctx.index = ctx.index + 1
                 /\ ReadArray(ctx).ctx.count = ctx.count
                 /\ ReadArray(ctx).val \in Cursor /\ ReadArray(ctx).val.r = Tail(ctx.r)
                 /\ ReadArray(ctx).val.index = 0 /\ ReadArray(ctx).val.count = ctx.r[1].val
                 /\ Len(Tail(ctx.r)) = Len(ctx.r) - 1
<1> DEFINE x == ReadAny(ctx)
<1>1. /\ x.ok = (ctx.index # ctx.count /\ Readable(ctx.r))
      /\ x.ok => /\ x.val = ctx.r[1] /\ ctx.r[1] \in CborHead /\ ctx.r # <<>>
                 /\ x.ctx \in Cursor /\ x.ctx.r = Tail(ctx.r)
                 /\ x.ctx.index = IF IsTag(ctx.r[1]) THEN ctx.index ELSE ctx.index + 1
                 /\ x.ctx.count = ctx.count
                 /\ Len(Tail(ctx.r)) = Len(ctx.r) - 1
    BY ReadAnyCursor
<1> HIDE DEF x
<1>2. CASE x.ok /\ IsArray(x.val)
    <2>1. ReadArray(ctx) = Done(x.ctx, Context(x.ctx.r, x.val.val))
        BY <1>2 DEF ReadArray, x
    <2>2. /\ ReadArray(ctx).ok = TRUE /\ ReadArray(ctx).ctx = x.ctx
          /\ ReadArray(ctx).val = Context(x.ctx.r, x.val.val)
        BY <2>1 DEF Done
    <2>3. x.val = ctx.r[1] /\ ~IsTag(ctx.r[1]) /\ x.val.val \in Count
        BY <1>1, <1>2, TeeCborAssumption DEF IsArray, IsTag, Count
    <2>4. x.ctx.r \in Seq(CborHead)
        BY <1>1, <1>2, CursorFields
    <2>5. /\ ReadArray(ctx).val \in Cursor /\ ReadArray(ctx).val.r = x.ctx.r
          /\ ReadArray(ctx).val.index = 0 /\ ReadArray(ctx).val.count = x.val.val
        BY <2>2, <2>3, <2>4, ContextCursor
    <2> QED
        BY <1>1, <1>2, <2>2, <2>3, <2>5
<1>3. CASE ~(x.ok /\ IsArray(x.val))
    <2>1. ReadArray(ctx) = Failed
        BY <1>3 DEF ReadArray, x
    <2>2. ReadArray(ctx).ok = FALSE
        BY <2>1 DEF Failed
    <2>3. ASSUME ctx.index # ctx.count, ctx.r # <<>>, IsArray(ctx.r[1]) PROVE FALSE
        <3>1. Readable(ctx.r)
            BY <2>3 DEF Readable, IsArray, Unreadable
        <3>2. x.ok /\ x.val = ctx.r[1]
            BY <1>1, <2>3, <3>1
        <3> QED
            BY <1>3, <2>3, <3>2
    <2> QED
        BY <2>2, <2>3
<1> QED
    BY <1>2, <1>3

LEMMA ReadMapCursor ==
    ASSUME NEW ctx \in Cursor
    PROVE  /\ ReadMap(ctx).ok = (/\ ctx.index # ctx.count /\ ctx.r # <<>> /\ IsMap(ctx.r[1])
                                 /\ 2 * ctx.r[1].val < Modulus)
           /\ ReadMap(ctx).ok =>
                 /\ ReadMap(ctx).ctx \in Cursor /\ ReadMap(ctx).ctx.r = Tail(ctx.r)
                 /\ ReadMap(ctx).ctx.index = ctx.index + 1
                 /\ ReadMap(ctx).ctx.count = ctx.count
                 /\ ReadMap(ctx).val \in Cursor /\ ReadMap(ctx).val.r = Tail(ctx.r)
                 /\ ReadMap(ctx).val.index = 0 /\ ReadMap(ctx).val.count = 2 * ctx.r[1].val
                 /\ Len(Tail(ctx.r)) = Len(ctx.r) - 1
<1> DEFINE x == ReadAny(ctx)
           n == CheckedAdd(x.val.val, x.val.val)
<1>1. /\ x.ok = (ctx.index # ctx.count /\ Readable(ctx.r))
      /\ x.ok => /\ x.val = ctx.r[1] /\ ctx.r[1] \in CborHead /\ ctx.r # <<>>
                 /\ x.ctx \in Cursor /\ x.ctx.r = Tail(ctx.r)
                 /\ x.ctx.index = IF IsTag(ctx.r[1]) THEN ctx.index ELSE ctx.index + 1
                 /\ x.ctx.count = ctx.count
                 /\ Len(Tail(ctx.r)) = Len(ctx.r) - 1
    BY ReadAnyCursor
<1> HIDE DEF x
<1>2. ASSUME x.ok
      PROVE  /\ x.val.val \in Nat /\ Modulus \in Nat
             /\ n = IF 2 * x.val.val < Modulus THEN 2 * x.val.val ELSE Overflow
             /\ n # Overflow <=> 2 * x.val.val < Modulus
             /\ n # Overflow => n \in Count
    <2>1. x.val.val \in Count /\ Modulus \in Nat \ {0}
        BY <1>1, <1>2, TeeCborAssumption DEF Count
    <2>2. n = IF x.val.val + x.val.val < Modulus THEN x.val.val + x.val.val ELSE Overflow
        BY <2>1, CheckedAddExact
    <2> QED
        BY <2>1, <2>2 DEF Count, Overflow
<1> HIDE DEF n
<1>3. CASE x.ok /\ IsMap(x.val) /\ n # Overflow
    <2>1. ReadMap(ctx) = Done(x.ctx, Context(x.ctx.r, n))
        BY <1>3 DEF ReadMap, x, n
    <2>2. /\ ReadMap(ctx).ok = TRUE /\ ReadMap(ctx).ctx = x.ctx
          /\ ReadMap(ctx).val = Context(x.ctx.r, n)
        BY <2>1 DEF Done
    <2>3. x.val = ctx.r[1] /\ ~IsTag(ctx.r[1]) /\ n \in Count /\ n = 2 * x.val.val /\ 2 * x.val.val < Modulus
        BY <1>1, <1>2, <1>3 DEF IsMap, IsTag
    <2>4. x.ctx.r \in Seq(CborHead)
        BY <1>1, <1>3, CursorFields
    <2>5. /\ ReadMap(ctx).val \in Cursor /\ ReadMap(ctx).val.r = x.ctx.r
          /\ ReadMap(ctx).val.index = 0 /\ ReadMap(ctx).val.count = n
        BY <2>2, <2>3, <2>4, ContextCursor
    <2>6. ctx.index # ctx.count /\ ctx.r # <<>> /\ IsMap(ctx.r[1]) /\ 2 * ctx.r[1].val < Modulus
        BY <1>1, <1>3, <2>3
    <2>7. ReadMap(ctx).val.count = 2 * ctx.r[1].val
        BY <2>3, <2>5
    <2> QED
        BY <1>1, <1>3, <2>2, <2>3, <2>5, <2>6, <2>7
<1>4. CASE ~(x.ok /\ IsMap(x.val) /\ n # Overflow)
    <2>1. ReadMap(ctx) = Failed
        BY <1>4 DEF ReadMap, x, n
    <2>2. ReadMap(ctx).ok = FALSE
        BY <2>1 DEF Failed
    <2>3. ~(ctx.index # ctx.count /\ ctx.r # <<>> /\ IsMap(ctx.r[1]) /\ 2 * ctx.r[1].val < Modulus)
        <3>1. CASE ~x.ok
            <4>1. ctx.r # <<>> /\ IsMap(ctx.r[1]) => Readable(ctx.r)
                BY DEF Readable, IsMap, Unreadable
            <4> QED
                BY <1>1, <3>1, <4>1
        <3>2. CASE x.ok
            BY <1>1, <1>2, <1>4, <3>2
        <3> QED
            BY <3>1, <3>2
    <2> QED
        BY <2>2, <2>3
<1> QED
    BY <1>3, <1>4

\* What is left of an array or a map is skipped to its end.
LEMMA SkipAllCursor ==
    ASSUME NEW ctx \in Cursor, SkipAll(ctx).ok
    PROVE  /\ SkipAll(ctx).ctx \in Cursor /\ AtEnd(SkipAll(ctx).ctx)
           /\ Len(SkipAll(ctx).ctx.r) <= Len(ctx.r)
<1> DEFINE n == ctx.count - ctx.index
<1>1. /\ ctx.count \in Count /\ ctx.index \in Nat /\ ctx.index <= ctx.count
      /\ ctx.count \in Nat /\ Modulus \in Nat
    BY CursorFields, TeeCborAssumption
<1>2. n \in Count /\ ctx.index + n = ctx.count
    BY <1>1 DEF Count
<1> HIDE DEF n
<1>3. Skip(ctx, n).ok /\ SkipAll(ctx) = Skip(ctx, n)
    BY DEF SkipAll, n
<1> QED
    BY <1>2, <1>3, SkipCursor DEF AtEnd

\* tcbor_close at the end of an array or a map.
LEMMA CloseCursor ==
    ASSUME NEW parent \in Cursor, NEW child \in Cursor, AtEnd(child)
    PROVE  /\ Close(parent, child).ctx \in Cursor /\ Close(parent, child).ctx.r = child.r
<1> DEFINE r == child.r
           i == parent.index
<1>1. r \in Seq(CborHead) /\ i \in Nat /\ i <= parent.count
    BY CursorFields
<1>2. Close(parent, child).ctx = [parent EXCEPT !.r = r]
    BY DEF Close, Done
<1>3. [parent EXCEPT !.r = r] = Move(parent, r, i)
    BY DEF Move, Cursor
<1> HIDE DEF r, i
<1>4. Move(parent, r, i) \in Cursor /\ Move(parent, r, i).r = r
    BY <1>1, CursorMoved
<1> QED
    BY <1>2, <1>3, <1>4 DEF r

----------------------------------------------------------------------------
(* The fields of a manifest                                                *)

Digest == [algorithm_id : Int, bytes : ByteRange]
Severed == [severed : {FALSE}, body : ByteRange] \cup [severed : {TRUE}, digest : Digest]

LEMMA ReadIntValue ==
    ASSUME NEW ctx \in Cursor, ReadInt(ctx).ok
    PROVE  ReadInt(ctx).val \in Int
<1> DEFINE x == ReadAny(ctx)
           v == x.val.val
           n == IF IsUint(x.val) THEN v ELSE Modulus - 1 - v
<1>1. x.ok /\ ReadInt(ctx).val = ToInt(n)
    BY DEF ReadInt, Failed, Done
<1>2. x.val \in CborHead
    BY <1>1, ReadAnyCursor
<1>3. n \in Int /\ INT_MAX \in Nat
    BY <1>2, TeeCborAssumption
<1> HIDE DEF n
<1>4. 2 * (INT_MAX + 1) \in Nat \ {0}
    BY <1>3
<1>5. n % (2 * (INT_MAX + 1)) \in Int
    BY <1>3, <1>4
<1>6. ToInt(n) \in Int
    BY <1>3, <1>4, <1>5 DEF ToInt
<1> QED
    BY <1>1, <1>6

\* read_digest reads one item.
LEMMA ReadDigestCursor ==
    ASSUME NEW ctx \in Cursor, ReadDigest(ctx).ok
    PROVE  /\ ReadDigest(ctx).ctx \in Cursor /\ Len(ReadDigest(ctx).ctx.r) < Len(ctx.r)
           /\ ReadDigest(ctx).val \in Digest
<1> DEFINE array == ReadArray(ctx)
           alg   == ReadInt(array.val)
           bytes == ReadBstr(alg.ctx)
           rest  == SkipAll(bytes.ctx)
           close == Close(array.ctx, rest.ctx)
           val == [algorithm_id |-> alg.val, bytes |-> bytes.val]
<1>1. /\ array.ok /\ alg.ok /\ bytes.ok /\ rest.ok
      /\ ReadDigest(ctx) = Done(close.ctx, val)
    BY DEF ReadDigest, Failed
<1>2. ReadDigest(ctx).ctx = close.ctx /\ ReadDigest(ctx).val = val
    BY <1>1 DEF Done
<1>3. /\ array.ctx \in Cursor /\ array.val \in Cursor /\ array.val.r = Tail(ctx.r)
      /\ Len(Tail(ctx.r)) = Len(ctx.r) - 1
    BY <1>1, ReadArrayCursor
<1> HIDE DEF array
<1>4. alg.ctx \in Cursor /\ alg.ctx.r = Tail(array.val.r) /\ alg.val \in Int
      /\ Len(Tail(array.val.r)) = Len(array.val.r) - 1
    BY <1>1, <1>3, ReadIntCursor, ReadIntValue
<1> HIDE DEF alg
<1>5. /\ bytes.ctx \in Cursor /\ bytes.ctx.r = Tail(alg.ctx.r)
      /\ Len(Tail(alg.ctx.r)) = Len(alg.ctx.r) - 1
      /\ bytes.val \in ByteRange
    <2>1. /\ bytes.ctx \in Cursor /\ bytes.ctx.r = Tail(alg.ctx.r)
          /\ Len(Tail(alg.ctx.r)) = Len(alg.ctx.r) - 1
          /\ bytes.val = Bytes(alg.ctx.r[1].body) /\ alg.ctx.r[1].body \in Seq(CborHead)
        BY <1>1, <1>4, ReadBstrCursor
    <2> QED
        BY <2>1 DEF ByteRange
<1> HIDE DEF bytes
<1>6. rest.ctx \in Cursor /\ AtEnd(rest.ctx) /\ Len(rest.ctx.r) <= Len(bytes.ctx.r)
    BY <1>1, <1>5, SkipAllCursor
<1> HIDE DEF rest
<1>7. close.ctx \in Cursor /\ close.ctx.r = rest.ctx.r
    BY <1>3, <1>6, CloseCursor
<1> HIDE DEF close
<1>8. val \in Digest
    BY <1>4, <1>5 DEF Digest
<1>9. Len(ctx.r) \in Nat /\ Len(rest.ctx.r) \in Nat /\ Len(bytes.ctx.r) \in Nat
    BY <1>5, <1>6, CursorFields
<1>10. Len(rest.ctx.r) < Len(ctx.r)
    <2>1. Len(array.val.r) = Len(ctx.r) - 1
        BY <1>3
    <2>2. Len(alg.ctx.r) = Len(array.val.r) - 1
        BY <1>4
    <2>3. Len(bytes.ctx.r) = Len(alg.ctx.r) - 1
        BY <1>5
    <2> QED
        BY <1>6, <1>9, <2>1, <2>2, <2>3
<1> QED
    BY <1>2, <1>7, <1>8, <1>10

\* read_severed
LEMMA ReadSeveredCursor ==
    ASSUME NEW ctx \in Cursor, ReadSevered(ctx).ok
    PROVE  /\ ReadSevered(ctx).ctx \in Cursor /\ Len(ReadSevered(ctx).ctx.r) < Len(ctx.r)
           /\ ReadSevered(ctx).val \in Severed
<1> DEFINE body == ReadBstr(ctx)
           digest == ReadDigest(ctx)
<1>0. Len(ctx.r) \in Nat
    BY CursorFields
<1>1. CASE body.ok
    <2>1. ReadSevered(ctx) = Done(body.ctx, [severed |-> FALSE, body |-> body.val])
        BY <1>1 DEF ReadSevered
    <2>2. /\ ReadSevered(ctx).ctx = body.ctx
          /\ ReadSevered(ctx).val = [severed |-> FALSE, body |-> body.val]
        BY <2>1 DEF Done
    <2>3. /\ body.ctx \in Cursor /\ body.val \in ByteRange
          /\ body.ctx.r = Tail(ctx.r) /\ Len(Tail(ctx.r)) = Len(ctx.r) - 1
        BY <1>1, ReadBstrCursor DEF ByteRange
    <2> HIDE DEF body
    <2>4. [severed |-> FALSE, body |-> body.val] \in Severed
        BY <2>3 DEF Severed
    <2> QED
        BY <1>0, <2>2, <2>3, <2>4
<1>2. CASE ~body.ok /\ digest.ok
    <2>1. ReadSevered(ctx) = Done(digest.ctx, [severed |-> TRUE, digest |-> digest.val])
        BY <1>2 DEF ReadSevered
    <2>2. /\ ReadSevered(ctx).ctx = digest.ctx
          /\ ReadSevered(ctx).val = [severed |-> TRUE, digest |-> digest.val]
        BY <2>1 DEF Done
    <2>3. digest.ctx \in Cursor /\ digest.val \in Digest /\ Len(digest.ctx.r) < Len(ctx.r)
        BY <1>2, ReadDigestCursor
    <2> HIDE DEF digest
    <2>4. [severed |-> TRUE, digest |-> digest.val] \in Severed
        BY <2>3 DEF Severed
    <2> QED
        BY <2>2, <2>3, <2>4
<1>3. body.ok \/ digest.ok
    BY DEF ReadSevered, Failed
<1> QED
    BY <1>1, <1>2, <1>3

\* read_dependency
LEMMA ReadDependencyCursor ==
    ASSUME NEW ctx \in Cursor, ReadDependency(ctx).ok
    PROVE  /\ ReadDependency(ctx).ctx \in Cursor
           /\ Len(ReadDependency(ctx).ctx.r) < Len(ctx.r)
           /\ ReadDependency(ctx).val = TRUE
<1> DEFINE map == ReadMap(ctx)
           rest == SkipAll(map.val)
           close == Close(map.ctx, rest.ctx)
<1>1. map.ok /\ rest.ok /\ ReadDependency(ctx) = Done(close.ctx, TRUE)
    BY DEF ReadDependency, Failed
<1>2. ReadDependency(ctx).ctx = close.ctx /\ ReadDependency(ctx).val = TRUE
    BY <1>1 DEF Done
<1>3. /\ map.ctx \in Cursor /\ map.val \in Cursor /\ map.val.r = Tail(ctx.r)
      /\ Len(Tail(ctx.r)) = Len(ctx.r) - 1
    BY <1>1, ReadMapCursor
<1> HIDE DEF map
<1>4. rest.ctx \in Cursor /\ AtEnd(rest.ctx) /\ Len(rest.ctx.r) <= Len(map.val.r)
    BY <1>1, <1>3, SkipAllCursor
<1> HIDE DEF rest
<1>5. close.ctx \in Cursor /\ close.ctx.r = rest.ctx.r
    BY <1>3, <1>4, CloseCursor
<1> HIDE DEF close
<1>6. Len(ctx.r) \in Nat /\ Len(rest.ctx.r) \in Nat
    BY <1>4, CursorFields
<1> QED
    BY <1>2, <1>3, <1>4, <1>5, <1>6

LEMMA ReadSubobjectCursor ==
    ASSUME NEW ctx \in Cursor, ReadSubobject(ctx).ok
    PROVE  /\ ReadSubobject(ctx).ctx \in Cursor
           /\ Len(ReadSubobject(ctx).ctx.r) < Len(ctx.r)
           /\ ReadSubobject(ctx).val \in ByteRange
<1> DEFINE s == Skip(ctx, 1)
<1>1. s.ok /\ ReadSubobject(ctx) = Done(s.ctx, Bytes(s.val))
    BY DEF ReadSubobject, Failed
<1>2. ReadSubobject(ctx).ctx = s.ctx /\ ReadSubobject(ctx).val = Bytes(s.val)
    BY <1>1 DEF Done
<1>3. /\ s.ctx \in Cursor /\ s.ctx.r = AfterItem(ctx.r) /\ Len(AfterItem(ctx.r)) < Len(ctx.r)
      /\ s.val \in Seq(CborHead)
    BY <1>1, SkipOneCursor
<1> HIDE DEF s
<1>4. Bytes(s.val) \in ByteRange
    BY <1>3 DEF ByteRange
<1> QED
    BY <1>2, <1>3, <1>4

\* A list that fits into an array of max entries.
ListEntry == ByteRange \cup {TRUE}
ListsOf(max) == {l \in Seq(ListEntry) : Len(l) <= max}

LEMMA ListGrows ==
    ASSUME NEW max \in Nat, NEW l \in ListsOf(max), Len(l) # max, NEW v \in ListEntry
    PROVE  Append(l, v) \in ListsOf(max)
<1>1. l \in Seq(ListEntry) /\ Len(l) <= max /\ Len(l) \in Nat
    BY DEF ListsOf
<1>2. Append(l, v) \in Seq(ListEntry) /\ Len(Append(l, v)) = Len(l) + 1
    BY <1>1
<1>3. Len(l) + 1 <= max
    BY <1>1
<1> QED
    BY <1>2, <1>3 DEF ListsOf

ListMax(name) == IF name = "dependencies" THEN SUIT_DEPENDENCY_MAX ELSE SUIT_COMPONENT_MAX

ListStates(max) == [ok : BOOLEAN, map : Cursor, list : ListsOf(max)]

\* An entry is stored only where the list has room for it.
LEMMA ListTurnKeeps ==
    ASSUME NEW max \in Nat, NEW s \in ListStates(max), NEW x, x.ok \in BOOLEAN,
           x.ok => /\ x.ctx \in Cursor /\ Len(x.ctx.r) < Len(s.map.r)
                   /\ x.val \in ListEntry
    PROVE  /\ ListTurn(s, max, x) \in ListStates(max)
           /\ ListTurn(s, max, x).ok => Len(ListTurn(s, max, x).map.r) < Len(s.map.r)
<1>1. s.list \in ListsOf(max) /\ s.map \in Cursor
    BY DEF ListStates
<1>2. CASE Len(s.list) = max \/ ~x.ok
    <2>1. ListTurn(s, max, x) = [s EXCEPT !.ok = FALSE]
        BY <1>2 DEF ListTurn
    <2> QED
        BY <2>1 DEF ListStates
<1>3. CASE Len(s.list) # max /\ x.ok
    <2> DEFINE l == Append(s.list, x.val)
               m == x.ctx
    <2>1. ListTurn(s, max, x) = [s EXCEPT !.map = m, !.list = l]
        BY <1>3 DEF ListTurn
    <2>2. l \in ListsOf(max) /\ m \in Cursor /\ Len(m.r) < Len(s.map.r)
        BY <1>1, <1>3, ListGrows
    <2> HIDE DEF l, m
    <2>3. [s EXCEPT !.map = m, !.list = l] \in ListStates(max)
          /\ [s EXCEPT !.map = m, !.list = l].map = m
        BY <2>2 DEF ListStates
    <2> QED
        BY <2>1, <2>2, <2>3
<1> QED
    BY <1>2, <1>3

LEMMA TurnOfListKeeps ==
    ASSUME NEW name, NEW s \in ListStates(ListMax(name))
    PROVE  /\ TurnOfList(name, s) \in ListStates(ListMax(name))
           /\ TurnOfList(name, s).ok => Len(TurnOfList(name, s).map.r) < Len(s.map.r)
<1>1. s.map \in Cursor /\ SUIT_DEPENDENCY_MAX \in Nat /\ SUIT_COMPONENT_MAX \in Nat
    BY SuitParserAssumption DEF ListStates
<1>2. CASE name = "dependencies"
    <2> DEFINE x == ReadDependency(s.map)
    <2>1. x.ok \in BOOLEAN
        BY DEF ReadDependency, Failed, Done
    <2>2. x.ok => x.ctx \in Cursor /\ Len(x.ctx.r) < Len(s.map.r) /\ x.val \in ListEntry
        BY <1>1, ReadDependencyCursor DEF ListEntry
    <2>3. TurnOfList(name, s) = ListTurn(s, SUIT_DEPENDENCY_MAX, x) /\ ListMax(name) = SUIT_DEPENDENCY_MAX
        BY <1>2 DEF TurnOfList, ListMax
    <2> HIDE DEF x
    <2>4. s \in ListStates(SUIT_DEPENDENCY_MAX)
        BY <2>3
    <2>5. /\ ListTurn(s, SUIT_DEPENDENCY_MAX, x) \in ListStates(SUIT_DEPENDENCY_MAX)
          /\ ListTurn(s, SUIT_DEPENDENCY_MAX, x).ok =>
                Len(ListTurn(s, SUIT_DEPENDENCY_MAX, x).map.r) < Len(s.map.r)
        BY <1>1, <2>1, <2>2, <2>4, ListTurnKeeps
    <2> QED
        BY <2>3, <2>5
<1>3. CASE name # "dependencies"
    <2> DEFINE x == ReadSubobject(s.map)
    <2>1. x.ok \in BOOLEAN
        BY DEF ReadSubobject, Failed, Done
    <2>2. x.ok => x.ctx \in Cursor /\ Len(x.ctx.r) < Len(s.map.r) /\ x.val \in ListEntry
        BY <1>1, ReadSubobjectCursor DEF ListEntry
    <2>3. TurnOfList(name, s) = ListTurn(s, SUIT_COMPONENT_MAX, x) /\ ListMax(name) = SUIT_COMPONENT_MAX
        BY <1>3 DEF TurnOfList, ListMax
    <2> HIDE DEF x
    <2>4. s \in ListStates(SUIT_COMPONENT_MAX)
        BY <2>3
    <2>5. /\ ListTurn(s, SUIT_COMPONENT_MAX, x) \in ListStates(SUIT_COMPONENT_MAX)
          /\ ListTurn(s, SUIT_COMPONENT_MAX, x).ok =>
                Len(ListTurn(s, SUIT_COMPONENT_MAX, x).map.r) < Len(s.map.r)
        BY <1>1, <2>1, <2>2, <2>4, ListTurnKeeps
    <2> QED
        BY <2>3, <2>5
<1> QED
    BY <1>2, <1>3

\* A list of dependencies or components that was read fits.
LEMMA ReadListCursor ==
    ASSUME NEW ctx \in Cursor, NEW name, ReadList(ctx, name).ok
    PROVE  /\ ReadList(ctx, name).ctx \in Cursor
           /\ ReadList(ctx, name).val \in ListsOf(ListMax(name))
           /\ Len(ReadList(ctx, name).ctx.r) < Len(ctx.r)
<1> DEFINE array == ReadArray(ctx)
           s == [ok |-> TRUE, map |-> array.val, list |-> <<>>]
           all == ListLoop(s, name)
           max == ListMax(name)
           T == {x \in ListStates(max) : Len(x.map.r) < Len(ctx.r)}
<1>1. ReadList(ctx, name) = CloseList(array, all)
    BY Zenon DEF ReadList, ListLoop, Loop, TurnOfList
<1>2. /\ array.ok /\ all.ok
      /\ ReadList(ctx, name) = Done(Close(array.ctx, all.map).ctx, all.list)
    <2> HIDE DEF array, all
    <2> QED
        BY <1>1 DEF CloseList, Failed
<1>3. /\ ReadList(ctx, name).ctx = Close(array.ctx, all.map).ctx
      /\ ReadList(ctx, name).val = all.list
    <2> HIDE DEF array, all
    <2> QED
        BY <1>2 DEF Done
<1>4. /\ array.ctx \in Cursor /\ array.val \in Cursor /\ array.val.r = Tail(ctx.r)
      /\ Len(Tail(ctx.r)) = Len(ctx.r) - 1
    BY <1>2, ReadArrayCursor
<1> HIDE DEF array
<1>5. s \in T /\ s.map.r \in Seq(CborHead)
    <2>1. Len(ctx.r) \in Nat /\ array.val.r \in Seq(CborHead) /\ max \in Nat
        BY <1>4, CursorFields, SuitParserAssumption DEF ListMax
    <2>2. <<>> \in ListsOf(max)
        BY <2>1 DEF ListsOf
    <2>3. s \in ListStates(max) /\ s.map = array.val
        BY <1>4, <2>2 DEF ListStates
    <2>4. Len(s.map.r) < Len(ctx.r)
        <3>1. s.map.r = Tail(ctx.r)
            BY <1>4
        <3>2. Len(ctx.r) - 1 < Len(ctx.r)
            BY <2>1
        <3> QED
            BY <1>4, <3>1, <3>2
    <2> QED
        BY <2>1, <2>3, <2>4
<1> HIDE DEF s, max
<1>6. PICK f : /\ Turns(f, Len(s.map.r) + 1, "list", name, 0, s)
               /\ all = f[Len(s.map.r) + 1]
    <2>1. Len(s.map.r) \in Nat
        BY <1>5
    <2> QED
        BY <2>1, ListLoopTurns
<1> HIDE DEF all
<1>7. \A x \in T : x.map.r \in Seq(CborHead) /\ x.map \in Cursor
    BY CursorFields DEF ListStates
<1>8. ASSUME NEW x \in T, x.ok, ~AtEnd(x.map)
      PROVE  /\ Turn("list", name, 0, x) \in T
             /\ Turn("list", name, 0, x).ok => Len(Turn("list", name, 0, x).map.r) < Len(x.map.r)
    <2>1. Turn("list", name, 0, x) = TurnOfList(name, x)
        BY <1>8 DEF Turn
    <2>2. /\ TurnOfList(name, x) \in ListStates(max)
          /\ TurnOfList(name, x).ok => Len(TurnOfList(name, x).map.r) < Len(x.map.r)
        BY TurnOfListKeeps DEF max
    <2>3. ~TurnOfList(name, x).ok => TurnOfList(name, x).map = x.map
        <3>1. \A m, z : ~ListTurn(x, m, z).ok => ListTurn(x, m, z).map = x.map
            BY <1>8 DEF ListTurn, ListStates
        <3> QED
            BY <3>1 DEF TurnOfList
    <2>4. Len(TurnOfList(name, x).map.r) \in Nat /\ Len(x.map.r) \in Nat /\ Len(ctx.r) \in Nat
        BY <1>7, <2>2, CursorFields DEF ListStates
    <2>5. Len(TurnOfList(name, x).map.r) < Len(ctx.r)
        <3>1. Len(x.map.r) < Len(ctx.r)
            OBVIOUS
        <3> QED
            BY <2>2, <2>3, <2>4, <3>1
    <2> QED
        BY <2>1, <2>2, <2>5
<1> HIDE DEF T
<1>9. all \in T /\ AtEnd(all.map)
    BY <1>2, <1>5, <1>6, <1>7, <1>8, LoopEnds
<1>10. all.map \in Cursor /\ all.list \in ListsOf(max) /\ Len(all.map.r) < Len(ctx.r)
    BY <1>9 DEF T, ListStates
<1>11. Close(array.ctx, all.map).ctx \in Cursor /\ Close(array.ctx, all.map).ctx.r = all.map.r
    BY <1>4, <1>9, <1>10, CloseCursor
<1> QED
    BY <1>3, <1>10, <1>11 DEF max

\* Structures with some of the fields of a type.
FieldsOver(types) ==
    {f \in UNION {[D -> UNION {types[n] : n \in DOMAIN types}] : D \in SUBSET DOMAIN types} :
        \A n \in DOMAIN f : f[n] \in types[n]}

LEMMA FieldsEmpty == \A types : Empty \in FieldsOver(types) /\ DOMAIN Empty = {}
<1> TAKE types
<1> DEFINE V == UNION {types[n] : n \in DOMAIN types}
<1>1. Empty \in [{} -> V] /\ DOMAIN Empty = {} /\ {} \in SUBSET DOMAIN types
    BY DEF Empty
<1>2. Empty \in UNION {[D -> V] : D \in SUBSET DOMAIN types}
    <2> HIDE DEF V
    <2> QED
        BY <1>1
<1> QED
    BY <1>1, <1>2 DEF FieldsOver

LEMMA FieldAdded ==
    \A types : \A f \in FieldsOver(types) : \A n \in DOMAIN types : \A v \in types[n] :
        /\ WithField(f, n, v) \in FieldsOver(types)
        /\ DOMAIN WithField(f, n, v) = DOMAIN f \cup {n}
<1> SUFFICES ASSUME NEW types, NEW f \in FieldsOver(types), NEW n \in DOMAIN types, NEW v \in types[n]
             PROVE  /\ WithField(f, n, v) \in FieldsOver(types)
                    /\ DOMAIN WithField(f, n, v) = DOMAIN f \cup {n}
    OBVIOUS
<1> DEFINE g == WithField(f, n, v)
           V == UNION {types[x] : x \in DOMAIN types}
           D == DOMAIN f \cup {n}
<1>1. /\ DOMAIN g = D /\ g[n] = v
      /\ \A x \in DOMAIN f : x # n => g[x] = f[x]
      /\ g = [x \in D |-> g[x]]
    BY DEF WithField
<1>2. PICK E \in SUBSET DOMAIN types : f \in [E -> V]
    BY DEF FieldsOver
<1>3. \A x \in DOMAIN f : f[x] \in types[x]
    BY DEF FieldsOver
<1>4. D \in SUBSET DOMAIN types
    BY <1>2
<1> HIDE DEF g
<1>5. \A x \in D : g[x] \in types[x]
    BY <1>1, <1>3
<1>6. \A x \in D : g[x] \in V
    BY <1>4, <1>5
<1>7. g \in [D -> V]
    <2> HIDE DEF V, D
    <2> QED
        BY <1>1, <1>6
<1>8. g \in UNION {[C -> V] : C \in SUBSET DOMAIN types}
    <2> HIDE DEF V, D
    <2> QED
        BY <1>4, <1>7
<1>9. g \in FieldsOver(types)
    BY <1>1, <1>5, <1>8 DEF FieldsOver
<1> QED
    BY <1>1, <1>9 DEF g

CommonTypes ==
    [n \in {"dependencies", "components", "command_sequence"} |->
        IF n = "command_sequence" THEN ByteRange ELSE ListsOf(ListMax(n))]

Kept(s, m, f) == [s EXCEPT !.map = m, !.fields = f]

\* A turn over the entries of a map that keeps a field.
LEMMA KeepFieldKeeps ==
    ASSUME NEW types, NEW s \in [ok : BOOLEAN, map : Cursor, fields : FieldsOver(types)],
           NEW v, v.ok \in BOOLEAN, NEW n \in DOMAIN types,
           v.ok => v.ctx \in Cursor /\ v.val \in types[n] /\ Len(v.ctx.r) < Len(s.map.r)
    PROVE  /\ KeepField(s, v, n) \in [ok : BOOLEAN, map : Cursor, fields : FieldsOver(types)]
           /\ KeepField(s, v, n).ok => Len(KeepField(s, v, n).map.r) < Len(s.map.r)
           /\ DOMAIN s.fields \subseteq DOMAIN KeepField(s, v, n).fields
<1> DEFINE F == FieldsOver(types)
<1>1. s.map \in Cursor /\ s.fields \in F /\ s.ok \in BOOLEAN
    OBVIOUS
<1>2. CASE ~v.ok
    <2>1. KeepField(s, v, n) = [s EXCEPT !.ok = FALSE]
        BY <1>2 DEF KeepField
    <2> HIDE DEF F
    <2>2. KeepField(s, v, n) \in [ok : BOOLEAN, map : Cursor, fields : F] /\ KeepField(s, v, n).ok = FALSE
          /\ KeepField(s, v, n).fields = s.fields
        BY <2>1 DEF F
    <2> QED
        BY <2>2 DEF F
<1>3. CASE v.ok
    <2> DEFINE f == WithField(s.fields, n, v.val)
               m == v.ctx
               w == v.val
    <2>1. KeepField(s, v, n) = Kept(s, m, f)
        BY <1>3 DEF KeepField, Kept
    <2>2. f \in F /\ DOMAIN s.fields \subseteq DOMAIN f
        <3>1. w \in types[n] /\ s.fields \in FieldsOver(types)
            BY <1>3
        <3> HIDE DEF w
        <3> DEFINE h == s.fields
        <3> HIDE DEF h
        <3>3. h \in FieldsOver(types)
            BY <3>1 DEF h
        <3>2. WithField(h, n, w) \in FieldsOver(types) /\ DOMAIN WithField(h, n, w) = DOMAIN h \cup {n}
            <4> HIDE DEF F, f
            <4>1. \A y \in DOMAIN types : \A z \in types[y] :
                     /\ WithField(h, y, z) \in FieldsOver(types)
                     /\ DOMAIN WithField(h, y, z) = DOMAIN h \cup {y}
                BY <3>3, FieldAdded, ZenonT(40)
            <4>2. w \in types[n]
                BY <3>1
            <4> QED
                BY <4>1, <4>2
        <3> QED
            BY <3>2 DEF w, h
    <2>3. m \in Cursor /\ Len(m.r) < Len(s.map.r)
        BY <1>3
    <2> HIDE DEF f, m, F
    <2>4. Kept(s, m, f) \in [ok : BOOLEAN, map : Cursor, fields : F] /\ Kept(s, m, f).map = m
          /\ Kept(s, m, f).fields = f
        BY <2>2, <2>3 DEF Kept, F
    <2> QED
        BY <2>1, <2>2, <2>3, <2>4 DEF F
<1> QED
    BY <1>2, <1>3

\* What the loops over the entries of a map of fields keep.
FieldStates(types) == [ok : BOOLEAN, map : Cursor, fields : FieldsOver(types)]

LEMMA StoppedFields ==
    ASSUME NEW types, NEW s \in FieldStates(types)
    PROVE  Stopped(s) \in FieldStates(types) /\ Stopped(s).ok = FALSE
<1> DEFINE F == FieldsOver(types)
<1>1. s \in [ok : BOOLEAN, map : Cursor, fields : F]
    BY DEF FieldStates
<1> HIDE DEF F
<1>2. Stopped(s) \in [ok : BOOLEAN, map : Cursor, fields : F] /\ Stopped(s).ok = FALSE
    BY <1>1 DEF Stopped
<1> QED
    BY <1>2 DEF F, FieldStates

LEMMA CommonTurnKeeps ==
    ASSUME NEW s \in FieldStates(CommonTypes)
    PROVE  /\ CommonTurn(s) \in FieldStates(CommonTypes)
           /\ CommonTurn(s).ok => Len(CommonTurn(s).map.r) < Len(s.map.r)
<1> DEFINE k == ReadAny(s.map)
           name == CASE k.val.val = 1 -> "dependencies" [] k.val.val = 2 -> "components"
                     [] k.val.val = 4 -> "command_sequence" [] OTHER -> "none"
           v == IF name \in {"dependencies", "components"} THEN ReadList(k.ctx, name)
                ELSE ReadBstr(k.ctx)
<1>1. s.map \in Cursor /\ Len(s.map.r) \in Nat
    <2>1. s.map \in Cursor
        BY DEF FieldStates
    <2> QED
        BY <2>1, CursorFields
<1>2. k.ok => k.ctx \in Cursor /\ k.ctx.r = Tail(s.map.r) /\ Len(Tail(s.map.r)) = Len(s.map.r) - 1
    BY <1>1, ReadAnyCursor
<1>3. name \in {"dependencies", "components", "command_sequence", "none"}
    OBVIOUS
<1>4. \/ CommonTurn(s) = Stopped(s)
      \/ k.ok /\ name # "none" /\ CommonTurn(s) = KeepField(s, v, name)
    BY DEF CommonTurn, Stopped
<1>5. v.ok \in BOOLEAN
    BY DEF ReadList, CloseList, ReadBstr, Done, Failed
<1>6. ASSUME k.ok, name # "none", v.ok
      PROVE  v.ctx \in Cursor /\ Len(v.ctx.r) < Len(s.map.r) /\ v.val \in CommonTypes[name]
    <2>1. k.ctx \in Cursor /\ Len(k.ctx.r) = Len(s.map.r) - 1
        BY <1>2, <1>6
    <2>2. CASE name \in {"dependencies", "components"}
        <3>1. v = ReadList(k.ctx, name) /\ name \in DOMAIN CommonTypes
            BY <2>2 DEF CommonTypes
        <3> HIDE DEF k, name, v
        <3>2. v.ctx \in Cursor /\ v.val \in ListsOf(ListMax(name)) /\ Len(v.ctx.r) < Len(k.ctx.r)
            BY <1>6, <2>1, <3>1, ReadListCursor
        <3>3. Len(v.ctx.r) \in Nat
            BY <3>2, CursorFields
        <3> QED
            BY <1>1, <2>1, <2>2, <3>2, <3>3 DEF CommonTypes
    <2>3. CASE name = "command_sequence"
        <3>1. v = ReadBstr(k.ctx)
            BY <2>3
        <3> HIDE DEF k, name, v
        <3>2. /\ v.ctx \in Cursor /\ v.ctx.r = Tail(k.ctx.r) /\ Len(Tail(k.ctx.r)) = Len(k.ctx.r) - 1
              /\ \E b \in Seq(CborHead) : v.val = Bytes(b)
            BY <1>6, <2>1, <3>1, ReadBstrCursor
        <3>3. v.val \in ByteRange
            BY <3>2 DEF ByteRange
        <3> QED
            BY <1>1, <2>1, <2>3, <3>2, <3>3 DEF CommonTypes
    <2> QED
        BY <1>3, <1>6, <2>2, <2>3
<1>7. CASE CommonTurn(s) = Stopped(s)
    BY <1>7, StoppedFields
<1>8. CASE k.ok /\ name # "none" /\ CommonTurn(s) = KeepField(s, v, name)
    <2>1. name \in DOMAIN CommonTypes
        BY <1>3, <1>8 DEF CommonTypes
    <2>2. v.ok => v.ctx \in Cursor /\ v.val \in CommonTypes[name] /\ Len(v.ctx.r) < Len(s.map.r)
        BY <1>6, <1>8
    <2> HIDE DEF v, name, k
    <2>3. s \in [ok : BOOLEAN, map : Cursor, fields : FieldsOver(CommonTypes)]
        BY DEF FieldStates
    <2>4. /\ KeepField(s, v, name) \in [ok : BOOLEAN, map : Cursor, fields : FieldsOver(CommonTypes)]
          /\ KeepField(s, v, name).ok => Len(KeepField(s, v, name).map.r) < Len(s.map.r)
        BY <1>5, <2>1, <2>2, <2>3, KeepFieldKeeps
    <2> QED
        BY <1>8, <2>4 DEF FieldStates
<1> QED
    BY <1>4, <1>7, <1>8

LEMMA ParseCommonTyped ==
    ASSUME NEW range \in ByteRange, ParseCommon(range).ok
    PROVE  ParseCommon(range).fields \in FieldsOver(CommonTypes)
<1> DEFINE map == ReadMap(TopLevel(range))
           s == [ok |-> TRUE, map |-> map.val, fields |-> Empty]
           T == FieldStates(CommonTypes)
<1>1. TopLevel(range) \in Cursor
    <2>1. Heads(range) \in Seq(CborHead)
        BY DEF ByteRange, Heads, Bytes, NullRange
    <2> QED
        BY <2>1, TopLevelCursor
<1>2. map.ok /\ ParseCommon(range) = Loop(s, CommonTurn)
    BY DEF ParseCommon, Failed
<1>3. map.val \in Cursor
    BY <1>1, <1>2, ReadMapCursor
<1>4. s \in T /\ s.map = map.val /\ Len(s.map.r) \in Nat
    <2>1. Empty \in FieldsOver(CommonTypes)
        BY FieldsEmpty
    <2> HIDE DEF map
    <2>2. s \in T /\ s.map = map.val
        BY <1>3, <2>1 DEF FieldStates
    <2> QED
        BY <1>3, <2>2, CursorFields
<1> HIDE DEF s
<1>5. PICK f : Turns(f, Len(s.map.r) + 1, "common", 0, 0, s) /\ Loop(s, CommonTurn) = f[Len(s.map.r) + 1]
    BY <1>4, CommonLoopTurns
<1>6. \A x \in T : x.map.r \in Seq(CborHead)
    BY CursorFields DEF FieldStates
<1>7. \A x \in T : x.ok /\ ~AtEnd(x.map) =>
         /\ Turn("common", 0, 0, x) \in T
         /\ Turn("common", 0, 0, x).ok => Len(Turn("common", 0, 0, x).map.r) < Len(x.map.r)
    BY CommonTurnKeeps DEF Turn
<1> HIDE DEF T
<1>8. f[Len(s.map.r) + 1] \in T
    BY <1>4, <1>5, <1>6, <1>7, LoopEnds
<1> QED
    BY <1>2, <1>5, <1>8 DEF T, FieldStates

\* The fields of a manifest.
PlainName == {"reference_uri", "validate", "load", "run"}
SeverableName == {"dependency_resolution", "payload_fetch", "install", "text", "coswid"}
ManifestTypes ==
    [n \in {"sequence_number", "common"} \cup PlainName \cup SeverableName |->
        IF n = "sequence_number" THEN Count
        ELSE IF n = "common" THEN FieldsOver(CommonTypes)
        ELSE IF n \in PlainName THEN ByteRange
        ELSE Severed]

LEMMA ReadCommonCursor ==
    ASSUME NEW ctx \in Cursor, ReadCommon(ctx).ok
    PROVE  /\ ReadCommon(ctx).ctx \in Cursor /\ Len(ReadCommon(ctx).ctx.r) < Len(ctx.r)
           /\ ReadCommon(ctx).val \in FieldsOver(CommonTypes)
<1> DEFINE v == ReadBstr(ctx)
<1>1. v.ok /\ ParseCommon(v.val).ok /\ ReadCommon(ctx) = Done(v.ctx, ParseCommon(v.val).fields)
    BY DEF ReadCommon, Failed
<1>2. /\ v.ctx \in Cursor /\ v.ctx.r = Tail(ctx.r) /\ Len(Tail(ctx.r)) = Len(ctx.r) - 1
      /\ \E b \in Seq(CborHead) : v.val = Bytes(b)
    BY <1>1, ReadBstrCursor
<1>3. v.val \in ByteRange
    BY <1>2 DEF ByteRange
<1> HIDE DEF v
<1>4. ParseCommon(v.val).fields \in FieldsOver(CommonTypes)
    BY <1>1, <1>3, ParseCommonTyped
<1>5. Len(ctx.r) \in Nat
    BY CursorFields
<1>6. ReadCommon(ctx).ctx = v.ctx /\ ReadCommon(ctx).val = ParseCommon(v.val).fields
    BY <1>1 DEF Done
<1>7. Len(v.ctx.r) = Len(ctx.r) - 1
    BY <1>2
<1>8. Len(v.ctx.r) < Len(ctx.r)
    BY <1>5, <1>7
<1> QED
    BY <1>2, <1>4, <1>6, <1>8

LEMMA KeyNames ==
    /\ \A key \in DOMAIN PlainKey : PlainKey[key] \in PlainName
    /\ \A key \in DOMAIN SeverableKey : SeverableKey[key] \in SeverableName
    BY DEF PlainKey, SeverableKey, PlainName, SeverableName

LEMMA ManifestTypesOf ==
    /\ "common" \in DOMAIN ManifestTypes /\ ManifestTypes["common"] = FieldsOver(CommonTypes)
    /\ "sequence_number" \in DOMAIN ManifestTypes /\ ManifestTypes["sequence_number"] = Count
    /\ \A n \in PlainName : n \in DOMAIN ManifestTypes /\ ManifestTypes[n] = ByteRange
    /\ \A n \in SeverableName : n \in DOMAIN ManifestTypes /\ ManifestTypes[n] = Severed
    BY DEF ManifestTypes, PlainName, SeverableName

LEMMA ManifestTurnKeeps ==
    ASSUME NEW s \in FieldStates(ManifestTypes)
    PROVE  /\ ManifestTurn(s) \in FieldStates(ManifestTypes)
           /\ ManifestTurn(s).ok => Len(ManifestTurn(s).map.r) < Len(s.map.r)
<1> DEFINE k == ReadAny(s.map)
           key == k.val.val
           c == ReadCommon(k.ctx)
           b == ReadBstr(k.ctx)
           d == ReadSevered(k.ctx)
           v == Skip(k.ctx, 1)
           S == [ok : BOOLEAN, map : Cursor, fields : FieldsOver(ManifestTypes)]
           Good(t) == t \in S /\ (t.ok => Len(t.map.r) < Len(s.map.r))
<1>1. s.map \in Cursor /\ Len(s.map.r) \in Nat /\ s \in S
    <2>1. s.map \in Cursor /\ s \in S
        BY DEF FieldStates
    <2> QED
        BY <2>1, CursorFields
<1>2. k.ok => k.ctx \in Cursor /\ Len(k.ctx.r) \in Nat /\ Len(k.ctx.r) < Len(s.map.r)
    <2>1. k.ok => k.ctx \in Cursor /\ k.ctx.r = Tail(s.map.r) /\ Len(Tail(s.map.r)) = Len(s.map.r) - 1
        BY <1>1, ReadAnyCursor
    <2> HIDE DEF k
    <2>2. k.ok => Len(k.ctx.r) = Len(s.map.r) - 1
        BY <2>1
    <2>3. k.ok => Len(k.ctx.r) \in Nat
        BY <2>1, CursorFields
    <2> QED
        BY <1>1, <2>1, <2>2, <2>3
<1>3. \/ ManifestTurn(s) = Stopped(s)
      \/ k.ok /\ ManifestTurn(s) = KeepField(s, c, "common")
      \/ k.ok /\ key \in DOMAIN PlainKey /\ ManifestTurn(s) = KeepField(s, b, PlainKey[key])
      \/ k.ok /\ key \in DOMAIN SeverableKey /\ ManifestTurn(s) = KeepField(s, d, SeverableKey[key])
      \/ k.ok /\ v.ok /\ ManifestTurn(s) = [s EXCEPT !.map = v.ctx]
    BY DEF ManifestTurn, Stopped
<1>4. c.ok \in BOOLEAN /\ b.ok \in BOOLEAN /\ d.ok \in BOOLEAN
    BY DEF ReadCommon, ReadBstr, ReadSevered, Done, Failed
<1>5. CASE ManifestTurn(s) = Stopped(s)
    BY <1>5, StoppedFields
<1>6. ASSUME NEW n \in DOMAIN ManifestTypes, NEW x, x.ok \in BOOLEAN,
             x.ok => x.ctx \in Cursor /\ x.val \in ManifestTypes[n] /\ Len(x.ctx.r) < Len(s.map.r)
      PROVE  Good(KeepField(s, x, n))
    BY <1>1, <1>6, KeepFieldKeeps
<1>7. CASE k.ok /\ ManifestTurn(s) = KeepField(s, c, "common")
    <2>1. c.ok => c.ctx \in Cursor /\ c.val \in FieldsOver(CommonTypes) /\ Len(c.ctx.r) < Len(k.ctx.r)
        BY <1>2, <1>7, ReadCommonCursor
    <2>2. c.ok => c.ctx \in Cursor /\ c.val \in ManifestTypes["common"] /\ Len(c.ctx.r) < Len(s.map.r)
        <3> HIDE DEF c, k
        <3> QED
            BY <1>1, <1>2, <1>7, <2>1, CursorFields, ManifestTypesOf
    <2> HIDE DEF c, k, Good
    <2>3. Good(KeepField(s, c, "common"))
        BY <1>4, <1>6, <2>2, ManifestTypesOf
    <2> QED
        BY <1>7, <2>3 DEF Good, FieldStates
<1>8. CASE k.ok /\ key \in DOMAIN PlainKey /\ ManifestTurn(s) = KeepField(s, b, PlainKey[key])
    <2> DEFINE n == PlainKey[key]
    <2>1. n \in PlainName
        BY <1>8, KeyNames
    <2>2. b.ok => /\ b.ctx \in Cursor /\ b.ctx.r = Tail(k.ctx.r)
                  /\ Len(Tail(k.ctx.r)) = Len(k.ctx.r) - 1
                  /\ \E h \in Seq(CborHead) : b.val = Bytes(h)
        BY <1>2, <1>8, ReadBstrCursor
    <2>3. b.ok => b.val \in ByteRange
        BY <2>2 DEF ByteRange
    <2> HIDE DEF b, k, n, Good
    <2>6. b.ok => Len(b.ctx.r) = Len(k.ctx.r) - 1
        BY <2>2
    <2>7. b.ok => Len(b.ctx.r) < Len(s.map.r)
        BY <1>1, <1>2, <1>8, <2>6
    <2>4. b.ok => b.ctx \in Cursor /\ b.val \in ManifestTypes[n] /\ Len(b.ctx.r) < Len(s.map.r)
        BY <2>1, <2>2, <2>3, <2>7, ManifestTypesOf
    <2>5. Good(KeepField(s, b, n))
        BY <1>4, <1>6, <2>1, <2>4, ManifestTypesOf
    <2> QED
        BY <1>8, <2>5 DEF Good, FieldStates, n
<1>9. CASE k.ok /\ key \in DOMAIN SeverableKey /\ ManifestTurn(s) = KeepField(s, d, SeverableKey[key])
    <2> DEFINE n == SeverableKey[key]
    <2>1. n \in SeverableName
        BY <1>9, KeyNames
    <2>2. d.ok => d.ctx \in Cursor /\ Len(d.ctx.r) < Len(k.ctx.r) /\ d.val \in Severed
        BY <1>2, <1>9, ReadSeveredCursor
    <2> HIDE DEF d, k, n, Good
    <2>3. d.ok => d.ctx \in Cursor /\ d.val \in ManifestTypes[n] /\ Len(d.ctx.r) < Len(s.map.r)
        BY <1>1, <1>2, <1>9, <2>1, <2>2, CursorFields, ManifestTypesOf
    <2>4. Good(KeepField(s, d, n))
        BY <1>4, <1>6, <2>1, <2>3, ManifestTypesOf
    <2> QED
        BY <1>9, <2>4 DEF Good, FieldStates, n
<1>10. CASE k.ok /\ v.ok /\ ManifestTurn(s) = [s EXCEPT !.map = v.ctx]
    <2> DEFINE m == v.ctx
               F == FieldsOver(ManifestTypes)
               t == [s EXCEPT !.map = m]
    <2>1. m \in Cursor /\ m.r = AfterItem(k.ctx.r) /\ Len(AfterItem(k.ctx.r)) < Len(k.ctx.r)
        BY <1>2, <1>10, SkipOneCursor
    <2>2. Len(m.r) \in Nat
        BY <2>1, CursorFields
    <2>3. Len(m.r) < Len(s.map.r)
        <3> HIDE DEF m, k
        <3> QED
            BY <1>1, <1>2, <1>10, <2>1, <2>2
    <2>4. s \in [ok : BOOLEAN, map : Cursor, fields : F]
        BY <1>1
    <2> HIDE DEF m, F, S
    <2>5. t \in [ok : BOOLEAN, map : Cursor, fields : F] /\ t.map = m
        BY <2>1, <2>4
    <2>6. ManifestTurn(s) = t
        BY <1>10 DEF m
    <2> QED
        BY <2>3, <2>5, <2>6 DEF F, FieldStates
<1> QED
    <2> HIDE DEF k, key, c, b, d, v
    <2> QED
        BY <1>3, <1>5, <1>7, <1>8, <1>9, <1>10

LEMMA ReadKeyAndUintCursor ==
    ASSUME NEW ctx \in Cursor, NEW key, ReadKeyAndUint(ctx, key).ok
    PROVE  ReadKeyAndUint(ctx, key).ctx \in Cursor /\ ReadKeyAndUint(ctx, key).val \in Count
<1> DEFINE k == ReadUint(ctx)
<1>1. k.ok /\ ReadKeyAndUint(ctx, key) = ReadUint(k.ctx)
    BY DEF ReadKeyAndUint, Failed
<1>2. k.ctx \in Cursor
    BY <1>1, ReadUintCursor
<1> QED
    BY <1>1, <1>2, ReadUintCursor

\* What is parsed from bytes is a manifest, with a common section.
LEMMA ParseManifestTyped ==
    ASSUME NEW range \in ByteRange, ParseManifest(range).ok
    PROVE  /\ ParseManifest(range).val \in FieldsOver(ManifestTypes)
           /\ "common" \in DOMAIN ParseManifest(range).val
<1> DEFINE map == ReadMap(TopLevel(range))
           version == ReadKeyAndUint(map.val, 1)
           number == ReadKeyAndUint(version.ctx, 2)
           f0 == [sequence_number |-> number.val]
           s == [ok |-> TRUE, map |-> number.ctx, fields |-> f0]
           T == FieldStates(ManifestTypes)
           all == Loop(s, ManifestTurn)
<1>1. TopLevel(range) \in Cursor
    <2>1. Heads(range) \in Seq(CborHead)
        BY DEF ByteRange, Heads, Bytes, NullRange
    <2> QED
        BY <2>1, TopLevelCursor
<1>2. map.ok /\ version.ok /\ number.ok /\ ParseManifest(range) = FinishManifest(all)
    BY DEF ParseManifest, Failed
<1>3. map.val \in Cursor
    BY <1>1, <1>2, ReadMapCursor
<1>4. version.ctx \in Cursor
    <2> HIDE DEF map
    <2> QED
        BY <1>2, <1>3, ReadKeyAndUintCursor
<1>5. number.ctx \in Cursor /\ number.val \in Count
    <2> HIDE DEF version
    <2> QED
        BY <1>2, <1>4, ReadKeyAndUintCursor
<1>6. f0 \in FieldsOver(ManifestTypes)
    <2> HIDE DEF number
    <2> DEFINE g == WithField(Empty, "sequence_number", number.val)
    <2>1. g \in FieldsOver(ManifestTypes)
        BY <1>5, FieldsEmpty, FieldAdded, ManifestTypesOf
    <2>2. g = f0
        BY DEF WithField, Empty
    <2> QED
        BY <2>1, <2>2
<1>7. s \in T /\ s.map = number.ctx /\ Len(s.map.r) \in Nat
    <2> HIDE DEF number, f0
    <2>1. s \in T /\ s.map = number.ctx
        BY <1>5, <1>6 DEF FieldStates
    <2> QED
        BY <1>5, <2>1, CursorFields
<1> HIDE DEF s
<1>8. PICK f : Turns(f, Len(s.map.r) + 1, "manifest", 0, 0, s) /\ all = f[Len(s.map.r) + 1]
    BY <1>7, ManifestLoopTurns
<1>9. \A x \in T : x.map.r \in Seq(CborHead)
    BY CursorFields DEF FieldStates
<1>10. \A x \in T : x.ok /\ ~AtEnd(x.map) =>
         /\ Turn("manifest", 0, 0, x) \in T
         /\ Turn("manifest", 0, 0, x).ok => Len(Turn("manifest", 0, 0, x).map.r) < Len(x.map.r)
    BY ManifestTurnKeeps DEF Turn
<1> HIDE DEF T
<1>11. f[Len(s.map.r) + 1] \in T
    BY <1>7, <1>8, <1>9, <1>10, LoopEnds
<1>12. all \in T
    BY <1>8, <1>11
<1>13. all.fields \in FieldsOver(ManifestTypes)
    BY <1>12 DEF T, FieldStates
<1> HIDE DEF all
<1>14. FinishManifest(all).ok
    BY <1>2
<1>15. ParseManifest(range).val = all.fields /\ "common" \in DOMAIN all.fields
    BY <1>2, <1>14 DEF FinishManifest, Done, Failed
<1> QED
    BY <1>13, <1>15

----------------------------------------------------------------------------
(* Command sequences                                                       *)

\* What is left of a sequence after each of its pairs.
PairsIn(s) == PairsOf(Tail(Heads(s)), Heads(s)[1].val)
Opened(s) == s \in ByteRange /\ Heads(s) # <<>> /\ IsArray(Heads(s)[1])

\* A reader stands after as many pairs of the sequence as it has read commands, or,
\* with open = 1, after the command of the last of these pairs.
Place(s, rd, open) ==
    LET at == PairsIn(s)
        k == Len(rd.val)
    IN  /\ Opened(s)
        /\ rd.ctx \in Cursor /\ rd.ctx.count = Heads(s)[1].val
        /\ rd.val \in Seq(Count)
        /\ rd.ctx.index = 2 * k - open
        /\ rd.ctx.r = IF open = 1 THEN Tail(at[k - 1]) ELSE at[k]
        /\ \A j \in 1 .. k :
              /\ at[j - 1] # <<>> /\ IsUint(at[j - 1][1])
              /\ at[j - 1][1].val <= INT_MAX /\ rd.val[j] = at[j - 1][1].val
        /\ \A j \in 1 .. (k - open) : IsPair(at[j - 1])

LEMMA OpenedPairs ==
    ASSUME NEW s, Opened(s)
    PROVE  /\ Heads(s) \in Seq(CborHead) /\ Tail(Heads(s)) \in Seq(CborHead)
           /\ Heads(s)[1].val \in Count /\ Heads(s)[1].val \in Nat
           /\ PairsIn(s) \in [0 .. Heads(s)[1].val -> Seq(CborHead)]
           /\ PairsIn(s)[0] = Tail(Heads(s))
           /\ \A k \in 0 .. (Heads(s)[1].val - 1) : PairsIn(s)[k + 1] = AfterPair(PairsIn(s)[k])
<1>1. Heads(s) \in Seq(CborHead)
    BY DEF Opened, ByteRange, Heads, Bytes, NullRange
<1>2. Heads(s) # <<>>
    BY DEF Opened
<1>3. Tail(Heads(s)) \in Seq(CborHead) /\ 1 \in 1 .. Len(Heads(s))
    BY <1>1, <1>2
<1>4. Heads(s)[1].val \in Count /\ Heads(s)[1].val \in Nat
    BY <1>1, <1>3, HeadType, TeeCborAssumption DEF Count
<1> QED
    BY <1>1, <1>3, <1>4, PairsOfPlaces DEF PairsIn

LEMMA NoCommands ==
    ASSUME NEW s, Opened(s),
           \/ Heads(s)[1].val % 2 = 1
           \/ \E k \in 1 .. (Heads(s)[1].val \div 2) : ~IsCommandPair(PairsIn(s)[k - 1])
    PROVE  CommandsOf(s) = <<>>
    BY DEF CommandsOf, PairsIn

LEMMA OpenPlace ==
    ASSUME NEW s \in ByteRange
    PROVE  /\ ReadArray(TopLevel(s)).ok => Place(s, Done(ReadArray(TopLevel(s)).val, <<>>), 0)
           /\ ~ReadArray(TopLevel(s)).ok => CommandsOf(s) = <<>>
<1> DEFINE a == ReadArray(TopLevel(s))
           t == TopLevel(s)
<1>1. Heads(s) \in Seq(CborHead)
    BY DEF ByteRange, Heads, Bytes, NullRange
<1>2. t \in Cursor /\ t.r = Heads(s) /\ t.index = 0 /\ t.count = 1
    BY <1>1, TopLevelCursor
<1> HIDE DEF t
<1>3. a.ok = (t.index # t.count /\ t.r # <<>> /\ IsArray(t.r[1]))
    BY <1>2, ReadArrayCursor DEF t
<1>4. ASSUME ~a.ok
      PROVE  CommandsOf(s) = <<>>
    <2>1. Heads(s) = <<>> \/ ~IsArray(Heads(s)[1])
        <3>1. SUFFICES ASSUME Heads(s) # <<>>, IsArray(Heads(s)[1]) PROVE FALSE
            OBVIOUS
        <3>2. t.index # t.count /\ t.r # <<>> /\ IsArray(t.r[1])
            BY <1>2, <3>1
        <3> HIDE DEF a
        <3> QED
            BY <1>3, <1>4, <3>2
    <2> QED
        BY <2>1 DEF CommandsOf
<1>5. ASSUME a.ok
      PROVE  Place(s, Done(a.val, <<>>), 0)
    <2> DEFINE rd == Done(a.val, <<>>)
    <2>1. Opened(s)
        BY <1>2, <1>3, <1>5 DEF Opened
    <2>2. /\ a.val \in Cursor /\ a.val.r = Tail(Heads(s)) /\ a.val.index = 0
          /\ a.val.count = Heads(s)[1].val
        BY <1>2, <1>5, ReadArrayCursor DEF t
    <2>3. PairsIn(s)[0] = Tail(Heads(s))
        BY <2>1, OpenedPairs
    <2>4. rd.ctx = a.val /\ rd.val = <<>> /\ Len(rd.val) = 0 /\ rd.val \in Seq(Count)
        BY DEF Done
    <2> HIDE DEF rd, a
    <2> DEFINE k == Len(rd.val)
               at == PairsIn(s)
    <2> HIDE DEF k, at
    <2>5. k = 0 /\ rd.ctx.index = 0 /\ rd.ctx.r = at[0]
        BY <2>2, <2>3, <2>4 DEF k, at
    <2>7. rd.ctx.index = 2 * k - 0 /\ rd.ctx.r = at[k] /\ 1 .. k = {} /\ 1 .. (k - 0) = {}
        BY <2>5
    <2>6. rd.ctx \in Cursor /\ rd.ctx.count = Heads(s)[1].val /\ rd.val \in Seq(Count)
        BY <2>2, <2>4
    <2>8. 0 # 1
        OBVIOUS
    <2>9. Place(s, rd, 0)
        BY <2>1, <2>6, <2>7, <2>8 DEF Place, k, at
    <2> QED
        BY <2>9 DEF rd
<1> QED
    BY <1>4, <1>5

LEMMA CommandPlace ==
    ASSUME NEW s, NEW rd, Place(s, rd, 0), ~AtEnd(rd.ctx)
    PROVE  LET c == ReadUint(rd.ctx)
           IN  IF c.ok /\ c.val <= INT_MAX
               THEN Place(s, Done(c.ctx, Append(rd.val, c.val)), 1)
               ELSE CommandsOf(s) = <<>>
<1> DEFINE c == ReadUint(rd.ctx)
           at == PairsIn(s)
           k == Len(rd.val)
           n == Heads(s)[1].val
<1>1. /\ Opened(s) /\ rd.ctx \in Cursor /\ rd.ctx.count = n /\ rd.val \in Seq(Count)
      /\ rd.ctx.index = 2 * k /\ rd.ctx.r = at[k]
    BY DEF Place
<1>2. k \in Nat /\ n \in Nat /\ 2 * k < n /\ at \in [0 .. n -> Seq(CborHead)] /\ k \in 0 .. n
    <2>1. k \in Nat /\ n \in Nat /\ at \in [0 .. n -> Seq(CborHead)]
        BY <1>1, OpenedPairs
    <2>2. rd.ctx.index <= rd.ctx.count /\ rd.ctx.index # rd.ctx.count
        BY <1>1, CursorFields DEF AtEnd
    <2> HIDE DEF k, n, at
    <2>3. 2 * k <= n /\ 2 * k # n
        BY <1>1, <2>2
    <2> QED
        BY <2>1, <2>3
<1>3. at[k] \in Seq(CborHead)
    BY <1>2
<1>4. c.ok = (rd.ctx.index # rd.ctx.count /\ rd.ctx.r # <<>> /\ IsUint(rd.ctx.r[1]))
    BY <1>1, ReadUintCursor
<1>5. c.ok => /\ c.val = at[k][1].val /\ c.val \in Count
              /\ c.ctx \in Cursor /\ c.ctx.r = Tail(at[k])
              /\ c.ctx.index = 2 * k + 1 /\ c.ctx.count = n
              /\ at[k] # <<>> /\ IsUint(at[k][1])
    <2>1. c.ok => /\ c.val = rd.ctx.r[1].val /\ c.val \in Count
                  /\ c.ctx \in Cursor /\ c.ctx.r = Tail(rd.ctx.r)
                  /\ c.ctx.index = rd.ctx.index + 1 /\ c.ctx.count = rd.ctx.count
        BY <1>1, ReadUintCursor
    <2> HIDE DEF c, at, k, n
    <2> QED
        BY <1>1, <1>4, <2>1
<1>6. ASSUME c.ok, c.val <= INT_MAX
      PROVE  Place(s, Done(c.ctx, Append(rd.val, c.val)), 1)
    <2> DEFINE v == Append(rd.val, c.val)
               d == Done(c.ctx, v)
    <2>1. d.ctx = c.ctx /\ d.val = v
        BY DEF Done
    <2> HIDE DEF c
    <2>2. v \in Seq(Count) /\ Len(v) = k + 1 /\ v[k + 1] = c.val /\ \A j \in 1 .. k : v[j] = rd.val[j]
        BY <1>1, <1>5, <1>6
    <2>3. Len(d.val) = k + 1 /\ k + 1 - 1 = k
        BY <1>2, <2>1, <2>2
    <2>4. \A j \in 1 .. k :
              /\ at[j - 1] # <<>> /\ IsUint(at[j - 1][1])
              /\ at[j - 1][1].val <= INT_MAX /\ rd.val[j] = at[j - 1][1].val
        BY DEF Place
    <2>5. \A j \in 1 .. k : IsPair(at[j - 1])
        <3>1. k - 0 = k
            BY <1>2
        <3> QED
            BY <3>1 DEF Place
    <2> HIDE DEF d, v, at, k, n
    <2>6. ASSUME NEW j \in 1 .. (k + 1)
          PROVE  /\ at[j - 1] # <<>> /\ IsUint(at[j - 1][1])
                 /\ at[j - 1][1].val <= INT_MAX /\ d.val[j] = at[j - 1][1].val
        <3>1. CASE j \in 1 .. k
            BY <2>1, <2>2, <2>4, <3>1
        <3>2. CASE j = k + 1
            BY <1>2, <1>5, <1>6, <2>1, <2>2, <2>3, <3>2
        <3> QED
            BY <1>2, <3>1, <3>2
    <2>7. d.ctx.index = 2 * (k + 1) - 1
        BY <1>2, <1>5, <1>6, <2>1
    <2>8. d.ctx.r = Tail(at[(k + 1) - 1])
        <3>1. (k + 1) - 1 = k
            BY <1>2
        <3>2. d.ctx.r = Tail(at[k])
            BY <1>5, <1>6, <2>1
        <3> QED
            BY <3>1, <3>2
    <2>9. d.ctx \in Cursor /\ d.ctx.count = n /\ d.val \in Seq(Count)
        BY <1>5, <1>6, <2>1, <2>2
    <2>10. Place(s, d, 1)
        <3>1. d.ctx.index = 2 * Len(d.val) - 1 /\ d.ctx.r = Tail(at[Len(d.val) - 1])
            BY <2>3, <2>7, <2>8
        <3>2. \A j \in 1 .. Len(d.val) :
                 /\ at[j - 1] # <<>> /\ IsUint(at[j - 1][1])
                 /\ at[j - 1][1].val <= INT_MAX /\ d.val[j] = at[j - 1][1].val
            BY <2>3, <2>6
        <3>3. \A j \in 1 .. (Len(d.val) - 1) : IsPair(at[j - 1])
            <4>1. Len(d.val) - 1 = k
                BY <1>2, <2>3
            <4> QED
                BY <2>5, <4>1
        <3> QED
            BY <1>1, <2>9, <3>1, <3>2, <3>3, Zenon DEF Place, at, n
    <2> QED
        BY <2>10 DEF d, v
<1>7. ASSUME ~(c.ok /\ c.val <= INT_MAX)
      PROVE  CommandsOf(s) = <<>>
    <2> HIDE DEF c, at, k, n
    <2>1. rd.ctx.index # rd.ctx.count
        BY DEF AtEnd
    <2>2. ~IsCommandPair(at[k])
        <3>1. SUFFICES ASSUME IsCommandPair(at[k]) PROVE FALSE
            OBVIOUS
        <3>2. at[k] # <<>> /\ IsUint(at[k][1]) /\ at[k][1].val <= INT_MAX
            BY <3>1 DEF IsCommandPair, IsPair
        <3>3. c.ok
            BY <1>1, <1>4, <2>1, <3>2
        <3> QED
            BY <1>5, <1>7, <3>2, <3>3
    <2>3. CASE n % 2 = 1
        BY <1>1, <2>3, NoCommands DEF n
    <2>4. CASE n % 2 # 1
        <3>1. k + 1 \in 1 .. (n \div 2) /\ (k + 1) - 1 = k
            BY <1>2, <2>4
        <3>2. \E i \in 1 .. (n \div 2) : ~IsCommandPair(at[i - 1])
            BY <2>2, <3>1
        <3> QED
            BY <1>1, <3>2, NoCommands DEF n, at
    <2> QED
        BY <2>3, <2>4
<1> QED
    BY <1>6, <1>7

LEMMA ParameterPlace ==
    ASSUME NEW s, NEW rd, Place(s, rd, 1)
    PROVE  LET p == Skip(rd.ctx, 1)
           IN  IF p.ok THEN Place(s, Done(p.ctx, rd.val), 0) ELSE CommandsOf(s) = <<>>
<1> DEFINE p == Skip(rd.ctx, 1)
           at == PairsIn(s)
           k == Len(rd.val)
           n == Heads(s)[1].val
<1>1. /\ Opened(s) /\ rd.ctx \in Cursor /\ rd.ctx.count = n /\ rd.val \in Seq(Count)
      /\ rd.ctx.index = 2 * k - 1 /\ rd.ctx.r = Tail(at[k - 1])
    BY DEF Place
<1>2. k \in Nat /\ n \in Nat /\ 2 * k - 1 <= n /\ at \in [0 .. n -> Seq(CborHead)] /\ k \in 1 .. n
    <2>1. k \in Nat /\ n \in Nat /\ at \in [0 .. n -> Seq(CborHead)]
        BY <1>1, OpenedPairs
    <2>2. rd.ctx.index <= rd.ctx.count /\ rd.ctx.index \in Nat
        BY <1>1, CursorFields
    <2> HIDE DEF k, n, at
    <2>3. 2 * k - 1 <= n /\ 2 * k - 1 \in Nat
        BY <1>1, <2>2
    <2> QED
        BY <2>1, <2>3
<1>3. at[k - 1] \in Seq(CborHead) /\ at[k - 1] # <<>> /\ IsUint(at[k - 1][1]) /\ at[k - 1][1].val <= INT_MAX
    <2>1. at[k - 1] # <<>> /\ IsUint(at[k - 1][1]) /\ at[k - 1][1].val <= INT_MAX
        BY <1>2 DEF Place
    <2> QED
        BY <1>2, <2>1
<1>4. p.ok = (rd.ctx.index # rd.ctx.count /\ HasItem(rd.ctx.r))
    BY <1>1, SkipOneCursor
<1>5. IsPair(at[k - 1]) <=> HasItem(rd.ctx.r)
    BY <1>1, <1>3 DEF IsPair
<1>6. ASSUME p.ok
      PROVE  Place(s, Done(p.ctx, rd.val), 0)
    <2> DEFINE d == Done(p.ctx, rd.val)
    <2>1. d.ctx = p.ctx /\ d.val = rd.val
        BY DEF Done
    <2>2. /\ p.ctx \in Cursor /\ p.ctx.r = AfterItem(rd.ctx.r)
          /\ p.ctx.index = rd.ctx.index + 1 /\ p.ctx.count = rd.ctx.count
        BY <1>1, <1>6, SkipOneCursor
    <2> HIDE DEF p
    <2>3. IsPair(at[k - 1])
        BY <1>4, <1>5, <1>6
    <2>4. at[k] = AfterItem(rd.ctx.r)
        <3>1. AfterPair(at[k - 1]) = AfterItem(rd.ctx.r)
            BY <1>1, <2>3 DEF AfterPair
        <3>2. k - 1 \in 0 .. (n - 1) /\ (k - 1) + 1 = k
            BY <1>2
        <3>3. at[(k - 1) + 1] = AfterPair(at[k - 1])
            BY <1>1, <3>2, OpenedPairs
        <3> QED
            BY <3>1, <3>2, <3>3
    <2>5. \A j \in 1 .. k :
              /\ at[j - 1] # <<>> /\ IsUint(at[j - 1][1])
              /\ at[j - 1][1].val <= INT_MAX /\ rd.val[j] = at[j - 1][1].val
        BY DEF Place
    <2>6. \A j \in 1 .. (k - 1) : IsPair(at[j - 1])
        BY DEF Place
    <2> HIDE DEF d, at, k, n
    <2>7. \A j \in 1 .. k : IsPair(at[j - 1])
        BY <1>2, <2>3, <2>6
    <2>8. d.ctx.index = 2 * k /\ d.ctx.count = n
        BY <1>1, <1>2, <2>1, <2>2
    <2>9. Place(s, d, 0)
        <3>1. k - 0 = k /\ 2 * k - 0 = 2 * k
            BY <1>2
        <3> USE DEF at, k, n
        <3> QED
            BY <1>1, <2>1, <2>2, <2>4, <2>5, <2>7, <2>8, <3>1 DEF Place
    <2> QED
        BY <2>9 DEF d
<1>7. ASSUME ~p.ok
      PROVE  CommandsOf(s) = <<>>
    <2> HIDE DEF p, at, k, n
    <2>1. CASE n % 2 = 1
        BY <1>1, <2>1, NoCommands DEF n
    <2>2. CASE n % 2 # 1
        <3>1. 2 * k - 1 # n
            <4>1. \A i \in Nat : (2 * i + 1) % 2 = 1
                OBVIOUS
            <4>2. k - 1 \in Nat /\ 2 * k - 1 = 2 * (k - 1) + 1
                BY <1>2
            <4> QED
                BY <2>2, <4>1, <4>2
        <3>2. ~IsPair(at[k - 1])
            BY <1>1, <1>4, <1>5, <1>7, <3>1
        <3>3. ~IsCommandPair(at[k - 1])
            BY <3>2 DEF IsCommandPair
        <3>4. k \in 1 .. (n \div 2)
            BY <1>2, <2>2, <3>1
        <3>5. \E i \in 1 .. (n \div 2) : ~IsCommandPair(at[i - 1])
            BY <3>3, <3>4
        <3> QED
            BY <1>1, <3>5, NoCommands DEF n, at
    <2> QED
        BY <2>1, <2>2
<1> QED
    BY <1>6, <1>7

LEMMA EndPlace ==
    ASSUME NEW s, NEW rd, Place(s, rd, 0), AtEnd(rd.ctx)
    PROVE  CommandsOf(s) = <<rd.val>>
<1> DEFINE at == PairsIn(s)
           k == Len(rd.val)
           n == Heads(s)[1].val
<1>1. Opened(s) /\ rd.val \in Seq(Count) /\ k \in Nat /\ n \in Nat
    BY OpenedPairs DEF Place
<1>2. 2 * k = n
    <2>1. rd.ctx.index = 2 * k - 0 /\ rd.ctx.count = n /\ rd.ctx.index = rd.ctx.count
        BY DEF Place, AtEnd
    <2> QED
        BY <1>1, <2>1
<1>3. n % 2 # 1 /\ n \div 2 = k
    <2> HIDE DEF k, n
    <2> QED
        BY <1>1, <1>2
<1>4. \A j \in 1 .. k :
          /\ at[j - 1] # <<>> /\ IsUint(at[j - 1][1])
          /\ at[j - 1][1].val <= INT_MAX /\ rd.val[j] = at[j - 1][1].val
    BY DEF Place
<1>5. \A j \in 1 .. k : IsPair(at[j - 1])
    <2>1. k - 0 = k
        BY <1>1
    <2> QED
        BY <2>1 DEF Place
<1>6. \A j \in 1 .. k : IsCommandPair(at[j - 1])
    BY <1>4, <1>5 DEF IsCommandPair
<1>7. [j \in 1 .. k |-> at[j - 1][1].val] = rd.val
    <2>1. rd.val = [j \in 1 .. k |-> rd.val[j]]
        BY <1>1
    <2>2. [j \in 1 .. k |-> at[j - 1][1].val] = [j \in 1 .. k |-> rd.val[j]]
        BY <1>4
    <2> QED
        BY <2>1, <2>2
<1>8. CommandsOf(s) = <<[j \in 1 .. (n \div 2) |-> at[j - 1][1].val]>>
    <2>1. Heads(s) # <<>> /\ IsArray(Heads(s)[1])
        BY <1>1 DEF Opened
    <2>2. ~(~IsArray(Heads(s)[1]) \/ n % 2 = 1 \/ \E j \in 1 .. (n \div 2) : ~IsCommandPair(at[j - 1]))
        BY <1>3, <1>6, <2>1
    <2> QED
        BY <2>1, <2>2 DEF CommandsOf, PairsIn
<1> QED
    BY <1>3, <1>7, <1>8

LEMMA FieldTyped ==
    ASSUME NEW types, NEW f \in FieldsOver(types), NEW n \in DOMAIN f
    PROVE  n \in DOMAIN types /\ f[n] \in types[n]
    BY DEF FieldsOver

Parsed == {"added", "command", "parameter", "read", "error"}

LEMMA ManifestTyped ==
    ASSUME FromAuthenticated, stage \in Parsed
    PROVE  manifest \in FieldsOver(ManifestTypes) /\ "common" \in DOMAIN manifest
<1>1. /\ envelope.heads \in Seq(CborHead) /\ Authenticated(envelope.heads)
      /\ manifest = ParseManifest(ManifestBstr).val /\ ParseManifest(ManifestBstr).ok
    BY EnvelopeHeads DEF FromAuthenticated, Parsed
<1>2. GetFieldByKey(envelope.heads, SUIT_MANIFEST).ok
    BY <1>1 DEF Authenticated
<1>3. ManifestBstr \in ByteRange
    <2> DEFINE h == envelope.heads
    <2>1. FieldOf(h, FALSE, SUIT_MANIFEST, ManifestBstr)
        BY <1>1, <1>2, GetFieldFinds DEF GetFieldByKey, ManifestBstr
    <2>2. CASE ManifestBstr = NullRange
        BY <2>2 DEF ByteRange
    <2>3. CASE \E j \in 1 .. (Len(h) - 1) : ManifestBstr = Bytes(h[j + 1].body)
        <3>1. PICK j \in 1 .. (Len(h) - 1) : ManifestBstr = Bytes(h[j + 1].body)
            BY <2>3
        <3>2. j + 1 \in 1 .. Len(h) /\ h \in Seq(CborHead)
            BY <1>1
        <3>3. h[j + 1].body \in Seq(CborHead)
            BY <3>2, HeadType
        <3> QED
            BY <3>1, <3>3 DEF ByteRange
    <2> QED
        BY <2>1, <2>2, <2>3 DEF FieldOf
<1> HIDE DEF ManifestBstr
<1> QED
    BY <1>1, <1>3, ParseManifestTyped

LEMMA SequencesTyped ==
    ASSUME FromAuthenticated, stage \in Parsed
    PROVE  \A s \in Sequences : s \in ByteRange
<1>1. manifest \in FieldsOver(ManifestTypes) /\ "common" \in DOMAIN manifest
    BY ManifestTyped
<1>2. \A f \in DOMAIN manifest \cap {"validate", "load", "run"} : manifest[f] \in ByteRange
    BY <1>1, FieldTyped, ManifestTypesOf DEF PlainName
<1>3. \A f \in DOMAIN manifest \cap {"install", "payload_fetch", "dependency_resolution"} :
          manifest[f] \in Severed
    BY <1>1, FieldTyped, ManifestTypesOf DEF SeverableName
<1>4. \A x \in Severed : ~x.severed => x.body \in ByteRange
    <2> HIDE DEF ByteRange, Digest
    <2> QED
        BY DEF Severed
<1>5. \A f \in DOMAIN manifest["common"] \cap {"command_sequence"} : manifest["common"][f] \in ByteRange
    <2>1. manifest["common"] \in FieldsOver(CommonTypes)
        BY <1>1, FieldTyped, ManifestTypesOf
    <2>2. "command_sequence" \in DOMAIN CommonTypes /\ CommonTypes["command_sequence"] = ByteRange
        BY DEF CommonTypes
    <2> QED
        BY <2>1, <2>2, FieldTyped
<1> QED
    BY <1>2, <1>3, <1>4, <1>5 DEF Sequences

ReadsInOrder ==
    /\ stage \in {"received", "authenticated", "refused", "added"} => reader = Failed
    /\ stage = "command" => \E s \in Sequences : Place(s, reader, 0)
    /\ stage = "parameter" => \E s \in Sequences : Place(s, reader, 1)
    /\ stage = "read" => reader = Failed \/ \E s \in Sequences : CommandsOf(s) = <<reader.val>>
    /\ stage = "error" => \E s \in Sequences : CommandsOf(s) = <<>>

LEMMA ReadsInOrderStep == FromAuthenticated /\ ReadsInOrder /\ [Next]_vars => ReadsInOrder'
<1> SUFFICES ASSUME FromAuthenticated, ReadsInOrder, [Next]_vars PROVE ReadsInOrder'
    OBVIOUS
<1>1. CASE UNCHANGED vars
    BY <1>1 DEF ReadsInOrder, vars, Sequences
<1>2. CASE Authenticate
    BY <1>2 DEF ReadsInOrder, Authenticate
<1>3. CASE AddEnvelope
    BY <1>3 DEF ReadsInOrder, AddEnvelope
<1>4. CASE OpenSequence
    <2>1. Sequences' = Sequences
        BY <1>4 DEF OpenSequence, Sequences
    <2>2. PICK s \in Sequences :
              LET array == ReadArray(TopLevel(s))
              IN  /\ reader' = IF array.ok THEN Done(array.val, <<>>) ELSE Failed
                  /\ stage' = IF array.ok THEN "command" ELSE "error"
        BY <1>4 DEF OpenSequence
    <2>3. s \in ByteRange
        BY <1>4, SequencesTyped DEF OpenSequence, Parsed
    <2> DEFINE a == ReadArray(TopLevel(s))
    <2>4. /\ a.ok => Place(s, Done(a.val, <<>>), 0)
          /\ ~a.ok => CommandsOf(s) = <<>>
        BY <2>3, OpenPlace
    <2>5. /\ a.ok => stage' = "command" /\ reader' = Done(a.val, <<>>)
          /\ ~a.ok => stage' = "error"
        BY <2>2
    <2> HIDE DEF a
    <2>6. CASE a.ok
        <3>1. \E t \in Sequences : Place(t, reader', 0)
            BY <2>4, <2>5, <2>6
        <3> QED
            BY <2>1, <2>5, <2>6, <3>1 DEF ReadsInOrder
    <2>7. CASE ~a.ok
        <3>1. \E t \in Sequences : CommandsOf(t) = <<>>
            BY <2>4, <2>7
        <3> QED
            BY <2>1, <2>5, <2>7, <3>1 DEF ReadsInOrder
    <2> QED
        BY <2>6, <2>7
<1>5. CASE ReadCommand
    <2>1. Sequences' = Sequences /\ stage = "command" /\ ~AtEnd(reader.ctx)
        BY <1>5 DEF ReadCommand, Sequences
    <2>2. PICK s \in Sequences : Place(s, reader, 0)
        BY <2>1 DEF ReadsInOrder
    <2> DEFINE c == ReadUint(reader.ctx)
               good == c.ok /\ c.val <= INT_MAX
               d == Done(c.ctx, Append(reader.val, c.val))
    <2>3. /\ good => Place(s, d, 1)
          /\ ~good => CommandsOf(s) = <<>>
        BY <2>1, <2>2, CommandPlace
    <2>4. \/ good /\ reader' = d /\ stage' = "parameter"
          \/ ~good /\ stage' = "error"
        BY <1>5 DEF ReadCommand
    <2> HIDE DEF good, d
    <2>5. CASE good
        <3>1. \E t \in Sequences : Place(t, reader', 1)
            BY <2>3, <2>4, <2>5
        <3> QED
            BY <2>1, <2>4, <2>5, <3>1 DEF ReadsInOrder
    <2>6. CASE ~good
        <3>1. \E t \in Sequences : CommandsOf(t) = <<>>
            BY <2>3, <2>6
        <3> QED
            BY <2>1, <2>4, <2>6, <3>1 DEF ReadsInOrder
    <2> QED
        BY <2>5, <2>6
<1>6. CASE SkipParameter
    <2>1. Sequences' = Sequences /\ stage = "parameter"
        BY <1>6 DEF SkipParameter, Sequences
    <2>2. PICK s \in Sequences : Place(s, reader, 1)
        BY <2>1 DEF ReadsInOrder
    <2> DEFINE p == Skip(reader.ctx, 1)
               d == Done(p.ctx, reader.val)
    <2>3. /\ p.ok => Place(s, d, 0)
          /\ ~p.ok => CommandsOf(s) = <<>>
        BY <2>2, ParameterPlace
    <2>4. \/ p.ok /\ reader' = d /\ stage' = "command"
          \/ ~p.ok /\ stage' = "error"
        BY <1>6 DEF SkipParameter
    <2> HIDE DEF p, d
    <2>5. CASE p.ok
        <3>1. \E t \in Sequences : Place(t, reader', 0)
            BY <2>3, <2>4, <2>5
        <3> QED
            BY <2>1, <2>4, <2>5, <3>1 DEF ReadsInOrder
    <2>6. CASE ~p.ok
        <3>1. \E t \in Sequences : CommandsOf(t) = <<>>
            BY <2>3, <2>6
        <3> QED
            BY <2>1, <2>4, <2>6, <3>1 DEF ReadsInOrder
    <2> QED
        BY <2>5, <2>6
<1>7. CASE EndSequence
    <2>1. /\ Sequences' = Sequences /\ stage = "command" /\ AtEnd(reader.ctx)
          /\ stage' = "read" /\ reader' = reader
        BY <1>7 DEF EndSequence, Sequences
    <2>2. PICK s \in Sequences : Place(s, reader, 0)
        BY <2>1 DEF ReadsInOrder
    <2>3. CommandsOf(s) = <<reader.val>>
        BY <2>1, <2>2, EndPlace
    <2> QED
        BY <2>1, <2>3 DEF ReadsInOrder
<1>8. CASE \E name \in PayloadName : GetPayload(name)
    BY <1>8 DEF ReadsInOrder, GetPayload
<1> QED
    BY <1>1, <1>2, <1>3, <1>4, <1>5, <1>6, <1>7, <1>8 DEF Next

\* A command sequence that is read to its end gave its commands, each once and in
\* order, and one that ended in an error has no meaning: for every manifest, of any
\* length and nesting.
THEOREM SequencesReadExactly == Spec => []SequenceAsReference
<1>1. Init => ReadsInOrder
    BY DEF Init, ReadsInOrder
<1>2. ReadsInOrder => SequenceAsReference
    <2> SUFFICES ASSUME ReadsInOrder PROVE SequenceAsReference
        OBVIOUS
    <2>1. ~Failed.ok
        BY DEF Failed
    <2> QED
        BY <2>1 DEF ReadsInOrder, SequenceAsReference
<1> QED
    BY <1>1, <1>2, FromAuthenticatedInit, FromAuthenticatedStep, ReadsInOrderStep, PTL DEF Spec

\* The lists of dependencies and components of a manifest fit the arrays of
\* suit_manifest_t, whatever bytes they were parsed from.
THEOREM ListsAlwaysFit == Spec => []ListsFit
<1>1. FromAuthenticated => ListsFit
    <2> SUFFICES ASSUME FromAuthenticated, stage \in Parsed,
                        NEW list \in DOMAIN manifest["common"] \cap {"dependencies", "components"}
                 PROVE  Len(manifest["common"][list]) <= ListMax(list)
        BY DEF ListsFit, Parsed, ListMax
    <2>1. manifest \in FieldsOver(ManifestTypes) /\ "common" \in DOMAIN manifest
        BY ManifestTyped
    <2>2. manifest["common"] \in FieldsOver(CommonTypes)
        BY <2>1, FieldTyped, ManifestTypesOf
    <2>3. manifest["common"][list] \in CommonTypes[list] /\ CommonTypes[list] = ListsOf(ListMax(list))
        BY <2>2, FieldTyped DEF CommonTypes
    <2> QED
        BY <2>3 DEF ListsOf
<1> QED
    BY <1>1, FromAuthenticatedInit, FromAuthenticatedStep, PTL DEF Spec

----------------------------------------------------------------------------
(* Fields                                                                  *)

Hit(heads, use_tstr, key) ==
    heads[1].mt = (IF use_tstr THEN 3 ELSE 0) /\ heads[1].val = key
BadEntry(heads, use_tstr, key) ==
    ~IsEntry(heads) \/ (Hit(heads, use_tstr, key) /\ ~IsBstr(heads[2]))

LEMMA ItemNotEmpty ==
    ASSUME NEW heads \in Seq(CborHead), HasItem(heads)
    PROVE  heads # <<>>
    BY AfterItemType

\* An entry of a map is read as a pair, if it can be read.
LEMMA EntryRead ==
    ASSUME NEW c \in Cursor, c.index + 1 < c.count, NEW use_tstr, NEW key
    PROVE  LET k == ReadAny(c)
               hit == IsKey(k.val, use_tstr, key)
               v == IF hit THEN ReadBstr(k.ctx) ELSE Skip(k.ctx, 1)
           IN  IF ~k.ok \/ IsTag(k.val) \/ ~v.ok THEN BadEntry(c.r, use_tstr, key)
               ELSE /\ ~BadEntry(c.r, use_tstr, key)
                    /\ v.ctx \in Cursor /\ v.ctx.r = AfterPair(c.r)
                    /\ v.ctx.index = c.index + 2 /\ v.ctx.count = c.count
                    /\ Len(v.ctx.r) < Len(c.r)
                    /\ hit <=> Hit(c.r, use_tstr, key)
                    /\ hit => v.val = Bytes(c.r[2].body) /\ v.val \in ByteRange
<1> DEFINE k == ReadAny(c)
           hit == IsKey(k.val, use_tstr, key)
           v == IF hit THEN ReadBstr(k.ctx) ELSE Skip(k.ctx, 1)
           r == c.r
           u == Tail(c.r)
<1>1. /\ r \in Seq(CborHead) /\ c.index \in Nat /\ c.count \in Nat /\ c.index # c.count
    BY CursorFields
<1>2. k.ok = Readable(r)
    <2>1. k.ok = (c.index # c.count /\ Readable(c.r))
        BY ReadAnyCursor
    <2> QED
        BY <1>1, <2>1 DEF Readable
<1>3. CASE ~k.ok
    <2>1. r = <<>> \/ r[1].mt = Unreadable
        BY <1>2, <1>3 DEF Readable
    <2> QED
        BY <1>3, <2>1 DEF BadEntry, IsEntry, IsPair
<1>4. CASE k.ok /\ IsTag(k.val)
    <2>1. k.val = r[1]
        BY <1>4, ReadAnyCursor
    <2> QED
        BY <1>4, <2>1 DEF BadEntry, IsEntry
<1>5. CASE k.ok /\ ~IsTag(k.val)
    <2>1. /\ k.val = r[1] /\ r # <<>> /\ k.ctx \in Cursor /\ k.ctx.r = u
          /\ k.ctx.index = c.index + 1 /\ k.ctx.count = c.count /\ Len(u) = Len(r) - 1
        BY <1>5, ReadAnyCursor
    <2>2. r[1].mt # Unreadable /\ ~IsTag(r[1])
        BY <1>2, <1>5, <2>1 DEF Readable
    <2>3. hit <=> Hit(r, use_tstr, key)
        BY <2>1 DEF IsKey, Hit, IsTstr, IsUint
    <2>4. IsEntry(r) <=> HasItem(u)
        BY <2>1, <2>2 DEF IsEntry, IsPair
    <2>5. HasItem(u) => AfterPair(r) = AfterItem(u)
        BY <2>1 DEF AfterPair, IsPair
    <2>6. k.ctx.index # k.ctx.count /\ k.ctx.index + 1 = c.index + 2
        BY <1>1, <2>1
    <2>7. u \in Seq(CborHead) /\ Len(r) \in Nat /\ Len(u) \in Nat
        BY <1>1, <2>1
    <2>8. CASE ~hit
        <3>1. v = Skip(k.ctx, 1)
            BY <2>8
        <3>2. /\ v.ok = (k.ctx.index # k.ctx.count /\ HasItem(k.ctx.r))
              /\ v.ok => /\ v.ctx \in Cursor /\ v.ctx.r = AfterItem(k.ctx.r)
                         /\ v.ctx.index = k.ctx.index + 1 /\ v.ctx.count = k.ctx.count
                         /\ Len(AfterItem(k.ctx.r)) < Len(k.ctx.r)
            BY <2>1, <3>1, SkipOneCursor
        <3> HIDE DEF v, k, u, r, hit
        <3>3. v.ok <=> HasItem(u)
            BY <2>1, <2>6, <3>2
        <3>4. CASE ~v.ok
            BY <2>4, <3>3, <3>4 DEF BadEntry, r, k, v, hit
        <3>5. CASE v.ok
            <4>1. ~BadEntry(r, use_tstr, key)
                BY <2>3, <2>4, <2>8, <3>3, <3>5 DEF BadEntry
            <4>2. v.ctx.r = AfterPair(r) /\ v.ctx.index = c.index + 2 /\ v.ctx.count = c.count
                BY <2>1, <2>5, <2>6, <3>2, <3>3, <3>5
            <4>3. Len(v.ctx.r) < Len(u) /\ Len(v.ctx.r) \in Nat
                BY <2>1, <3>2, <3>5, CursorFields
            <4>4. Len(v.ctx.r) < Len(r)
                BY <2>1, <2>7, <4>3
            <4> QED
                BY <1>5, <2>3, <2>8, <3>2, <3>5, <4>1, <4>2, <4>4 DEF r, k, v, hit
        <3> QED
            BY <3>4, <3>5
    <2>9. CASE hit
        <3>1. v = ReadBstr(k.ctx)
            BY <2>9
        <3>2. /\ v.ok = (k.ctx.index # k.ctx.count /\ k.ctx.r # <<>> /\ IsBstr(k.ctx.r[1]))
              /\ v.ok => /\ v.val = Bytes(k.ctx.r[1].body) /\ k.ctx.r[1].body \in Seq(CborHead)
                         /\ v.ctx \in Cursor /\ v.ctx.r = Tail(k.ctx.r)
                         /\ v.ctx.index = k.ctx.index + 1 /\ v.ctx.count = k.ctx.count
                         /\ Len(Tail(k.ctx.r)) = Len(k.ctx.r) - 1
            BY <2>1, <3>1, ReadBstrCursor
        <3>3. u # <<>> => u[1] = r[2]
            BY <1>1, <2>1
        <3>4. HasItem(u) => u # <<>>
            BY <2>7, ItemNotEmpty
        <3> HIDE DEF v, k, u, r, hit
        <3>5. v.ok <=> u # <<>> /\ IsBstr(u[1])
            BY <2>1, <2>6, <3>2
        <3>6. CASE ~v.ok
            <4>1. BadEntry(r, use_tstr, key)
                BY <2>3, <2>4, <2>9, <3>3, <3>4, <3>5, <3>6 DEF BadEntry
            <4> QED
                BY <3>6, <4>1 DEF r, k, v, hit
        <3>7. CASE v.ok
            <4>1. u # <<>> /\ IsBstr(u[1])
                BY <3>5, <3>7
            <4>2. HasItem(u) /\ AfterItem(u) = Tail(u)
                BY <2>7, <4>1, BstrItem
            <4>3. ~BadEntry(r, use_tstr, key)
                BY <2>4, <3>3, <4>1, <4>2 DEF BadEntry
            <4>4. v.ctx.r = AfterPair(r) /\ v.ctx.index = c.index + 2 /\ v.ctx.count = c.count
                BY <2>1, <2>5, <2>6, <3>2, <3>7, <4>2
            <4>5. Len(v.ctx.r) = Len(u) - 1
                BY <2>1, <3>2, <3>7
            <4>6. Len(v.ctx.r) < Len(r)
                BY <2>1, <2>7, <4>5
            <4>7. v.val = Bytes(r[2].body) /\ v.val \in ByteRange
                BY <2>1, <3>2, <3>3, <3>7, <4>1 DEF ByteRange
            <4> QED
                BY <1>5, <2>3, <3>2, <3>7, <4>3, <4>4, <4>6, <4>7 DEF r, k, v, hit
        <3> QED
            BY <3>6, <3>7
    <2> QED
        BY <2>8, <2>9
<1> QED
    BY <1>3, <1>4, <1>5

\* The field is that of the last hit among the first k entries.
LastHit(at, k, use_tstr, key, field) ==
    \/ (\A j \in 1 .. k : ~Hit(at[j - 1], use_tstr, key)) /\ field = NullRange
    \/ \E j \in 1 .. k : /\ Hit(at[j - 1], use_tstr, key)
                         /\ \A i \in (j + 1) .. k : ~Hit(at[i - 1], use_tstr, key)
                         /\ field = Bytes(at[j - 1][2].body)

EntryStates == [ok : BOOLEAN, map : Cursor, field : ByteRange]

\* The entries that a lookup has passed.
PassedEntries(at, n, use_tstr, key, s) ==
    /\ s.map.count = 2 * n
    /\ s.ok => \E k \in 0 .. n :
                  /\ s.map.index = 2 * k /\ s.map.r = at[k]
                  /\ LastHit(at, k, use_tstr, key, s.field)
                  /\ \A j \in 1 .. k : ~BadEntry(at[j - 1], use_tstr, key)
    /\ ~s.ok => \E j \in 1 .. n : BadEntry(at[j - 1], use_tstr, key)

LEMMA LastHitNext ==
    ASSUME NEW at, NEW k \in Nat, NEW use_tstr, NEW key, NEW field, NEW next,
           LastHit(at, k, use_tstr, key, field),
           IF Hit(at[k], use_tstr, key) THEN next = Bytes(at[k][2].body) ELSE next = field
    PROVE  LastHit(at, k + 1, use_tstr, key, next)
<1>1. (k + 1) - 1 = k /\ k + 1 \in 1 .. (k + 1)
    OBVIOUS
<1>2. CASE Hit(at[k], use_tstr, key)
    <2>1. \A i \in ((k + 1) + 1) .. (k + 1) : ~Hit(at[i - 1], use_tstr, key)
        OBVIOUS
    <2> QED
        BY <1>1, <1>2, <2>1 DEF LastHit
<1>3. CASE ~Hit(at[k], use_tstr, key)
    <2>1. next = field
        BY <1>3
    <2>2. CASE (\A j \in 1 .. k : ~Hit(at[j - 1], use_tstr, key)) /\ field = NullRange
        <3>1. \A j \in 1 .. (k + 1) : ~Hit(at[j - 1], use_tstr, key)
            BY <1>1, <1>3, <2>2
        <3> QED
            BY <2>1, <2>2, <3>1 DEF LastHit
    <2>3. ASSUME NEW j \in 1 .. k, Hit(at[j - 1], use_tstr, key),
                 \A i \in (j + 1) .. k : ~Hit(at[i - 1], use_tstr, key),
                 field = Bytes(at[j - 1][2].body)
          PROVE  LastHit(at, k + 1, use_tstr, key, next)
        <3>1. \A i \in (j + 1) .. (k + 1) : ~Hit(at[i - 1], use_tstr, key)
            BY <1>1, <1>3, <2>3
        <3>2. j \in 1 .. (k + 1)
            OBVIOUS
        <3> QED
            BY <2>1, <2>3, <3>1, <3>2 DEF LastHit
    <2> QED
        BY <2>2, <2>3 DEF LastHit
<1> QED
    BY <1>2, <1>3

LEMMA FoundEntry ==
    ASSUME NEW s \in EntryStates, NEW m \in Cursor, NEW f \in ByteRange
    PROVE  /\ Found(s, m, f) \in EntryStates /\ (s.ok => Found(s, m, f).ok)
           /\ Found(s, m, f).map = m /\ Found(s, m, f).field = f
    BY DEF Found, EntryStates

LEMMA GaveEntry ==
    ASSUME NEW s \in EntryStates
    PROVE  Gave(s) \in EntryStates /\ ~Gave(s).ok /\ Gave(s).map = s.map
    BY DEF Gave, EntryStates

LEMMA FieldTurnPasses ==
    ASSUME NEW n \in Nat, NEW at \in [0 .. n -> Seq(CborHead)],
           \A k \in 0 .. (n - 1) : at[k + 1] = AfterPair(at[k]),
           NEW use_tstr, NEW key,
           NEW s \in EntryStates, PassedEntries(at, n, use_tstr, key, s), s.ok, ~AtEnd(s.map)
    PROVE  LET t == FieldTurn(s, use_tstr, key)
           IN  /\ t \in EntryStates /\ PassedEntries(at, n, use_tstr, key, t)
               /\ t.ok => Len(t.map.r) < Len(s.map.r)
<1> DEFINE c == s.map
           h == ReadAny(c)
           hit == IsKey(h.val, use_tstr, key)
           v == IF hit THEN ReadBstr(h.ctx) ELSE Skip(h.ctx, 1)
           t == FieldTurn(s, use_tstr, key)
           bad == ~h.ok \/ IsTag(h.val) \/ ~v.ok
<1>1. c \in Cursor /\ s.field \in ByteRange /\ c.count = 2 * n
    BY DEF EntryStates, PassedEntries
<1>2. PICK k \in 0 .. n : /\ c.index = 2 * k /\ c.r = at[k]
                          /\ LastHit(at, k, use_tstr, key, s.field)
                          /\ \A j \in 1 .. k : ~BadEntry(at[j - 1], use_tstr, key)
    BY DEF PassedEntries
<1>3. /\ k \in 0 .. (n - 1) /\ k + 1 \in 1 .. n /\ k + 1 \in 0 .. n /\ (k + 1) - 1 = k
      /\ c.index + 1 < c.count
    <2>1. c.index # c.count
        BY DEF AtEnd
    <2> HIDE DEF c
    <2> QED
        BY <1>1, <1>2, <2>1
<1>4. IF bad THEN BadEntry(c.r, use_tstr, key)
      ELSE /\ ~BadEntry(c.r, use_tstr, key)
           /\ v.ctx \in Cursor /\ v.ctx.r = AfterPair(c.r)
           /\ v.ctx.index = c.index + 2 /\ v.ctx.count = c.count
           /\ Len(v.ctx.r) < Len(c.r)
           /\ hit <=> Hit(c.r, use_tstr, key)
           /\ hit => v.val = Bytes(c.r[2].body) /\ v.val \in ByteRange
    <2> HIDE DEF c
    <2> QED
        BY <1>1, <1>3, EntryRead
<1>5. CASE bad
    <2>1. t = Gave(s)
        BY <1>5 DEF FieldTurn, Gave
    <2>2. Gave(s) \in EntryStates /\ ~Gave(s).ok /\ Gave(s).map = s.map
        BY GaveEntry
    <2>3. BadEntry(at[k], use_tstr, key)
        <3> HIDE DEF bad, v, hit, h, c
        <3> QED
            BY <1>2, <1>4, <1>5
    <2>4. \E j \in 1 .. n : BadEntry(at[j - 1], use_tstr, key)
        BY <1>3, <2>3
    <2> HIDE DEF t
    <2>5. ~t.ok /\ t.map.count = 2 * n /\ t \in EntryStates
        BY <1>1, <2>1, <2>2
    <2>6. PassedEntries(at, n, use_tstr, key, t)
        BY <2>4, <2>5 DEF PassedEntries
    <2> QED
        BY <2>5, <2>6 DEF t
<1>6. CASE ~bad
    <2> DEFINE m == v.ctx
               f == IF hit THEN v.val ELSE s.field
    <2>1. t = Found(s, m, f)
        BY <1>6 DEF FieldTurn, Found
    <2> HIDE DEF t, bad
    <2>2. /\ ~BadEntry(c.r, use_tstr, key)
          /\ m \in Cursor /\ m.r = AfterPair(c.r) /\ m.index = c.index + 2 /\ m.count = c.count
          /\ Len(m.r) < Len(c.r)
          /\ hit <=> Hit(c.r, use_tstr, key)
          /\ hit => v.val = Bytes(c.r[2].body) /\ v.val \in ByteRange
        BY <1>4, <1>6
    <2> HIDE DEF v, hit, h, m
    <2>3. f \in ByteRange /\ (IF Hit(at[k], use_tstr, key) THEN f = Bytes(at[k][2].body) ELSE f = s.field)
        BY <1>1, <1>2, <2>2
    <2> HIDE DEF f, c
    <2>4. t \in EntryStates /\ t.ok /\ t.map = m /\ t.field = f
        BY <2>1, <2>2, <2>3, FoundEntry
    <2>5. LastHit(at, k + 1, use_tstr, key, f)
        <3>1. k \in Nat /\ LastHit(at, k, use_tstr, key, s.field)
            BY <1>2
        <3>2. IF Hit(at[k], use_tstr, key) THEN f = Bytes(at[k][2].body) ELSE f = s.field
            BY <2>3
        <3> QED
            BY <3>1, <3>2, LastHitNext
    <2>6. m.index = 2 * (k + 1) /\ m.count = 2 * n
        BY <1>1, <1>2, <2>2
    <2>7. m.r = at[k + 1]
        <3>1. m.r = AfterPair(at[k])
            BY <1>2, <2>2
        <3>2. at[k + 1] = AfterPair(at[k])
            BY <1>3
        <3> QED
            BY <3>1, <3>2
    <2>8. ASSUME NEW j \in 1 .. (k + 1)
          PROVE  ~BadEntry(at[j - 1], use_tstr, key)
        <3>1. CASE j \in 1 .. k
            BY <1>2, <3>1
        <3>2. CASE j = k + 1
            <4>1. at[j - 1] = c.r
                BY <1>2, <1>3, <3>2
            <4> QED
                BY <2>2, <4>1
        <3> QED
            BY <3>1, <3>2
    <2>9. \E i \in 0 .. n : /\ t.map.index = 2 * i /\ t.map.r = at[i]
                            /\ LastHit(at, i, use_tstr, key, t.field)
                            /\ \A j \in 1 .. i : ~BadEntry(at[j - 1], use_tstr, key)
        BY <1>3, <2>4, <2>5, <2>6, <2>7, <2>8
    <2>10. PassedEntries(at, n, use_tstr, key, t)
        BY <2>4, <2>6, <2>9 DEF PassedEntries
    <2>11. Len(t.map.r) < Len(s.map.r)
        BY <2>2, <2>4 DEF c
    <2> QED
        BY <2>4, <2>10, <2>11 DEF t
<1> QED
    BY <1>5, <1>6

LEMMA FieldLoopPasses ==
    ASSUME NEW n \in Nat, NEW at \in [0 .. n -> Seq(CborHead)],
           \A k \in 0 .. (n - 1) : at[k + 1] = AfterPair(at[k]),
           NEW use_tstr, NEW key,
           NEW s \in EntryStates, PassedEntries(at, n, use_tstr, key, s)
    PROVE  LET e == FieldLoop(s, use_tstr, key)
           IN  /\ e \in EntryStates /\ PassedEntries(at, n, use_tstr, key, e)
               /\ e.ok => AtEnd(e.map)
<1> DEFINE T == {x \in EntryStates : PassedEntries(at, n, use_tstr, key, x)}
<1>1. s \in T
    OBVIOUS
<1>2. \A x \in T : x.map.r \in Seq(CborHead)
    BY CursorFields DEF EntryStates
<1>3. ASSUME NEW x \in T, x.ok, ~AtEnd(x.map)
      PROVE  /\ Turn("entries", key, use_tstr, x) \in T
             /\ Turn("entries", key, use_tstr, x).ok =>
                   Len(Turn("entries", key, use_tstr, x).map.r) < Len(x.map.r)
    <2>1. Turn("entries", key, use_tstr, x) = FieldTurn(x, use_tstr, key)
        BY <1>3 DEF Turn
    <2>2. x \in EntryStates /\ PassedEntries(at, n, use_tstr, key, x)
        BY <1>3
    <2>3. /\ FieldTurn(x, use_tstr, key) \in EntryStates
          /\ PassedEntries(at, n, use_tstr, key, FieldTurn(x, use_tstr, key))
          /\ FieldTurn(x, use_tstr, key).ok => Len(FieldTurn(x, use_tstr, key).map.r) < Len(x.map.r)
        BY <1>3, <2>2, FieldTurnPasses
    <2> QED
        BY <2>1, <2>3
<1>4. Len(s.map.r) \in Nat
    BY <1>1, <1>2
<1>5. PICK f : /\ Turns(f, Len(s.map.r) + 1, "entries", key, use_tstr, s)
               /\ FieldLoop(s, use_tstr, key) = f[Len(s.map.r) + 1]
    BY <1>4, FieldLoopTurns
<1> HIDE DEF T
<1>6. f[Len(s.map.r) + 1] \in T /\ (f[Len(s.map.r) + 1].ok => AtEnd(f[Len(s.map.r) + 1].map))
    BY <1>1, <1>2, <1>3, <1>5, LoopEnds, ZenonT(40)
<1> QED
    BY <1>5, <1>6 DEF T

\* What an envelope must begin with.
HasMap(heads) ==
    /\ Len(heads) >= 2 /\ IsTag(heads[1]) /\ heads[1].val = SUIT_ENVELOPE_TAG
    /\ IsMap(heads[2]) /\ 2 * heads[2].val < Modulus
EntriesOf(heads) == PairsOf(Tail(Tail(heads)), heads[2].val)

LEMMA ValueOfNone ==
    ASSUME NEW heads \in Seq(CborHead), NEW use_tstr, NEW key, ~HasMap(heads)
    PROVE  ValueOf(heads, use_tstr, key) = <<>>
<1>1. CASE Len(heads) < 2
    BY <1>1, Zenon DEF ValueOf
<1>2. CASE ~(Len(heads) < 2)
    <2>1. heads[2].val \in Nat
        BY <1>2, HeadType DEF Count
    <2>2. \/ ~IsTag(heads[1]) \/ heads[1].val # SUIT_ENVELOPE_TAG
          \/ ~IsMap(heads[2]) \/ 2 * heads[2].val >= Modulus
        BY <1>2, <2>1, TeeCborAssumption DEF HasMap
    <2> QED
        BY <1>2, <2>2, Zenon DEF ValueOf
<1> QED
    BY <1>1, <1>2

LEMMA ValueOfMap ==
    ASSUME NEW heads \in Seq(CborHead), NEW use_tstr, NEW key, HasMap(heads),
           NEW field
    PROVE  LET at == EntriesOf(heads)
               n == heads[2].val
           IN  /\ (\E k \in 1 .. n : BadEntry(at[k - 1], use_tstr, key)) =>
                      ValueOf(heads, use_tstr, key) = <<>>
               /\ /\ \A k \in 1 .. n : ~BadEntry(at[k - 1], use_tstr, key)
                  /\ LastHit(at, n, use_tstr, key, field)
                  => ValueOf(heads, use_tstr, key) = <<field>>
<1> DEFINE at == EntriesOf(heads)
           n == heads[2].val
           hits == {k \in 1 .. n : Hit(at[k - 1], use_tstr, key)}
           last == CHOOSE k \in hits : \A j \in hits : j <= k
           V == ValueOf(heads, use_tstr, key)
<1>1. n \in Nat /\ ~(Len(heads) < 2)
    BY HeadType DEF HasMap, Count
<1>2. ~(~IsTag(heads[1]) \/ heads[1].val # SUIT_ENVELOPE_TAG \/ ~IsMap(heads[2]) \/ 2 * n >= Modulus)
    BY <1>1, TeeCborAssumption DEF HasMap
<1>3. V = IF \E k \in 1 .. n : ~IsEntry(at[k - 1]) THEN <<>>
          ELSE IF \E k \in hits : ~IsBstr(at[k - 1][2]) THEN <<>>
          ELSE <<IF hits = {} THEN NullRange ELSE Bytes(at[last - 1][2].body)>>
    <2> DEFINE A == Len(heads) < 2
               B == ~IsTag(heads[1]) \/ heads[1].val # SUIT_ENVELOPE_TAG \/ ~IsMap(heads[2]) \/ 2 * n >= Modulus
               C == \E k \in 1 .. n : ~IsEntry(at[k - 1])
               W == IF \E k \in hits : ~IsBstr(at[k - 1][2]) THEN <<>>
                    ELSE <<IF hits = {} THEN NullRange ELSE Bytes(at[last - 1][2].body)>>
    <2>1. V = IF A THEN <<>>
              ELSE IF \/ ~IsTag(heads[1]) \/ heads[1].val # SUIT_ENVELOPE_TAG
                      \/ ~IsMap(heads[2]) \/ 2 * n >= Modulus \/ C THEN <<>> ELSE W
        BY Zenon DEF ValueOf, EntriesOf, Hit
    <2> HIDE DEF A, C, W
    <2>2. V = IF C THEN <<>> ELSE W
        BY <1>1, <1>2, <2>1 DEF A
    <2> QED
        BY <2>2 DEF C, W
<1> HIDE DEF V, at, last, n
<1>4. ASSUME NEW k \in 1 .. n, BadEntry(at[k - 1], use_tstr, key)
      PROVE  V = <<>>
    <2>1. CASE ~IsEntry(at[k - 1])
        BY <1>3, <2>1
    <2>2. CASE Hit(at[k - 1], use_tstr, key) /\ ~IsBstr(at[k - 1][2])
        <3>1. \E i \in hits : ~IsBstr(at[i - 1][2])
            BY <2>2
        <3> HIDE DEF hits
        <3> QED
            BY <1>3, <3>1
    <2> QED
        BY <1>4, <2>1, <2>2 DEF BadEntry
<1>5. ASSUME \A k \in 1 .. n : ~BadEntry(at[k - 1], use_tstr, key),
             LastHit(at, n, use_tstr, key, field)
      PROVE  V = <<field>>
    <2>1. ~(\E k \in 1 .. n : ~IsEntry(at[k - 1])) /\ ~(\E k \in hits : ~IsBstr(at[k - 1][2]))
        BY <1>5 DEF BadEntry
    <2>2. V = <<IF hits = {} THEN NullRange ELSE Bytes(at[last - 1][2].body)>>
        <3> HIDE DEF hits
        <3> QED
            BY <1>3, <2>1
    <2>3. CASE (\A j \in 1 .. n : ~Hit(at[j - 1], use_tstr, key)) /\ field = NullRange
        <3>1. hits = {}
            BY <2>3
        <3> QED
            BY <2>2, <2>3, <3>1
    <2>4. ASSUME NEW j \in 1 .. n, Hit(at[j - 1], use_tstr, key),
                 \A i \in (j + 1) .. n : ~Hit(at[i - 1], use_tstr, key),
                 field = Bytes(at[j - 1][2].body)
          PROVE  V = <<field>>
        <3>1. j \in hits /\ hits # {}
            BY <2>4
        <3>2. \A i \in hits : i <= j /\ i \in Int
            BY <1>1, <2>4
        <3>3. last \in hits /\ \A i \in hits : i <= last
            <4> HIDE DEF hits
            <4> QED
                BY <3>1, <3>2 DEF last
        <3>4. last = j
            <4> HIDE DEF hits
            <4> QED
                BY <3>1, <3>2, <3>3
        <3> HIDE DEF hits
        <3> QED
            BY <2>2, <2>4, <3>1, <3>4
    <2> QED
        BY <1>5, <2>3, <2>4 DEF LastHit
<1> QED
    BY <1>4, <1>5 DEF V, at, n

LEMMA ReadTagWhen ==
    ASSUME NEW ctx \in Cursor
    PROVE  ReadTag(ctx).ok <=> ctx.index # ctx.count /\ ctx.r # <<>> /\ IsTag(ctx.r[1])
<1> DEFINE x == ReadAny(ctx)
<1>1. /\ x.ok = (ctx.index # ctx.count /\ Readable(ctx.r))
      /\ x.ok => x.val = ctx.r[1]
    BY ReadAnyCursor
<1>2. ReadTag(ctx).ok <=> x.ok /\ IsTag(x.val)
    BY <1>1 DEF ReadTag, Done, Failed
<1>3. IsTag(ctx.r[1]) => ctx.r[1].mt # Unreadable
    BY DEF IsTag, Unreadable
<1> HIDE DEF x
<1> QED
    BY <1>1, <1>2, <1>3 DEF Readable

LEMMA SecondHead ==
    ASSUME NEW heads \in Seq(CborHead), heads # <<>>
    PROVE  /\ Tail(heads) \in Seq(CborHead) /\ (Tail(heads) # <<>> <=> Len(heads) >= 2)
           /\ Tail(heads) # <<>> => /\ Tail(heads)[1] = heads[2]
                                   /\ Tail(Tail(heads)) \in Seq(CborHead)
<1>1. Tail(heads) \in Seq(CborHead) /\ Len(Tail(heads)) = Len(heads) - 1
    OBVIOUS
<1>2. Tail(heads) # <<>> <=> Len(heads) >= 2
    <2> DEFINE t == Tail(heads)
    <2>1. t \in Seq(CborHead) /\ Len(t) = Len(heads) - 1
        BY <1>1
    <2> HIDE DEF t
    <2>2. t # <<>> <=> Len(t) # 0
        <3>1. Len(t) = 0 => t = <<>>
            BY <2>1
        <3>2. t = <<>> => Len(t) = 0
            OBVIOUS
        <3> QED
            BY <3>1, <3>2
    <2>3. Len(t) # 0 <=> Len(heads) >= 2
        <3>1. Len(heads) \in Nat /\ Len(heads) # 0
            OBVIOUS
        <3> QED
            BY <2>1, <3>1
    <2> QED
        BY <2>2, <2>3 DEF t
<1>3. ASSUME Tail(heads) # <<>>
      PROVE  Tail(heads)[1] = heads[2] /\ Tail(Tail(heads)) \in Seq(CborHead)
    BY <1>1, <1>2, <1>3
<1> QED
    BY <1>1, <1>2, <1>3


\* A lookup finds exactly what the bytes of the envelope mean.
LEMMA GetFieldExact ==
    ASSUME NEW heads \in Seq(CborHead), NEW use_tstr, NEW key
    PROVE  LET g == GetField(heads, use_tstr, key)
           IN  /\ g.ok => ValueOf(heads, use_tstr, key) = <<g.field>>
               /\ ~g.ok => ValueOf(heads, use_tstr, key) = <<>>
<1> DEFINE top == TopLevel(Bytes(heads))
           tag == ReadTag(top)
           map == ReadMap(tag.ctx)
           s == [ok |-> TRUE, map |-> map.val, field |-> NullRange]
           none == [ok |-> FALSE, map |-> <<>>, field |-> NullRange]
           g == GetField(heads, use_tstr, key)
<1>1. top \in Cursor /\ top.r = heads /\ top.index = 0 /\ top.count = 1
    <2>1. Heads(Bytes(heads)) = heads
        BY DEF Heads, Bytes, NullRange
    <2> QED
        BY <2>1, TopLevelCursor
<1>2. g = IF ~tag.ok THEN none
          ELSE IF tag.val # SUIT_ENVELOPE_TAG \/ ~map.ok THEN none
          ELSE FieldLoop(s, use_tstr, key)
    BY Zenon DEF GetField, FieldLoop
<1>3. tag.ok <=> heads # <<>> /\ IsTag(heads[1])
    <2> HIDE DEF top
    <2>1. tag.ok <=> top.index # top.count /\ top.r # <<>> /\ IsTag(top.r[1])
        BY <1>1, ReadTagWhen
    <2> HIDE DEF tag
    <2> QED
        BY <1>1, <2>1
<1>4. tag.ok => /\ tag.val = heads[1].val /\ tag.ctx \in Cursor /\ tag.ctx.r = Tail(heads)
                /\ tag.ctx.index = 0 /\ tag.ctx.count = 1
    <2> HIDE DEF top
    <2>1. tag.ok => /\ tag.val = top.r[1].val /\ tag.ctx \in Cursor /\ tag.ctx.r = Tail(top.r)
                    /\ tag.ctx.index = top.index /\ tag.ctx.count = top.count
        BY <1>1, ReadTagCursor
    <2> HIDE DEF tag
    <2> QED
        BY <1>1, <2>1
<1> HIDE DEF tag
<1>5. tag.ok => /\ map.ok <=> Len(heads) >= 2 /\ IsMap(heads[2]) /\ 2 * heads[2].val < Modulus
                /\ map.ok => /\ map.val \in Cursor /\ map.val.r = Tail(Tail(heads))
                             /\ map.val.index = 0 /\ map.val.count = 2 * heads[2].val
                             /\ Tail(Tail(heads)) \in Seq(CborHead)
    <2> SUFFICES ASSUME tag.ok
                 PROVE  /\ map.ok <=> Len(heads) >= 2 /\ IsMap(heads[2]) /\ 2 * heads[2].val < Modulus
                        /\ map.ok => /\ map.val \in Cursor /\ map.val.r = Tail(Tail(heads))
                                     /\ map.val.index = 0 /\ map.val.count = 2 * heads[2].val
                                     /\ Tail(Tail(heads)) \in Seq(CborHead)
        OBVIOUS
    <2> DEFINE c == tag.ctx
    <2>1. /\ map.ok = (/\ c.index # c.count /\ c.r # <<>> /\ IsMap(c.r[1]) /\ 2 * c.r[1].val < Modulus)
          /\ map.ok => /\ map.val \in Cursor /\ map.val.r = Tail(c.r)
                       /\ map.val.index = 0 /\ map.val.count = 2 * c.r[1].val
        BY <1>4, ReadMapCursor
    <2>2. c.index # c.count /\ c.r = Tail(heads)
        BY <1>4
    <2>3. /\ Tail(heads) # <<>> <=> Len(heads) >= 2
          /\ Tail(heads) # <<>> => Tail(heads)[1] = heads[2] /\ Tail(Tail(heads)) \in Seq(CborHead)
        BY <1>3, SecondHead
    <2> HIDE DEF map, c
    <2>4. map.ok <=> Tail(heads) # <<>> /\ IsMap(Tail(heads)[1]) /\ 2 * Tail(heads)[1].val < Modulus
        BY <2>1, <2>2
    <2>5. map.ok => /\ map.val \in Cursor /\ map.val.r = Tail(Tail(heads))
                    /\ map.val.index = 0 /\ map.val.count = 2 * Tail(heads)[1].val
        BY <2>1, <2>2
    <2> QED
        BY <2>3, <2>4, <2>5
<1> HIDE DEF map
<1>6. tag.ok /\ tag.val = SUIT_ENVELOPE_TAG /\ map.ok <=> HasMap(heads)
    <2>1. HasMap(heads) => heads # <<>>
        BY DEF HasMap
    <2> QED
        BY <1>3, <1>4, <1>5, <2>1 DEF HasMap
<1>7. CASE ~HasMap(heads)
    <2>1. g = none
        <3> HIDE DEF g, none, s
        <3> QED
            BY <1>2, <1>6, <1>7
    <2>2. ValueOf(heads, use_tstr, key) = <<>>
        BY <1>7, ValueOfNone
    <2>3. ~none.ok
        OBVIOUS
    <2> HIDE DEF g, none
    <2> QED
        BY <2>1, <2>2, <2>3 DEF g
<1>8. CASE HasMap(heads)
    <2> DEFINE at == EntriesOf(heads)
               n == heads[2].val
               e == FieldLoop(s, use_tstr, key)
    <2>1. g = e
        <3> HIDE DEF g, none, s, e
        <3> QED
            BY <1>2, <1>6, <1>8 DEF e
    <2>2. n \in Nat
        BY <1>8, HeadType DEF HasMap, Count
    <2>3. /\ map.val \in Cursor /\ map.val.r = Tail(Tail(heads)) /\ map.val.index = 0
          /\ map.val.count = 2 * n /\ Tail(Tail(heads)) \in Seq(CborHead)
        BY <1>5, <1>6, <1>8
    <2>4. /\ at \in [0 .. n -> Seq(CborHead)] /\ at[0] = Tail(Tail(heads))
          /\ \A k \in 0 .. (n - 1) : at[k + 1] = AfterPair(at[k])
        BY <2>2, <2>3, PairsOfPlaces DEF EntriesOf
    <2> HIDE DEF at, n
    <2>5. s \in EntryStates /\ s.ok /\ s.map = map.val /\ s.field = NullRange
        BY <2>3 DEF EntryStates, ByteRange
    <2>6. PassedEntries(at, n, use_tstr, key, s)
        <3> HIDE DEF s
        <3>1. LastHit(at, 0, use_tstr, key, s.field) /\ \A j \in 1 .. 0 : ~BadEntry(at[j - 1], use_tstr, key)
            BY <2>5 DEF LastHit
        <3>2. 0 \in 0 .. n /\ s.map.index = 2 * 0 /\ s.map.r = at[0] /\ s.map.count = 2 * n
            BY <2>2, <2>3, <2>4, <2>5, SMTT(30)
        <3> QED
            BY <2>5, <3>1, <3>2 DEF PassedEntries
    <2>7. e \in EntryStates /\ PassedEntries(at, n, use_tstr, key, e) /\ (e.ok => AtEnd(e.map))
        <3> HIDE DEF s
        <3> QED
            BY <2>2, <2>4, <2>5, <2>6, FieldLoopPasses
    <2> HIDE DEF e, g
    <2>8. CASE ~e.ok
        <3>1. \E j \in 1 .. n : BadEntry(at[j - 1], use_tstr, key)
            BY <2>7, <2>8 DEF PassedEntries
        <3>2. ValueOf(heads, use_tstr, key) = <<>>
            BY <1>8, <3>1, ValueOfMap DEF at, n
        <3> QED
            BY <2>1, <2>8, <3>2 DEF g
    <2>9. CASE e.ok
        <3>1. PICK k \in 0 .. n : /\ e.map.index = 2 * k
                                  /\ LastHit(at, k, use_tstr, key, e.field)
                                  /\ \A j \in 1 .. k : ~BadEntry(at[j - 1], use_tstr, key)
            BY <2>7, <2>9 DEF PassedEntries
        <3>2. k = n
            <4>1. e.map.count = 2 * n /\ e.map.index = e.map.count
                BY <2>7, <2>9 DEF PassedEntries, AtEnd
            <4> QED
                BY <2>2, <3>1, <4>1
        <3>3. ValueOf(heads, use_tstr, key) = <<e.field>>
            BY <1>8, <3>1, <3>2, ValueOfMap DEF at, n
        <3> QED
            BY <2>1, <2>9, <3>3 DEF g
    <2> QED
        BY <2>8, <2>9
<1> QED
    BY <1>7, <1>8

\* What a lookup by name left.
PayloadRead ==
    /\ envelope \in Envelope
    /\ stage # "read" => payload = Failed
    /\ stage \in {"command", "parameter"} => reader.ok
    /\ stage = "read" =>
          \/ payload = Failed /\ reader.ok
          \/ payload.ok /\ ValueOf(envelope.heads, TRUE, payload.ctx) = <<payload.val>>
          \/ payload = Failed /\ \E name \in PayloadName : ValueOf(envelope.heads, TRUE, name) = <<>>

LEMMA PayloadReadStep == PayloadRead /\ [Next]_vars => PayloadRead'
<1> SUFFICES ASSUME PayloadRead, [Next]_vars PROVE PayloadRead'
    OBVIOUS
<1>1. CASE UNCHANGED vars
    BY <1>1 DEF PayloadRead, vars
<1>2. CASE Authenticate
    BY <1>2 DEF PayloadRead, Authenticate
<1>3. CASE AddEnvelope
    BY <1>3 DEF PayloadRead, AddEnvelope
<1>4. CASE OpenSequence
    BY <1>4 DEF PayloadRead, OpenSequence, Done
<1>5. CASE ReadCommand
    <2>1. /\ stage = "command" /\ payload' = payload /\ envelope' = envelope
          /\ (stage' = "parameter" /\ reader'.ok) \/ stage' = "error"
        BY <1>5 DEF ReadCommand, Done
    <2> QED
        BY <2>1 DEF PayloadRead
<1>6. CASE SkipParameter
    <2>1. /\ stage = "parameter" /\ payload' = payload /\ envelope' = envelope
          /\ (stage' = "command" /\ reader'.ok) \/ stage' = "error"
        BY <1>6 DEF SkipParameter, Done
    <2> QED
        BY <2>1 DEF PayloadRead
<1>7. CASE EndSequence
    BY <1>7 DEF PayloadRead, EndSequence
<1>8. ASSUME NEW name \in PayloadName, GetPayload(name)
      PROVE  PayloadRead'
    <2> DEFINE f == GetFieldByName(envelope.heads, name)
    <2>1. /\ payload' = IF f.ok THEN Done(name, f.field) ELSE Failed
          /\ stage' = "read" /\ envelope' = envelope
        BY <1>8 DEF GetPayload
    <2>2. envelope.heads \in Seq(CborHead) /\ envelope \in Envelope
        BY EnvelopeHeads DEF PayloadRead
    <2>3. /\ f.ok => ValueOf(envelope.heads, TRUE, name) = <<f.field>>
          /\ ~f.ok => ValueOf(envelope.heads, TRUE, name) = <<>>
        BY <2>2, GetFieldExact DEF GetFieldByName
    <2> HIDE DEF f
    <2>4. CASE f.ok
        <3>1. payload'.ok /\ payload'.ctx = name /\ payload'.val = f.field
            BY <2>1, <2>4 DEF Done
        <3> QED
            BY <2>1, <2>2, <2>3, <2>4, <3>1 DEF PayloadRead
    <2>5. CASE ~f.ok
        BY <2>1, <2>2, <2>3, <2>5 DEF PayloadRead
    <2> QED
        BY <2>4, <2>5
<1> QED
    BY <1>1, <1>2, <1>3, <1>4, <1>5, <1>6, <1>7, <1>8 DEF Next

\* A lookup of a payload by name gives the last byte string of that name and no
\* other, and fails exactly when the envelope gives the name no meaning: for every
\* envelope, whatever its length and nesting.
THEOREM PayloadsFoundExactly == Spec => []PayloadAsReference
<1>1. Init => PayloadRead
    BY DEF Init, PayloadRead
<1>2. PayloadRead => PayloadAsReference
    <2> SUFFICES ASSUME PayloadRead PROVE PayloadAsReference
        OBVIOUS
    <2>1. ~Failed.ok
        BY DEF Failed
    <2> QED
        BY <2>1 DEF PayloadRead, PayloadAsReference
<1> QED
    BY <1>1, <1>2, PayloadReadStep, PTL DEF Spec
=============================================================================
