------------------------------ MODULE SuitItems -------------------------------
(***************************************************************************)
(* What the bytes of an envelope mean, without a cursor, a counter of open *)
(* items or a loop with an early exit: an item is a shortest sequence of   *)
(* heads in which every head has all its members, a command sequence or a  *)
(* map is so many pairs of a head and an item.  Integers do not wrap.      *)
(***************************************************************************)
EXTENDS SuitParser

----------------------------------------------------------------------------
(* Items                                                                   *)

\* Items a head adds to those that are still to come, with no bound.
Members(h) == IF IsArray(h) THEN h.val ELSE IF IsMap(h) THEN 2 * h.val ELSE 0
TrueCount(h, count) == IF IsTag(h) THEN count ELSE count - 1 + Members(h)

\* The number of items still to come after each head, of count items.
ItemsLeft(heads, count) ==
    LET left[i \in 0 .. Len(heads)] ==
            IF i = 0 THEN count
            ELSE IF left[i - 1] = 0 THEN 0 ELSE TrueCount(heads[i], left[i - 1])
    IN  left

\* After n heads exactly count items have been passed, not before; all of these
\* heads can be read, and the number of items left never outgrows a uint64_t.
Passed(heads, count, n) ==
    LET left == ItemsLeft(heads, count)
    IN  /\ n \in 0 .. Len(heads) /\ left[n] = 0
        /\ \A i \in 0 .. (n - 1) : left[i] \in 1 .. (Modulus - 1) /\ heads[i + 1].mt # Unreadable

\* The first item of a sequence of heads, and what follows it.
HasItem(heads) == \E n \in 0 .. Len(heads) : Passed(heads, 1, n)
ItemLen(heads) == CHOOSE n \in 0 .. Len(heads) : Passed(heads, 1, n)
AfterItem(heads) == SubSeq(heads, ItemLen(heads) + 1, Len(heads))

\* A head and an item: a command and its parameter, or a key and its value.
IsPair(heads) == heads # <<>> /\ HasItem(Tail(heads))
AfterPair(heads) == IF IsPair(heads) THEN AfterItem(Tail(heads)) ELSE <<>>

\* What is left after each of n pairs.
PairsOf(heads, n) ==
    LET at[k \in 0 .. n] == IF k = 0 THEN heads ELSE AfterPair(at[k - 1])
    IN  at

----------------------------------------------------------------------------
(* Command sequences and fields.  A meaning is a tuple: <<>> for "none".   *)

IsCommandPair(heads) == IsPair(heads) /\ IsUint(heads[1]) /\ heads[1].val <= INT_MAX

\* The commands of a sequence: an array of commands, each with its parameter.
CommandsOf(range) ==
    LET heads == Heads(range)
        count == heads[1].val
        at == PairsOf(Tail(heads), count)
    IN  IF heads = <<>> THEN <<>>
        ELSE IF \/ ~IsArray(heads[1]) \/ count % 2 = 1
                \/ \E k \in 1 .. (count \div 2) : ~IsCommandPair(at[k - 1]) THEN <<>>
        ELSE <<[k \in 1 .. (count \div 2) |-> at[k - 1][1].val]>>

\* An entry of a map; a key is a single head.
IsEntry(heads) == IsPair(heads) /\ heads[1].mt # Unreadable /\ ~IsTag(heads[1])

\* The byte string under a key, the last one if the key is repeated; the null range
\* if there is none.  Every value under the key is a byte string.
ValueOf(heads, use_tstr, key) ==
    LET n == heads[2].val
        at == PairsOf(Tail(Tail(heads)), n)
        hits == {k \in 1 .. n : at[k - 1][1].mt = (IF use_tstr THEN 3 ELSE 0) /\ at[k - 1][1].val = key}
        last == CHOOSE k \in hits : \A j \in hits : j <= k
    IN  IF Len(heads) < 2 THEN <<>>
        ELSE IF \/ ~IsTag(heads[1]) \/ heads[1].val # SUIT_ENVELOPE_TAG
                \/ ~IsMap(heads[2]) \/ 2 * n >= Modulus
                \/ \E k \in 1 .. n : ~IsEntry(at[k - 1]) THEN <<>>
        ELSE IF \E k \in hits : ~IsBstr(at[k - 1][2]) THEN <<>>
        ELSE <<IF hits = {} THEN NullRange ELSE Bytes(at[last - 1][2].body)>>

----------------------------------------------------------------------------
(* Properties                                                              *)

\* A command sequence that is read to its end yields its commands, each once and
\* in order, whatever their parameters are; one that cannot be read is in error.
SequenceAsReference ==
    /\ stage = "read" /\ reader.ok => \E s \in Sequences : CommandsOf(s) = <<reader.val>>
    /\ stage = "error" => \E s \in Sequences : CommandsOf(s) = <<>>

\* The payload a local uri names is the last byte string of the envelope with that
\* name, and the null range if there is none; the lookup fails if the map cannot be
\* read to its end or the name stands for something else.
PayloadAsReference ==
    /\ stage = "read" /\ payload.ok =>
          ValueOf(envelope.heads, TRUE, payload.ctx) = <<payload.val>>
    /\ stage = "read" /\ ~payload.ok /\ ~reader.ok =>
          \E name \in PayloadName : ValueOf(envelope.heads, TRUE, name) = <<>>

\* Once a manifest is parsed, its lists of dependencies and of components fit the
\* arrays of suit_manifest_t they are stored in.
ListsFit ==
    stage \in {"added", "command", "parameter", "read", "error"} =>
        \A list \in DOMAIN manifest["common"] \cap {"dependencies", "components"} :
            Len(manifest["common"][list]) <= IF list = "dependencies" THEN SUIT_DEPENDENCY_MAX
                                             ELSE SUIT_COMPONENT_MAX

=============================================================================
