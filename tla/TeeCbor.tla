------------------------------- MODULE TeeCbor -------------------------------
(***************************************************************************)
(* The CBOR reader (lib/include/teecbor.h, lib/cbor/teecbor.c).            *)
(*                                                                         *)
(* Bytes are the sequence of heads they encode, in pre-order.  A head has  *)
(* a major type, the value of its argument and, if it is a byte string,    *)
(* the heads in it; what is left when a head is cut off, reserved or of    *)
(* indefinite length is a head of type Unreadable.  A range is a tuple: <<>> *)
(* for the null range, <<heads>> for one that begins somewhere.            *)
(*                                                                         *)
(* A context reads the items of one array or map: the heads from its       *)
(* cursor to the end of the range, the items read and their number.  An    *)
(* operator that reads returns ok and, if so, the context after the item   *)
(* and its value; a context that failed keeps its cursor (tcbor_fail).     *)
(***************************************************************************)
EXTENDS Integers, Sequences

CONSTANTS
    Modulus,    \* values and counts are below it: 2^64
    INT_MAX,    \* the largest int: 2^31 - 1
    CborHead    \* the heads that occur: [mt, val, body]

Unreadable == 8

ASSUME TeeCborAssumption ==
    /\ Modulus \in Nat \ {0} /\ INT_MAX \in Nat
    /\ Modulus >= 2 * (INT_MAX + 1)
    /\ \A h \in CborHead : h.mt \in 0 .. Unreadable /\ h.val \in 0 .. (Modulus - 1)
    /\ {h.body : h \in CborHead} \subseteq Seq(CborHead)

IsUint(h)  == h.mt = 0
IsNint(h)  == h.mt = 1
IsBstr(h)  == h.mt = 2
IsTstr(h)  == h.mt = 3
IsArray(h) == h.mt = 4
IsMap(h)   == h.mt = 5
IsTag(h)   == h.mt = 6

NullRange == <<>>
Bytes(heads) == <<heads>>
Heads(range) == IF range = NullRange THEN <<>> ELSE range[1]

Failed == [ok |-> FALSE]
Done(ctx, val) == [ok |-> TRUE, ctx |-> ctx, val |-> val]

----------------------------------------------------------------------------
(* Counting                                                                *)

Overflow == -1

\* Mutant: the sum is not checked.
CheckedAddUnchecked(count, c) == (count + c) % Modulus

\* The check of tcbor_primitive_skip and tcbor_read_map: the sum wraps around at
\* Modulus, and a sum below its first term is taken for an overflow.
CheckedAdd(count, c) ==
    LET sum == (count + c) % Modulus IN IF sum < count THEN Overflow ELSE sum

----------------------------------------------------------------------------
(* Reading                                                                 *)

\* tcbor_primitive_read_any
Readable(heads) == heads # <<>> /\ heads[1].mt # Unreadable

\* Mutant: the members of a map are counted once.
CountAfterMapOnce(h, count) ==
    IF IsTag(h) THEN count
    ELSE IF IsArray(h) \/ IsMap(h) THEN CheckedAdd(count - 1, h.val)
    ELSE count - 1

\* Items that tcbor_primitive_skip has left to skip after a head.
CountAfter(h, count) ==
    IF IsTag(h) THEN count
    ELSE IF IsArray(h) THEN CheckedAdd(count - 1, h.val)
    ELSE IF IsMap(h)
         THEN LET once == CheckedAdd(count - 1, h.val)
              IN  IF once = Overflow THEN Overflow ELSE CheckedAdd(once, h.val)
    ELSE count - 1

\* The heads after count items, which may be nested and tagged.
PrimitiveSkip(heads, count) ==
    LET left[i \in 0 .. Len(heads)] ==   \* items left after i heads
            IF i = 0 THEN count
            ELSE LET n == left[i - 1]
                 IN  IF n \in {0, Overflow} THEN n
                     ELSE IF heads[i].mt = Unreadable THEN Overflow
                     ELSE CountAfter(heads[i], n)
        ends == {i \in 0 .. Len(heads) : left[i] = 0}
    IN  IF ends = {} THEN Failed
        ELSE LET n == CHOOSE i \in ends : \A j \in ends : i <= j
             IN  Done(SubSeq(heads, n + 1, Len(heads)), SubSeq(heads, 1, n))

Context(heads, count) == [r |-> heads, index |-> 0, count |-> count]
TopLevel(range) == Context(Heads(range), 1)
AtEnd(ctx) == ctx.index = ctx.count

\* One head; a tag is not an item of its own.
ReadAny(ctx) ==
    IF AtEnd(ctx) \/ ~Readable(ctx.r) THEN Failed
    ELSE Done([ctx EXCEPT !.r = Tail(@),
                          !.index = IF IsTag(ctx.r[1]) THEN @ ELSE @ + 1],
              ctx.r[1])

\* A head of the type asked for.
ReadUint(ctx) ==
    LET x == ReadAny(ctx) IN IF x.ok /\ IsUint(x.val) THEN Done(x.ctx, x.val.val) ELSE Failed
ReadTag(ctx) ==
    LET x == ReadAny(ctx) IN IF x.ok /\ IsTag(x.val) THEN Done(x.ctx, x.val.val) ELSE Failed
ReadBstr(ctx) ==
    LET x == ReadAny(ctx)
    IN  IF x.ok /\ IsBstr(x.val) THEN Done(x.ctx, Bytes(x.val.body)) ELSE Failed

\* The conversion of a value to int, as two's complement.
ToInt(n) ==
    LET low == n % (2 * (INT_MAX + 1))
    IN  IF low > INT_MAX THEN low - 2 * (INT_MAX + 1) ELSE low

\* The test converts the int back: a value at the top of its range passes it with
\* the sign changed.
ReadInt(ctx) ==
    LET x == ReadAny(ctx)
    IN  IF ~x.ok \/ ~(IsUint(x.val) \/ IsNint(x.val)) THEN Failed
        ELSE LET v == x.val.val
                 r == IF IsUint(x.val) THEN ToInt(v) ELSE ToInt(Modulus - 1 - v)
                 back == IF IsUint(x.val) THEN r ELSE -1 - r
             IN  IF back % Modulus = v THEN Done(x.ctx, r) ELSE Failed

\* An array or a map: the value is the context of its items.
ReadArray(ctx) ==
    LET x == ReadAny(ctx)
    IN  IF x.ok /\ IsArray(x.val) THEN Done(x.ctx, Context(x.ctx.r, x.val.val)) ELSE Failed
ReadMap(ctx) ==
    LET x == ReadAny(ctx)
        n == CheckedAdd(x.val.val, x.val.val)
    IN  IF x.ok /\ IsMap(x.val) /\ n # Overflow THEN Done(x.ctx, Context(x.ctx.r, n)) ELSE Failed

\* The parent goes on where the child has ended, which must be at its last item.
Close(parent, child) ==
    IF AtEnd(child) THEN Done([parent EXCEPT !.r = child.r], TRUE) ELSE Failed

\* count items; the value is the heads that were skipped.
Skip(ctx, count) ==
    LET s == PrimitiveSkip(ctx.r, count)
    IN  IF ctx.count - ctx.index < count \/ ~s.ok THEN Failed
        ELSE Done([ctx EXCEPT !.r = s.ctx, !.index = @ + count], s.val)
SkipAll(ctx) == Skip(ctx, ctx.count - ctx.index)
ReadSubobject(ctx) ==
    LET s == Skip(ctx, 1) IN IF s.ok THEN Done(s.ctx, Bytes(s.val)) ELSE Failed
=============================================================================
