---------------------------- MODULE MCTeecDirect ----------------------------
(***************************************************************************)
(* Model checking of the PC and SGX shims.                                 *)
(***************************************************************************)
EXTENDS TeecDirect

CONSTANTS zero, x, u

MCDatum == {zero, x, u}
MCUri == {<<x, zero>>, <<x, x, zero>>}
MCPostData == {<<>>, <<x, x>>, <<x, x, x>>}
MCCommand == AgentCommand \cup {"OTHER"}

In(v) == [value |-> v, buffer |-> <<>>, size |-> 0]
Ref(b) == [value |-> zero, buffer |-> b, size |-> Len(b)]
Op(t1, t2, t3, p1, p2, p3) ==
    [types |-> <<t1, t2, t3, "NONE">>, params |-> <<p1, p2, p3, NoParam>>]

\* The broker's three operations, with options of no bytes and without the null
\* byte, which other clients may bring, with answers of 0 to 3 bytes and with room
\* for some but not all tasks, and a client's operation that goes both ways.
MCClientOp ==
         {Op("VALUE_INPUT", "MEMREF_INPUT", "NONE", In(x), Ref(b), NoParam) :
            b \in {<<>>, <<x, zero>>, <<x>>}}
    \cup {Op("MEMREF_INPUT", "NONE", "NONE", Ref(b), NoParam, NoParam) :
            b \in {<<>>, <<x, x>>, <<x, zero, x>>}}
    \cup {Op("VALUE_OUTPUT", "MEMREF_OUTPUT", "MEMREF_OUTPUT", In(zero),
             Ref(Filled(u, n)), Ref(Filled(u, 2))) : n \in {2, 3}}
    \cup {Op("VALUE_INOUT", "MEMREF_INOUT", "MEMREF_INPUT", In(x),
             Ref(<<x, zero, x>>), Ref(<<x>>))}

=============================================================================
