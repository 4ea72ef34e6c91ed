-------------------------- MODULE MCKeystoneQueue --------------------------
(***************************************************************************)
(* Model checking of the Keystone shim.  Chunks of 2 bytes with buffers of *)
(* 0 to 4: nothing, a part of a chunk, one, one and a part, two.           *)
(***************************************************************************)
EXTENDS KeystoneQueue

CONSTANTS zero, x, y, u

MCDatum == {zero, x, y, u}
MCUri == {<<x, zero>>, <<x, y, x, zero>>}
MCPostData == {<<>>, <<y>>, <<x, y, y>>, <<x, y, x, y>>}
MCCommand == AgentCommand \cup {"OTHER"}

Val(v) == [value |-> v, buffer |-> <<>>, size |-> 0]
Ref(b) == [value |-> zero, buffer |-> b, size |-> Len(b)]
Op(t1, t2, t3, p1, p2, p3) ==
    [types |-> <<t1, t2, t3, "NONE">>, params |-> <<p1, p2, p3, NoParam>>]

MCClientOp ==
         {Op("VALUE_INPUT", "MEMREF_INPUT", "NONE", Val(x), Ref(b), NoParam) :
            b \in {<<>>, <<x, y, zero>>}}
    \cup {Op("MEMREF_INPUT", "NONE", "NONE", Ref(b), NoParam, NoParam) :
            b \in {<<>>, <<y>>, <<x, y, y, x>>}}
    \cup {Op("VALUE_OUTPUT", "MEMREF_OUTPUT", "MEMREF_OUTPUT", Val(zero),
             Ref(Filled(y, n)), Ref(Filled(y, 3))) : n \in {2, 4}}
    \cup {Op("VALUE_INOUT", "MEMREF_INOUT", "MEMREF_INPUT", Val(x),
             Ref(<<x, zero, y>>), Ref(<<y>>))}

=============================================================================
