-------------------------- MODULE TeecDirectProofs --------------------------
(***************************************************************************)
(* Proofs about the PC and SGX shims: what the agent's entry point writes  *)
(* fits in the client's buffers, and both shims implement TeecCall, for    *)
(* every operation a client may bring.                                     *)
(***************************************************************************)
EXTENDS TeecDirect, TeecParamsProofs

----------------------------------------------------------------------------
(* The invariant: while a call is under way the client's operation is as   *)
(* it brought it, and the TA works on a copy made from it.                 *)

InCall == client \in {"called", "served"}

CopyOfOperation ==
    /\ InCall => operation \in ClientOp /\ ta = "alive"
    /\ client = "called" => params = prepare_params(operation)
    /\ client = "served" =>
           /\ outcome \in Outcome(command, operation.types, prepare_params(operation))
           /\ params = outcome.params

\* Before the first call there is nothing to copy.
LEMMA CopyInit == DirectInit => CopyOfOperation
  BY DEF DirectInit, CopyOfOperation, InCall

\* Every step of the shim and of the TA keeps the copies consistent.
LEMMA CopyNext == CopyOfOperation /\ [DirectNext]_directVars => CopyOfOperation'
<1> SUFFICES ASSUME CopyOfOperation, [DirectNext]_directVars PROVE CopyOfOperation'
  OBVIOUS
<1>1. CASE InitializeContext \/ OpenSession \/ CloseSession
  BY <1>1 DEF InitializeContext, OpenSession, CloseSession, dataVars, CopyOfOperation, InCall
<1>2. ASSUME NEW cmd \in Command, NEW op \in ClientOp, InvokeCommand(cmd, op)
      PROVE  CopyOfOperation'
  BY <1>2 DEF InvokeCommand, CopyOfOperation, InCall
<1>3. ASSUME NEW cmd \in Command, NEW op \in ClientOp, InvokeDead(cmd, op)
      PROVE  CopyOfOperation'
  BY <1>3 DEF InvokeDead, CopyOfOperation, InCall
<1>4. CASE ServeCommand
  BY <1>4 DEF ServeCommand, CopyOfOperation, InCall
<1>5. CASE TaDies
  BY <1>5 DEF TaDies, CopyOfOperation, InCall
<1>6. CASE InvokeReturn
  BY <1>6 DEF InvokeReturn, CopyOfOperation, InCall
<1>7. CASE UNCHANGED directVars
  BY <1>7 DEF directVars, CopyOfOperation, InCall
<1>8. QED
  BY <1>1, <1>2, <1>3, <1>4, <1>5, <1>6, <1>7 DEF DirectNext

\* The TA's parameters come from the operation of the call under way, on both
\* platforms and in every order of calls and faults.
THEOREM CopyInvariant == DirectSpec => []CopyOfOperation
<1>1. QED
  BY CopyInit, CopyNext, PTL DEF DirectSpec

\* Whatever the sizes of the client's buffers and of the agent's tasks, nothing is
\* copied past the end of either copy.
THEOREM OutputsAlwaysFit == DirectSpec => []OutputsFit
<1>1. CopyOfOperation => OutputsFit
  <2> SUFFICES ASSUME CopyOfOperation, client = "served", NEW i \in Index,
                      operation.types[i] \in Mem
               PROVE  /\ params[i].size <= operation.params[i].size
                      /\ params[i].size <= Len(params[i].buffer)
    BY DEF OutputsFit
  <2> DEFINE prepared == prepare_params(operation)
  <2>1. operation \in Operation
    BY TeecDirectAssumption DEF CopyOfOperation, InCall
  <2>2. \A k \in Index : Sized(prepared[k])
    BY <2>1, PreparedSizes
  <2>3. prepared[i].size = operation.params[i].size
    BY <2>1, PreparedSizes
  <2>4. prepared = [k \in Index |-> prepared[k]]
    BY DEF prepare_params
  <2>5. outcome \in Outcome(command, operation.types, prepared) /\ params = outcome.params
    BY DEF CopyOfOperation
  <2> HIDE DEF prepared
  <2>6. Sized(outcome.params[i]) /\ outcome.params[i].size <= prepared[i].size
    BY <2>2, <2>4, <2>5, OutcomeFits
  <2>7. QED
    BY <2>3, <2>5, <2>6 DEF Sized
<1>2. QED
  BY <1>1, CopyInvariant, PTL

----------------------------------------------------------------------------
(* Both shims implement TeecCall.                                          *)

\* TeecCall brings its own copy of the definitions of TeecParams: they are the same.
LEMMA SameNullOperation == Call!NullOperation = NullOperation
  BY DEF Call!NullOperation, NullOperation, Call!NoParam, NoParam, Call!Index, Index

\* The copies into and out of the TA are those of TeecParams.
LEMMA SameCopies ==
    ASSUME NEW op, NEW ps
    PROVE  /\ Call!prepare_params(op) = prepare_params(op)
           /\ Call!writeback_params(op, ps) = writeback_params(op, ps)
<1>1. Call!prepare_params(op) = prepare_params(op)
  BY DEF Call!prepare_params, prepare_params, Call!Index, Index, Call!ValueIn, ValueIn,
         Call!MemIn, MemIn, Call!MemOut, MemOut, Call!Mem, Mem, Call!Filled, Filled
<1>2. Call!writeback_params(op, ps) = writeback_params(op, ps)
  BY DEF Call!writeback_params, writeback_params, Call!Index, Index, Call!ValueOut, ValueOut,
         Call!MemOut, MemOut, Call!Overwrite, Overwrite
<1>3. QED
  BY <1>1, <1>2

\* The outcomes of a command are those of TeecParams.
LEMMA SameOutcome ==
    ASSUME NEW cmd, NEW types, NEW ps
    PROVE  Call!Outcome(cmd, types, ps) = Outcome(cmd, types, ps)
<1>1. Call!QueryOutcome(ps) = QueryOutcome(ps)
  BY DEF Call!QueryOutcome, QueryOutcome, Call!TaskCopied, TaskCopied, Call!copyout_param,
         copyout_param, Call!Overwrite, Overwrite
<1>2. Call!ReachesSession(cmd, types, ps) = ReachesSession(cmd, types, ps)
  BY DEF Call!ReachesSession, ReachesSession, Call!Terminated, Terminated, Call!LastByte, LastByte,
         Call!SetDevOptionTypes, SetDevOptionTypes, Call!TaskDoneTypes, TaskDoneTypes,
         Call!QueryTypes, QueryTypes, Call!Types, Types
<1>3. QED
  BY <1>1, <1>2 DEF Call!Outcome, Outcome, Call!AgentCommand, AgentCommand

\* A step of the shim is a step of the abstract call, or a stutter.
LEMMA CallStep ==
    ASSUME CopyOfOperation, [DirectNext]_directVars
    PROVE  [Call!CallNext]_Call!callVars
<1>1. CASE InitializeContext \/ OpenSession \/ CloseSession
  BY <1>1 DEF InitializeContext, OpenSession, CloseSession, dataVars, Call!callVars
<1>2. ASSUME NEW cmd \in Command, NEW op \in ClientOp, InvokeCommand(cmd, op)
      PROVE  Call!Invoke(cmd, op)
  BY <1>2 DEF InvokeCommand, Call!Invoke
<1>3. ASSUME NEW cmd \in Command, NEW op \in ClientOp, InvokeDead(cmd, op)
      PROVE  Call!Invoke(cmd, op)
  BY <1>3 DEF InvokeDead, Call!Invoke, Result, Call!Result
<1>4. CASE ServeCommand
  <2>1. Call!Serve
    BY <1>4, SameCopies, SameOutcome DEF ServeCommand, Call!Serve, CopyOfOperation, InCall
  <2>2. QED
    BY <2>1 DEF Call!CallNext
<1>5. CASE TaDies
  <2>1. Call!Die
    BY <1>5 DEF TaDies, Call!Die, CopyOfOperation, InCall, Call!Result
  <2>2. QED
    BY <2>1 DEF Call!CallNext
<1>6. CASE InvokeReturn
  <2>1. Call!Return
    BY <1>6, SameCopies DEF InvokeReturn, Call!Return, CopyOfOperation, InCall
  <2>2. QED
    BY <2>1 DEF Call!CallNext
<1>7. CASE UNCHANGED directVars
  BY <1>7 DEF directVars, Call!callVars
<1>8. QED
  BY <1>1, <1>2, <1>3, <1>4, <1>5, <1>6, <1>7 DEF DirectNext, Call!CallNext

\* On the PC and on SGX a TEEC_InvokeCommand is one call of the TA on the client's
\* inputs, with its outputs, or with none after a failure.
THEOREM DirectImplementsCall == DirectSpec => ImplementsCall
<1>1. DirectInit => Call!CallInit
  BY SameNullOperation DEF DirectInit, Call!CallInit
<1>2. CopyOfOperation /\ [DirectNext]_directVars => [Call!CallNext]_Call!callVars
  BY CallStep
<1>3. QED
  BY <1>1, <1>2, CopyInvariant, PTL DEF DirectSpec, ImplementsCall, Call!CallSpec

=============================================================================
