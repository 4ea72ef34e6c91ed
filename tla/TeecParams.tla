----------------------------- MODULE TeecParams -----------------------------
(***************************************************************************)
(* The parameters of a TEEC_InvokeCommand: what the client's operation and *)
(* the TA's copy of it hold, how the shims convert between the two, and    *)
(* what the agent's entry point may do to its copy.                        *)
(*                                                                         *)
(* Buffers are sequences of data.  A parameter is a record of the fields   *)
(* that the unions TEEC_Parameter and TEE_Param can hold: value (a and b), *)
(* buffer and size; size is the size field, which may be smaller than the  *)
(* buffer.                                                                 *)
(***************************************************************************)
EXTENDS Naturals, Sequences

CONSTANTS
    Datum,      \* the values of a byte or of a value parameter
    Zero,       \* the null byte
    Uninit,     \* the content of memory fresh from malloc
    Uri,        \* the uris of the agent's tasks, with their null byte
    PostData    \* the bodies of the agent's tasks

ASSUME TeecParamsAssumption ==
    /\ Zero \in Datum /\ Uninit \in Datum
    /\ Uri \subseteq Seq(Datum) /\ PostData \subseteq Seq(Datum)

Index == 1 .. 4

ValueIn == {"VALUE_INPUT", "VALUE_INOUT"}
ValueOut == {"VALUE_OUTPUT", "VALUE_INOUT"}
MemIn == {"MEMREF_INPUT", "MEMREF_INOUT"}
MemOut == {"MEMREF_OUTPUT", "MEMREF_INOUT"}
Mem == MemIn \cup MemOut
ParamType == {"NONE"} \cup ValueIn \cup ValueOut \cup Mem

Param == {p \in [value : Datum, buffer : Seq(Datum), size : Nat] : p.size <= Len(p.buffer)}
NoParam == [value |-> Zero, buffer |-> <<>>, size |-> 0]

Operation == [types : [Index -> ParamType], params : [Index -> Param]]

\* The broker clears its operations with memset.
NullOperation == [types |-> [i \in Index |-> "NONE"], params |-> [i \in Index |-> NoParam]]

Filled(d, n) == [j \in 1 .. n |-> d]

\* memcpy of data into a buffer, at an offset; nothing is written past its end.
Overwrite(buffer, offset, data) ==
    [j \in DOMAIN buffer |->
        IF j > offset /\ j <= offset + Len(data) THEN data[j - offset] ELSE buffer[j]]

\* The TA's copy of the parameters: inputs are copied, output buffers cleared.
prepare_params(op) ==
    [i \in Index |->
        LET t == op.types[i]  p == op.params[i]
        IN  [value |-> IF t \in ValueIn THEN p.value ELSE Zero,
             buffer |-> IF t \in MemIn THEN SubSeq(p.buffer, 1, p.size)
                        ELSE IF t \in Mem THEN Filled(Zero, p.size) ELSE <<>>,
             size |-> IF t \in Mem THEN p.size ELSE 0]]

\* The client's operation after the outputs have been copied back.
writeback_params(op, params) ==
    [op EXCEPT !.params = [i \in Index |->
        LET t == op.types[i]  p == op.params[i]  q == params[i]
        IN  [value |-> IF t \in ValueOut THEN q.value ELSE p.value,
             buffer |-> IF t \in MemOut
                        THEN Overwrite(p.buffer, 0, SubSeq(q.buffer, 1, q.size)) ELSE p.buffer,
             size |-> IF t \in MemOut THEN q.size ELSE p.size]]]

----------------------------------------------------------------------------
(* TA_InvokeCommandEntryPoint, as far as its parameters go.                *)

Types(a, b, c, d) == <<a, b, c, d>>
SetDevOptionTypes == Types("VALUE_INPUT", "MEMREF_INPUT", "NONE", "NONE")
TaskDoneTypes == Types("MEMREF_INPUT", "NONE", "NONE", "NONE")
QueryTypes == Types("VALUE_OUTPUT", "MEMREF_OUTPUT", "MEMREF_OUTPUT", "NONE")

Result == {"SUCCESS", "BAD_PARAMETERS", "BAD_FORMAT", "BAD_STATE", "NOT_IMPLEMENTED"}
AgentCommand == {"SET_DEV_OPTION", "BROKER_TASK_DONE", "QUERY_NEXT_BROKER_TASK"}

\* Mutant: the size of the client's buffer is not looked at.
CopyoutUnchecked(p, data) ==
    [p EXCEPT !.buffer = Overwrite(p.buffer, 0, data), !.size = Len(data)]

\* Nothing is copied, and the caller fails, when the data does not fit.
copyout_param(p, data) ==
    IF p.size < Len(data) THEN p
    ELSE [p EXCEPT !.buffer = Overwrite(p.buffer, 0, data), !.size = Len(data)]

\* A query hands out a task: a command, a uri and a body, in this order, and
\* stops at the first that does not fit.
TaskCopied(params, command, uri, data) ==
    [params EXCEPT ![1].value = command,
                   ![2] = copyout_param(@, uri),
                   ![3] = IF Len(uri) <= params[2].size THEN copyout_param(@, data) ELSE @]

QueryOutcome(params) ==
    {[result |-> IF Len(uri) <= params[2].size /\ Len(data) <= params[3].size
                 THEN "SUCCESS" ELSE "BAD_PARAMETERS",
      params |-> TaskCopied(params, command, uri, data)] :
        command \in Datum \ {Uninit}, uri \in Uri, data \in PostData}

\* What value[len - 1] may be.  Of an option without bytes it is the byte before the
\* buffer, which may be any (and the read may fault, see TaDies).
LastByte(p) == IF p.size = 0 THEN Datum ELSE {p.buffer[p.size]}

\* The string given with a developer option ends, or seems to end, with its null byte.
Terminated(p) == Zero \in LastByte(p)

\* A handler may pass its checks and turn to the session.
ReachesSession(cmd, types, params) ==
    \/ cmd = "SET_DEV_OPTION" /\ types = SetDevOptionTypes /\ Terminated(params[2])
    \/ cmd = "BROKER_TASK_DONE" /\ types = TaskDoneTypes
    \/ cmd = "QUERY_NEXT_BROKER_TASK" /\ types = QueryTypes

\* A handler may return before it turns to the session.
LeavesSession(cmd, types, params) ==
    \/ ~ReachesSession(cmd, types, params)
    \/ cmd = "SET_DEV_OPTION" /\ LastByte(params[2]) # {Zero}

\* The outcomes of a command: a result, and the TA's parameters afterwards.
Outcome(cmd, types, params) ==
    LET Only(results) == [result : results, params : {params}]
        ok == ReachesSession(cmd, types, params)
    IN  CASE cmd \notin AgentCommand -> Only({"NOT_IMPLEMENTED"})
          [] cmd \in AgentCommand /\ ~ok -> Only({"BAD_PARAMETERS"})
          [] ok /\ cmd = "SET_DEV_OPTION" -> Only({"SUCCESS", "BAD_STATE", "BAD_PARAMETERS"})
          [] ok /\ cmd = "BROKER_TASK_DONE" -> Only({"SUCCESS", "BAD_FORMAT", "BAD_STATE"})
          [] ok /\ cmd = "QUERY_NEXT_BROKER_TASK" -> QueryOutcome(params)

=============================================================================
