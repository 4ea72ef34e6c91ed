------------------------ MODULE KeystoneQueueProofs ------------------------
(***************************************************************************)
(* Proofs about the hand-over between client and enclave on Keystone: the  *)
(* unlocked accesses of the enclave are exclusive, and the one condition   *)
(* variable that serves both directions never leaves both threads asleep.  *)
(* For these only the control state matters. The second half follows the   *)
(* data: the operation that the client brings, read and written in chunks, *)
(* is for the TA what prepare_params and writeback_params make of it, so   *)
(* that the queue implements TeecCall.                                     *)
(***************************************************************************)
EXTENDS KeystoneQueue, TeecParamsProofs

\* The places of the two threads, the flags and the set of sleepers.
ControlType ==
    /\ host \in HostState /\ enclave \in EnclaveState
    /\ invoking \in BOOLEAN /\ op_set \in BOOLEAN
    /\ sleeping \subseteq {"host", "enclave"}

\* There is no enclave before the session; the flag is up only inside a call, and
\* then the operation of a command other than EXIT is in the queue.
FlagOwned ==
    /\ host = "start" => enclave = "off"
    /\ invoking => Calling
    /\ invoking /\ current.commandID # "EXIT" => op_set

\* A thread asleep is at its wait, and is owed a change of the flag or a
\* notification.
SleepersOwed ==
    /\ "enclave" \in sleeping => enclave = "pull" /\ (~invoking \/ host = "notify")
    /\ "host" \in sleeping => host = "wait" /\ (invoking \/ enclave = "notify")

HandOver == ControlType /\ FlagOwned /\ SleepersOwed /\ EnclaveOwnsOperation

----------------------------------------------------------------------------

\* The initial state: nobody sleeps, the flag is down.
LEMMA HandOverInit == KeystoneInit => HandOver
  BY DEF KeystoneInit, HandOver, ControlType, FlagOwned, SleepersOwed, EnclaveOwnsOperation,
         HostState, EnclaveState

\* A thread that notifies is awake, so that the sleeper it wakes is the other.
LEMMA NotifyWakesOther ==
  ASSUME NEW t \in {"host", "enclave"}, sleeping \subseteq {t}, NotifyOne
  PROVE  sleeping' = {}
  <1>1. CASE sleeping = {}
    BY <1>1 DEF NotifyOne
  <1>2. CASE sleeping = {t}
    BY <1>2 DEF NotifyOne
  <1> QED
    BY <1>1, <1>2

\* The client's steps preserve the hand-over invariant.
LEMMA HostKeepsHandOver ==
  ASSUME HandOver,
         \/ OpenSession
         \/ \E cmd \in Command, op \in ClientOp : InvokeStart(cmd, op)
         \/ CloseSession \/ HostStep
  PROVE  HandOver'
  <1> USE DEF HandOver, ControlType, FlagOwned, SleepersOwed, EnclaveOwnsOperation, Calling,
              Exiting, HostState, EnclaveState, queueVars, enclaveVars
  <1>1. CASE OpenSession
    BY <1>1 DEF OpenSession
  <1>2. ASSUME NEW cmd \in Command, NEW op \in ClientOp, InvokeStart(cmd, op)
        PROVE  HandOver'
    BY <1>2 DEF InvokeStart, put_invoke_command
  <1>3. CASE CloseSession
    <2>1. current'.commandID = "EXIT"
      BY <1>3 DEF CloseSession, put_invoke_command, InvokeCommand
    <2> QED
      BY <1>3, <2>1 DEF CloseSession, put_invoke_command
  <1>4. CASE HostNotify
    <2>1. sleeping \subseteq {"enclave"}
      BY <1>4 DEF HostNotify
    <2>2. sleeping' = {}
      BY <1>4, <2>1, NotifyWakesOther DEF HostNotify
    <2> QED
      BY <1>4, <2>2 DEF HostNotify
  <1>5. CASE PullResult
    BY <1>5 DEF PullResult
  <1>6. CASE Join
    BY <1>6 DEF Join
  <1> QED
    BY <1>1, <1>2, <1>3, <1>4, <1>5, <1>6 DEF HostStep

\* The enclave's steps preserve the hand-over invariant.
LEMMA EnclaveKeepsHandOver ==
  ASSUME HandOver, EnclaveStep \/ TaDies
  PROVE  HandOver'
  <1> USE DEF HandOver, ControlType, FlagOwned, SleepersOwed, EnclaveOwnsOperation, Calling,
              Exiting, HostState, EnclaveState, queueVars, enclaveVars
  <1>1. CASE Boot
    BY <1>1 DEF Boot
  <1>2. CASE PullCommand
    <2>1. CASE invoking
      BY <1>2, <2>1 DEF PullCommand
    <2>2. CASE ~invoking
      BY <1>2, <2>2 DEF PullCommand
    <2> QED
      BY <2>1, <2>2
  <1>3. CASE PutExit
    BY <1>3 DEF PutExit, put_invoke_command_result
  <1>4. CASE ReadChunk
    BY <1>4 DEF ReadChunk
  <1>5. CASE NextInput
    BY <1>5 DEF NextInput
  <1>6. CASE EntryPoint
    BY <1>6 DEF EntryPoint
  <1>7. CASE WriteChunk
    BY <1>7 DEF WriteChunk
  <1>8. CASE NextOutput
    BY <1>8 DEF NextOutput
  <1>9. CASE PutResult
    BY <1>9 DEF PutResult, put_invoke_command_result
  <1>10. CASE EnclaveNotify
    <2>1. sleeping \subseteq {"host"}
      BY <1>10 DEF EnclaveNotify
    <2>2. sleeping' = {}
      BY <1>10, <2>1, NotifyWakesOther DEF EnclaveNotify
    <2> QED
      BY <1>10, <2>2 DEF EnclaveNotify
  <1>11. CASE EnclaveReturn
    BY <1>11 DEF EnclaveReturn
  <1>12. CASE TaDies
    BY <1>12 DEF TaDies
  <1> QED
    BY <1>1, <1>2, <1>3, <1>4, <1>5, <1>6, <1>7, <1>8, <1>9, <1>10, <1>11, <1>12
    DEF EnclaveStep

\* Whatever the clients' commands and buffers, the queue of teec-keystone.cpp
\* keeps the hand-over invariant.
THEOREM HandOverInvariant == KeystoneSpec => []HandOver
  <1>1. HandOver /\ [KeystoneNext]_keystoneVars => HandOver'
    <2> SUFFICES ASSUME HandOver, [KeystoneNext]_keystoneVars PROVE HandOver'
      OBVIOUS
    <2>1. CASE SpuriousWakeup
      BY <2>1 DEF SpuriousWakeup, HandOver, ControlType, FlagOwned, SleepersOwed,
                  EnclaveOwnsOperation, Calling, Exiting, queueVars, enclaveVars
    <2>2. CASE UNCHANGED keystoneVars
      BY <2>2 DEF keystoneVars, HandOver, ControlType, FlagOwned, SleepersOwed,
                  EnclaveOwnsOperation, Calling, Exiting, queueVars, enclaveVars
    <2> QED
      BY <2>1, <2>2, HostKeepsHandOver, EnclaveKeepsHandOver DEF KeystoneNext
  <1> QED
    BY <1>1, HandOverInit, PTL DEF KeystoneSpec

\* The enclave reads and writes the client's operation, without a lock, only while
\* the client waits inside the call that passed it.
THEOREM OperationExclusive == KeystoneSpec => []EnclaveOwnsOperation
  <1>1. HandOver => EnclaveOwnsOperation
    BY DEF HandOver
  <1> QED
    BY <1>1, HandOverInvariant, PTL

\* No order of notifications, wakeups and commands puts both threads to sleep.
THEOREM NoDeadlock == KeystoneSpec => []NeverBothAsleep
  <1>1. HandOver => NeverBothAsleep
    BY DEF HandOver, SleepersOwed, NeverBothAsleep
  <1> QED
    BY <1>1, HandOverInvariant, PTL

----------------------------------------------------------------------------
(* The invariant of the chunked copies.  Inside a call the operation that  *)
(* the client brought is called.op; the enclave's parameters grow into     *)
(* prepare_params of it, chunk by chunk, and the client's operation grows  *)
(* into writeback_params of the TA's outputs.                              *)

Prepared == prepare_params(called.op)

\* The command in the queue is made from the client's operation, or is EXIT.
QueuedCommand ==
    /\ InCall => /\ called.command \in Command /\ called.op \in ClientOp
                 /\ current = InvokeCommand(called.command, called.op)
    /\ Calling /\ current.commandID = "EXIT" =>
           current = InvokeCommand("EXIT", NullOperation)
    /\ enclave = "write" => InCall
    /\ enclave = "dead" => InCall /\ invoking

\* The operation is a record of four parameters; between the start of the call
\* and the first output it is what the client brought.
OperationKept ==
    /\ operation = [types |-> operation.types,
                    params |-> [i \in Index |->
                        [value |-> operation.params[i].value,
                         buffer |-> operation.params[i].buffer,
                         size |-> operation.params[i].size]]]
    /\ InCall /\ ~Served => operation = called.op

\* The enclave has been past byte j of parameter i.
Passed(i, j) == i < index \/ (i = index /\ j <= offset)

\* The parameters of the enclave, while it reads the inputs.
ReadSoFar ==
    enclave = "read" /\ ~Exiting =>
        /\ index \in 1 .. 5 /\ offset \in Nat
        /\ params = [i \in Index |-> [value |-> Prepared[i].value,
                                      buffer |-> params[i].buffer,
                                      size |-> Prepared[i].size]]
        /\ \A i \in Index :
              /\ params[i].buffer = [j \in 1 .. Prepared[i].size |-> params[i].buffer[j]]
              /\ \A j \in 1 .. Prepared[i].size :
                    (called.op.types[i] \in MemIn => Passed(i, j))
                        => params[i].buffer[j] = Prepared[i].buffer[j]

\* Once the entry point has returned, its outcome stays.
OutcomeKept ==
    InCall /\ Served =>
        [result |-> r, params |-> params]
            \in Outcome(called.command, called.op.types, Prepared)

\* The client's operation, while the enclave writes the outputs.
WrittenSoFar ==
    enclave = "write" =>
        /\ index \in 1 .. 5 /\ offset \in Nat
        /\ operation.types = called.op.types
        /\ \A i \in Index :
              /\ operation.params[i].value = called.op.params[i].value
              /\ operation.params[i].size = called.op.params[i].size
              /\ operation.params[i].buffer =
                    [j \in DOMAIN called.op.params[i].buffer |->
                        IF /\ called.op.types[i] \in MemOut
                           /\ j <= params[i].size
                           /\ Passed(i, j)
                        THEN params[i].buffer[j]
                        ELSE called.op.params[i].buffer[j]]

\* The client is told what the TA returned, and finds its outputs.
AnswerReady ==
    InCall /\ ~invoking =>
        /\ command_result = r
        /\ operation = writeback_params(called.op, params)

CopyInv ==
    /\ QueuedCommand /\ OperationKept /\ ReadSoFar /\ OutcomeKept /\ WrittenSoFar
    /\ AnswerReady

DataInv == HandOver /\ CopyInv

\* Before the first call nothing has been copied.
LEMMA CopyInvInit == KeystoneInit => CopyInv
<1> SUFFICES ASSUME KeystoneInit PROVE CopyInv
  OBVIOUS
<1>1. operation = NullOperation
  BY DEF KeystoneInit
<1>2. OperationKept
  <2>1. \A i \in Index : operation.params[i] = NoParam
    BY <1>1 DEF NullOperation
  <2>2. operation = [types |-> operation.types, params |-> [i \in Index |-> NoParam]]
    BY <1>1 DEF NullOperation
  <2>3. operation = [types |-> operation.types,
                     params |-> [i \in Index |->
                        [value |-> operation.params[i].value,
                         buffer |-> operation.params[i].buffer,
                         size |-> operation.params[i].size]]]
    BY <2>1, <2>2 DEF NoParam
  <2>4. QED
    BY <2>3 DEF KeystoneInit, OperationKept, InCall, Calling
<1>3. QED
  BY <1>2 DEF KeystoneInit, CopyInv, QueuedCommand, ReadSoFar, OutcomeKept, WrittenSoFar,
              AnswerReady, InCall, Calling

\* An operation that a client brings has the shape of one.
LEMMA ClientOpShape ==
    ASSUME NEW op \in ClientOp
    PROVE  /\ op \in Operation
           /\ op = [types |-> op.types,
                    params |-> [i \in Index |-> [value |-> op.params[i].value,
                                                 buffer |-> op.params[i].buffer,
                                                 size |-> op.params[i].size]]]
<1>1. op \in Operation
  BY KeystoneQueueAssumption
<1>2. /\ op = [types |-> op.types, params |-> op.params]
      /\ op.params = [i \in Index |-> op.params[i]]
      /\ \A i \in Index : op.params[i] \in [value : Datum, buffer : Seq(Datum), size : Nat]
  BY <1>1 DEF Operation, Param
<1>3. \A i \in Index : op.params[i] = [value |-> op.params[i].value,
                                       buffer |-> op.params[i].buffer,
                                       size |-> op.params[i].size]
  BY <1>2
<1>4. QED
  BY <1>1, <1>2, <1>3

\* Steps that leave the data of a call alone, and neither begin nor end one.
LEMMA DataQuiet ==
    ASSUME CopyInv, InCall' = InCall, Served' = Served, Calling' = Calling,
           UNCHANGED <<operation, current, invoking, command_result, c, params, index, offset,
                       r, called>>,
           enclave' \in {"read", "write", "dead"} => enclave' = enclave
    PROVE  CopyInv'
<1>1. QueuedCommand' /\ OperationKept'
  BY DEF CopyInv, QueuedCommand, OperationKept
<1>2. ReadSoFar'
  BY DEF CopyInv, ReadSoFar, Exiting, Prepared, Passed
<1>3. OutcomeKept' /\ AnswerReady'
  BY DEF CopyInv, OutcomeKept, AnswerReady, Prepared
<1>4. WrittenSoFar'
  BY DEF CopyInv, WrittenSoFar, Passed
<1>5. QED
  BY <1>1, <1>2, <1>3, <1>4 DEF CopyInv

\* While the client is outside a call, or the flag is down, the enclave is not at
\* a command.
LEMMA EnclaveElsewhere ==
    ASSUME DataInv, ~Calling \/ ~invoking
    PROVE  enclave \notin {"read", "write", "dead"}
  BY DEF DataInv, HandOver, EnclaveOwnsOperation, CopyInv, QueuedCommand, InCall

\* The client's steps: only InvokeStart gives the enclave something to copy.
LEMMA HostKeepsCopies ==
    ASSUME DataInv,
           \/ OpenSession
           \/ \E cmd \in Command, op \in ClientOp : InvokeStart(cmd, op)
           \/ CloseSession \/ HostStep \/ SpuriousWakeup
    PROVE  CopyInv'
<1> USE DEF queueVars, enclaveVars
<1>1. CASE OpenSession
  <2>1. enclave = "off" /\ Calling' = Calling /\ Served' = Served
    BY <1>1 DEF OpenSession, DataInv, HandOver, FlagOwned, Calling, Served
  <2>2. QED
    BY <1>1, <2>1, DataQuiet DEF OpenSession, DataInv, InCall
<1>2. ASSUME NEW cmd \in Command, NEW op \in ClientOp, InvokeStart(cmd, op)
      PROVE  CopyInv'
  <2>1. enclave' = enclave /\ enclave \notin {"read", "write", "dead"}
    BY <1>2, EnclaveElsewhere DEF InvokeStart, Calling
  <2>2. /\ called' = [command |-> cmd, op |-> op] /\ operation' = op /\ invoking' = TRUE
        /\ current' = InvokeCommand(cmd, op) /\ current'.commandID = cmd
    BY <1>2 DEF InvokeStart, put_invoke_command, InvokeCommand
  <2>3. cmd # "EXIT"
    BY KeystoneQueueAssumption
  <2>4. QueuedCommand'
    BY <2>1, <2>2, <2>3 DEF QueuedCommand
  <2>5. OperationKept'
    BY <2>2, ClientOpShape DEF OperationKept
  <2>6. ReadSoFar' /\ OutcomeKept' /\ WrittenSoFar' /\ AnswerReady'
    BY <2>1, <2>2 DEF ReadSoFar, OutcomeKept, WrittenSoFar, AnswerReady, Served
  <2>7. QED
    BY <2>4, <2>5, <2>6 DEF CopyInv
<1>3. CASE CloseSession
  <2>1. enclave' = enclave /\ enclave \notin {"read", "write", "dead"}
    BY <1>3, EnclaveElsewhere DEF CloseSession, Calling
  <2>2. /\ current' = InvokeCommand("EXIT", NullOperation) /\ current'.commandID = "EXIT"
        /\ operation' = operation
    BY <1>3 DEF CloseSession, put_invoke_command, InvokeCommand
  <2>3. OperationKept'
    BY <2>2 DEF DataInv, CopyInv, OperationKept, InCall
  <2>4. QueuedCommand' /\ ReadSoFar' /\ OutcomeKept' /\ WrittenSoFar' /\ AnswerReady'
    BY <2>1, <2>2 DEF QueuedCommand, ReadSoFar, OutcomeKept, WrittenSoFar, AnswerReady, InCall
  <2>5. QED
    BY <2>3, <2>4 DEF CopyInv
<1>4. CASE HostNotify \/ Join \/ SpuriousWakeup \/ (PullResult /\ invoking)
  <2>1. Calling' = Calling /\ Served' = Served
    BY <1>4 DEF HostNotify, Join, SpuriousWakeup, PullResult, Calling, Served
  <2>2. QED
    BY <1>4, <2>1, DataQuiet DEF HostNotify, Join, SpuriousWakeup, PullResult, DataInv, InCall
<1>5. CASE PullResult /\ ~invoking
  <2>1. ~Calling' /\ enclave' = enclave /\ operation' = operation
    BY <1>5 DEF PullResult, Calling
  <2>2. enclave \notin {"read", "write", "dead"}
    BY <1>5, EnclaveElsewhere
  <2>3. OperationKept'
    BY <2>1 DEF DataInv, CopyInv, OperationKept, InCall
  <2>4. QueuedCommand' /\ ReadSoFar' /\ OutcomeKept' /\ WrittenSoFar' /\ AnswerReady'
    BY <2>1, <2>2 DEF QueuedCommand, ReadSoFar, OutcomeKept, WrittenSoFar, AnswerReady, InCall
  <2>5. QED
    BY <2>3, <2>4 DEF CopyInv
<1>6. QED
  BY <1>1, <1>2, <1>3, <1>4, <1>5 DEF HostStep

\* The command in the queue and what it says of the client's parameters.
LEMMA QueuedFacts ==
    ASSUME DataInv, InCall
    PROVE  /\ called.op \in ClientOp /\ called.op \in Operation
           /\ current.commandID = called.command /\ called.command # "EXIT"
           /\ current.types = called.op.types
           /\ Prepared = [i \in Index |-> Prepared[i]]
           /\ \A i \in Index :
                 /\ current.value[i] = Prepared[i].value
                 /\ current.size[i] = Prepared[i].size
                 /\ Prepared[i].size \in Nat
                 /\ Prepared[i].size <= Len(called.op.params[i].buffer)
                 /\ Prepared[i] = [value |-> Prepared[i].value, buffer |-> Prepared[i].buffer,
                                   size |-> Prepared[i].size]
                 /\ Prepared[i].buffer = [j \in 1 .. Prepared[i].size |-> Prepared[i].buffer[j]]
                 /\ Prepared[i].size = IF called.op.types[i] \in Mem
                                       THEN called.op.params[i].size ELSE 0
                 /\ \A j \in 1 .. Prepared[i].size :
                       Prepared[i].buffer[j] = IF called.op.types[i] \in MemIn
                                               THEN called.op.params[i].buffer[j] ELSE Zero
<1>1. /\ called.command \in Command /\ called.op \in ClientOp
      /\ current = InvokeCommand(called.command, called.op)
  BY DEF DataInv, CopyInv, QueuedCommand
<1>2. called.op \in Operation /\ called.command # "EXIT"
  BY <1>1, KeystoneQueueAssumption
<1>3. /\ current.commandID = called.command
      /\ current.types = called.op.types
      /\ \A i \in Index :
            /\ current.value[i] = IF called.op.types[i] \in ValueIn
                                  THEN called.op.params[i].value ELSE Zero
            /\ current.size[i] = IF called.op.types[i] \in Mem
                                 THEN called.op.params[i].size ELSE 0
  BY <1>1 DEF InvokeCommand
<1>4. QED
  BY <1>1, <1>2, <1>3, PreparedShape DEF Prepared

\* The enclave at a command other than EXIT.
LEMMA AtCommandFacts ==
    ASSUME DataInv, enclave \in {"read", "write"}, ~Exiting
    PROVE  InCall /\ invoking /\ c = current
  BY DEF DataInv, HandOver, EnclaveOwnsOperation, InCall, Exiting

\* Steps of the enclave that touch no data.
LEMMA EnclaveQuiet ==
    ASSUME DataInv, Boot \/ EnclaveNotify \/ EnclaveReturn \/ TaDies
           \/ (PullCommand /\ ~invoking)
    PROVE  CopyInv'
<1> USE DEF queueVars
<1>1. CASE TaDies
  <2>1. /\ enclave = "read" /\ ~Exiting /\ enclave' = "dead"
        /\ UNCHANGED <<host, operation, current, invoking, command_result, params, r, called>>
    BY <1>1 DEF TaDies
  <2>2. InCall /\ invoking
    BY <2>1, AtCommandFacts
  <2>3. InCall' /\ invoking' /\ ~Served /\ ~Served' /\ Calling' = Calling
    BY <2>1, <2>2 DEF InCall, Calling, Served
  <2>4. QueuedCommand' /\ OperationKept'
    BY <2>1, <2>2, <2>3 DEF DataInv, CopyInv, QueuedCommand, OperationKept
  <2>5. ReadSoFar' /\ OutcomeKept' /\ WrittenSoFar' /\ AnswerReady'
    BY <2>1, <2>3 DEF ReadSoFar, OutcomeKept, WrittenSoFar, AnswerReady
  <2>6. QED
    BY <2>4, <2>5 DEF CopyInv
<1>2. CASE Boot \/ EnclaveNotify \/ EnclaveReturn \/ (PullCommand /\ ~invoking)
  <2>1. /\ UNCHANGED <<host, operation, current, invoking, command_result, c, params, index,
                       offset, r, called>>
        /\ enclave \notin {"read", "write", "dead"} /\ enclave' \notin {"read", "write", "dead"}
    BY <1>2 DEF Boot, EnclaveNotify, EnclaveReturn, PullCommand
  <2>2. Calling' = Calling /\ InCall' = InCall /\ Served' = Served
    BY <2>1 DEF InCall, Calling, Served
  <2>3. QED
    BY <2>1, <2>2, DataQuiet DEF DataInv
<1>3. QED
  BY <1>1, <1>2

\* The answer to EXIT writes nothing to the client's operation.
LEMMA PutExitKeeps ==
    ASSUME DataInv, PutExit
    PROVE  /\ operation' = operation
           /\ ~InCall /\ ~InCall'
           /\ CopyInv'
<1>1. /\ enclave = "read" /\ enclave' = "notify" /\ Exiting /\ c = current /\ Calling
      /\ host' = host /\ current' = current
  BY DEF PutExit, put_invoke_command_result, DataInv, HandOver, EnclaveOwnsOperation
<1>2. current = InvokeCommand("EXIT", NullOperation)
  BY <1>1 DEF Exiting, DataInv, CopyInv, QueuedCommand
<1>3. \A i \in Index : c.types[i] = "NONE"
  BY <1>1, <1>2 DEF InvokeCommand, NullOperation
<1>4. operation' = operation
  <2>1. operation' = [operation EXCEPT !.params = [i \in Index |->
            [value |-> IF c.types[i] \in ValueOut THEN c.value[i] ELSE operation.params[i].value,
             buffer |-> operation.params[i].buffer,
             size |-> IF c.types[i] \in MemOut THEN c.size[i] ELSE operation.params[i].size]]]
    BY DEF PutExit, put_invoke_command_result
  <2>2. \A i \in Index : c.types[i] \notin ValueOut /\ c.types[i] \notin MemOut
    BY <1>3 DEF ValueOut, MemOut
  <2>3. operation = [types |-> operation.types,
                     params |-> [i \in Index |->
                        [value |-> operation.params[i].value,
                         buffer |-> operation.params[i].buffer,
                         size |-> operation.params[i].size]]]
    BY DEF DataInv, CopyInv, OperationKept
  <2>4. operation' = [operation EXCEPT !.params = [i \in Index |->
                        [value |-> operation.params[i].value,
                         buffer |-> operation.params[i].buffer,
                         size |-> operation.params[i].size]]]
    BY <2>1, <2>2
  <2>5. QED
    BY <2>3, <2>4
<1>5. ~InCall /\ ~InCall'
  BY <1>1 DEF InCall, Exiting
<1>6. CopyInv'
  <2>1. OperationKept'
    BY <1>4, <1>5 DEF DataInv, CopyInv, OperationKept
  <2>2. QueuedCommand'
    BY <1>1, <1>2, <1>5 DEF QueuedCommand
  <2>3. ReadSoFar' /\ OutcomeKept' /\ WrittenSoFar' /\ AnswerReady'
    BY <1>1, <1>5 DEF ReadSoFar, OutcomeKept, WrittenSoFar, AnswerReady
  <2>4. QED
    BY <2>1, <2>2, <2>3 DEF CopyInv
<1>7. QED
  BY <1>4, <1>5, <1>6

\* A command is fetched: the TA's parameters are allocated, nothing is read yet.
LEMMA PullCommandKeeps ==
    ASSUME DataInv, PullCommand, invoking
    PROVE  CopyInv'
<1>1. /\ enclave = "pull" /\ enclave' = "read" /\ c' = current /\ index' = 1 /\ offset' = 0
      /\ params' = [i \in Index |->
            [value |-> current.value[i],
             buffer |-> Filled(IF current.types[i] \in MemIn THEN Uninit ELSE Zero,
                               current.size[i]),
             size |-> current.size[i]]]
      /\ UNCHANGED <<host, operation, current, invoking, command_result, r, called>>
  BY DEF PullCommand, queueVars
<1>2. /\ Calling' = Calling /\ InCall' = InCall /\ ~Served /\ ~Served' /\ Prepared' = Prepared
      /\ Exiting' = (current.commandID = "EXIT")
  BY <1>1 DEF Calling, InCall, Served, Prepared, Exiting
<1>3. QueuedCommand' /\ OperationKept' /\ OutcomeKept' /\ WrittenSoFar' /\ AnswerReady'
  BY <1>1, <1>2 DEF DataInv, CopyInv, QueuedCommand, OperationKept, OutcomeKept, WrittenSoFar,
                    AnswerReady
<1>4. ReadSoFar'
  <2> SUFFICES ASSUME ~Exiting'
               PROVE  ReadSoFar'
    BY DEF ReadSoFar
  <2>1. InCall
    BY <1>2 DEF InCall, DataInv, HandOver, FlagOwned
  <2>2. \A i \in Index :
           /\ params'[i] = [value |-> Prepared[i].value, buffer |-> params'[i].buffer,
                            size |-> Prepared[i].size]
           /\ params'[i].buffer =
                [j \in 1 .. Prepared[i].size |->
                    IF called.op.types[i] \in MemIn THEN Uninit ELSE Zero]
    BY <1>1, <2>1, QueuedFacts DEF Filled
  <2>3. params' = [i \in Index |-> [value |-> Prepared[i].value, buffer |-> params'[i].buffer,
                                    size |-> Prepared[i].size]]
    BY <1>1, <2>2
  <2>4. ASSUME NEW i \in Index
        PROVE  /\ params'[i].buffer = [j \in 1 .. Prepared[i].size |-> params'[i].buffer[j]]
               /\ \A j \in 1 .. Prepared[i].size :
                     (called.op.types[i] \in MemIn => Passed(i, j)')
                        => params'[i].buffer[j] = Prepared[i].buffer[j]
    <3>1. params'[i].buffer = [j \in 1 .. Prepared[i].size |-> params'[i].buffer[j]]
      BY <2>2
    <3>2. ASSUME NEW j \in 1 .. Prepared[i].size,
                 called.op.types[i] \in MemIn => Passed(i, j)'
          PROVE  params'[i].buffer[j] = Prepared[i].buffer[j]
      <4>1. Prepared[i].size \in Nat
        BY <2>1, QueuedFacts
      <4>2. ~Passed(i, j)'
        BY <1>1, <4>1 DEF Passed, Index
      <4>3. called.op.types[i] \notin MemIn
        BY <3>2, <4>2
      <4>4. Prepared[i].buffer[j] = Zero
        BY <2>1, <4>3, QueuedFacts
      <4>5. QED
        BY <2>2, <4>3, <4>4
    <3>3. QED
      BY <3>1, <3>2
  <2>5. index' \in 1 .. 5 /\ offset' \in Nat
    BY <1>1
  <2>6. called' = called
    BY <1>1
  <2>7. QED
    BY <1>2, <2>3, <2>4, <2>5, <2>6 DEF ReadSoFar
<1>5. QED
  BY <1>3, <1>4 DEF CopyInv

\* The next parameter: the one left behind has been read in full.
LEMMA NextInputKeeps ==
    ASSUME DataInv, NextInput
    PROVE  CopyInv'
<1>1. /\ enclave = "read" /\ enclave' = "read" /\ ~Exiting /\ index <= 4
      /\ c.types[index] \in MemIn => offset >= c.size[index]
      /\ index' = index + 1 /\ offset' = 0
      /\ UNCHANGED <<host, operation, current, invoking, command_result, c, params, r, called>>
  BY DEF NextInput, queueVars
<1>2. /\ Calling' = Calling /\ InCall' = InCall /\ Served' = Served /\ Prepared' = Prepared
      /\ ~Exiting'
  BY <1>1 DEF Calling, InCall, Served, Prepared, Exiting
<1>3. QueuedCommand' /\ OperationKept' /\ OutcomeKept' /\ WrittenSoFar' /\ AnswerReady'
  BY <1>1, <1>2 DEF DataInv, CopyInv, QueuedCommand, OperationKept, OutcomeKept, WrittenSoFar,
                    AnswerReady
<1>4. InCall /\ c = current
  BY <1>1, AtCommandFacts
<1>5. ReadSoFar
  BY DEF DataInv, CopyInv
<1>6. index' \in 1 .. 5 /\ offset' \in Nat
  BY <1>1, <1>5 DEF ReadSoFar
<1>7. ASSUME NEW i \in Index, NEW j \in 1 .. Prepared[i].size,
             called.op.types[i] \in MemIn => Passed(i, j)'
      PROVE  params[i].buffer[j] = Prepared[i].buffer[j]
  <2>1. Prepared[i].size \in Nat /\ i \in Nat
    BY <1>4, QueuedFacts DEF Index
  <2>2. called.op.types[i] \in MemIn => Passed(i, j)
    <3>1. c.types[i] = called.op.types[i] /\ c.size[i] = Prepared[i].size
      BY <1>4, QueuedFacts
    <3>2. index \in Nat /\ offset \in Nat
      BY <1>1, <1>5 DEF ReadSoFar
    <3>3. QED
      BY <1>1, <1>7, <2>1, <3>1, <3>2 DEF Passed
  <2>3. QED
    BY <1>1, <1>5, <2>2 DEF ReadSoFar
<1>8. ReadSoFar'
  BY <1>1, <1>2, <1>5, <1>6, <1>7 DEF ReadSoFar
<1>9. QED
  BY <1>3, <1>8 DEF CopyInv

\* The chunk that begins at an offset of a buffer of which size bytes are in use.
ChunkAt(b, size, off) == SubSeq(b, off + 1, off + Chunk(size - off))

\* A chunk is never empty before the end of a buffer, and does not go past it.
LEMMA ChunkOf ==
    ASSUME NEW b, IsBuffer(b), NEW size \in Nat, NEW off \in Nat, off < size, size <= Len(b)
    PROVE  /\ Chunk(size - off) \in Nat /\ Chunk(size - off) > 0
           /\ off + Chunk(size - off) <= size
           /\ IsBuffer(ChunkAt(b, size, off)) /\ Len(ChunkAt(b, size, off)) = Chunk(size - off)
           /\ \A k \in 1 .. Chunk(size - off) : ChunkAt(b, size, off)[k] = b[off + k]
<1> DEFINE n == Chunk(size - off)
           data == ChunkAt(b, size, off)
<1>1. n \in Nat /\ n > 0 /\ off + n <= size
  BY KeystoneQueueAssumption DEF Chunk, AtMost
<1>2. data = SubSeq(b, off + 1, off + n)
  BY DEF ChunkAt
<1> HIDE DEF n, data
<1>3. data = [k \in 1 .. n |-> b[off + k]]
  <2>1. Len(b) \in Nat
    BY LenProperties DEF IsBuffer
  <2>2. PICK S : b \in Seq(S)
    BY DEF IsBuffer
  <2>3. data = [k \in 1 .. (off + n) - (off + 1) + 1 |-> b[(off + 1) + k - 1]]
    BY <1>1, <1>2, <2>1, <2>2
  <2>4. (off + n) - (off + 1) + 1 = n /\ \A k \in 1 .. n : (off + 1) + k - 1 = off + k
    BY <1>1
  <2>5. QED
    BY <2>3, <2>4
<1>4. IsBuffer(data) /\ Len(data) = n
  <2>1. data = [k \in 1 .. n |-> data[k]]
    BY <1>3
  <2>2. QED
    BY <1>1, <2>1, FunctionIsBuffer, Zenon
<1>5. QED
  BY <1>1, <1>3, <1>4 DEF n, data

\* Copying a chunk from one buffer into another, at the same offset.
LEMMA CopyChunk ==
    ASSUME NEW b, IsBuffer(b), NEW size \in Nat, NEW off \in Nat, off < size, size <= Len(b),
           NEW old
    PROVE  LET new == Overwrite(old, off, ChunkAt(b, size, off))
           IN  /\ DOMAIN new = DOMAIN old
               /\ new = [j \in DOMAIN old |-> new[j]]
               /\ \A j \in DOMAIN old : j \in Nat =>
                    new[j] = IF j > off /\ j <= off + Chunk(size - off) THEN b[j] ELSE old[j]
<1> DEFINE n == Chunk(size - off)
           data == ChunkAt(b, size, off)
           new == Overwrite(old, off, data)
<1>1. n \in Nat /\ Len(data) = n /\ \A k \in 1 .. n : data[k] = b[off + k]
  BY ChunkOf
<1> HIDE DEF n, data
<1>2. DOMAIN new = DOMAIN old /\ new = [j \in DOMAIN old |-> new[j]]
  BY DEF Overwrite
<1>3. ASSUME NEW j \in DOMAIN old, j \in Nat
      PROVE  new[j] = IF j > off /\ j <= off + n THEN b[j] ELSE old[j]
  <2>1. new[j] = IF j > off /\ j <= off + n THEN data[j - off] ELSE old[j]
    BY <1>1 DEF Overwrite
  <2>2. ASSUME j > off, j <= off + n
        PROVE  data[j - off] = b[j]
    <3>1. j - off \in 1 .. n /\ off + (j - off) = j
      BY <1>1, <1>3, <2>2
    <3>2. QED
      BY <1>1, <3>1
  <2>3. QED
    BY <2>1, <2>2
<1>4. QED
  BY <1>2, <1>3 DEF n, data

\* A chunk of an input arrives where it belongs.
LEMMA ReadChunkKeeps ==
    ASSUME DataInv, ReadChunk
    PROVE  CopyInv'
<1> DEFINE b == called.op.params[index].buffer
           size == Prepared[index].size
           n == Chunk(size - offset)
           data == ChunkAt(b, size, offset)
           new == Overwrite(params[index].buffer, offset, data)
<1>1. /\ enclave = "read" /\ enclave' = "read" /\ ~Exiting /\ index <= 4
      /\ c.types[index] \in MemIn /\ offset < c.size[index]
      /\ UNCHANGED <<host, operation, current, invoking, command_result, c, index, r, called>>
  BY DEF ReadChunk, queueVars
<1>2. InCall /\ invoking /\ c = current /\ ~Served
  BY <1>1, AtCommandFacts DEF Served
<1>3. operation = called.op
  BY <1>2 DEF DataInv, CopyInv, OperationKept
<1>4. ReadSoFar
  BY DEF DataInv, CopyInv
<1>5. index \in Index /\ index \in 1 .. 5 /\ offset \in Nat
  BY <1>1, <1>4 DEF ReadSoFar, Index
<1>6. /\ params = [i \in Index |-> [value |-> Prepared[i].value, buffer |-> params[i].buffer,
                                    size |-> Prepared[i].size]]
      /\ \A i \in Index : params[i].buffer = [j \in 1 .. Prepared[i].size |-> params[i].buffer[j]]
  BY <1>1, <1>4 DEF ReadSoFar
<1>7. /\ offset < size /\ size \in Nat /\ size <= Len(b)
      /\ called.op.params[index].size = size
      /\ called.op \in Operation
      /\ \A j \in 1 .. size : Prepared[index].buffer[j] = b[j]
  BY <1>1, <1>2, <1>5, QueuedFacts DEF Mem
<1>8. IsBuffer(b)
  <2>1. b \in Seq(Datum)
    BY <1>5, <1>7 DEF Operation, Param
  <2>2. QED
    BY <2>1, Zenon DEF IsBuffer
<1>9. read_invoke_param(operation.params[index], offset) = data
  <2>1. ~(offset > called.op.params[index].size)
    BY <1>5, <1>7
  <2>2. QED
    BY <1>3, <1>7, <2>1, Zenon DEF read_invoke_param, ChunkAt
<1> HIDE DEF b, size
<1>10. n \in Nat /\ n > 0 /\ offset + n <= size /\ Len(data) = n
  BY <1>5, <1>7, <1>8, ChunkOf
<1>11. DOMAIN params[index].buffer = 1 .. size
  BY <1>5, <1>6 DEF size
<1>12. /\ new = [j \in 1 .. size |-> new[j]]
       /\ \A j \in 1 .. size : new[j] = IF j > offset /\ j <= offset + n THEN b[j]
                                        ELSE params[index].buffer[j]
  <2>1. new = [j \in 1 .. size |-> new[j]]
    BY <1>11 DEF Overwrite
  <2>2. \A j \in 1 .. size : j \in Nat
    BY <1>7
  <2>3. QED
    BY <1>5, <1>7, <1>8, <1>11, <2>1, <2>2, CopyChunk
<1> HIDE DEF n, data
<1> HIDE DEF new
<1>13. params' = [params EXCEPT ![index].buffer = new] /\ offset' = offset + n
  BY <1>9, <1>10 DEF ReadChunk, new
<1>14. params' = [i \in Index |-> [value |-> Prepared[i].value,
                                   buffer |-> IF i = index THEN new ELSE params[i].buffer,
                                   size |-> Prepared[i].size]]
  <2>1. params' = [i \in Index |-> IF i = index THEN [params[i] EXCEPT !.buffer = new]
                                   ELSE params[i]]
    BY <1>5, <1>6, <1>13
  <2>2. ASSUME NEW i \in Index
        PROVE  (IF i = index THEN [params[i] EXCEPT !.buffer = new] ELSE params[i])
                 = [value |-> Prepared[i].value,
                    buffer |-> IF i = index THEN new ELSE params[i].buffer,
                    size |-> Prepared[i].size]
    <3>1. params[i] = [value |-> Prepared[i].value, buffer |-> params[i].buffer,
                       size |-> Prepared[i].size]
      BY <1>6
    <3>2. [params[i] EXCEPT !.buffer = new]
             = [value |-> Prepared[i].value, buffer |-> new, size |-> Prepared[i].size]
      BY <3>1
    <3>3. QED
      BY <3>1, <3>2
  <2>3. QED
    BY <2>1, <2>2
<1>15. ASSUME NEW i \in Index
       PROVE  /\ params'[i].buffer = [j \in 1 .. Prepared[i].size |-> params'[i].buffer[j]]
              /\ \A j \in 1 .. Prepared[i].size :
                    (called.op.types[i] \in MemIn => Passed(i, j)')
                        => params'[i].buffer[j] = Prepared[i].buffer[j]
  <2>1. CASE i # index
    <3>1. params'[i].buffer = params[i].buffer
      BY <1>14, <2>1
    <3>2. \A j : Passed(i, j)' = Passed(i, j)
      BY <1>1, <2>1 DEF Passed
    <3>3. QED
      BY <1>1, <1>4, <3>1, <3>2 DEF ReadSoFar
  <2>2. CASE i = index
    <3>1. params'[i].buffer = new /\ Prepared[i].size = size
      BY <1>14, <2>2 DEF size
    <3>2. called.op.types[i] \in MemIn
      BY <1>1, <1>2, <2>2, QueuedFacts
    <3>3. ASSUME NEW j \in 1 .. size, Passed(i, j)'
          PROVE  new[j] = Prepared[i].buffer[j]
      <4>1. j \in Nat /\ j <= offset + n
        BY <1>1, <1>5, <1>7, <1>13, <1>10, <2>2, <3>3 DEF Passed
      <4>2. CASE j > offset
        BY <1>7, <1>12, <2>2, <4>1, <4>2
      <4>3. CASE j <= offset
        <5>1. Passed(i, j)
          BY <2>2, <4>3 DEF Passed
        <5>2. params[i].buffer[j] = Prepared[i].buffer[j]
          BY <1>1, <1>4, <3>1, <5>1 DEF ReadSoFar
        <5>3. ~(j > offset)
          BY <1>5, <4>1, <4>3
        <5>4. QED
          BY <1>12, <2>2, <5>2, <5>3
      <4>4. QED
        BY <1>5, <4>1, <4>2, <4>3
    <3>4. new = [j \in 1 .. size |-> new[j]]
      BY <1>12
    <3>5. QED
      BY <3>1, <3>2, <3>3, <3>4
  <2>3. QED
    BY <2>1, <2>2
<1>16. offset' \in Nat
  BY <1>5, <1>13, <1>10
<1>17. /\ Calling' = Calling /\ InCall' = InCall /\ ~Served' /\ Prepared' = Prepared
       /\ ~Exiting'
  BY <1>1, <1>2 DEF Calling, InCall, Served, Prepared, Exiting
<1>18. params' = [i \in Index |-> [value |-> Prepared[i].value, buffer |-> params'[i].buffer,
                                   size |-> Prepared[i].size]]
  BY <1>14
<1>19. ReadSoFar'
  <2>1. called' = called /\ index' = index
    BY <1>1
  <2>2. QED
    BY <1>5, <1>15, <1>16, <1>17, <1>18, <2>1 DEF ReadSoFar
<1>20. QueuedCommand' /\ OperationKept' /\ OutcomeKept' /\ WrittenSoFar' /\ AnswerReady'
  BY <1>1, <1>2, <1>17 DEF DataInv, CopyInv, QueuedCommand, OperationKept, OutcomeKept,
                           WrittenSoFar, AnswerReady
<1>21. QED
  BY <1>19, <1>20 DEF CopyInv

\* The TA's outputs are four parameters, each with a size that fits its own buffer
\* and the client's.
LEMMA OutcomeFacts ==
    ASSUME DataInv, InCall, Served
    PROVE  /\ params = [i \in Index |-> params[i]]
           /\ \A i \in Index :
                 /\ params[i].size \in Nat /\ IsBuffer(params[i].buffer)
                 /\ params[i].size <= Len(params[i].buffer)
                 /\ params[i].size <= Prepared[i].size
<1> DEFINE out == [result |-> r, params |-> params]
<1>1. out \in Outcome(called.command, called.op.types, Prepared)
  BY DEF DataInv, CopyInv, OutcomeKept
<1>2. Prepared = [i \in Index |-> Prepared[i]] /\ called.op \in Operation
  BY QueuedFacts
<1>3. \A i \in Index : Sized(Prepared[i])
  BY <1>2, PreparedSizes DEF Prepared
<1>4. out.params = params
  OBVIOUS
<1> HIDE DEF out
<1>5. \A i \in Index : Sized(out.params[i]) /\ out.params[i].size <= Prepared[i].size
  BY <1>1, <1>2, <1>3, OutcomeFits
<1>6. out.params = [i \in Index |-> out.params[i]]
  BY <1>1, <1>2, OutcomeShape
<1>7. QED
  BY <1>4, <1>5, <1>6 DEF Sized

\* The entry point is called on prepare_params of the client's operation.
LEMMA ReadInFull ==
    ASSUME DataInv, enclave = "read", ~Exiting, index = 5
    PROVE  /\ InCall /\ invoking /\ c = current /\ operation = called.op
           /\ params = Prepared
<1>1. InCall /\ invoking /\ c = current /\ ~Served
  BY AtCommandFacts DEF Served
<1>2. operation = called.op
  BY <1>1 DEF DataInv, CopyInv, OperationKept
<1>3. params = [i \in Index |-> [value |-> Prepared[i].value, buffer |-> params[i].buffer,
                                 size |-> Prepared[i].size]]
  BY DEF DataInv, CopyInv, ReadSoFar
<1>4. ASSUME NEW i \in Index
      PROVE  params[i].buffer = Prepared[i].buffer
  <2>1. \A j : Passed(i, j)
    BY DEF Passed, Index
  <2>2. /\ params[i].buffer = [j \in 1 .. Prepared[i].size |-> params[i].buffer[j]]
        /\ \A j \in 1 .. Prepared[i].size : params[i].buffer[j] = Prepared[i].buffer[j]
    BY <2>1 DEF DataInv, CopyInv, ReadSoFar
  <2>3. Prepared[i].buffer = [j \in 1 .. Prepared[i].size |-> Prepared[i].buffer[j]]
    BY <1>1, QueuedFacts
  <2>4. QED
    BY <2>2, <2>3
<1>5. /\ Prepared = [i \in Index |-> Prepared[i]]
      /\ \A i \in Index : Prepared[i] = [value |-> Prepared[i].value,
                                         buffer |-> Prepared[i].buffer,
                                         size |-> Prepared[i].size]
  BY <1>1, QueuedFacts
<1>6. QED
  BY <1>1, <1>2, <1>3, <1>4, <1>5

\* The entry point returns: no output has been written yet.
LEMMA EntryPointKeeps ==
    ASSUME DataInv, EntryPoint
    PROVE  /\ [result |-> r', params |-> params']
                 \in Outcome(called.command, called.op.types, Prepared)
           /\ InCall /\ CopyInv'
<1>1. /\ enclave = "read" /\ enclave' = "write" /\ ~Exiting /\ index = 5
      /\ index' = 1 /\ offset' = 0
      /\ UNCHANGED <<host, operation, current, invoking, command_result, c, called>>
  BY DEF EntryPoint, queueVars
<1>2. InCall /\ invoking /\ c = current /\ operation = called.op /\ params = Prepared
  BY <1>1, ReadInFull
<1>3. /\ current.commandID = called.command /\ current.types = called.op.types
      /\ called.op \in Operation /\ Prepared = [i \in Index |-> Prepared[i]]
  BY <1>2, QueuedFacts
<1>4. PICK out \in Outcome(called.command, called.op.types, Prepared) :
         r' = out.result /\ params' = out.params
  BY <1>2, <1>3 DEF EntryPoint
<1>5. out = [result |-> r', params |-> params']
  <2>1. out = [result |-> out.result, params |-> out.params]
    BY <1>3, <1>4, OutcomeShape, Zenon
  <2>2. QED
    BY <1>4, <2>1, Zenon
<1>6. /\ InCall' = InCall /\ Calling' = Calling /\ Served' /\ Prepared' = Prepared
      /\ called' = called /\ invoking'
  BY <1>1, <1>2 DEF InCall, Calling, Served, Prepared
<1>7. QueuedCommand' /\ OperationKept' /\ ReadSoFar' /\ AnswerReady'
  BY <1>1, <1>2, <1>6 DEF DataInv, CopyInv, QueuedCommand, OperationKept, ReadSoFar, AnswerReady
<1>8. OutcomeKept'
  BY <1>4, <1>5, <1>6 DEF OutcomeKept
<1>9. WrittenSoFar'
  <2>1. index' \in 1 .. 5 /\ offset' \in Nat /\ operation' = called.op
    BY <1>1, <1>2
  <2>2. ASSUME NEW i \in Index
        PROVE  called.op.params[i].buffer =
                 [j \in DOMAIN called.op.params[i].buffer |->
                    IF /\ called.op.types[i] \in MemOut
                       /\ j <= params'[i].size
                       /\ Passed(i, j)'
                    THEN params'[i].buffer[j]
                    ELSE called.op.params[i].buffer[j]]
    <3>1. called.op.params[i].buffer \in Seq(Datum)
      BY <1>3 DEF Operation, Param
    <3>2. /\ \A j \in DOMAIN called.op.params[i].buffer : j \in Nat /\ j > 0
          /\ called.op.params[i].buffer =
                [j \in DOMAIN called.op.params[i].buffer |-> called.op.params[i].buffer[j]]
      BY <3>1
    <3>3. \A j \in DOMAIN called.op.params[i].buffer : ~Passed(i, j)'
      BY <1>1, <3>2 DEF Passed, Index
    <3>4. QED
      BY <3>2, <3>3
  <2>3. QED
    BY <1>6, <2>1, <2>2 DEF WrittenSoFar
<1>10. [result |-> r', params |-> params'] \in Outcome(called.command, called.op.types, Prepared)
  BY <1>4, <1>5, Zenon
<1>11. QED
  BY <1>2, <1>7, <1>8, <1>9, <1>10 DEF CopyInv

\* The next parameter: the one left behind has been written in full.
LEMMA NextOutputKeeps ==
    ASSUME DataInv, NextOutput
    PROVE  CopyInv'
<1>1. /\ enclave = "write" /\ enclave' = "write" /\ index <= 4
      /\ c.types[index] \in MemOut => offset >= params[index].size
      /\ index' = index + 1 /\ offset' = 0
      /\ UNCHANGED <<host, operation, current, invoking, command_result, c, params, r, called>>
  BY DEF NextOutput, queueVars
<1>2. /\ Calling' = Calling /\ InCall' = InCall /\ Served' = Served /\ Prepared' = Prepared
      /\ Served
  BY <1>1 DEF Calling, InCall, Served, Prepared
<1>3. QueuedCommand' /\ OperationKept' /\ OutcomeKept' /\ ReadSoFar' /\ AnswerReady'
  BY <1>1, <1>2 DEF DataInv, CopyInv, QueuedCommand, OperationKept, OutcomeKept, ReadSoFar,
                    AnswerReady
<1>4. InCall /\ c = current
  BY <1>1 DEF DataInv, HandOver, EnclaveOwnsOperation, CopyInv, QueuedCommand
<1>5. WrittenSoFar
  BY DEF DataInv, CopyInv
<1>6. index \in 1 .. 5 /\ offset \in Nat /\ index' \in 1 .. 5 /\ offset' \in Nat
  BY <1>1, <1>5 DEF WrittenSoFar
<1>7. ASSUME NEW i \in Index, called.op.types[i] \in MemOut, NEW j \in Nat, j > 0,
             j <= params[i].size
      PROVE  Passed(i, j)' <=> Passed(i, j)
  <2>1. /\ c.types[i] = called.op.types[i]
        /\ params[i].size \in Nat
        /\ i \in Nat
    <3>1. c.types[i] = called.op.types[i]
      BY <1>4, QueuedFacts
    <3>2. params[i].size \in Nat
      BY <1>2, <1>4, OutcomeFacts, Zenon
    <3>3. QED
      BY <3>1, <3>2 DEF Index
  <2>2. i = index => offset >= params[i].size
    BY <1>1, <1>7, <2>1
  <2>3. index' = index + 1 /\ offset' = 0 /\ index \in Nat /\ offset \in Nat
    BY <1>1, <1>6
  <2>4. QED
    BY <1>7, <2>1, <2>2, <2>3 DEF Passed
<1>8. ASSUME NEW i \in Index
      PROVE  operation.params[i].buffer =
                [j \in DOMAIN called.op.params[i].buffer |->
                    IF /\ called.op.types[i] \in MemOut
                       /\ j <= params[i].size
                       /\ Passed(i, j)'
                    THEN params[i].buffer[j]
                    ELSE called.op.params[i].buffer[j]]
  <2>1. called.op.params[i].buffer \in Seq(Datum)
    BY <1>4, QueuedFacts DEF Operation, Param
  <2>2. \A j \in DOMAIN called.op.params[i].buffer : j \in Nat /\ j > 0
    BY <2>1
  <2>3. operation.params[i].buffer =
                [j \in DOMAIN called.op.params[i].buffer |->
                    IF /\ called.op.types[i] \in MemOut
                       /\ j <= params[i].size
                       /\ Passed(i, j)
                    THEN params[i].buffer[j]
                    ELSE called.op.params[i].buffer[j]]
    BY <1>1, <1>5 DEF WrittenSoFar
  <2>4. QED
    BY <1>7, <2>2, <2>3
<1>9. WrittenSoFar'
  BY <1>1, <1>2, <1>5, <1>6, <1>8 DEF WrittenSoFar
<1>10. QED
  BY <1>3, <1>9 DEF CopyInv

\* The enclave at its outputs.
LEMMA WriteFacts ==
    ASSUME DataInv, enclave = "write"
    PROVE  /\ InCall /\ invoking /\ c = current /\ Served /\ ~Exiting
           /\ c.types = called.op.types
           /\ called.op \in Operation
           /\ \A i \in Index : called.op.types[i] \in Mem =>
                                  Prepared[i].size = called.op.params[i].size
<1>1. InCall /\ invoking /\ c = current /\ Served
  BY DEF DataInv, HandOver, EnclaveOwnsOperation, CopyInv, QueuedCommand, Served
<1>2. ~Exiting
  BY <1>1 DEF InCall, Exiting
<1>3. QED
  BY <1>1, <1>2, QueuedFacts

\* A chunk of an output is not cut short: the client's buffer has room for it.
LEMMA WriteInvokeParam ==
    ASSUME NEW ref, NEW b, IsBuffer(b), NEW size \in Nat, NEW off \in Nat, off < size,
           size <= Len(b), ref.size \in Nat, size <= ref.size
    PROVE  write_invoke_param(ref, off, ChunkAt(b, size, off))
             = [ref EXCEPT !.buffer = Overwrite(ref.buffer, off, ChunkAt(b, size, off))]
<1> DEFINE data == ChunkAt(b, size, off)
           n == Chunk(size - off)
<1>1. n \in Nat /\ off + n <= size /\ IsBuffer(data) /\ Len(data) = n
  BY ChunkOf
<1> HIDE DEF data, n
<1>2. AtMost(Len(data), ref.size - off) = Len(data) /\ ~(off > ref.size)
  BY <1>1 DEF AtMost
<1>3. SubSeq(data, 1, Len(data)) = data
  BY <1>1 DEF IsBuffer
<1>4. write_invoke_param(ref, off, data) = [ref EXCEPT !.buffer = Overwrite(ref.buffer, off, data)]
  BY <1>2, <1>3, Zenon DEF write_invoke_param
<1>5. QED
  BY <1>4 DEF data

\* A chunk of an output arrives where it belongs.
LEMMA WriteChunkKeeps ==
    ASSUME DataInv, WriteChunk
    PROVE  CopyInv'
<1> DEFINE b == params[index].buffer
           size == params[index].size
           n == Chunk(size - offset)
           ref == operation.params[index]
           data == ChunkAt(b, size, offset)
           new == Overwrite(ref.buffer, offset, data)
<1>1. /\ enclave = "write" /\ enclave' = "write" /\ index <= 4
      /\ c.types[index] \in MemOut /\ offset < size /\ offset' = offset + n
      /\ UNCHANGED <<host, current, invoking, command_result, c, params, index, r, called>>
  BY DEF WriteChunk, queueVars
<1>2. /\ InCall /\ Served /\ ~Exiting /\ invoking
      /\ called.op \in Operation /\ c.types = called.op.types
  BY <1>1, WriteFacts
<1>3. /\ index \in 1 .. 5 /\ offset \in Nat
      /\ operation.types = called.op.types
      /\ \A i \in Index :
            /\ operation.params[i].value = called.op.params[i].value
            /\ operation.params[i].size = called.op.params[i].size
            /\ operation.params[i].buffer =
                  [j \in DOMAIN called.op.params[i].buffer |->
                      IF /\ called.op.types[i] \in MemOut
                         /\ j <= params[i].size
                         /\ Passed(i, j)
                      THEN params[i].buffer[j]
                      ELSE called.op.params[i].buffer[j]]
  BY <1>1 DEF DataInv, CopyInv, WrittenSoFar
<1>4. index \in Index
  BY <1>1, <1>3 DEF Index
<1>5. size \in Nat /\ IsBuffer(b) /\ size <= Len(b) /\ size <= Prepared[index].size
  BY <1>2, <1>4, OutcomeFacts, Zenon
<1>6. ref.size \in Nat /\ size <= ref.size
  <2>1. called.op.types[index] \in Mem
    BY <1>1, <1>2 DEF Mem
  <2>2. Prepared[index].size = called.op.params[index].size
    BY <1>1, <1>4, <2>1, WriteFacts
  <2>3. ref.size = called.op.params[index].size
    BY <1>3, <1>4
  <2>4. called.op.params[index].size \in Nat
    BY <1>2, <1>4 DEF Operation, Param
  <2>5. QED
    BY <1>5, <2>2, <2>3, <2>4
<1> HIDE DEF ref, size, b
<1>7. operation' = [operation EXCEPT !.params[index] = write_invoke_param(ref, offset, data)]
  BY DEF WriteChunk, ChunkAt, ref, size, b
<1>8. write_invoke_param(ref, offset, data) = [ref EXCEPT !.buffer = new]
  BY <1>1, <1>3, <1>5, <1>6, WriteInvokeParam
<1>9. n \in Nat /\ n > 0 /\ offset + n <= size
  BY <1>1, <1>3, <1>5, ChunkOf
<1>10. /\ DOMAIN new = DOMAIN ref.buffer /\ new = [j \in DOMAIN ref.buffer |-> new[j]]
       /\ \A j \in DOMAIN ref.buffer : j \in Nat =>
             new[j] = IF j > offset /\ j <= offset + n THEN b[j] ELSE ref.buffer[j]
  BY <1>1, <1>3, <1>5, CopyChunk
<1> HIDE DEF n, data, new
<1>11. operation = [types |-> operation.types,
                    params |-> [i \in Index |->
                        [value |-> operation.params[i].value,
                         buffer |-> operation.params[i].buffer,
                         size |-> operation.params[i].size]]]
  BY DEF DataInv, CopyInv, OperationKept
<1>12. operation' = [types |-> operation.types,
                     params |-> [i \in Index |->
                        [value |-> operation.params[i].value,
                         buffer |-> IF i = index THEN new ELSE operation.params[i].buffer,
                         size |-> operation.params[i].size]]]
  <2> DEFINE ps == operation.params
  <2>1. /\ ps = [i \in Index |-> ps[i]]
        /\ \A i \in Index : ps[i] = [value |-> ps[i].value, buffer |-> ps[i].buffer,
                                     size |-> ps[i].size]
        /\ operation = [types |-> operation.types, params |-> ps]
    BY <1>11
  <2>2. operation' = [operation EXCEPT !.params = [ps EXCEPT ![index] = [ref EXCEPT !.buffer = new]]]
    BY <1>7, <1>8
  <2>3. ref = ps[index]
    BY DEF ref
  <2> HIDE DEF ps
  <2>4. [ref EXCEPT !.buffer = new]
           = [value |-> ps[index].value, buffer |-> new, size |-> ps[index].size]
    BY <1>4, <2>1, <2>3
  <2>5. [ps EXCEPT ![index] = [ref EXCEPT !.buffer = new]]
          = [i \in Index |-> [value |-> ps[i].value,
                              buffer |-> IF i = index THEN new ELSE ps[i].buffer,
                              size |-> ps[i].size]]
    <3> DEFINE q == [value |-> ps[index].value, buffer |-> new, size |-> ps[index].size]
    <3>1. [ps EXCEPT ![index] = q] = [i \in Index |-> IF i = index THEN q ELSE ps[i]]
      BY <1>4, <2>1
    <3>2. \A i \in Index : (IF i = index THEN q ELSE ps[i])
                = [value |-> ps[i].value,
                   buffer |-> IF i = index THEN new ELSE ps[i].buffer,
                   size |-> ps[i].size]
      BY <2>1
    <3>3. QED
      BY <2>4, <3>1, <3>2
  <2>6. QED
    BY <2>1, <2>2, <2>5 DEF ps
<1>13. OperationKept'
  <2>1. operation' = [types |-> operation'.types,
                      params |-> [i \in Index |->
                        [value |-> operation'.params[i].value,
                         buffer |-> operation'.params[i].buffer,
                         size |-> operation'.params[i].size]]]
    BY <1>12
  <2>2. Served'
    BY <1>1 DEF Served
  <2>3. QED
    BY <2>1, <2>2 DEF OperationKept
<1>14. ASSUME NEW i \in Index
       PROVE  operation'.params[i].buffer =
                  [j \in DOMAIN called.op.params[i].buffer |->
                      IF /\ called.op.types[i] \in MemOut
                         /\ j <= params[i].size
                         /\ Passed(i, j)'
                      THEN params[i].buffer[j]
                      ELSE called.op.params[i].buffer[j]]
  <2>1. CASE i # index
    <3>1. operation'.params[i].buffer = operation.params[i].buffer
      BY <1>12, <2>1
    <3>2. \A j : Passed(i, j)' <=> Passed(i, j)
      BY <1>1, <2>1 DEF Passed
    <3>3. operation.params[i].buffer =
                  [j \in DOMAIN called.op.params[i].buffer |->
                      IF /\ called.op.types[i] \in MemOut
                         /\ j <= params[i].size
                         /\ Passed(i, j)
                      THEN params[i].buffer[j]
                      ELSE called.op.params[i].buffer[j]]
      BY <1>3
    <3>4. QED
      BY <3>1, <3>2, <3>3
  <2>2. CASE i = index
    <3> DEFINE dom == DOMAIN called.op.params[i].buffer
    <3>1. called.op.params[i].buffer \in Seq(Datum)
      BY <1>2 DEF Operation, Param
    <3>2. \A j \in dom : j \in Nat
      BY <3>1
    <3>3. /\ ref.buffer = [j \in dom |->
                            IF called.op.types[i] \in MemOut /\ j <= size /\ Passed(i, j)
                            THEN b[j] ELSE called.op.params[i].buffer[j]]
          /\ DOMAIN ref.buffer = dom
      BY <1>3, <2>2 DEF ref, size, b
    <3>4. operation'.params[i].buffer = new
      BY <1>12, <2>2
    <3>5. called.op.types[i] \in MemOut
      BY <1>1, <1>2, <2>2
    <3> HIDE DEF dom
    <3>6. ASSUME NEW j \in dom
          PROVE  new[j] = IF called.op.types[i] \in MemOut /\ j <= size /\ Passed(i, j)'
                          THEN b[j] ELSE called.op.params[i].buffer[j]
      <4>1. j \in Nat
        BY <3>2
      <4>2. Passed(i, j) <=> j <= offset
        BY <1>3, <2>2 DEF Passed
      <4>3. Passed(i, j)' <=> j <= offset + n
        BY <1>1, <1>3, <2>2 DEF Passed, n
      <4>4. new[j] = IF j > offset /\ j <= offset + n THEN b[j] ELSE ref.buffer[j]
        BY <1>10, <3>3, <4>1
      <4>5. ref.buffer[j] = IF j <= size /\ j <= offset
                            THEN b[j] ELSE called.op.params[i].buffer[j]
        BY <3>3, <3>5, <4>2
      <4>6. CASE j > offset + n
        BY <1>3, <1>9, <4>1, <4>3, <4>4, <4>5, <4>6
      <4>7. CASE j <= offset + n
        <5>1. j <= size
          BY <1>3, <1>5, <1>9, <4>1, <4>7
        <5>2. new[j] = b[j]
          BY <1>3, <1>9, <4>1, <4>4, <4>5, <4>7, <5>1
        <5>3. QED
          BY <3>5, <4>3, <4>7, <5>1, <5>2
      <4>8. QED
        BY <1>3, <1>9, <4>1, <4>6, <4>7
    <3>7. new = [j \in dom |-> new[j]]
      BY <1>10, <3>3
    <3>8. new = [j \in dom |-> IF called.op.types[i] \in MemOut /\ j <= size /\ Passed(i, j)'
                               THEN b[j] ELSE called.op.params[i].buffer[j]]
      BY <3>6, <3>7
    <3>9. size = params[i].size /\ b = params[i].buffer
      BY <2>2 DEF size, b
    <3>10. QED
      BY <3>4, <3>8, <3>9 DEF dom
  <2>3. QED
    BY <2>1, <2>2
<1>15. WrittenSoFar'
  <2>1. index' \in 1 .. 5 /\ offset' \in Nat /\ called' = called /\ params' = params
    BY <1>1, <1>3, <1>9 DEF n
  <2>2. operation'.types = called.op.types
    BY <1>3, <1>12
  <2>3. \A i \in Index : /\ operation'.params[i].value = called.op.params[i].value
                         /\ operation'.params[i].size = called.op.params[i].size
    BY <1>3, <1>12
  <2>4. QED
    BY <1>14, <2>1, <2>2, <2>3 DEF WrittenSoFar
<1>16. QueuedCommand' /\ ReadSoFar' /\ OutcomeKept' /\ AnswerReady'
  <2>1. /\ Calling' = Calling /\ InCall' = InCall /\ Served' = Served /\ Prepared' = Prepared
        /\ invoking'
    BY <1>1, <1>2 DEF Calling, InCall, Served, Prepared
  <2>2. QED
    BY <1>1, <2>1 DEF DataInv, CopyInv, QueuedCommand, ReadSoFar, OutcomeKept, AnswerReady
<1>17. QED
  BY <1>13, <1>15, <1>16 DEF CopyInv

\* An output buffer once all of its bytes have been copied back.
Written(old, b, size) == Overwrite(old, 0, SubSeq(b, 1, size))

\* All chunks together are the copy of writeback_params, byte by byte.
LEMMA OverwriteAll ==
    ASSUME NEW old \in Seq(Datum), NEW b, IsBuffer(b), NEW size \in Nat, size <= Len(b)
    PROVE  /\ Written(old, b, size) = [j \in DOMAIN old |-> Written(old, b, size)[j]]
           /\ \A j \in DOMAIN old : Written(old, b, size)[j] = IF j <= size THEN b[j] ELSE old[j]
<1> DEFINE data == SubSeq(b, 1, size)
<1>1. data = [k \in 1 .. size |-> b[k]]
  <2>1. Len(b) \in Nat
    BY LenProperties DEF IsBuffer
  <2>2. PICK S : b \in Seq(S)
    BY DEF IsBuffer
  <2>3. QED
    BY <2>1, <2>2
<1> HIDE DEF data
<1>2. Len(data) = size
  <2>1. data = [k \in 1 .. size |-> data[k]]
    BY <1>1
  <2>2. QED
    BY <2>1, FunctionIsBuffer, Zenon
<1>3. \A j \in DOMAIN old : j \in Nat /\ j > 0
  OBVIOUS
<1>4. Overwrite(old, 0, data)
        = [j \in DOMAIN old |-> IF j > 0 /\ j <= 0 + size THEN data[j - 0] ELSE old[j]]
  BY <1>2 DEF Overwrite
<1>5. ASSUME NEW j \in DOMAIN old
      PROVE  (IF j > 0 /\ j <= 0 + size THEN data[j - 0] ELSE old[j])
               = IF j <= size THEN b[j] ELSE old[j]
  <2>1. j \in Nat /\ j > 0 /\ j - 0 = j /\ 0 + size = size
    BY <1>3
  <2>2. j <= size => data[j] = b[j]
    BY <1>1, <2>1
  <2>3. QED
    BY <2>1, <2>2
<1>6. QED
  BY <1>4, <1>5 DEF data, Written

\* The result is put: the client's operation is writeback_params of the one it
\* brought and of the TA's parameters.
LEMMA PutResultKeeps ==
    ASSUME DataInv, PutResult
    PROVE  CopyInv'
<1>1. /\ enclave = "write" /\ enclave' = "notify" /\ index = 5
      /\ command_result' = r /\ invoking' = FALSE
      /\ UNCHANGED <<host, current, c, params, index, offset, r, called>>
  BY DEF PutResult, put_invoke_command_result
<1>2. /\ InCall /\ Served /\ called.op \in Operation /\ c.types = called.op.types
  BY <1>1, WriteFacts
<1>3. /\ operation.types = called.op.types
      /\ \A i \in Index :
            /\ operation.params[i].value = called.op.params[i].value
            /\ operation.params[i].size = called.op.params[i].size
            /\ operation.params[i].buffer =
                  [j \in DOMAIN called.op.params[i].buffer |->
                      IF /\ called.op.types[i] \in MemOut
                         /\ j <= params[i].size
                         /\ Passed(i, j)
                      THEN params[i].buffer[j]
                      ELSE called.op.params[i].buffer[j]]
  BY <1>1 DEF DataInv, CopyInv, WrittenSoFar
<1> DEFINE old(i) == called.op.params[i]
           buf(i) == IF called.op.types[i] \in MemOut
                     THEN Written(old(i).buffer, params[i].buffer, params[i].size)
                     ELSE old(i).buffer
<1>4. ASSUME NEW i \in Index
      PROVE  operation.params[i].buffer = buf(i)
  <2>1. \A j : Passed(i, j)
    BY <1>1 DEF Passed, Index
  <2>2. old(i).buffer \in Seq(Datum)
    BY <1>2 DEF Operation, Param
  <2>3. CASE called.op.types[i] \in MemOut
    <3>1. /\ params[i].size \in Nat /\ IsBuffer(params[i].buffer)
          /\ params[i].size <= Len(params[i].buffer)
      BY <1>2, OutcomeFacts, Zenon
    <3>2. operation.params[i].buffer =
             [j \in DOMAIN old(i).buffer |->
                 IF j <= params[i].size THEN params[i].buffer[j] ELSE old(i).buffer[j]]
      BY <1>3, <2>1, <2>3
    <3> DEFINE new == Written(old(i).buffer, params[i].buffer, params[i].size)
    <3>3. /\ new = [j \in DOMAIN old(i).buffer |-> new[j]]
          /\ \A j \in DOMAIN old(i).buffer :
                new[j] = IF j <= params[i].size THEN params[i].buffer[j] ELSE old(i).buffer[j]
      BY <2>2, <3>1, OverwriteAll
    <3> HIDE DEF new
    <3>4. operation.params[i].buffer = new
      BY <3>2, <3>3
    <3>5. QED
      BY <2>3, <3>4, Zenon DEF new
  <2>4. CASE called.op.types[i] \notin MemOut
    <3>1. operation.params[i].buffer = [j \in DOMAIN old(i).buffer |-> old(i).buffer[j]]
      BY <1>3, <2>4
    <3>2. old(i).buffer = [j \in DOMAIN old(i).buffer |-> old(i).buffer[j]]
      BY <2>2
    <3>3. QED
      BY <2>4, <3>1, <3>2, Zenon
  <2>5. QED
    BY <2>3, <2>4
<1> HIDE DEF buf
<1> DEFINE written == [i \in Index |->
                          [value |-> IF called.op.types[i] \in ValueOut
                                     THEN params[i].value ELSE called.op.params[i].value,
                           buffer |-> buf(i),
                           size |-> IF called.op.types[i] \in MemOut
                                    THEN params[i].size ELSE called.op.params[i].size]]
<1>5. operation' = [types |-> called.op.types, params |-> written]
  <2>1. operation' = [operation EXCEPT !.params = [i \in Index |->
            [value |-> IF c.types[i] \in ValueOut THEN [k \in Index |-> params[k].value][i]
                       ELSE operation.params[i].value,
             buffer |-> operation.params[i].buffer,
             size |-> IF c.types[i] \in MemOut THEN [k \in Index |-> params[k].size][i]
                      ELSE operation.params[i].size]]]
    BY DEF PutResult, put_invoke_command_result
  <2>2. operation' = [operation EXCEPT !.params = written]
    BY <1>2, <1>3, <1>4, <2>1
  <2>3. operation = [types |-> operation.types, params |-> operation.params]
    BY DEF DataInv, CopyInv, OperationKept
  <2> HIDE DEF written
  <2>4. QED
    BY <1>3, <2>2, <2>3
<1>6. writeback_params(called.op, params) = [types |-> called.op.types, params |-> written]
  <2>1. called.op = [types |-> called.op.types, params |-> called.op.params]
    BY <1>2 DEF Operation
  <2>2. writeback_params(called.op, params) = [called.op EXCEPT !.params = written]
    BY DEF writeback_params, buf, Written
  <2> HIDE DEF written
  <2>3. QED
    BY <2>1, <2>2
<1>7. /\ Calling' = Calling /\ InCall' = InCall /\ Served' /\ Prepared' = Prepared
  BY <1>1 DEF Calling, InCall, Served, Prepared
<1>8. AnswerReady'
  BY <1>1, <1>5, <1>6 DEF AnswerReady
<1>9. OperationKept'
  <2>1. operation' = [types |-> operation'.types,
                      params |-> [i \in Index |->
                        [value |-> operation'.params[i].value,
                         buffer |-> operation'.params[i].buffer,
                         size |-> operation'.params[i].size]]]
    BY <1>5
  <2>2. QED
    BY <1>7, <2>1 DEF OperationKept
<1>10. QueuedCommand' /\ ReadSoFar' /\ OutcomeKept' /\ WrittenSoFar'
  BY <1>1, <1>2, <1>7 DEF DataInv, CopyInv, QueuedCommand, ReadSoFar, OutcomeKept, WrittenSoFar
<1>11. QED
  BY <1>8, <1>9, <1>10 DEF CopyInv

\* Inside every call, whatever the sizes of its buffers and of a chunk, the copies
\* of the enclave and of the client are as far as the two threads are.
THEOREM DataInvariant == KeystoneSpec => []DataInv
<1>1. DataInv /\ [KeystoneNext]_keystoneVars => CopyInv'
  <2> SUFFICES ASSUME DataInv, [KeystoneNext]_keystoneVars PROVE CopyInv'
    OBVIOUS
  <2>1. CASE UNCHANGED keystoneVars
    <3>1. /\ UNCHANGED <<operation, current, invoking, command_result, c, params, index, offset,
                         r, called>>
          /\ host' = host /\ enclave' = enclave
      BY <2>1 DEF keystoneVars, queueVars, enclaveVars
    <3>2. Calling' = Calling /\ InCall' = InCall /\ Served' = Served
      BY <3>1 DEF Calling, InCall, Served
    <3>3. QED
      BY <3>1, <3>2, DataQuiet DEF DataInv
  <2>2. CASE PullCommand
    BY <2>2, EnclaveQuiet, PullCommandKeeps
  <2>3. CASE EnclaveStep
    BY <2>2, <2>3, EnclaveQuiet, PutExitKeeps, ReadChunkKeeps, NextInputKeeps, EntryPointKeeps,
       WriteChunkKeeps, NextOutputKeeps, PutResultKeeps DEF EnclaveStep
  <2>4. QED
    BY <2>1, <2>3, HostKeepsCopies, EnclaveQuiet DEF KeystoneNext
<1>2. QED
  BY <1>1, CopyInvInit, HandOverInvariant, PTL DEF KeystoneSpec, DataInv

----------------------------------------------------------------------------
(* The queue implements TeecCall: the entry point is Serve, the end of the *)
(* client's wait is Return, and all else but InvokeStart and TaDies is     *)
(* hidden.                                                                 *)

\* TeecCall brings its own copy of the definitions of TeecParams: they are the same.
LEMMA SameNullOperation == Call!NullOperation = NullOperation
  BY DEF Call!NullOperation, NullOperation, Call!NoParam, NoParam, Call!Index, Index

\* The copies into and out of the TA are those of TeecParams.
LEMMA SameCopies ==
    ASSUME NEW op, NEW ps
    PROVE  /\ Call!prepare_params(op) = prepare_params(op)
           /\ Call!writeback_params(op, ps) = writeback_params(op, ps)
<1>1. Call!prepare_params(op) = prepare_params(op)
  BY DEF Call!prepare_params, prepare_params, Call!Index, Index, Call!ValueIn, ValueIn,
         Call!MemIn, MemIn, Call!MemOut, MemOut, Call!Mem, Mem, Call!Filled, Filled
<1>2. Call!writeback_params(op, ps) = writeback_params(op, ps)
  BY DEF Call!writeback_params, writeback_params, Call!Index, Index, Call!ValueOut, ValueOut,
         Call!MemOut, MemOut, Call!Overwrite, Overwrite
<1>3. QED
  BY <1>1, <1>2

\* The outcomes of a command are those of TeecParams.
LEMMA SameOutcome ==
    ASSUME NEW cmd, NEW types, NEW ps
    PROVE  Call!Outcome(cmd, types, ps) = Outcome(cmd, types, ps)
<1>1. Call!QueryOutcome(ps) = QueryOutcome(ps)
  BY DEF Call!QueryOutcome, QueryOutcome, Call!TaskCopied, TaskCopied, Call!copyout_param,
         copyout_param, Call!Overwrite, Overwrite
<1>2. Call!ReachesSession(cmd, types, ps) = ReachesSession(cmd, types, ps)
  BY DEF Call!ReachesSession, ReachesSession, Call!Terminated, Terminated, Call!LastByte, LastByte,
         Call!SetDevOptionTypes, SetDevOptionTypes, Call!TaskDoneTypes, TaskDoneTypes,
         Call!QueryTypes, QueryTypes, Call!Types, Types
<1>3. QED
  BY <1>1, <1>2 DEF Call!Outcome, Outcome, Call!AgentCommand, AgentCommand

\* A step that a user of the TEEC API does not see.
LEMMA Hidden ==
    ASSUME InCall' <=> InCall, InCall => (Served' <=> Served),
           called' = called, ret' = ret,
           ~InCall => operation' = operation,
           InCall /\ Served => r' = r /\ params' = params,
           enclave' = "dead" <=> enclave = "dead"
    PROVE  UNCHANGED Call!callVars
<1>1. CASE InCall /\ Served
  BY <1>1 DEF Call!callVars
<1>2. CASE InCall /\ ~Served
  BY <1>2 DEF Call!callVars
<1>3. CASE ~InCall
  BY <1>3 DEF Call!callVars
<1>4. QED
  BY <1>1, <1>2, <1>3

\* The enclave's side of a step that a user of the API does not see.
LEMMA EnclaveHidden ==
    ASSUME DataInv, EnclaveStep, ~EntryPoint
    PROVE  UNCHANGED Call!callVars
<1> USE DEF queueVars
<1>1. CASE Boot \/ EnclaveNotify \/ EnclaveReturn
  <2>1. /\ UNCHANGED <<host, current, invoking, called, ret, operation, r, params>>
        /\ enclave \notin {"write", "dead"} /\ enclave' \notin {"write", "dead"}
    BY <1>1 DEF Boot, EnclaveNotify, EnclaveReturn
  <2>2. (InCall' <=> InCall) /\ (Served' <=> Served)
    BY <2>1 DEF InCall, Calling, Served
  <2>3. QED
    BY <2>1, <2>2, Hidden
<1>2. CASE PullCommand
  <2>1. /\ UNCHANGED <<host, current, invoking, called, ret, operation, r>>
        /\ enclave = "pull" /\ enclave' \in {"pull", "read"}
        /\ ~invoking => params' = params
    BY <1>2 DEF PullCommand
  <2>2. /\ InCall' <=> InCall
        /\ Served' <=> Served
        /\ Served => ~invoking
    BY <2>1 DEF InCall, Calling, Served
  <2>3. QED
    BY <2>1, <2>2, Hidden
<1>3. CASE PutExit
  <2>1. operation' = operation /\ ~InCall /\ ~InCall'
    BY <1>3, PutExitKeeps
  <2>2. called' = called /\ ret' = ret /\ enclave # "dead" /\ enclave' # "dead"
    BY <1>3 DEF PutExit
  <2>3. QED
    BY <2>1, <2>2, Hidden
<1>4. CASE ReadChunk \/ NextInput
  <2>1. /\ UNCHANGED <<host, current, invoking, called, ret, operation>>
        /\ enclave = "read" /\ enclave' = "read" /\ ~Exiting
    BY <1>4 DEF ReadChunk, NextInput
  <2>2. InCall /\ invoking
    BY <2>1, AtCommandFacts
  <2>3. InCall' /\ ~Served /\ ~Served'
    BY <2>1, <2>2 DEF InCall, Calling, Served
  <2>4. QED
    BY <2>1, <2>2, <2>3, Hidden
<1>5. CASE WriteChunk \/ NextOutput \/ PutResult
  <2>1. /\ UNCHANGED <<host, current, called, ret, r, params>>
        /\ enclave = "write" /\ enclave' \in {"write", "notify"}
        /\ Served'
    BY <1>5 DEF WriteChunk, NextOutput, PutResult, put_invoke_command_result, Served
  <2>2. InCall /\ Served
    BY <2>1, WriteFacts
  <2>3. InCall'
    BY <2>1, <2>2 DEF InCall, Calling
  <2>4. QED
    BY <2>1, <2>2, <2>3, Hidden
<1>6. QED
  BY <1>1, <1>2, <1>3, <1>4, <1>5 DEF EnclaveStep

\* The client's side of a step that a user of the API does not see.
LEMMA HostHidden ==
    ASSUME DataInv,
           \/ OpenSession \/ CloseSession \/ HostNotify \/ Join \/ SpuriousWakeup
           \/ PullResult /\ (invoking \/ ~InCall)
    PROVE  UNCHANGED Call!callVars
<1> USE DEF queueVars, enclaveVars
<1>1. CASE OpenSession
  <2>1. ~InCall /\ ~InCall' /\ enclave = "off"
    BY <1>1 DEF OpenSession, InCall, Calling, DataInv, HandOver, FlagOwned
  <2>2. QED
    BY <1>1, <2>1, Hidden DEF OpenSession
<1>2. CASE CloseSession
  <2>1. ~InCall /\ ~InCall'
    BY <1>2 DEF CloseSession, put_invoke_command, InvokeCommand, InCall, Calling
  <2>2. QED
    BY <1>2, <2>1, Hidden DEF CloseSession
<1>3. CASE HostNotify \/ Join \/ SpuriousWakeup \/ (PullResult /\ invoking)
  <2>1. /\ UNCHANGED <<current, invoking, called, ret, operation, r, params, enclave>>
        /\ Calling' <=> Calling
    BY <1>3 DEF HostNotify, Join, SpuriousWakeup, PullResult, Calling
  <2>2. (InCall' <=> InCall) /\ (Served' <=> Served)
    BY <2>1 DEF InCall, Served
  <2>3. QED
    BY <2>1, <2>2, Hidden
<1>4. CASE PullResult /\ ~invoking /\ ~InCall
  <2>1. Calling /\ current.commandID = "EXIT"
    BY <1>4 DEF PullResult, InCall, Calling
  <2>2. UNCHANGED <<called, ret, operation, enclave>> /\ ~InCall'
    BY <1>4, <2>1 DEF PullResult, InCall, Calling
  <2>3. QED
    BY <1>4, <2>2, Hidden
<1>5. QED
  BY <1>1, <1>2, <1>3, <1>4

\* Every step of the two threads is a step of a call, or hidden.
LEMMA CallStep ==
    ASSUME DataInv, [KeystoneNext]_keystoneVars
    PROVE  [Call!CallNext]_Call!callVars
<1> USE DEF queueVars, enclaveVars
<1>1. CASE EntryPoint
  <2>1. /\ enclave = "read" /\ enclave' = "write"
        /\ UNCHANGED <<host, current, invoking, called, ret>>
    BY <1>1 DEF EntryPoint
  <2>2. InCall /\ ~Served
    <3>1. ~Exiting
      BY <1>1 DEF EntryPoint
    <3>2. QED
      BY <2>1, <3>1, AtCommandFacts DEF Served
  <2>3. InCall' /\ Served'
    BY <2>1, <2>2 DEF InCall, Calling, Served
  <2>4. [result |-> r', params |-> params']
            \in Call!Outcome(called.command, called.op.types, Call!prepare_params(called.op))
    BY <1>1, EntryPointKeeps, SameCopies, SameOutcome DEF Prepared
  <2>5. Call!Serve
    BY <2>1, <2>2, <2>3, <2>4 DEF Call!Serve
  <2>6. QED
    BY <2>5 DEF Call!CallNext
<1>2. CASE TaDies
  <2>1. /\ enclave = "read" /\ enclave' = "dead" /\ ~Exiting
        /\ UNCHANGED <<host, current, invoking, called, ret, operation>>
    BY <1>2 DEF TaDies
  <2>2. InCall /\ ~Served /\ invoking
    BY <2>1, AtCommandFacts DEF Served
  <2>3. InCall' /\ ~Served'
    BY <2>1, <2>2 DEF InCall, Calling, Served
  <2>4. Call!Die
    BY <2>1, <2>2, <2>3 DEF Call!Die
  <2>5. QED
    BY <2>4 DEF Call!CallNext
<1>3. ASSUME NEW cmd \in Command, NEW op \in ClientOp, InvokeStart(cmd, op)
      PROVE  Call!Invoke(cmd, op)
  <2>1. /\ host = "ready" /\ host' = "notify" /\ called' = [command |-> cmd, op |-> op]
        /\ current'.commandID = cmd /\ invoking' = TRUE /\ enclave' = enclave /\ ret' = ret
    BY <1>3 DEF InvokeStart, put_invoke_command, InvokeCommand
  <2>2. ~InCall /\ enclave \notin {"write", "dead"}
    BY <2>1, EnclaveElsewhere DEF InCall, Calling
  <2>3. cmd # "EXIT"
    BY KeystoneQueueAssumption
  <2>4. InCall' /\ ~Served'
    BY <2>1, <2>2, <2>3 DEF InCall, Calling, Served
  <2>5. called'.command = cmd /\ called'.op = op
    BY <2>1
  <2>6. QED
    BY <2>1, <2>2, <2>4, <2>5 DEF Call!Invoke
<1>4. CASE PullResult /\ ~invoking /\ InCall
  <2>1. /\ UNCHANGED <<operation, called, enclave>> /\ ret' = command_result
        /\ ~InCall' /\ Served
    BY <1>4 DEF PullResult, InCall, Calling, Served
  <2>2. command_result = r /\ operation = writeback_params(called.op, params)
    BY <1>4 DEF DataInv, CopyInv, AnswerReady
  <2>3. operation' = Call!writeback_params(called.op, params)
    BY <2>1, <2>2, SameCopies
  <2>4. Call!Return
    BY <1>4, <2>1, <2>2, <2>3 DEF Call!Return
  <2>5. QED
    BY <2>4 DEF Call!CallNext
<1>5. CASE UNCHANGED keystoneVars
  <2>1. UNCHANGED <<host, current, invoking, called, ret, operation, r, params, enclave>>
    BY <1>5 DEF keystoneVars
  <2>2. (InCall' <=> InCall) /\ (Served' <=> Served)
    BY <2>1 DEF InCall, Calling, Served
  <2>3. QED
    BY <2>1, <2>2, Hidden
<1>6. CASE \/ OpenSession \/ CloseSession \/ HostNotify \/ Join \/ SpuriousWakeup
           \/ PullResult /\ (invoking \/ ~InCall)
  BY <1>6, HostHidden
<1>7. CASE EnclaveStep /\ ~EntryPoint
  BY <1>7, EnclaveHidden
<1>8. QED
  BY <1>1, <1>2, <1>3, <1>4, <1>5, <1>6, <1>7 DEF KeystoneNext, HostStep, Call!CallNext

\* On Keystone, too, a TEEC_InvokeCommand is one call of the TA on the client's
\* inputs, with its outputs: neither the queue nor the copies in chunks show.
THEOREM KeystoneImplementsCall == KeystoneSpec => ImplementsCall
<1>1. KeystoneInit => Call!CallInit
  BY SameNullOperation DEF KeystoneInit, Call!CallInit, InCall, Calling
<1>2. DataInv /\ [KeystoneNext]_keystoneVars => [Call!CallNext]_Call!callVars
  BY CallStep
<1>3. QED
  BY <1>1, <1>2, DataInvariant, PTL DEF KeystoneSpec, ImplementsCall, Call!CallSpec

=============================================================================
