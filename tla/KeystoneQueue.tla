--------------------------- MODULE KeystoneQueue ---------------------------
(***************************************************************************)
(* The TEEC API on Keystone (teec-keystone.cpp): the client's thread and   *)
(* the enclave's thread hand a command over through class CommandQueue,    *)
(* one mutex, one condition variable and one flag for both directions; the *)
(* enclave (eapp_entry) fetches and returns buffers chunk by chunk with    *)
(* ocalls that take no lock.                                               *)
(*                                                                         *)
(* A step is a critical section, an ocall, or the notify_one that follows  *)
(* an unlock.                                                              *)
(***************************************************************************)
EXTENDS TeecParams, FiniteSets

CONSTANTS
    Command, ClientOp, NoOutcome,   \* as in TeecCall
    ChunkSize,      \* sizeof(param_buffer_t.buf), 256 in the code
    TaMayDie        \* whether a command can end in a fault inside the enclave

ASSUME KeystoneQueueAssumption ==
    /\ ChunkSize \in Nat \ {0} /\ TaMayDie \in BOOLEAN /\ "EXIT" \notin Command
    /\ ClientOp \subseteq Operation

VARIABLES
    host,           \* where the client's thread is
    operation,      \* the client's operation
    current,        \* the command in the queue
    op_set,         \* current.operation is not NULL
    invoking,       \* the queue's flag
    command_result, \* current.command_result
    sleeping,       \* the threads blocked in cv.wait
    enclave,        \* where eapp_entry is
    c,              \* eapp_entry's copy of the command
    params,         \* its parameters
    index, offset,  \* the parameter and the offset it is at
    r,              \* what the entry point returned
    ret,            \* what the last TEEC_InvokeCommand returned
    called          \* history: the command and the operation as the client passed them

queueVars == <<current, op_set, invoking, command_result>>
enclaveVars == <<enclave, c, params, index, offset, r>>
keystoneVars == <<host, operation, queueVars, sleeping, enclaveVars, ret, called>>

HostState == {"start", "ready", "notify", "wait", "join", "closed"}
EnclaveState == {"off", "boot", "pull", "read", "write", "notify", "close",
                 "done", "dead"}

\* invoke_command_t: values and sizes travel with the command, buffers do not.
InvokeCommand(cmd, op) ==
    [commandID |-> cmd, types |-> op.types,
     value |-> [i \in Index |-> IF op.types[i] \in ValueIn THEN op.params[i].value ELSE Zero],
     size |-> [i \in Index |-> IF op.types[i] \in Mem THEN op.params[i].size ELSE 0]]

NoParams == [i \in Index |-> NoParam]
Exiting == c.commandID = "EXIT"
AtMost(n, m) == IF n > m THEN m ELSE n
Chunk(n) == AtMost(n, ChunkSize)

----------------------------------------------------------------------------
(* The client's thread.                                                    *)

\* TEEC_OpenSession: the enclave is loaded, which may fail, and its thread
\* started; what the TA says to the new session is not looked at.
OpenSession ==
    /\ host = "start"
    /\ \/ host' = "ready" /\ enclave' = "boot"
       \/ host' = "closed" /\ UNCHANGED enclave
    /\ UNCHANGED <<operation, queueVars, sleeping, c, params, index, offset, r, ret, called>>

\* CommandQueue::put_invoke_command, up to the unlock.
put_invoke_command(cmd, op, given) ==
    /\ current' = InvokeCommand(cmd, op)
    /\ op_set' = given
    /\ invoking' = TRUE
    /\ UNCHANGED command_result

InvokeStart(cmd, op) ==
    /\ host = "ready"
    /\ host' = "notify"
    /\ operation' = op /\ called' = [command |-> cmd, op |-> op]
    /\ put_invoke_command(cmd, op, TRUE)
    /\ UNCHANGED <<sleeping, enclaveVars, ret>>

\* TEEC_CloseSession: the command EXIT, without an operation, then a join.
CloseSession ==
    /\ host = "ready"
    /\ host' = "notify"
    /\ put_invoke_command("EXIT", NullOperation, FALSE)
    /\ UNCHANGED <<operation, sleeping, enclaveVars, ret, called>>

\* cv.notify_one wakes one sleeper, if there is one.
NotifyOne ==
    IF sleeping = {} THEN UNCHANGED sleeping
    ELSE \E t \in sleeping : sleeping' = sleeping \ {t}

\* Mutant: the client waits without a notification.
HostNotifyNobody ==
    /\ host = "notify"
    /\ host' = "wait"
    /\ UNCHANGED <<operation, queueVars, sleeping, enclaveVars, ret, called>>

HostNotify ==
    /\ host = "notify"
    /\ host' = "wait"
    /\ NotifyOne
    /\ UNCHANGED <<operation, queueVars, enclaveVars, ret, called>>

\* Mutant: the wait has no predicate, so any wakeup ends it.
PullResultUnchecked ==
    /\ host = "wait" /\ "host" \notin sleeping
    /\ host' = IF current.commandID = "EXIT" THEN "join" ELSE "ready"
    /\ ret' = IF current.commandID = "EXIT" THEN ret ELSE command_result
    /\ UNCHANGED <<operation, queueVars, sleeping, enclaveVars, called>>

\* CommandQueue::pull_invoke_command_result: sleep while a command is invoked.
PullResult ==
    /\ host = "wait" /\ "host" \notin sleeping
    /\ \/ /\ invoking
          /\ sleeping' = sleeping \cup {"host"}
          /\ UNCHANGED <<host, ret>>
       \/ /\ ~invoking
          /\ host' = IF current.commandID = "EXIT" THEN "join" ELSE "ready"
          /\ ret' = IF current.commandID = "EXIT" THEN ret ELSE command_result
          /\ UNCHANGED sleeping
    /\ UNCHANGED <<operation, queueVars, enclaveVars, called>>

\* enclave_thread.join()
Join ==
    /\ host = "join" /\ enclave = "done"
    /\ host' = "closed"
    /\ UNCHANGED <<operation, queueVars, sleeping, enclaveVars, ret, called>>

----------------------------------------------------------------------------
(* The enclave's thread: eapp_entry.                                       *)

\* TA_CreateEntryPoint and TA_OpenSessionEntryPoint.
Boot ==
    /\ enclave = "boot"
    /\ enclave' = "pull"
    /\ UNCHANGED <<host, operation, queueVars, sleeping, c, params, index, offset, r, ret, called>>

\* CommandQueue::put_invoke_command_result, up to the unlock.
put_invoke_command_result(cmd, values, sizes, result) ==
    /\ operation' = [operation EXCEPT !.params = [i \in Index |->
            LET t == cmd.types[i]  p == operation.params[i]
            IN  [value |-> IF t \in ValueOut THEN values[i] ELSE p.value,
                 buffer |-> p.buffer,
                 size |-> IF t \in MemOut THEN sizes[i] ELSE p.size]]]
    /\ command_result' = result
    /\ op_set' = FALSE
    /\ invoking' = FALSE
    /\ UNCHANGED current

\* CommandQueue::pull_invoke_command: sleep until a command is invoked, then
\* allocate the parameters.
PullCommand ==
    /\ enclave = "pull" /\ "enclave" \notin sleeping
    /\ \/ /\ ~invoking
          /\ sleeping' = sleeping \cup {"enclave"}
          /\ UNCHANGED <<enclave, c, params, index, offset>>
       \/ /\ invoking
          /\ c' = current
          /\ enclave' = "read" /\ index' = 1 /\ offset' = 0
          /\ params' = [i \in Index |->
                [value |-> current.value[i],
                 buffer |-> Filled(IF current.types[i] \in MemIn THEN Uninit ELSE Zero,
                                   current.size[i]),
                 size |-> current.size[i]]]
          /\ UNCHANGED sleeping
    /\ UNCHANGED <<host, operation, queueVars, r, ret, called>>

\* The answer to EXIT is put at once, and ends the loop.
PutExit ==
    /\ enclave = "read" /\ Exiting
    /\ enclave' = "notify"
    /\ put_invoke_command_result(c, c.value, c.size, "SUCCESS")
    /\ UNCHANGED <<host, sleeping, c, params, index, offset, r, ret, called>>

\* Mutant: the last byte of every chunk is lost.
ChunkReadShort(ref, off) == SubSeq(ref.buffer, off + 1, off + Chunk(ref.size - off) - 1)

\* CommandQueue::read_invoke_param
read_invoke_param(ref, off) ==
    IF off > ref.size THEN <<>> ELSE SubSeq(ref.buffer, off + 1, off + Chunk(ref.size - off))

ReadChunk ==
    /\ enclave = "read" /\ ~Exiting /\ index <= 4
    /\ c.types[index] \in MemIn /\ offset < c.size[index]
    /\ LET data == read_invoke_param(operation.params[index], offset)
       IN  /\ params' = [params EXCEPT ![index].buffer =
                Overwrite(params[index].buffer, offset, data)]
           /\ offset' = offset + Len(data)
    /\ UNCHANGED <<host, operation, queueVars, sleeping, enclave, c, index, r, ret, called>>

NextInput ==
    /\ enclave = "read" /\ ~Exiting /\ index <= 4
    /\ c.types[index] \in MemIn => offset >= c.size[index]
    /\ index' = index + 1 /\ offset' = 0
    /\ UNCHANGED <<host, operation, queueVars, sleeping, enclave, c, params, r, ret, called>>

\* TA_InvokeCommandEntryPoint
EntryPoint ==
    /\ enclave = "read" /\ ~Exiting /\ index = 5
    /\ \E out \in Outcome(c.commandID, c.types, params) :
            r' = out.result /\ params' = out.params
    /\ enclave' = "write" /\ index' = 1 /\ offset' = 0
    /\ UNCHANGED <<host, operation, queueVars, sleeping, c, ret, called>>

\* malloc returned null, or the entry point faulted (on the byte before an empty
\* option, for one): enclave.run() returns, and nobody tells the client.
TaDies ==
    /\ TaMayDie
    /\ enclave = "read" /\ ~Exiting
    /\ enclave' = "dead"
    /\ UNCHANGED <<host, operation, queueVars, sleeping, c, params, index, offset, r, ret, called>>

\* CommandQueue::write_invoke_param: what does not fit is dropped.
write_invoke_param(ref, off, data) ==
    IF off > ref.size THEN ref
    ELSE [ref EXCEPT !.buffer =
            Overwrite(ref.buffer, off, SubSeq(data, 1, AtMost(Len(data), ref.size - off)))]

\* Mutant: every chunk is written to the start of the buffer.
WriteChunkAtStart ==
    /\ enclave = "write" /\ index <= 4
    /\ c.types[index] \in MemOut /\ offset < params[index].size
    /\ LET n == Chunk(params[index].size - offset)
       IN  /\ operation' = [operation EXCEPT !.params[index] =
                write_invoke_param(operation.params[index], 0,
                                   SubSeq(params[index].buffer, offset + 1, offset + n))]
           /\ offset' = offset + n
    /\ UNCHANGED <<host, queueVars, sleeping, enclave, c, params, index, r, ret, called>>

WriteChunk ==
    /\ enclave = "write" /\ index <= 4
    /\ c.types[index] \in MemOut /\ offset < params[index].size
    /\ LET n == Chunk(params[index].size - offset)
       IN  /\ operation' = [operation EXCEPT !.params[index] =
                write_invoke_param(operation.params[index], offset,
                                   SubSeq(params[index].buffer, offset + 1, offset + n))]
           /\ offset' = offset + n
    /\ UNCHANGED <<host, queueVars, sleeping, enclave, c, params, index, r, ret, called>>

NextOutput ==
    /\ enclave = "write" /\ index <= 4
    /\ c.types[index] \in MemOut => offset >= params[index].size
    /\ index' = index + 1 /\ offset' = 0
    /\ UNCHANGED <<host, operation, queueVars, sleeping, enclave, c, params, r, ret, called>>

PutResult ==
    /\ enclave = "write" /\ index = 5
    /\ enclave' = "notify"
    /\ put_invoke_command_result(c, [i \in Index |-> params[i].value],
                                 [i \in Index |-> params[i].size], r)
    /\ UNCHANGED <<host, sleeping, c, params, index, offset, r, ret, called>>

EnclaveNotify ==
    /\ enclave = "notify"
    /\ enclave' = IF Exiting THEN "close" ELSE "pull"
    /\ NotifyOne
    /\ UNCHANGED <<host, operation, queueVars, c, params, index, offset, r, ret, called>>

\* TA_CloseSessionEntryPoint, and the thread ends.
EnclaveReturn ==
    /\ enclave = "close"
    /\ enclave' = "done"
    /\ UNCHANGED <<host, operation, queueVars, sleeping, c, params, index, offset, r, ret, called>>

----------------------------------------------------------------------------

\* cv.wait may wake without a notification.
SpuriousWakeup ==
    /\ \E t \in sleeping : sleeping' = sleeping \ {t}
    /\ UNCHANGED <<host, operation, queueVars, enclaveVars, ret, called>>

HostStep == HostNotify \/ PullResult \/ Join
EnclaveStep ==
    \/ Boot \/ PullCommand \/ PutExit \/ ReadChunk \/ NextInput \/ EntryPoint
    \/ WriteChunk \/ NextOutput \/ PutResult \/ EnclaveNotify \/ EnclaveReturn

KeystoneInit ==
    /\ host = "start" /\ operation = NullOperation
    /\ current = InvokeCommand("none", NullOperation)
    /\ op_set = FALSE /\ invoking = FALSE /\ command_result = "none"
    /\ sleeping = {}
    /\ enclave = "off" /\ c = InvokeCommand("none", NullOperation)
    /\ params = NoParams /\ index = 1 /\ offset = 0 /\ r = "none"
    /\ ret = "none" /\ called = [command |-> "none", op |-> NullOperation]

KeystoneNext ==
    \/ OpenSession
    \/ \E cmd \in Command, op \in ClientOp : InvokeStart(cmd, op)
    \/ CloseSession
    \/ HostStep \/ EnclaveStep \/ TaDies \/ SpuriousWakeup

\* Both are threads of the operating system, which schedules what can run.  No
\* call is owed by the client, and no wakeup but by notify_one.
KeystoneSpec ==
    /\ KeystoneInit /\ [][KeystoneNext]_keystoneVars
    /\ WF_keystoneVars(HostStep) /\ WF_keystoneVars(EnclaveStep)

----------------------------------------------------------------------------
(* Properties.                                                             *)

Calling == host \in {"notify", "wait"}

\* The unlocked ocalls are safe: while the enclave is at a command, the client
\* is inside TEEC_InvokeCommand, the command is the one in the queue, and
\* current.operation is set unless the command is EXIT.
EnclaveOwnsOperation ==
    enclave \in {"read", "write"} =>
        /\ Calling /\ invoking /\ c = current
        /\ ~Exiting => op_set

\* The two threads are never both asleep on the shared condition variable, and
\* each sleeps only when the other still has to change the flag or to notify.
NeverBothAsleep ==
    /\ sleeping # {"host", "enclave"}
    /\ "enclave" \in sleeping => ~invoking \/ host = "notify"
    /\ "host" \in sleeping => invoking \/ enclave = "notify"

Served == enclave = "write" \/ ~invoking
InCall == Calling /\ current.commandID # "EXIT"

Call == INSTANCE TeecCall WITH
    phase <- IF ~InCall THEN "idle" ELSE IF Served THEN "served" ELSE "called",
    command <- called.command,
    operation <- IF InCall THEN called.op ELSE operation,
    outcome <- IF InCall /\ Served THEN [result |-> r, params |-> params] ELSE NoOutcome,
    alive <- enclave # "dead"

\* The queue and the chunked copies amount to one call of the TA on the client's
\* inputs, with its outputs.
ImplementsCall == Call!CallSpec

\* Every call and every close comes back, unless the TA dies: no wakeup is lost
\* and every loop over a buffer ends.
CallReturns ==
    host \in {"notify", "wait", "join"} ~> host \in {"ready", "closed"} \/ enclave = "dead"
=============================================================================
