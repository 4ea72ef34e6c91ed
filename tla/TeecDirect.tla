----------------------------- MODULE TeecDirect -----------------------------
(***************************************************************************)
(* The TEEC API on the platforms where the TA runs in the client's thread: *)
(* teec-pc.c, which calls the TA's entry points directly, and teec-sgx.cpp *)
(* with the ecalls of teep-agent-ta.c.                                     *)
(***************************************************************************)
EXTENDS TeecParams

CONSTANTS
    Command, ClientOp, NoOutcome,   \* as in TeecCall
    Platforms,      \* the shims to model, some of "pc" and "sgx"
    OpenMayFail,    \* whether the TA's session can run out of memory
    TaMayDie        \* whether a command can end in a fault inside the TA

ASSUME TeecDirectAssumption ==
    /\ Platforms \subseteq {"pc", "sgx"} /\ OpenMayFail \in BOOLEAN /\ TaMayDie \in BOOLEAN
    /\ ClientOp \subseteq Operation

VARIABLES
    platform,   \* the shim, fixed by the build
    client,     \* where the client is
    session,    \* whether the TA has a session
    ta,         \* "alive" or "dead"
    command,    \* the command of the call under way or last made
    operation,  \* the client's operation
    params,     \* the TA's copy, while a command is served
    outcome,    \* what the entry point returned, while a call is under way
    ret         \* what the last TEEC_InvokeCommand returned

directVars == <<platform, client, session, ta, command, operation, params, outcome, ret>>
dataVars == <<command, operation, params, outcome, ret>>

NoParams == [i \in Index |-> NoParam]

----------------------------------------------------------------------------

\* TEEC_InitializeContext: on SGX the enclave is created, which may fail.
InitializeContext ==
    /\ client = "start"
    /\ \/ client' = "context"
       \/ platform = "sgx" /\ client' = "closed"
    /\ UNCHANGED <<platform, session, ta, dataVars>>

\* The session that the TA opens, if its memory suffices.
TA_OpenSessionEntryPoint == IF OpenMayFail THEN BOOLEAN ELSE {TRUE}

\* TEEC_OpenSession with the broker's empty operation: the PC shim returns the
\* TA's result, the SGX shim TEEC_SUCCESS.
OpenSession ==
    /\ client = "context"
    /\ session' \in TA_OpenSessionEntryPoint
    /\ client' = IF platform = "sgx" \/ session' THEN "ready" ELSE "closed"
    /\ UNCHANGED <<platform, ta, dataVars>>

\* TEEC_InvokeCommand up to the entry point: prepare_params (PC) and the first
\* loops of ecall_TA_InvokeCommandEntryPoint (SGX) make the TA's copy.
InvokeCommand(cmd, op) ==
    /\ client = "ready" /\ ta = "alive"
    /\ client' = "called"
    /\ command' = cmd /\ operation' = op
    /\ params' = prepare_params(op)
    /\ UNCHANGED <<platform, session, ta, outcome, ret>>

\* The SGX shim ignores the status of the ecall: without an enclave the call
\* returns the initial value of r.
InvokeDead(cmd, op) ==
    /\ client = "ready" /\ ta = "dead"
    /\ command' = cmd /\ operation' = op
    /\ ret' = "SUCCESS"
    /\ UNCHANGED <<platform, client, session, ta, params, outcome>>

\* Without a session only a command that is refused before it is needed gets served.
ServeCommand ==
    /\ client = "called"
    /\ client' = "served"
    /\ outcome' \in Outcome(command, operation.types, params)
    /\ ~session => /\ LeavesSession(command, operation.types, params)
                   /\ outcome'.result \in {"BAD_PARAMETERS", "NOT_IMPLEMENTED"}
    /\ params' = outcome'.params
    /\ UNCHANGED <<platform, session, ta, command, operation, ret>>

\* The TA faults, for one in a handler given a null session, or on the byte before
\* an empty option: on PC the process ends, on SGX the ecall returns an error
\* status that is ignored.
TaDies ==
    /\ client = "called"
    /\ \/ TaMayDie
       \/ ~session /\ ReachesSession(command, operation.types, params)
    /\ ta' = "dead"
    /\ client' = IF platform = "pc" THEN "closed" ELSE "ready"
    /\ ret' = IF platform = "pc" THEN ret ELSE "SUCCESS"
    /\ UNCHANGED <<platform, session, command, operation, params, outcome>>

\* Mutant: outputs are copied back only after a failure.
ReturnUnwritten ==
    /\ client = "served"
    /\ client' = "ready"
    /\ operation' = IF outcome.result # "SUCCESS"
                    THEN writeback_params(operation, params) ELSE operation
    /\ ret' = outcome.result
    /\ params' = NoParams /\ outcome' = NoOutcome
    /\ UNCHANGED <<platform, session, ta, command>>

\* The rest of TEEC_InvokeCommand: PC copies the outputs back after a success
\* only, SGX always.
InvokeReturn ==
    /\ client = "served"
    /\ client' = "ready"
    /\ operation' = IF platform = "sgx" \/ outcome.result = "SUCCESS"
                    THEN writeback_params(operation, params) ELSE operation
    /\ ret' = outcome.result
    /\ params' = NoParams /\ outcome' = NoOutcome
    /\ UNCHANGED <<platform, session, ta, command>>

\* TEEC_CloseSession and TEEC_FinalizeContext.
CloseSession ==
    /\ client = "ready"
    /\ client' = "closed" /\ session' = FALSE
    /\ UNCHANGED <<platform, ta, dataVars>>

DirectInit ==
    /\ platform \in Platforms
    /\ client = "start" /\ session = FALSE /\ ta = "alive"
    /\ command = "none" /\ operation = NullOperation
    /\ params = NoParams /\ outcome = NoOutcome /\ ret = "none"

DirectNext ==
    \/ InitializeContext \/ OpenSession
    \/ \E cmd \in Command, op \in ClientOp : InvokeCommand(cmd, op) \/ InvokeDead(cmd, op)
    \/ ServeCommand \/ TaDies \/ InvokeReturn \/ CloseSession

DirectSpec == DirectInit /\ [][DirectNext]_directVars

----------------------------------------------------------------------------
(* Properties.                                                             *)

\* The outputs of the entry point fit in the client's buffers: neither the
\* memcpy of writeback_params nor the memcpy_s of the ecall goes past them.
OutputsFit ==
    client = "served" =>
        \A i \in Index : operation.types[i] \in Mem =>
            /\ params[i].size <= operation.params[i].size
            /\ params[i].size <= Len(params[i].buffer)

Call == INSTANCE TeecCall WITH
    phase <- IF client \in {"called", "served"} THEN client ELSE "idle",
    alive <- ta = "alive"

\* Both shims are calls of the TA on the client's inputs, with its outputs.
ImplementsCall == Call!CallSpec

=============================================================================
