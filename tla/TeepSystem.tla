----------------------------- MODULE TeepSystem -----------------------------
(***************************************************************************)
(* The device: the TEEP Broker (teep-broker-app/teep-broker.c) driving a   *)
(* session of the TEEP Agent, and an arbitrary TAM behind HTTP.            *)
(*                                                                         *)
(* loop_teep is sequential: each of its TEEC_InvokeCommand calls is a      *)
(* client action of TeepAgent, and while the agent serves a query the      *)
(* broker waits.                                                           *)
(***************************************************************************)
EXTENDS TeepAgent, SuitReference

CONSTANTS
    BrokerUriLen,   \* length of the --tamurl argument
    BrokerTaList    \* the --talist argument

ASSUME TeepSystemAssumption ==
    BrokerUriLen \in Nat /\ BrokerTaList \in Seq(Request)

VARIABLES
    broker,         \* where loop_teep is
    last_reply,     \* history: the last answer of the TAM
    posted,         \* history: the messages that reached the TAM, with the agent's state
    update_received, \* history: the TAM has sent an Update
    http_failed     \* history: a request failed

historyVars == <<last_reply, posted, update_received, http_failed>>
systemVars == <<agentVars, broker, historyVars>>

----------------------------------------------------------------------------

\* broker_ctx_init: initialise the TEE context and open a session.
OpenSession ==
    /\ broker = "start"
    /\ broker' \in {"set-uri", "closed"}
    /\ UNCHANGED <<agentVars, historyVars>>

\* loop_teep ignores the results of both set_agent_dev_option calls.
BrokerSetUri ==
    /\ broker = "set-uri"
    /\ SetTamUri(BrokerUriLen)
    /\ broker' = "set-list"
    /\ UNCHANGED historyVars

BrokerSetList ==
    /\ broker = "set-list"
    /\ SetTaList(BrokerTaList)
    /\ broker' = "query"
    /\ UNCHANGED historyVars

BrokerQuery ==
    /\ broker = "query"
    /\ QueryNext
    /\ broker' = "wait"
    /\ UNCHANGED historyVars

AgentWorks == QueryLoop /\ UNCHANGED <<broker, historyVars>>

\* Mutant: the FINISH task does not end the loop.
BrokerDispatchAnyTask ==
    /\ broker = "wait" /\ Idle
    /\ broker' = IF result # "SUCCESS" THEN "closed" ELSE "http"
    /\ UNCHANGED <<agentVars, historyVars>>

\* The query has returned: quit on an error or on FINISH, else do the task.
BrokerDispatch ==
    /\ broker = "wait" /\ Idle
    /\ broker' = IF result # "SUCCESS" \/ on_going_task.command = "FINISH"
                 THEN "closed" ELSE "http"
    /\ UNCHANGED <<agentVars, historyVars>>

\* A TEE error code is a negative int: loop_teep returns.
AfterTaskDone == broker' = IF result' = "SUCCESS" THEN "query" ELSE "closed"

BrokerHttpPost(m) ==
    /\ broker = "http"
    /\ HandleTamMessage(m)
    /\ AfterTaskDone
    /\ last_reply' = m.type
    /\ posted' = posted \cup {[type |-> on_going_task.data.type, state |-> state]}
    /\ update_received' = (update_received \/ m.type = "update")
    /\ UNCHANGED http_failed

BrokerHttpGet(body) ==
    /\ broker = "http"
    /\ HandleComponentDownload(body)
    /\ AfterTaskDone
    /\ UNCHANGED historyVars

HttpFails ==
    /\ broker = "http"
    /\ broker' = "closed"
    /\ http_failed' = TRUE
    /\ UNCHANGED <<agentVars, last_reply, posted, update_received>>

\* The TA is gone: the TEEC_InvokeCommand under way, or the next, fails.
AgentDead ==
    /\ crashed /\ broker # "closed"
    /\ broker' = "closed"
    /\ UNCHANGED <<agentVars, historyVars>>

SystemInit ==
    /\ AgentInit
    /\ broker = "start"
    /\ last_reply = "none"
    /\ posted = {}
    /\ update_received = FALSE
    /\ http_failed = FALSE

SystemNext ==
    \/ OpenSession \/ BrokerSetUri \/ BrokerSetList \/ BrokerQuery \/ BrokerDispatch
    \/ AgentWorks
    \/ \E m \in Message : BrokerHttpPost(m)
    \/ \E body \in Body : BrokerHttpGet(body)
    \/ HttpFails \/ AgentDead

\* One thread runs broker and agent in turn, and an HTTP request ends with an
\* answer or an error: the system does not stop before the broker has closed.
SystemSpec == SystemInit /\ [][SystemNext]_systemVars /\ WF_systemVars(SystemNext)

----------------------------------------------------------------------------
(* Properties.                                                             *)

Closed == broker = "closed"

\* loop_teep and the agent never get out of step: no command of the broker is
\* refused with BAD_STATE, there is a task to do whenever one is done, and the
\* agent is never left in the middle of a query.
BrokerInStep ==
    /\ result # "BAD_STATE"
    /\ broker = "http" => on_going_task.command \in {"HTTP_POST", "HTTP_GET"}
    /\ broker = "query" /\ ~crashed => on_going_task = NoTask
    /\ busy => broker \in {"wait", "closed"}

TypesPosted == {p.type : p \in posted}

\* The Success or the Error did not fit in post_data, and went out unbuilt.
ReportLost ==
    \E p \in posted : p.type = "unbuilt" /\ p.state \in {"POSTING_SUCCESS", "POSTING_ERROR"}

\* If the broker stops after an Update has been accepted for installation,
\* the TAM has been told the outcome, unless HTTP or the TA failed or a task did
\* not fit in the broker's buffers or the report itself in post_data.
AcceptedIsReported ==
    Closed /\ accepted # <<>> /\ ~http_failed /\ ~crashed /\ result # "BAD_PARAMETERS"
           /\ ~ReportLost
        => TypesPosted \cap {"success", "error"} # {}

\* A TA that crashes leaves no half-made installation behind: out of memory for the
\* token or for an envelope, an Update without a manifest and a severed sequence
\* all strike before the first store.  Only the copy of an endless uri, which
\* happens between two stores of a run, may come later.
CrashLeavesStore == crashed => installs = <<>> \/ fetch.uri \in WildUri

\* A Success is posted only if the manifest that the TAM's Update carried last has
\* been executed to its end, over all suspensions and downloads of the session: the
\* stores made are those of the reference, in its order, and the reference does
\* not fail.  A sequence that is not read installs nothing.
SuccessMeansExecuted ==
    state = "POSTING_SUCCESS" =>
        LET m == accepted[Len(accepted)].manifest
            ref == RefRun(m, "site")
        IN  IF SequenceReadable(m) THEN ref.ok /\ Log = ref.log ELSE installs = <<>>

\* An Update has been received, and refused without a change of state.
RefusedUpdate == state = "POSTING_QUERY_RESPONSE" /\ last_reply = "update"

\* Every session ends, unless the TAM keeps sending Updates that cannot be stored:
\* each of them makes the agent post the same QueryResponse again.
SessionEnds == <>Closed \/ []<>RefusedUpdate

----------------------------------------------------------------------------
(* Statements of the repository's documents that the code does not meet.   *)

\* docs/teep-device_operations.md:10 "The result of processing the Update message
\* in the device is reported to the TAM with a Success-Error message."
UpdateReported ==
    Closed /\ ~http_failed /\ ~crashed /\ update_received
           /\ result # "BAD_PARAMETERS"
        => TypesPosted \cap {"success", "error"} # {}

\* docs/overview_of_teep-device.md: the Broker is responsible "for returning the
\* TEE's responses to the TAM": it does not stop with the agent's Error message
\* still to be posted.
ErrorRelayed == Closed /\ ~http_failed => state # "POSTING_ERROR"

=============================================================================
