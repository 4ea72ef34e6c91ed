------------------------------ MODULE TeepAgent ------------------------------
(***************************************************************************)
(* A session of the TEEP Agent (teep-agent-ta/teep-agent-ta.c).            *)
(*                                                                         *)
(* The client of the TA invokes three commands, in any order: it sets      *)
(* developer options, asks for the next task, and reports a task as done.  *)
(* Asking for a task runs the loop of query_next_broker_task, one action   *)
(* per turn, which drives the SUIT runner; every other command is a single *)
(* action.  Here the client is the most general one; TeepSystem puts the   *)
(* TEEP Broker in its place.                                               *)
(***************************************************************************)
EXTENDS SuitRunner

CONSTANTS
    Token, NoToken,     \* tokens of TEEP messages
    Request,            \* entries of the TA list of a developer option
    Envelope,           \* SUIT envelopes an Update may carry
    NoEnvelope,
    Message,            \* what the TAM may answer a POST with
    LongUri,            \* remote uris that do not fit in broker_task.uri
    WildUri,            \* those that do not fit in what is left of the task either
    TooLong,            \* messages the agent would build that do not fit in post_data
    TamUriLen,          \* lengths of the TAM uris a client may set
    TEEP_MAX_URI_LEN,
    MAX_REQUESTS,       \* length of session->requests (16)
    SUIT_MANIFEST_MAX,
    MallocMayFail       \* TRUE if malloc may fail

DataItem == {"attestation", "trusted-components", "extensions", "suit-commands"}

\* An envelope: is its authentication wrapper readable, does each of its
\* authentication blocks verify, does the digest match the manifest, and does
\* suit_manifest_parse accept the manifest.
EnvelopeType ==
    [wrapper : BOOLEAN, blocks : Seq(BOOLEAN), digest_ok : BOOLEAN,
     readable : BOOLEAN, manifest : Manifest]

\* The answer to a POST: empty, not a TEEP message, or a TEEP message.
MessageType ==
    [type : {"empty", "garbage", "query-request", "query-response", "update",
             "success", "error"},
     token : Token, items : SUBSET DataItem, manifest_list : Seq(Envelope)]

ASSUME TeepAgentAssumption ==
    /\ NoToken \notin Token
    /\ NoEnvelope \notin Envelope
    /\ LongUri \subseteq RemoteUri
    /\ WildUri \subseteq LongUri
    /\ \A data \in TooLong : data.type # "empty"
    /\ TamUriLen \subseteq Nat
    /\ TEEP_MAX_URI_LEN \in Nat
    /\ MAX_REQUESTS \in Nat
    /\ SUIT_MANIFEST_MAX \in Nat
    /\ MallocMayFail \in BOOLEAN

ASSUME EnvelopeAssumption == Envelope \subseteq EnvelopeType

ASSUME MessageAssumption == Message \subseteq MessageType

VARIABLES
    state,                \* enum agent_state
    on_going_task,        \* the broker_task handed out and not yet done
    token,                \* of the QueryRequest
    data_item_requested,  \* of the QueryRequest
    tam_uri,
    uri_terminated,       \* the last byte of task_buffer.uri is a null byte
    requests,             \* the TA list set by the developer option
    suit_manifests,       \* the two envelope buffers, global to the TA
    suit_context,         \* parsed manifests: ranges into the envelope buffers
    busy,                 \* query_next_broker_task is running
    result,               \* TEE_Result of the last command
    accepted              \* history: the manifest list of the Update being run

sessionVars == <<state, on_going_task, token, data_item_requested, tam_uri,
                 uri_terminated, requests, suit_manifests, suit_context, busy, result,
                 accepted>>
agentVars == <<runnerVars, sessionVars>>

AgentState ==
    {"INIT", "POSTING_INITIAL_REQUEST", "POSTING_QUERY_RESPONSE", "POSTING_SUCCESS",
     "POSTING_ERROR", "INIT_RUNNER", "RUN_SUIT_RUNNER", "FETCH_COMPONENT", "FINISH"}

\* Commands of one TA are served one at a time, and none after a crash.
Idle == ~busy /\ ~crashed

----------------------------------------------------------------------------
(* set_dev_option                                                          *)

\* A uri of TEEP_MAX_URI_LEN - 1 characters is accepted, and fills all the bytes of
\* tam_uri that strncpy ever copies: it comes without a terminator.
SetTamUri(len) ==
    /\ Idle
    /\ \/ /\ state # "INIT"
          /\ result' = "BAD_STATE" /\ UNCHANGED tam_uri
       \/ /\ state = "INIT" /\ TEEP_MAX_URI_LEN < len + 1
          /\ result' = "BAD_PARAMETERS" /\ UNCHANGED tam_uri
       \/ /\ state = "INIT" /\ TEEP_MAX_URI_LEN >= len + 1
          /\ result' = "SUCCESS"
          /\ tam_uri' = IF len + 1 = TEEP_MAX_URI_LEN THEN "full" ELSE "configured"
    /\ UNCHANGED <<runnerVars, state, on_going_task, token, data_item_requested,
                   uri_terminated, requests, suit_manifests, suit_context, busy,
                   accepted>>

\* An empty list is accepted and changes nothing.
SetTaList(list) ==
    /\ Idle
    /\ \/ /\ state # "INIT"
          /\ result' = "BAD_STATE" /\ UNCHANGED requests
       \/ /\ state = "INIT" /\ Len(list) > MAX_REQUESTS
          /\ result' = "BAD_PARAMETERS" /\ UNCHANGED requests
       \/ /\ state = "INIT" /\ Len(list) <= MAX_REQUESTS
          /\ result' = "SUCCESS"
          /\ requests' = IF list = <<>> THEN requests ELSE list
    /\ UNCHANGED <<runnerVars, state, on_going_task, token, data_item_requested,
                   tam_uri, uri_terminated, suit_manifests, suit_context, busy,
                   accepted>>

\* An option of no bytes: the handler reads the byte before it.  If the read does
\* not fault, the byte makes the option one that is refused (RefuseCommand) or one
\* that is set, with what follows it in memory (SetTamUri, SetTaList).
ReadBeforeOption ==
    /\ Idle
    /\ crashed' = TRUE
    /\ UNCHANGED <<manifest, program_counter, stack, selected, bindings, call,
                   has_error, suspended, fetch, files, installs, sessionVars>>

\* A command with other parameter types or an option without its terminator, and
\* a command or an option that does not exist.
RefuseCommand ==
    /\ Idle
    /\ result' \in {"BAD_PARAMETERS", "NOT_IMPLEMENTED"}
    /\ UNCHANGED <<runnerVars, state, on_going_task, token, data_item_requested,
                   tam_uri, uri_terminated, requests, suit_manifests, suit_context,
                   busy, accepted>>

----------------------------------------------------------------------------
(* query_next_broker_task                                                  *)

NoTask == [command |-> "none"]

\* TEEP messages the agent builds; report is the part of a QueryResponse that
\* lists the trusted components (requested and unneeded ones are marked).
Encoded(type, tok, report) == [type |-> type, token |-> tok, report |-> report]

\* What post_data holds when a message does not fit: whatever was there before and
\* the part that was encoded.
Unbuilt == Encoded("unbuilt", NoToken, <<>>)

\* The results of build_query_response, build_success and build_error are ignored.
Post(type, tok, report) ==
    LET data == Encoded(type, tok, report)
    IN  [command |-> "HTTP_POST", uri |-> tam_uri,
         data |-> IF data \in TooLong THEN Unbuilt ELSE data]

\* build_query_response: only the first data item asked for is looked at, and
\* of the four only the trusted components are reported.
BuildQueryResponse ==
    Post("query-response", token,
         IF /\ "attestation" \notin data_item_requested
            /\ "trusted-components" \in data_item_requested
         THEN <<requests>> ELSE <<>>)

PostForState ==
    CASE state = "POSTING_INITIAL_REQUEST" -> Post("empty", NoToken, <<>>)
      [] state = "POSTING_QUERY_RESPONSE"  -> BuildQueryResponse
      [] state = "POSTING_SUCCESS"         -> Post("success", token, <<>>)
      [] state = "POSTING_ERROR"           -> Post("error", token, <<>>)

Posting == {"POSTING_INITIAL_REQUEST", "POSTING_QUERY_RESPONSE", "POSTING_SUCCESS",
            "POSTING_ERROR"}

QueryNext ==
    /\ Idle
    /\ busy' = TRUE
    /\ UNCHANGED <<runnerVars, state, on_going_task, token, data_item_requested,
                   tam_uri, uri_terminated, requests, suit_manifests, suit_context,
                   result, accepted>>

\* copyout_param refuses a uri of more than TEEP_MAX_URI_LEN - 1 characters: one
\* that is too long, or a full tam_uri that no null byte of the task ends.
TaskFits(task) ==
    /\ task.command = "HTTP_POST" /\ task.uri = "full" => uri_terminated
    /\ task.command = "HTTP_GET" => task.uri \notin LongUri

QueryReturn ==
    /\ busy /\ ~crashed
    /\ on_going_task # NoTask
    /\ busy' = FALSE
    /\ result' = IF TaskFits(on_going_task) THEN "SUCCESS" ELSE "BAD_PARAMETERS"
    /\ UNCHANGED <<runnerVars, state, on_going_task, token, data_item_requested,
                   tam_uri, uri_terminated, requests, suit_manifests, suit_context,
                   accepted>>

InLoop(s) == busy /\ ~crashed /\ on_going_task = NoTask /\ state = s

LeaveInit ==
    /\ InLoop("INIT")
    /\ state' = "POSTING_INITIAL_REQUEST"
    /\ UNCHANGED <<runnerVars, on_going_task, token, data_item_requested, tam_uri,
                   uri_terminated, requests, suit_manifests, suit_context, busy,
                   result, accepted>>

IssuePost ==
    /\ \E s \in Posting : InLoop(s)
    /\ on_going_task' = PostForState
    /\ UNCHANGED <<runnerVars, state, token, data_item_requested, tam_uri,
                   uri_terminated, requests, suit_manifests, suit_context, busy,
                   result, accepted>>

\* The only place that clears all of task_buffer.uri.  The uri is then copied at its
\* full length: a long one runs on into post_data, and one that is longer than the
\* whole task into the fields behind it.  The first of these is the token; a copy
\* that goes on to the context and the runner leaves nothing to be said of the TA.
IssueGet ==
    /\ InLoop("FETCH_COMPONENT")
    /\ on_going_task' = [command |-> "HTTP_GET", uri |-> fetch.uri]
    /\ uri_terminated' = (fetch.uri \notin LongUri)
    /\ IF fetch.uri \in WildUri
       THEN token' \in Token \cup {NoToken} /\ crashed' \in BOOLEAN
       ELSE UNCHANGED <<token, crashed>>
    /\ UNCHANGED <<manifest, program_counter, stack, selected, bindings, call,
                   has_error, suspended, fetch, files, installs, state,
                   data_item_requested, tam_uri, requests, suit_manifests,
                   suit_context, busy, result, accepted>>

IssueFinish ==
    /\ InLoop("FINISH")
    /\ on_going_task' = [command |-> "FINISH"]
    /\ UNCHANGED <<runnerVars, state, token, data_item_requested, tam_uri,
                   uri_terminated, requests, suit_manifests, suit_context, busy,
                   result, accepted>>

\* suit_runner_init on the root manifest, the first of the context; without one
\* the runner dereferences a null pointer.
StartRunner ==
    /\ InLoop("INIT_RUNNER")
    /\ \/ /\ suit_context # <<>>
          /\ SuitRunnerInit(suit_context[1].envelope.manifest)
          /\ state' = "RUN_SUIT_RUNNER"
       \/ /\ suit_context = <<>>
          /\ crashed' = TRUE
          /\ UNCHANGED <<manifest, program_counter, stack, selected, bindings, call,
                         has_error, suspended, fetch, files, installs, state>>
    /\ UNCHANGED <<on_going_task, token, data_item_requested, tam_uri,
                   uri_terminated, requests, suit_manifests, suit_context, busy,
                   result, accepted>>

StepRunner ==
    /\ InLoop("RUN_SUIT_RUNNER")
    /\ ~RunReturned
    /\ RunStep
    /\ UNCHANGED sessionVars

\* Mutant: a failed run ends the session without a report.
RunnerReturnedUnreported ==
    /\ InLoop("RUN_SUIT_RUNNER")
    /\ RunReturned
    /\ state' = IF Finished THEN "POSTING_SUCCESS"
                ELSE IF Suspended THEN "FETCH_COMPONENT" ELSE "FINISH"
    /\ UNCHANGED <<runnerVars, on_going_task, token, data_item_requested, tam_uri,
                   uri_terminated, requests, suit_manifests, suit_context, busy,
                   result, accepted>>

RunnerReturned ==
    /\ InLoop("RUN_SUIT_RUNNER")
    /\ RunReturned
    /\ state' = IF Finished THEN "POSTING_SUCCESS"
                ELSE IF Suspended THEN "FETCH_COMPONENT" ELSE "POSTING_ERROR"
    /\ UNCHANGED <<runnerVars, on_going_task, token, data_item_requested, tam_uri,
                   uri_terminated, requests, suit_manifests, suit_context, busy,
                   result, accepted>>

----------------------------------------------------------------------------
(* broker_task_done and handle_tam_message                                 *)

NoTaskToFinish == on_going_task.command \in {"none", "FINISH"}

TaskDoneRejected ==
    /\ Idle
    /\ NoTaskToFinish
    /\ result' = "BAD_STATE"
    /\ UNCHANGED <<runnerVars, state, on_going_task, token, data_item_requested,
                   tam_uri, uri_terminated, requests, suit_manifests, suit_context,
                   busy, accepted>>

\* Mutant: the task stays outstanding after it is done.
PostDoneKeepsTask ==
    Idle /\ on_going_task.command = "HTTP_POST" /\ UNCHANGED on_going_task

PostDone == Idle /\ on_going_task.command = "HTTP_POST" /\ on_going_task' = NoTask

\* An empty answer ends the session, and so does any answer to an Error message.
EndSession(m) ==
    /\ PostDone
    /\ m.type = "empty" \/ state = "POSTING_ERROR"
    /\ state' = "FINISH"
    /\ result' = IF m.type = "empty" THEN "SUCCESS" ELSE "BAD_FORMAT"
    /\ UNCHANGED <<runnerVars, token, data_item_requested, tam_uri, uri_terminated,
                   requests, suit_manifests, suit_context, busy, accepted>>

\* Mutant: a QueryRequest restarts the exchange after a Success.
ExpectedAfterSuccess(m) ==
    \/ m.type = "query-request" /\ state \in {"POSTING_INITIAL_REQUEST", "POSTING_SUCCESS"}
    \/ m.type = "update" /\ state = "POSTING_QUERY_RESPONSE"

\* Mutant: an Update is accepted in every state.
ExpectedUpdateAnywhere(m) ==
    \/ m.type = "query-request" /\ state = "POSTING_INITIAL_REQUEST"
    \/ m.type = "update"

Expected(m) ==
    \/ m.type = "query-request" /\ state = "POSTING_INITIAL_REQUEST"
    \/ m.type = "update" /\ state = "POSTING_QUERY_RESPONSE"

\* Mutant: an unexpected message is only logged.
RejectMessageSilently(m) ==
    /\ PostDone
    /\ m.type # "empty" /\ state # "POSTING_ERROR"
    /\ ~Expected(m)
    /\ result' = IF m.type = "garbage" THEN "BAD_FORMAT" ELSE "SUCCESS"
    /\ UNCHANGED <<runnerVars, state, token, data_item_requested, tam_uri,
                   uri_terminated, requests, suit_manifests, suit_context, busy,
                   accepted>>

\* A message that does not parse, or one the state does not allow.
RejectMessage(m) ==
    /\ PostDone
    /\ m.type # "empty" /\ state # "POSTING_ERROR"
    /\ ~Expected(m)
    /\ state' = "POSTING_ERROR"
    /\ result' = IF m.type = "garbage" THEN "BAD_FORMAT" ELSE "SUCCESS"
    /\ UNCHANGED <<runnerVars, token, data_item_requested, tam_uri, uri_terminated,
                   requests, suit_manifests, suit_context, busy, accepted>>

HandleQueryRequest(m) ==
    /\ PostDone
    /\ m.type = "query-request" /\ Expected(m)
    /\ state' = "POSTING_QUERY_RESPONSE"
    /\ token' = m.token
    /\ data_item_requested' = m.items
    /\ result' = "SUCCESS"
    /\ UNCHANGED <<runnerVars, tam_uri, uri_terminated, requests, suit_manifests,
                   suit_context, busy, accepted>>

\* The result of malloc is not checked before the token is copied to it.
QueryRequestNotCopied(m) ==
    /\ PostDone
    /\ m.type = "query-request" /\ Expected(m)
    /\ MallocMayFail
    /\ state' = "POSTING_QUERY_RESPONSE"
    /\ crashed' = TRUE
    /\ UNCHANGED <<manifest, program_counter, stack, selected, bindings, call,
                   has_error, suspended, fetch, files, installs, token,
                   data_item_requested, tam_uri, uri_terminated, requests,
                   suit_manifests, suit_context, busy, result, accepted>>

----------------------------------------------------------------------------
(* The Update message.                                                     *)

SuitManifestSlots == 0 .. 1

\* suit_authenticate_envelope
Authentic(e) ==
    /\ e.wrapper
    /\ e.blocks # <<>> /\ \A i \in DOMAIN e.blocks : e.blocks[i]
    /\ e.digest_ok

\* Mutant: the envelope is not authenticated.
StorableUnchecked(es, i) == i \in SuitManifestSlots

\* store_envelope reaches store_bstr (es is counted from 1, the slots from 0).
Storable(es, i) == i \in SuitManifestSlots /\ Authentic(es[i + 1])

NullBuffer == [status |-> "null", envelope |-> NoEnvelope]

StoredUpTo(es, n) ==
    [i \in SuitManifestSlots |->
        IF i < n THEN [status |-> "live", envelope |-> es[i + 1]] ELSE suit_manifests[i]]

\* store_bstr frees the old buffer first: twice, if an earlier malloc failed.
FreesTwice(n) == \E i \in SuitManifestSlots : i < n /\ suit_manifests[i].status = "freed"

\* Storing stops at an envelope that is not authentic, or the third, or when
\* malloc fails after the old buffer has been freed.  handle_tam_message then
\* returns TEE_SUCCESS in the state it was in.
UpdateNotStored(m) ==
    LET es == m.manifest_list
    IN  /\ PostDone
        /\ m.type = "update" /\ Expected(m)
        /\ \E n \in 0 .. Len(es) :
              /\ n < Len(es)
              /\ \A i \in 0 .. n : i < n => Storable(es, i)
              /\ \/ /\ ~Storable(es, n)
                    /\ suit_manifests' = StoredUpTo(es, n)
                    /\ crashed' = FreesTwice(n)
                 \/ /\ Storable(es, n) /\ MallocMayFail
                    /\ suit_manifests' =
                          [StoredUpTo(es, n) EXCEPT
                              ![n].status = IF @ = "null" THEN "null" ELSE "freed"]
                    /\ crashed' = FreesTwice(n + 1)
        /\ result' = "SUCCESS"
        /\ UNCHANGED <<manifest, program_counter, stack, selected, bindings, call,
                       has_error, suspended, fetch, files, installs, state, token,
                       data_item_requested, tam_uri, uri_terminated, requests,
                       suit_context, busy, accepted>>

\* Mutant: the envelopes are added in the order of the list.
EntryAtForward(es, k) == [slot |-> k - 1, envelope |-> es[k]]

\* suit_context_add_envelope takes the slots from the last to the first.
EntryAt(es, k) == [slot |-> Len(es) - k, envelope |-> es[Len(es) - k + 1]]

Addable(es, k) ==
    Len(suit_context) + k <= SUIT_MANIFEST_MAX /\ EntryAt(es, k).envelope.readable

\* All envelopes are stored; k of them are added before one is refused.
UpdateStored(m) ==
    LET es == m.manifest_list
    IN  /\ PostDone
        /\ m.type = "update" /\ Expected(m)
        /\ \A i \in 0 .. Len(es) : i < Len(es) => Storable(es, i)
        /\ suit_manifests' = StoredUpTo(es, Len(es))
        /\ crashed' = FreesTwice(Len(es))
        /\ \E k \in 0 .. Len(es) :
              /\ \A j \in 1 .. k : Addable(es, j)
              /\ k < Len(es) => ~Addable(es, k + 1)
              /\ suit_context' = suit_context \o [j \in 1 .. k |-> EntryAt(es, j)]
              /\ state' = IF k = Len(es) THEN "INIT_RUNNER" ELSE "POSTING_ERROR"
        /\ accepted' = es
        /\ result' = "SUCCESS"
        /\ UNCHANGED <<manifest, program_counter, stack, selected, bindings, call,
                       has_error, suspended, fetch, files, installs, token,
                       data_item_requested, tam_uri, uri_terminated, requests, busy>>

HandleTamMessage(m) ==
    \/ EndSession(m) \/ RejectMessage(m)
    \/ HandleQueryRequest(m) \/ QueryRequestNotCopied(m)
    \/ UpdateNotStored(m) \/ UpdateStored(m)

----------------------------------------------------------------------------

\* handle_component_download: the result of store_component is ignored.
HandleComponentDownload(body) ==
    /\ Idle
    /\ on_going_task.command = "HTTP_GET"
    /\ on_going_task' = NoTask
    /\ IF state = "FETCH_COMPONENT"
       THEN /\ StoreAndResume(body)
            /\ state' = "RUN_SUIT_RUNNER"
            /\ result' = "SUCCESS"
       ELSE /\ state' = "POSTING_ERROR"
            /\ result' = "BAD_STATE"
            /\ UNCHANGED runnerVars
    /\ UNCHANGED <<token, data_item_requested, tam_uri, uri_terminated, requests,
                   suit_manifests, suit_context, busy, accepted>>

\* malloc does not clear a session: neither uri buffer need hold a null byte.
AgentInit ==
    /\ RunnerInit
    /\ state = "INIT"
    /\ on_going_task = NoTask
    /\ token = NoToken
    /\ data_item_requested = {}
    /\ tam_uri \in {"uninitialised", "full"}
    /\ uri_terminated \in BOOLEAN
    /\ requests = <<>>
    /\ suit_manifests = [i \in SuitManifestSlots |-> NullBuffer]
    /\ suit_context = <<>>
    /\ busy = FALSE
    /\ result = "SUCCESS"
    /\ accepted = <<>>

QueryLoop ==
    \/ LeaveInit \/ IssuePost \/ IssueGet \/ IssueFinish
    \/ StartRunner \/ StepRunner \/ RunnerReturned
    \/ QueryReturn

\* The lists a client may set; MAX_REQUESTS + 1 entries are refused.
TaLists == UNION {[1 .. n -> Request] : n \in {0, 1, MAX_REQUESTS + 1}}

Client ==
    \/ \E len \in TamUriLen : SetTamUri(len)
    \/ \E list \in TaLists : SetTaList(list)
    \/ RefuseCommand \/ ReadBeforeOption
    \/ QueryNext
    \/ TaskDoneRejected
    \/ \E m \in Message : HandleTamMessage(m)
    \/ \E body \in Body : HandleComponentDownload(body)

AgentNext == QueryLoop \/ Client

AgentSpec == AgentInit /\ [][AgentNext]_agentVars

----------------------------------------------------------------------------
(* Properties.                                                             *)

Result == {"SUCCESS", "BAD_STATE", "BAD_PARAMETERS", "BAD_FORMAT", "NOT_IMPLEMENTED"}
TamUri == {"uninitialised", "configured", "full"}
Task ==
         {NoTask, [command |-> "FINISH"]}
    \cup [command : {"HTTP_GET"}, uri : RemoteUri \cup {EmptyUri}]
    \cup [command : {"HTTP_POST"}, uri : TamUri,
          data : [type : {"empty", "query-response", "success", "error", "unbuilt"},
                  token : Token \cup {NoToken},
                  report : Seq(Seq(Request))]]
Buffer == [status : {"null", "live", "freed"}, envelope : Envelope \cup {NoEnvelope}]

\* The types of the session's fields, as struct teep_agent_session declares them.
SessionTypeOK ==
    /\ state \in AgentState
    /\ on_going_task \in Task
    /\ token \in Token \cup {NoToken}
    /\ data_item_requested \in SUBSET DataItem
    /\ tam_uri \in TamUri
    /\ uri_terminated \in BOOLEAN
    /\ requests \in Seq(Request)
    /\ suit_manifests \in [SuitManifestSlots -> Buffer]
    /\ suit_context \in Seq([slot : SuitManifestSlots, envelope : Envelope])
    /\ busy \in BOOLEAN
    /\ result \in Result
    /\ accepted \in Seq(Envelope)

\* The types of all the variables of a session, its runner's included.
AgentTypeOK == RunnerTypeOK /\ SessionTypeOK

\* The parsed manifests of the context are ranges into the envelope buffers.
\* Every buffer they point into is live, still holds the envelope that was
\* parsed, and that envelope was authenticated: whatever a TAM sends, a buffer
\* is never freed or replaced under a manifest, and no manifest reaches the
\* runner unauthenticated.
ContextAuthentic ==
    ~crashed => \A i \in DOMAIN suit_context :
                   LET b == suit_manifests[suit_context[i].slot]
                   IN  /\ b.status = "live"
                       /\ b.envelope = suit_context[i].envelope
                       /\ Authentic(b.envelope)

\* The manifest the runner executes is the last one of the accepted Update's
\* manifest list (the envelopes are added in reverse), it stays so across every
\* download, and nothing runs before an Update has been accepted.
RunsAcceptedUpdate ==
    manifest # NoManifest =>
        /\ accepted # <<>>
        /\ suit_context # <<>>
        /\ manifest = suit_context[1].envelope.manifest
        /\ manifest = accepted[Len(accepted)].manifest

\* The task handed out agrees with the state: a POST belongs to one of the four
\* posting states and carries that state's message, a GET is outstanding only
\* while the runner waits for that very uri, and FINISH is final.  Hence the
\* "invalid state" branch of handle_component_download is never taken.
TaskMatchesState ==
    /\ on_going_task.command = "HTTP_POST" =>
          /\ state \in Posting
          /\ on_going_task = PostForState
    /\ on_going_task.command = "HTTP_GET" =>
          /\ state = "FETCH_COMPONENT"
          /\ Suspended
          /\ on_going_task.uri = fetch.uri
    /\ on_going_task.command = "FINISH" => state = "FINISH"

\* A Success message is only ever posted after suit_runner_run has returned at
\* EXIT with an empty stack, no error and no download outstanding.
SuccessAfterRun ==
    state = "POSTING_SUCCESS" =>
        /\ manifest # NoManifest
        /\ Finished /\ call = NoCall
        /\ program_counter.next = "exit" /\ stack = <<>>

Reporting == {"POSTING_SUCCESS", "POSTING_ERROR", "FINISH"}

\* Once the outcome is being reported the session only moves forward, and the
\* component store is left alone: a late, repeated or unexpected answer cannot
\* restart the runner or install anything.
ReportIsFinal ==
    [][/\ state \in Reporting =>
             state' \in Reporting /\ UNCHANGED <<files, manifest, suit_context>>
       /\ state \in {"POSTING_ERROR", "FINISH"} => state' # "POSTING_SUCCESS"]_agentVars

\* The mapping of a session's state to the abstract protocol.
PhaseOf(s) ==
    CASE s = "INIT" -> "new"
      [] s = "POSTING_INITIAL_REQUEST" -> "hello"
      [] s = "POSTING_QUERY_RESPONSE" -> "query"
      [] s \in {"INIT_RUNNER", "RUN_SUIT_RUNNER", "FETCH_COMPONENT"} -> "install"
      [] s = "POSTING_SUCCESS" -> "success"
      [] s = "POSTING_ERROR" -> "error"
      [] s = "FINISH" -> "done"

OutstandingOf(command) ==
    CASE command = "none" -> "none"
      [] command = "HTTP_POST" -> "post"
      [] command = "HTTP_GET" -> "get"
      [] command = "FINISH" -> "finish"

Protocol == INSTANCE TeepProtocol
    WITH phase <- PhaseOf(state), outstanding <- OutstandingOf(on_going_task.command)

\* A session driven by any client at all keeps to the protocol: one task at a
\* time, each phase after its predecessor, an installation between an Update and
\* its report, and no step back.
ImplementsProtocol == Protocol!ProtocolSpec

=============================================================================
