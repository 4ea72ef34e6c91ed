-------------------------- MODULE TeepSystemProofs --------------------------
(***************************************************************************)
(* Proofs about the TEEP Agent and the device it is part of.  The first    *)
(* half is about TeepAgent, a session under every client; the second about *)
(* TeepSystem, where the client is the TEEP Broker's loop.  Both hold for  *)
(* every TAM, every set of envelopes and whatever HTTP, malloc and the     *)
(* file system do.                                                         *)
(***************************************************************************)
EXTENDS TeepSystem, SuitRunnerProofs

----------------------------------------------------------------------------
(* The agent's inductive invariant.  The state of the session says how far *)
(* the manifest and the runner are, which is what ties the buffers, the    *)
(* context and the outstanding task together.                              *)

BeforeUpdate == {"INIT", "POSTING_INITIAL_REQUEST", "POSTING_QUERY_RESPONSE"}

SessionPhase ==
    /\ state \in BeforeUpdate => suit_context = <<>>
    /\ state \in BeforeUpdate \cup {"INIT_RUNNER"} => manifest = NoManifest
    /\ state \in {"RUN_SUIT_RUNNER", "FETCH_COMPONENT"} => manifest # NoManifest
    /\ state = "FETCH_COMPONENT" => Suspended
    /\ suspended => state \in {"RUN_SUIT_RUNNER", "FETCH_COMPONENT"}

ContextOrder ==
    suit_context # <<>> =>
        /\ accepted # <<>>
        /\ suit_context[1].envelope = accepted[Len(accepted)]

AgentInv ==
    /\ RunnerInv
    /\ SessionTypeOK
    /\ SessionPhase
    /\ ContextOrder
    /\ ContextAuthentic
    /\ RunsAcceptedUpdate
    /\ TaskMatchesState
    /\ SuccessAfterRun

----------------------------------------------------------------------------

\* A task is determined by its command.
LEMMA TaskCases ==
    ASSUME NEW task \in Task
    PROVE  /\ task.command \in {"none", "HTTP_POST", "HTTP_GET", "FINISH"}
           /\ task.command = "none" <=> task = NoTask
BY DEF Task, NoTask

LEMMA NoTaskType == NoTask \in Task /\ NoTask.command = "none"
BY DEF Task, NoTask

\* Each posting state has its message.
LEMMA PostType ==
    ASSUME SessionTypeOK, state \in Posting
    PROVE  PostForState \in Task /\ PostForState.command = "HTTP_POST"
<1>1. ASSUME NEW type \in {"empty", "query-response", "success", "error"},
             NEW tok \in Token \cup {NoToken}, NEW report \in Seq(Seq(Request))
      PROVE  /\ Post(type, tok, report) \in Task
             /\ Post(type, tok, report).command = "HTTP_POST"
  <2> DEFINE data == IF Encoded(type, tok, report) \in TooLong THEN Unbuilt
                     ELSE Encoded(type, tok, report)
  <2>1. data \in [type : {"empty", "query-response", "success", "error", "unbuilt"},
                  token : Token \cup {NoToken}, report : Seq(Seq(Request))]
    BY EmptySeq DEF Unbuilt, Encoded
  <2>2. Post(type, tok, report) = [command |-> "HTTP_POST", uri |-> tam_uri, data |-> data]
    BY DEF Post
  <2> HIDE DEF data
  <2>3. QED
    BY <2>1, <2>2 DEF SessionTypeOK, Task
<1>2. <<>> \in Seq(Seq(Request)) /\ <<requests>> \in Seq(Seq(Request))
  BY EmptySeq DEF SessionTypeOK
<1>3. token \in Token \cup {NoToken} /\ NoToken \in Token \cup {NoToken}
  BY DEF SessionTypeOK
<1>4. /\ BuildQueryResponse \in Task /\ BuildQueryResponse.command = "HTTP_POST"
  BY <1>1, <1>2, <1>3 DEF BuildQueryResponse
<1>5. CASE state = "POSTING_INITIAL_REQUEST"
  BY <1>1, <1>2, <1>3, <1>5 DEF PostForState
<1>6. CASE state = "POSTING_QUERY_RESPONSE"
  BY <1>4, <1>6 DEF PostForState
<1>7. CASE state = "POSTING_SUCCESS"
  BY <1>1, <1>2, <1>3, <1>7 DEF PostForState
<1>8. CASE state = "POSTING_ERROR"
  BY <1>1, <1>2, <1>3, <1>8 DEF PostForState
<1>9. QED
  BY <1>5, <1>6, <1>7, <1>8 DEF Posting

\* What a step keeps that leaves the runner, the buffers and the context alone.
LEMMA QuietStep ==
    ASSUME AgentInv, UNCHANGED <<runnerVars, suit_manifests, suit_context, accepted>>
    PROVE  RunnerInv' /\ ContextOrder' /\ ContextAuthentic' /\ RunsAcceptedUpdate'
<1>1. RunnerInv'
  BY RunnerStutterInv DEF AgentInv
<1>2. ContextOrder' /\ ContextAuthentic' /\ RunsAcceptedUpdate'
  BY DEF AgentInv, runnerVars, ContextOrder, ContextAuthentic, RunsAcceptedUpdate
<1>3. QED
  BY <1>1, <1>2

\* A step that changes none of what the messages depend on.
LEMMA TaskKept ==
    ASSUME AgentInv,
           UNCHANGED <<runnerVars, state, on_going_task, token, data_item_requested,
                       tam_uri, requests, suit_context>>
    PROVE  SessionPhase' /\ TaskMatchesState' /\ SuccessAfterRun'
<1>1. PostForState' = PostForState
  BY DEF PostForState, BuildQueryResponse, Post
<1>2. TaskMatchesState'
  BY <1>1 DEF AgentInv, TaskMatchesState, Suspended, runnerVars
<1>3. SessionPhase' /\ SuccessAfterRun'
  BY DEF AgentInv, SessionPhase, SuccessAfterRun, Suspended, Finished, runnerVars
<1>4. QED
  BY <1>2, <1>3

\* While no task is outstanding, nothing is said about one.
LEMMA NoTaskMatches == on_going_task = NoTask => TaskMatchesState
BY DEF NoTask, TaskMatchesState

\* A crash leaves the runner where it was.
LEMMA CrashInv ==
    ASSUME RunnerInv, crashed' \in BOOLEAN,
           UNCHANGED <<manifest, program_counter, stack, selected, bindings, call,
                       has_error, suspended, fetch, files, installs>>
    PROVE  RunnerInv'
BY DEF RunnerInv, RunnerTypeOK, StackShape, BinderUnique, SuspendedOnComponent,
       CallsOnObject, HasObject

\* Nothing of the session's invariant speaks of a TA that has crashed.
LEMMA CrashedSession ==
    ASSUME AgentInv, crashed' = TRUE,
           UNCHANGED <<manifest, program_counter, stack, selected, bindings, call,
                       has_error, suspended, fetch, files, installs, suit_manifests,
                       suit_context, accepted>>
    PROVE  RunnerInv' /\ ContextOrder' /\ ContextAuthentic' /\ RunsAcceptedUpdate'
<1>1. RunnerInv'
  BY CrashInv DEF AgentInv
<1>2. ContextOrder' /\ ContextAuthentic' /\ RunsAcceptedUpdate'
  BY DEF AgentInv, ContextOrder, ContextAuthentic, RunsAcceptedUpdate
<1>3. QED
  BY <1>1, <1>2

\* The options can only be set in INIT, where no message has been built.
LEMMA SetTamUriInv ==
    ASSUME AgentInv, NEW len, SetTamUri(len)
    PROVE  AgentInv'
<1>1. RunnerInv' /\ ContextOrder' /\ ContextAuthentic' /\ RunsAcceptedUpdate'
  BY QuietStep DEF SetTamUri
<1>2. SessionTypeOK'
  BY DEF AgentInv, SessionTypeOK, SetTamUri, Result, TamUri
<1>3. SessionPhase' /\ SuccessAfterRun'
  BY DEF AgentInv, SessionPhase, SuccessAfterRun, Suspended, Finished, runnerVars, SetTamUri
<1>4. TaskMatchesState'
  <2>1. CASE state = "INIT"
    BY <2>1 DEF AgentInv, TaskMatchesState, Posting, SetTamUri
  <2>2. CASE state # "INIT"
    BY <2>2, TaskKept DEF SetTamUri
  <2>3. QED
    BY <2>1, <2>2
<1>5. QED
  BY <1>1, <1>2, <1>3, <1>4 DEF AgentInv

\* The lists of the most general client are lists of requests.
LEMMA TaListsType == TaLists \subseteq Seq(Request)
<1> SUFFICES ASSUME NEW list \in TaLists PROVE list \in Seq(Request)
  OBVIOUS
<1>1. PICK n \in {0, 1, MAX_REQUESTS + 1} : list \in [1 .. n -> Request]
  BY DEF TaLists
<1>2. n \in Nat
  BY TeepAgentAssumption
<1>3. QED
  BY <1>1, <1>2, SeqDef

LEMMA SetTaListInv ==
    ASSUME AgentInv, NEW list \in Seq(Request), SetTaList(list)
    PROVE  AgentInv'
<1>1. RunnerInv' /\ ContextOrder' /\ ContextAuthentic' /\ RunsAcceptedUpdate'
  BY QuietStep DEF SetTaList
<1>2. SessionTypeOK'
  BY DEF AgentInv, SessionTypeOK, SetTaList, Result
<1>3. SessionPhase' /\ SuccessAfterRun'
  BY DEF AgentInv, SessionPhase, SuccessAfterRun, Suspended, Finished, runnerVars, SetTaList
<1>4. TaskMatchesState'
  <2>1. CASE state = "INIT"
    BY <2>1 DEF AgentInv, TaskMatchesState, Posting, SetTaList
  <2>2. CASE state # "INIT"
    BY <2>2, TaskKept DEF SetTaList
  <2>3. QED
    BY <2>1, <2>2
<1>5. QED
  BY <1>1, <1>2, <1>3, <1>4 DEF AgentInv

\* Entering and leaving a query, and the commands that are refused.
LEMMA CommandInv ==
    AgentInv /\ (QueryNext \/ QueryReturn \/ TaskDoneRejected \/ RefuseCommand) => AgentInv'
<1> SUFFICES ASSUME AgentInv, QueryNext \/ QueryReturn \/ TaskDoneRejected \/ RefuseCommand
             PROVE  AgentInv'
  OBVIOUS
<1>1. UNCHANGED <<runnerVars, state, on_going_task, token, data_item_requested, tam_uri,
                  uri_terminated, requests, suit_manifests, suit_context, accepted>>
  BY DEF QueryNext, QueryReturn, TaskDoneRejected, RefuseCommand
<1>2. RunnerInv' /\ ContextOrder' /\ ContextAuthentic' /\ RunsAcceptedUpdate'
  BY <1>1, QuietStep
<1>3. SessionPhase' /\ TaskMatchesState' /\ SuccessAfterRun'
  BY <1>1, TaskKept
<1>4. SessionTypeOK'
  BY DEF AgentInv, SessionTypeOK, QueryNext, QueryReturn, TaskDoneRejected, RefuseCommand,
         Result
<1>5. QED
  BY <1>2, <1>3, <1>4 DEF AgentInv

\* An option of no bytes at most crashes the TA.
LEMMA ReadBeforeOptionInv == AgentInv /\ ReadBeforeOption => AgentInv'
<1> SUFFICES ASSUME AgentInv, ReadBeforeOption PROVE AgentInv'
  OBVIOUS
<1>1. /\ crashed' = TRUE
      /\ UNCHANGED <<manifest, program_counter, stack, selected, bindings, call,
                     has_error, suspended, fetch, files, installs, state, on_going_task,
                     token, data_item_requested, tam_uri, uri_terminated, requests,
                     suit_manifests, suit_context, busy, result, accepted>>
  BY DEF ReadBeforeOption, sessionVars
<1>2. RunnerInv' /\ ContextOrder' /\ ContextAuthentic' /\ RunsAcceptedUpdate'
  BY <1>1, CrashedSession
<1>3. PostForState' = PostForState
  BY <1>1 DEF PostForState, BuildQueryResponse, Post, Encoded
<1>4. TaskMatchesState'
  BY <1>1, <1>3 DEF AgentInv, TaskMatchesState, Suspended
<1>5. SessionPhase' /\ SuccessAfterRun' /\ SessionTypeOK'
  BY <1>1 DEF AgentInv, SessionPhase, SuccessAfterRun, Suspended, Finished, SessionTypeOK
<1>6. QED
  BY <1>2, <1>4, <1>5 DEF AgentInv

LEMMA LeaveInitInv == AgentInv /\ LeaveInit => AgentInv'
<1> SUFFICES ASSUME AgentInv, LeaveInit PROVE AgentInv'
  OBVIOUS
<1>1. RunnerInv' /\ ContextOrder' /\ ContextAuthentic' /\ RunsAcceptedUpdate'
  BY QuietStep DEF LeaveInit
<1>2. SessionTypeOK'
  BY DEF AgentInv, SessionTypeOK, LeaveInit, AgentState
<1>3. SessionPhase' /\ SuccessAfterRun'
  BY DEF AgentInv, SessionPhase, BeforeUpdate, SuccessAfterRun, runnerVars, LeaveInit, InLoop
<1>4. TaskMatchesState'
  BY DEF LeaveInit, InLoop, NoTask, TaskMatchesState
<1>5. QED
  BY <1>1, <1>2, <1>3, <1>4 DEF AgentInv

\* Handing out the task of a state.
LEMMA IssuePostInv == AgentInv /\ IssuePost => AgentInv'
<1> SUFFICES ASSUME AgentInv, IssuePost PROVE AgentInv'
  OBVIOUS
<1>1. RunnerInv' /\ ContextOrder' /\ ContextAuthentic' /\ RunsAcceptedUpdate'
  BY QuietStep DEF IssuePost
<1>2. /\ state \in Posting /\ state' = state
      /\ on_going_task' = PostForState
  BY DEF IssuePost, InLoop
<1>3. PostForState \in Task /\ PostForState.command = "HTTP_POST"
  BY <1>2, PostType DEF AgentInv
<1>4. SessionTypeOK'
  BY <1>2, <1>3 DEF AgentInv, SessionTypeOK, IssuePost
<1>5. SessionPhase' /\ SuccessAfterRun'
  BY DEF AgentInv, SessionPhase, SuccessAfterRun, Suspended, Finished, runnerVars, IssuePost
<1>6. PostForState' = PostForState
  BY DEF IssuePost, PostForState, BuildQueryResponse, Post, Encoded
<1>7. TaskMatchesState'
  BY <1>2, <1>3, <1>6 DEF TaskMatchesState
<1>8. QED
  BY <1>1, <1>4, <1>5, <1>7 DEF AgentInv

LEMMA IssueGetInv == AgentInv /\ IssueGet => AgentInv'
<1> SUFFICES ASSUME AgentInv, IssueGet PROVE AgentInv'
  OBVIOUS
<1>1. RunnerInv' /\ ContextOrder' /\ ContextAuthentic' /\ RunsAcceptedUpdate'
  <2>1. CASE crashed' = TRUE
    BY <2>1, CrashedSession DEF IssueGet
  <2>2. CASE crashed' # TRUE
    <3>1. crashed' = crashed
      BY <2>2 DEF IssueGet, InLoop, AgentInv, RunnerInv, RunnerTypeOK
    <3>2. QED
      BY <3>1, QuietStep DEF IssueGet, runnerVars
  <2>3. QED
    BY <2>1, <2>2
<1>2. /\ state = "FETCH_COMPONENT" /\ state' = state
      /\ on_going_task' = [command |-> "HTTP_GET", uri |-> fetch.uri]
      /\ token' \in Token \cup {NoToken}
      /\ UNCHANGED <<manifest, program_counter, stack, selected, bindings, call,
                     has_error, suspended, fetch, files, installs>>
  BY DEF IssueGet, InLoop, AgentInv, SessionTypeOK
<1>3. fetch.uri \in RemoteUri \cup {EmptyUri}
  BY DEF AgentInv, RunnerInv, RunnerTypeOK
<1>4. on_going_task' \in Task
  BY <1>2, <1>3 DEF Task
<1>5. SessionTypeOK'
  BY <1>2, <1>4 DEF AgentInv, SessionTypeOK, IssueGet
<1>6. SessionPhase' /\ SuccessAfterRun'
  BY <1>2 DEF AgentInv, SessionPhase, SuccessAfterRun, Suspended, Finished, IssueGet
<1>7. Suspended' /\ fetch' = fetch
  BY <1>2 DEF AgentInv, SessionPhase, Suspended
<1>8. TaskMatchesState'
  BY <1>2, <1>7 DEF TaskMatchesState
<1>9. QED
  BY <1>1, <1>5, <1>6, <1>8 DEF AgentInv

LEMMA IssueFinishInv == AgentInv /\ IssueFinish => AgentInv'
<1> SUFFICES ASSUME AgentInv, IssueFinish PROVE AgentInv'
  OBVIOUS
<1>1. RunnerInv' /\ ContextOrder' /\ ContextAuthentic' /\ RunsAcceptedUpdate'
  BY QuietStep DEF IssueFinish
<1>2. state = "FINISH" /\ state' = state /\ on_going_task' = [command |-> "FINISH"]
  BY DEF IssueFinish, InLoop
<1>3. SessionTypeOK'
  BY <1>2 DEF AgentInv, SessionTypeOK, IssueFinish, Task
<1>4. SessionPhase' /\ SuccessAfterRun'
  BY DEF AgentInv, SessionPhase, SuccessAfterRun, Suspended, Finished, runnerVars, IssueFinish
<1>5. TaskMatchesState'
  BY <1>2 DEF TaskMatchesState
<1>6. QED
  BY <1>1, <1>3, <1>4, <1>5 DEF AgentInv

\* The runner starts on the first manifest of the context.
LEMMA StartRunnerInv == AgentInv /\ StartRunner => AgentInv'
<1> SUFFICES ASSUME AgentInv, StartRunner PROVE AgentInv'
  OBVIOUS
<1>1. /\ state = "INIT_RUNNER" /\ on_going_task = NoTask /\ ~crashed
      /\ manifest = NoManifest /\ ~suspended
      /\ UNCHANGED <<on_going_task, token, data_item_requested, tam_uri,
                     uri_terminated, requests, suit_manifests, suit_context, busy, result, accepted>>
  BY DEF StartRunner, InLoop, AgentInv, SessionPhase
<1>2. state' \in {"INIT_RUNNER", "RUN_SUIT_RUNNER"}
  BY <1>1 DEF StartRunner
<1>3. SessionTypeOK'
  BY <1>1, <1>2 DEF AgentInv, SessionTypeOK, AgentState
<1>4. ContextOrder' /\ ContextAuthentic'
  BY <1>1 DEF AgentInv, ContextOrder, ContextAuthentic
<1>5. TaskMatchesState'
  BY <1>1 DEF NoTask, TaskMatchesState
<1>6. SuccessAfterRun'
  BY <1>2 DEF SuccessAfterRun
<1>7. CASE suit_context = <<>>
  <2>1. /\ state' = state /\ crashed' = TRUE
        /\ UNCHANGED <<manifest, program_counter, stack, selected, bindings, call,
                       has_error, suspended, fetch, files, installs>>
    BY <1>7 DEF StartRunner
  <2>2. RunnerInv'
    BY <1>1, <2>1, CrashInv DEF AgentInv
  <2>3. SessionPhase' /\ RunsAcceptedUpdate'
    BY <1>1, <2>1 DEF AgentInv, SessionPhase, BeforeUpdate, RunsAcceptedUpdate
  <2>4. QED
    BY <1>3, <1>4, <1>5, <1>6, <2>2, <2>3 DEF AgentInv
<1>8. CASE suit_context # <<>>
  <2> DEFINE e == suit_context[1].envelope
  <2>1. SuitRunnerInit(e.manifest) /\ state' = "RUN_SUIT_RUNNER"
    BY <1>8 DEF StartRunner
  <2>2. e \in Envelope
    <3>1. suit_context \in Seq([slot : SuitManifestSlots, envelope : Envelope])
      BY DEF AgentInv, SessionTypeOK
    <3>2. 1 \in 1 .. Len(suit_context)
      BY <1>8, <3>1, EmptySeq
    <3>3. suit_context[1] \in [slot : SuitManifestSlots, envelope : Envelope]
      BY <3>1, <3>2, ElementOfSeq
    <3>4. QED
      BY <3>3
  <2>3. e.manifest \in Manifest /\ e.manifest # NoManifest
    BY <2>2, EnvelopeAssumption, SuitRunnerAssumption DEF EnvelopeType
  <2>4. RunnerInv'
    BY <2>1, <2>3, SuitRunnerInitInv DEF AgentInv
  <2>5. manifest' = e.manifest /\ ~suspended'
    BY <2>1 DEF SuitRunnerInit
  <2>6. SessionPhase'
    BY <2>1, <2>3, <2>5 DEF SessionPhase, BeforeUpdate
  <2>7. RunsAcceptedUpdate'
    BY <1>1, <1>8, <2>5 DEF AgentInv, ContextOrder, RunsAcceptedUpdate
  <2>8. QED
    BY <1>3, <1>4, <1>5, <1>6, <2>4, <2>6, <2>7 DEF AgentInv
<1>9. QED
  BY <1>7, <1>8

\* A step of the runner keeps the manifest, and does not resume or crash.
LEMMA RunStepKeeps == RunStep => manifest' = manifest /\ crashed' = crashed
BY DEF RunStep, EndOfSequence, SetIndex, SequenceError, SkipCommand, CallOnIndex,
       EnterCommand, CallOnNext, CallOnElement, EndOfCommand, NoOperation,
       SetParameter, EndOfParameters, FetchError, FetchLocal, FetchRemote

LEMMA StepRunnerInv == AgentInv /\ StepRunner => AgentInv'
<1> SUFFICES ASSUME AgentInv, StepRunner PROVE AgentInv'
  OBVIOUS
<1>1. /\ state = "RUN_SUIT_RUNNER" /\ on_going_task = NoTask
      /\ RunStep
      /\ UNCHANGED <<state, on_going_task, token, data_item_requested, tam_uri,
                     uri_terminated, requests, suit_manifests, suit_context, busy, result, accepted>>
  BY DEF StepRunner, InLoop, sessionVars
<1>2. RunnerInv'
  BY <1>1, RunStepInv DEF AgentInv
<1>3. manifest' = manifest /\ crashed' = crashed
  BY <1>1, RunStepKeeps
<1>4. SessionTypeOK'
  BY <1>1 DEF AgentInv, SessionTypeOK
<1>5. ContextOrder' /\ ContextAuthentic' /\ RunsAcceptedUpdate'
  BY <1>1, <1>3 DEF AgentInv, ContextOrder, ContextAuthentic, RunsAcceptedUpdate
<1>6. SessionPhase'
  BY <1>1, <1>3 DEF AgentInv, SessionPhase, BeforeUpdate
<1>7. TaskMatchesState' /\ SuccessAfterRun'
  BY <1>1 DEF NoTask, TaskMatchesState, SuccessAfterRun
<1>8. QED
  BY <1>2, <1>4, <1>5, <1>6, <1>7 DEF AgentInv

\* The state after a run is read off the runner.
LEMMA RunnerReturnedInv == AgentInv /\ RunnerReturned => AgentInv'
<1> SUFFICES ASSUME AgentInv, RunnerReturned PROVE AgentInv'
  OBVIOUS
<1>1. /\ state = "RUN_SUIT_RUNNER" /\ on_going_task = NoTask /\ on_going_task' = NoTask
      /\ RunReturned
      /\ UNCHANGED runnerVars
      /\ state' = IF Finished THEN "POSTING_SUCCESS"
                  ELSE IF Suspended THEN "FETCH_COMPONENT" ELSE "POSTING_ERROR"
  BY DEF RunnerReturned, InLoop
<1>2. RunnerInv' /\ ContextOrder' /\ ContextAuthentic' /\ RunsAcceptedUpdate'
  BY QuietStep DEF RunnerReturned
<1>3. SessionTypeOK'
  BY <1>1 DEF RunnerReturned, AgentInv, SessionTypeOK, AgentState
<1>4. manifest # NoManifest /\ (suspended => ~has_error) /\ StackShape
  BY <1>1 DEF AgentInv, SessionPhase, RunnerInv, SuspendedOnComponent
<1>5. SessionPhase'
  BY <1>1, <1>4 DEF SessionPhase, BeforeUpdate, Finished, Suspended, runnerVars
<1>6. TaskMatchesState'
  BY <1>1 DEF NoTask, TaskMatchesState
<1>7. SuccessAfterRun'
  BY <1>1, <1>4 DEF SuccessAfterRun, Finished, RunReturned, StackShape, runnerVars
<1>8. QED
  BY <1>2, <1>3, <1>5, <1>6, <1>7 DEF AgentInv

\* A POST is done in a posting state, with the runner not suspended.
LEMMA PostDoneFacts ==
    ASSUME AgentInv, PostDone
    PROVE  /\ state \in Posting
           /\ ~suspended /\ ~crashed
           /\ on_going_task' = NoTask /\ on_going_task' \in Task
           /\ TaskMatchesState'
<1>1. state \in Posting /\ on_going_task' = NoTask /\ ~crashed
  BY DEF PostDone, Idle, AgentInv, TaskMatchesState
<1>2. ~suspended
  BY <1>1 DEF AgentInv, SessionPhase, Posting
<1>3. TaskMatchesState'
  BY <1>1 DEF NoTask, TaskMatchesState
<1>4. QED
  BY <1>1, <1>2, <1>3, NoTaskType

LEMMA AnswerInv ==
    ASSUME AgentInv, NEW m \in Message,
           EndSession(m) \/ RejectMessage(m) \/ HandleQueryRequest(m)
    PROVE  AgentInv'
<1>1. /\ PostDone
      /\ UNCHANGED <<runnerVars, tam_uri, uri_terminated, requests, suit_manifests,
                     suit_context, busy, accepted>>
  BY DEF EndSession, RejectMessage, HandleQueryRequest
<1>2. /\ ~suspended
      /\ on_going_task' \in Task
      /\ TaskMatchesState'
  BY <1>1, PostDoneFacts
<1>3. RunnerInv' /\ ContextOrder' /\ ContextAuthentic' /\ RunsAcceptedUpdate'
  BY <1>1, QuietStep
<1>4. m.token \in Token /\ m.items \in SUBSET DataItem
  BY MessageAssumption DEF MessageType
<1>5. SessionTypeOK'
  BY <1>1, <1>2, <1>4 DEF EndSession, RejectMessage, HandleQueryRequest, AgentInv,
                          SessionTypeOK, AgentState, Result
<1>6. \/ state' \in {"FINISH", "POSTING_ERROR"}
      \/ state = "POSTING_INITIAL_REQUEST" /\ state' = "POSTING_QUERY_RESPONSE"
  BY DEF EndSession, RejectMessage, HandleQueryRequest, Expected
<1>7. SessionPhase' /\ SuccessAfterRun'
  BY <1>1, <1>2, <1>6 DEF AgentInv, SessionPhase, BeforeUpdate, SuccessAfterRun, runnerVars
<1>8. QED
  BY <1>2, <1>3, <1>5, <1>7 DEF AgentInv

\* The session is gone, and the runner was not started yet.
LEMMA QueryRequestNotCopiedInv ==
    ASSUME AgentInv, NEW m \in Message, QueryRequestNotCopied(m)
    PROVE  AgentInv'
<1>1. /\ PostDone
      /\ state = "POSTING_INITIAL_REQUEST" /\ state' = "POSTING_QUERY_RESPONSE"
      /\ crashed' = TRUE
      /\ UNCHANGED <<manifest, program_counter, stack, selected, bindings, call,
                     has_error, suspended, fetch, files, installs, token,
                     data_item_requested, tam_uri,
                     uri_terminated, requests, suit_manifests, suit_context, busy, result, accepted>>
  BY DEF QueryRequestNotCopied, Expected
<1>2. /\ ~suspended
      /\ on_going_task' \in Task
      /\ TaskMatchesState'
  BY <1>1, PostDoneFacts
<1>3. RunnerInv'
  BY <1>1, <1>2, CrashInv DEF AgentInv
<1>4. SessionTypeOK'
  BY <1>1, <1>2 DEF AgentInv, SessionTypeOK, AgentState
<1>5. ContextOrder' /\ ContextAuthentic' /\ RunsAcceptedUpdate'
  BY <1>1 DEF AgentInv, ContextOrder, ContextAuthentic, RunsAcceptedUpdate
<1>6. SessionPhase' /\ SuccessAfterRun'
  BY <1>1, <1>2 DEF AgentInv, SessionPhase, BeforeUpdate, SuccessAfterRun
<1>7. QED
  BY <1>2, <1>3, <1>4, <1>5, <1>6 DEF AgentInv

----------------------------------------------------------------------------
(* The Update message.                                                     *)

LEMMA UpdateList ==
    ASSUME NEW m \in Message
    PROVE  /\ m.manifest_list \in Seq(Envelope)
           /\ Len(m.manifest_list) \in Nat
           /\ \A i \in 1 .. Len(m.manifest_list) : m.manifest_list[i] \in Envelope
<1>1. m.manifest_list \in Seq(Envelope)
  BY MessageAssumption DEF MessageType
<1>2. QED
  BY <1>1, LenProperties, ElementOfSeq

\* Storing envelopes fills buffers with envelopes.
LEMMA StoredUpToType ==
    ASSUME SessionTypeOK, NEW m \in Message, NEW n \in 0 .. Len(m.manifest_list)
    PROVE  StoredUpTo(m.manifest_list, n) \in [SuitManifestSlots -> Buffer]
<1> DEFINE es == m.manifest_list
<1>1. suit_manifests \in [SuitManifestSlots -> Buffer]
  BY DEF SessionTypeOK
<1>2. ASSUME NEW i \in SuitManifestSlots, i < n
      PROVE  [status |-> "live", envelope |-> es[i + 1]] \in Buffer
  <2>1. i + 1 \in 1 .. Len(es)
    BY <1>2, UpdateList DEF SuitManifestSlots
  <2>2. es[i + 1] \in Envelope
    BY <2>1, UpdateList
  <2>3. QED
    BY <2>2 DEF Buffer
<1>3. QED
  BY <1>1, <1>2 DEF StoredUpTo

\* A refused Update may replace buffers, but there is no context to point at them.
LEMMA UpdateNotStoredInv ==
    ASSUME AgentInv, NEW m \in Message, UpdateNotStored(m)
    PROVE  AgentInv'
<1> DEFINE es == m.manifest_list
<1>1. /\ PostDone /\ state = "POSTING_QUERY_RESPONSE"
      /\ result' = "SUCCESS"
      /\ UNCHANGED <<manifest, program_counter, stack, selected, bindings, call,
                     has_error, suspended, fetch, files, installs,
                     state, token, data_item_requested, tam_uri,
                     uri_terminated, requests, suit_context, busy, accepted>>
  BY DEF UpdateNotStored, Expected
<1>2. /\ ~suspended
      /\ on_going_task' \in Task
      /\ TaskMatchesState'
  BY <1>1, PostDoneFacts
<1>3. suit_context = <<>> /\ manifest = NoManifest
  BY <1>1 DEF AgentInv, SessionPhase, BeforeUpdate
<1>4. crashed' \in BOOLEAN
  BY DEF UpdateNotStored, FreesTwice
<1>5. RunnerInv'
  BY <1>1, <1>2, <1>4, CrashInv DEF AgentInv
<1>6. suit_manifests' \in [SuitManifestSlots -> Buffer]
  <2>1. PICK n \in 0 .. Len(es) :
           \/ suit_manifests' = StoredUpTo(es, n)
           \/ /\ n \in SuitManifestSlots
              /\ suit_manifests' = [StoredUpTo(es, n) EXCEPT
                                      ![n].status = IF @ = "null" THEN "null" ELSE "freed"]
    BY DEF UpdateNotStored, Storable
  <2>2. StoredUpTo(es, n) \in [SuitManifestSlots -> Buffer]
    BY StoredUpToType DEF AgentInv
  <2> DEFINE bs == StoredUpTo(es, n)
  <2> HIDE DEF bs
  <2>3. ASSUME n \in SuitManifestSlots
        PROVE  [bs EXCEPT ![n].status = IF @ = "null" THEN "null" ELSE "freed"]
                  \in [SuitManifestSlots -> Buffer]
    BY <2>2, <2>3 DEF Buffer, bs
  <2>4. QED
    BY <2>1, <2>2, <2>3 DEF bs
<1>7. SessionTypeOK'
  BY <1>1, <1>2, <1>6 DEF AgentInv, SessionTypeOK, Result
<1>8. SessionPhase' /\ ContextOrder' /\ RunsAcceptedUpdate' /\ SuccessAfterRun'
  BY <1>1, <1>2, <1>3 DEF SessionPhase, BeforeUpdate, ContextOrder, RunsAcceptedUpdate,
                          SuccessAfterRun
<1>9. ContextAuthentic'
  BY <1>1, <1>3 DEF ContextAuthentic
<1>10. QED
  BY <1>2, <1>5, <1>7, <1>8, <1>9 DEF AgentInv

\* An accepted Update: every entry of the context points at the slot that its
\* authenticated envelope was stored in, the last envelope first.
LEMMA UpdateStoredInv ==
    ASSUME AgentInv, NEW m \in Message, UpdateStored(m)
    PROVE  AgentInv'
<1> DEFINE es == m.manifest_list
<1>1. /\ PostDone /\ state = "POSTING_QUERY_RESPONSE"
      /\ result' = "SUCCESS" /\ accepted' = es
      /\ state' \in {"INIT_RUNNER", "POSTING_ERROR"}
      /\ suit_manifests' = StoredUpTo(es, Len(es))
      /\ \A i \in 0 .. Len(es) : i < Len(es) => Storable(es, i)
      /\ UNCHANGED <<manifest, program_counter, stack, selected, bindings, call,
                     has_error, suspended, fetch, files, installs,
                     token, data_item_requested, tam_uri, uri_terminated, requests, busy>>
  BY DEF UpdateStored, Expected
<1>2. /\ ~suspended
      /\ on_going_task' \in Task
      /\ TaskMatchesState'
  BY <1>1, PostDoneFacts
<1>3. suit_context = <<>> /\ manifest = NoManifest
  BY <1>1 DEF AgentInv, SessionPhase, BeforeUpdate
<1>4. RunnerInv'
  <2>1. crashed' \in BOOLEAN
    BY DEF UpdateStored, FreesTwice
  <2>2. QED
    BY <1>1, <1>2, <2>1, CrashInv DEF AgentInv
<1>5. es \in Seq(Envelope) /\ Len(es) \in Nat /\ \A i \in 1 .. Len(es) : es[i] \in Envelope
  BY UpdateList
<1>6. PICK k \in 0 .. Len(es) : suit_context' = suit_context \o [j \in 1 .. k |-> EntryAt(es, j)]
  BY DEF UpdateStored
<1> DEFINE added == [j \in 1 .. k |-> EntryAt(es, j)]
<1>7. ASSUME NEW j \in 1 .. k
      PROVE  /\ EntryAt(es, j).slot = Len(es) - j
             /\ EntryAt(es, j).slot \in SuitManifestSlots
             /\ EntryAt(es, j).slot < Len(es)
             /\ EntryAt(es, j).envelope = es[Len(es) - j + 1]
             /\ Authentic(es[Len(es) - j + 1])
             /\ EntryAt(es, j) \in [slot : SuitManifestSlots, envelope : Envelope]
  <2>1. Len(es) - j \in 0 .. Len(es) /\ Len(es) - j < Len(es)
    BY <1>5
  <2>2. Storable(es, Len(es) - j)
    BY <1>1, <2>1
  <2>3. Len(es) - j + 1 \in 1 .. Len(es)
    BY <1>5
  <2>4. QED
    BY <1>5, <2>1, <2>2, <2>3 DEF EntryAt, Storable
<1>8. /\ suit_context' = added
      /\ added \in Seq([slot : SuitManifestSlots, envelope : Envelope])
      /\ DOMAIN added = 1 .. k
  <2>1. k \in Nat
    BY <1>5
  <2>2. added \in [1 .. k -> [slot : SuitManifestSlots, envelope : Envelope]]
    BY <1>7
  <2>3. added \in Seq([slot : SuitManifestSlots, envelope : Envelope])
    BY <2>1, <2>2, SeqDef
  <2>4. QED
    BY <1>3, <1>6, <2>3, ConcatEmptySeq
<1>9. SessionTypeOK'
  <2>1. suit_manifests' \in [SuitManifestSlots -> Buffer]
    BY <1>1, <1>5, StoredUpToType DEF AgentInv
  <2>2. QED
    BY <1>1, <1>2, <1>5, <1>8, <2>1 DEF AgentInv, SessionTypeOK, AgentState, Result
<1>10. ContextAuthentic'
  <2> SUFFICES ASSUME NEW j \in 1 .. k
               PROVE  LET b == suit_manifests'[suit_context'[j].slot]
                      IN  /\ b.status = "live"
                          /\ b.envelope = suit_context'[j].envelope
                          /\ Authentic(b.envelope)
    BY <1>8 DEF ContextAuthentic, Authentic
  <2>1. suit_context'[j] = EntryAt(es, j)
    BY <1>8
  <2>2. suit_manifests'[Len(es) - j] = [status |-> "live", envelope |-> es[Len(es) - j + 1]]
    BY <1>1, <1>7 DEF StoredUpTo
  <2>3. QED
    BY <1>7, <2>1, <2>2
<1>11. ContextOrder'
  <2> SUFFICES ASSUME suit_context' # <<>>
               PROVE  accepted' # <<>> /\ suit_context'[1].envelope = accepted'[Len(accepted')]
    BY DEF ContextOrder
  <2>1. 1 \in 1 .. k
    BY <1>5, <1>8, EmptySeq
  <2>2. suit_context'[1] = EntryAt(es, 1) /\ EntryAt(es, 1).envelope = es[Len(es) - 1 + 1]
    BY <1>7, <1>8, <2>1
  <2>3. es # <<>> /\ Len(es) - 1 + 1 = Len(es)
    BY <1>5, <2>1
  <2>4. QED
    BY <1>1, <2>2, <2>3
<1>12. SessionPhase' /\ RunsAcceptedUpdate' /\ SuccessAfterRun'
  BY <1>1, <1>2, <1>3 DEF SessionPhase, BeforeUpdate, RunsAcceptedUpdate, SuccessAfterRun
<1>13. QED
  BY <1>2, <1>4, <1>9, <1>10, <1>11, <1>12 DEF AgentInv

\* A download is reported only while the runner waits for it.
LEMMA HandleComponentDownloadInv ==
    ASSUME AgentInv, NEW body \in Body, HandleComponentDownload(body)
    PROVE  AgentInv'
<1>1. /\ on_going_task.command = "HTTP_GET" /\ on_going_task' = NoTask
      /\ UNCHANGED <<token, data_item_requested, tam_uri, uri_terminated, requests, suit_manifests,
                     suit_context, busy, accepted>>
  BY DEF HandleComponentDownload
<1>2. state = "FETCH_COMPONENT" /\ Suspended
  BY <1>1 DEF AgentInv, TaskMatchesState
<1>3. StoreAndResume(body) /\ state' = "RUN_SUIT_RUNNER" /\ result' = "SUCCESS"
  BY <1>2 DEF HandleComponentDownload
<1>4. RunnerInv'
  BY <1>2, <1>3, StoreAndResumeInv DEF AgentInv
<1>5. manifest' = manifest /\ crashed' = crashed
  BY <1>3 DEF StoreAndResume
<1>6. SessionTypeOK'
  BY <1>1, <1>3, NoTaskType DEF AgentInv, SessionTypeOK, AgentState, Result
<1>7. ContextOrder' /\ ContextAuthentic' /\ RunsAcceptedUpdate'
  BY <1>1, <1>5 DEF AgentInv, ContextOrder, ContextAuthentic, RunsAcceptedUpdate
<1>8. SessionPhase'
  BY <1>2, <1>3, <1>5 DEF AgentInv, SessionPhase, BeforeUpdate
<1>9. TaskMatchesState' /\ SuccessAfterRun'
  BY <1>1, <1>3 DEF NoTask, TaskMatchesState, SuccessAfterRun
<1>10. QED
  BY <1>4, <1>6, <1>7, <1>8, <1>9 DEF AgentInv

LEMMA AgentInitInv == AgentInit => AgentInv
<1> SUFFICES ASSUME AgentInit PROVE AgentInv
  OBVIOUS
<1>1. RunnerInv
  BY RunnerInitInv DEF AgentInit
<1>2. NullBuffer \in Buffer
  BY DEF NullBuffer, Buffer
<1>3. suit_manifests \in [SuitManifestSlots -> Buffer]
  BY <1>2 DEF AgentInit
<1>4. SessionTypeOK
  BY <1>3, NoTaskType, EmptySeq DEF AgentInit, SessionTypeOK, AgentState, TamUri, Result
<1>5. SessionPhase /\ SuccessAfterRun /\ RunsAcceptedUpdate
  BY DEF AgentInit, RunnerInit, SessionPhase, SuccessAfterRun, RunsAcceptedUpdate
<1>6. ContextOrder /\ ContextAuthentic
  BY DEF AgentInit, ContextOrder, ContextAuthentic
<1>7. TaskMatchesState
  BY NoTaskMatches DEF AgentInit
<1>8. QED
  BY <1>1, <1>4, <1>5, <1>6, <1>7 DEF AgentInv

LEMMA AgentStutterInv == AgentInv /\ UNCHANGED agentVars => AgentInv'
<1> SUFFICES ASSUME AgentInv, UNCHANGED agentVars PROVE AgentInv'
  OBVIOUS
<1>1. UNCHANGED <<runnerVars, state, on_going_task, token, data_item_requested, tam_uri,
                  uri_terminated, requests, suit_manifests, suit_context, busy, result, accepted>>
  BY DEF agentVars, sessionVars
<1>2. RunnerInv' /\ ContextOrder' /\ ContextAuthentic' /\ RunsAcceptedUpdate'
  BY <1>1, QuietStep
<1>3. SessionPhase' /\ TaskMatchesState' /\ SuccessAfterRun'
  BY <1>1, TaskKept
<1>4. SessionTypeOK'
  BY <1>1 DEF AgentInv, SessionTypeOK
<1>5. QED
  BY <1>2, <1>3, <1>4 DEF AgentInv

LEMMA AgentNextInv == AgentInv /\ [AgentNext]_agentVars => AgentInv'
<1> SUFFICES ASSUME AgentInv, [AgentNext]_agentVars PROVE AgentInv'
  OBVIOUS
<1>1. CASE QueryLoop
  BY <1>1, LeaveInitInv, IssuePostInv, IssueGetInv, IssueFinishInv, StartRunnerInv,
     StepRunnerInv, RunnerReturnedInv, CommandInv DEF QueryLoop
<1>2. ASSUME NEW m \in Message, HandleTamMessage(m) PROVE AgentInv'
  BY <1>2, AnswerInv, QueryRequestNotCopiedInv, UpdateNotStoredInv, UpdateStoredInv DEF HandleTamMessage
<1>3. CASE Client
  BY <1>2, <1>3, SetTamUriInv, SetTaListInv, TaListsType, CommandInv, ReadBeforeOptionInv,
     HandleComponentDownloadInv
  DEF Client
<1>4. CASE UNCHANGED agentVars
  BY <1>4, AgentStutterInv
<1>5. QED
  BY <1>1, <1>3, <1>4 DEF AgentNext

----------------------------------------------------------------------------
(* The theorems.                                                           *)

\* The inductive invariant holds in every state of a session.
THEOREM AgentInvariant == AgentSpec => []AgentInv
<1>1. QED
  BY AgentInitInv, AgentNextInv, PTL DEF AgentSpec

\* The types of a session and of its runner, whatever client and TAM do.
THEOREM AgentTypeCorrect == AgentSpec => []AgentTypeOK
<1>1. AgentInv => AgentTypeOK
  BY DEF AgentInv, AgentTypeOK, RunnerInv
<1>2. QED
  BY <1>1, AgentInvariant, PTL

\* Only authenticated envelopes reach the context, and the buffers they were
\* parsed from stay as they are: for every sequence of Updates, of any length.
THEOREM ContextIsAuthentic == AgentSpec => []ContextAuthentic
<1>1. AgentInv => ContextAuthentic
  BY DEF AgentInv
<1>2. QED
  BY <1>1, AgentInvariant, PTL

\* The runner executes the root manifest of the Update that was accepted.
THEOREM RunsOnlyAcceptedUpdate == AgentSpec => []RunsAcceptedUpdate
<1>1. AgentInv => RunsAcceptedUpdate
  BY DEF AgentInv
<1>2. QED
  BY <1>1, AgentInvariant, PTL

\* The outstanding task and the state of the session agree.
THEOREM TaskAlwaysMatches == AgentSpec => []TaskMatchesState
<1>1. AgentInv => TaskMatchesState
  BY DEF AgentInv
<1>2. QED
  BY <1>1, AgentInvariant, PTL

\* Success is reported only for a run that has ended, without an error.
THEOREM SuccessOnlyAfterRun == AgentSpec => []SuccessAfterRun
<1>1. AgentInv => SuccessAfterRun
  BY DEF AgentInv
<1>2. QED
  BY <1>1, AgentInvariant, PTL

----------------------------------------------------------------------------
(* A session implements TeepProtocol.                                      *)

\* What the mapping makes of the states and of the tasks.
LEMMA Mapping ==
    /\ PhaseOf("INIT") = "new"
    /\ PhaseOf("POSTING_INITIAL_REQUEST") = "hello"
    /\ PhaseOf("POSTING_QUERY_RESPONSE") = "query"
    /\ PhaseOf("INIT_RUNNER") = "install"
    /\ PhaseOf("RUN_SUIT_RUNNER") = "install"
    /\ PhaseOf("FETCH_COMPONENT") = "install"
    /\ PhaseOf("POSTING_SUCCESS") = "success"
    /\ PhaseOf("POSTING_ERROR") = "error"
    /\ PhaseOf("FINISH") = "done"
    /\ OutstandingOf("none") = "none"
    /\ OutstandingOf("HTTP_POST") = "post"
    /\ OutstandingOf("HTTP_GET") = "get"
    /\ OutstandingOf("FINISH") = "finish"
BY DEF PhaseOf, OutstandingOf

\* The steps of the query loop begin, issue or conclude.
LEMMA QueryLoopRefines ==
    ASSUME AgentInv, QueryLoop
    PROVE  [Protocol!ProtocolNext]_Protocol!protocolVars
<1>1. CASE LeaveInit
  <2>1. /\ state = "INIT" /\ state' = "POSTING_INITIAL_REQUEST"
        /\ on_going_task' = on_going_task
    BY <1>1 DEF LeaveInit, InLoop
  <2>2. Protocol!Begin
    BY <2>1, Mapping DEF Protocol!Begin
  <2>3. QED
    BY <2>2 DEF Protocol!ProtocolNext
<1>2. CASE IssuePost
  <2>1. /\ state \in Posting /\ state' = state
        /\ on_going_task.command = "none" /\ on_going_task'.command = "HTTP_POST"
    BY <1>2, PostType DEF IssuePost, InLoop, NoTask, AgentInv
  <2>2. PhaseOf(state) \in {"hello", "query", "success", "error"}
    BY <2>1, Mapping DEF Posting
  <2>3. Protocol!Issue
    BY <2>1, <2>2, Mapping DEF Protocol!Issue, Protocol!TaskOf
  <2>4. QED
    BY <2>3 DEF Protocol!ProtocolNext
<1>3. CASE IssueGet
  <2>1. /\ state = "FETCH_COMPONENT" /\ state' = state
        /\ on_going_task.command = "none" /\ on_going_task'.command = "HTTP_GET"
    BY <1>3 DEF IssueGet, InLoop, NoTask
  <2>2. Protocol!Issue
    BY <2>1, Mapping DEF Protocol!Issue, Protocol!TaskOf
  <2>3. QED
    BY <2>2 DEF Protocol!ProtocolNext
<1>4. CASE IssueFinish
  <2>1. /\ state = "FINISH" /\ state' = state
        /\ on_going_task.command = "none" /\ on_going_task'.command = "FINISH"
    BY <1>4 DEF IssueFinish, InLoop, NoTask
  <2>2. Protocol!Issue
    BY <2>1, Mapping DEF Protocol!Issue, Protocol!TaskOf
  <2>3. QED
    BY <2>2 DEF Protocol!ProtocolNext
<1>5. CASE StartRunner
  <2>1. /\ state = "INIT_RUNNER" /\ state' \in {"INIT_RUNNER", "RUN_SUIT_RUNNER"}
        /\ on_going_task' = on_going_task
    BY <1>5 DEF StartRunner, InLoop
  <2>2. QED
    BY <2>1, Mapping DEF Protocol!protocolVars
<1>6. CASE StepRunner \/ QueryReturn
  <2>1. state' = state /\ on_going_task' = on_going_task
    BY <1>6 DEF StepRunner, QueryReturn, sessionVars
  <2>2. QED
    BY <2>1 DEF Protocol!protocolVars
<1>7. CASE RunnerReturned
  <2>1. /\ state = "RUN_SUIT_RUNNER"
        /\ state' \in {"POSTING_SUCCESS", "FETCH_COMPONENT", "POSTING_ERROR"}
        /\ on_going_task' = on_going_task /\ on_going_task.command = "none"
    BY <1>7 DEF RunnerReturned, InLoop, NoTask
  <2>2. CASE state' = "FETCH_COMPONENT"
    BY <2>1, <2>2, Mapping DEF Protocol!protocolVars
  <2>3. CASE state' # "FETCH_COMPONENT"
    <3>1. Protocol!Conclude
      BY <2>1, <2>3, Mapping DEF Protocol!Conclude
    <3>2. QED
      BY <3>1 DEF Protocol!ProtocolNext
  <2>4. QED
    BY <2>2, <2>3
<1>8. QED
  BY <1>1, <1>2, <1>3, <1>4, <1>5, <1>6, <1>7 DEF QueryLoop

\* The answer to a POST moves the protocol on, or repeats the query.
LEMMA MessageRefines ==
    ASSUME AgentInv, NEW m \in Message, HandleTamMessage(m)
    PROVE  [Protocol!ProtocolNext]_Protocol!protocolVars
<1>1. PostDone
  BY DEF HandleTamMessage, EndSession, RejectMessage, HandleQueryRequest,
         QueryRequestNotCopied, UpdateNotStored, UpdateStored
<1>2. /\ state \in Posting
      /\ on_going_task.command = "HTTP_POST" /\ on_going_task'.command = "none"
  BY <1>1, PostDoneFacts, NoTaskType DEF PostDone
<1>3. \/ state' = "FINISH"
      \/ state # "POSTING_ERROR" /\ state' = "POSTING_ERROR"
      \/ state = "POSTING_INITIAL_REQUEST" /\ state' = "POSTING_QUERY_RESPONSE"
      \/ state = "POSTING_QUERY_RESPONSE" /\ state' = "POSTING_QUERY_RESPONSE"
      \/ state = "POSTING_QUERY_RESPONSE" /\ state' \in {"INIT_RUNNER", "POSTING_ERROR"}
  BY DEF HandleTamMessage, EndSession, RejectMessage, HandleQueryRequest,
         QueryRequestNotCopied, UpdateNotStored, UpdateStored, Expected
<1>4. PhaseOf(state') \in Protocol!After(PhaseOf(state))
  <2>1. CASE state = "POSTING_INITIAL_REQUEST"
    BY <1>3, <2>1, Mapping DEF Protocol!After
  <2>2. CASE state = "POSTING_QUERY_RESPONSE"
    BY <1>3, <2>2, Mapping DEF Protocol!After
  <2>3. CASE state = "POSTING_SUCCESS"
    BY <1>3, <2>3, Mapping DEF Protocol!After
  <2>4. CASE state = "POSTING_ERROR"
    BY <1>3, <2>4, Mapping DEF Protocol!After
  <2>5. QED
    BY <1>2, <2>1, <2>2, <2>3, <2>4 DEF Posting
<1>5. Protocol!Answer
  BY <1>2, <1>4, Mapping DEF Protocol!Answer
<1>6. QED
  BY <1>5 DEF Protocol!ProtocolNext

LEMMA ClientRefines ==
    ASSUME AgentInv, Client
    PROVE  [Protocol!ProtocolNext]_Protocol!protocolVars
<1>1. CASE \E body \in Body : HandleComponentDownload(body)
  <2>1. /\ on_going_task.command = "HTTP_GET" /\ on_going_task'.command = "none"
        /\ state = "FETCH_COMPONENT"
    BY <1>1, NoTaskType DEF HandleComponentDownload, AgentInv, TaskMatchesState
  <2>2. state' = "RUN_SUIT_RUNNER"
    BY <1>1, <2>1 DEF HandleComponentDownload
  <2>3. Protocol!Downloaded
    BY <2>1, <2>2, Mapping DEF Protocol!Downloaded
  <2>4. QED
    BY <2>3 DEF Protocol!ProtocolNext
<1>2. CASE \E m \in Message : HandleTamMessage(m)
  BY <1>2, MessageRefines
<1>3. CASE \/ \E len \in TamUriLen : SetTamUri(len)
           \/ \E list \in TaLists : SetTaList(list)
           \/ QueryNext
           \/ TaskDoneRejected \/ RefuseCommand \/ ReadBeforeOption
  <2>1. state' = state /\ on_going_task' = on_going_task
    BY <1>3 DEF SetTamUri, SetTaList, QueryNext, TaskDoneRejected, RefuseCommand,
                ReadBeforeOption, sessionVars
  <2>2. QED
    BY <2>1 DEF Protocol!protocolVars
<1>4. QED
  BY <1>1, <1>2, <1>3 DEF Client

\* Whatever the client, the TAM, malloc and the file system do, a session is a
\* behaviour of the abstract protocol.
THEOREM AgentImplementsProtocol == AgentSpec => ImplementsProtocol
<1>1. AgentInit => Protocol!ProtocolInit
  BY Mapping, NoTaskType DEF AgentInit, Protocol!ProtocolInit
<1>2. AgentInv /\ [AgentNext]_agentVars => [Protocol!ProtocolNext]_Protocol!protocolVars
  <2> SUFFICES ASSUME AgentInv, [AgentNext]_agentVars
               PROVE  [Protocol!ProtocolNext]_Protocol!protocolVars
    OBVIOUS
  <2>1. CASE UNCHANGED agentVars
    BY <2>1 DEF agentVars, sessionVars, Protocol!protocolVars
  <2>2. QED
    BY <2>1, QueryLoopRefines, ClientRefines DEF AgentNext
<1>3. QED
  BY <1>1, <1>2, AgentInvariant, PTL DEF AgentSpec, ImplementsProtocol, Protocol!ProtocolSpec

----------------------------------------------------------------------------
(* What a step may never do.                                               *)

\* An answer to a report leads to FINISH or to an Error message.
LEMMA ReportStep ==
    ASSUME AgentInv, AgentNext, state \in Reporting
    PROVE  /\ state' \in Reporting /\ UNCHANGED <<files, manifest, suit_context>>
           /\ state \in {"POSTING_ERROR", "FINISH"} => state' # "POSTING_SUCCESS"
<1>1. CASE QueryLoop
  BY <1>1 DEF QueryLoop, LeaveInit, IssuePost, IssueGet, IssueFinish, StartRunner, StepRunner,
              RunnerReturned, QueryReturn, InLoop, Reporting, runnerVars
<1>2. CASE \E m \in Message : HandleTamMessage(m)
  BY <1>2 DEF HandleTamMessage, EndSession, RejectMessage, HandleQueryRequest,
              QueryRequestNotCopied, UpdateNotStored, UpdateStored, Expected, Reporting, runnerVars
<1>3. CASE \E body \in Body : HandleComponentDownload(body)
  <2>1. state = "FETCH_COMPONENT"
    BY <1>3 DEF HandleComponentDownload, AgentInv, TaskMatchesState
  <2>2. QED
    BY <2>1 DEF Reporting
<1>4. CASE \/ \E len \in TamUriLen : SetTamUri(len)
           \/ \E list \in TaLists : SetTaList(list)
           \/ QueryNext
           \/ TaskDoneRejected \/ RefuseCommand \/ ReadBeforeOption
  BY <1>4 DEF SetTamUri, SetTaList, QueryNext, TaskDoneRejected, RefuseCommand,
              ReadBeforeOption, Reporting, runnerVars, sessionVars
<1>5. QED
  BY <1>1, <1>2, <1>3, <1>4 DEF AgentNext, Client

\* Nothing is installed, restarted or re-reported once the outcome is known.
THEOREM ReportAlwaysFinal == AgentSpec => ReportIsFinal
<1>1. AgentInv /\ [AgentNext]_agentVars =>
         [/\ state \in Reporting =>
                state' \in Reporting /\ UNCHANGED <<files, manifest, suit_context>>
          /\ state \in {"POSTING_ERROR", "FINISH"} => state' # "POSTING_SUCCESS"]_agentVars
  BY ReportStep DEF Reporting
<1>2. QED
  BY <1>1, AgentInvariant, PTL DEF AgentSpec, ReportIsFinal

----------------------------------------------------------------------------
(* The device's inductive invariant: what loop_teep knows of the agent at  *)
(* each of its steps, and what the messages posted so far say.             *)

Reported == TypesPosted \cap {"success", "error"} # {} \/ ReportLost

\* Up to its first query the broker is at an agent that has done nothing; it asks
\* for a task when there is none, and does one when there is one.  When it has
\* stopped, so has the agent.
BrokerPlace ==
    /\ broker \in {"start", "set-uri", "set-list"} => state = "INIT"
    /\ broker \in {"start", "set-uri", "set-list", "query"} => on_going_task = NoTask
    /\ broker = "http" => on_going_task.command \in {"HTTP_POST", "HTTP_GET"}
    /\ broker = "wait" /\ ~busy =>
           /\ on_going_task # NoTask
           /\ result \in {"SUCCESS", "BAD_PARAMETERS"}
    /\ busy => broker \in {"wait", "closed"}
    /\ broker = "closed" => ~busy \/ crashed
    /\ result # "BAD_STATE"

\* An Update once accepted is not forgotten, and a session that ends after it, by
\* FINISH or because the broker stops, has reported.
ReportOwed ==
    /\ accepted # <<>> => state \notin BeforeUpdate
    /\ accepted # <<>> /\ state = "FINISH" => Reported
    /\ AcceptedIsReported

\* Nothing is stored before the runner starts, and a crash leaves it so unless a uri
\* that is too long for the task has been copied.
StoreHistory ==
    /\ state \in BeforeUpdate \cup {"INIT_RUNNER"} => installs = <<>>
    /\ CrashLeavesStore

SystemInv == AgentInv /\ BrokerPlace /\ ReportOwed /\ StoreHistory

----------------------------------------------------------------------------
(* Facts about single steps.                                               *)

\* The broker has opened no session and the agent has done nothing.
LEMMA SystemInitInv == SystemInit => SystemInv
<1> SUFFICES ASSUME SystemInit PROVE SystemInv
  OBVIOUS
<1>1. AgentInv
  BY AgentInitInv DEF SystemInit
<1>2. BrokerPlace /\ ReportOwed /\ StoreHistory
  BY DEF SystemInit, AgentInit, RunnerInit, BrokerPlace, ReportOwed, AcceptedIsReported,
         Closed, StoreHistory, CrashLeavesStore
<1>3. QED
  BY <1>1, <1>2 DEF SystemInv

\* A turn of query_next_broker_task, with the broker waiting for it.
LEMMA QueryLoopFacts ==
    ASSUME AgentInv, QueryLoop
    PROVE  /\ busy /\ ~crashed
           /\ accepted' = accepted
           /\ busy' \/ /\ ~busy' /\ on_going_task' # NoTask
                       /\ result' \in {"SUCCESS", "BAD_PARAMETERS"}
           /\ result' # result => ~busy'
           /\ \/ state' = state
              \/ state = "INIT" /\ state' = "POSTING_INITIAL_REQUEST"
              \/ state = "INIT_RUNNER" /\ state' = "RUN_SUIT_RUNNER"
              \/ /\ state = "RUN_SUIT_RUNNER"
                 /\ state' \in {"POSTING_SUCCESS", "FETCH_COMPONENT", "POSTING_ERROR"}
<1>1. CASE QueryReturn
  BY <1>1 DEF QueryReturn
<1>2. CASE StepRunner
  BY <1>2 DEF StepRunner, InLoop, sessionVars
<1>3. CASE StartRunner
  BY <1>3 DEF StartRunner, InLoop
<1>4. CASE RunnerReturned
  BY <1>4 DEF RunnerReturned, InLoop
<1>5. CASE LeaveInit \/ IssuePost \/ IssueGet \/ IssueFinish
  BY <1>5 DEF LeaveInit, IssuePost, IssueGet, IssueFinish, InLoop
<1>6. QED
  BY <1>1, <1>2, <1>3, <1>4, <1>5 DEF QueryLoop

\* A turn of the query loop preserves the invariant of the session.
LEMMA QueryLoopInv == AgentInv /\ QueryLoop => AgentInv'
  BY AgentNextInv DEF AgentNext

\* What was posted to report the outcome is a Success or an Error, or unbuilt.
LEMMA PostedMessage ==
    ASSUME AgentInv, PostDone
    PROVE  /\ state \in Posting
           /\ ~busy /\ ~crashed
           /\ state \in {"POSTING_SUCCESS", "POSTING_ERROR"} =>
                 on_going_task.data.type \in {"success", "error", "unbuilt"}
<1>1. state \in Posting /\ on_going_task = PostForState /\ ~busy /\ ~crashed
  BY DEF PostDone, Idle, AgentInv, TaskMatchesState
<1>2. \A type, tok : Post(type, tok, <<>>).data.type \in {type, "unbuilt"}
  BY DEF Post, Encoded, Unbuilt
<1>3. QED
  BY <1>1, <1>2 DEF Posting, PostForState

\* What handle_tam_message makes of the session.
LEMMA MessageFacts ==
    ASSUME AgentInv, NEW m \in Message, HandleTamMessage(m)
    PROVE  /\ PostDone /\ AgentInv'
           /\ on_going_task' = NoTask /\ busy' = busy
           /\ \/ /\ state' = "FINISH" /\ accepted' = accepted
                 /\ result' \in {"SUCCESS", "BAD_FORMAT"}
                 /\ result' = "BAD_FORMAT" => state = "POSTING_ERROR"
              \/ /\ state' = "POSTING_ERROR" /\ accepted' = accepted
                 /\ result' \in {"SUCCESS", "BAD_FORMAT"}
              \/ /\ state = "POSTING_INITIAL_REQUEST" /\ state' = "POSTING_QUERY_RESPONSE"
                 /\ accepted' = accepted
                 /\ result' = "SUCCESS" \/ (result' = result /\ crashed')
              \/ /\ state = "POSTING_QUERY_RESPONSE" /\ result' = "SUCCESS"
                 /\ \/ state' = state /\ accepted' = accepted
                    \/ state' \in {"INIT_RUNNER", "POSTING_ERROR"}
<1>1. AgentInv'
  BY AnswerInv, QueryRequestNotCopiedInv, UpdateNotStoredInv, UpdateStoredInv
  DEF HandleTamMessage
<1>2. CASE EndSession(m)
  BY <1>1, <1>2 DEF EndSession, PostDone
<1>3. CASE RejectMessage(m)
  BY <1>1, <1>3 DEF RejectMessage, PostDone
<1>4. CASE HandleQueryRequest(m)
  <2>1. /\ state = "POSTING_INITIAL_REQUEST" /\ state' = "POSTING_QUERY_RESPONSE"
        /\ accepted' = accepted /\ result' = "SUCCESS" /\ busy' = busy
        /\ PostDone /\ on_going_task' = NoTask
    BY <1>4 DEF HandleQueryRequest, PostDone, Expected
  <2>2. QED
    BY <1>1, <2>1
<1>5. CASE QueryRequestNotCopied(m)
  BY <1>1, <1>5 DEF QueryRequestNotCopied, PostDone, Expected
<1>6. CASE UpdateNotStored(m)
  BY <1>1, <1>6 DEF UpdateNotStored, PostDone, Expected
<1>7. CASE UpdateStored(m)
  BY <1>1, <1>7 DEF UpdateStored, PostDone, Expected
<1>8. QED
  BY <1>2, <1>3, <1>4, <1>5, <1>6, <1>7 DEF HandleTamMessage

\* A turn of the query loop: the runner stores once it has been started, and only
\* the start of the runner and the copy of a uri may crash the TA.
LEMMA QueryLoopStore ==
    ASSUME AgentInv, StoreHistory, QueryLoop
    PROVE  StoreHistory'
<1>1. CASE StepRunner
  <2>1. /\ state = "RUN_SUIT_RUNNER" /\ state' = state /\ ~crashed
        /\ crashed' = crashed
    BY <1>1, RunStepKeeps DEF StepRunner, InLoop, sessionVars
  <2>2. QED
    BY <2>1 DEF StoreHistory, BeforeUpdate, CrashLeavesStore
<1>2. CASE StartRunner
  <2>1. installs' = <<>>
    BY <1>2 DEF StartRunner, InLoop, SuitRunnerInit, StoreHistory
  <2>2. QED
    BY <2>1 DEF StoreHistory, CrashLeavesStore
<1>3. CASE IssueGet
  <2>1. /\ state = "FETCH_COMPONENT" /\ state' = state /\ ~crashed
        /\ UNCHANGED <<fetch, installs>>
        /\ fetch.uri \notin WildUri => crashed' = crashed
    BY <1>3 DEF IssueGet, InLoop
  <2>2. QED
    BY <2>1 DEF StoreHistory, BeforeUpdate, CrashLeavesStore
<1>4. CASE LeaveInit \/ IssuePost \/ IssueFinish \/ RunnerReturned \/ QueryReturn
  <2>1. /\ UNCHANGED <<crashed, fetch, installs>>
        /\ state' \in BeforeUpdate \cup {"INIT_RUNNER"} =>
              state \in BeforeUpdate \cup {"INIT_RUNNER"}
    BY <1>4 DEF LeaveInit, IssuePost, IssueFinish, RunnerReturned, QueryReturn, InLoop,
                runnerVars, BeforeUpdate
  <2>2. QED
    BY <2>1 DEF StoreHistory, CrashLeavesStore
<1>5. QED
  BY <1>1, <1>2, <1>3, <1>4 DEF QueryLoop

\* A message can crash the TA only before the runner starts.
LEMMA MessageStore ==
    ASSUME StoreHistory, NEW m \in Message, HandleTamMessage(m)
    PROVE  StoreHistory'
<1>1. UNCHANGED <<fetch, installs>> /\ ~crashed
  BY DEF HandleTamMessage, EndSession, RejectMessage, HandleQueryRequest,
         QueryRequestNotCopied, UpdateNotStored, UpdateStored, PostDone, Idle, runnerVars
<1>2. CASE EndSession(m) \/ RejectMessage(m)
  BY <1>1, <1>2 DEF EndSession, RejectMessage, StoreHistory, CrashLeavesStore, BeforeUpdate,
                    runnerVars
<1>3. CASE \/ HandleQueryRequest(m) \/ QueryRequestNotCopied(m)
           \/ UpdateNotStored(m) \/ UpdateStored(m)
  <2>1. state \in BeforeUpdate
    BY <1>3 DEF HandleQueryRequest, QueryRequestNotCopied, UpdateNotStored, UpdateStored,
                Expected, BeforeUpdate
  <2>2. installs' = <<>>
    BY <1>1, <2>1 DEF StoreHistory
  <2>3. QED
    BY <2>2 DEF StoreHistory, CrashLeavesStore
<1>4. QED
  BY <1>2, <1>3 DEF HandleTamMessage

----------------------------------------------------------------------------
(* The invariant is preserved, one lemma per kind of step.                 *)

\* Steps of the broker that leave the agent alone.
LEMMA BrokerAloneInv ==
    ASSUME SystemInv, OpenSession \/ BrokerDispatch \/ HttpFails \/ AgentDead
    PROVE  SystemInv'
<1>1. /\ UNCHANGED <<agentVars, posted>>
      /\ UNCHANGED <<state, on_going_task, busy, result, accepted, crashed, fetch, installs>>
  <2>1. UNCHANGED <<agentVars, posted>>
    BY DEF OpenSession, BrokerDispatch, HttpFails, AgentDead, historyVars
  <2>2. QED
    BY <2>1 DEF agentVars, sessionVars, runnerVars
<1>2. AgentInv'
  BY <1>1, AgentStutterInv DEF SystemInv
<1>3. StoreHistory'
  BY <1>1 DEF SystemInv, StoreHistory, CrashLeavesStore
<1>4. BrokerPlace'
  <2>1. CASE OpenSession
    BY <1>1, <2>1 DEF OpenSession, SystemInv, BrokerPlace
  <2>2. CASE BrokerDispatch
    <3>1. /\ on_going_task \in Task /\ on_going_task # NoTask /\ ~busy
      BY <2>2 DEF BrokerDispatch, Idle, SystemInv, BrokerPlace, AgentInv, SessionTypeOK
    <3>2. on_going_task.command \in {"HTTP_POST", "HTTP_GET", "FINISH"}
      BY <3>1, TaskCases
    <3>3. QED
      BY <1>1, <2>2, <3>1, <3>2 DEF BrokerDispatch, SystemInv, BrokerPlace
  <2>3. CASE HttpFails \/ AgentDead
    BY <1>1, <2>3 DEF HttpFails, AgentDead, SystemInv, BrokerPlace
  <2>4. QED
    BY <2>1, <2>2, <2>3
<1>5. Reported' = Reported
  BY <1>1 DEF Reported, TypesPosted, ReportLost
<1>6. AcceptedIsReported'
  <2> SUFFICES ASSUME Closed', accepted' # <<>>, ~http_failed', ~crashed',
                      result' # "BAD_PARAMETERS"
               PROVE  Reported'
    BY DEF AcceptedIsReported, Reported
  <2>1. CASE OpenSession
    BY <1>1, <2>1 DEF OpenSession, SystemInv, BrokerPlace, ReportOwed, BeforeUpdate
  <2>2. CASE BrokerDispatch
    <3>1. on_going_task.command = "FINISH"
      BY <1>1, <2>2 DEF BrokerDispatch, Closed, Idle, SystemInv, BrokerPlace
    <3>2. state = "FINISH"
      BY <3>1 DEF SystemInv, AgentInv, TaskMatchesState
    <3>3. QED
      BY <1>1, <1>5, <3>2 DEF SystemInv, ReportOwed
  <2>3. CASE HttpFails \/ AgentDead
    BY <1>1, <2>3 DEF HttpFails, AgentDead
  <2>4. QED
    BY <2>1, <2>2, <2>3
<1>7. ReportOwed'
  BY <1>1, <1>5, <1>6 DEF SystemInv, ReportOwed
<1>8. QED
  BY <1>2, <1>3, <1>4, <1>7 DEF SystemInv

\* The options are set, and the query begins, before the broker waits.
LEMMA BrokerCommandInv ==
    ASSUME SystemInv, BrokerSetUri \/ BrokerSetList \/ BrokerQuery
    PROVE  SystemInv'
<1>1. AgentInv'
  <2>1. CASE BrokerSetUri
    BY <2>1, SetTamUriInv DEF BrokerSetUri, SystemInv
  <2>2. CASE BrokerSetList
    BY <2>2, SetTaListInv, TeepSystemAssumption DEF BrokerSetList, SystemInv
  <2>3. CASE BrokerQuery
    BY <2>3, CommandInv DEF BrokerQuery, SystemInv
  <2>4. QED
    BY <2>1, <2>2, <2>3
<1>2. UNCHANGED <<state, on_going_task, accepted, crashed, fetch, installs, posted, http_failed>>
  BY DEF BrokerSetUri, BrokerSetList, BrokerQuery, SetTamUri, SetTaList, QueryNext,
         historyVars, runnerVars
<1>3. BrokerPlace'
  BY <1>2 DEF BrokerSetUri, BrokerSetList, BrokerQuery, SetTamUri, SetTaList, QueryNext,
              SystemInv, BrokerPlace
<1>4. StoreHistory'
  BY <1>2 DEF SystemInv, StoreHistory, CrashLeavesStore
<1>5. ReportOwed'
  <2>1. broker' # "closed"
    BY DEF BrokerSetUri, BrokerSetList, BrokerQuery
  <2>2. Reported' = Reported
    BY <1>2 DEF Reported, TypesPosted, ReportLost
  <2>3. QED
    BY <1>2, <2>1, <2>2 DEF SystemInv, ReportOwed, AcceptedIsReported, Closed
<1>6. QED
  BY <1>1, <1>3, <1>4, <1>5 DEF SystemInv

\* While the agent serves the query, the broker waits.
LEMMA AgentWorksInv ==
    ASSUME SystemInv, AgentWorks
    PROVE  SystemInv'
<1>1. /\ QueryLoop /\ AgentInv
      /\ UNCHANGED <<broker, posted, http_failed>>
  BY DEF AgentWorks, historyVars, SystemInv
<1>2. AgentInv'
  BY <1>1, QueryLoopInv
<1>3. /\ busy /\ ~crashed
      /\ accepted' = accepted
      /\ busy' \/ /\ ~busy' /\ on_going_task' # NoTask
                  /\ result' \in {"SUCCESS", "BAD_PARAMETERS"}
      /\ result' # result => ~busy'
      /\ \/ state' = state
         \/ state = "INIT" /\ state' = "POSTING_INITIAL_REQUEST"
         \/ state = "INIT_RUNNER" /\ state' = "RUN_SUIT_RUNNER"
         \/ /\ state = "RUN_SUIT_RUNNER"
            /\ state' \in {"POSTING_SUCCESS", "FETCH_COMPONENT", "POSTING_ERROR"}
  BY <1>1, QueryLoopFacts
<1>4. broker = "wait" /\ broker' = "wait"
  BY <1>1, <1>3 DEF SystemInv, BrokerPlace
<1>5. BrokerPlace'
  BY <1>3, <1>4 DEF SystemInv, BrokerPlace
<1>6. StoreHistory'
  BY <1>1, QueryLoopStore DEF SystemInv
<1>7. Reported' = Reported
  BY <1>1 DEF Reported, TypesPosted, ReportLost
<1>8. ReportOwed'
  BY <1>3, <1>4, <1>7 DEF SystemInv, ReportOwed, AcceptedIsReported, Closed, BeforeUpdate
<1>9. QED
  BY <1>2, <1>5, <1>6, <1>8 DEF SystemInv

\* A message has been posted and answered.
LEMMA BrokerHttpPostInv ==
    ASSUME SystemInv, NEW m \in Message, BrokerHttpPost(m)
    PROVE  SystemInv'
<1> DEFINE sent == [type |-> on_going_task.data.type, state |-> state]
<1>1. /\ AgentInv /\ broker = "http" /\ HandleTamMessage(m) /\ AfterTaskDone
      /\ posted' = posted \cup {sent} /\ http_failed' = http_failed
  BY DEF BrokerHttpPost, SystemInv
<1>2. /\ PostDone /\ AgentInv'
      /\ on_going_task' = NoTask /\ busy' = busy
      /\ \/ /\ state' = "FINISH" /\ accepted' = accepted
            /\ result' \in {"SUCCESS", "BAD_FORMAT"}
            /\ result' = "BAD_FORMAT" => state = "POSTING_ERROR"
         \/ /\ state' = "POSTING_ERROR" /\ accepted' = accepted
            /\ result' \in {"SUCCESS", "BAD_FORMAT"}
         \/ /\ state = "POSTING_INITIAL_REQUEST" /\ state' = "POSTING_QUERY_RESPONSE"
            /\ accepted' = accepted
            /\ result' = "SUCCESS" \/ (result' = result /\ crashed')
         \/ /\ state = "POSTING_QUERY_RESPONSE" /\ result' = "SUCCESS"
            /\ \/ state' = state /\ accepted' = accepted
               \/ state' \in {"INIT_RUNNER", "POSTING_ERROR"}
  BY <1>1, MessageFacts
<1>3. /\ state \in Posting /\ ~busy /\ ~crashed
      /\ sent.state = state
      /\ state \in {"POSTING_SUCCESS", "POSTING_ERROR"} =>
            sent.type \in {"success", "error", "unbuilt"}
  BY <1>1, <1>2, PostedMessage
<1> HIDE DEF sent
<1>4. BrokerPlace'
  <2>1. broker' \in {"query", "closed"} /\ result' # "BAD_STATE"
    BY <1>1, <1>2 DEF AfterTaskDone, SystemInv, BrokerPlace
  <2>2. QED
    BY <1>2, <1>3, <2>1 DEF BrokerPlace
<1>5. StoreHistory'
  BY <1>1, MessageStore DEF SystemInv
<1>6. /\ Reported => Reported'
      /\ state \in {"POSTING_SUCCESS", "POSTING_ERROR"} => Reported'
  <2>1. /\ posted \subseteq posted' /\ sent \in posted'
        /\ TypesPosted \subseteq TypesPosted' /\ sent.type \in TypesPosted'
    BY <1>1 DEF TypesPosted
  <2>2. ReportLost => ReportLost'
    BY <2>1 DEF ReportLost
  <2>3. CASE Reported
    BY <2>1, <2>2, <2>3 DEF Reported
  <2>4. CASE state \in {"POSTING_SUCCESS", "POSTING_ERROR"}
    <3>1. CASE sent.type = "unbuilt"
      BY <1>3, <2>1, <2>4, <3>1 DEF Reported, ReportLost
    <3>2. CASE sent.type \in {"success", "error"}
      BY <2>1, <3>2 DEF Reported
    <3>3. QED
      BY <1>3, <2>4, <3>1, <3>2
  <2>5. QED
    BY <2>3, <2>4
<1>7. accepted # <<>> => state \in {"POSTING_SUCCESS", "POSTING_ERROR"}
  BY <1>3 DEF SystemInv, ReportOwed, BeforeUpdate, Posting
<1>8. ReportOwed'
  <2>1. accepted' # <<>> => state' \notin BeforeUpdate
    <3>1. CASE accepted' = accepted
      BY <1>2, <1>7, <3>1 DEF BeforeUpdate
    <3>2. CASE accepted' # accepted
      BY <1>2, <3>2 DEF BeforeUpdate
    <3>3. QED
      BY <3>1, <3>2
  <2>2. accepted' # <<>> /\ state' = "FINISH" => Reported'
    BY <1>2, <1>6, <1>7
  <2>3. AcceptedIsReported'
    <3> SUFFICES ASSUME Closed', accepted' # <<>>, ~crashed' PROVE Reported'
      BY DEF AcceptedIsReported, Reported
    <3>1. result' # "SUCCESS"
      BY <1>1 DEF AfterTaskDone, Closed
    <3>2. accepted' = accepted
      BY <1>2, <3>1
    <3>3. QED
      BY <1>6, <1>7, <3>2
  <2>4. QED
    BY <2>1, <2>2, <2>3 DEF ReportOwed
<1>9. QED
  BY <1>2, <1>4, <1>5, <1>8 DEF SystemInv

\* A component has been downloaded and stored.
LEMMA BrokerHttpGetInv ==
    ASSUME SystemInv, NEW body \in Body, BrokerHttpGet(body)
    PROVE  SystemInv'
<1>1. /\ AgentInv /\ HandleComponentDownload(body) /\ AfterTaskDone
      /\ UNCHANGED <<posted, http_failed>> /\ broker = "http"
  BY DEF BrokerHttpGet, historyVars, SystemInv
<1>2. AgentInv'
  BY <1>1, HandleComponentDownloadInv
<1>3. state = "FETCH_COMPONENT"
  BY <1>1 DEF HandleComponentDownload, AgentInv, TaskMatchesState
<1>4. /\ state' = "RUN_SUIT_RUNNER" /\ result' = "SUCCESS" /\ on_going_task' = NoTask
      /\ ~busy /\ ~crashed
      /\ UNCHANGED <<busy, accepted, crashed>>
  BY <1>1, <1>3 DEF HandleComponentDownload, StoreAndResume, Idle
<1>5. broker' = "query"
  BY <1>1, <1>4 DEF AfterTaskDone
<1>6. BrokerPlace'
  BY <1>4, <1>5 DEF BrokerPlace
<1>7. StoreHistory'
  BY <1>4 DEF StoreHistory, BeforeUpdate, CrashLeavesStore
<1>8. ReportOwed'
  BY <1>4, <1>5 DEF ReportOwed, BeforeUpdate, AcceptedIsReported, Closed
<1>9. QED
  BY <1>2, <1>6, <1>7, <1>8 DEF SystemInv

\* Every step of broker, agent, TAM and network preserves the invariant.
LEMMA SystemNextInv == SystemInv /\ [SystemNext]_systemVars => SystemInv'
<1> SUFFICES ASSUME SystemInv, [SystemNext]_systemVars PROVE SystemInv'
  OBVIOUS
<1>1. CASE SystemNext
  BY <1>1, BrokerAloneInv, BrokerCommandInv, AgentWorksInv, BrokerHttpPostInv, BrokerHttpGetInv
  DEF SystemNext
<1>2. CASE UNCHANGED systemVars
  <2>1. UNCHANGED <<agentVars, broker, posted, http_failed, state, on_going_task, fetch,
                    installs, busy, result, accepted, crashed>>
    BY <1>2 DEF systemVars, historyVars, agentVars, sessionVars, runnerVars
  <2>2. AgentInv'
    BY <2>1, AgentStutterInv DEF SystemInv
  <2>3. BrokerPlace' /\ ReportOwed' /\ StoreHistory'
    BY <2>1 DEF SystemInv, BrokerPlace, ReportOwed, AcceptedIsReported, Closed, Reported,
                ReportLost, TypesPosted, StoreHistory, CrashLeavesStore
  <2>4. QED
    BY <2>2, <2>3 DEF SystemInv
<1>3. QED
  BY <1>1, <1>2

----------------------------------------------------------------------------
(* The theorems.                                                           *)

\* The inductive invariant of the device, against every TAM.
THEOREM SystemInvariant == SystemSpec => []SystemInv
<1>1. QED
  BY SystemInitInv, SystemNextInv, PTL DEF SystemSpec

\* loop_teep never sends a command that the agent's state does not allow: the
\* agent's BAD_STATE branches are unreachable from the broker.
THEOREM BrokerAlwaysInStep == SystemSpec => []BrokerInStep
<1>1. SystemInv => BrokerInStep
  BY DEF SystemInv, BrokerPlace, BrokerInStep
<1>2. QED
  BY <1>1, SystemInvariant, PTL

\* Whatever the TAM answers, a session that accepted an Update does not close
\* without a Success or an Error having been posted.
THEOREM AcceptedAlwaysReported == SystemSpec => []AcceptedIsReported
<1>1. SystemInv => AcceptedIsReported
  BY DEF SystemInv, ReportOwed
<1>2. QED
  BY <1>1, SystemInvariant, PTL

\* Whatever makes the TA crash, it happens before the first store of the session or
\* on the copy of a uri that is longer than the task.
THEOREM CrashAlwaysLeavesStore == SystemSpec => []CrashLeavesStore
<1>1. SystemInv => CrashLeavesStore
  BY DEF SystemInv, StoreHistory
<1>2. QED
  BY <1>1, SystemInvariant, PTL

\* Under the broker's commands the session is what it is under any client's: the
\* context is authentic, the runner runs the accepted Update, each task belongs to
\* its state, and a Success follows a finished run.
THEOREM SystemKeepsAgent ==
    SystemSpec => [](ContextAuthentic /\ RunsAcceptedUpdate /\ TaskMatchesState
                        /\ SuccessAfterRun)
<1>1. SystemInv => ContextAuthentic /\ RunsAcceptedUpdate /\ TaskMatchesState /\ SuccessAfterRun
  BY DEF SystemInv, AgentInv
<1>2. QED
  BY <1>1, SystemInvariant, PTL

\* When loop_teep has returned nothing goes on: the agent is not left inside a
\* query, and no later step posts, installs or reopens the session.
THEOREM ClosedIsFinal == SystemSpec => [][broker # "closed"]_systemVars
<1>1. ASSUME SystemInv, SystemNext PROVE broker # "closed"
  <2>1. CASE AgentWorks
    <3>1. busy /\ ~crashed
      BY <1>1, <2>1, QueryLoopFacts DEF AgentWorks, SystemInv
    <3>2. QED
      BY <1>1, <3>1 DEF SystemInv, BrokerPlace
  <2>2. CASE ~AgentWorks
    BY <1>1, <2>2 DEF SystemNext, OpenSession, BrokerSetUri, BrokerSetList, BrokerQuery,
                      BrokerDispatch, BrokerHttpPost, BrokerHttpGet, HttpFails, AgentDead
  <2>3. QED
    BY <2>1, <2>2
<1>2. SystemInv /\ [SystemNext]_systemVars => [broker # "closed"]_systemVars
  BY <1>1
<1>3. QED
  BY <1>2, SystemInvariant, PTL DEF SystemSpec

----------------------------------------------------------------------------
(* What a Success says of the manifest: over every query, download and     *)
(* message of the session, the end of the run stays the one the reference  *)
(* computes.                                                               *)

\* A sequence that is not read leaves the runner at EXIT with nothing stored.
UnreadIdle ==
    manifest # NoManifest /\ ~SequenceReadable(manifest) =>
        /\ installs = <<>> /\ call = NoCall /\ ~suspended
        /\ program_counter.next = "exit"

ExecutionInv ==
    /\ ReferenceInv
    /\ UnreadIdle
    /\ state = "POSTING_SUCCESS" => ~crashed

\* A step of the session that at most crashes the TA.
LEMMA SessionStepExecution ==
    ASSUME ExecutionInv, ~crashed, state' = "POSTING_SUCCESS" => ~crashed',
           UNCHANGED <<manifest, program_counter, stack, selected, bindings, call, has_error,
                       suspended, fetch, files, installs>>
    PROVE  ExecutionInv'
<1>1. ReferenceInv'
  BY DEF ExecutionInv, ReferenceInv, Env, Ahead, Abs, LogAhead, Log, SequenceAt, SelectionKept
<1>2. UnreadIdle'
  BY DEF ExecutionInv, UnreadIdle
<1>3. QED
  BY <1>1, <1>2 DEF ExecutionInv

\* The same for a step that leaves the runner alone, in a TA that may have crashed.
LEMMA QuietExecution ==
    ASSUME ExecutionInv, UNCHANGED runnerVars,
           state' = "POSTING_SUCCESS" => state = "POSTING_SUCCESS" \/ ~crashed
    PROVE  ExecutionInv'
<1>1. ReferenceInv'
  BY ReferenceStutter DEF ExecutionInv
<1>2. UnreadIdle'
  BY DEF ExecutionInv, UnreadIdle, runnerVars
<1>3. QED
  BY <1>1, <1>2 DEF ExecutionInv, runnerVars

\* A turn of query_next_broker_task: the runner starts, steps or has returned.
LEMMA QueryLoopExecution ==
    ASSUME AgentInv, ExecutionInv, QueryLoop
    PROVE  ExecutionInv'
<1>1. CASE StepRunner
  <2>1. ~RunReturned /\ RunStep /\ state' = state /\ state = "RUN_SUIT_RUNNER"
    BY <1>1 DEF StepRunner, InLoop, sessionVars
  <2>2. ReferenceInv'
    BY <2>1, RunStepRef DEF ExecutionInv, AgentInv
  <2>3. manifest' = manifest /\ crashed' = crashed
    BY <2>1, RunStepKeeps
  <2>4. UnreadIdle'
    BY <2>1, <2>3 DEF ExecutionInv, UnreadIdle, RunReturned
  <2>5. QED
    BY <2>1, <2>2, <2>4 DEF ExecutionInv
<1>2. CASE StartRunner
  <2>1. CASE suit_context # <<>>
    <3> DEFINE m == suit_context[1].envelope.manifest
    <3>1. SuitRunnerInit(m) /\ state' = "RUN_SUIT_RUNNER"
      BY <1>2, <2>1 DEF StartRunner
    <3> HIDE DEF m
    <3>2. ReferenceInv'
      BY <3>1, SuitRunnerInitRef
    <3>3. UnreadIdle'
      BY <3>1 DEF UnreadIdle, SuitRunnerInit, ExitPC
    <3>4. QED
      BY <3>1, <3>2, <3>3 DEF ExecutionInv
  <2>2. CASE suit_context = <<>>
    BY <1>2, <2>2, SessionStepExecution DEF StartRunner, InLoop
  <2>3. QED
    BY <2>1, <2>2
<1>3. CASE LeaveInit \/ IssuePost \/ IssueFinish \/ RunnerReturned \/ QueryReturn
  <2>1. UNCHANGED runnerVars /\ ~crashed
    BY <1>3 DEF LeaveInit, IssuePost, IssueFinish, RunnerReturned, QueryReturn, InLoop
  <2>2. QED
    BY <2>1, QuietExecution
<1>4. CASE IssueGet
  BY <1>4, SessionStepExecution DEF IssueGet, InLoop
<1>5. QED
  BY <1>1, <1>2, <1>3, <1>4 DEF QueryLoop

\* A download resumes the run that waits for it.
LEMMA DownloadExecution ==
    ASSUME AgentInv, ExecutionInv, NEW body \in Body, HandleComponentDownload(body)
    PROVE  ExecutionInv'
<1>1. state = "FETCH_COMPONENT" /\ Suspended
  BY DEF HandleComponentDownload, AgentInv, TaskMatchesState
<1>2. StoreAndResume(body) /\ state' = "RUN_SUIT_RUNNER"
  BY <1>1 DEF HandleComponentDownload
<1>3. ReferenceInv'
  BY <1>1, <1>2, StoreAndResumeRef DEF ExecutionInv, AgentInv
<1>4. suspended /\ manifest' = manifest
  BY <1>1, <1>2 DEF Suspended, StoreAndResume
<1>5. UnreadIdle'
  BY <1>4 DEF ExecutionInv, UnreadIdle
<1>6. QED
  BY <1>2, <1>3, <1>5 DEF ExecutionInv

\* No answer of the TAM touches the run.
LEMMA MessageExecution ==
    ASSUME ExecutionInv, NEW m, HandleTamMessage(m)
    PROVE  ExecutionInv'
<1>1. ~crashed
  BY DEF HandleTamMessage, EndSession, RejectMessage, HandleQueryRequest,
         QueryRequestNotCopied, UpdateNotStored, UpdateStored, PostDone, Idle
<1>2. state' # "POSTING_SUCCESS"
  BY DEF HandleTamMessage, EndSession, RejectMessage, HandleQueryRequest,
         QueryRequestNotCopied, UpdateNotStored, UpdateStored, Expected
<1>3. UNCHANGED <<manifest, program_counter, stack, selected, bindings, call, has_error,
                  suspended, fetch, files, installs>>
  BY DEF HandleTamMessage, EndSession, RejectMessage, HandleQueryRequest,
         QueryRequestNotCopied, UpdateNotStored, UpdateStored, runnerVars
<1>4. QED
  BY <1>1, <1>2, <1>3, SessionStepExecution

\* Every step of the device keeps the end of the run.
LEMMA SystemNextExecution ==
    ASSUME SystemInv, ExecutionInv, [SystemNext]_systemVars
    PROVE  ExecutionInv'
<1>1. CASE AgentWorks
  BY <1>1, QueryLoopExecution DEF AgentWorks, SystemInv
<1>2. CASE \E body \in Body : BrokerHttpGet(body)
  BY <1>2, DownloadExecution DEF BrokerHttpGet, SystemInv
<1>3. CASE \E m \in Message : BrokerHttpPost(m)
  BY <1>3, MessageExecution DEF BrokerHttpPost
<1>4. CASE OpenSession \/ BrokerDispatch \/ HttpFails \/ AgentDead \/ UNCHANGED systemVars
  <2>1. UNCHANGED agentVars
    BY <1>4 DEF OpenSession, BrokerDispatch, HttpFails, AgentDead, systemVars
  <2>2. UNCHANGED runnerVars /\ state' = state
    BY <2>1 DEF agentVars, sessionVars
  <2>3. QED
    BY <2>2, QuietExecution
<1>5. CASE BrokerSetUri \/ BrokerSetList \/ BrokerQuery
  <2>1. UNCHANGED runnerVars /\ state' = state
    BY <1>5 DEF BrokerSetUri, BrokerSetList, BrokerQuery, SetTamUri, SetTaList, QueryNext
  <2>2. QED
    BY <2>1, QuietExecution
<1>6. QED
  BY <1>1, <1>2, <1>3, <1>4, <1>5 DEF SystemNext

\* For every manifest and on every platform: the device posts a Success only when
\* it has executed the last manifest of the accepted Update as the reference does,
\* store by store, and the reference succeeds.
THEOREM SuccessIsExecuted == SystemSpec => []SuccessMeansExecuted
<1>1. SystemInit => ExecutionInv
  BY ReferenceInit DEF SystemInit, AgentInit, RunnerInit, ExecutionInv, UnreadIdle
<1>2. SystemInv /\ ExecutionInv /\ [SystemNext]_systemVars => ExecutionInv'
  BY SystemNextExecution
<1>3. SystemInv /\ ExecutionInv => SuccessMeansExecuted
  <2> SUFFICES ASSUME SystemInv, ExecutionInv, state = "POSTING_SUCCESS"
               PROVE  SuccessMeansExecuted
    BY DEF SuccessMeansExecuted
  <2>1. /\ manifest # NoManifest /\ ~has_error /\ ~suspended /\ ~crashed
        /\ call = NoCall /\ program_counter.next = "exit"
    BY DEF SystemInv, AgentInv, SuccessAfterRun, Finished, ExecutionInv
  <2>2. manifest = accepted[Len(accepted)].manifest
    BY <2>1 DEF SystemInv, AgentInv, RunsAcceptedUpdate
  <2>3. CASE SequenceReadable(manifest)
    <3>1. Ended /\ RunsAsReference
      BY <2>1, EndIsReference DEF Ended, RunReturned, SystemInv, AgentInv, ExecutionInv
    <3>2. has_error = ~RefRun(manifest, "site").ok /\ Log = RefRun(manifest, "site").log
      BY <2>3, <3>1 DEF RunsAsReference
    <3>3. QED
      BY <2>1, <2>2, <2>3, <3>2 DEF SuccessMeansExecuted
  <2>4. CASE ~SequenceReadable(manifest)
    BY <2>1, <2>2, <2>4 DEF SuccessMeansExecuted, ExecutionInv, UnreadIdle
  <2>5. QED
    BY <2>3, <2>4
<1>4. QED
  BY <1>1, <1>2, <1>3, SystemInvariant, PTL DEF SystemSpec

=============================================================================
