# Verification of teep-device

TLA+ models of the TEEP Agent, its message codec, the SUIT parser and command
runner, the TEEP Broker, its HTTP client and the TEE client shims of this
repository, checked with TLC on small instances and, in every component, proved
with TLAPS for every value of the constants as far as the prover reaches.

## The system

A device asks a Trusted Application Manager (TAM) what to install. The **TEEP
Broker** runs outside the TEE and moves bytes; the **TEEP Agent** runs inside it
and decides. The broker opens a session with the agent, sets two developer
options, and then loops: ask the agent for the next task (POST a message, GET a
component, FINISH), do it over HTTP, report the answer back. The agent answers
the TAM's QueryRequest, authenticates the SUIT envelopes of an Update, runs the
install sequence of the root manifest, and posts Success or Error.

| Component (source) | State | Operations | Interacts with |
|---|---|---|---|
| TEEP Agent session (`teep-agent-ta/teep-agent-ta.c`) | agent state, task handed out, token, options, two global envelope buffers, parsed context | SET_DEV_OPTION, QUERY_NEXT_BROKER_TASK, BROKER_TASK_DONE | called by the broker; drives the runner; stores components |
| SUIT runner (`lib/suit/lib/suit.c`) | program counter, stack, selection, bindings, error and suspend flags | init, run, suspend, resume, the command handlers | calls `store` and `fetch_and_store` of the agent |
| SUIT context and parser (`suit-context.c`, `suit-parser.c`) | up to 8 parsed manifests, ranges into the envelope buffers | authenticate, add, look up a field | agent, runner |
| Component store (`ta-store.c`) | files named by uuid | `store_component`, one body per platform | agent, runner callbacks |
| TEEP Broker (`teep-broker-app/teep-broker.c`) | its place in `loop_teep` | options, query, POST, GET | agent through TEEC calls, HTTP client |
| HTTP client (`http-lws.c`) | one request with callbacks | `http_get`, `http_post` | broker |
| TEEC shims (`teec-*.c*`) | Keystone: a command queue between two threads | open, invoke, close | broker, agent |
| TEEP codec (`lib/teep`), CBOR reader (`lib/cbor`, `teecbor.h`) | cursors | parse, encode, skip | agent, parser |
| COSE adapter, logging, utilities, sample component | none of the protocol's | | |

What is hard here: a manifest is interpreted in pieces, with a suspension at each
download and arbitrary answers in between; buffers are global while the manifests
that point into them belong to a session; on Keystone every call crosses two
threads that share one condition variable, and buffers are copied without a lock;
an HTTP response comes in pieces and through callbacks in many orders; results of fallible steps (malloc, file
writes, initialisation, message building) are often dropped; the broker's loop
ends on codes the agent uses for something else; nested input is skipped by
counting, with numbers the input supplies, and fields are looked up again for every
use; and a TAM may say anything at any time. `PROJECT.json` lists these hazards line by line, each with the properties
that would catch it.

What makes each part correct: the **runner** performs exactly the stores a plain
reading of the manifest asks for, once each and in order, stays within its arrays,
and ends; the **agent** runs only authenticated manifests of the Update it
accepted, hands out one task at a time, and reports one final outcome; the
**store** changes only the file of the component it is called for; **broker and agent** stay in
step and the session ends; a **shim** makes one call of the TA out of whatever
copies and threads it uses; the **codec** takes the messages that fit its
structures, and nothing else, and frees what it allocates; the **parser** executes
the manifest that was signed; the **HTTP client** calls a response complete only when
it is.

## Modules

| Module | Models |
|---|---|
| `TaStore` | the store as a function from names to blocks; `StoreComponent` is the set of stores a call can leave behind, on each platform and with failures |
| `SuitRunner` (extends `TaStore`) | the runner and the agent's callbacks; one action per branch of `run_sequence_step` and `run_command_step` and one per handler |
| `SuitReference` (extends `SuitRunner`) | what running a manifest means: a reference that executes it command by command, with no stack, no calls and no suspensions |
| `TeepProtocol` | abstract specification: phases, and one outstanding task |
| `TeepAgent` (extends `SuitRunner`) | a session under the most general client; one action per command, one per turn of the query loop |
| `TeepSystem` (extends `TeepAgent` and `SuitReference`) | the broker in place of the general client, an arbitrary TAM, failing HTTP |
| `TeecParams` | parameters of a TEEC call: their copies in both directions, and what the agent's entry point may answer |
| `TeecCall` (extends `TeecParams`) | abstract specification: invoke, serve, return, and a TA that dies |
| `TeecDirect` (extends `TeecParams`) | the PC and SGX shims with the SGX ecalls |
| `KeystoneQueue` (extends `TeecParams`) | `CommandQueue` between the client's thread and `eapp_entry` |
| `HttpClient` | one `http_get` or `http_post`, its callbacks and event loop |
| `TeepMessage` | `parse_teep_message` on one message, item by item; the hand-over to the session; the sizes of the messages that are built |
| `TeepItems` (extends `TeepMessage`) | what a message says, read off its items at once: where options start and end, which are stored, what the members then hold |
| `TeeCbor` | the CBOR reader: contexts, typed reads, skipping |
| `SuitParser` (extends `TeeCbor`) | the life of one envelope: authenticate, add, look a payload up, read a command sequence |
| `SuitItems` (extends `SuitParser`) | what the bytes of an envelope mean: items, pairs, the commands of a sequence, the value under a key, with no cursor and no counter that wraps |
| `MC...` | small instances, one for each specification; `MCTeepMessage` also holds the messages as trees and what they mean, `MCSuitParser` a recursive decoder of envelopes |
| `SuitRunnerProofs`, `TeepSystemProofs` (extends it), `TeecParamsProofs`, `TeecDirectProofs` and `KeystoneQueueProofs` (extend it), `HttpClientProofs`, `TeepMessageProofs`, `SuitParserProofs` | the theorems; `TeepSystemProofs` has those of the agent and of the composed system |

Operators whose comment begins "Mutant:" are deliberate faults of the definition
that follows them; substituting one must break the property `PROJECT.json` names.

### How state and actions correspond to the code

*Runner.* `program_counter` and `stack` are `suit_continuation_t` values: EXIT, a
pair of command sequences (common first, then install), or a command with its
remaining targets. A handler call is a step of its own (`call`), since
`directive_set_parameters` loops over its map; the code's increment of the target
index after the handler is done when the call is made, which nothing can observe.
`bindings` is keyed, as in the code, by the address of the caller's local
`suit_object_t`: the constant `Frame` gives the address at each of the three call
sites, and may be any function, since the compiler decides. `has_error`,
`suspended` and the session's `fetch_uri` and `fetch_component_path` (`fetch`) are
the code's. `crashed` marks the use of memory that is not the program's to use; nothing
happens after it. `installs` records the `store_component` calls. A binder keeps the
key as the enum `suit_parameter_key_t` does, modulo `KEY_LIMIT`, while `LookupBinder`
looks for the key of the manifest, as wide as it is: a wide key is never found, takes a
new binder each time, and can even pass for a key of the specification (see the
observations). A field of the envelope that a local uri names may be `NotBstr`, no byte
string, and then the fetch fails.

CBOR is modelled decoded in these modules; `SuitParser` is about the decoding. An item that is not an unsigned integer where one is
expected is a negative number; "junk" is a command without a handler and every
item that is no command; a component id keeps how each fixed name compares with
its literal, because `parse_component_id` compares over the length of the *given*
name and so accepts prefixes. Condition handlers and process-dependency accept
everything (`parse_rep_policy` returns true), hence `NoOperation`.

*Agent.* `state` and `on_going_task` are the session's fields. An Update is one
action with the outcomes of its two loops: `UpdateNotStored` (an envelope is
refused, or malloc fails after the old buffer was freed) and `UpdateStored` (k
envelopes are added, in reverse, before one is refused). `suit_manifests` keeps
for each global buffer whether it is null, live or freed; a context entry names
the buffer it points into. A session comes from `malloc` uncleared, so the two uri
buffers start with arbitrary contents: `tam_uri` may be "full" (no null byte among
the bytes `strncpy` copies) and `uri_terminated` says whether the last byte of the
task's uri is null. A client is assumed to bring buffers of the broker's sizes.

Where the code steps outside its memory the model takes every outcome. A fetch uri is
copied into the task at its full length: one of `LongUri` runs on into `post_data` and
is then refused by `copyout_param`; one of `WildUri` is longer than the whole task and
runs on into the session, whose next member is the token, and `IssueGet` leaves any
token or a crashed TA. An option of no bytes makes the handler read the byte before it
(`ReadBeforeOption`, and `LastByte` in `TeecParams`): a fault, a refusal, or an option
that is set. A message that does not fit `post_data` is not built, and since the
results of `build_*` are dropped, what is posted in its place is `Unbuilt`: the old
contents of the buffer and a part of the message. `TooLong` says which messages do not
fit; `TeepMessage` says it in bytes.

*Broker.* `broker` is the place in `loop_teep`; each TEEC call is a client action
of the agent, and while the agent serves a query the broker waits. `posted`,
`last_reply`, `update_received` and `http_failed` are history;
`posted` keeps for each POST the type of its message and the state that asked for it. A TEEC call and an HTTP
request are atomic here; what they do inside is the subject of the next modules.
In `TeepSystem` a crashed TA ends the session (`AgentDead`), as it does on PC; the
findings say what happens on SGX and Keystone.

*Shims.* A parameter is a record of a value, a buffer and a size. `TeecDirect` has
one step for the way in, one for the entry point and one for the way back; PC copies
outputs back after a success only, SGX always, and `TeecCall` allows both.
`CHECK_UNIQUE_POINTER` is left out: the buffers of a client are outside the enclave.
In `KeystoneQueue` a step is a critical section, an ocall, or the `notify_one` after
an unlock; `sleeping` is the wait set of the condition variable, from which a
thread may also wake by itself. `called` is history: the operation as the client
gave it, which the refinement mapping shows while the enclave writes into the real
one. `op_set` stands for `current.operation`, which EXIT leaves null.

*HTTP client.* `wsi` is the connection as libwebsockets sees it and decides which
callback may come next; `result` is the field the callbacks set. The two callbacks
differ in their treatment of the status code: a download insists on 200, a POST
takes every response and is done at once with 204, so the broker may be given the
body of an error page. GET's branch for a writeable connection never runs, since
nothing asks for it. libwebsockets is taken to report completion only after the
whole body, and to return NULL when it reports an error while connecting.

*Codec.* A message is the stream of items QCBOR returns, each with its label, its
type and the nesting level of the item that follows. `pos` counts the items read,
`todo` the options left; `level` and `nest_level` are the variables of the loop that
skips an option. `ptr` and `live` are the array members of `struct teep_message` and
the blocks allocated for them: every array is allocated before its items are read,
so every error leaves something to free. `malloc` may fail, and `malloc(0)` may
return NULL even with `MallocMayFail = FALSE`, as C allows. A value that is refused
in the middle ends the message at once, so the decoder's place in it is not kept.
The encoder is modelled by the length of what it writes: CBOR heads of 1, 2 or 3
bytes, strings, and the brackets of the three lists.

*CBOR reader and SUIT parser.* Bytes are sequences of heads in pre-order, a byte
string carrying the heads inside it. What the decoder of a single head refuses (cut
off, reserved, indefinite length) is one head of type `Unreadable`. Counts are
numbers below `Modulus` and wrap around. A context is the code's: cursor, index,
count. `PrimitiveSkip` is a function over the position because the code's loop has
no stack: nesting exists only in the number of items left. Each `while` over a
context is `Loop` with an operator for its turn. A signature names what it signs and
the digest of a byte string is the byte string itself, wrapped (`CoseVerifies`,
`Sha256`, external). `manifest` holds the members of `suit_manifest_t` that were
set. The runner reads its sequences itself (`SuitRunner`); the command reader of the
parser is used by `example/dump.cpp`.

## Runs

| Run | Question | Result |
|---|---|---|
| `suit_runner` (`MCSuitRunner.cfg`) | all sequences of up to 2 commands over 22 commands under 3 common sequences, up to 4 over a core of 6, about 1,900 longer manifests with two fetches, and manifests with wide keys | the stores and the outcome equal the reference (`RunsAsReference`), the stack and the binders stay in shape, only declared components change, every run ends |
| `teep_agent` (`MCTeepAgent.cfg`) | any command at any time, any answer, failing malloc and file system, messages and uris that do not fit | only authenticated envelopes run, tasks match states, the report is final, and the session implements `TeepProtocol` |
| `teep_system` (`MCTeepSystem.cfg`) | broker and agent against any TAM, failing malloc, messages and uris that do not fit | in step, accepted Updates are reported, a crash comes before the first store, Success means executed as the reference executes it, sessions end |
| `teec_direct` (`MCTeecDirect.cfg`) | the PC and SGX shims, a failing session, a dying TA | outputs fit the client's buffers, and both implement `TeecCall` |
| `keystone_queue` (`MCKeystoneQueue.cfg`) | two threads, spurious wakeups, buffers of 0 to 2 chunks | unlocked copies are exclusive, no lost wakeup, the queue implements `TeecCall`, calls return unless the TA dies |
| `http_client` (`MCHttpClient.cfg`) | any response in any pieces, errors and closes at any time | no overrun, success means complete, failures stay, a lost connection ends the call |
| `teep_message` (`MCTeepMessage.cfg`) | messages of every type with every option alone and ten of them in pairs, cut short, followed by more, with failing malloc | what is accepted fits the structures and means what was stored, and what fits is accepted, against trees (`AcceptedAsTree`) and against items (`AcceptedAsItems`); nothing leaks, the parser returns, a QueryResponse brings the token back, the answers fit |
| `suit_parser` (`MCSuitParser.cfg`) | envelopes with up to three arbitrary fields or two after a good pair, 21 wrappers, 335 manifests | the outcome is that of the recursive decoder, the executed manifest was signed, sequences and payloads are what the items of the envelope say, the lists of a manifest fit its arrays |
| `update_reported`, `error_relayed` | statements of the documents | violated: see the findings |
| `parameters`, `unknown_option` | comments of the runner and of the codec | violated: see the findings |

**Bounds.** Two components, images of one and two blocks (a shorter image after a
longer one, so that truncation matters), two remote and three local uris, of which
one is missing from the envelope and one names a field that is no byte string.
`KEY_LIMIT = 32` stands for the 2^32 values of the enum, with the key of the uri, 21,
and the wide key 32 + 21. `SUIT_BINDER_MAX = 2` so that three parameters overflow it;
`SUIT_STACK_MAX = 2` because the runner never needs more, which `StackShape` shows and
the proof confirms for every larger value.
`TEEP_MAX_URI_LEN = 4` with uris of 2, 3 and 4 characters: below, at and above the
edge. Updates have up to three envelopes, one more than there are buffers. In the
agent's run the QueryResponse that lists a component does not fit `post_data`, in the
system's no message that carries one of the three tokens does; one download has a wild
uri, in the system after a first store. The store may fail in all three runs; the
system's is that of Keystone, which does not truncate, the other two have the PC's.
`SUIT_MANIFEST_MAX` keeps its value of 8; two buffers cannot fill the context.
The runner is checked with two addresses for its three call sites, so both
sharing and separation of bindings happen.

The shims are called with the broker's three operations and one of other types,
buffers that are large enough for some tasks and not for others, and all four kinds
of command. `ChunkSize = 2` with buffers of 0 to 4 bytes covers an empty buffer, part
of a chunk, one, one and a part, and two. Calls repeat without a bound. Responses of
0 to 4 bytes meet a buffer of 3, in pieces of every size.

`UINT32_LIMIT` is small, so that values below, at and above it are cheap to tell
apart; `POST_DATA_LEN` keeps its 2048, with tokens and lists on both sides of the
limits `SafeToken` and `SafeRequests`. `Modulus = 256` and `INT_MAX = 31` stand for
64 and 32 bits: counts of 255 and 128 wrap around, and the values within 32 of the
top are the ones `tcbor_read_int` misreads. Two components and one dependency fit
into a manifest, three and two do not. In the codec and the parser a behaviour is the
life of one message or envelope, so the initial states are the inputs.

`CHECK_DEADLOCK FALSE` in all runs: a message that was handled, a finished runner, a crashed TA, a closed
broker or session and a returned request really stop. That the two Keystone threads
do not block each other is a property of its own, `NeverBothAsleep`.

**Fairness.** The runner's run assumes weak fairness of its steps together with
the arrival of the download: `suit_runner_run` is a loop of one thread, and a
broker that gives up ends the session rather than leaving the runner half-way. The
system's run assumes weak fairness of the whole next-state relation: broker and
agent are one thread of control and an HTTP request ends with an answer or an
error. No fairness is assumed between choices, so the TAM may repeat itself for
ever; `SessionEnds` therefore has the exception it has. The Keystone queue assumes
weak fairness of each of its two threads, which the operating system schedules, and
none of spurious wakeups or of new calls. The HTTP client assumes only that
`lws_service` returns, which its timeout of a second ensures; nothing is asked of the
server, so a silent server can keep a call waiting, as in the code. The codec's run
assumes weak fairness of the parser's steps: it is a loop that waits for nothing.

## Findings

1. **A refused Update is not reported** (`update_reported`): an envelope that fails
   authentication makes the agent post its QueryResponse again.
2. **Error messages are lost** (`error_relayed`): BAD_FORMAT ends the broker's loop
   while the agent waits to post the Error.
3. **Parameters leak between components** (`parameters`): bindings are keyed by the
   address of a local variable, the same for every component that a call site handles.
   A uri set for component 0 is used by the fetch for component 1, for which none was
   set.
4. **An unknown option at the end of the map is not skipped** (`unknown_option`): the
   loop waits for a nesting level that only another option would bring back. The
   message is refused or, when an array follows the map, read on inside that array:
   a QueryRequest `[1, {99: 0}, [5]]` is accepted with 5 as its data items, which is
   why `AcceptedAsTree` leaves such messages out. `AcceptedAsItems` does not: it has the
   level comparison of the code, and says what follows from it.

Observations that no run of their own records:

- When the install sequence cannot be read, `suit_runner_init` returns with the program
  counter at EXIT and no error marked, so the run counts as finished
  (`SuitRunnerInit`, `Finished`) and the agent posts a Success, where `teesuit.h:233`
  has a run return "when all command has executed successfully". `SuccessMeansExecuted`
  allows it for such a sequence, and says that nothing was stored.
- Success and Error carry the token of the QueryRequest (`PostForState`), where
  `docs/senario1.txt` (lines 14 and 23) shows a Success with the token of the Update it
  answers. The session never looks at the token of an Update (`UpdateStored`).
- A store that fails, at the open or half-way through the write (`FailedWrites`), ends
  in a Success: the results of `store_component` are dropped in the store callback and
  in `handle_component_download`. So a Success says that the manifest was executed
  (`SuccessMeansExecuted`), not that the files hold its images.
- Keystone and SGX open a component's file without O_TRUNC, so an image that is shorter
  than the one it replaces keeps the end of it (`Written`), with no failure at all.
- A parameter key of more than 32 bits is stored cut off and looked for in full: it is
  never found, every setting of it takes a binder, and 2^32 + 21 is found by the fetch
  as the uri if no uri was set before it. `BinderUnique` says what remains true, and
  `SuitReference` treats such keys the same way, since no document says what they mean.
- A QueryRequest with no token is answered with an empty token where `malloc(0)` returns
  a block, and one with an empty token with none where it returns NULL (`Echoes`).
- The copy of an overlong fetch uri overruns `uri` at 512 bytes and the whole task
  at some 2,570 (`IssueGet`); an option of no bytes is read at its byte -1.
- A local uri that names no field of the envelope installs an empty image
  (`EnvelopeField`, `FetchLocal`).
- On SGX TEEC_OpenSession succeeds without a session, and a command that ends with
  the death of the enclave returns TEEC_SUCCESS (`OpenSession`, `TaDies` and
  `InvokeDead` of `TeecDirect`).
- On Keystone a command during which the enclave dies never returns: only the enclave
  resets the flag the client waits for. `CallReturns` fails without its exception.
- When `lws_service` fails the HTTP call returns 0 with the part of the body that had
  arrived, because TR_ONGOING is not negative. `SuccessIsComplete` fails without its
  exception `broken`.
- `parse_tc_info_array` has no `break` after HAVE_BINARY, so a tc-info with it is
  refused; arrays and maps of indefinite length are refused; an empty array is refused
  where `malloc(0)` returns NULL; an array option that comes twice leaks the block of
  the first (`Unsupported` of `MCTeepMessage`, `Twice` of `TeepMessage`).
- The agent's own tc-list is a list of text strings, which its parser would refuse.
- 16 components of 127 characters, or a token of 57 bytes with 15 of them, do not fit
  `post_data`, and the uninitialised rest of the buffer is then posted (`Built`).
- A map key that is itself an array or a map is read as one head, and the map is then
  read out of step (`ContainerKey` of `MCSuitParser`; the same holds in manifests). An
  unsigned algorithm number of 2^64 - 16 passes for SHA-256 (`WrappedAlgorithm`).
  Neither lets an unsigned manifest through: `RunsSignedManifest` has no exception.
- What follows the map of an envelope or of a manifest is ignored.

## Proofs

Checked by TLAPS with the assumptions named in the modules (`TaStoreAssumption`,
`SuitRunnerAssumption`, `ManifestAssumption`, `TeepAgentAssumption`,
`EnvelopeAssumption`, `MessageAssumption`, `TeepSystemAssumption`,
`TeecParamsAssumption`, `TeecDirectAssumption`, `KeystoneQueueAssumption`,
`HttpClientAssumption`, `TeepMessageAssumption`, `TeeCborAssumption`,
`SuitParserAssumption`): types of the constants, distinctness of the special values,
and `SUIT_STACK_MAX >= 2`. TLC evaluates them in every run. Among the types are that
a client's size field does not exceed the buffer it points to (`Param`), that an id
of a request is a string in `char id[128]` (`RequestType`), and that whatever a byte
string holds is a sequence of heads again (`CborHead`).

*Runner.* `RunnerInv` is the conjunction of `RunnerTypeOK`, `StackShape`,
`BinderUnique`, `SuspendedOnComponent` and `CallsOnObject`. None of them is
inductive alone: a pop restores what the stack holds, so the shape of the stack
needs its type; a fetch may suspend on a path only because its call is on an
existing object of the running manifest; and a call exists only while nothing is
suspended. One lemma per action shows that it preserves `RunnerInv`; the theorems
are its conjuncts. `StoresOnlyDeclared` follows from it for every step.

`RunsExactly` compares the runner with `SuitReference` for every manifest, every
answer and every assignment of addresses to the call sites. The idea is
that the reference can be resumed anywhere: `ReferenceInv` computes, from the program
counter, the stack, the call under way, the bindings and the stores so far, where a
reference run that continued from here would end, and says that this is where the run of
the whole manifest ends. Each action consumes one turn of one of the reference's nested
loops (commands, targets, map entries), so the value does not change; a suspension is a
fetch that has not been logged yet. When the runner has returned nothing is left to
continue, and the two ends are the same.

*Agent.* `AgentInv` adds to `RunnerInv` the session's types, `SessionPhase` (which
state implies what about context, manifest and suspension), `ContextOrder` (the
first entry of the context is the last envelope of the accepted Update) and the
properties themselves. `SessionPhase` is what makes them inductive: an Update is
only accepted while the context is still empty, so replacing buffers can never
pull one from under a manifest, and the runner is only started once. The refinement
theorem `AgentImplementsProtocol` maps every step to a step of `TeepProtocol` or a
stutter; `ReportAlwaysFinal` is an action property.

*Composed system.* `SystemInv` adds to `AgentInv` three parts. `BrokerPlace` says for
each place in `loop_teep` whether the agent has a task, which one, and which results
of a command can have led there; that no command is refused with BAD_STATE is part of
it and follows from the rest. `ReportOwed` says that a session with an accepted Update
has left the states in which one is awaited, for good, and that it has reported when it
is in FINISH, unless the report was lost because it did not fit; `StoreHistory` says that
nothing is stored before the runner starts, so that the crashes of the message handlers
and of `suit_runner_init` find an empty store, and that only the copy of a wild uri can
crash a session later. The invariants of the run and `ClosedIsFinal` follow.
`SuccessIsExecuted` brings the runner's theorem into the session: when the agent posts
Success, the stores since the start of the session are those of a reference run of the
root manifest of the accepted Update, which succeeds. Its invariant `ExecutionInv` adds to
`ReferenceInv` that a manifest whose sequences cannot be read stores nothing, and that a
session that posts Success has not crashed; that the manifest is that root is
`RunsAcceptedUpdate`, which the agent's invariant has.

*Shims.* Both refine `TeecCall`: every step of the detailed specification is a step of
the abstract one or a stutter, for all operations, tasks and buffer sizes.
`TeecDirect` needs `CopyOfOperation`: while a call is under way the client's operation
is untouched and the TA's parameters come from it. `OutputsAlwaysFit` follows, with
the lemmas of `TeecParamsProofs` on what `copyout_param` may do to a size.

*Keystone queue.* `NeverBothAsleep` is not inductive: that a sleeper will be woken
depends on which thread may touch the flag next. The invariant `HandOver` of
`KeystoneQueueProofs` says, for each place of the enclave, where the client is, what
the flag says, that the enclave's copy is the command in the queue, and who may
sleep: the flag is handed to and fro like a token. `OperationExclusive` and
`NoDeadlock` follow from it for every chunk size and operation. `DataInv` adds what
the chunked copies have done so far: before position (index, offset) the enclave's
parameters equal those of the client's operation on the way in, and on the way back
the operation's buffers hold the outputs before it and what they held after it. With
it the last chunk makes the whole call one step of `TeecCall`
(`KeystoneImplementsCall`).

*HTTP client.* `HttpInv` adds to the buffer property which results go with which
phase of the connection: OKAY is set only when everything received has been copied
and nothing is missing, or for a 204, which has no body. `FailureIsFinal` is an
action property: no callback is enabled that would overwrite a failure by a success.

*Codec.* `LeakInv` relates the pointers of the message, the live blocks and the items
read: a member that is not NULL has a live block, a block without its pointer belongs
to a label that two items of the input carry, and the members that can have a pointer
in a message of some type are those `free_parsed_teep_message` frees for it, a fact
about two tables of the code. That two items are two needs that the parser only moves
forward, hence the lemmas that a value never ends before it starts. `NeverLeaks`
holds for every message and every pattern of failing allocations. `AnswersFit` has
the hypothesis `POST_DATA_LEN >= 2048`, the size in the code; a component takes at most
132 bytes. `TokenIsReceived` follows the token from an item of the message through
`m`, the session's copy and the release of `m` to every answer, an Error included.

`MessagesReadExactly` compares the parser with `TeepItems`. Its invariant `WalkInv` says
for each phase where on the row of options the decoder stands: between two of them all
before are read and the members hold the last of each label (`HoldsOptions`), inside a
skipped one no item so far was its last. An option that cannot be one spoils the rest of
the row (`BadOptionStays`), so the parser may stop at the first; an option that is skipped
has one end only. The theorem is an equivalence: a message is refused only if it is not
well formed or there was no memory for it. The values of single options (`ValueEnd`,
`Value`) are shared with the model; that they decode nested arrays and maps as they should
is the part `AcceptedAsTree` checks. `TokenIsEchoed` carries the result on to the
QueryResponse: the token it bears is that of the last token option of the QueryRequest,
and if that has none, or an empty one, none or an empty one.

*CBOR reader and parser.* `SkipCountExact` follows from a lemma about the addition
with its test for overflow: below `Modulus`, a sum that wraps is less than its first
term, and only then. `SkipExact` lifts it to the whole loop: the counter of
`tcbor_primitive_skip` agrees with `ItemsLeft`, the true number with no bound, until an
unreadable head or an overflow, so a skip that succeeds stops after exactly the items
asked for (`Passed`), and one that could succeed does. `ReadIntSound` compares the two
conversions: a result that is not the encoded integer converts back to a value within
`INT_MAX + 1` of the top. `ExecutesAuthenticated` is about the envelope's heads alone
(`ExecutesSigned`): there are a wrapper and a manifest under their keys, every block of
the wrapper verifies its digest, there is at least one, the digest is that of the
manifest, and this manifest is what was parsed. It rests on an invariant of each loop:
a lookup holds a byte string that directly follows the key (`Lookup`), and after i
turns the blocks before the cursor have verified and the cursor is at the end or has
moved i times (`Blocks`), so the bound on the turns in `Loop` cuts nothing off. That
both lookups of the manifest give the same bytes is the state invariant
`FromAuthenticated`. `PayloadIsField` says of payloads what is said of the manifest.

The reader against `SuitItems`: a cursor that reads or skips an item moves past exactly
the heads of that item, so the cursor after k turns of a loop stands where `PairsOf` puts
the k-th pair, or an error has been met and no later turn undoes it. For commands
this is a state invariant (`ReadsInOrder`): the reader has read the first k commands of a
sequence, stands at the k-th pair, and k is less than the array's count.
`SequencesReadExactly` follows, in both directions: what is read to its end are
the commands of a sequence, and an error means that it has no meaning. For a lookup,
`PassedEntries` says after k turns that the entries so far could be read and that the
value held is that of the last hit among them; `GetFieldExact` concludes that it returns
`ValueOf`, the null range and failure included, and `PayloadsFoundExactly` is its use
for local uris. `LoopEnds` shows by the length left that no loop is cut off by the
bound it is modelled with. `ListsAlwaysFit` follows the members of a manifest through
`ParseManifest`: each field has the type its key stands for, whatever the
order of the keys and their repetitions, and a list is refused before an element beyond
its array is stored.

*Recursive functions and loops.* The library's induction rules cannot be used here, but
its least-element theorem can: `SetInduction` proves that a set with 0 and closed under
successor has all naturals, and takes the place of a rule with a predicate parameter.
From it follow the existence of the functions that `LET f[i] == ...` defines
(`RecursionExists`, `TurnsExist`), without which nothing is known of them, and their
invariants.

*Only model-checked.*

- Liveness (`RunEnds`, `SessionEnds`, `CallReturns`, `GoneMeansReturned`,
  `ParseReturns`): fairness and ENABLED are out of the prover's reach.
- The comparisons with recursive references. `AcceptedAsTree` speaks of messages as
  trees, `RunsSignedManifest` and `AcceptedAsReference` of a decoder of nested byte
  strings; both are RECURSIVE operators, which the prover does not take, and they are
  of use because they are written that way. What the theorems say without them:
  `MessagesReadExactly`, `SkipExact`, `ExecutesAuthenticated`, `SequencesReadExactly`
  and `PayloadsFoundExactly`.

## Not modelled

- The bytes of a CBOR head, the error codes of contexts (nobody looks at them), and
  the QCBOR library.
- Signatures and digests: `lib/cose` is an adapter to mbedTLS without a state of its
  own.
- `suit_parse_authentication_wrapper`, `suit_envelope_get_severed` and
  `suit_command_sequence_read_reppolicy`, which have no caller.
- libwebsockets beyond the order of its callbacks, the bytes of `post_data` that an
  overlong fetch uri overwrites, leaks other than the codec's (the context of every request, the
  parameter copies of a failed command), logging, the OP-TEE client library.
- A second session over the global `suit_manifests`: the PC, SGX and Keystone shims
  hold one session in a static variable and the broker opens one; on OP-TEE the TA
  is not declared single-instance, so every session has its own globals.
- The sample trusted component, which is a payload.

The hazards of the modelled code are listed in `PROJECT.json`, with a note where a
property covers them only in part.

## Plan

All components that carry state are modelled and checked, and their safety invariants
and refinements are proved, except for the comparisons listed above. What could follow,
in this order:

1. The values of the codec's nested options (`IdArrayEnds`, `TcInfoArrayEnds`) and the
   parsed manifest as a whole against non-recursive references, as was done for
   sequences, payloads and messages.
2. The installed files themselves: what they hold when store failures and old images are
   accounted for, with the result of every `store_component` kept as history.
