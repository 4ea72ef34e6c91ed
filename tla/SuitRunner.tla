----------------------------- MODULE SuitRunner -----------------------------
(***************************************************************************)
(* The SUIT command runner (lib/suit/lib/suit.c) together with the         *)
(* callbacks the TEEP Agent hands it (teep-agent-ta/teep-agent-ta.c).      *)
(*                                                                         *)
(* The runner is an explicit continuation machine: a program counter, a    *)
(* stack of program counters, the selected components or dependencies, and *)
(* an array of parameter bindings.  A step of suit_runner_run reads one    *)
(* command or picks the next target of a command; the handler it calls is  *)
(* a step of its own (variable call), because directive_set_parameters     *)
(* loops over its map.  A remote fetch suspends the runner until the       *)
(* broker has downloaded the component.                                    *)
(*                                                                         *)
(* CBOR is abstracted to what the runner tells apart: a command sequence   *)
(* is a sequence of commands, and an item that is not an unsigned integer  *)
(* where one is expected is a negative number.                             *)
(***************************************************************************)
EXTENDS TaStore, Integers

CONSTANTS
    RemoteUri,        \* uris fetched by the broker
    LocalUri,         \* uris that begin with '#': a field of the envelope
    EmptyUri,         \* the text string of length 0
    NotTstr,          \* a parameter value that is not a text string
    NotBstr,          \* a field of the envelope that is not a byte string
    Manifest,         \* the manifests under consideration
    NoManifest,       \* the runner has not been initialised
    SUIT_BINDER_MAX,  \* capacity of the binding array
    SUIT_STACK_MAX,   \* capacity of the program counter stack
    KEY_LIMIT,        \* the values of enum suit_parameter_key, 2^32 in a build
    Slot,             \* stack addresses
    Frame             \* the address of the local "target" at each call site

\* The places where a handler is called, each with its own suit_object_t local.
Site == {"index", "all", "array"}

SUIT_PARAMETER_URI == 21

ParamValue == RemoteUri \cup LocalUri \cup {EmptyUri, NotTstr}
ParamMap   == Seq([key : Int, value : ParamValue])
Selection  == [kind : {"true", "false", "other"}, list : {<<>>}]
         \cup [kind : {"uint"}, list : [1 .. 1 -> Nat]]
         \cup [kind : {"array"}, list : Seq(Int)]

Conditions == {"vendor-identifier", "class-identifier", "image-match"}
Setters    == {"set-parameters", "override-parameters"}
Selectors  == {"set-component-index", "set-dependency-index"}
Handled    == Conditions \cup Setters \cup {"process-dependency", "fetch"}

\* "junk" is every command without a handler, and every item that is no command.
Command == [op : Selectors, arg : Selection]
      \cup [op : Setters, arg : ParamMap]
      \cup [op : Conditions \cup {"process-dependency", "fetch", "junk"}, arg : {<<>>}]

\* A component id: how each fixed name compares with the literal it must match,
\* the uuid (or none, if the byte string is not 16 bytes long), and whether the
\* array goes on after the fourth element.
NoPath == "no path"
Match  == {"equal", "prefix", "different"}
ComponentId == [device : Match, storage : Match, suffix : Match,
                uuid : Path \cup {NoPath}, extra : BOOLEAN]

\* A command sequence of the manifest: a CBOR array, some other item, or (install
\* only) the digest that is left when the sequence has been severed.
CommandSequence(forms) == [form : forms, cmds : Seq(Command)]

ManifestType ==
    [components : Seq(ComponentId), n_dependencies : Nat,
     common : CommandSequence({"array", "not-array"}),
     install : CommandSequence({"array", "not-array", "severed"}),
     payloads : UNION {[D -> Body \cup {NotBstr}] : D \in SUBSET LocalUri}]

ASSUME SuitRunnerAssumption ==
    /\ RemoteUri \cap LocalUri = {}
    /\ EmptyUri # NotTstr
    /\ {EmptyUri, NotTstr} \cap (RemoteUri \cup LocalUri) = {}
    /\ NoPath \notin Path
    /\ NotBstr \notin Body
    /\ NoManifest \notin Manifest
    /\ SUIT_BINDER_MAX \in Nat
    /\ SUIT_STACK_MAX \in Nat /\ SUIT_STACK_MAX >= 2
    /\ KEY_LIMIT \in Nat /\ KEY_LIMIT > SUIT_PARAMETER_URI
    /\ Frame \in [Site -> Slot]

ASSUME ManifestAssumption == Manifest \subseteq ManifestType

VARIABLES
    manifest,         \* the manifest being run, or NoManifest
    program_counter,  \* the current continuation
    stack,            \* saved continuations, the top last
    selected,         \* the selected components or dependencies
    bindings,         \* parameter bindings, keyed by the address of the target
    call,             \* the handler call under way, or NoCall
    has_error,
    suspended,        \* waiting for a download
    fetch,            \* session->fetch_uri and session->fetch_component_path
    crashed,          \* the TA has used memory that is not its own
    files,            \* the component store
    installs          \* history: the store_component calls made for this manifest

runnerVars == <<manifest, program_counter, stack, selected, bindings, call,
                has_error, suspended, fetch, crashed, files, installs>>

----------------------------------------------------------------------------
(* Values of the variables.                                                *)

ExitPC == [next |-> "exit"]
SequencePC(common, target) == [next |-> "sequence", common |-> common, target |-> target]

\* Mutant: the index of the next target is incremented before it is used.
CommandPCFromMinusOne(c, is_component, sel) ==
    [next |-> "command", command |-> c, is_component |-> is_component,
     selected_all |-> sel.kind = "true", index |-> -1, array |-> sel.list]

CommandPC(c, is_component, sel) ==
    [next |-> "command", command |-> c, is_component |-> is_component,
     selected_all |-> sel.kind = "true", index |-> 0, array |-> sel.list]

Continuation ==
         {ExitPC}
    \cup [next : {"sequence"}, common : Seq(Command), target : Seq(Command)]
    \cup [next : {"command"}, command : Command, is_component : BOOLEAN,
          selected_all : BOOLEAN, index : Nat, array : Seq(Int)]

NoCall == [site |-> "none"]
Target == [is_component : BOOLEAN, index : Nat]
Call   == [site : Site, target : Target, command : Command]

NoFetch == [uri |-> EmptyUri, path |-> NoPath]

\* Mutant: a suspended runner counts as finished.
FinishedIfNoError == ~has_error

Finished  == ~has_error /\ ~suspended
Suspended == ~has_error /\ suspended

\* suit_runner_run is about to return, or has returned.
RunReturned ==
    has_error \/ suspended \/ (call = NoCall /\ program_counter.next = "exit")

Running(next) ==
    /\ ~has_error /\ ~suspended /\ ~crashed
    /\ call = NoCall
    /\ program_counter.next = next

----------------------------------------------------------------------------
(* suit_runner_init and the program counter stack.                         *)

\* call_command_sequence: both sequences must be arrays.  A null range (no
\* sequence in the manifest) has been replaced by an empty array before.
SequenceReadable(m) == m.install.form = "array" /\ m.common.form = "array"

\* A severed install sequence makes get_command_sequence_body read the digest as
\* a byte range, whose begin is the digest algorithm number.  (Were that number 0
\* the range would be null, which is an empty sequence like an absent one.)
SequenceMisread(m) == m.install.form = "severed"

\* suit_runner_init: memset, select all components, and enter the root
\* manifest.  When that fails the runner is left at EXIT, without an error.
SuitRunnerInit(m) ==
    /\ manifest' = m
    /\ bindings' = <<>>
    /\ call' = NoCall
    /\ has_error' = FALSE
    /\ suspended' = FALSE
    /\ installs' = <<>>
    /\ selected' = [is_component |-> TRUE, param |-> [kind |-> "true", list |-> <<>>]]
    /\ IF SequenceReadable(m)
       THEN /\ program_counter' = SequencePC(m.common.cmds, m.install.cmds)
            /\ stack' = <<ExitPC>>
       ELSE /\ program_counter' = ExitPC
            /\ stack' = <<>>
    /\ crashed' = SequenceMisread(m)
    /\ UNCHANGED <<fetch, files>>

MarkError == has_error' = TRUE

PushProgramCounter(saved, newpc) ==
    IF Len(stack) = SUIT_STACK_MAX
    THEN MarkError /\ program_counter' = saved /\ UNCHANGED stack
    ELSE /\ stack' = Append(stack, saved)
         /\ program_counter' = newpc
         /\ UNCHANGED has_error

\* Mutant: n_stack is not decremented.
PopKeepsStack ==
    IF stack = <<>>
    THEN MarkError /\ UNCHANGED <<program_counter, stack>>
    ELSE program_counter' = stack[Len(stack)] /\ UNCHANGED <<stack, has_error>>

PopProgramCounter ==
    IF stack = <<>>
    THEN MarkError /\ UNCHANGED <<program_counter, stack>>
    ELSE /\ program_counter' = stack[Len(stack)]
         /\ stack' = SubSeq(stack, 1, Len(stack) - 1)
         /\ UNCHANGED has_error

----------------------------------------------------------------------------
(* run_sequence_step: the next command, common sequence first.             *)

InCommon == program_counter.common # <<>>
NextCommand == Head(IF InCommon THEN program_counter.common ELSE program_counter.target)
Advanced ==
    IF InCommon
    THEN [program_counter EXCEPT !.common = Tail(@)]
    ELSE [program_counter EXCEPT !.target = Tail(@)]

AtEnd == program_counter.common = <<>> /\ program_counter.target = <<>>
AtCommand == Running("sequence") /\ ~AtEnd

\* Mutant: the common sequence may use every command.
FindHandlerAnywhere(op, is_common) == op \in Handled

\* find_handler: the common sequence may not fetch or process dependencies.
FindHandler(op, is_common) ==
    op \in Handled /\ (is_common => op \notin {"process-dependency", "fetch"})

\* get_object
HasObject(is_component, index) ==
    0 <= index /\ index < (IF is_component THEN Len(manifest.components)
                                           ELSE manifest.n_dependencies)

HandlerCall(site, c, is_component, index) ==
    [site |-> site, command |-> c,
     target |-> [is_component |-> is_component, index |-> index]]

EndOfSequence ==
    /\ Running("sequence") /\ AtEnd
    /\ PopProgramCounter
    /\ UNCHANGED <<manifest, selected, bindings, call, suspended, fetch,
                   crashed, files, installs>>

SetIndex ==
    /\ AtCommand
    /\ NextCommand.op \in Selectors
    /\ selected' = [is_component |-> NextCommand.op = "set-component-index",
                    param |-> NextCommand.arg]
    /\ program_counter' = Advanced
    /\ UNCHANGED <<manifest, stack, bindings, call, has_error, suspended, fetch,
                   crashed, files, installs>>

\* No handler, a selection that is neither bool, uint nor array, or an index
\* that names no object.
SequenceError ==
    /\ AtCommand
    /\ NextCommand.op \notin Selectors
    /\ \/ ~FindHandler(NextCommand.op, InCommon)
       \/ selected.param.kind = "other"
       \/ /\ selected.param.kind = "uint"
          /\ ~HasObject(selected.is_component, selected.param.list[1])
    /\ MarkError
    /\ program_counter' = Advanced
    /\ UNCHANGED <<manifest, stack, selected, bindings, call, suspended, fetch,
                   crashed, files, installs>>

\* Mutant: the skipped command is not consumed.
SkipCommandForever ==
    /\ AtCommand
    /\ FindHandler(NextCommand.op, InCommon)
    /\ selected.param.kind = "false"
    /\ UNCHANGED runnerVars

\* "false" selects no object: the command is skipped.
SkipCommand ==
    /\ AtCommand
    /\ FindHandler(NextCommand.op, InCommon)
    /\ selected.param.kind = "false"
    /\ program_counter' = Advanced
    /\ UNCHANGED <<manifest, stack, selected, bindings, call, has_error, suspended,
                   fetch, crashed, files, installs>>

CallOnIndex ==
    /\ AtCommand
    /\ FindHandler(NextCommand.op, InCommon)
    /\ selected.param.kind = "uint"
    /\ HasObject(selected.is_component, selected.param.list[1])
    /\ call' = HandlerCall("index", NextCommand, selected.is_component,
                           selected.param.list[1])
    /\ program_counter' = Advanced
    /\ UNCHANGED <<manifest, stack, selected, bindings, has_error, suspended, fetch,
                   crashed, files, installs>>

EnterCommand ==
    /\ AtCommand
    /\ FindHandler(NextCommand.op, InCommon)
    /\ selected.param.kind \in {"true", "array"}
    /\ PushProgramCounter(Advanced,
                          CommandPC(NextCommand, selected.is_component, selected.param))
    /\ UNCHANGED <<manifest, selected, bindings, call, suspended, fetch, crashed,
                   files, installs>>

----------------------------------------------------------------------------
(* run_command_step: the next target of a command.                         *)

CallOnNext ==
    LET pc == program_counter
    IN  /\ Running("command")
        /\ pc.selected_all
        /\ HasObject(pc.is_component, pc.index)
        /\ call' = HandlerCall("all", pc.command, pc.is_component, pc.index)
        /\ program_counter' = [pc EXCEPT !.index = @ + 1]
        /\ UNCHANGED <<manifest, stack, selected, bindings, has_error, suspended,
                       fetch, crashed, files, installs>>

CallOnElement ==
    LET pc == program_counter
    IN  /\ Running("command")
        /\ ~pc.selected_all
        /\ pc.array # <<>>
        /\ program_counter' = [pc EXCEPT !.array = Tail(@)]
        /\ IF HasObject(pc.is_component, Head(pc.array))
           THEN /\ call' = HandlerCall("array", pc.command, pc.is_component,
                                       Head(pc.array))
                /\ UNCHANGED has_error
           ELSE MarkError /\ UNCHANGED call
        /\ UNCHANGED <<manifest, stack, selected, bindings, suspended, fetch,
                       crashed, files, installs>>

EndOfCommand ==
    LET pc == program_counter
    IN  /\ Running("command")
        /\ IF pc.selected_all THEN ~HasObject(pc.is_component, pc.index)
                              ELSE pc.array = <<>>
        /\ PopProgramCounter
        /\ UNCHANGED <<manifest, selected, bindings, call, suspended, fetch,
                       crashed, files, installs>>

----------------------------------------------------------------------------
(* The command handlers.                                                   *)

Calling(ops) == ~has_error /\ ~crashed /\ call # NoCall /\ call.command.op \in ops
Return == call' = NoCall

\* The conditions and suit-directive-process-dependency do nothing.
NoOperation ==
    /\ Calling(Conditions \cup {"process-dependency"})
    /\ Return
    /\ UNCHANGED <<manifest, program_counter, stack, selected, bindings, has_error,
                   suspended, fetch, crashed, files, installs>>

BindersOf(slot, key) ==
    {i \in DOMAIN bindings : bindings[i].target = slot /\ bindings[i].key = key}

\* Mutant: the search starts at the second binder.
LookupBinderFromSecond(slot, key) ==
    {i \in BindersOf(slot, key) \ {1} : \A j \in BindersOf(slot, key) \ {1} : i <= j}

\* lookup_binder: the first binder with the address of the target and the key,
\* if there is one.  The key looked for has 64 bits, the stored one is an enum.
LookupBinder(slot, key) ==
    {i \in BindersOf(slot, key) : \A j \in BindersOf(slot, key) : i <= j}

\* alloc_binder stores the key in an enum, which keeps its low bits.
NewBinder(slot, entry) ==
    [target |-> slot, key |-> entry.key % KEY_LIMIT, given |-> entry.key,
     value |-> entry.value]

\* One turn of the loop of directive_set_parameters, with set_parameter.
SetParameter ==
    LET slot     == Frame[call.site]
        entry    == Head(call.command.arg)
        found    == LookupBinder(slot, entry.key)
        override == call.command.op = "override-parameters"
    IN  /\ Calling(Setters)
        /\ call.command.arg # <<>>
        /\ call' = [call EXCEPT !.command.arg = Tail(@)]
        /\ \/ /\ entry.key < 0
              /\ MarkError /\ UNCHANGED bindings
           \/ /\ entry.key >= 0 /\ found # {}
              /\ bindings' = IF override
                             THEN [i \in DOMAIN bindings |->
                                     IF i \in found THEN [bindings[i] EXCEPT !.value = entry.value]
                                                    ELSE bindings[i]]
                             ELSE bindings
              /\ UNCHANGED has_error
           \/ /\ entry.key >= 0 /\ found = {} /\ Len(bindings) = SUIT_BINDER_MAX
              /\ MarkError /\ UNCHANGED bindings
           \/ /\ entry.key >= 0 /\ found = {} /\ Len(bindings) # SUIT_BINDER_MAX
              /\ bindings' = Append(bindings, NewBinder(slot, entry))
              /\ UNCHANGED has_error
        /\ UNCHANGED <<manifest, program_counter, stack, selected, suspended, fetch,
                       crashed, files, installs>>

EndOfParameters ==
    /\ Calling(Setters)
    /\ call.command.arg = <<>>
    /\ Return
    /\ UNCHANGED <<manifest, program_counter, stack, selected, bindings, has_error,
                   suspended, fetch, crashed, files, installs>>

\* suit_runner_get_parameter(SUIT_PARAMETER_URI): the value bound, if there is one.
BoundUris(site) ==
    {bindings[i].value : i \in LookupBinder(Frame[site], SUIT_PARAMETER_URI)}

\* parse_component_id: the names are compared over the length of the id's byte
\* string, so a prefix passes as well; the uuid alone makes the file name.
ParseComponentId(id) ==
    IF /\ {id.device, id.storage, id.suffix} \subseteq {"equal", "prefix"}
       /\ ~id.extra
    THEN id.uuid
    ELSE NoPath

TargetPath == ParseComponentId(manifest.components[call.target.index + 1])

\* suit_envelope_get_field_by_name succeeds with a null range when the envelope
\* has no such field, and fails when a field of that name is no byte string.
EnvelopeField(m, uri) == IF uri \in DOMAIN m.payloads THEN m.payloads[uri] ELSE <<>>

FieldUnreadable(m, uri) == EnvelopeField(m, uri) = NotBstr

\* directive_fetch fails: uri not set, not a text string or empty; the field it
\* names is no byte string; the store or fetch_and_store callback returns FALSE.
FetchError ==
    /\ Calling({"fetch"})
    /\ \/ BoundUris(call.site) \cap (LocalUri \cup RemoteUri) = {}
       \/ \E uri \in BoundUris(call.site) \cap LocalUri : FieldUnreadable(manifest, uri)
       \/ call.target.is_component /\ TargetPath = NoPath
       \/ ~call.target.is_component /\ BoundUris(call.site) \cap RemoteUri # {}
    /\ MarkError
    /\ Return
    /\ UNCHANGED <<manifest, program_counter, stack, selected, bindings, suspended,
                   fetch, crashed, files, installs>>

\* directive_fetch of a local uri: the store callback.
FetchLocal ==
    /\ Calling({"fetch"})
    /\ \E uri \in BoundUris(call.site) \cap LocalUri :
        /\ ~FieldUnreadable(manifest, uri)
        /\ IF call.target.is_component
           THEN /\ TargetPath # NoPath
                /\ files' \in StoreComponent(files, TargetPath,
                                             EnvelopeField(manifest, uri))
                /\ installs' = Append(installs, [path |-> TargetPath, uri |-> uri,
                                                 body |-> EnvelopeField(manifest, uri)])
           ELSE UNCHANGED <<files, installs>>
        /\ Return
        /\ UNCHANGED <<manifest, program_counter, stack, selected, bindings,
                       has_error, suspended, fetch, crashed>>

\* Mutant: the result of parse_component_id is not checked.
FetchRemoteAnyPath ==
    /\ Calling({"fetch"})
    /\ \E uri \in BoundUris(call.site) \cap RemoteUri :
        /\ call.target.is_component
        /\ fetch' = [uri |-> uri, path |-> TargetPath]
        /\ suspended' = TRUE
        /\ Return
        /\ UNCHANGED <<manifest, program_counter, stack, selected, bindings,
                       has_error, crashed, files, installs>>

\* directive_fetch of a remote uri: the fetch_and_store callback suspends.
FetchRemote ==
    /\ Calling({"fetch"})
    /\ \E uri \in BoundUris(call.site) \cap RemoteUri :
        /\ call.target.is_component
        /\ TargetPath # NoPath
        /\ fetch' = [uri |-> uri, path |-> TargetPath]
        /\ suspended' = TRUE
        /\ Return
        /\ UNCHANGED <<manifest, program_counter, stack, selected, bindings,
                       has_error, crashed, files, installs>>

----------------------------------------------------------------------------

\* store_component of the downloaded body, then suit_runner_resume (whose
\* fetch_complete callback only logs).
StoreAndResume(body) ==
    /\ files' \in StoreComponent(files, fetch.path, body)
    /\ installs' = Append(installs, [path |-> fetch.path, uri |-> fetch.uri, body |-> body])
    /\ suspended' = IF has_error THEN suspended ELSE FALSE
    /\ UNCHANGED <<manifest, program_counter, stack, selected, bindings, call,
                   has_error, fetch, crashed>>

RunStep ==
    \/ EndOfSequence \/ SetIndex \/ SequenceError \/ SkipCommand \/ CallOnIndex
    \/ EnterCommand
    \/ CallOnNext \/ CallOnElement \/ EndOfCommand
    \/ NoOperation \/ SetParameter \/ EndOfParameters
    \/ FetchError \/ FetchLocal \/ FetchRemote

Start == manifest = NoManifest /\ \E m \in Manifest : SuitRunnerInit(m)

\* The download the runner waits for arrives.
Download ==
    /\ Suspended /\ ~crashed
    /\ \E body \in Body : StoreAndResume(body)

RunnerInit ==
    /\ manifest = NoManifest
    /\ program_counter = ExitPC
    /\ stack = <<>>
    /\ selected = [is_component |-> TRUE, param |-> [kind |-> "true", list |-> <<>>]]
    /\ bindings = <<>>
    /\ call = NoCall
    /\ has_error = FALSE
    /\ suspended = FALSE
    /\ fetch = NoFetch
    /\ crashed = FALSE
    /\ files = <<>>
    /\ installs = <<>>

RunnerNext == Start \/ RunStep \/ Download

RunnerSpec == RunnerInit /\ [][RunnerNext]_runnerVars

\* suit_runner_run is a loop of one thread, and the broker answers every GET (or
\* gives up, which ends the session): the runner never stops half-way.
RunnerFairSpec == RunnerSpec /\ WF_runnerVars(RunStep \/ Download)

----------------------------------------------------------------------------
(* Properties.                                                             *)

\* "given" is history: the key the binder was allocated for, before the enum.
Binding == [target : Slot, key : 0 .. (KEY_LIMIT - 1), given : Nat, value : ParamValue]

\* The type of every variable of the runner, as suit_runner_t declares it.
RunnerTypeOK ==
    /\ manifest \in ManifestType \cup {NoManifest}
    /\ program_counter \in Continuation
    /\ stack \in Seq(Continuation)
    /\ selected \in [is_component : BOOLEAN, param : Selection]
    /\ bindings \in Seq(Binding)
    /\ call \in Call \cup {NoCall}
    /\ has_error \in BOOLEAN
    /\ suspended \in BOOLEAN
    /\ fetch \in [uri : RemoteUri \cup {EmptyUri}, path : Path \cup {NoPath}]
    /\ crashed \in BOOLEAN
    /\ IsStore(files)
    /\ installs \in Seq([path : Path, uri : ParamValue, body : Body])

\* The stack holds exactly the continuations the program counter must return to:
\* nothing at EXIT, EXIT below a sequence, and a sequence above EXIT below a
\* command.  So push_program_counter never finds the stack full, and
\* pop_program_counter never finds it empty.
StackShape ==
    /\ program_counter.next = "exit" => stack = <<>>
    /\ program_counter.next = "sequence" => stack = <<ExitPC>>
    /\ program_counter.next = "command" =>
           Len(stack) = 2 /\ stack[1] = ExitPC /\ stack[2].next = "sequence"

\* lookup_binder returns the first match, which is the one that counts: a later
\* binder with the same address and key is only ever allocated for a key that
\* does not fit the enum, which lookup_binder cannot find.  So the parameter
\* that a key of the specification names is in one place, and overriding it
\* there is enough.  And the array is never run past.
BinderUnique ==
    /\ Len(bindings) <= SUIT_BINDER_MAX
    /\ \A i, j \in DOMAIN bindings :
          /\ i < j
          /\ bindings[i].target = bindings[j].target
          /\ bindings[i].key = bindings[j].key
          => bindings[j].given >= KEY_LIMIT

DeclaredPaths(m) ==
    {ParseComponentId(m.components[i]) : i \in DOMAIN m.components} \ {NoPath}

\* While a download is outstanding the session's fetch_component_path names a
\* component of the manifest being run, no handler is half-way through, and the
\* runner has no error: suit_runner_resume always finds a runner it can resume,
\* and the body lands in a component the manifest declares.
SuspendedOnComponent ==
    suspended => /\ ~has_error
                 /\ call = NoCall
                 /\ manifest # NoManifest
                 /\ fetch.path \in DeclaredPaths(manifest)

\* A handler is called only on a component or dependency that the manifest being
\* run has, and never while a download is outstanding: get_object is asked before
\* every call, and nothing suspends the runner and goes on.
CallsOnObject ==
    /\ program_counter.next # "exit" => manifest # NoManifest
    /\ call # NoCall => /\ manifest # NoManifest
                       /\ ~suspended
                       /\ HasObject(call.target.is_component, call.target.index)

\* The stores before and after differ at most in the file of one component that
\* the manifest m declares.
OneFileChanged(m, before, after) ==
    \E p \in DeclaredPaths(m) :
        \A q \in Path \ {p} :
            /\ (q \in DOMAIN after) = (q \in DOMAIN before)
            /\ q \in DOMAIN before => after[q] = before[q]

\* A step changes at most one file of the store, and only one that a component
\* of the running manifest names (off OP-TEE, where the image names its file).
StoresDeclared ==
    [][Platform # "optee" /\ files' # files
         => OneFileChanged(manifest, files, files')]_runnerVars

\* Every run of a manifest ends: it finishes, fails or crashes.
RunEnds == manifest # NoManifest ~> crashed \/ (RunReturned /\ ~suspended)

=============================================================================
