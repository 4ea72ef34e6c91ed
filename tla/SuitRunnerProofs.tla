-------------------------- MODULE SuitRunnerProofs --------------------------
(***************************************************************************)
(* Proofs about SuitRunner, for every manifest, every store and every      *)
(* capacity of the binder array and the stack: its invariants, and that a  *)
(* run does what the reference of SuitReference says.                      *)
(***************************************************************************)
EXTENDS SuitReference, SequenceTheorems, FiniteSetTheorems, WellFoundedInduction, TLAPS

----------------------------------------------------------------------------
(* The component store.                                                    *)

\* Writing one file gives a store again.
LEMMA PutFileStore ==
    ASSUME NEW fs, IsStore(fs), NEW path \in Path, NEW content \in Seq(Block)
    PROVE  IsStore(PutFile(fs, path, content))
<1>1. PICK D \in SUBSET Path : fs \in [D -> Seq(Block)]
  BY DEF IsStore
<1>2. D \cup {path} \in SUBSET Path
  OBVIOUS
<1>3. PutFile(fs, path, content) \in [D \cup {path} -> Seq(Block)]
  BY <1>1 DEF PutFile
<1>4. QED
  BY <1>2, <1>3 DEF IsStore

\* A prefix of a body is a sequence of blocks.
LEMMA BodyPrefix ==
    ASSUME NEW body \in Body
    PROVE  /\ body \in Seq(Block)
           /\ Len(body) \in Nat
           /\ \A n \in 0 .. Len(body) : SubSeq(body, 1, n) \in Seq(Block)
<1>1. body \in Seq(Block)
  BY TaStoreAssumption, EmptySeq DEF Body
<1>2. Len(body) \in Nat
  BY <1>1, LenProperties
<1>3. ASSUME NEW n \in 0 .. Len(body)
      PROVE  SubSeq(body, 1, n) \in Seq(Block)
  <2>1. \A i \in 1 .. n : body[i] \in Block
    BY <1>1, <1>2, ElementOfSeq
  <2>2. QED
    BY <2>1, <1>2, SubSeqProperties
<1>4. QED
  BY <1>1, <1>2, <1>3

\* Overwriting from offset 0 keeps a file a sequence of blocks.
LEMMA WrittenType ==
    ASSUME NEW fs, IsStore(fs), NEW path \in Path, NEW w \in Seq(Block)
    PROVE  Written(fs, path, w) \in Seq(Block)
<1>1. CASE Platform = "pc" \/ path \notin DOMAIN fs
  BY <1>1 DEF Written
<1>2. CASE ~(Platform = "pc" \/ path \notin DOMAIN fs)
  <2>1. fs[path] \in Seq(Block)
    BY <1>2 DEF IsStore
  <2>2. /\ Len(w) \in Nat
        /\ Len(fs[path]) \in Nat
    BY <2>1, LenProperties
  <2>3. \A i \in Len(w) + 1 .. Len(fs[path]) : fs[path][i] \in Block
    BY <2>1, <2>2, ElementOfSeq
  <2>4. SubSeq(fs[path], Len(w) + 1, Len(fs[path])) \in Seq(Block)
    BY <2>2, <2>3, SubSeqProperties
  <2>5. w \o SubSeq(fs[path], Len(w) + 1, Len(fs[path])) \in Seq(Block)
    BY <2>4, ConcatProperties
  <2>6. QED
    BY <1>2, <2>5 DEF Written
<1>3. QED
  BY <1>1, <1>2

\* Whatever fails inside it, store_component leaves a store behind.
LEMMA StoreComponentStore ==
    ASSUME NEW fs, IsStore(fs), NEW path \in Path, NEW body \in Body,
           NEW after \in StoreComponent(fs, path, body)
    PROVE  IsStore(after)
<1>1. body \in Seq(Block)
  BY BodyPrefix
<1>2. CASE Platform = "optee"
  <2>1. CASE after = fs
    BY <2>1
  <2>2. CASE after # fs
    <3>1. body # <<>> /\ after = PutFile(fs, HeaderPath[body], body)
      BY <1>2, <2>2 DEF StoreComponent, Bootstrapped
    <3>2. HeaderPath[body] \in Path
      BY <3>1, TaStoreAssumption DEF Body
    <3>3. QED
      BY <1>1, <3>1, <3>2, PutFileStore
  <2>3. QED
    BY <2>1, <2>2
<1>3. CASE Platform # "optee"
  <2>1. CASE after = PutFile(fs, path, Written(fs, path, body))
    BY <1>1, <2>1, WrittenType, PutFileStore
  <2>2. CASE after \in FailedWrites(fs, path, body)
    <3>1. CASE after = fs
      BY <3>1
    <3>2. CASE after # fs
      <4>1. PICK n \in 0 .. Len(body) :
                after = PutFile(fs, path, Written(fs, path, SubSeq(body, 1, n)))
        BY <2>2, <3>2 DEF FailedWrites
      <4>2. SubSeq(body, 1, n) \in Seq(Block)
        BY BodyPrefix
      <4>3. QED
        BY <4>1, <4>2, WrittenType, PutFileStore
    <3>3. QED
      BY <3>1, <3>2
  <2>3. QED
    BY <1>3, <2>1, <2>2 DEF StoreComponent
<1>4. QED
  BY <1>2, <1>3

----------------------------------------------------------------------------
(* The types of the runner's values.                                       *)

SequenceCont == [next : {"sequence"}, common : Seq(Command), target : Seq(Command)]
CommandCont == [next : {"command"}, command : Command, is_component : BOOLEAN,
                selected_all : BOOLEAN, index : Nat, array : Seq(Int)]

\* A continuation is determined by its tag.
LEMMA ContinuationCases ==
    ASSUME NEW pc \in Continuation
    PROVE  /\ pc.next \in {"exit", "sequence", "command"}
           /\ pc.next = "exit" => pc = ExitPC
           /\ pc.next = "sequence" => pc \in SequenceCont
           /\ pc.next = "command" => pc \in CommandCont
BY DEF Continuation, ExitPC, SequenceCont, CommandCont

LEMMA ContinuationTypes ==
    /\ ExitPC \in Continuation /\ ExitPC.next = "exit"
    /\ \A pc \in SequenceCont : pc \in Continuation /\ pc.next = "sequence"
    /\ \A pc \in CommandCont : pc \in Continuation /\ pc.next = "command"
BY DEF Continuation, ExitPC, SequenceCont, CommandCont

\* A selection names its targets by integers, the single one by a natural number.
LEMMA SelectionList ==
    ASSUME NEW sel \in Selection
    PROVE  /\ sel.kind \in {"true", "false", "other", "uint", "array"}
           /\ sel.kind = "uint" => sel.list[1] \in Nat
           /\ sel.kind \in {"true", "array"} => sel.list \in Seq(Int)
<1>1. CASE sel \in [kind : {"true", "false", "other"}, list : {<<>>}]
  <2>1. sel.list \in Seq(Int)
    BY <1>1, EmptySeq
  <2>2. QED
    BY <1>1, <2>1
<1>2. CASE sel \in [kind : {"uint"}, list : [1 .. 1 -> Nat]]
  BY <1>2
<1>3. CASE sel \in [kind : {"array"}, list : Seq(Int)]
  BY <1>3
<1>4. QED
  BY <1>1, <1>2, <1>3 DEF Selection

\* The argument of a command fits its operation.
LEMMA CommandArg ==
    ASSUME NEW c \in Command
    PROVE  /\ c.op \in Selectors => c.arg \in Selection
           /\ c.op \in Setters => c.arg \in ParamMap
BY DEF Command, Selectors, Setters, Conditions

\* What is left of a parameter map is again the argument of a setter.
LEMMA TailOfParameters ==
    ASSUME NEW c \in Call, c.command.op \in Setters, c.command.arg # <<>>
    PROVE  /\ Head(c.command.arg) \in [key : Int, value : ParamValue]
           /\ [c EXCEPT !.command.arg = Tail(@)] \in Call
           /\ [c EXCEPT !.command.arg = Tail(@)] # NoCall
           /\ [c EXCEPT !.command.arg = Tail(@)].target = c.target
<1>1. c.command \in Command /\ c.site \in Site /\ c.target \in Target
  BY DEF Call
<1>2. c.command.arg \in Seq([key : Int, value : ParamValue])
  BY <1>1, CommandArg DEF ParamMap
<1>3. /\ Head(c.command.arg) \in [key : Int, value : ParamValue]
      /\ Tail(c.command.arg) \in ParamMap
  BY <1>2, HeadTailProperties DEF ParamMap
<1>4. [c.command EXCEPT !.arg = Tail(@)] \in Command
  BY <1>1, <1>3 DEF Command
<1>5. [c EXCEPT !.command.arg = Tail(@)] \in Call
  BY <1>1, <1>4 DEF Call
<1>6. [c EXCEPT !.command.arg = Tail(@)].target = c.target
  BY <1>1 DEF Call
<1>7. [c EXCEPT !.command.arg = Tail(@)] # NoCall
  BY <1>5 DEF Call, NoCall, Site
<1>8. QED
  BY <1>3, <1>5, <1>6, <1>7

\* parse_component_id gives a file name or nothing; a declared path is a file name.
LEMMA DeclaredPath ==
    ASSUME NEW m \in ManifestType
    PROVE  /\ \A i \in Nat : i < Len(m.components) =>
                ParseComponentId(m.components[i + 1]) \in DeclaredPaths(m) \cup {NoPath}
           /\ DeclaredPaths(m) \subseteq Path
<1>1. m.components \in Seq(ComponentId)
  BY DEF ManifestType
<1>2. \A id \in ComponentId : ParseComponentId(id) \in Path \cup {NoPath}
  BY DEF ComponentId, ParseComponentId
<1>3. DOMAIN m.components = 1 .. Len(m.components) /\ Len(m.components) \in Nat
  BY <1>1, LenProperties
<1>4. \A i \in DOMAIN m.components : m.components[i] \in ComponentId
  BY <1>1, <1>3, ElementOfSeq
<1>5. \A i \in Nat : i < Len(m.components) => i + 1 \in DOMAIN m.components
  BY <1>3
<1>6. DeclaredPaths(m) \subseteq Path
  BY <1>2, <1>4 DEF DeclaredPaths
<1>7. QED
  BY <1>5, <1>6 DEF DeclaredPaths

----------------------------------------------------------------------------
(* The inductive invariant.  None of its parts is inductive alone:         *)
(* StackShape is what makes the types of a pop and the success of a push   *)
(* provable, CallsOnObject is what makes the path of a fetch a declared    *)
(* one, and SuspendedOnComponent carries that path across the download.    *)

RunnerInv ==
    /\ RunnerTypeOK
    /\ StackShape
    /\ BinderUnique
    /\ SuspendedOnComponent
    /\ CallsOnObject

\* While a handler or a program counter is active, the manifest is one.
LEMMA ManifestLoaded ==
    ASSUME RunnerInv
    PROVE  /\ program_counter.next # "exit" => manifest \in ManifestType
           /\ call # NoCall => manifest \in ManifestType /\ call \in Call
           /\ suspended => manifest \in ManifestType
BY DEF RunnerInv, RunnerTypeOK, CallsOnObject, SuspendedOnComponent

\* Reading a command: it is one, and what is left is a sequence continuation.
LEMMA AtCommandTypes ==
    ASSUME RunnerInv, AtCommand
    PROVE  /\ NextCommand \in Command
           /\ Advanced \in SequenceCont
           /\ program_counter \in SequenceCont
           /\ program_counter.next = "sequence"
           /\ manifest \in ManifestType
           /\ stack = <<ExitPC>>
           /\ call = NoCall /\ ~has_error /\ ~suspended /\ ~crashed
<1>1. /\ program_counter \in Continuation
      /\ program_counter.next = "sequence"
      /\ call = NoCall /\ ~has_error /\ ~suspended /\ ~crashed
  BY DEF RunnerInv, RunnerTypeOK, AtCommand, Running
<1>2. program_counter \in SequenceCont
  BY <1>1, ContinuationCases
<1>3. /\ program_counter.common \in Seq(Command)
      /\ program_counter.target \in Seq(Command)
  BY <1>2 DEF SequenceCont
<1>4. ASSUME program_counter.common # <<>>
      PROVE  Advanced \in SequenceCont /\ NextCommand \in Command
  <2>1. Head(program_counter.common) \in Command /\ Tail(program_counter.common) \in Seq(Command)
    BY <1>3, <1>4, HeadTailProperties
  <2>2. Advanced \in SequenceCont
    BY <1>2, <1>4, <2>1 DEF Advanced, InCommon, SequenceCont
  <2>3. NextCommand \in Command
    BY <1>4, <2>1 DEF NextCommand, InCommon
  <2>4. QED
    BY <2>2, <2>3
<1>5. ASSUME program_counter.common = <<>>
      PROVE  Advanced \in SequenceCont /\ NextCommand \in Command
  <2>1. program_counter.target # <<>>
    BY <1>5 DEF AtCommand, AtEnd
  <2>2. Head(program_counter.target) \in Command /\ Tail(program_counter.target) \in Seq(Command)
    BY <1>3, <2>1, HeadTailProperties
  <2>3. Advanced \in SequenceCont
    BY <1>2, <1>5, <2>2 DEF Advanced, InCommon, SequenceCont
  <2>4. NextCommand \in Command
    BY <1>5, <2>2 DEF NextCommand, InCommon
  <2>5. QED
    BY <2>3, <2>4
<1>6. manifest \in ManifestType
  BY <1>1, ManifestLoaded
<1>7. stack = <<ExitPC>>
  BY <1>1 DEF RunnerInv, StackShape
<1>8. QED
  BY <1>1, <1>2, <1>4, <1>5, <1>6, <1>7

\* Choosing a target: the program counter is a command continuation.
LEMMA AtTargetTypes ==
    ASSUME RunnerInv, Running("command")
    PROVE  /\ program_counter \in CommandCont
           /\ program_counter.next = "command"
           /\ manifest \in ManifestType
           /\ stack \in Seq(Continuation)
           /\ Len(stack) = 2 /\ stack[1] = ExitPC /\ stack[2].next = "sequence"
           /\ call = NoCall /\ ~has_error /\ ~suspended /\ ~crashed
<1>1. /\ program_counter \in Continuation
      /\ program_counter.next = "command"
      /\ stack \in Seq(Continuation)
      /\ call = NoCall /\ ~has_error /\ ~suspended /\ ~crashed
  BY DEF RunnerInv, RunnerTypeOK, Running
<1>2. program_counter \in CommandCont
  BY <1>1, ContinuationCases
<1>3. manifest \in ManifestType
  BY <1>1, ManifestLoaded
<1>4. Len(stack) = 2 /\ stack[1] = ExitPC /\ stack[2].next = "sequence"
  BY <1>1 DEF RunnerInv, StackShape
<1>5. QED
  BY <1>1, <1>2, <1>3, <1>4

\* A step that only moves the program counter, keeping its tag.
LEMMA MovePC ==
    ASSUME RunnerInv,
           program_counter' \in Continuation,
           program_counter'.next = program_counter.next,
           ~suspended, has_error' \in BOOLEAN,
           selected' \in [is_component : BOOLEAN, param : Selection],
           UNCHANGED <<manifest, stack, bindings, call, suspended, fetch, crashed,
                       files, installs>>
    PROVE  RunnerInv'
BY DEF RunnerInv, RunnerTypeOK, StackShape, BinderUnique, SuspendedOnComponent,
       CallsOnObject, HasObject

LEMMA SetIndexInv == RunnerInv /\ SetIndex => RunnerInv'
<1> SUFFICES ASSUME RunnerInv, SetIndex PROVE RunnerInv'
  OBVIOUS
<1>1. AtCommand /\ NextCommand.op \in Selectors
  BY DEF SetIndex
<1>2. NextCommand.arg \in Selection
  BY <1>1, AtCommandTypes, CommandArg
<1>3. selected' \in [is_component : BOOLEAN, param : Selection]
  BY <1>2 DEF SetIndex
<1>4. program_counter' \in Continuation /\ program_counter'.next = program_counter.next
  BY <1>1, AtCommandTypes, ContinuationTypes DEF SetIndex
<1>5. has_error' \in BOOLEAN
  BY DEF SetIndex, RunnerInv, RunnerTypeOK
<1>6. QED
  BY <1>1, <1>3, <1>4, <1>5, AtCommandTypes, MovePC DEF SetIndex

LEMMA SequenceErrorInv == RunnerInv /\ SequenceError => RunnerInv'
<1> SUFFICES ASSUME RunnerInv, SequenceError PROVE RunnerInv'
  OBVIOUS
<1>1. AtCommand
  BY DEF SequenceError
<1>2. program_counter' \in Continuation /\ program_counter'.next = program_counter.next
  BY <1>1, AtCommandTypes, ContinuationTypes DEF SequenceError
<1>3. has_error' \in BOOLEAN /\ selected' \in [is_component : BOOLEAN, param : Selection]
  BY DEF SequenceError, MarkError, RunnerInv, RunnerTypeOK
<1>4. QED
  BY <1>1, <1>2, <1>3, AtCommandTypes, MovePC DEF SequenceError

LEMMA SkipCommandInv == RunnerInv /\ SkipCommand => RunnerInv'
<1> SUFFICES ASSUME RunnerInv, SkipCommand PROVE RunnerInv'
  OBVIOUS
<1>1. AtCommand
  BY DEF SkipCommand
<1>2. program_counter' \in Continuation /\ program_counter'.next = program_counter.next
  BY <1>1, AtCommandTypes, ContinuationTypes DEF SkipCommand
<1>3. has_error' \in BOOLEAN /\ selected' \in [is_component : BOOLEAN, param : Selection]
  BY DEF SkipCommand, RunnerInv, RunnerTypeOK
<1>4. QED
  BY <1>1, <1>2, <1>3, AtCommandTypes, MovePC DEF SkipCommand

\* A step that starts a handler call on an object of the manifest.
LEMMA BeginCall ==
    ASSUME RunnerInv, manifest \in ManifestType, manifest # NoManifest,
           NEW site \in Site, NEW c \in Command, NEW is_component \in BOOLEAN,
           NEW index \in Nat, HasObject(is_component, index),
           call' = HandlerCall(site, c, is_component, index),
           program_counter' \in Continuation,
           program_counter'.next = program_counter.next,
           ~suspended,
           UNCHANGED <<manifest, stack, selected, bindings, has_error, suspended,
                       fetch, crashed, files, installs>>
    PROVE  RunnerInv'
<1>1. /\ call' \in Call
      /\ call'.target.is_component = is_component
      /\ call'.target.index = index
  BY DEF HandlerCall, Call, Target
<1>2. RunnerTypeOK'
  BY <1>1 DEF RunnerInv, RunnerTypeOK
<1>3. StackShape' /\ BinderUnique' /\ SuspendedOnComponent'
  BY DEF RunnerInv, StackShape, BinderUnique, SuspendedOnComponent
<1>4. CallsOnObject'
  BY <1>1 DEF RunnerInv, CallsOnObject, HasObject
<1>5. QED
  BY <1>2, <1>3, <1>4 DEF RunnerInv

LEMMA CallOnIndexInv == RunnerInv /\ CallOnIndex => RunnerInv'
<1> SUFFICES ASSUME RunnerInv, CallOnIndex PROVE RunnerInv'
  OBVIOUS
<1>1. AtCommand
  BY DEF CallOnIndex
<1>2. program_counter' \in Continuation /\ program_counter'.next = program_counter.next
  BY <1>1, AtCommandTypes, ContinuationTypes DEF CallOnIndex
<1>3. /\ selected.param \in Selection /\ selected.is_component \in BOOLEAN
      /\ manifest # NoManifest
  BY <1>1, AtCommandTypes DEF RunnerInv, RunnerTypeOK, CallsOnObject
<1>4. selected.param.list[1] \in Nat
  BY <1>3, SelectionList DEF CallOnIndex
<1>5. "index" \in Site
  BY DEF Site
<1>6. QED
  BY <1>1, <1>2, <1>3, <1>4, <1>5, AtCommandTypes, BeginCall DEF CallOnIndex

LEMMA CallOnNextInv == RunnerInv /\ CallOnNext => RunnerInv'
<1> SUFFICES ASSUME RunnerInv, CallOnNext PROVE RunnerInv'
  OBVIOUS
<1>1. Running("command")
  BY DEF CallOnNext
<1>2. /\ program_counter.command \in Command /\ program_counter.is_component \in BOOLEAN
      /\ program_counter.index \in Nat
      /\ manifest # NoManifest
  BY <1>1, AtTargetTypes DEF CommandCont, RunnerInv, CallsOnObject
<1>3. program_counter' \in CommandCont
  <2>1. program_counter' = [program_counter EXCEPT !.index = program_counter.index + 1]
    BY DEF CallOnNext
  <2>2. program_counter.index + 1 \in Nat
    BY <1>2
  <2>3. program_counter \in CommandCont
    BY <1>1, AtTargetTypes
  <2>4. QED
    BY <2>1, <2>2, <2>3 DEF CommandCont
<1>4. program_counter' \in Continuation /\ program_counter'.next = program_counter.next
  BY <1>1, <1>3, AtTargetTypes, ContinuationTypes
<1>5. "all" \in Site
  BY DEF Site
<1>6. QED
  BY <1>1, <1>2, <1>4, <1>5, AtTargetTypes, BeginCall DEF CallOnNext

LEMMA CallOnElementInv == RunnerInv /\ CallOnElement => RunnerInv'
<1> SUFFICES ASSUME RunnerInv, CallOnElement PROVE RunnerInv'
  OBVIOUS
<1>1. Running("command") /\ program_counter.array # <<>>
  BY DEF CallOnElement
<1>2. /\ program_counter.command \in Command /\ program_counter.is_component \in BOOLEAN
      /\ program_counter.array \in Seq(Int)
      /\ manifest # NoManifest
  BY <1>1, AtTargetTypes DEF CommandCont, RunnerInv, CallsOnObject
<1>3. Head(program_counter.array) \in Int /\ Tail(program_counter.array) \in Seq(Int)
  BY <1>1, <1>2, HeadTailProperties
<1>4. program_counter' \in CommandCont
  BY <1>1, <1>3, AtTargetTypes DEF CallOnElement, CommandCont
<1>5. program_counter' \in Continuation /\ program_counter'.next = program_counter.next
  BY <1>1, <1>4, AtTargetTypes, ContinuationTypes
<1>6. CASE HasObject(program_counter.is_component, Head(program_counter.array))
  <2>1. Head(program_counter.array) \in Nat
    BY <1>3, <1>6 DEF HasObject
  <2>2. "array" \in Site
    BY DEF Site
  <2>3. QED
    BY <1>1, <1>2, <1>5, <1>6, <2>1, <2>2, AtTargetTypes, BeginCall DEF CallOnElement
<1>7. CASE ~HasObject(program_counter.is_component, Head(program_counter.array))
  <2>1. has_error' \in BOOLEAN /\ selected' \in [is_component : BOOLEAN, param : Selection]
    BY <1>7 DEF CallOnElement, MarkError, RunnerInv, RunnerTypeOK
  <2>2. QED
    BY <1>1, <1>5, <1>7, <2>1, AtTargetTypes, MovePC DEF CallOnElement
<1>8. QED
  BY <1>6, <1>7

\* push_program_counter finds room: the stack holds one continuation of at least two.
LEMMA EnterCommandInv == RunnerInv /\ EnterCommand => RunnerInv'
<1> SUFFICES ASSUME RunnerInv, EnterCommand PROVE RunnerInv'
  OBVIOUS
<1> DEFINE pc == CommandPC(NextCommand, selected.is_component, selected.param)
<1>1. AtCommand
  BY DEF EnterCommand
<1>2. /\ selected.param \in Selection /\ selected.is_component \in BOOLEAN
      /\ manifest # NoManifest
  BY <1>1, AtCommandTypes DEF RunnerInv, RunnerTypeOK, CallsOnObject
<1>3. selected.param.list \in Seq(Int)
  BY <1>2, SelectionList DEF EnterCommand
<1>4. pc \in CommandCont
  BY <1>1, <1>2, <1>3, AtCommandTypes DEF CommandPC, CommandCont
<1>5. Len(stack) = 1 /\ Len(stack) # SUIT_STACK_MAX
  BY <1>1, AtCommandTypes, SuitRunnerAssumption
<1>6. /\ stack' = Append(stack, Advanced)
      /\ program_counter' = pc
      /\ has_error' = has_error
  BY <1>5 DEF EnterCommand, PushProgramCounter
<1>7. Advanced \in Continuation /\ Advanced.next = "sequence"
  BY <1>1, AtCommandTypes, ContinuationTypes
<1>8. /\ stack' \in Seq(Continuation)
      /\ Len(stack') = 2 /\ stack'[1] = ExitPC /\ stack'[2] = Advanced
  <2>1. stack \in Seq(Continuation) /\ stack = <<ExitPC>>
    BY <1>1, AtCommandTypes DEF RunnerInv, RunnerTypeOK
  <2>2. /\ Append(stack, Advanced) \in Seq(Continuation)
        /\ Len(Append(stack, Advanced)) = Len(stack) + 1
        /\ \A i \in 1 .. Len(stack) : Append(stack, Advanced)[i] = stack[i]
        /\ Append(stack, Advanced)[Len(stack) + 1] = Advanced
    BY <1>7, <2>1, AppendProperties
  <2>3. Len(stack) = 1 /\ stack[1] = ExitPC
    BY <2>1
  <2>4. QED
    BY <1>6, <2>2, <2>3
<1>9. pc \in Continuation /\ pc.next = "command"
  BY <1>4, ContinuationTypes
<1> HIDE DEF pc
<1>10. RunnerTypeOK'
  BY <1>6, <1>8, <1>9 DEF EnterCommand, RunnerInv, RunnerTypeOK
<1>11. StackShape'
  BY <1>6, <1>7, <1>8, <1>9 DEF StackShape
<1>12. BinderUnique' /\ SuspendedOnComponent'
  BY <1>6 DEF EnterCommand, RunnerInv, BinderUnique, SuspendedOnComponent
<1>13. CallsOnObject'
  BY <1>1, <1>2, AtCommandTypes DEF EnterCommand, CallsOnObject
<1>14. QED
  BY <1>10, <1>11, <1>12, <1>13 DEF RunnerInv

\* pop_program_counter after a sequence: EXIT, and an empty stack.
LEMMA EndOfSequenceInv == RunnerInv /\ EndOfSequence => RunnerInv'
<1> SUFFICES ASSUME RunnerInv, EndOfSequence PROVE RunnerInv'
  OBVIOUS
<1>1. /\ stack = <<ExitPC>> /\ stack \in Seq(Continuation)
      /\ ~suspended /\ call = NoCall
  BY DEF EndOfSequence, Running, RunnerInv, StackShape, RunnerTypeOK
<1>2. Len(stack) = 1 /\ stack[1] = ExitPC /\ stack # <<>>
  BY <1>1
<1>3. /\ program_counter' = stack[Len(stack)]
      /\ stack' = SubSeq(stack, 1, Len(stack) - 1)
      /\ has_error' = has_error
  BY <1>2 DEF EndOfSequence, PopProgramCounter
<1>4. program_counter' = ExitPC /\ stack' = <<>>
  BY <1>2, <1>3, SubSeqEmpty
<1>5. RunnerTypeOK'
  BY <1>3, <1>4, ContinuationTypes, EmptySeq DEF EndOfSequence, RunnerInv, RunnerTypeOK
<1>6. StackShape'
  BY <1>4, ContinuationTypes DEF StackShape
<1>7. BinderUnique' /\ SuspendedOnComponent'
  BY <1>3 DEF EndOfSequence, RunnerInv, BinderUnique, SuspendedOnComponent
<1>8. CallsOnObject'
  BY <1>1, <1>4, ContinuationTypes DEF EndOfSequence, CallsOnObject
<1>9. QED
  BY <1>5, <1>6, <1>7, <1>8 DEF RunnerInv

\* pop_program_counter after a command: back in the sequence that entered it.
LEMMA EndOfCommandInv == RunnerInv /\ EndOfCommand => RunnerInv'
<1> SUFFICES ASSUME RunnerInv, EndOfCommand PROVE RunnerInv'
  OBVIOUS
<1>1. Running("command")
  BY DEF EndOfCommand
<1>2. /\ stack \in Seq(Continuation)
      /\ Len(stack) = 2 /\ stack[1] = ExitPC /\ stack[2].next = "sequence"
      /\ call = NoCall /\ ~suspended
      /\ manifest # NoManifest
  BY <1>1, AtTargetTypes DEF RunnerInv, CallsOnObject
<1>3. stack # <<>> /\ stack[2] \in Continuation
  <2>1. 2 \in 1 .. Len(stack)
    BY <1>2
  <2>2. stack[2] \in Continuation
    BY <1>2, <2>1, ElementOfSeq
  <2>3. stack # <<>>
    BY <1>2
  <2>4. QED
    BY <2>2, <2>3
<1>4. /\ program_counter' = stack[2]
      /\ stack' = SubSeq(stack, 1, 1)
      /\ has_error' = has_error
  BY <1>2, <1>3 DEF EndOfCommand, PopProgramCounter
<1>5. /\ stack' \in Seq(Continuation)
      /\ stack' = <<ExitPC>>
  <2>1. \A i \in 1 .. 1 : stack[i] \in Continuation
    BY <1>2, ContinuationTypes
  <2>2. /\ stack' \in Seq(Continuation)
        /\ Len(stack') = 1 /\ stack'[1] = ExitPC
    BY <1>2, <1>4, <2>1, SubSeqProperties
  <2>3. <<ExitPC>> \in Seq(Continuation) /\ Len(<<ExitPC>>) = 1 /\ <<ExitPC>>[1] = ExitPC
    BY ContinuationTypes
  <2>4. QED
    BY <2>2, <2>3, SeqEqual
<1>6. RunnerTypeOK'
  BY <1>3, <1>4, <1>5 DEF EndOfCommand, RunnerInv, RunnerTypeOK
<1>7. StackShape'
  BY <1>2, <1>4, <1>5 DEF StackShape
<1>8. BinderUnique' /\ SuspendedOnComponent'
  BY <1>4 DEF EndOfCommand, RunnerInv, BinderUnique, SuspendedOnComponent
<1>9. CallsOnObject'
  BY <1>2 DEF EndOfCommand, CallsOnObject
<1>10. QED
  BY <1>6, <1>7, <1>8, <1>9 DEF RunnerInv

\* A handler that returns, with or without an error.
LEMMA ReturnInv ==
    ASSUME RunnerInv, Return, has_error' \in BOOLEAN, ~suspended,
           UNCHANGED <<manifest, program_counter, stack, selected, bindings, suspended,
                       fetch, crashed, files, installs>>
    PROVE  RunnerInv'
BY DEF Return, RunnerInv, RunnerTypeOK, StackShape, BinderUnique,
       SuspendedOnComponent, CallsOnObject, HasObject

LEMMA CallingTypes ==
    ASSUME RunnerInv, NEW ops, Calling(ops)
    PROVE  /\ call \in Call /\ call # NoCall
           /\ manifest \in ManifestType /\ manifest # NoManifest
           /\ ~suspended /\ ~has_error /\ ~crashed
           /\ HasObject(call.target.is_component, call.target.index)
           /\ Frame[call.site] \in Slot
<1>1. call \in Call /\ call # NoCall /\ ~has_error /\ ~crashed
  BY DEF Calling, RunnerInv, RunnerTypeOK
<1>2. /\ manifest \in ManifestType /\ manifest # NoManifest
      /\ ~suspended
      /\ HasObject(call.target.is_component, call.target.index)
  BY <1>1, ManifestLoaded DEF RunnerInv, CallsOnObject
<1>3. Frame[call.site] \in Slot
  BY <1>1, SuitRunnerAssumption DEF Call
<1>4. QED
  BY <1>1, <1>2, <1>3

LEMMA NoOperationInv == RunnerInv /\ NoOperation => RunnerInv'
<1> SUFFICES ASSUME RunnerInv, NoOperation PROVE RunnerInv'
  OBVIOUS
<1>1. ~suspended /\ has_error' \in BOOLEAN
  BY CallingTypes DEF NoOperation, RunnerInv, RunnerTypeOK
<1>2. QED
  BY <1>1, ReturnInv DEF NoOperation

LEMMA EndOfParametersInv == RunnerInv /\ EndOfParameters => RunnerInv'
<1> SUFFICES ASSUME RunnerInv, EndOfParameters PROVE RunnerInv'
  OBVIOUS
<1>1. ~suspended /\ has_error' \in BOOLEAN
  BY CallingTypes DEF EndOfParameters, RunnerInv, RunnerTypeOK
<1>2. QED
  BY <1>1, ReturnInv DEF EndOfParameters

LEMMA FetchErrorInv == RunnerInv /\ FetchError => RunnerInv'
<1> SUFFICES ASSUME RunnerInv, FetchError PROVE RunnerInv'
  OBVIOUS
<1>1. ~suspended /\ has_error' \in BOOLEAN
  BY CallingTypes DEF FetchError, MarkError
<1>2. QED
  BY <1>1, ReturnInv DEF FetchError

\* A set of numbers has a least one.
LEMMA LeastOf ==
    ASSUME NEW T, T \subseteq Nat, T # {}
    PROVE  \E x \in T : \A y \in T : x <= y
<1> DEFINE R == OpToRel(<, Nat)
<1>1. IsWellFoundedOn(R, Nat)
  BY NatLessThanWellFounded
<1> HIDE DEF R
<1>2. PICK x \in T : \A y \in T : ~(<<y, x>> \in R)
  BY <1>1, WFMin
<1>3. \A y \in T : y < x => <<y, x>> \in R
  BY DEF R, OpToRel
<1>4. \A y \in T : ~(y < x) /\ x \in Nat /\ y \in Nat
  BY <1>2, <1>3
<1>5. QED
  BY <1>4

\* What lookup_binder does not find is not there, and what it finds is the first.
LEMMA FirstFound ==
    ASSUME bindings \in Seq(Binding), NEW slot, NEW key
    PROVE  /\ LookupBinder(slot, key) = {} <=> BindersOf(slot, key) = {}
           /\ \A i \in LookupBinder(slot, key) : \A j \in BindersOf(slot, key) : i <= j
<1>1. BindersOf(slot, key) \subseteq Nat
  BY LenProperties DEF BindersOf
<1>2. BindersOf(slot, key) # {} => LookupBinder(slot, key) # {}
  BY <1>1, LeastOf DEF LookupBinder
<1>3. QED
  BY <1>2 DEF LookupBinder

\* The enum keeps a key that fits, and no other.
LEMMA EnumKey ==
    ASSUME NEW key \in Nat
    PROVE  /\ key % KEY_LIMIT \in 0 .. (KEY_LIMIT - 1)
           /\ (key < KEY_LIMIT) => key % KEY_LIMIT = key
           /\ SUIT_PARAMETER_URI < KEY_LIMIT /\ KEY_LIMIT \in Nat
<1>1. KEY_LIMIT \in Nat /\ KEY_LIMIT > 21
  BY SuitRunnerAssumption DEF SUIT_PARAMETER_URI
<1>2. QED
  BY <1>1 DEF SUIT_PARAMETER_URI

\* Changing values keeps the binders, and a binder that repeats an address and
\* key is one for a key wider than the enum, as lookup_binder has not found it.
LEMMA SetParameterInv == RunnerInv /\ SetParameter => RunnerInv'
<1> SUFFICES ASSUME RunnerInv, SetParameter PROVE RunnerInv'
  OBVIOUS
<1> DEFINE slot  == Frame[call.site]
           entry == Head(call.command.arg)
           found == LookupBinder(slot, entry.key)
<1>1. /\ call \in Call /\ call # NoCall
      /\ call.command.op \in Setters /\ call.command.arg # <<>>
      /\ call' = [call EXCEPT !.command.arg = Tail(@)]
  BY CallingTypes DEF SetParameter, Calling
<1>2. /\ slot \in Slot
      /\ ~suspended
      /\ manifest # NoManifest
      /\ HasObject(call.target.is_component, call.target.index)
  BY CallingTypes DEF SetParameter
<1>3. /\ entry \in [key : Int, value : ParamValue]
      /\ call' \in Call
      /\ call'.target = call.target
  BY <1>1, TailOfParameters
<1>4. entry.key \in Int /\ entry.value \in ParamValue
  BY <1>3
<1>5. /\ bindings \in Seq(Binding)
      /\ Len(bindings) \in Nat
      /\ DOMAIN bindings = 1 .. Len(bindings)
      /\ \A i \in DOMAIN bindings : bindings[i] \in Binding
  BY LenProperties, ElementOfSeq DEF RunnerInv, RunnerTypeOK
<1> DEFINE New == NewBinder(slot, entry)
           Changed == [i \in DOMAIN bindings |->
                          IF i \in found THEN [bindings[i] EXCEPT !.value = entry.value]
                                         ELSE bindings[i]]
<1>6. \/ bindings' = bindings
      \/ bindings' = Changed
      \/ entry.key >= 0 /\ found = {} /\ Len(bindings) # SUIT_BINDER_MAX
           /\ bindings' = Append(bindings, New)
  BY DEF SetParameter
<1>7. has_error' \in BOOLEAN
  BY DEF SetParameter, MarkError, RunnerInv, RunnerTypeOK
<1> HIDE DEF slot, entry
<1>8. bindings' \in Seq(Binding) /\ BinderUnique'
  <2>1. BinderUnique
    BY DEF RunnerInv
  <2>2. CASE bindings' = bindings
    BY <1>5, <2>1, <2>2 DEF BinderUnique
  <2>3. CASE bindings' = Changed
    <3>1. \A i \in DOMAIN bindings : /\ Changed[i] \in Binding
                                     /\ Changed[i].target = bindings[i].target
                                     /\ Changed[i].key = bindings[i].key
                                     /\ Changed[i].given = bindings[i].given
      BY <1>4, <1>5 DEF Binding
    <3>2. Changed \in [1 .. Len(bindings) -> Binding]
      BY <1>5, <3>1
    <3>3. Changed \in Seq(Binding)
      BY <1>5, <3>2, SeqDef
    <3>4. DOMAIN Changed = DOMAIN bindings
      OBVIOUS
    <3>5. Len(Changed) = Len(bindings)
      BY <1>5, <3>3, <3>4, LenProperties
    <3> HIDE DEF Changed
    <3>6. BinderUnique'
      BY <2>1, <2>3, <3>1, <3>4, <3>5 DEF BinderUnique
    <3>7. QED
      BY <2>3, <3>3, <3>6
  <2>4. CASE /\ entry.key >= 0 /\ found = {} /\ Len(bindings) # SUIT_BINDER_MAX
             /\ bindings' = Append(bindings, New)
    <3>1. New \in Binding
      <4>1. entry.key \in Nat
        BY <1>4, <2>4
      <4>2. entry.key % KEY_LIMIT \in 0 .. (KEY_LIMIT - 1)
        BY <4>1, EnumKey
      <4>3. QED
        BY <1>2, <1>4, <4>1, <4>2 DEF Binding, NewBinder
    <3>2. /\ bindings' \in Seq(Binding)
          /\ Len(bindings') = Len(bindings) + 1
          /\ \A i \in 1 .. Len(bindings) : bindings'[i] = bindings[i]
          /\ bindings'[Len(bindings) + 1] = New
      BY <1>5, <2>4, <3>1, AppendProperties
    <3>3. DOMAIN bindings' = 1 .. Len(bindings) + 1
      BY <3>2, LenProperties
    <3>4. Len(bindings') <= SUIT_BINDER_MAX
      <4>1. Len(bindings) <= SUIT_BINDER_MAX /\ SUIT_BINDER_MAX \in Nat
        BY <2>1, SuitRunnerAssumption DEF BinderUnique
      <4>2. Len(bindings) # SUIT_BINDER_MAX
        BY <2>4
      <4>3. Len(bindings) \in Nat
        BY <1>5
      <4>4. Len(bindings) + 1 <= SUIT_BINDER_MAX
        BY <4>1, <4>2, <4>3
      <4>5. QED
        BY <3>2, <4>4
    <3>5. \A i \in 1 .. Len(bindings) :
             ~(bindings[i].target = slot /\ bindings[i].key = entry.key)
      BY <1>5, <2>4, FirstFound DEF BindersOf
    <3>6. /\ New.target = slot /\ New.given = entry.key
          /\ (entry.key < KEY_LIMIT) => New.key = entry.key
          /\ entry.key \in Nat /\ KEY_LIMIT \in Nat
      <4>1. entry.key \in Nat
        BY <1>4, <2>4
      <4>2. KEY_LIMIT \in Nat /\ ((entry.key < KEY_LIMIT) => entry.key % KEY_LIMIT = entry.key)
        BY <4>1, EnumKey
      <4>3. QED
        BY <4>1, <4>2 DEF NewBinder
    <3> HIDE DEF New
    <3>7. ASSUME NEW i \in DOMAIN bindings', NEW j \in DOMAIN bindings', i < j,
                 bindings'[i].target = bindings'[j].target,
                 bindings'[i].key = bindings'[j].key
          PROVE  bindings'[j].given >= KEY_LIMIT
      <4>1. CASE i \in 1 .. Len(bindings) /\ j \in 1 .. Len(bindings)
        BY <1>5, <2>1, <3>2, <3>7, <4>1 DEF BinderUnique
      <4>2. CASE i \in 1 .. Len(bindings) /\ j = Len(bindings) + 1
        BY <1>5, <3>2, <3>3, <3>5, <3>6, <3>7, <4>2
      <4>3. QED
        BY <1>5, <3>3, <3>7, <4>1, <4>2
    <3>8. QED
      BY <3>2, <3>4, <3>7 DEF BinderUnique
  <2>5. QED
    BY <1>6, <2>2, <2>3, <2>4
<1>9. RunnerTypeOK'
  BY <1>3, <1>7, <1>8 DEF SetParameter, RunnerInv, RunnerTypeOK
<1>10. StackShape' /\ SuspendedOnComponent'
  BY <1>2 DEF SetParameter, RunnerInv, StackShape, SuspendedOnComponent
<1>11. CallsOnObject'
  BY <1>2, <1>3 DEF SetParameter, CallsOnObject, HasObject
<1>12. QED
  BY <1>8, <1>9, <1>10, <1>11 DEF RunnerInv

\* The path of a fetch names a component of the manifest being run.
LEMMA FetchPath ==
    ASSUME RunnerInv, NEW ops, Calling(ops), call.target.is_component, TargetPath # NoPath
    PROVE  TargetPath \in DeclaredPaths(manifest) /\ TargetPath \in Path
<1>1. call \in Call /\ manifest \in ManifestType
  BY CallingTypes
<1>2. call.target.index \in Nat
  BY <1>1 DEF Call, Target
<1>3. call.target.index < Len(manifest.components)
  BY CallingTypes DEF HasObject
<1>4. QED
  BY <1>1, <1>2, <1>3, DeclaredPath DEF TargetPath

LEMMA FetchRemoteInv == RunnerInv /\ FetchRemote => RunnerInv'
<1> SUFFICES ASSUME RunnerInv, FetchRemote PROVE RunnerInv'
  OBVIOUS
<1>1. /\ Calling({"fetch"}) /\ call.target.is_component /\ TargetPath # NoPath
      /\ call' = NoCall
      /\ suspended' = TRUE
  BY DEF FetchRemote, Return
<1>2. PICK uri \in RemoteUri : fetch' = [uri |-> uri, path |-> TargetPath]
  BY DEF FetchRemote
<1>3. TargetPath \in DeclaredPaths(manifest) /\ TargetPath \in Path
  BY <1>1, FetchPath
<1>4. ~has_error /\ ~crashed /\ manifest # NoManifest
  BY <1>1, CallingTypes
<1>5. RunnerTypeOK'
  BY <1>1, <1>2, <1>3 DEF FetchRemote, RunnerInv, RunnerTypeOK
<1>6. StackShape' /\ BinderUnique'
  BY DEF FetchRemote, RunnerInv, StackShape, BinderUnique
<1>7. SuspendedOnComponent'
  BY <1>1, <1>2, <1>3, <1>4 DEF FetchRemote, SuspendedOnComponent, DeclaredPaths
<1>8. CallsOnObject'
  BY <1>1, <1>4 DEF FetchRemote, CallsOnObject
<1>9. QED
  BY <1>5, <1>6, <1>7, <1>8 DEF RunnerInv

\* A store_component call of the runner, for a file name and a body.
LEMMA StoreInv ==
    ASSUME RunnerInv, NEW path \in Path, NEW uri \in ParamValue, NEW body \in Body,
           files' \in StoreComponent(files, path, body),
           installs' = Append(installs, [path |-> path, uri |-> uri, body |-> body])
    PROVE  IsStore(files') /\ installs' \in Seq([path : Path, uri : ParamValue, body : Body])
<1>1. IsStore(files) /\ installs \in Seq([path : Path, uri : ParamValue, body : Body])
  BY DEF RunnerInv, RunnerTypeOK
<1>2. IsStore(files')
  BY <1>1, StoreComponentStore
<1>3. QED
  BY <1>1, <1>2, AppendProperties

\* A field that can be read is a body.
LEMMA FieldBody ==
    ASSUME NEW m \in ManifestType, NEW uri, ~FieldUnreadable(m, uri)
    PROVE  EnvelopeField(m, uri) \in Body
<1>1. uri \in DOMAIN m.payloads => m.payloads[uri] \in Body \cup {NotBstr}
  BY DEF ManifestType
<1>2. <<>> \in Body
  BY DEF Body
<1>3. QED
  BY <1>1, <1>2 DEF EnvelopeField, FieldUnreadable

LEMMA FetchLocalInv == RunnerInv /\ FetchLocal => RunnerInv'
<1> SUFFICES ASSUME RunnerInv, FetchLocal PROVE RunnerInv'
  OBVIOUS
<1>1. /\ Calling({"fetch"})
      /\ call' = NoCall
      /\ UNCHANGED <<manifest, program_counter, stack, selected, bindings,
                     has_error, suspended, fetch, crashed>>
  BY DEF FetchLocal, Return
<1>2. PICK uri \in LocalUri :
         /\ ~FieldUnreadable(manifest, uri)
         /\ IF call.target.is_component
            THEN /\ TargetPath # NoPath
                 /\ files' \in StoreComponent(files, TargetPath, EnvelopeField(manifest, uri))
                 /\ installs' = Append(installs, [path |-> TargetPath, uri |-> uri,
                                                  body |-> EnvelopeField(manifest, uri)])
            ELSE UNCHANGED <<files, installs>>
  BY DEF FetchLocal
<1>3. manifest \in ManifestType /\ ~suspended
  BY <1>1, CallingTypes
<1>4. IsStore(files') /\ installs' \in Seq([path : Path, uri : ParamValue, body : Body])
  <2>1. CASE call.target.is_component
    <3>1. TargetPath \in Path
      BY <1>1, <1>2, <2>1, FetchPath
    <3>2. EnvelopeField(manifest, uri) \in Body
      BY <1>2, <1>3, FieldBody
    <3>3. uri \in ParamValue
      BY DEF ParamValue
    <3>4. QED
      BY <1>2, <2>1, <3>1, <3>2, <3>3, StoreInv
  <2>2. CASE ~call.target.is_component
    BY <1>2, <2>2 DEF RunnerInv, RunnerTypeOK
  <2>3. QED
    BY <2>1, <2>2
<1>5. RunnerTypeOK'
  BY <1>1, <1>4 DEF RunnerInv, RunnerTypeOK
<1>6. StackShape' /\ BinderUnique' /\ SuspendedOnComponent' /\ CallsOnObject'
  BY <1>1, <1>3 DEF RunnerInv, StackShape, BinderUnique, SuspendedOnComponent, CallsOnObject
<1>7. QED
  BY <1>5, <1>6 DEF RunnerInv

\* A download is stored under a declared path, and the runner goes on.
LEMMA StoreAndResumeInv ==
    ASSUME RunnerInv, Suspended, NEW body \in Body, StoreAndResume(body)
    PROVE  RunnerInv'
<1>1. /\ suspended /\ ~has_error
      /\ manifest \in ManifestType
      /\ fetch.path \in DeclaredPaths(manifest)
      /\ call = NoCall
  BY ManifestLoaded DEF Suspended, RunnerInv, SuspendedOnComponent
<1>2. fetch.path \in Path
  BY <1>1, DeclaredPath
<1>3. fetch.uri \in ParamValue
  BY DEF RunnerInv, RunnerTypeOK, ParamValue
<1>4. IsStore(files') /\ installs' \in Seq([path : Path, uri : ParamValue, body : Body])
  BY <1>2, <1>3, StoreInv DEF StoreAndResume
<1>5. suspended' = FALSE
  BY <1>1 DEF StoreAndResume
<1>6. RunnerTypeOK'
  BY <1>4, <1>5 DEF StoreAndResume, RunnerInv, RunnerTypeOK
<1>7. StackShape' /\ BinderUnique' /\ SuspendedOnComponent' /\ CallsOnObject'
  BY <1>1, <1>5 DEF StoreAndResume, RunnerInv, StackShape, BinderUnique,
                    SuspendedOnComponent, CallsOnObject
<1>8. QED
  BY <1>6, <1>7 DEF RunnerInv

LEMMA SuitRunnerInitInv ==
    ASSUME RunnerInv, NEW m \in Manifest, SuitRunnerInit(m)
    PROVE  RunnerInv'
<1>1. m \in ManifestType /\ m # NoManifest
  BY ManifestAssumption, SuitRunnerAssumption
<1>2. /\ m.common.cmds \in Seq(Command)
      /\ m.install.cmds \in Seq(Command)
  BY <1>1 DEF ManifestType, CommandSequence
<1>3. SequencePC(m.common.cmds, m.install.cmds) \in SequenceCont
  BY <1>2 DEF SequencePC, SequenceCont
<1>4. selected' \in [is_component : BOOLEAN, param : Selection]
  BY DEF SuitRunnerInit, Selection
<1>5. /\ program_counter' \in Continuation
      /\ stack' \in Seq(Continuation)
      /\ StackShape'
  <2>1. CASE SequenceReadable(m)
    <3>1. /\ program_counter' = SequencePC(m.common.cmds, m.install.cmds)
          /\ stack' = <<ExitPC>>
      BY <2>1 DEF SuitRunnerInit
    <3>2. program_counter' \in Continuation /\ program_counter'.next = "sequence"
      BY <1>3, <3>1, ContinuationTypes
    <3>3. stack' \in Seq(Continuation)
      BY <3>1, ContinuationTypes
    <3>4. QED
      BY <3>1, <3>2, <3>3 DEF StackShape
  <2>2. CASE ~SequenceReadable(m)
    BY <2>2, ContinuationTypes, EmptySeq DEF SuitRunnerInit, StackShape
  <2>3. QED
    BY <2>1, <2>2
<1>6. /\ bindings' = <<>> /\ installs' = <<>>
      /\ call' = NoCall /\ ~suspended' /\ manifest' = m
  BY DEF SuitRunnerInit
<1>7. RunnerTypeOK'
  BY <1>1, <1>4, <1>5, <1>6, EmptySeq DEF SuitRunnerInit, SequenceMisread, RunnerInv,
                                          RunnerTypeOK
<1>8. BinderUnique'
  <2>1. Len(bindings') = 0 /\ DOMAIN bindings' = {}
    BY <1>6
  <2>2. QED
    BY <2>1, SuitRunnerAssumption DEF BinderUnique
<1>9. SuspendedOnComponent' /\ CallsOnObject'
  BY <1>1, <1>6 DEF SuspendedOnComponent, CallsOnObject
<1>10. QED
  BY <1>5, <1>7, <1>8, <1>9 DEF RunnerInv

\* Every step of suit_runner_run preserves the invariant.
LEMMA RunStepInv == RunnerInv /\ RunStep => RunnerInv'
BY EndOfSequenceInv, SetIndexInv, SequenceErrorInv, SkipCommandInv, CallOnIndexInv,
   EnterCommandInv, CallOnNextInv, CallOnElementInv, EndOfCommandInv, NoOperationInv,
   SetParameterInv, EndOfParametersInv, FetchErrorInv, FetchLocalInv, FetchRemoteInv
   DEF RunStep

LEMMA RunnerInitInv == RunnerInit => RunnerInv
<1> SUFFICES ASSUME RunnerInit PROVE RunnerInv
  OBVIOUS
<1>1. IsStore(files)
  <2>1. files \in [{} -> Seq(Block)]
    BY DEF RunnerInit
  <2>2. QED
    BY <2>1 DEF IsStore
<1>2. selected \in [is_component : BOOLEAN, param : Selection]
  BY DEF RunnerInit, Selection
<1>3. RunnerTypeOK
  BY <1>1, <1>2, EmptySeq, ContinuationTypes DEF RunnerInit, RunnerTypeOK, NoFetch
<1>4. StackShape
  BY ContinuationTypes DEF RunnerInit, StackShape
<1>5. BinderUnique
  <2>1. Len(bindings) = 0 /\ DOMAIN bindings = {}
    BY DEF RunnerInit
  <2>2. QED
    BY <2>1, SuitRunnerAssumption DEF BinderUnique
<1>6. SuspendedOnComponent /\ CallsOnObject
  BY ContinuationTypes DEF RunnerInit, SuspendedOnComponent, CallsOnObject
<1>7. QED
  BY <1>3, <1>4, <1>5, <1>6 DEF RunnerInv

LEMMA RunnerStutterInv == RunnerInv /\ UNCHANGED runnerVars => RunnerInv'
BY DEF runnerVars, RunnerInv, RunnerTypeOK, StackShape, BinderUnique,
       SuspendedOnComponent, CallsOnObject, HasObject

LEMMA RunnerNextInv == RunnerInv /\ [RunnerNext]_runnerVars => RunnerInv'
<1> SUFFICES ASSUME RunnerInv, [RunnerNext]_runnerVars PROVE RunnerInv'
  OBVIOUS
<1>1. CASE Start
  BY <1>1, SuitRunnerInitInv DEF Start
<1>2. CASE RunStep
  BY <1>2, RunStepInv
<1>3. CASE Download
  BY <1>3, StoreAndResumeInv DEF Download
<1>4. CASE UNCHANGED runnerVars
  BY <1>4, RunnerStutterInv
<1>5. QED
  BY <1>1, <1>2, <1>3, <1>4 DEF RunnerNext

----------------------------------------------------------------------------
(* The theorems.                                                           *)

\* The inductive invariant holds in every state of the runner.
THEOREM RunnerInvariant == RunnerSpec => []RunnerInv
<1>1. QED
  BY RunnerInitInv, RunnerNextInv, PTL DEF RunnerSpec

\* Every variable of the runner keeps the type suit_runner_t gives it.
THEOREM RunnerTypeCorrect == RunnerSpec => []RunnerTypeOK
<1>1. RunnerInv => RunnerTypeOK
  BY DEF RunnerInv
<1>2. QED
  BY <1>1, RunnerInvariant, PTL

\* push_program_counter never overflows and pop_program_counter never underflows,
\* for every manifest and every SUIT_STACK_MAX of at least two.
THEOREM StackNeverOverflows == RunnerSpec => []StackShape
<1>1. RunnerInv => StackShape
  BY DEF RunnerInv
<1>2. QED
  BY <1>1, RunnerInvariant, PTL

\* The binding array stays within SUIT_BINDER_MAX, with one binder per address and key.
THEOREM BindersUnique == RunnerSpec => []BinderUnique
<1>1. RunnerInv => BinderUnique
  BY DEF RunnerInv
<1>2. QED
  BY <1>1, RunnerInvariant, PTL

\* A download that is outstanding will be stored in a component of the manifest.
THEOREM DownloadsHaveComponent == RunnerSpec => []SuspendedOnComponent
<1>1. RunnerInv => SuspendedOnComponent
  BY DEF RunnerInv
<1>2. QED
  BY <1>1, RunnerInvariant, PTL

\* Every handler call is on an object of the manifest being run.
THEOREM CallsHaveObject == RunnerSpec => []CallsOnObject
<1>1. RunnerInv => CallsOnObject
  BY DEF RunnerInv
<1>2. QED
  BY <1>1, RunnerInvariant, PTL

----------------------------------------------------------------------------
(* Which files a step can change.                                          *)

\* Off OP-TEE, store_component touches no file but the one it is given.
LEMMA StoreComponentLocal ==
    ASSUME Platform # "optee", NEW fs, NEW path, NEW body,
           NEW after \in StoreComponent(fs, path, body),
           NEW q \in Path \ {path}
    PROVE  /\ (q \in DOMAIN after) = (q \in DOMAIN fs)
           /\ q \in DOMAIN fs => after[q] = fs[q]
<1>1. after = fs \/ \E content : after = PutFile(fs, path, content)
  BY DEF StoreComponent, FailedWrites
<1>2. ASSUME NEW content, after = PutFile(fs, path, content)
      PROVE  /\ (q \in DOMAIN after) = (q \in DOMAIN fs)
             /\ q \in DOMAIN fs => after[q] = fs[q]
  BY <1>2 DEF PutFile
<1>3. QED
  BY <1>1, <1>2

LEMMA RunnerNextStores ==
    ASSUME RunnerInv, [RunnerNext]_runnerVars, Platform # "optee", files' # files
    PROVE  OneFileChanged(manifest, files, files')
<1>1. CASE FetchLocal
  <2>1. /\ Calling({"fetch"}) /\ call.target.is_component /\ TargetPath # NoPath
        /\ \E uri : files' \in StoreComponent(files, TargetPath, EnvelopeField(manifest, uri))
    BY <1>1 DEF FetchLocal
  <2>2. TargetPath \in DeclaredPaths(manifest)
    BY <2>1, FetchPath
  <2>3. QED
    BY <2>1, <2>2, StoreComponentLocal DEF OneFileChanged
<1>2. CASE Download
  <2>1. suspended /\ \E body : files' \in StoreComponent(files, fetch.path, body)
    BY <1>2 DEF Download, Suspended, StoreAndResume
  <2>2. fetch.path \in DeclaredPaths(manifest)
    BY <2>1 DEF RunnerInv, SuspendedOnComponent
  <2>3. QED
    BY <2>1, <2>2, StoreComponentLocal DEF OneFileChanged
<1>3. CASE Start
  BY <1>3 DEF Start, SuitRunnerInit
<1>4. CASE RunStep /\ ~FetchLocal
  BY <1>4 DEF RunStep, EndOfSequence, SetIndex, SequenceError, SkipCommand, CallOnIndex,
              EnterCommand, CallOnNext, CallOnElement, EndOfCommand, NoOperation,
              SetParameter, EndOfParameters, FetchError, FetchRemote
<1>5. CASE UNCHANGED runnerVars
  BY <1>5 DEF runnerVars
<1>6. QED
  BY <1>1, <1>2, <1>3, <1>4, <1>5 DEF RunnerNext

\* Whatever a manifest says and wherever a write fails, only the files of the
\* manifest's own components change.
THEOREM StoresOnlyDeclared == RunnerSpec => StoresDeclared
<1>1. RunnerInv /\ [RunnerNext]_runnerVars
        => [Platform # "optee" /\ files' # files
              => OneFileChanged(manifest, files, files')]_runnerVars
  BY RunnerNextStores
<1>2. QED
  BY <1>1, RunnerInvariant, PTL DEF RunnerSpec, StoresDeclared
----------------------------------------------------------------------------
(* The loops of the reference.                                             *)

\* A set of numbers with no least number outside it has them all.
LEMMA SetInduction ==
    ASSUME NEW S, 0 \in S, \A n \in Nat : n \in S => n + 1 \in S
    PROVE  \A n \in Nat : n \in S
<1> DEFINE R == OpToRel(<, Nat)
           T == Nat \ S
<1>1. IsWellFoundedOn(R, Nat)
  BY NatLessThanWellFounded
<1>2. ASSUME T # {} PROVE FALSE
  <2> HIDE DEF R
  <2>1. PICK x \in T : \A y \in T : ~(<<y, x>> \in R)
    BY <1>1, <1>2, WFMin
  <2>2. x \in Nat /\ x # 0 /\ x - 1 \in Nat
    OBVIOUS
  <2>3. <<x - 1, x>> \in R
    BY <2>2 DEF R, OpToRel
  <2>4. x - 1 \in S
    BY <2>1, <2>2, <2>3
  <2>5. QED
    BY <2>2, <2>4
<1>3. QED
  BY <1>2


\* One turn of a loop of the reference: an entry of a parameter map, a target of a
\* command or a command of a sequence.
Turn(loop, a, b, c, st, x) ==
    IF loop = "entries" THEN RefBind(st, a, b, x)
    ELSE IF loop = "targets" THEN RefHandle(a, b, c, st, x)
    ELSE RefCommand(a, b, c, st, x)

\* f has the states of the loop over s after each of n turns.
NTurns(f, n, loop, a, b, c, st, s) ==
    f = [i \in 0 .. n |-> IF i = 0 THEN st ELSE Turn(loop, a, b, c, f[i - 1], s[i])]
Turns(f, loop, a, b, c, st, s) == NTurns(f, Len(s), loop, a, b, c, st, s)

\* The state at the end of the loop.
Folded(loop, a, b, c, st, s) == (CHOOSE f : Turns(f, loop, a, b, c, st, s))[Len(s)]

\* The recursive function of a loop exists: it is built turn by turn.
LEMMA TurnsExist ==
    ASSUME NEW loop, NEW a, NEW b, NEW c, NEW st, NEW s, Len(s) \in Nat
    PROVE  \E f : Turns(f, loop, a, b, c, st, s)
<1> DEFINE D == {n \in Nat : \E f : NTurns(f, n, loop, a, b, c, st, s)}
<1>1. 0 \in D
  <2>1. NTurns([i \in 0 .. 0 |-> st], 0, loop, a, b, c, st, s)
    BY DEF NTurns
  <2>2. QED
    BY <2>1
<1>2. ASSUME NEW n \in Nat, n \in D PROVE n + 1 \in D
  <2>1. PICK f : NTurns(f, n, loop, a, b, c, st, s)
    BY <1>2
  <2> DEFINE next == [i \in 0 .. (n + 1) |-> IF i = n + 1 THEN Turn(loop, a, b, c, f[n], s[n + 1]) ELSE f[i]]
  <2>2. ASSUME NEW i \in 0 .. (n + 1)
        PROVE  next[i] = IF i = 0 THEN st ELSE Turn(loop, a, b, c, next[i - 1], s[i])
    <3>1. CASE i = n + 1
      <4>1. i # 0 /\ i - 1 = n /\ n \in 0 .. (n + 1) /\ n # n + 1
        BY <3>1
      <4>2. next[n] = f[n] /\ next[i] = Turn(loop, a, b, c, f[n], s[i])
        BY <3>1, <4>1
      <4>3. QED
        BY <4>1, <4>2
    <3>2. CASE i \in 0 .. n
      <4>1. f[i] = IF i = 0 THEN st ELSE Turn(loop, a, b, c, f[i - 1], s[i])
        BY <2>1, <3>2 DEF NTurns
      <4>2. next[i] = f[i] /\ (i # 0 => next[i - 1] = f[i - 1])
        BY <3>2
      <4>3. QED
        BY <4>1, <4>2
    <3>3. QED
      BY <3>1, <3>2
  <2>3. NTurns(next, n + 1, loop, a, b, c, st, s)
    BY <2>2 DEF NTurns
  <2>4. QED
    BY <2>3
<1>3. \A n \in Nat : n \in D
  <2> HIDE DEF D
  <2>1. QED
    BY <1>1, <1>2, SetInduction
<1>4. QED
  BY <1>3 DEF Turns

\* The states of a loop are determined by where it starts.
LEMMA FoldedTurns ==
    ASSUME NEW loop, NEW a, NEW b, NEW c, NEW st, NEW s, Len(s) \in Nat
    PROVE  \E f : /\ Turns(f, loop, a, b, c, st, s)
                  /\ Folded(loop, a, b, c, st, s) = f[Len(s)]
  BY TurnsExist, Zenon DEF Folded

\* A loop over nothing.
LEMMA FoldedEmpty ==
    ASSUME NEW loop, NEW a, NEW b, NEW c, NEW st
    PROVE  Folded(loop, a, b, c, st, <<>>) = st
<1>1. Len(<<>>) = 0
  OBVIOUS
<1>2. PICK f : Turns(f, loop, a, b, c, st, <<>>) /\ Folded(loop, a, b, c, st, <<>>) = f[0]
  BY <1>1, FoldedTurns
<1>3. f[0] = st
  BY <1>1, <1>2 DEF Turns, NTurns
<1>4. QED
  BY <1>2, <1>3

\* A loop is its first turn, and the loop over the rest.
LEMMA FoldedHead ==
    ASSUME NEW loop, NEW a, NEW b, NEW c, NEW st, NEW S, NEW s \in Seq(S), s # <<>>
    PROVE  Folded(loop, a, b, c, st, s)
             = Folded(loop, a, b, c, Turn(loop, a, b, c, st, Head(s)), Tail(s))
<1> DEFINE t == Tail(s)
           st2 == Turn(loop, a, b, c, st, Head(s))
           n == Len(t)
<1>1. /\ Len(s) \in Nat /\ n \in Nat /\ Len(s) = n + 1
      /\ Head(s) = s[1]
      /\ \A i \in 1 .. n : t[i] = s[i + 1]
  BY LenProperties, HeadTailProperties
<1>2. PICK f : Turns(f, loop, a, b, c, st, s) /\ Folded(loop, a, b, c, st, s) = f[Len(s)]
  BY <1>1, FoldedTurns
<1> HIDE DEF st2, t
<1>3. PICK g : Turns(g, loop, a, b, c, st2, t) /\ Folded(loop, a, b, c, st2, t) = g[n]
  BY <1>1, FoldedTurns
<1> DEFINE D == {i \in Nat : i <= n => g[i] = f[i + 1]}
<1> HIDE DEF n
<1>4. 0 \in D
  <2>1. g[0] = st2
    BY <1>1, <1>3 DEF Turns, NTurns, n
  <2>2. f[0] = st /\ f[1] = Turn(loop, a, b, c, f[0], s[1])
    BY <1>1, <1>2 DEF Turns, NTurns
  <2>3. QED
    BY <1>1, <2>1, <2>2 DEF st2
<1>5. ASSUME NEW i \in Nat, i \in D PROVE i + 1 \in D
  <2>1. SUFFICES ASSUME i + 1 <= n PROVE g[i + 1] = f[i + 2]
    OBVIOUS
  <2>2. g[i] = f[i + 1]
    BY <1>1, <1>5, <2>1
  <2>3. g[i + 1] = Turn(loop, a, b, c, g[i], t[i + 1])
    <3>1. i + 1 \in 0 .. n /\ i + 1 # 0 /\ (i + 1) - 1 = i
      BY <1>1, <2>1
    <3>2. g[i + 1] = IF i + 1 = 0 THEN st2 ELSE Turn(loop, a, b, c, g[(i + 1) - 1], t[i + 1])
      BY <1>3, <3>1 DEF Turns, NTurns, n
    <3>3. QED
      BY <3>1, <3>2
  <2>4. f[i + 2] = Turn(loop, a, b, c, f[i + 1], s[i + 2])
    <3>1. i + 2 \in 0 .. Len(s) /\ i + 2 # 0 /\ (i + 2) - 1 = i + 1
      BY <1>1, <2>1
    <3>2. f[i + 2] = IF i + 2 = 0 THEN st ELSE Turn(loop, a, b, c, f[(i + 2) - 1], s[i + 2])
      BY <1>2, <3>1 DEF Turns, NTurns
    <3>3. QED
      BY <3>1, <3>2
  <2>5. t[i + 1] = s[i + 2]
    <3>1. i + 1 \in 1 .. n /\ (i + 1) + 1 = i + 2
      BY <1>1, <2>1
    <3>2. QED
      BY <1>1, <3>1
  <2>6. QED
    BY <2>2, <2>3, <2>4, <2>5
<1>6. \A i \in Nat : i \in D
  <2> HIDE DEF D
  <2>1. QED
    BY <1>4, <1>5, SetInduction
<1>7. g[n] = f[n + 1]
  BY <1>1, <1>6
<1>8. QED
  BY <1>1, <1>2, <1>3, <1>7 DEF t, n, st2

\* Nothing happens in a loop after a failure.
LEMMA FoldedFailed ==
    ASSUME NEW loop, NEW a, NEW b, NEW c, NEW st, NEW s, Len(s) \in Nat, ~st.ok
    PROVE  Folded(loop, a, b, c, st, s) = st
<1>1. PICK f : Turns(f, loop, a, b, c, st, s) /\ Folded(loop, a, b, c, st, s) = f[Len(s)]
  BY FoldedTurns
<1>2. ASSUME NEW x PROVE Turn(loop, a, b, c, st, x) = st
  BY DEF Turn, RefBind, RefHandle, RefCommand
<1> DEFINE D == {i \in Nat : i <= Len(s) => f[i] = st}
<1>3. 0 \in D
  BY <1>1 DEF Turns, NTurns
<1>4. ASSUME NEW i \in Nat, i \in D PROVE i + 1 \in D
  <2>1. SUFFICES ASSUME i + 1 <= Len(s) PROVE f[i + 1] = st
    OBVIOUS
  <2>2. f[i] = st
    BY <1>4, <2>1
  <2>3. i + 1 \in 0 .. Len(s) /\ i + 1 # 0 /\ (i + 1) - 1 = i
    BY <2>1
  <2>4. f[i + 1] = IF i + 1 = 0 THEN st ELSE Turn(loop, a, b, c, f[(i + 1) - 1], s[i + 1])
    BY <1>1, <2>3 DEF Turns, NTurns
  <2>5. QED
    BY <1>2, <2>2, <2>3, <2>4
<1>5. \A i \in Nat : i \in D
  <2> HIDE DEF D
  <2>1. QED
    BY <1>3, <1>4, SetInduction
<1>6. QED
  BY <1>1, <1>5

\* The three loops.
LEMMA EntriesFolded ==
    ASSUME NEW st, NEW key, NEW op, NEW arg
    PROVE  RefEntries(st, key, op, arg) = Folded("entries", key, op, 0, st, arg)
  BY Zenon DEF RefEntries, Folded, Turns, NTurns, Turn

LEMMA TargetsFolded ==
    ASSUME NEW m, NEW by, NEW c, NEW st, NEW targets
    PROVE  RefOnTargets(m, by, c, st, targets) = Folded("targets", m, by, c, st, targets)
<1>1. "targets" # "entries"
  OBVIOUS
<1>2. QED
  BY <1>1, Zenon DEF RefOnTargets, Folded, Turns, NTurns, Turn

LEMMA CommandsFolded ==
    ASSUME NEW m, NEW by, NEW part, NEW st, NEW cmds
    PROVE  RefCommands(m, by, part, st, cmds)
             = Folded("commands", m, by, part, st, cmds)
<1>1. "commands" # "entries" /\ "commands" # "targets"
  OBVIOUS
<1>2. QED
  BY <1>1, Zenon DEF RefCommands, Folded, Turns, NTurns, Turn

----------------------------------------------------------------------------
(* The inductive invariant: the state of the runner is a state of the      *)
(* reference (Abs), and what the runner still has to do - the rest of the  *)
(* call, of the command on its targets, of the two sequences - is the rest *)
(* of the reference's run (Ahead).  So the end of the reference's run,     *)
(* computed from where the runner is, never changes (ReferenceInv).        *)

\* The binder array as a function of target address and key: the first counts.
BoundKey(b) == <<b.target, b.key>>
IsFirst(s, i, k) ==
    BoundKey(s[i]) = k /\ \A j \in DOMAIN s : BoundKey(s[j]) = k => i <= j
EnvOf(s) ==
    [k \in {BoundKey(s[i]) : i \in DOMAIN s} |->
        s[CHOOSE i \in DOMAIN s : IsFirst(s, i, k)].value]
Env == EnvOf(bindings)

\* The stores made and the one that a download is awaited for.
LogAhead == IF suspended THEN Append(Log, [path |-> fetch.path, uri |-> fetch.uri]) ELSE Log

\* The runner as a state of the reference.
Abs == [ok |-> TRUE, env |-> Env, used |-> Len(bindings), log |-> LogAhead, sel |-> selected]

\* What the reference still does of the call c, of the command at pc, and of the
\* sequences at pc, from its state st.
FinishCall(m, c, st) ==
    IF c = NoCall THEN st
    ELSE IF c.command.op \in Setters
    THEN RefEntries(st, Frame[c.site], c.command.op, c.command.arg)
    ELSE IF c.command.op = "fetch" THEN RefFetch(m, st, Frame[c.site], c.target.index)
    ELSE st

Ascending(from, n) == [j \in 1 .. (n - from) |-> from + j - 1]
TargetsLeft(m, sel, pc) ==
    IF pc.selected_all THEN Ascending(pc.index, RefObjects(m, sel)) ELSE pc.array
FinishCommand(m, sel, pc, st) ==
    IF pc.next = "command"
    THEN RefOnTargets(m, "site", pc.command, st, TargetsLeft(m, sel, pc)) ELSE st

FinishSequence(m, pc, st) ==
    IF pc.next = "sequence"
    THEN RefCommands(m, "site", "install", RefCommands(m, "site", "common", st, pc.common), pc.target)
    ELSE st

\* The sequence the program counter is in, or will return to.
SequenceAt == IF program_counter.next = "command" THEN stack[2] ELSE program_counter

\* The end of the run, computed by the reference from the state of the runner.
Ahead ==
    FinishSequence(manifest, SequenceAt,
        FinishCommand(manifest, selected, program_counter, FinishCall(manifest, call, Abs)))

\* A command under way and a call go by the selection that the command found.
SelectionKept ==
    /\ program_counter.next = "command" =>
          /\ program_counter.is_component = selected.is_component
          /\ program_counter.selected_all = (selected.param.kind = "true")
          /\ selected.param.kind \in {"true", "array"}
    /\ call # NoCall =>
          /\ call.site = RefSite(selected)
          /\ call.target.is_component = selected.is_component

\* The reference arrives at the same end from every state of the run.
ReferenceInv ==
    manifest # NoManifest /\ SequenceReadable(manifest) /\ ~crashed =>
        /\ SelectionKept
        /\ IF has_error
           THEN ~RefRun(manifest, "site").ok /\ RefRun(manifest, "site").log = Log
           ELSE RefRun(manifest, "site") = Ahead

\* A parameter map is its first entry and the rest; nothing after a failure.
LEMMA EntriesLoop ==
    ASSUME NEW st, NEW key, NEW op, NEW arg \in ParamMap
    PROVE  /\ arg = <<>> => RefEntries(st, key, op, arg) = st
           /\ arg # <<>> => RefEntries(st, key, op, arg)
                = RefEntries(RefBind(st, key, op, Head(arg)), key, op, Tail(arg))
           /\ ~st.ok => RefEntries(st, key, op, arg) = st
<1>1. \A x : Turn("entries", key, op, 0, st, x) = RefBind(st, key, op, x)
  BY DEF Turn
<1>2. arg \in Seq([key : Int, value : ParamValue]) /\ Len(arg) \in Nat
  BY LenProperties DEF ParamMap
<1>3. CASE arg = <<>>
  BY <1>3, FoldedEmpty, EntriesFolded
<1>4. CASE arg # <<>>
  BY <1>1, <1>2, <1>4, FoldedHead, FoldedFailed, EntriesFolded
<1>5. QED
  BY <1>3, <1>4

\* So is a command on its targets.
LEMMA TargetsLoop ==
    ASSUME NEW m, NEW by, NEW c, NEW st, NEW targets \in Seq(Int)
    PROVE  /\ targets = <<>> => RefOnTargets(m, by, c, st, targets) = st
           /\ targets # <<>> => RefOnTargets(m, by, c, st, targets)
                = RefOnTargets(m, by, c, RefHandle(m, by, c, st, Head(targets)), Tail(targets))
           /\ ~st.ok => RefOnTargets(m, by, c, st, targets) = st
<1>1. \A x : Turn("targets", m, by, c, st, x) = RefHandle(m, by, c, st, x)
  BY DEF Turn
<1>2. Len(targets) \in Nat
  BY LenProperties
<1>3. CASE targets = <<>>
  BY <1>3, FoldedEmpty, TargetsFolded
<1>4. CASE targets # <<>>
  BY <1>1, <1>2, <1>4, FoldedHead, FoldedFailed, TargetsFolded
<1>5. QED
  BY <1>3, <1>4

\* Nothing to do.
LEMMA EmptyLoops ==
    /\ \A st, key, op : RefEntries(st, key, op, <<>>) = st
    /\ \A m, by, c, st : RefOnTargets(m, by, c, st, <<>>) = st
    /\ \A m, by, part, st : RefCommands(m, by, part, st, <<>>) = st
  BY FoldedEmpty, EntriesFolded, TargetsFolded, CommandsFolded

\* So is a command sequence.
LEMMA CommandsLoop ==
    ASSUME NEW m, NEW by, NEW part, NEW st, NEW cmds \in Seq(Command)
    PROVE  /\ cmds = <<>> => RefCommands(m, by, part, st, cmds) = st
           /\ cmds # <<>> => RefCommands(m, by, part, st, cmds)
                = RefCommands(m, by, part,
                              RefCommand(m, by, part, st, Head(cmds)), Tail(cmds))
           /\ ~st.ok => RefCommands(m, by, part, st, cmds) = st
<1>1. \A x : Turn("commands", m, by, part, st, x) = RefCommand(m, by, part, st, x)
  BY DEF Turn
<1>2. Len(cmds) \in Nat
  BY LenProperties
<1>3. CASE cmds = <<>>
  BY <1>3, FoldedEmpty, CommandsFolded
<1>4. CASE cmds # <<>>
  BY <1>1, <1>2, <1>4, FoldedHead, FoldedFailed, CommandsFolded
<1>5. QED
  BY <1>3, <1>4

----------------------------------------------------------------------------
(* The runner and the reference, step by step.                             *)

\* The numbers that are left of an ascending list.
LEMMA AscendingList ==
    ASSUME NEW from \in Nat, NEW n \in Nat
    PROVE  /\ Ascending(from, n) \in Seq(Nat)
           /\ from >= n => Ascending(from, n) = <<>>
           /\ from < n => /\ Ascending(from, n) # <<>>
                          /\ Head(Ascending(from, n)) = from
                          /\ Tail(Ascending(from, n)) = Ascending(from + 1, n)
<1>1. CASE from >= n
  <2>1. 1 .. (n - from) = {}
    BY <1>1
  <2>2. Ascending(from, n) \in [1 .. 0 -> Nat]
    BY <2>1 DEF Ascending
  <2>3. Ascending(from, n) \in Seq(Nat) /\ Len(Ascending(from, n)) = 0
    BY <2>2
  <2>4. QED
    BY <1>1, <2>3, EmptySeq
<1>2. CASE from < n
  <2>1. /\ n - from \in Nat /\ n - from >= 1
        /\ Ascending(from, n) \in [1 .. (n - from) -> Nat]
    BY <1>2 DEF Ascending
  <2>2. Ascending(from, n) \in Seq(Nat) /\ Len(Ascending(from, n)) = n - from
    BY <2>1
  <2>3. Ascending(from, n) # <<>> /\ Ascending(from, n)[1] = from
    BY <2>1, <2>2 DEF Ascending
  <2>4. Head(Ascending(from, n)) = from
    BY <2>2, <2>3
  <2>5. /\ Ascending(from + 1, n) \in Seq(Nat)
        /\ Len(Ascending(from + 1, n)) = n - (from + 1)
    <3>1. n - (from + 1) \in Nat /\ Ascending(from + 1, n) \in [1 .. (n - (from + 1)) -> Nat]
      BY <1>2 DEF Ascending
    <3>2. QED
      BY <3>1
  <2>6. Tail(Ascending(from, n)) \in Seq(Nat) /\ Len(Tail(Ascending(from, n))) = n - (from + 1)
    BY <2>2, <2>3, HeadTailProperties
  <2>7. ASSUME NEW i \in 1 .. (n - (from + 1))
        PROVE  Tail(Ascending(from, n))[i] = Ascending(from + 1, n)[i]
    <3>1. Tail(Ascending(from, n))[i] = Ascending(from, n)[i + 1]
      BY <2>2, <2>3, <2>6, HeadTailProperties
    <3>2. QED
      BY <1>2, <3>1 DEF Ascending
  <2>8. Tail(Ascending(from, n)) = Ascending(from + 1, n)
    BY <2>5, <2>6, <2>7, SeqEqual
  <2>9. QED
    BY <1>2, <2>2, <2>3, <2>4, <2>8
<1>3. QED
  BY <1>1, <1>2

\* The number of objects is that of get_object.
LEMMA Objects ==
    ASSUME manifest \in ManifestType, NEW sel, sel.is_component \in BOOLEAN, NEW i \in Int
    PROVE  /\ RefObjects(manifest, sel) \in Nat
           /\ HasObject(sel.is_component, i) <=> i \in 0 .. (RefObjects(manifest, sel) - 1)
<1>1. Len(manifest.components) \in Nat /\ manifest.n_dependencies \in Nat
  BY LenProperties DEF ManifestType
<1>2. QED
  BY <1>1 DEF RefObjects, HasObject

\* The program counter or the top of the stack is the sequence, if there is one.
LEMMA SequenceAtType ==
    ASSUME RunnerInv
    PROVE  /\ SequenceAt.next \in {"exit", "sequence"}
           /\ SequenceAt.next = "sequence" => SequenceAt \in SequenceCont
           /\ program_counter.next = "command" => program_counter \in CommandCont
<1>1. program_counter \in Continuation /\ stack \in Seq(Continuation)
  BY DEF RunnerInv, RunnerTypeOK
<1>2. CASE program_counter.next = "command"
  <2>1. stack[2] \in Continuation /\ stack[2].next = "sequence"
    <3>1. Len(stack) = 2 /\ stack[2].next = "sequence"
      BY <1>2 DEF RunnerInv, StackShape
    <3>2. 2 \in 1 .. Len(stack)
      BY <3>1
    <3>3. stack[2] \in Continuation
      BY <1>1, <3>2, ElementOfSeq
    <3>4. QED
      BY <3>1, <3>3
  <2>2. QED
    BY <1>1, <1>2, <2>1, ContinuationCases DEF SequenceAt
<1>3. CASE program_counter.next # "command"
  BY <1>1, <1>3, ContinuationCases DEF SequenceAt
<1>4. QED
  BY <1>2, <1>3

\* The targets left are a list.
LEMMA TargetsLeftType ==
    ASSUME RunnerInv, program_counter.next = "command", manifest \in ManifestType
    PROVE  TargetsLeft(manifest, selected, program_counter) \in Seq(Int)
<1>1. program_counter.array \in Seq(Int) /\ program_counter.index \in Nat
  BY SequenceAtType DEF CommandCont
<1>2. selected.is_component \in BOOLEAN
  BY DEF RunnerInv, RunnerTypeOK
<1>3. RefObjects(manifest, selected) \in Nat
  BY <1>2, Objects
<1>4. Ascending(program_counter.index, RefObjects(manifest, selected)) \in Seq(Int)
  <2>1. Ascending(program_counter.index, RefObjects(manifest, selected)) \in Seq(Nat)
    BY <1>1, <1>3, AscendingList
  <2>2. Nat \subseteq Int
    OBVIOUS
  <2>3. QED
    BY <2>1, <2>2
<1>5. QED
  BY <1>1, <1>4 DEF TargetsLeft

\* A sequence is its next command, and the sequence after it.
PartOf(pc) == IF pc.common # <<>> THEN "common" ELSE "install"
FirstOf(pc) == Head(IF pc.common # <<>> THEN pc.common ELSE pc.target)
AfterFirst(pc) == IF pc.common # <<>> THEN [pc EXCEPT !.common = Tail(@)]
                                 ELSE [pc EXCEPT !.target = Tail(@)]
LEMMA SequenceStep ==
    ASSUME NEW m, NEW st, NEW pc \in SequenceCont
    PROVE  /\ pc.common # <<>> \/ pc.target # <<>> =>
                FinishSequence(m, pc, st)
                  = FinishSequence(m, AfterFirst(pc), RefCommand(m, "site", PartOf(pc), st, FirstOf(pc)))
           /\ pc.common = <<>> /\ pc.target = <<>> => FinishSequence(m, pc, st) = st
           /\ ~st.ok => FinishSequence(m, pc, st) = st
<1> DEFINE next == AfterFirst(pc)
           st2 == RefCommand(m, "site", PartOf(pc), st, FirstOf(pc))
<1>1. pc.next = "sequence" /\ pc.common \in Seq(Command) /\ pc.target \in Seq(Command)
  BY DEF SequenceCont
<1>2. ASSUME pc.common # <<>>
      PROVE  FinishSequence(m, pc, st) = FinishSequence(m, next, st2)
  <2>1. next.next = "sequence" /\ next.common = Tail(pc.common) /\ next.target = pc.target
    BY <1>2 DEF SequenceCont, AfterFirst
  <2>2. RefCommands(m, "site", "common", st, pc.common)
          = RefCommands(m, "site", "common", st2, Tail(pc.common))
    BY <1>1, <1>2, CommandsLoop DEF PartOf, FirstOf
  <2> HIDE DEF next, st2
  <2>3. QED
    BY <1>1, <2>1, <2>2 DEF FinishSequence
<1>3. ASSUME pc.common = <<>>, pc.target # <<>>
      PROVE  FinishSequence(m, pc, st) = FinishSequence(m, next, st2)
  <2>1. next.next = "sequence" /\ next.common = pc.common /\ next.target = Tail(pc.target)
    BY <1>3 DEF SequenceCont, AfterFirst
  <2>2. \A x : RefCommands(m, "site", "common", x, pc.common) = x
    BY <1>3, EmptyLoops
  <2>3. RefCommands(m, "site", "install", st, pc.target)
          = RefCommands(m, "site", "install", st2, Tail(pc.target))
    BY <1>1, <1>3, CommandsLoop DEF PartOf, FirstOf
  <2> HIDE DEF next, st2
  <2>4. QED
    BY <1>1, <2>1, <2>2, <2>3 DEF FinishSequence
<1>4. ASSUME pc.common = <<>>, pc.target = <<>>
      PROVE  FinishSequence(m, pc, st) = st
  <2>1. RefCommands(m, "site", "common", st, pc.common) = st
    BY <1>4, EmptyLoops
  <2>2. RefCommands(m, "site", "install", st, pc.target) = st
    BY <1>4, EmptyLoops
  <2>3. QED
    BY <1>1, <2>1, <2>2 DEF FinishSequence
<1>5. ~st.ok => FinishSequence(m, pc, st) = st
  BY <1>1, CommandsLoop DEF FinishSequence
<1>6. QED
  BY <1>2, <1>3, <1>4, <1>5

\* The stores made are a list, and grow with the history.
Store == [path : Path, uri : ParamValue, body : Body]
LEMMA LogType ==
    ASSUME NEW s \in Seq(Store)
    PROVE  /\ LogOf(s) \in Seq([path : Path, uri : ParamValue]) /\ Len(LogOf(s)) = Len(s)
           /\ Len(s) \in Nat
           /\ \A i \in 1 .. Len(s) : LogOf(s)[i] = [path |-> s[i].path, uri |-> s[i].uri]
<1> DEFINE R == [path : Path, uri : ParamValue]
<1>1. Len(s) \in Nat /\ DOMAIN s = 1 .. Len(s)
  BY LenProperties
<1>2. ASSUME NEW i \in 1 .. Len(s)
      PROVE  [path |-> s[i].path, uri |-> s[i].uri] \in R
  <2>1. s[i] \in Store
    BY ElementOfSeq
  <2>2. QED
    BY <2>1 DEF Store
<1>3. LogOf(s) \in [1 .. Len(s) -> R]
  BY <1>1, <1>2 DEF LogOf
<1>4. LogOf(s) \in Seq(R) /\ Len(LogOf(s)) = Len(s)
  <2> HIDE DEF R
  <2>1. QED
    BY <1>1, <1>3
<1>5. QED
  BY <1>1, <1>4 DEF LogOf

\* One more store is one more entry of the log.
LEMMA LogGrows ==
    ASSUME NEW s \in Seq(Store), NEW x \in Store
    PROVE  LogOf(Append(s, x)) = Append(LogOf(s), [path |-> x.path, uri |-> x.uri])
<1> DEFINE R == [path : Path, uri : ParamValue]
           e == [path |-> x.path, uri |-> x.uri]
           n == Len(s)
           t == Append(s, x)
<1>1. /\ t \in Seq(Store) /\ Len(t) = n + 1 /\ t[n + 1] = x
      /\ \A i \in 1 .. n : t[i] = s[i]
  BY AppendProperties
<1>2. LogOf(s) \in Seq(R) /\ Len(LogOf(s)) = n /\ n \in Nat
  BY LogType
<1>3. LogOf(t) \in Seq(R) /\ Len(LogOf(t)) = n + 1
  BY <1>1, LogType
<1>4. e \in R
  BY DEF Store
<1>5. /\ Append(LogOf(s), e) \in Seq(R) /\ Len(Append(LogOf(s), e)) = n + 1
      /\ Append(LogOf(s), e)[n + 1] = e
      /\ \A i \in 1 .. n : Append(LogOf(s), e)[i] = LogOf(s)[i]
  BY <1>2, <1>4, AppendProperties
<1>6. ASSUME NEW i \in 1 .. (n + 1) PROVE LogOf(t)[i] = Append(LogOf(s), e)[i]
  <2>1. LogOf(t)[i] = [path |-> t[i].path, uri |-> t[i].uri]
    BY <1>1, LogType
  <2>2. CASE i = n + 1
    BY <1>1, <1>5, <2>1, <2>2
  <2>3. CASE i \in 1 .. n
    <3>1. LogOf(s)[i] = [path |-> s[i].path, uri |-> s[i].uri]
      BY <2>3, LogType
    <3>2. QED
      BY <1>1, <1>5, <2>1, <2>3, <3>1
  <2>4. QED
    BY <1>2, <2>2, <2>3
<1> HIDE DEF R, e, n, t
<1>7. LogOf(t) = Append(LogOf(s), e)
  BY <1>3, <1>5, <1>6, SeqEqual
<1>8. QED
  BY <1>7 DEF e, t

\* A step that leaves the binders, the stores and the download alone.
LEMMA SameState ==
    ASSUME UNCHANGED <<bindings, installs, suspended, fetch>>
    PROVE  Env' = Env /\ Log' = Log /\ LogAhead' = LogAhead
  BY DEF Env, Log, LogAhead

\* A failure keeps the stores made.
LEMMA FailAbs == ~Fail(Abs).ok /\ Fail(Abs).log = LogAhead /\ Fail(Abs).sel = selected
  BY DEF Fail, Abs

\* What a step of the run has to show.
LEMMA KeepReference ==
    ASSUME ReferenceInv, manifest # NoManifest, ~has_error, UNCHANGED <<manifest, crashed>>,
           SequenceReadable(manifest) /\ ~crashed /\ SelectionKept =>
              /\ SelectionKept'
              /\ has_error' => ~Ahead.ok /\ Ahead.log = Log'
              /\ ~has_error' => Ahead = Ahead'
    PROVE  ReferenceInv'
<1>1. CASE SequenceReadable(manifest) /\ ~crashed
  <2>1. SelectionKept /\ RefRun(manifest, "site") = Ahead
    BY <1>1 DEF ReferenceInv
  <2>2. QED
    BY <1>1, <2>1 DEF ReferenceInv
<1>2. CASE ~(SequenceReadable(manifest) /\ ~crashed)
  <2>1. (SequenceReadable(manifest))' <=> SequenceReadable(manifest)
    BY DEF SequenceReadable
  <2>2. QED
    BY <1>2, <2>1 DEF ReferenceInv
<1>3. QED
  BY <1>1, <1>2

\* The same for a step that leaves binders, stores and download alone.
LEMMA KeepReferenceSame ==
    ASSUME RunnerInv, ReferenceInv, manifest # NoManifest, ~has_error, ~suspended,
           UNCHANGED <<manifest, crashed, bindings, installs, suspended, fetch>>,
           SequenceReadable(manifest) /\ ~crashed /\ SelectionKept =>
              /\ SelectionKept'
              /\ has_error' => Ahead = Fail(Abs)
              /\ ~has_error' => Ahead = Ahead'
    PROVE  ReferenceInv'
<1>1. Env' = Env /\ Log' = Log /\ LogAhead' = LogAhead
  BY SameState
<1>2. LogAhead = Log
  BY DEF LogAhead
<1>3. Ahead = Fail(Abs) => ~Ahead.ok /\ Ahead.log = Log'
  BY <1>1, <1>2, FailAbs
<1>4. QED
  BY <1>3, KeepReference

\* Before a command: the reference executes it next.
Part == IF InCommon THEN "common" ELSE "install"
LEMMA AtCommandAhead ==
    ASSUME RunnerInv, AtCommand
    PROVE  /\ Ahead = FinishSequence(manifest, Advanced,
                                     RefCommand(manifest, "site", Part, Abs, NextCommand))
           /\ FinishSequence(manifest, Advanced, Fail(Abs)) = Fail(Abs)
           /\ Advanced \in SequenceCont /\ Advanced.next = "sequence"
           /\ manifest # NoManifest /\ manifest \in ManifestType
           /\ call = NoCall /\ ~has_error /\ ~suspended /\ program_counter.next = "sequence"
           /\ Abs.ok /\ Abs.sel = selected
<1>1. /\ program_counter \in SequenceCont /\ Advanced \in SequenceCont
      /\ program_counter.next = "sequence" /\ call = NoCall
      /\ manifest \in ManifestType /\ ~has_error /\ ~suspended
  BY AtCommandTypes
<1>2. Ahead = FinishSequence(manifest, program_counter, Abs)
  BY <1>1 DEF Ahead, SequenceAt, FinishCommand, FinishCall
<1>3. program_counter.common # <<>> \/ program_counter.target # <<>>
  BY DEF AtCommand, AtEnd
<1>4. Ahead = FinishSequence(manifest, Advanced,
                             RefCommand(manifest, "site", Part, Abs, NextCommand))
  <2>1. /\ Advanced = AfterFirst(program_counter) /\ NextCommand = FirstOf(program_counter)
        /\ Part = PartOf(program_counter)
    BY DEF Advanced, NextCommand, InCommon, Part, AfterFirst, FirstOf, PartOf
  <2>2. QED
    BY <1>1, <1>2, <1>3, <2>1, SequenceStep
<1>5. FinishSequence(manifest, Advanced, Fail(Abs)) = Fail(Abs)
  BY <1>1, FailAbs, SequenceStep
<1>6. manifest # NoManifest
  BY <1>1 DEF RunnerInv, CallsOnObject
<1>7. Advanced.next = "sequence"
  BY <1>1 DEF SequenceCont
<1>8. QED
  BY <1>1, <1>4, <1>5, <1>6, <1>7 DEF Abs

\* After a step to Advanced with no call.
LEMMA AheadInSequence ==
    ASSUME RunnerInv, AtCommand, program_counter' = Advanced, call' = NoCall, manifest' = manifest
    PROVE  Ahead' = FinishSequence(manifest, Advanced, Abs')
<1>1. Advanced.next = "sequence"
  BY AtCommandAhead
<1>2. QED
  BY <1>1 DEF Ahead, SequenceAt, FinishCommand, FinishCall

\* set_index: the selection of the reference changes as well.
LEMMA SetIndexRef == RunnerInv /\ ReferenceInv /\ SetIndex => ReferenceInv'
<1> SUFFICES ASSUME RunnerInv, ReferenceInv, SetIndex PROVE ReferenceInv'
  OBVIOUS
<1>1. AtCommand /\ NextCommand.op \in Selectors
  BY DEF SetIndex
<1>2. UNCHANGED <<manifest, crashed, bindings, installs, suspended, fetch, call, has_error>>
      /\ program_counter' = Advanced
  BY DEF SetIndex
<1>3. Env' = Env /\ LogAhead' = LogAhead
  BY <1>2, SameState
<1>4. RefCommand(manifest, "site", Part, Abs, NextCommand) = Abs'
  BY <1>1, <1>3 DEF RefCommand, Abs, SetIndex
<1>5. Ahead' = Ahead
  BY <1>1, <1>2, <1>4, AtCommandAhead, AheadInSequence
<1>6. SelectionKept'
  BY <1>1, <1>2, AtCommandAhead DEF SelectionKept
<1>7. QED
  BY <1>1, <1>2, <1>5, <1>6, AtCommandAhead, KeepReferenceSame

\* A command on an object is the call of its handler.
LEMMA HandleIsCall ==
    ASSUME NEW m, NEW c, NEW st, NEW i, st.ok, i \in 0 .. (RefObjects(m, st.sel) - 1)
    PROVE  RefHandle(m, "site", c, st, i)
             = FinishCall(m, HandlerCall(RefSite(st.sel), c, st.sel.is_component, i), st)
<1> DEFINE h == HandlerCall(RefSite(st.sel), c, st.sel.is_component, i)
<1>1. /\ h.site = RefSite(st.sel) /\ h.command = c /\ h.target.index = i
      /\ h # NoCall
  BY DEF HandlerCall, NoCall, RefSite
<1>2. RefKey("site", st.sel, i) = Frame[h.site]
  BY <1>1 DEF RefKey
<1> HIDE DEF h
<1>3. RefHandle(m, "site", c, st, i) = FinishCall(m, h, st)
  BY <1>1, <1>2 DEF RefHandle, FinishCall
<1>4. QED
  BY <1>3 DEF h

\* A function over 1 .. n is a list.
LEMMA ListOf ==
    ASSUME NEW S, NEW n \in Nat, NEW f \in [1 .. n -> S]
    PROVE  f \in Seq(S) /\ Len(f) = n
  OBVIOUS

\* A selection by an index is a list of one target.
LEMMA SingleTarget ==
    ASSUME NEW sel \in Selection, sel.kind = "uint"
    PROVE  /\ sel.list \in Seq(Int) /\ sel.list # <<>>
           /\ Head(sel.list) = sel.list[1] /\ Tail(sel.list) = <<>> /\ sel.list[1] \in Nat
<1>1. sel.list \in [1 .. 1 -> Nat]
  BY DEF Selection
<1>2. sel.list \in Seq(Int) /\ Len(sel.list) = 1
  <2>1. sel.list \in [1 .. 1 -> Int]
    BY <1>1
  <2>2. QED
    BY <2>1, ListOf
<1>3. sel.list # <<>>
  BY <1>2, EmptySeq, SMTT(30)
<1>4. Tail(sel.list) \in Seq(Int) /\ Len(Tail(sel.list)) = 0
  BY <1>2, <1>3, HeadTailProperties
<1>5. Tail(sel.list) = <<>>
  BY <1>4, EmptySeq
<1>6. QED
  BY <1>1, <1>2, <1>3, <1>5

\* The selection of the runner has its type.
LEMMA SelectedType ==
    ASSUME RunnerInv
    PROVE  selected.is_component \in BOOLEAN /\ selected.param \in Selection
  BY DEF RunnerInv, RunnerTypeOK

\* A command with a handler, under a selection of some targets.
LEMMA CommandOnTargets ==
    ASSUME RunnerInv, AtCommand, FindHandler(NextCommand.op, InCommon),
           selected.param.kind \notin {"other", "false"}
    PROVE  RefCommand(manifest, "site", Part, Abs, NextCommand)
             = RefOnTargets(manifest, "site", NextCommand, Abs, RefTargets(manifest, selected))
<1>1. NextCommand.op \notin Selectors /\ NextCommand.op # "junk"
      /\ (InCommon => NextCommand.op \notin {"process-dependency", "fetch"})
  BY DEF FindHandler, Handled, Selectors, Setters, Conditions
<1>2. Abs.ok /\ Abs.sel = selected
  BY AtCommandAhead
<1>3. Part = "common" => InCommon
  BY DEF Part
<1>4. QED
  BY <1>1, <1>2, <1>3 DEF RefCommand

\* A command that cannot be executed: the reference fails at it.
LEMMA SequenceErrorRef == RunnerInv /\ ReferenceInv /\ SequenceError => ReferenceInv'
<1> SUFFICES ASSUME RunnerInv, ReferenceInv, SequenceError PROVE ReferenceInv'
  OBVIOUS
<1>1. AtCommand /\ NextCommand.op \notin Selectors
  BY DEF SequenceError
<1>2. UNCHANGED <<manifest, crashed, bindings, installs, suspended, fetch, call, selected>>
      /\ program_counter' = Advanced /\ has_error'
  BY DEF SequenceError, MarkError
<1>3. NextCommand \in Command /\ Abs.ok /\ Abs.sel = selected /\ manifest \in ManifestType
  BY <1>1, AtCommandTypes, AtCommandAhead
<1>4. RefCommand(manifest, "site", Part, Abs, NextCommand) = Fail(Abs)
  <2>1. CASE ~FindHandler(NextCommand.op, InCommon)
    <3>1. NextCommand.op = "junk"
          \/ (Part = "common" /\ NextCommand.op \in {"fetch", "process-dependency"})
      BY <1>1, <1>3, <2>1 DEF FindHandler, Handled, Part, Command
    <3>2. QED
      BY <1>1, <1>3, <3>1 DEF RefCommand
  <2>2. CASE selected.param.kind = "other"
    BY <1>1, <1>3, <2>2 DEF RefCommand
  <2>3. CASE /\ FindHandler(NextCommand.op, InCommon)
             /\ selected.param.kind = "uint"
             /\ ~HasObject(selected.is_component, selected.param.list[1])
    <3> DEFINE list == selected.param.list
    <3>1. /\ list \in Seq(Int) /\ list # <<>> /\ Head(list) = list[1]
          /\ Tail(list) = <<>> /\ list[1] \in Nat
      BY <2>3, SelectedType, SingleTarget
    <3>2. list[1] \notin 0 .. (RefObjects(manifest, selected) - 1)
      BY <1>3, <2>3, <3>1, SelectedType, Objects
    <3>3. RefHandle(manifest, "site", NextCommand, Abs, Head(list)) = Fail(Abs)
      BY <1>3, <3>1, <3>2 DEF RefHandle
    <3>4. RefTargets(manifest, selected) = list
      BY <2>3 DEF RefTargets
    <3> HIDE DEF list
    <3>5. RefOnTargets(manifest, "site", NextCommand, Abs, list)
            = RefOnTargets(manifest, "site", NextCommand, Fail(Abs), Tail(list))
      BY <3>1, <3>3, TargetsLoop
    <3>6. Tail(list) = <<>>
      BY <3>1
    <3>7. RefOnTargets(manifest, "site", NextCommand, Fail(Abs), Tail(list)) = Fail(Abs)
      <4>1. RefOnTargets(manifest, "site", NextCommand, Fail(Abs), <<>>) = Fail(Abs)
        BY EmptyLoops
      <4>2. QED
        BY <3>6, <4>1
    <3>8. QED
      BY <1>1, <2>3, <3>4, <3>5, <3>7, CommandOnTargets
  <2>4. QED
    BY <2>1, <2>2, <2>3 DEF SequenceError
<1>5. Ahead = Fail(Abs)
  BY <1>1, <1>4, AtCommandAhead
<1>6. SelectionKept'
  BY <1>1, <1>2, AtCommandAhead DEF SelectionKept
<1>7. QED
  BY <1>1, <1>2, <1>5, <1>6, AtCommandAhead, KeepReferenceSame

\* A command that selects nothing: the reference passes it.
LEMMA SkipCommandRef == RunnerInv /\ ReferenceInv /\ SkipCommand => ReferenceInv'
<1> SUFFICES ASSUME RunnerInv, ReferenceInv, SkipCommand PROVE ReferenceInv'
  OBVIOUS
<1>1. AtCommand /\ FindHandler(NextCommand.op, InCommon) /\ selected.param.kind = "false"
  BY DEF SkipCommand
<1>2. UNCHANGED <<manifest, crashed, bindings, installs, suspended, fetch, call, has_error,
                  selected>>
      /\ program_counter' = Advanced
  BY DEF SkipCommand
<1>3. Abs' = Abs
  BY <1>2, SameState DEF Abs
<1>4. RefCommand(manifest, "site", Part, Abs, NextCommand) = Abs
  <2>1. NextCommand.op \notin Selectors /\ NextCommand.op # "junk"
        /\ (InCommon => NextCommand.op \notin {"process-dependency", "fetch"})
    BY <1>1 DEF FindHandler, Handled, Selectors, Setters, Conditions
  <2>2. QED
    BY <1>1, <2>1, AtCommandAhead DEF RefCommand, Part
<1>5. Ahead' = Ahead
  BY <1>1, <1>2, <1>3, <1>4, AtCommandAhead, AheadInSequence
<1>6. SelectionKept'
  BY <1>1, <1>2, AtCommandAhead DEF SelectionKept
<1>7. QED
  BY <1>1, <1>2, <1>5, <1>6, AtCommandAhead, KeepReferenceSame

\* A command on one object: the reference has one target.
LEMMA CallOnIndexRef == RunnerInv /\ ReferenceInv /\ CallOnIndex => ReferenceInv'
<1> SUFFICES ASSUME RunnerInv, ReferenceInv, CallOnIndex PROVE ReferenceInv'
  OBVIOUS
<1> DEFINE list == selected.param.list
<1>1. /\ AtCommand /\ FindHandler(NextCommand.op, InCommon) /\ selected.param.kind = "uint"
      /\ HasObject(selected.is_component, list[1])
      /\ call' = HandlerCall("index", NextCommand, selected.is_component, list[1])
  BY DEF CallOnIndex
<1>2. UNCHANGED <<manifest, crashed, bindings, installs, suspended, fetch, has_error, selected>>
      /\ program_counter' = Advanced
  BY DEF CallOnIndex
<1>3. Abs' = Abs
  BY <1>2, SameState DEF Abs
<1>4. Abs.ok /\ Abs.sel = selected /\ manifest \in ManifestType
  BY <1>1, AtCommandAhead
<1>5. /\ list \in Seq(Int) /\ list # <<>> /\ Head(list) = list[1]
      /\ Tail(list) = <<>> /\ list[1] \in Nat
  BY <1>1, SelectedType, SingleTarget
<1>6. RefTargets(manifest, selected) = list /\ RefSite(selected) = "index"
  BY <1>1 DEF RefTargets, RefSite
<1> HIDE DEF list
<1>7. list[1] \in 0 .. (RefObjects(manifest, selected) - 1)
  BY <1>1, <1>4, <1>5, SelectedType, Objects
<1>8. RefHandle(manifest, "site", NextCommand, Abs, Head(list)) = FinishCall(manifest, call', Abs)
  BY <1>1, <1>4, <1>5, <1>6, <1>7, HandleIsCall
<1>9. RefCommand(manifest, "site", Part, Abs, NextCommand) = FinishCall(manifest, call', Abs)
  <2>1. RefCommand(manifest, "site", Part, Abs, NextCommand)
          = RefOnTargets(manifest, "site", NextCommand, Abs, list)
    BY <1>1, <1>6, CommandOnTargets
  <2>2. RefOnTargets(manifest, "site", NextCommand, Abs, list)
          = RefOnTargets(manifest, "site", NextCommand, FinishCall(manifest, call', Abs), Tail(list))
    BY <1>5, <1>8, TargetsLoop
  <2>3. Tail(list) = <<>>
    BY <1>5
  <2>4. RefOnTargets(manifest, "site", NextCommand, FinishCall(manifest, call', Abs), Tail(list))
          = FinishCall(manifest, call', Abs)
    <3>1. RefOnTargets(manifest, "site", NextCommand, FinishCall(manifest, call', Abs), <<>>)
            = FinishCall(manifest, call', Abs)
      BY EmptyLoops
    <3>2. QED
      BY <2>3, <3>1
  <2>5. QED
    BY <2>1, <2>2, <2>4
<1>10. Ahead' = FinishSequence(manifest, Advanced, FinishCall(manifest, call', Abs))
  <2>1. Advanced.next = "sequence"
    BY <1>1, AtCommandAhead
  <2>2. QED
    BY <1>2, <1>3, <2>1 DEF Ahead, SequenceAt, FinishCommand
<1>11. Ahead' = Ahead
  BY <1>1, <1>9, <1>10, AtCommandAhead
<1>12. SelectionKept'
  <2>1. Advanced.next = "sequence"
    BY <1>1, AtCommandAhead
  <2>2. QED
    BY <1>1, <1>2, <1>6, <2>1 DEF SelectionKept, HandlerCall
<1>13. QED
  BY <1>1, <1>2, <1>11, <1>12, AtCommandAhead, KeepReferenceSame

\* push_program_counter: the targets of the command are all still ahead.
LEMMA EnterCommandRef == RunnerInv /\ ReferenceInv /\ EnterCommand => ReferenceInv'
<1> SUFFICES ASSUME RunnerInv, ReferenceInv, EnterCommand PROVE ReferenceInv'
  OBVIOUS
<1> DEFINE pc == CommandPC(NextCommand, selected.is_component, selected.param)
<1>1. /\ AtCommand /\ FindHandler(NextCommand.op, InCommon)
      /\ selected.param.kind \in {"true", "array"}
      /\ UNCHANGED <<manifest, crashed, bindings, installs, suspended, fetch, call, selected>>
  BY DEF EnterCommand
<1>2. stack' = <<ExitPC, Advanced>> /\ program_counter' = pc /\ has_error' = has_error
  <2>1. stack = <<ExitPC>> /\ Len(stack) = 1 /\ SUIT_STACK_MAX # 1
    BY <1>1, AtCommandTypes, SuitRunnerAssumption
  <2>2. QED
    BY <2>1 DEF EnterCommand, PushProgramCounter
<1>3. Abs' = Abs
  BY <1>1, SameState DEF Abs
<1>4. /\ pc.next = "command" /\ pc.command = NextCommand
      /\ pc.is_component = selected.is_component /\ pc.index = 0
      /\ pc.selected_all = (selected.param.kind = "true") /\ pc.array = selected.param.list
  BY DEF CommandPC
<1> HIDE DEF pc
<1>5. TargetsLeft(manifest, selected, pc) = RefTargets(manifest, selected)
  <2>1. RefObjects(manifest, selected) \in Nat
    BY <1>1, AtCommandAhead, SelectedType, Objects
  <2>2. Ascending(0, RefObjects(manifest, selected))
          = [i \in 1 .. RefObjects(manifest, selected) |-> i - 1]
    BY <2>1 DEF Ascending
  <2>3. QED
    BY <1>1, <1>4, <2>2 DEF TargetsLeft, RefTargets
<1>6. Ahead' = FinishSequence(manifest, Advanced,
                 RefOnTargets(manifest, "site", NextCommand, Abs, RefTargets(manifest, selected)))
  <2>1. SequenceAt' = Advanced
    BY <1>2, <1>4 DEF SequenceAt
  <2>2. (FinishCall(manifest, call, Abs))' = Abs
    BY <1>1, <1>3, AtCommandAhead DEF FinishCall
  <2>3. QED
    BY <1>1, <1>2, <1>4, <1>5, <2>1, <2>2 DEF Ahead, FinishCommand
<1>7. Ahead' = Ahead
  <2>1. RefCommand(manifest, "site", Part, Abs, NextCommand)
          = RefOnTargets(manifest, "site", NextCommand, Abs, RefTargets(manifest, selected))
    BY <1>1, CommandOnTargets
  <2>2. QED
    BY <1>1, <1>6, <2>1, AtCommandAhead
<1>8. SelectionKept'
  BY <1>1, <1>2, <1>4, AtCommandAhead DEF SelectionKept
<1>9. QED
  BY <1>1, <1>2, <1>7, <1>8, AtCommandAhead, KeepReferenceSame

\* The end of both sequences: nothing is ahead.
LEMMA EndOfSequenceRef == RunnerInv /\ ReferenceInv /\ EndOfSequence => ReferenceInv'
<1> SUFFICES ASSUME RunnerInv, ReferenceInv, EndOfSequence PROVE ReferenceInv'
  OBVIOUS
<1>1. /\ program_counter.next = "sequence" /\ call = NoCall /\ ~has_error /\ ~suspended
      /\ program_counter.common = <<>> /\ program_counter.target = <<>>
      /\ UNCHANGED <<manifest, crashed, bindings, installs, suspended, fetch, call, selected>>
  BY DEF EndOfSequence, Running, AtEnd
<1>2. program_counter \in SequenceCont /\ manifest # NoManifest
  BY <1>1, ContinuationCases DEF RunnerInv, RunnerTypeOK, CallsOnObject
<1>3. program_counter' = ExitPC /\ has_error' = has_error
  <2>1. stack = <<ExitPC>>
    BY <1>1 DEF RunnerInv, StackShape
  <2>2. QED
    BY <2>1 DEF EndOfSequence, PopProgramCounter
<1>4. Abs' = Abs
  BY <1>1, SameState DEF Abs
<1>5. Ahead = Abs
  <2>1. Ahead = FinishSequence(manifest, program_counter, Abs)
    BY <1>1 DEF Ahead, SequenceAt, FinishCommand, FinishCall
  <2>2. QED
    BY <1>1, <1>2, <2>1, SequenceStep
<1>6. Ahead' = Abs'
  BY <1>1, <1>3, ContinuationTypes
     DEF Ahead, SequenceAt, FinishCommand, FinishCall, FinishSequence
<1>7. SelectionKept'
  BY <1>1, <1>3, ContinuationTypes DEF SelectionKept
<1>8. QED
  BY <1>1, <1>2, <1>3, <1>4, <1>5, <1>6, <1>7, KeepReferenceSame

\* Inside a command: the reference goes on with the targets left.
LEMMA AtTargetAhead ==
    ASSUME RunnerInv, Running("command")
    PROVE  /\ Ahead = FinishSequence(manifest, stack[2],
                        RefOnTargets(manifest, "site", program_counter.command, Abs,
                                     TargetsLeft(manifest, selected, program_counter)))
           /\ FinishSequence(manifest, stack[2], Fail(Abs)) = Fail(Abs)
           /\ manifest # NoManifest /\ manifest \in ManifestType
           /\ stack[2].next = "sequence" /\ program_counter.next = "command"
           /\ call = NoCall /\ ~has_error /\ ~suspended
           /\ Abs.ok /\ Abs.sel = selected
           /\ TargetsLeft(manifest, selected, program_counter) \in Seq(Int)
<1>1. /\ program_counter.next = "command" /\ call = NoCall /\ ~has_error /\ ~suspended
      /\ manifest \in ManifestType /\ stack[2].next = "sequence"
  BY AtTargetTypes
<1>2. SequenceAt = stack[2] /\ stack[2] \in SequenceCont
  <2>1. SequenceAt = stack[2]
    BY <1>1 DEF SequenceAt
  <2>2. QED
    BY <1>1, <2>1, SequenceAtType
<1>3. Ahead = FinishSequence(manifest, stack[2],
                 RefOnTargets(manifest, "site", program_counter.command, Abs,
                              TargetsLeft(manifest, selected, program_counter)))
  BY <1>1, <1>2 DEF Ahead, FinishCommand, FinishCall
<1>4. FinishSequence(manifest, stack[2], Fail(Abs)) = Fail(Abs)
  BY <1>2, FailAbs, SequenceStep
<1>5. manifest # NoManifest
  BY <1>1 DEF RunnerInv, CallsOnObject
<1>6. QED
  BY <1>1, <1>3, <1>4, <1>5, TargetsLeftType DEF Abs

\* After a step that calls a handler from inside a command.
LEMMA AheadInCommand ==
    ASSUME program_counter'.next = "command", UNCHANGED <<manifest, stack, selected>>, Abs' = Abs,
           program_counter'.command = program_counter.command
    PROVE  Ahead' = FinishSequence(manifest, stack[2],
                      RefOnTargets(manifest, "site", program_counter.command,
                                   FinishCall(manifest, call', Abs),
                                   TargetsLeft(manifest, selected, program_counter')))
<1>1. SequenceAt' = stack[2]
  BY DEF SequenceAt
<1>2. (FinishCall(manifest, call, Abs))' = FinishCall(manifest, call', Abs)
  BY DEF FinishCall
<1>3. QED
  BY <1>1, <1>2 DEF Ahead, FinishCommand

\* The next object of all: the head of the targets left.
LEMMA CallOnNextRef == RunnerInv /\ ReferenceInv /\ CallOnNext => ReferenceInv'
<1> SUFFICES ASSUME RunnerInv, ReferenceInv, CallOnNext PROVE ReferenceInv'
  OBVIOUS
<1> DEFINE pc == program_counter
           n == RefObjects(manifest, selected)
<1>1. /\ Running("command") /\ pc.selected_all /\ HasObject(pc.is_component, pc.index)
      /\ call' = HandlerCall("all", pc.command, pc.is_component, pc.index)
      /\ UNCHANGED <<manifest, crashed, bindings, installs, suspended, fetch, has_error,
                     selected, stack>>
  BY DEF CallOnNext
<1>2. pc \in CommandCont
  BY <1>1, AtTargetTypes
<1>3. /\ program_counter'.next = "command" /\ program_counter'.index = pc.index + 1
      /\ program_counter'.command = pc.command /\ program_counter'.selected_all
      /\ program_counter'.is_component = pc.is_component
      /\ pc.index \in Nat
  BY <1>1, <1>2 DEF CallOnNext, CommandCont
<1>4. Abs' = Abs
  BY <1>1, SameState DEF Abs
<1>5. manifest \in ManifestType /\ Abs.ok /\ Abs.sel = selected
  BY <1>1, AtTargetAhead
<1>6. ASSUME SelectionKept
      PROVE  SelectionKept' /\ Ahead = Ahead'
  <2>1. /\ pc.is_component = selected.is_component /\ selected.param.kind = "true"
        /\ RefSite(selected) = "all"
    BY <1>1, <1>6, AtTargetAhead DEF SelectionKept, RefSite
  <2>2. n \in Nat /\ pc.index \in 0 .. (n - 1)
    BY <1>1, <1>3, <1>5, <2>1, SelectedType, Objects
  <2>3. /\ TargetsLeft(manifest, selected, pc) = Ascending(pc.index, n)
        /\ TargetsLeft(manifest, selected, program_counter') = Ascending(pc.index + 1, n)
    BY <1>1, <1>3 DEF TargetsLeft
  <2>4. /\ Ascending(pc.index, n) \in Seq(Int) /\ Ascending(pc.index, n) # <<>>
        /\ Head(Ascending(pc.index, n)) = pc.index
        /\ Tail(Ascending(pc.index, n)) = Ascending(pc.index + 1, n)
    <3>1. pc.index < n
      BY <1>3, <2>2
    <3>2. Ascending(pc.index, n) \in Seq(Int)
      BY <1>1, <2>3, AtTargetAhead
    <3>3. QED
      BY <1>3, <2>2, <3>1, <3>2, AscendingList
  <2>5. RefHandle(manifest, "site", pc.command, Abs, pc.index) = FinishCall(manifest, call', Abs)
    BY <1>1, <1>5, <2>1, <2>2, HandleIsCall
  <2>6. RefOnTargets(manifest, "site", pc.command, Abs, Ascending(pc.index, n))
          = RefOnTargets(manifest, "site", pc.command, FinishCall(manifest, call', Abs),
                         Ascending(pc.index + 1, n))
    <3> DEFINE left == Ascending(pc.index, n)
               st == FinishCall(manifest, call', Abs)
    <3>1. /\ left \in Seq(Int) /\ left # <<>>
          /\ RefHandle(manifest, "site", pc.command, Abs, Head(left)) = st
      BY <2>4, <2>5
    <3> HIDE DEF left, st
    <3>2. RefOnTargets(manifest, "site", pc.command, Abs, left)
            = RefOnTargets(manifest, "site", pc.command, st, Tail(left))
      BY <3>1, TargetsLoop
    <3>3. QED
      BY <2>4, <3>2 DEF left, st
  <2>7. Ahead = Ahead'
    BY <1>1, <1>3, <1>4, <2>3, <2>6, AtTargetAhead, AheadInCommand
  <2>8. SelectionKept'
    BY <1>1, <1>3, <2>1 DEF SelectionKept, HandlerCall
  <2>9. QED
    BY <2>7, <2>8
<1>7. QED
  BY <1>1, <1>6, AtTargetAhead, KeepReferenceSame

\* The next element of the array; an index without an object fails.
LEMMA CallOnElementRef == RunnerInv /\ ReferenceInv /\ CallOnElement => ReferenceInv'
<1> SUFFICES ASSUME RunnerInv, ReferenceInv, CallOnElement PROVE ReferenceInv'
  OBVIOUS
<1> DEFINE pc == program_counter
           i == Head(pc.array)
<1>1. /\ Running("command") /\ ~pc.selected_all /\ pc.array # <<>>
      /\ UNCHANGED <<manifest, crashed, bindings, installs, suspended, fetch,
                     selected, stack>>
  BY DEF CallOnElement
<1>2. pc \in CommandCont /\ pc.array \in Seq(Int)
  BY <1>1, AtTargetTypes DEF CommandCont
<1>3. /\ program_counter'.next = "command" /\ program_counter'.array = Tail(pc.array)
      /\ program_counter'.command = pc.command /\ program_counter'.selected_all = FALSE
      /\ program_counter'.is_component = pc.is_component
  BY <1>1, <1>2 DEF CallOnElement, CommandCont
<1>4. i \in Int /\ Tail(pc.array) \in Seq(Int)
  BY <1>1, <1>2, HeadTailProperties
<1>5. Abs' = Abs
  BY <1>1, SameState DEF Abs
<1>6. manifest \in ManifestType /\ Abs.ok /\ Abs.sel = selected /\ call = NoCall /\ ~has_error
  BY <1>1, AtTargetAhead
<1>7. ASSUME SelectionKept
      PROVE  /\ SelectionKept'
             /\ has_error' => Ahead = Fail(Abs)
             /\ ~has_error' => Ahead = Ahead'
  <2>1. /\ pc.is_component = selected.is_component /\ selected.param.kind = "array"
        /\ RefSite(selected) = "array"
    BY <1>1, <1>7, AtTargetAhead DEF SelectionKept, RefSite
  <2>2. /\ TargetsLeft(manifest, selected, pc) = pc.array
        /\ TargetsLeft(manifest, selected, program_counter') = Tail(pc.array)
    BY <1>1, <1>3 DEF TargetsLeft
  <2>3. HasObject(pc.is_component, i) <=> i \in 0 .. (RefObjects(manifest, selected) - 1)
    BY <1>4, <1>6, <2>1, SelectedType, Objects
  <2>4. RefOnTargets(manifest, "site", pc.command, Abs, pc.array)
          = RefOnTargets(manifest, "site", pc.command,
                         RefHandle(manifest, "site", pc.command, Abs, i), Tail(pc.array))
    BY <1>1, <1>2, TargetsLoop
  <2>5. CASE HasObject(pc.is_component, i)
    <3>1. call' = HandlerCall("array", pc.command, pc.is_component, i) /\ has_error' = has_error
      BY <2>5 DEF CallOnElement
    <3>2. RefHandle(manifest, "site", pc.command, Abs, i) = FinishCall(manifest, call', Abs)
      BY <1>6, <2>1, <2>3, <2>5, <3>1, HandleIsCall
    <3>3. Ahead = Ahead'
      BY <1>1, <1>3, <1>5, <2>2, <2>4, <3>2, AtTargetAhead, AheadInCommand
    <3>4. SelectionKept'
      BY <1>1, <1>3, <2>1, <3>1 DEF SelectionKept, HandlerCall
    <3>5. QED
      BY <1>6, <3>1, <3>3, <3>4
  <2>6. CASE ~HasObject(pc.is_component, i)
    <3>1. call' = call /\ has_error'
      BY <2>6 DEF CallOnElement, MarkError
    <3>2. RefHandle(manifest, "site", pc.command, Abs, i) = Fail(Abs)
      BY <1>6, <2>3, <2>6 DEF RefHandle
    <3>3. RefOnTargets(manifest, "site", pc.command, Fail(Abs), Tail(pc.array)) = Fail(Abs)
      <4> DEFINE rest == Tail(pc.array)
                 st == Fail(Abs)
      <4>1. rest \in Seq(Int) /\ ~st.ok
        BY <1>4, FailAbs
      <4> HIDE DEF rest, st
      <4>2. RefOnTargets(manifest, "site", pc.command, st, rest) = st
        BY <4>1, TargetsLoop
      <4>3. QED
        BY <4>2 DEF rest, st
    <3>4. Ahead = Fail(Abs)
      BY <1>1, <2>2, <2>4, <3>2, <3>3, AtTargetAhead
    <3>5. SelectionKept'
      BY <1>1, <1>3, <1>6, <2>1, <3>1 DEF SelectionKept
    <3>6. QED
      BY <3>1, <3>4, <3>5
  <2>7. QED
    BY <2>5, <2>6
<1>8. QED
  BY <1>1, <1>6, <1>7, AtTargetAhead, KeepReferenceSame

\* pop_program_counter: no target is left.
LEMMA EndOfCommandRef == RunnerInv /\ ReferenceInv /\ EndOfCommand => ReferenceInv'
<1> SUFFICES ASSUME RunnerInv, ReferenceInv, EndOfCommand PROVE ReferenceInv'
  OBVIOUS
<1> DEFINE pc == program_counter
           n == RefObjects(manifest, selected)
<1>1. /\ Running("command")
      /\ IF pc.selected_all THEN ~HasObject(pc.is_component, pc.index) ELSE pc.array = <<>>
      /\ UNCHANGED <<manifest, crashed, bindings, installs, suspended, fetch, selected, call>>
  BY DEF EndOfCommand
<1>2. pc \in CommandCont /\ pc.index \in Nat
  BY <1>1, AtTargetTypes DEF CommandCont
<1>3. program_counter' = stack[2] /\ has_error' = has_error
  <2>1. Len(stack) = 2 /\ stack # <<>>
    BY <1>1, AtTargetTypes
  <2>2. QED
    BY <2>1 DEF EndOfCommand, PopProgramCounter
<1>4. Abs' = Abs
  BY <1>1, SameState DEF Abs
<1>5. /\ manifest \in ManifestType /\ call = NoCall /\ stack[2].next = "sequence"
      /\ pc.next = "command"
  BY <1>1, AtTargetAhead
<1>6. ASSUME SelectionKept
      PROVE  TargetsLeft(manifest, selected, pc) = <<>>
  <2>1. CASE pc.selected_all
    <3>1. ~HasObject(selected.is_component, pc.index)
      BY <1>1, <1>5, <1>6, <2>1 DEF SelectionKept
    <3>2. n \in Nat /\ pc.index >= n
      BY <1>2, <1>5, <3>1, SelectedType, Objects
    <3>3. Ascending(pc.index, n) = <<>>
      BY <1>2, <3>2, AscendingList
    <3>4. QED
      BY <2>1, <3>3 DEF TargetsLeft
  <2>2. CASE ~pc.selected_all
    BY <1>1, <2>2 DEF TargetsLeft
  <2>3. QED
    BY <2>1, <2>2
<1>7. ASSUME SelectionKept PROVE Ahead = Ahead' /\ SelectionKept'
  <2>1. RefOnTargets(manifest, "site", pc.command, Abs, TargetsLeft(manifest, selected, pc)) = Abs
    <3>1. RefOnTargets(manifest, "site", pc.command, Abs, <<>>) = Abs
      BY EmptyLoops
    <3>2. QED
      BY <1>6, <1>7, <3>1
  <2>2. Ahead = FinishSequence(manifest, stack[2], Abs)
    BY <1>1, <2>1, AtTargetAhead
  <2>3. Ahead' = FinishSequence(manifest, stack[2], Abs)
    BY <1>1, <1>3, <1>4, <1>5 DEF Ahead, SequenceAt, FinishCommand, FinishCall
  <2>4. SelectionKept'
    BY <1>1, <1>3, <1>5 DEF SelectionKept
  <2>5. QED
    BY <2>2, <2>3, <2>4
<1>8. QED
  BY <1>1, <1>3, <1>7, AtTargetAhead, KeepReferenceSame

\* What the reference does after the call under way.
AfterCall(st) ==
    FinishSequence(manifest, SequenceAt, FinishCommand(manifest, selected, program_counter, st))

\* Nothing, if the call fails.
LEMMA AfterFailure ==
    ASSUME RunnerInv, manifest \in ManifestType, NEW st, ~st.ok
    PROVE  AfterCall(st) = st
<1>1. FinishCommand(manifest, selected, program_counter, st) = st
  <2>1. CASE program_counter.next = "command"
    <3> DEFINE left == TargetsLeft(manifest, selected, program_counter)
    <3>1. left \in Seq(Int)
      BY <2>1, TargetsLeftType
    <3> HIDE DEF left
    <3>2. RefOnTargets(manifest, "site", program_counter.command, st, left) = st
      BY <3>1, TargetsLoop
    <3>3. QED
      BY <2>1, <3>2 DEF left, FinishCommand
  <2>2. CASE program_counter.next # "command"
    BY <2>2 DEF FinishCommand
  <2>3. QED
    BY <2>1, <2>2
<1>2. FinishSequence(manifest, SequenceAt, st) = st
  <2>1. CASE SequenceAt.next = "sequence"
    BY <2>1, SequenceAtType, SequenceStep
  <2>2. CASE SequenceAt.next # "sequence"
    BY <2>2 DEF FinishSequence
  <2>3. QED
    BY <2>1, <2>2
<1>3. QED
  BY <1>1, <1>2 DEF AfterCall

\* A step of a handler: the reference finishes the call, and goes on.
LEMMA CallAhead ==
    ASSUME UNCHANGED <<manifest, program_counter, stack, selected>>
    PROVE  /\ Ahead = AfterCall(FinishCall(manifest, call, Abs))
           /\ Ahead' = AfterCall(FinishCall(manifest, call', Abs'))
<1>1. SequenceAt' = SequenceAt
  BY DEF SequenceAt
<1>2. QED
  BY <1>1 DEF Ahead, AfterCall

\* The handler is called with no download outstanding.
LEMMA CallingState ==
    ASSUME RunnerInv, NEW ops, Calling(ops)
    PROVE  /\ call # NoCall /\ call \in Call /\ ~has_error /\ ~suspended /\ ~crashed
           /\ manifest # NoManifest /\ manifest \in ManifestType
           /\ HasObject(call.target.is_component, call.target.index)
           /\ call.command.op \in ops /\ call.command \in Command /\ call.target.index \in Nat
           /\ Abs.ok /\ Abs.sel = selected /\ LogAhead = Log
<1>1. /\ call # NoCall /\ call \in Call /\ ~has_error /\ ~suspended /\ ~crashed
      /\ manifest # NoManifest /\ manifest \in ManifestType
      /\ HasObject(call.target.is_component, call.target.index)
      /\ call.command.op \in ops
  BY ManifestLoaded DEF Calling, RunnerInv, CallsOnObject
<1>2. call.command \in Command /\ call.target.index \in Nat
  BY <1>1 DEF Call, Target
<1>3. QED
  BY <1>1, <1>2 DEF Abs, LogAhead

\* A handler that returns without changing the state of the run.
LEMMA ReturnRef ==
    ASSUME RunnerInv, ReferenceInv, NEW ops, Calling(ops),
           FinishCall(manifest, call, Abs) = Abs, call' = NoCall,
           UNCHANGED <<manifest, program_counter, stack, selected, bindings, has_error,
                       suspended, fetch, crashed, installs>>
    PROVE  ReferenceInv'
<1>1. Abs' = Abs
  BY SameState DEF Abs
<1>2. FinishCall(manifest, call', Abs') = Abs
  BY <1>1 DEF FinishCall
<1>3. Ahead = Ahead'
  BY <1>2, CallAhead
<1>4. SelectionKept => SelectionKept'
  BY DEF SelectionKept
<1>5. QED
  BY <1>3, <1>4, CallingState, KeepReferenceSame

\* Conditions and process-dependency change nothing.
LEMMA NoOperationRef == RunnerInv /\ ReferenceInv /\ NoOperation => ReferenceInv'
<1> SUFFICES ASSUME RunnerInv, ReferenceInv, NoOperation PROVE ReferenceInv'
  OBVIOUS
<1>1. Calling(Conditions \cup {"process-dependency"})
  BY DEF NoOperation
<1>2. call.command.op \in Conditions \cup {"process-dependency"} /\ call # NoCall
  BY <1>1, CallingState
<1>3. FinishCall(manifest, call, Abs) = Abs
  BY <1>2 DEF FinishCall, Setters, Conditions
<1>4. QED
  BY <1>1, <1>3, ReturnRef DEF NoOperation, Return

\* The end of the parameter map.
LEMMA EndOfParametersRef == RunnerInv /\ ReferenceInv /\ EndOfParameters => ReferenceInv'
<1> SUFFICES ASSUME RunnerInv, ReferenceInv, EndOfParameters PROVE ReferenceInv'
  OBVIOUS
<1>1. Calling(Setters) /\ call.command.arg = <<>>
  BY DEF EndOfParameters
<1>2. RefEntries(Abs, Frame[call.site], call.command.op, call.command.arg) = Abs
  <2>1. RefEntries(Abs, Frame[call.site], call.command.op, <<>>) = Abs
    BY EmptyLoops
  <2>2. QED
    BY <1>1, <2>1
<1>3. FinishCall(manifest, call, Abs) = Abs
  BY <1>1, <1>2, CallingState DEF FinishCall
<1>4. QED
  BY <1>1, <1>3, ReturnRef DEF EndOfParameters, Return

----------------------------------------------------------------------------
(* The binders and the parameters of the reference.                        *)

KeysOf(s) == {BoundKey(s[i]) : i \in DOMAIN s}

\* The parameters are those of the first binders.
LEMMA EnvAt ==
    ASSUME NEW s \in Seq(Binding), NEW i \in DOMAIN s, NEW k, IsFirst(s, i, k)
    PROVE  k \in DOMAIN EnvOf(s) /\ EnvOf(s)[k] = s[i].value
<1>1. DOMAIN s \subseteq Nat
  BY LenProperties
<1>2. k \in KeysOf(s)
  BY DEF IsFirst, KeysOf
<1> DEFINE n == CHOOSE j \in DOMAIN s : IsFirst(s, j, k)
<1>3. n \in DOMAIN s /\ IsFirst(s, n, k)
  OBVIOUS
<1>4. EnvOf(s)[k] = s[n].value /\ k \in DOMAIN EnvOf(s)
  BY <1>2 DEF EnvOf, KeysOf
<1> HIDE DEF n
<1>5. n <= i /\ i <= n
  BY <1>3 DEF IsFirst
<1>6. n = i
  BY <1>1, <1>3, <1>5
<1>7. QED
  BY <1>4, <1>6

\* Every key that is bound has a first binder.
LEMMA FirstExists ==
    ASSUME NEW s \in Seq(Binding), NEW k \in KeysOf(s)
    PROVE  \E i \in DOMAIN s : IsFirst(s, i, k)
<1> DEFINE T == {i \in DOMAIN s : BoundKey(s[i]) = k}
<1>1. T \subseteq Nat /\ T # {}
  BY LenProperties DEF KeysOf
<1>2. PICK i \in T : \A j \in T : i <= j
  BY <1>1, LeastOf
<1>3. QED
  BY <1>2 DEF IsFirst

\* A function with the values of the first binders is EnvOf.
LEMMA EnvDetermined ==
    ASSUME NEW s \in Seq(Binding), NEW e, e = [k \in KeysOf(s) |-> e[k]],
           \A k \in KeysOf(s) : \A i \in DOMAIN s : IsFirst(s, i, k) => e[k] = s[i].value
    PROVE  EnvOf(s) = e
<1>1. EnvOf(s) = [k \in KeysOf(s) |-> EnvOf(s)[k]]
  BY DEF EnvOf, KeysOf
<1>2. ASSUME NEW k \in KeysOf(s) PROVE EnvOf(s)[k] = e[k]
  <2>1. PICK i \in DOMAIN s : IsFirst(s, i, k)
    BY FirstExists
  <2>2. QED
    BY <2>1, EnvAt
<1>3. QED
  BY <1>1, <1>2

\* The parameters env after k has been given the value v.
Bound(env, k, v) == [x \in DOMAIN env \cup {k} |-> IF x = k THEN v ELSE env[x]]

\* A new binder adds a key, or changes nothing if an earlier one has its key.
LEMMA EnvAppend ==
    ASSUME NEW s \in Seq(Binding), NEW x \in Binding
    PROVE  EnvOf(Append(s, x)) = IF BoundKey(x) \in KeysOf(s) THEN EnvOf(s)
                                 ELSE Bound(EnvOf(s), BoundKey(x), x.value)
<1> DEFINE t == Append(s, x)
           n == Len(s)
           e == IF BoundKey(x) \in KeysOf(s) THEN EnvOf(s)
                ELSE Bound(EnvOf(s), BoundKey(x), x.value)
<1>1. /\ n \in Nat /\ DOMAIN s = 1 .. n /\ DOMAIN t = 1 .. (n + 1) /\ t \in Seq(Binding)
      /\ t[n + 1] = x /\ \A i \in 1 .. n : t[i] = s[i]
  <2>1. /\ t \in Seq(Binding) /\ Len(t) = n + 1 /\ t[n + 1] = x
        /\ \A i \in 1 .. n : t[i] = s[i]
    BY AppendProperties
  <2>2. QED
    BY <2>1, LenProperties
<1>2. DOMAIN EnvOf(s) = KeysOf(s) /\ EnvOf(s) = [k \in KeysOf(s) |-> EnvOf(s)[k]]
  BY DEF EnvOf, KeysOf
<1> HIDE DEF t, n
<1>3. KeysOf(t) = KeysOf(s) \cup {BoundKey(x)}
  <2>1. ASSUME NEW k \in KeysOf(t) PROVE k \in KeysOf(s) \cup {BoundKey(x)}
    <3>1. PICK i \in 1 .. (n + 1) : k = BoundKey(t[i])
      BY <1>1 DEF KeysOf
    <3>2. CASE i = n + 1
      BY <1>1, <3>1, <3>2
    <3>3. CASE i # n + 1
      <4>1. i \in 1 .. n
        BY <1>1, <3>3
      <4>2. QED
        BY <1>1, <3>1, <4>1 DEF KeysOf
    <3>4. QED
      BY <3>2, <3>3
  <2>2. ASSUME NEW k \in KeysOf(s) PROVE k \in KeysOf(t)
    <3>1. PICK i \in 1 .. n : k = BoundKey(s[i])
      BY <1>1 DEF KeysOf
    <3>2. i \in 1 .. (n + 1)
      BY <1>1
    <3>3. QED
      BY <1>1, <3>1, <3>2 DEF KeysOf
  <2>3. BoundKey(x) \in KeysOf(t)
    <3>1. n + 1 \in 1 .. (n + 1)
      BY <1>1
    <3>2. QED
      BY <1>1, <3>1 DEF KeysOf
  <2>4. QED
    BY <2>1, <2>2, <2>3
<1>4. e = [k \in KeysOf(t) |-> e[k]]
  <2>1. CASE BoundKey(x) \in KeysOf(s)
    <3>1. KeysOf(t) = KeysOf(s) /\ e = EnvOf(s)
      BY <1>3, <2>1
    <3>2. QED
      BY <1>2, <3>1
  <2>2. CASE BoundKey(x) \notin KeysOf(s)
    BY <1>2, <1>3, <2>2 DEF Bound
  <2>3. QED
    BY <2>1, <2>2
<1>5. ASSUME NEW k \in KeysOf(t), NEW i \in DOMAIN t, IsFirst(t, i, k)
      PROVE  e[k] = t[i].value
  <2>1. BoundKey(t[i]) = k /\ \A j \in 1 .. (n + 1) : BoundKey(t[j]) = k => i <= j
    BY <1>1, <1>5 DEF IsFirst
  <2>2. CASE i \in 1 .. n
    <3>1. IsFirst(s, i, k)
      BY <1>1, <2>1, <2>2 DEF IsFirst
    <3>2. k \in KeysOf(s) /\ EnvOf(s)[k] = s[i].value
      BY <1>1, <1>2, <2>2, <3>1, EnvAt
    <3>3. e[k] = EnvOf(s)[k]
      BY <1>2, <3>2 DEF Bound
    <3>4. QED
      BY <1>1, <2>2, <3>2, <3>3
  <2>3. CASE i = n + 1
    <3>1. k = BoundKey(x) /\ t[i].value = x.value
      BY <1>1, <2>1, <2>3
    <3>2. \A j \in 1 .. n : BoundKey(s[j]) # k
      BY <1>1, <2>1, <2>3
    <3>3. k \notin KeysOf(s)
      BY <1>1, <3>2 DEF KeysOf
    <3>4. QED
      BY <1>2, <3>1, <3>3 DEF Bound
  <2>4. QED
    BY <1>1, <2>2, <2>3
<1> HIDE DEF e
<1>6. EnvOf(t) = e
  BY <1>1, <1>4, <1>5, EnvDetermined
<1>7. QED
  BY <1>6 DEF t, e

\* A new value in the first binder of a key.
LEMMA EnvReplace ==
    ASSUME NEW s \in Seq(Binding), NEW k, NEW v, NEW f \in DOMAIN s, IsFirst(s, f, k),
           NEW t \in Seq(Binding), DOMAIN t = DOMAIN s,
           \A i \in DOMAIN s : /\ BoundKey(t[i]) = BoundKey(s[i])
                               /\ t[i].value = IF i = f THEN v ELSE s[i].value
    PROVE  EnvOf(t) = Bound(EnvOf(s), k, v)
<1> DEFINE e == Bound(EnvOf(s), k, v)
<1>1. DOMAIN s \subseteq Nat
  BY LenProperties
<1>2. DOMAIN EnvOf(s) = KeysOf(s)
  BY DEF EnvOf, KeysOf
<1>3. KeysOf(t) = KeysOf(s)
  BY DEF KeysOf
<1>4. k \in KeysOf(s)
  BY DEF IsFirst, KeysOf
<1>5. e = [x \in KeysOf(t) |-> e[x]]
  <2>1. DOMAIN EnvOf(s) \cup {k} = KeysOf(t)
    BY <1>2, <1>3, <1>4
  <2>2. QED
    BY <2>1 DEF Bound
<1>6. ASSUME NEW x \in KeysOf(t), NEW i \in DOMAIN t, IsFirst(t, i, x)
      PROVE  e[x] = t[i].value
  <2>1. IsFirst(s, i, x) /\ i \in DOMAIN s
    BY <1>6 DEF IsFirst
  <2>2. EnvOf(s)[x] = s[i].value /\ x \in DOMAIN EnvOf(s)
    BY <2>1, EnvAt
  <2>3. i = f <=> x = k
    <3>1. ASSUME x = k PROVE i = f
      <4>1. i <= f /\ f <= i
        BY <2>1, <3>1 DEF IsFirst
      <4>2. QED
        BY <1>1, <2>1, <4>1
    <3>2. ASSUME i = f PROVE x = k
      BY <2>1, <3>2 DEF IsFirst
    <3>3. QED
      BY <3>1, <3>2
  <2>4. e[x] = IF x = k THEN v ELSE EnvOf(s)[x]
    BY <2>2 DEF Bound
  <2>5. QED
    BY <2>1, <2>2, <2>3, <2>4
<1> HIDE DEF e
<1>7. EnvOf(t) = e
  BY <1>5, <1>6, EnvDetermined
<1>8. QED
  BY <1>7 DEF e

\* The binders of the runner: what lookup_binder finds is the parameter.
LEMMA Binders ==
    ASSUME RunnerInv
    PROVE  /\ bindings \in Seq(Binding) /\ Len(bindings) \in Nat
           /\ DOMAIN Env = KeysOf(bindings)
           /\ \A slot, key : <<slot, key>> \in DOMAIN Env <=> LookupBinder(slot, key) # {}
           /\ \A slot, key : \A i \in LookupBinder(slot, key) :
                 i \in DOMAIN bindings /\ IsFirst(bindings, i, <<slot, key>>)
<1>1. bindings \in Seq(Binding) /\ Len(bindings) \in Nat
  BY LenProperties DEF RunnerInv, RunnerTypeOK
<1>2. DOMAIN Env = KeysOf(bindings)
  BY DEF Env, EnvOf, KeysOf
<1>3. ASSUME NEW slot, NEW key
      PROVE  <<slot, key>> \in DOMAIN Env <=> LookupBinder(slot, key) # {}
  <2>1. <<slot, key>> \in DOMAIN Env <=> BindersOf(slot, key) # {}
    BY <1>2 DEF KeysOf, BoundKey, BindersOf
  <2>2. QED
    BY <1>1, <2>1, FirstFound
<1>4. ASSUME NEW slot, NEW key, NEW i \in LookupBinder(slot, key)
      PROVE  i \in DOMAIN bindings /\ IsFirst(bindings, i, <<slot, key>>)
  <2>1. i \in BindersOf(slot, key) /\ \A j \in BindersOf(slot, key) : i <= j
    BY DEF LookupBinder
  <2>2. QED
    BY <2>1 DEF BindersOf, IsFirst, BoundKey
<1>5. QED
  BY <1>1, <1>2, <1>3, <1>4

\* set_parameter: one entry of the map, in the binders and in the reference.
LEMMA SetParameterRef == RunnerInv /\ ReferenceInv /\ SetParameter => ReferenceInv'
<1> SUFFICES ASSUME RunnerInv, ReferenceInv, SetParameter PROVE ReferenceInv'
  OBVIOUS
<1> DEFINE slot  == Frame[call.site]
           arg   == call.command.arg
           op    == call.command.op
           entry == Head(arg)
           found == LookupBinder(slot, entry.key)
           k     == <<slot, entry.key % KEY_LIMIT>>
           New == NewBinder(slot, entry)
           Changed == [i \in DOMAIN bindings |->
                          IF i \in found THEN [bindings[i] EXCEPT !.value = entry.value]
                                         ELSE bindings[i]]
<1>1. Calling(Setters) /\ arg # <<>> /\ call' = [call EXCEPT !.command.arg = Tail(@)]
      /\ UNCHANGED <<manifest, program_counter, stack, selected, suspended, fetch,
                     crashed, installs>>
  BY DEF SetParameter
<1>2. /\ call \in Call /\ call # NoCall /\ call.command \in Command /\ op \in Setters
      /\ manifest # NoManifest /\ manifest \in ManifestType /\ ~has_error /\ ~suspended
      /\ Abs.ok /\ LogAhead = Log
  BY <1>1, CallingState
<1>3. arg \in ParamMap /\ entry \in [key : Int, value : ParamValue] /\ Tail(arg) \in ParamMap
  <2>1. arg \in ParamMap
    BY <1>2, CommandArg
  <2>2. QED
    BY <1>1, <2>1, HeadTailProperties DEF ParamMap
<1>4. /\ call' # NoCall /\ call'.site = call.site /\ call'.target = call.target
      /\ call'.command.op = op /\ call'.command.arg = Tail(arg)
  <2>1. call' # NoCall /\ call'.target = call.target
    BY <1>1, <1>2, TailOfParameters
  <2>2. call'.site = call.site
    BY <1>1, <1>2 DEF Call
  <2>3. call'.command.op = op /\ call'.command.arg = Tail(arg)
    BY <1>1, <1>2 DEF Call, Command
  <2>4. QED
    BY <2>1, <2>2, <2>3
<1>5. slot \in Slot /\ entry.key \in Int /\ entry.value \in ParamValue
  <2>1. call.site \in Site
    BY <1>2 DEF Call
  <2>2. QED
    BY <1>3, <2>1, SuitRunnerAssumption
<1>6. /\ bindings \in Seq(Binding) /\ Len(bindings) \in Nat
      /\ DOMAIN Env = KeysOf(bindings)
      /\ \A i \in found : i \in DOMAIN bindings /\ IsFirst(bindings, i, <<slot, entry.key>>)
      /\ \A i \in DOMAIN bindings : bindings[i] \in Binding
  <2>1. bindings \in Seq(Binding)
    BY Binders
  <2>2. QED
    BY <2>1, Binders, LenProperties, ElementOfSeq
<1>17. ASSUME entry.key >= 0
       PROVE  /\ entry.key \in Nat /\ KEY_LIMIT \in Nat
              /\ found # {} <=> (k \in DOMAIN Env /\ entry.key < KEY_LIMIT)
              /\ found # {} => k = <<slot, entry.key>>
  <2>1. entry.key \in Nat
    BY <1>5, <1>17
  <2>2. KEY_LIMIT \in Nat /\ ((entry.key < KEY_LIMIT) => k = <<slot, entry.key>>)
    BY <2>1, EnumKey
  <2>3. found # {} <=> <<slot, entry.key>> \in DOMAIN Env
    BY Binders
  <2>4. ASSUME found # {} PROVE entry.key < KEY_LIMIT
    <3>1. PICK i \in DOMAIN bindings : BoundKey(bindings[i]) = <<slot, entry.key>>
      BY <1>6, <2>4 DEF IsFirst
    <3>2. bindings[i].key = entry.key /\ bindings[i].key \in 0 .. (KEY_LIMIT - 1)
      BY <1>6, <3>1 DEF BoundKey, Binding
    <3>3. QED
      BY <2>2, <3>2
  <2>5. QED
    BY <2>1, <2>2, <2>3, <2>4
<1>7. /\ LogAhead' = LogAhead /\ Log' = Log
      /\ Abs' = [ok |-> TRUE, env |-> Env', used |-> Len(bindings'), log |-> LogAhead,
                 sel |-> selected]
      /\ Abs.ok /\ Abs.env = Env /\ Abs.used = Len(bindings)
  <2>1. LogAhead' = LogAhead /\ Log' = Log
    BY <1>1 DEF LogAhead, Log
  <2>2. QED
    BY <1>1, <2>1 DEF Abs
<1>8. FinishCall(manifest, call, Abs)
        = RefEntries(RefBind(Abs, slot, op, entry), slot, op, Tail(arg))
  <2>1. FinishCall(manifest, call, Abs) = RefEntries(Abs, slot, op, arg)
    BY <1>2 DEF FinishCall
  <2> HIDE DEF slot, arg, op
  <2>2. QED
    BY <1>1, <1>3, <2>1, EntriesLoop
<1>9. FinishCall(manifest, call', Abs') = RefEntries(Abs', slot, op, Tail(arg))
  BY <1>2, <1>4 DEF FinishCall
<1>10. \/ entry.key < 0 /\ has_error' /\ bindings' = bindings
       \/ /\ entry.key >= 0 /\ found # {} /\ has_error' = has_error
          /\ \/ op = "override-parameters" /\ bindings' = Changed
             \/ op = "set-parameters" /\ bindings' = bindings
       \/ /\ entry.key >= 0 /\ found = {} /\ Len(bindings) = SUIT_BINDER_MAX
          /\ has_error' /\ bindings' = bindings
       \/ /\ entry.key >= 0 /\ found = {} /\ Len(bindings) # SUIT_BINDER_MAX
          /\ bindings' = Append(bindings, New) /\ has_error' = has_error
  BY <1>2 DEF SetParameter, MarkError, Setters
<1> HIDE DEF slot, arg, op, entry
<1>11. /\ has_error' => RefBind(Abs, slot, op, entry) = Fail(Abs)
       /\ ~has_error' => RefBind(Abs, slot, op, entry) = Abs'
  <2>1. CASE /\ bindings' = bindings
             /\ \/ entry.key < 0 /\ has_error'
                \/ /\ entry.key >= 0 /\ found # {} /\ op = "set-parameters"
                   /\ has_error' = has_error
                \/ /\ entry.key >= 0 /\ found = {} /\ Len(bindings) = SUIT_BINDER_MAX
                   /\ has_error'
    <3>1. Abs' = Abs
      BY <1>7, <2>1 DEF Abs, Env
    <3>2. ASSUME has_error' PROVE RefBind(Abs, slot, op, entry) = Fail(Abs)
      <4>1. CASE entry.key < 0
        BY <1>7, <4>1 DEF RefBind
      <4>2. CASE entry.key >= 0
        <5>1. ~(entry.key < 0)
          BY <1>5, <4>2
        <5>2. found = {} /\ Len(bindings) = SUIT_BINDER_MAX
          BY <1>2, <2>1, <3>2, <5>1, Zenon
        <5>3. ~(k \in DOMAIN Env /\ entry.key < KEY_LIMIT)
          BY <1>17, <4>2, <5>2
        <5>4. QED
          BY <1>7, <5>2, <5>3 DEF RefBind
      <4>3. QED
        BY <1>5, <4>1, <4>2
    <3>3. ASSUME ~has_error' PROVE RefBind(Abs, slot, op, entry) = Abs'
      <4>1. entry.key >= 0 /\ found # {} /\ op = "set-parameters"
        BY <2>1, <3>3
      <4>2. ~(entry.key < 0) /\ k \in DOMAIN Env /\ entry.key < KEY_LIMIT
        BY <1>5, <1>17, <4>1
      <4>3. QED
        BY <1>7, <3>1, <4>1, <4>2 DEF RefBind
    <3>4. QED
      BY <3>2, <3>3
  <2>2. CASE /\ bindings' = Changed /\ found # {} /\ entry.key >= 0
             /\ op = "override-parameters" /\ has_error' = has_error
    <3>1. PICK f \in DOMAIN bindings : f \in found /\ IsFirst(bindings, f, k)
      BY <1>6, <1>17, <2>2
    <3>2. \A i \in found : i = f
      <4>1. \A i \in found : i <= f /\ f <= i
        BY <1>6, <1>17, <2>2, <3>1 DEF IsFirst
      <4>2. DOMAIN bindings \subseteq Nat
        BY <1>6, LenProperties
      <4>3. QED
        BY <1>6, <3>1, <4>1, <4>2
    <3>3. \A i \in DOMAIN bindings :
             /\ Changed[i] \in Binding
             /\ BoundKey(Changed[i]) = BoundKey(bindings[i])
             /\ Changed[i].value = IF i = f THEN entry.value ELSE bindings[i].value
      <4>1. \A i \in DOMAIN bindings :
               /\ Changed[i] \in Binding
               /\ Changed[i].target = bindings[i].target /\ Changed[i].key = bindings[i].key
               /\ Changed[i].value = IF i \in found THEN entry.value ELSE bindings[i].value
        BY <1>5, <1>6 DEF Binding
      <4>2. QED
        BY <3>1, <3>2, <4>1 DEF BoundKey
    <3>4. DOMAIN Changed = DOMAIN bindings /\ DOMAIN bindings = 1 .. Len(bindings)
      BY <1>6, LenProperties
    <3>5. Changed \in [1 .. Len(bindings) -> Binding]
      BY <3>3, <3>4
    <3> HIDE DEF Changed
    <3>6. Changed \in Seq(Binding) /\ Len(Changed) = Len(bindings)
      BY <1>6, <3>5, ListOf
    <3>7. EnvOf(Changed) = Bound(EnvOf(bindings), k, entry.value)
      BY <1>6, <3>1, <3>3, <3>4, <3>6, EnvReplace
    <3>8. Env' = Bound(Env, k, entry.value) /\ Len(bindings') = Len(bindings)
      BY <2>2, <3>6, <3>7 DEF Env
    <3>9. RefBind(Abs, slot, op, entry) = [Abs EXCEPT !.env = Bound(Env, k, entry.value)]
      <4>1. ~(entry.key < 0) /\ k \in DOMAIN Env /\ entry.key < KEY_LIMIT
        BY <1>5, <1>17, <2>2
      <4>2. QED
        BY <1>7, <2>2, <4>1 DEF RefBind, Bound
    <3>10. QED
      BY <1>2, <1>7, <2>2, <3>8, <3>9 DEF Abs
  <2>3. CASE /\ entry.key >= 0 /\ found = {} /\ Len(bindings) # SUIT_BINDER_MAX
             /\ bindings' = Append(bindings, New) /\ has_error' = has_error
    <3>1. New \in Binding /\ BoundKey(New) = k /\ New.value = entry.value
      <4>1. entry.key \in Nat /\ entry.key % KEY_LIMIT \in 0 .. (KEY_LIMIT - 1)
        <5>1. entry.key \in Nat
          BY <1>17, <2>3
        <5>2. QED
          BY <5>1, EnumKey
      <4>2. QED
        BY <1>5, <4>1 DEF Binding, BoundKey, NewBinder
    <3> HIDE DEF New
    <3>2. Env' = IF k \in DOMAIN Env THEN Env ELSE Bound(Env, k, entry.value)
      BY <1>6, <2>3, <3>1, EnvAppend DEF Env
    <3>3. Len(bindings') = Len(bindings) + 1
      BY <1>6, <2>3, <3>1, AppendProperties
    <3>4. RefBind(Abs, slot, op, entry)
            = [Abs EXCEPT !.used = Len(bindings) + 1,
                          !.env = IF k \in DOMAIN Env THEN Env ELSE Bound(Env, k, entry.value)]
      <4>1. ~(entry.key < 0) /\ ~(k \in DOMAIN Env /\ entry.key < KEY_LIMIT)
        BY <1>5, <1>17, <2>3
      <4>2. QED
        BY <1>7, <2>3, <4>1 DEF RefBind, Bound
    <3>5. QED
      BY <1>2, <1>7, <2>3, <3>2, <3>3, <3>4 DEF Abs
  <2>4. QED
    BY <1>10, <2>1, <2>2, <2>3
<1>12. has_error' => Ahead = Fail(Abs)
  <2>1. SUFFICES ASSUME has_error' PROVE Ahead = Fail(Abs)
    OBVIOUS
  <2> DEFINE st == Fail(Abs)
             rest == Tail(arg)
  <2>2. ~st.ok /\ rest \in ParamMap
    BY <1>3, FailAbs
  <2> HIDE DEF st, rest
  <2>3. RefEntries(st, slot, op, rest) = st
    BY <2>2, EntriesLoop
  <2>4. FinishCall(manifest, call, Abs) = st
    BY <1>8, <1>11, <2>1, <2>3 DEF st, rest
  <2>5. AfterCall(st) = st
    BY <1>2, <2>2, AfterFailure
  <2>6. QED
    BY <1>1, <2>4, <2>5, CallAhead DEF st
<1>13. ~has_error' => Ahead = Ahead'
  BY <1>1, <1>8, <1>9, <1>11, CallAhead
<1>14. SelectionKept => SelectionKept'
  BY <1>1, <1>2, <1>4 DEF SelectionKept
<1>15. has_error' => ~Ahead.ok /\ Ahead.log = Log'
  BY <1>2, <1>7, <1>12, FailAbs
<1>16. QED
  BY <1>1, <1>2, <1>11, <1>13, <1>14, <1>15, KeepReference

\* The uri a fetch finds is the one the reference has for the call site.
UriAt(site) == LET k == <<Frame[site], SUIT_PARAMETER_URI>>
               IN  IF k \in DOMAIN Env THEN Env[k] ELSE EmptyUri
LEMMA FetchedUri ==
    ASSUME RunnerInv, NEW site
    PROVE  /\ \A uri \in BoundUris(site) : uri = UriAt(site)
           /\ UriAt(site) # EmptyUri => UriAt(site) \in BoundUris(site)
<1> DEFINE k == <<Frame[site], SUIT_PARAMETER_URI>>
<1>1. ASSUME NEW i \in LookupBinder(Frame[site], SUIT_PARAMETER_URI)
      PROVE  k \in DOMAIN Env /\ Env[k] = bindings[i].value
  <2>1. i \in DOMAIN bindings /\ IsFirst(bindings, i, k) /\ bindings \in Seq(Binding)
    BY Binders
  <2>2. QED
    BY <2>1, EnvAt DEF Env
<1>2. k \in DOMAIN Env => LookupBinder(Frame[site], SUIT_PARAMETER_URI) # {}
  BY Binders
<1>3. QED
  BY <1>1, <1>2 DEF UriAt, BoundUris

\* The fetch of the reference, from the state of the runner.
LEMMA FetchAhead ==
    ASSUME RunnerInv, Calling({"fetch"}), SelectionKept,
           UNCHANGED <<manifest, program_counter, stack, selected>>
    PROVE  LET uri == UriAt(call.site)
           IN  /\ Ahead = AfterCall(RefFetch(manifest, Abs, Frame[call.site], call.target.index))
               /\ uri \notin RemoteUri \cup LocalUri
                    \/ (uri \in LocalUri /\ FieldUnreadable(manifest, uri))
                    \/ (call.target.is_component /\ TargetPath = NoPath)
                    \/ (~call.target.is_component /\ uri \in RemoteUri)
                    => Ahead = Fail(Abs)
               /\ uri \in LocalUri /\ ~FieldUnreadable(manifest, uri) /\ ~call.target.is_component => Ahead = AfterCall(Abs)
               /\ uri \in RemoteUri \cup LocalUri /\ call.target.is_component
                    /\ TargetPath # NoPath /\ (uri \in LocalUri => ~FieldUnreadable(manifest, uri))
                    => Ahead = AfterCall([Abs EXCEPT !.log =
                                            Append(Log, [path |-> TargetPath, uri |-> uri])])
<1> DEFINE uri == UriAt(call.site)
           key == Frame[call.site]
           i   == call.target.index
           ref == RefFetch(manifest, Abs, key, i)
<1>1. /\ call # NoCall /\ call.command.op = "fetch" /\ manifest \in ManifestType
      /\ Abs.sel = selected /\ Abs.env = Env /\ Abs.log = Log
      /\ call.target.is_component = selected.is_component
  BY CallingState DEF SelectionKept, Abs
<1>2. Ahead = AfterCall(ref)
  <2>1. FinishCall(manifest, call, Abs) = ref
    BY <1>1 DEF FinishCall, Setters
  <2>2. QED
    BY <2>1, CallAhead
<1>3. AfterCall(Fail(Abs)) = Fail(Abs)
  BY <1>1, FailAbs, AfterFailure
<1>4. uri = IF <<key, SUIT_PARAMETER_URI>> \in DOMAIN Abs.env
            THEN Abs.env[<<key, SUIT_PARAMETER_URI>>] ELSE EmptyUri
  BY <1>1 DEF UriAt
<1>5. TargetPath = ParseComponentId(manifest.components[i + 1])
  BY DEF TargetPath
<1>6. RemoteUri \cap LocalUri = {}
  BY SuitRunnerAssumption
<1> HIDE DEF uri, key, i
<1> DEFINE unreadable == uri \in LocalUri /\ FieldUnreadable(manifest, uri)
<1>7. ref = IF uri \notin RemoteUri \cup LocalUri THEN Fail(Abs)
            ELSE IF unreadable THEN Fail(Abs)
            ELSE IF ~call.target.is_component
                 THEN IF uri \in RemoteUri THEN Fail(Abs) ELSE Abs
            ELSE IF TargetPath = NoPath THEN Fail(Abs)
            ELSE [Abs EXCEPT !.log = Append(Log, [path |-> TargetPath, uri |-> uri])]
  BY <1>1, <1>4, <1>5 DEF RefFetch
<1>8. /\ uri \notin RemoteUri \cup LocalUri
           \/ unreadable
           \/ (call.target.is_component /\ TargetPath = NoPath)
           \/ (~call.target.is_component /\ uri \in RemoteUri)
           => ref = Fail(Abs)
      /\ uri \in LocalUri /\ ~unreadable /\ ~call.target.is_component => ref = Abs
      /\ uri \in RemoteUri \cup LocalUri /\ call.target.is_component
           /\ TargetPath # NoPath /\ ~unreadable
           => ref = [Abs EXCEPT !.log = Append(Log, [path |-> TargetPath, uri |-> uri])]
  <2> HIDE DEF ref
  <2>1. QED
    BY <1>6, <1>7 DEF FieldUnreadable
<1> HIDE DEF ref
<1>9. QED
  BY <1>2, <1>3, <1>8 DEF ref, uri, key, i, FieldUnreadable

\* directive_fetch fails exactly where the reference does.
LEMMA FetchErrorRef == RunnerInv /\ ReferenceInv /\ FetchError => ReferenceInv'
<1> SUFFICES ASSUME RunnerInv, ReferenceInv, FetchError PROVE ReferenceInv'
  OBVIOUS
<1>1. /\ Calling({"fetch"}) /\ has_error' /\ call' = NoCall
      /\ UNCHANGED <<manifest, program_counter, stack, selected, bindings, suspended,
                     fetch, crashed, installs>>
  BY DEF FetchError, MarkError, Return
<1>2. ASSUME SelectionKept PROVE Ahead = Fail(Abs)
  <2>1. /\ UriAt(call.site) \in RemoteUri \cup LocalUri => UriAt(call.site) \in BoundUris(call.site)
        /\ \A uri \in BoundUris(call.site) : uri = UriAt(call.site)
    BY FetchedUri, SuitRunnerAssumption
  <2>2. \/ UriAt(call.site) \notin RemoteUri \cup LocalUri
        \/ UriAt(call.site) \in LocalUri /\ FieldUnreadable(manifest, UriAt(call.site))
        \/ call.target.is_component /\ TargetPath = NoPath
        \/ ~call.target.is_component /\ UriAt(call.site) \in RemoteUri
    BY <2>1 DEF FetchError
  <2>3. QED
    BY <1>1, <1>2, <2>2, FetchAhead
<1>3. SelectionKept => SelectionKept'
  BY <1>1 DEF SelectionKept
<1>4. QED
  BY <1>1, <1>2, <1>3, CallingState, KeepReferenceSame

\* Abs with another log.
LEMMA AbsWithLog ==
    ASSUME NEW l
    PROVE  [Abs EXCEPT !.log = l] = [ok |-> TRUE, env |-> Env, used |-> Len(bindings),
                                     log |-> l, sel |-> selected]
<1> DEFINE st == [Abs EXCEPT !.log = l]
<1>1. st = [x \in {"ok", "env", "used", "log", "sel"} |-> st[x]]
  BY DEF Abs
<1>2. st.ok = TRUE /\ st.env = Env /\ st.used = Len(bindings) /\ st.log = l /\ st.sel = selected
  BY DEF Abs
<1> HIDE DEF st
<1>3. st = [ok |-> TRUE, env |-> Env, used |-> Len(bindings), log |-> l, sel |-> selected]
  BY <1>1, <1>2
<1>4. QED
  BY <1>3 DEF st

\* A fetch or a download after which the log and the awaited store are those of st.
LEMMA KeepFetched ==
    ASSUME RunnerInv, ReferenceInv, manifest # NoManifest, call' = NoCall,
           UNCHANGED <<manifest, program_counter, stack, selected, bindings, has_error, crashed>>,
           ~has_error,
           SelectionKept => Ahead = AfterCall([Abs EXCEPT !.log = LogAhead'])
    PROVE  ReferenceInv'
<1>1. Abs' = [Abs EXCEPT !.log = LogAhead']
  <2>1. Env' = Env
    BY DEF Env
  <2>2. Abs' = [ok |-> TRUE, env |-> Env, used |-> Len(bindings), log |-> LogAhead',
                sel |-> selected]
    BY <2>1 DEF Abs
  <2>3. QED
    BY <2>2, AbsWithLog
<1>2. Ahead' = AfterCall([Abs EXCEPT !.log = LogAhead'])
  <2>1. FinishCall(manifest, call', Abs') = Abs'
    BY DEF FinishCall
  <2>2. QED
    BY <1>1, <2>1, CallAhead
<1>3. SelectionKept => SelectionKept'
  BY DEF SelectionKept
<1>4. QED
  BY <1>2, <1>3, KeepReference

\* A remote fetch: the store is made in the reference, and awaited here.
LEMMA FetchRemoteRef == RunnerInv /\ ReferenceInv /\ FetchRemote => ReferenceInv'
<1> SUFFICES ASSUME RunnerInv, ReferenceInv, FetchRemote PROVE ReferenceInv'
  OBVIOUS
<1>1. /\ Calling({"fetch"}) /\ call.target.is_component /\ TargetPath # NoPath
      /\ call' = NoCall /\ suspended' = TRUE
      /\ UNCHANGED <<manifest, program_counter, stack, selected, bindings,
                     has_error, crashed, installs>>
  BY DEF FetchRemote, Return
<1>2. PICK uri \in BoundUris(call.site) \cap RemoteUri :
         fetch' = [uri |-> uri, path |-> TargetPath]
  BY DEF FetchRemote
<1>3. uri = UriAt(call.site) /\ uri \notin LocalUri
  BY <1>2, FetchedUri, SuitRunnerAssumption
<1>4. LogAhead' = Append(Log, [path |-> TargetPath, uri |-> uri])
  BY <1>1, <1>2 DEF LogAhead, Log
<1>5. SelectionKept => Ahead = AfterCall([Abs EXCEPT !.log = LogAhead'])
  BY <1>1, <1>2, <1>3, <1>4, FetchAhead
<1>6. QED
  BY <1>1, <1>5, CallingState, KeepFetched

\* A local fetch: the store is made in both.
LEMMA FetchLocalRef == RunnerInv /\ ReferenceInv /\ FetchLocal => ReferenceInv'
<1> SUFFICES ASSUME RunnerInv, ReferenceInv, FetchLocal PROVE ReferenceInv'
  OBVIOUS
<1>1. /\ Calling({"fetch"}) /\ call' = NoCall
      /\ UNCHANGED <<manifest, program_counter, stack, selected, bindings,
                     has_error, suspended, fetch, crashed>>
  BY DEF FetchLocal, Return
<1>2. PICK uri \in BoundUris(call.site) \cap LocalUri :
         /\ ~FieldUnreadable(manifest, uri)
         /\ IF call.target.is_component
            THEN /\ TargetPath # NoPath
                 /\ installs' = Append(installs, [path |-> TargetPath, uri |-> uri,
                                                  body |-> EnvelopeField(manifest, uri)])
            ELSE installs' = installs
  BY DEF FetchLocal
<1>3. uri = UriAt(call.site)
  BY <1>2, FetchedUri
<1>4. /\ manifest \in ManifestType /\ ~suspended /\ LogAhead = Log /\ manifest # NoManifest
      /\ ~has_error
  BY <1>1, CallingState
<1>5. CASE call.target.is_component
  <2> DEFINE x == [path |-> TargetPath, uri |-> uri, body |-> EnvelopeField(manifest, uri)]
  <2>1. x \in Store /\ x.path = TargetPath /\ x.uri = uri
    <3>1. TargetPath \in Path
      BY <1>1, <1>2, <1>5, FetchPath
    <3>2. EnvelopeField(manifest, uri) \in Body
      BY <1>2, <1>4, FieldBody
    <3>3. uri \in ParamValue
      BY <1>2 DEF ParamValue
    <3>4. QED
      BY <3>1, <3>2, <3>3 DEF Store
  <2>2. installs \in Seq(Store) /\ installs' = Append(installs, x)
    BY <1>2, <1>5 DEF RunnerInv, RunnerTypeOK, Store
  <2> HIDE DEF x
  <2>3. LogAhead' = Append(Log, [path |-> TargetPath, uri |-> uri])
    <3>1. LogOf(installs') = Append(LogOf(installs), [path |-> TargetPath, uri |-> uri])
      BY <2>1, <2>2, LogGrows
    <3>2. QED
      BY <1>1, <1>4, <3>1 DEF LogAhead, Log
  <2>4. SelectionKept => Ahead = AfterCall([Abs EXCEPT !.log = LogAhead'])
    BY <1>1, <1>2, <1>3, <1>5, <2>3, FetchAhead
  <2>5. QED
    BY <1>1, <1>4, <2>4, KeepFetched
<1>6. CASE ~call.target.is_component
  <2>1. LogAhead' = LogAhead
    BY <1>1, <1>2, <1>6 DEF LogAhead, Log
  <2>2. [Abs EXCEPT !.log = LogAhead'] = Abs
    BY <2>1, AbsWithLog DEF Abs
  <2>3. SelectionKept => Ahead = AfterCall([Abs EXCEPT !.log = LogAhead'])
    BY <1>1, <1>2, <1>3, <1>6, <2>2, FetchAhead
  <2>4. QED
    BY <1>1, <1>4, <2>3, KeepFetched
<1>7. QED
  BY <1>5, <1>6

\* The store that was awaited is made when the download arrives.
LEMMA StoreAndResumeRef ==
    ASSUME RunnerInv, ReferenceInv, Suspended, NEW body \in Body, StoreAndResume(body)
    PROVE  ReferenceInv'
<1>1. /\ suspended /\ ~has_error /\ manifest \in ManifestType /\ manifest # NoManifest
      /\ fetch.path \in Path /\ call = NoCall
  BY ManifestLoaded, DeclaredPath DEF Suspended, RunnerInv, SuspendedOnComponent
<1>2. fetch.uri \in ParamValue
  BY DEF RunnerInv, RunnerTypeOK, ParamValue
<1>3. /\ UNCHANGED <<manifest, program_counter, stack, selected, bindings, call,
                     has_error, fetch, crashed>>
      /\ suspended' = FALSE
  BY <1>1 DEF StoreAndResume
<1> DEFINE x == [path |-> fetch.path, uri |-> fetch.uri, body |-> body]
<1>4. /\ x \in Store /\ x.path = fetch.path /\ x.uri = fetch.uri
      /\ installs \in Seq(Store) /\ installs' = Append(installs, x)
  BY <1>1, <1>2 DEF Store, StoreAndResume, RunnerInv, RunnerTypeOK
<1> HIDE DEF x
<1>5. LogOf(installs') = Append(LogOf(installs), [path |-> fetch.path, uri |-> fetch.uri])
  BY <1>4, LogGrows
<1>6. LogAhead' = LogAhead
  BY <1>1, <1>3, <1>5 DEF LogAhead, Log
<1>7. [Abs EXCEPT !.log = LogAhead'] = Abs
  BY <1>6, AbsWithLog DEF Abs
<1>8. Ahead = AfterCall(Abs)
  BY <1>1 DEF Ahead, AfterCall, FinishCall
<1>9. QED
  BY <1>1, <1>3, <1>7, <1>8, KeepFetched

\* The run of a readable manifest begins where the reference begins.
LEMMA SuitRunnerInitRef ==
    ASSUME NEW m, SuitRunnerInit(m)
    PROVE  ReferenceInv'
<1>1. /\ bindings' = <<>> /\ installs' = <<>> /\ call' = NoCall /\ ~suspended' /\ ~has_error'
      /\ manifest' = m
      /\ selected' = [is_component |-> TRUE, param |-> [kind |-> "true", list |-> <<>>]]
  BY DEF SuitRunnerInit
<1>2. /\ EnvOf(<<>>) = [k \in {} |-> EmptyUri] /\ LogOf(<<>>) = <<>>
      /\ DOMAIN EnvOf(<<>>) = {}
  <2>1. DOMAIN <<>> = {}
    OBVIOUS
  <2>2. {BoundKey(<<>>[i]) : i \in {}} = {}
    OBVIOUS
  <2>3. EnvOf(<<>>) = [k \in {} |-> EmptyUri]
    BY <2>1, <2>2 DEF EnvOf
  <2>4. LogOf(<<>>) \in [1 .. 0 -> {}]
    BY <2>1 DEF LogOf
  <2>5. LogOf(<<>>) \in Seq({}) /\ Len(LogOf(<<>>)) = 0
    BY <2>4, ListOf
  <2>6. LogOf(<<>>) = <<>>
    BY <2>5, EmptySeq
  <2>7. QED
    BY <2>3, <2>6
<1>3. Env' = [k \in {} |-> EmptyUri] /\ Log' = <<>> /\ LogAhead' = <<>> /\ DOMAIN Env' = {}
  BY <1>1, <1>2 DEF Env, Log, LogAhead
<1>4. Abs' = RefStart
  BY <1>1, <1>3 DEF Abs, RefStart
<1>5. IsFiniteSet(DOMAIN Env') /\ Cardinality(DOMAIN Env') = Len(bindings')
  <2>1. Len(bindings') = 0
    BY <1>1
  <2>2. QED
    BY <1>3, <2>1, FS_EmptySet
<1>6. ASSUME SequenceReadable(m)
      PROVE  SelectionKept' /\ RefRun(m, "site") = Ahead'
  <2> DEFINE pc == SequencePC(m.common.cmds, m.install.cmds)
  <2>1. /\ program_counter' = pc /\ pc.next = "sequence"
        /\ pc.common = m.common.cmds /\ pc.target = m.install.cmds
    BY <1>6 DEF SuitRunnerInit, SequencePC
  <2> HIDE DEF pc
  <2>2. SelectionKept'
    BY <1>1, <2>1 DEF SelectionKept
  <2>3. Ahead' = FinishSequence(m, pc, RefStart)
    BY <1>1, <1>4, <2>1 DEF Ahead, SequenceAt, FinishCommand, FinishCall
  <2>4. QED
    BY <2>1, <2>2, <2>3 DEF RefRun, FinishSequence
<1>7. QED
  BY <1>1, <1>5, <1>6 DEF ReferenceInv

\* Every step of suit_runner_run.
LEMMA RunStepRef == RunnerInv /\ ReferenceInv /\ RunStep => ReferenceInv'
  BY EndOfSequenceRef, SetIndexRef, SequenceErrorRef, SkipCommandRef, CallOnIndexRef,
     EnterCommandRef, CallOnNextRef, CallOnElementRef, EndOfCommandRef, NoOperationRef,
     SetParameterRef, EndOfParametersRef, FetchErrorRef, FetchLocalRef, FetchRemoteRef
     DEF RunStep

\* Before a manifest is loaded there is nothing to compare.
LEMMA ReferenceInit == RunnerInit => ReferenceInv
<1> SUFFICES ASSUME RunnerInit PROVE ReferenceInv
  OBVIOUS
<1>1. manifest = NoManifest /\ bindings = <<>>
  BY DEF RunnerInit
<1>2. DOMAIN Env = {} /\ Len(bindings) = 0
  <2>1. DOMAIN bindings = {} /\ Len(bindings) = 0
    BY <1>1
  <2>2. {BoundKey(bindings[i]) : i \in {}} = {}
    OBVIOUS
  <2>3. QED
    BY <2>1, <2>2 DEF Env, EnvOf
<1>3. QED
  BY <1>1, <1>2, FS_EmptySet DEF ReferenceInv

LEMMA ReferenceStutter == ReferenceInv /\ UNCHANGED runnerVars => ReferenceInv'
  BY DEF runnerVars, ReferenceInv, Env, Ahead, Abs, LogAhead, Log, SequenceAt, SelectionKept

LEMMA ReferenceNext == RunnerInv /\ ReferenceInv /\ [RunnerNext]_runnerVars => ReferenceInv'
<1> SUFFICES ASSUME RunnerInv, ReferenceInv, [RunnerNext]_runnerVars PROVE ReferenceInv'
  OBVIOUS
<1>1. CASE Start
  BY <1>1, SuitRunnerInitRef DEF Start
<1>2. CASE RunStep
  BY <1>2, RunStepRef
<1>3. CASE Download
  BY <1>3, StoreAndResumeRef DEF Download
<1>4. CASE UNCHANGED runnerVars
  BY <1>4, ReferenceStutter
<1>5. QED
  BY <1>1, <1>2, <1>3, <1>4 DEF RunnerNext

\* At the end of a run there is nothing ahead.
LEMMA EndIsReference == RunnerInv /\ ReferenceInv => RunsAsReference
<1> SUFFICES ASSUME RunnerInv, ReferenceInv, Ended, SequenceReadable(manifest)
             PROVE  /\ has_error = ~RefRun(manifest, "site").ok
                    /\ Log = RefRun(manifest, "site").log
  BY DEF RunsAsReference
<1>1. manifest # NoManifest /\ ~crashed /\ ~suspended
  BY DEF Ended
<1>2. has_error \in BOOLEAN
  BY DEF RunnerInv, RunnerTypeOK
<1>3. CASE has_error
  BY <1>1, <1>2, <1>3 DEF ReferenceInv
<1>4. CASE ~has_error
  <2>1. call = NoCall /\ program_counter.next = "exit"
    BY <1>1, <1>4 DEF Ended, RunReturned
  <2>2. Ahead = Abs
    BY <2>1 DEF Ahead, SequenceAt, FinishSequence, FinishCommand, FinishCall
  <2>3. RefRun(manifest, "site") = Abs
    BY <1>1, <1>4, <2>2 DEF ReferenceInv
  <2>4. Abs.ok = TRUE /\ Abs.log = Log
    BY <1>1 DEF Abs, LogAhead
  <2>5. QED
    BY <1>2, <1>4, <2>3, <2>4
<1>5. QED
  BY <1>3, <1>4

\* suit_runner_run executes a readable manifest as the reference does.
THEOREM RunsExactly == RunnerSpec => []RunsAsReference
<1>1. RunnerSpec => []ReferenceInv
  BY ReferenceInit, ReferenceNext, RunnerInvariant, PTL DEF RunnerSpec
<1>2. QED
  BY <1>1, EndIsReference, RunnerInvariant, PTL

=============================================================================
