---------------------------- MODULE SuitReference ----------------------------
(***************************************************************************)
(* What running a manifest means: a reference that executes a command      *)
(* sequence command by command, each command on the list of its targets,   *)
(* each parameter map entry by entry, and knows nothing of continuations,  *)
(* stacks, calls and suspensions.  The loops are recursive functions, so   *)
(* that the comparison can be model-checked and proved.                    *)
(***************************************************************************)
EXTENDS SuitRunner

\* A state of the reference: the parameters set so far and how many binders they
\* took, the selection, the stores made.  Nothing changes once ok is FALSE.
RefStart == [ok |-> TRUE, env |-> [k \in {} |-> EmptyUri], used |-> 0, log |-> <<>>,
             sel |-> [is_component |-> TRUE, param |-> [kind |-> "true", list |-> <<>>]]]
Fail(st) == [st EXCEPT !.ok = FALSE]

\* The targets of a command under the selection sel.
RefObjects(m, sel) == IF sel.is_component THEN Len(m.components) ELSE m.n_dependencies
RefTargets(m, sel) ==
    IF sel.param.kind = "true" THEN [i \in 1 .. RefObjects(m, sel) |-> i - 1] ELSE sel.param.list

\* Which targets share their parameters: those with one index, or those whose
\* handler is called from one place.
RefSite(sel) ==
    IF sel.param.kind = "true" THEN "all" ELSE IF sel.param.kind = "uint" THEN "index" ELSE "array"
RefKey(by, sel, i) == IF by = "index" THEN i ELSE Frame[RefSite(sel)]

\* One entry of a parameter map.  A key wider than the enum takes a new binder
\* each time; it is then the parameter of the low bits, unless there is one.
RefBind(st, key, op, e) ==
    LET k == <<key, e.key % KEY_LIMIT>>
        known == k \in DOMAIN st.env
        found == known /\ e.key < KEY_LIMIT
        bound == [x \in DOMAIN st.env \cup {k} |-> IF x = k THEN e.value ELSE st.env[x]]
    IN  IF ~st.ok THEN st
        ELSE IF e.key < 0 \/ (~found /\ st.used = SUIT_BINDER_MAX) THEN Fail(st)
        ELSE IF found THEN IF op = "set-parameters" THEN st ELSE [st EXCEPT !.env = bound]
        ELSE [st EXCEPT !.used = @ + 1, !.env = IF known THEN @ ELSE bound]

RefEntries(st, key, op, arg) ==
    LET f[i \in 0 .. Len(arg)] ==
            IF i = 0 THEN st ELSE RefBind(f[i - 1], key, op, arg[i])
    IN  f[Len(arg)]

RefFetch(m, st, key, i) ==
    LET k == <<key, SUIT_PARAMETER_URI>>
        uri == IF k \in DOMAIN st.env THEN st.env[k] ELSE EmptyUri
        path == IF st.sel.is_component THEN ParseComponentId(m.components[i + 1]) ELSE NoPath
    IN  IF uri \notin RemoteUri \cup LocalUri THEN Fail(st)
        ELSE IF uri \in LocalUri /\ FieldUnreadable(m, uri) THEN Fail(st)
        ELSE IF ~st.sel.is_component THEN IF uri \in RemoteUri THEN Fail(st) ELSE st
        ELSE IF path = NoPath THEN Fail(st)
        ELSE [st EXCEPT !.log = Append(@, [path |-> path, uri |-> uri])]

\* A command on the object i.
RefHandle(m, by, c, st, i) ==
    LET key == RefKey(by, st.sel, i)
    IN  IF ~st.ok THEN st
        ELSE IF i \notin 0 .. (RefObjects(m, st.sel) - 1) THEN Fail(st)
        ELSE IF c.op \in Setters THEN RefEntries(st, key, c.op, c.arg)
        ELSE IF c.op = "fetch" THEN RefFetch(m, st, key, i)
        ELSE st

RefOnTargets(m, by, c, st, targets) ==
    LET f[j \in 0 .. Len(targets)] ==
            IF j = 0 THEN st ELSE RefHandle(m, by, c, f[j - 1], targets[j])
    IN  f[Len(targets)]

RefCommand(m, by, part, st, c) ==
    IF ~st.ok THEN st
    ELSE IF c.op \in Selectors
    THEN [st EXCEPT !.sel = [is_component |-> c.op = "set-component-index", param |-> c.arg]]
    ELSE IF \/ c.op = "junk"
            \/ part = "common" /\ c.op \in {"fetch", "process-dependency"}
            \/ st.sel.param.kind = "other" THEN Fail(st)
    ELSE IF st.sel.param.kind = "false" THEN st
    ELSE RefOnTargets(m, by, c, st, RefTargets(m, st.sel))

RefCommands(m, by, part, st, cmds) ==
    LET f[k \in 0 .. Len(cmds)] ==
            IF k = 0 THEN st ELSE RefCommand(m, by, part, f[k - 1], cmds[k])
    IN  f[Len(cmds)]

\* A readable manifest, from the beginning to the end.
RefRun(m, by) ==
    RefCommands(m, by, "install", RefCommands(m, by, "common", RefStart, m.common.cmds),
                m.install.cmds)

----------------------------------------------------------------------------
(* Properties                                                              *)

\* The stores made, without what was stored.
LogOf(s) == [i \in DOMAIN s |-> [path |-> s[i].path, uri |-> s[i].uri]]
Log == LogOf(installs)

Ended == manifest # NoManifest /\ ~crashed /\ RunReturned /\ ~suspended

\* Across suspensions, pushes and pops, a readable manifest performs exactly the
\* stores of the reference, in its order, and ends with an error exactly when
\* the reference fails: nothing is skipped, repeated or executed after an error.
RunsAsReference ==
    Ended /\ SequenceReadable(manifest) =>
        LET ref == RefRun(manifest, "site") IN has_error = ~ref.ok /\ Log = ref.log

\* lookup_binder, suit.c:194 "TODO: compare target by component_id": a fetch uses
\* the parameters that were set for its own component.
ParametersByComponent ==
    Ended /\ SequenceReadable(manifest) =>
        \A i \in DOMAIN Log : \E j \in DOMAIN RefRun(manifest, "index").log :
            Log[i] = RefRun(manifest, "index").log[j]

=============================================================================
