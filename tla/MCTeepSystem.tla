---------------------------- MODULE MCTeepSystem ----------------------------
(***************************************************************************)
(* Model checking of the device: broker and agent against any TAM.         *)
(***************************************************************************)
EXTENDS TeepSystem

CONSTANTS p0, p1, b1, b2, r0, r2, l0, t1, t2, t3, q1

MCPath == {p0, p1}
MCBlock == {b1, b2}
MCImage == {<<b1>>, <<b1, b2>>}
MCHeaderPath == [i \in MCImage |-> p0]
MCRemoteUri == {r0, r2}
MCLongUri == {r2}
MCWildUri == {r2}
MCLocalUri == {l0}
MCSlot == {"frame"}
MCFrame == [s \in Site |-> "frame"]
MCToken == {t1, t2, t3}
MCRequest == {q1}
MCTamUriLen == {2}
MCTaList == <<q1>>

Id(path) == [device |-> "equal", storage |-> "equal", suffix |-> "equal",
             uuid |-> path, extra |-> FALSE]
SetUri(u) == [op |-> "override-parameters", arg |-> <<[key |-> SUIT_PARAMETER_URI, value |-> u]>>]
Fetch == [op |-> "fetch", arg |-> <<>>]
Component(i) == [op |-> "set-component-index", arg |-> [kind |-> "uint", list |-> <<i>>]]

ManifestOf(form, cmds) ==
    [components |-> <<Id(p0), Id(p1)>>, n_dependencies |-> 0,
     common |-> [form |-> "array", cmds |-> <<>>],
     install |-> [form |-> form, cmds |-> cmds],
     payloads |-> [u \in {l0} |-> <<b1, b2>>]]

\* A payload, then two downloads, the first into the same component.
Install == ManifestOf("array", <<Component(0), SetUri(l0), Fetch, SetUri(r0), Fetch,
                                 Component(1), Fetch>>)
\* A payload, then a download whose uri is longer than the task.
Wild == ManifestOf("array", <<Component(0), SetUri(l0), Fetch, SetUri(r2), Fetch>>)
Failing == ManifestOf("array", <<Component(0), Fetch>>)
Severed == ManifestOf("severed", <<>>)
Unread == ManifestOf("not-array", <<>>)

MCManifest == {Install, Wild, Failing, Severed, Unread}

Signed(m) == [wrapper |-> TRUE, blocks |-> <<TRUE>>, digest_ok |-> TRUE,
              readable |-> TRUE, manifest |-> m]
Forged(m) == [Signed(m) EXCEPT !.blocks = <<FALSE>>]

MCEnvelope == {Signed(m) : m \in MCManifest} \cup {Forged(Install)}

\* No message fits that carries the token t3.
MCTooLong == {Encoded(type, t3, report) :
                  type \in {"query-response", "success", "error"},
                  report \in {<<>>, <<MCTaList>>, <<<<>>>>}}

Msg(type, tok, items, list) ==
    [type |-> type, token |-> tok, items |-> items, manifest_list |-> list]

MCMessage ==
         {Msg(t, t1, {}, <<>>) : t \in {"empty", "garbage", "success"}}
    \cup {Msg("query-request", t, {"trusted-components"}, <<>>) : t \in {t1, t3}}
    \cup {Msg("update", t, {}, <<e>>) : t \in {t1, t2}, e \in MCEnvelope}
    \cup {Msg("update", t1, {}, <<Signed(Install), e>>) : e \in MCEnvelope}
    \cup {Msg("update", t1, {}, <<>>)}

=============================================================================
