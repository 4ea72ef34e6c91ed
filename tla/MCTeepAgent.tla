----------------------------- MODULE MCTeepAgent -----------------------------
(***************************************************************************)
(* Model checking of TeepAgent with the most general client: any command   *)
(* at any time, any answer of the TAM, and malloc failing at will.         *)
(***************************************************************************)
EXTENDS TeepAgent

CONSTANTS p0, p1, b1, r0, r1, r2, l0, t1, q1

MCPath == {p0, p1}
MCBlock == {b1}
MCImage == {<<b1>>}
MCHeaderPath == [i \in MCImage |-> p0]
MCRemoteUri == {r0, r1, r2}
MCLongUri == {r1, r2}
MCWildUri == {r2}
MCLocalUri == {l0}
MCSlot == {"frame"}
MCFrame == [s \in Site |-> "frame"]
MCToken == {t1}
MCRequest == {q1}
MCTamUriLen == {2, 3, 4}

Id(path) == [device |-> "equal", storage |-> "equal", suffix |-> "equal",
             uuid |-> path, extra |-> FALSE]
SetUri(u) == [op |-> "override-parameters", arg |-> <<[key |-> SUIT_PARAMETER_URI, value |-> u]>>]
Fetch == [op |-> "fetch", arg |-> <<>>]
Component(i) == [op |-> "set-component-index", arg |-> [kind |-> "uint", list |-> <<i>>]]

ManifestOf(form, cmds) ==
    [components |-> <<Id(p0), Id(p1)>>, n_dependencies |-> 0,
     common |-> [form |-> "array", cmds |-> <<>>],
     install |-> [form |-> form, cmds |-> cmds],
     payloads |-> [u \in {l0} |-> <<b1>>]]

\* Two downloads, one after the other and into different components.
Downloads == ManifestOf("array", <<SetUri(r0), Fetch>>)
\* A download whose uri is too long for the broker's buffer.
LongDownload == ManifestOf("array", <<Component(1), SetUri(r1), Fetch>>)
\* One whose uri is longer than the task, after a payload has been stored.
WildDownload == ManifestOf("array", <<Component(0), SetUri(l0), Fetch, SetUri(r2), Fetch>>)
\* An embedded payload, then a command without its parameter: an error half-way.
HalfWay == ManifestOf("array", <<Component(0), SetUri(l0), Fetch, SetUri(EmptyUri), Fetch>>)
Severed == ManifestOf("severed", <<>>)
Unreadable == ManifestOf("not-array", <<>>)

MCManifest == {Downloads, LongDownload, WildDownload, HalfWay, Severed, Unreadable}

Signed(m) == [wrapper |-> TRUE, blocks |-> <<TRUE>>, digest_ok |-> TRUE,
              readable |-> TRUE, manifest |-> m]
Forged(m) == [Signed(m) EXCEPT !.blocks = <<TRUE, FALSE>>]
Unsigned(m) == [Signed(m) EXCEPT !.blocks = <<>>]
Broken(m) == [Signed(m) EXCEPT !.readable = FALSE]

MCEnvelope == {Signed(m) : m \in MCManifest}
        \cup {Forged(Downloads), Unsigned(Downloads), Broken(Downloads)}

\* The token leaves no room for the trusted components.
MCTooLong == {Encoded("query-response", t1, <<<<q1>>>>)}

Msg(type, items, list) ==
    [type |-> type, token |-> t1, items |-> items, manifest_list |-> list]

MCMessage ==
         {Msg(t, {}, <<>>) : t \in {"empty", "garbage", "query-response", "success", "error"}}
    \cup {Msg("query-request", items, <<>>) :
              items \in {{}, {"trusted-components"}, {"attestation", "trusted-components"}}}
    \cup {Msg("update", {}, <<>>)}
    \cup {Msg("update", {}, <<e>>) : e \in MCEnvelope}
    \cup {Msg("update", {}, <<d, e>>) :
              d \in {Signed(HalfWay), Forged(Downloads), Broken(Downloads)},
              e \in {Signed(Downloads), Unsigned(Downloads), Broken(Downloads)}}
    \cup {Msg("update", {}, <<Signed(HalfWay), Signed(Downloads), Signed(Downloads)>>)}

=============================================================================
