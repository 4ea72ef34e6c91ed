---------------------------- MODULE TeepProtocol ----------------------------
(***************************************************************************)
(* What a TEEP Agent session promises to whoever drives it: the order of   *)
(* the exchanges with the TAM, with one outstanding task at a time and no  *)
(* way back to an earlier phase.                                           *)
(***************************************************************************)

VARIABLES
    phase,        \* how far the session is
    outstanding   \* the task handed out and not yet answered

protocolVars == <<phase, outstanding>>

ProtocolInit == phase = "new" /\ outstanding = "none"

Begin ==
    /\ phase = "new"
    /\ phase' = "hello"
    /\ UNCHANGED outstanding

\* The task of each phase: a message to the TAM, a download, or the end.
TaskOf(p) ==
    CASE p \in {"hello", "query", "success", "error"} -> "post"
      [] p = "install" -> "get"
      [] p = "done" -> "finish"

Issue ==
    /\ outstanding = "none"
    /\ phase # "new"
    /\ outstanding' = TaskOf(phase)
    /\ UNCHANGED phase

\* Where the answer to a message may lead.
After(p) ==
    CASE p = "hello"   -> {"query", "error", "done"}
      [] p = "query"   -> {"query", "install", "error", "done"}
      [] p = "success" -> {"error", "done"}
      [] p = "error"   -> {"done"}

Answer ==
    /\ outstanding = "post"
    /\ phase' \in After(phase)
    /\ outstanding' = "none"

Downloaded ==
    /\ outstanding = "get"
    /\ outstanding' = "none"
    /\ UNCHANGED phase

\* The installation is over.
Conclude ==
    /\ phase = "install" /\ outstanding = "none"
    /\ phase' \in {"success", "error"}
    /\ UNCHANGED outstanding

ProtocolNext == Begin \/ Issue \/ Answer \/ Downloaded \/ Conclude

ProtocolSpec == ProtocolInit /\ [][ProtocolNext]_protocolVars

=============================================================================
