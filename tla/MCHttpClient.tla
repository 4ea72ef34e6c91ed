---------------------------- MODULE MCHttpClient ----------------------------
(***************************************************************************)
(* Model checking of the HTTP client: responses shorter than, as long as   *)
(* and longer than the caller's buffer, in pieces of every size.           *)
(***************************************************************************)
EXTENDS HttpClient

CONSTANTS x, y

MCDatum == {x, y}
MCBody == UNION {[1 .. n -> MCDatum] : n \in 0 .. 4}

=============================================================================
