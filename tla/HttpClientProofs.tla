-------------------------- MODULE HttpClientProofs --------------------------
(***************************************************************************)
(* Proofs about the HTTP client: for every server, every buffer size and   *)
(* every order of callbacks, the caller's buffer holds a prefix of the     *)
(* response, a failure stays one, and a success is the whole response.     *)
(***************************************************************************)
EXTENDS HttpClient, TLAPS

\* A callback that set a failure has also ended the exchange.
FailedIsOver == InService /\ result \in Failure => wsi \in {"closing", "gone"}

\* While the exchange goes on, all that arrived is in the buffer.
NothingDropped == wsi \notin {"closing", "gone"} => Len(out) = received

\* A download goes on only after a 200.
DownloadAllowed ==
    method = "GET" /\ wsi \in {"established", "completed"} => status = "200"

\* Within the event loop, OKAY means that the response is there.
OkayIsComplete ==
    InService /\ result = "OKAY" => out = body /\ (method = "GET" => status = "200")

HttpInv ==
    /\ HttpTypeOK /\ BufferIsPrefix
    /\ FailedIsOver /\ NothingDropped /\ DownloadAllowed /\ OkayIsComplete
    /\ SuccessIsComplete
    /\ status = "204" => body = <<>>
    /\ call = "start" => out = <<>> /\ received = 0 /\ wsi = "none" /\ result = "OKAY"
    /\ pending \/ wsi \in {"none", "connecting"} => sent = 0

----------------------------------------------------------------------------

\* The next piece of a response, appended to a prefix of it, makes a prefix.
LEMMA AppendPiece ==
  ASSUME NEW s \in Seq(Datum), NEW k \in Nat, NEW n \in Nat, k + n <= Len(s)
  PROVE  /\ SubSeq(s, 1, k) \o SubSeq(s, k + 1, k + n) = SubSeq(s, 1, k + n)
         /\ SubSeq(s, 1, k + n) \in Seq(Datum)
         /\ Len(SubSeq(s, 1, k + n)) = k + n
  OBVIOUS

\* A prefix as long as the sequence is the sequence.
LEMMA WholePrefix ==
  ASSUME NEW s \in Seq(Datum)
  PROVE  SubSeq(s, 1, Len(s)) = s
  OBVIOUS

\* The response is the server's from the start and nothing has arrived.
LEMMA HttpInvInit == HttpInit => HttpInv
  <1> USE HttpClientAssumption
          DEF HttpInv, HttpTypeOK, BufferIsPrefix, FailedIsOver, NothingDropped, DownloadAllowed,
              OkayIsComplete, SuccessIsComplete, InService, Failure, serverVars
  <1> SUFFICES ASSUME HttpInit PROVE HttpInv
    OBVIOUS
  <1>1. body \in Seq(Datum) /\ body \in Body
    BY DEF HttpInit
  <1>2. out = SubSeq(body, 1, Len(out)) /\ Len(out) = 0 /\ out \in Seq(Datum)
    BY <1>1 DEF HttpInit
  <1>3. HttpTypeOK
    <2>1. sent \in 0 .. 1 /\ received \in 0 .. Len(body)
      BY <1>1 DEF HttpInit
    <2>2. pending \in BOOLEAN /\ broken \in BOOLEAN
      BY DEF HttpInit
    <2> QED
      BY <1>1, <1>2, <2>1, <2>2 DEF HttpInit
  <1>4. BufferIsPrefix
    BY <1>1, <1>2
  <1> QED
    BY <1>1, <1>2, <1>3, <1>4 DEF HttpInit

\* Every callback and every step of the call preserves the invariant.
LEMMA HttpInvNext == HttpInv /\ [HttpNext]_httpVars => HttpInv'
  <1> USE HttpClientAssumption
          DEF HttpInv, HttpTypeOK, BufferIsPrefix, FailedIsOver, NothingDropped, DownloadAllowed,
              OkayIsComplete, SuccessIsComplete, InService, Failure, serverVars
  <1> SUFFICES ASSUME HttpInv, [HttpNext]_httpVars PROVE HttpInv'
    OBVIOUS
  <1>0. body \in Seq(Datum)
    OBVIOUS
  <1>1. CASE RequestFails
    BY <1>0, <1>1 DEF RequestFails
  <1>2. CASE Request
    BY <1>0, <1>2 DEF Request
  <1>3. CASE AppendHandshakeHeader
    BY <1>0, <1>3 DEF AppendHandshakeHeader
  <1>4. CASE Writeable
    <2>1. sent = 0
      BY <1>4 DEF Writeable
    <2>2. sent' = sent + 1 \/ sent' = sent
      BY <1>4 DEF Writeable
    <2>3. pending' \in BOOLEAN
      BY <1>4, Zenon DEF Writeable
    <2>4. sent' \in 0 .. 1
      BY ONLY <2>1, <2>2
    <2>5. HttpTypeOK'
      BY <1>0, <1>4, <2>3, <2>4 DEF Writeable
    <2>6. BufferIsPrefix' /\ NothingDropped'
      BY <1>0, <1>4 DEF Writeable
    <2>7. (pending \/ wsi \in {"none", "connecting"} => sent = 0)'
      BY <1>0, <1>4 DEF Writeable
    <2>8. FailedIsOver' /\ DownloadAllowed' /\ OkayIsComplete' /\ SuccessIsComplete'
      BY <1>0, <1>4 DEF Writeable
    <2> QED
      BY <1>0, <1>4, <2>5, <2>6, <2>7, <2>8 DEF Writeable
  <1>5. CASE Established
    BY <1>0, <1>5 DEF Established
  <1>6. CASE ReceiveFails
    BY <1>0, <1>6 DEF ReceiveFails
  <1>7. CASE ConnectionError
    BY <1>0, <1>7 DEF ConnectionError
  <1>8. CASE Closed
    BY <1>0, <1>8 DEF Closed
  <1>9. ASSUME NEW n \in 1 .. Len(body), Receive(n)
        PROVE  HttpInv'
    <2>1. result \notin Failure /\ Len(out) = received /\ n \in Nat /\ received \in Nat
      BY <1>9 DEF Receive
    <2>2. result # "OKAY"
      BY <1>9, <2>1 DEF Receive
    <2>3. received + n <= Len(body) /\ body' = body /\ received' = received + n
      BY <1>9 DEF Receive
    <2>4. CASE Fits(n)
      <3>1. out' = out \o SubSeq(body, received + 1, received + n)
        BY <1>9, <2>4 DEF Receive
      <3>2. out = SubSeq(body, 1, received)
        BY <2>1
      <3>3. out' = SubSeq(body, 1, received + n)
        BY ONLY <1>0, <2>1, <2>3, <3>1, <3>2, AppendPiece
      <3>4. out' \in Seq(Datum) /\ Len(out') = received + n
        BY <1>0, <2>1, <2>3, <3>3, AppendPiece
      <3>5. Len(out') <= max_out_len
        BY <2>1, <2>4, <3>4 DEF Fits
      <3> QED
        BY <1>9, <2>1, <2>2, <2>3, <2>4, <3>3, <3>4, <3>5 DEF Receive
    <2>5. CASE ~Fits(n)
      BY <1>9, <2>1, <2>2, <2>3, <2>5 DEF Receive
    <2> QED
      BY <2>4, <2>5
  <1>10. CASE Completed
    <2>1. Len(out) = received /\ received = Len(body)
      BY <1>10 DEF Completed
    <2>2. out = body
      BY <1>0, <2>1, WholePrefix
    <2> QED
      BY <1>0, <1>10, <2>2 DEF Completed
  <1>11. CASE ServiceDone
    BY <1>0, <1>11 DEF ServiceDone, ReturnResult
  <1>12. CASE ServiceFails
    BY <1>0, <1>12 DEF ServiceFails, ReturnResult
  <1>13. CASE UNCHANGED httpVars
    <2>1. HttpTypeOK'
      BY <1>0, <1>13 DEF httpVars
    <2>2. BufferIsPrefix' /\ NothingDropped'
      BY <1>0, <1>13 DEF httpVars
    <2>3. (pending \/ wsi \in {"none", "connecting"} => sent = 0)'
      BY <1>0, <1>13 DEF httpVars
    <2>4. FailedIsOver' /\ DownloadAllowed' /\ OkayIsComplete' /\ SuccessIsComplete'
      BY <1>0, <1>13 DEF httpVars
    <2> QED
      BY <1>0, <1>13, <2>1, <2>2, <2>3, <2>4 DEF httpVars
  <1> QED
    BY <1>1, <1>2, <1>3, <1>4, <1>5, <1>6, <1>7, <1>8, <1>9, <1>10, <1>11, <1>12, <1>13 DEF HttpNext

\* http_get and http_post keep the invariant against every server.
THEOREM HttpInvariant == HttpSpec => []HttpInv
  BY HttpInvInit, HttpInvNext, PTL DEF HttpSpec

\* The memcpy of the callbacks stays in the caller's buffer and leaves no gap.
THEOREM BufferAlwaysPrefix == HttpSpec => []BufferIsPrefix
  <1>1. HttpInv => BufferIsPrefix
    BY DEF HttpInv
  <1> QED
    BY <1>1, HttpInvariant, PTL

\* A return value of 0 stands for the whole response, and a 200 for a download,
\* as long as lws_service does not break off.
THEOREM SuccessAlwaysComplete == HttpSpec => []SuccessIsComplete
  <1>1. HttpInv => SuccessIsComplete
    BY DEF HttpInv
  <1> QED
    BY <1>1, HttpInvariant, PTL

\* No callback overwrites a failure with a success.
THEOREM FailureIsFinal == HttpSpec => FailureSticks
  <1>1. HttpInv /\ [HttpNext]_httpVars => [InService /\ result \in Failure => result' \in Failure]_httpVars
    <2> SUFFICES ASSUME HttpInv, HttpNext, InService, result \in Failure
                 PROVE  result' \in Failure
      BY DEF httpVars
    <2>1. wsi \in {"closing", "gone"}
      BY DEF HttpInv, FailedIsOver
    <2> QED
      BY <2>1 DEF HttpNext, InService, Failure, RequestFails, Request, AppendHandshakeHeader,
                  Writeable, Established, Receive, ReceiveFails, Completed, ConnectionError,
                  Closed, ServiceDone, ServiceFails, ReturnResult
  <1> QED
    BY <1>1, HttpInvariant, PTL DEF HttpSpec, FailureSticks

=============================================================================
