----------------------------- MODULE HttpClient -----------------------------
(***************************************************************************)
(* One call of http_get or http_post (teep-broker-app/http-lws.c): a new   *)
(* libwebsockets context, one client connection, and an event loop that    *)
(* runs until a callback has set the result.                               *)
(*                                                                         *)
(* libwebsockets is external.  A context is never destroyed, but its loop  *)
(* is not entered again after the call, so no callback follows the return. *)
(***************************************************************************)
EXTENDS Naturals, Sequences

CONSTANTS
    Datum,          \* the bytes of a response
    Body,           \* the response bodies a server may send
    Status,         \* the status codes a server may send, as strings
    Url,            \* the forms of the url argument
    max_out_len,    \* *out_len at the call: the size of the caller's buffer
    ServiceMayFail  \* whether lws_service can return nonzero

ASSUME HttpClientAssumption ==
    /\ Body \subseteq Seq(Datum) /\ <<>> \in Body
    /\ Url \subseteq {"http", "https", "other", "unparsable", "long"}
    /\ max_out_len \in Nat /\ ServiceMayFail \in BOOLEAN

VARIABLES
    call,       \* "start", "service" or "returned"
    method,     \* "GET" or "POST"
    url,        \* the url argument
    wsi,        \* the connection, as libwebsockets sees it
    pending,    \* the request's body is still to be written
    sent,       \* how often it was written
    status, body, received, \* the server's response, and how much of it arrived
    result,     \* laoa->result
    out,        \* the caller's buffer, up to io.out_len
    rc,         \* the return value
    broken      \* history: lws_service failed

serverVars == <<status, body>>
httpVars == <<call, method, url, wsi, pending, sent, serverVars, received, result, out, rc, broken>>

Failure == {"CONN_ERR", "REFUSED", "OVERSIZE", "CLOSED"}

InService == call = "service"

----------------------------------------------------------------------------

\* No context, no memory, a url without a form this client knows, or no
\* connection: return -1.
RequestFails ==
    /\ call = "start"
    /\ call' = "returned" /\ rc' = "START"
    /\ UNCHANGED <<method, url, wsi, pending, sent, serverVars, received, result, out, broken>>

\* Up to the event loop.  A url of 200 characters and more fills tmp_url without
\* a terminator, and what lws_parse_uri then makes of it is undefined.
Request ==
    /\ call = "start"
    /\ url \in {"http", "https", "long"}
    /\ call' = "service" /\ wsi' = "connecting"
    /\ result' = "ONGOING"
    /\ UNCHANGED <<method, url, pending, sent, serverVars, received, out, rc, broken>>

\* LWS_CALLBACK_CLIENT_APPEND_HANDSHAKE_HEADER: with POST, announce a body.
AppendHandshakeHeader ==
    /\ InService /\ wsi = "connecting"
    /\ \/ wsi' = "handshake" /\ pending' = (method = "POST")
       \/ method = "POST" /\ wsi' = "closing" /\ UNCHANGED pending
    /\ UNCHANGED <<call, method, url, sent, serverVars, received, result, out, rc, broken>>

\* LWS_CALLBACK_CLIENT_HTTP_WRITEABLE
Writeable ==
    /\ InService /\ wsi \in {"handshake", "established"} /\ pending
    /\ \/ sent' = sent + 1 /\ pending' = FALSE /\ UNCHANGED wsi
       \/ wsi' = "closing" /\ UNCHANGED <<pending, sent>>
    /\ UNCHANGED <<call, method, url, serverVars, received, result, out, rc, broken>>

\* LWS_CALLBACK_CLIENT_CONNECTION_ERROR: the connection failed, or a callback
\* refused it.
ConnectionError ==
    /\ InService /\ wsi \in {"connecting", "handshake", "closing"}
    /\ wsi' = "gone"
    /\ result' = "CONN_ERR"
    /\ UNCHANGED <<call, method, url, pending, sent, serverVars, received, out, rc, broken>>

\* Mutant: a refused download goes on.
EstablishedAnyStatus ==
    /\ InService /\ wsi = "handshake"
    /\ result' = IF method = "POST" /\ status = "204" THEN "OKAY" ELSE result
    /\ wsi' = "established"
    /\ UNCHANGED <<call, method, url, pending, sent, serverVars, received, out, rc, broken>>

\* LWS_CALLBACK_ESTABLISHED_CLIENT_HTTP: callback_teep is done with a 204,
\* callback_download_ta_image refuses all but a 200.
Established ==
    /\ InService /\ wsi = "handshake"
    /\ \/ method = "POST" /\ wsi' = "established"
          /\ result' = IF status = "204" THEN "OKAY" ELSE result
       \/ method = "GET" /\ status = "200" /\ wsi' = "established" /\ UNCHANGED result
       \/ method = "GET" /\ status # "200" /\ wsi' = "closing" /\ result' = "REFUSED"
    /\ UNCHANGED <<call, method, url, pending, sent, serverVars, received, out, rc, broken>>

\* Mutant: the room left is compared with the piece alone.
FitsAlone(n) == n <= max_out_len

\* The piece fits behind what was received before.
Fits(n) == Len(out) + n <= max_out_len

\* LWS_CALLBACK_RECEIVE_CLIENT_HTTP and ..._READ with the next n bytes.
Receive(n) ==
    /\ InService /\ wsi = "established" /\ received + n <= Len(body)
    /\ received' = received + n
    /\ \/ /\ Fits(n)
          /\ out' = out \o SubSeq(body, received + 1, received + n)
          /\ UNCHANGED <<result, wsi>>
       \/ /\ ~Fits(n)
          /\ result' = "OVERSIZE" /\ wsi' = "closing"
          /\ UNCHANGED out
    /\ UNCHANGED <<call, method, url, pending, sent, serverVars, rc, broken>>

\* lws_http_client_read fails.
ReceiveFails ==
    /\ InService /\ wsi = "established"
    /\ wsi' = "closing"
    /\ UNCHANGED <<call, method, url, pending, sent, serverVars, received, result, out, rc, broken>>

\* LWS_CALLBACK_COMPLETED_CLIENT_HTTP, once the whole body has been delivered.
Completed ==
    /\ InService /\ wsi = "established" /\ received = Len(body)
    /\ wsi' = "completed"
    /\ result' = "OKAY"
    /\ UNCHANGED <<call, method, url, pending, sent, serverVars, received, out, rc, broken>>

\* Mutant: the end of the connection changes nothing.
ClosedSilently ==
    /\ InService /\ wsi \in {"established", "completed", "closing"}
    /\ wsi' = "gone"
    /\ UNCHANGED <<call, method, url, pending, sent, serverVars, received, result, out, rc, broken>>

\* Mutant: the end of the connection clears an earlier failure.
ClosedRestarts ==
    /\ InService /\ wsi \in {"established", "completed", "closing"}
    /\ wsi' = "gone"
    /\ result' = IF result = "ONGOING" THEN "CLOSED" ELSE "OKAY"
    /\ UNCHANGED <<call, method, url, pending, sent, serverVars, received, out, rc, broken>>

\* LWS_CALLBACK_CLOSED_CLIENT_HTTP, at any time after the response has begun.
Closed ==
    /\ InService /\ wsi \in {"established", "completed", "closing"}
    /\ wsi' = "gone"
    /\ result' = IF result = "ONGOING" THEN "CLOSED" ELSE result
    /\ UNCHANGED <<call, method, url, pending, sent, serverVars, received, out, rc, broken>>

\* The return of http_get and http_post: any result that is not negative is a
\* success.
ReturnResult ==
    /\ call' = "returned"
    /\ rc' = IF result \in Failure THEN result ELSE "0"
    /\ UNCHANGED <<method, url, wsi, pending, sent, serverVars, received, result, out>>

\* lws_service returns 0 and a callback has set the result.
ServiceDone ==
    /\ InService /\ result # "ONGOING"
    /\ ReturnResult
    /\ UNCHANGED broken

\* lws_service returns nonzero: the loop ends whatever the result is.
ServiceFails ==
    /\ ServiceMayFail
    /\ InService
    /\ ReturnResult
    /\ broken' = TRUE

HttpInit ==
    /\ call = "start" /\ method \in {"GET", "POST"} /\ url \in Url
    /\ wsi = "none" /\ pending = FALSE /\ sent = 0
    /\ status \in Status /\ body \in IF status = "204" THEN {<<>>} ELSE Body
    /\ received = 0
    /\ result = "OKAY" /\ out = <<>> /\ rc = "none" /\ broken = FALSE

HttpNext ==
    \/ RequestFails \/ Request
    \/ AppendHandshakeHeader \/ Writeable \/ Established
    \/ (\E n \in 1 .. Len(body) : Receive(n)) \/ ReceiveFails
    \/ Completed \/ ConnectionError \/ Closed
    \/ ServiceDone \/ ServiceFails

\* lws_service returns after at most a second; nothing is asked of the server.
HttpSpec == HttpInit /\ [][HttpNext]_httpVars /\ WF_httpVars(ServiceDone)

----------------------------------------------------------------------------
(* Properties.                                                             *)

\* The types of the variables.
HttpTypeOK ==
    /\ call \in {"start", "service", "returned"} /\ method \in {"GET", "POST"} /\ url \in Url
    /\ wsi \in {"none", "connecting", "handshake", "established", "completed", "closing", "gone"}
    /\ pending \in BOOLEAN /\ sent \in 0 .. 1
    /\ status \in Status /\ body \in Body /\ received \in 0 .. Len(body)
    /\ result \in Failure \cup {"ONGOING", "OKAY"}
    /\ out \in Seq(Datum) /\ rc \in Failure \cup {"none", "START", "0"}
    /\ broken \in BOOLEAN

\* The caller's buffer is never overrun and holds what the server sent, from the
\* start and without a gap.
BufferIsPrefix ==
    /\ Len(out) <= max_out_len
    /\ Len(out) <= Len(body) /\ out = SubSeq(body, 1, Len(out))

\* A call that returns 0 has the whole response, and for a download the server
\* said 200, in whatever order data, errors and the close arrived, unless
\* lws_service broke off.
SuccessIsComplete ==
    rc = "0" /\ ~broken => out = body /\ (method = "GET" => status = "200")

\* A failure is never turned into a success, or into a wait, by a later callback.
FailureSticks == [][InService /\ result \in Failure => result' \in Failure]_httpVars

\* Once the connection is gone the call returns: no callback is left to wait for.
GoneMeansReturned == wsi = "gone" ~> call = "returned"
=============================================================================
