----------------------------- MODULE HttpClient -----------------------------
(***************************************************************************)
(* The HTTP client (core/aiot_http_api.c, core/utils/core_http.c): one     *)
(* thread that authenticates, sends and receives, another one that calls   *)
(* aiot_http_deinit, and the server at the other end.                      *)
(*                                                                         *)
(* A response is a status line, a Content-Length line, the empty line and  *)
(* the units of its body.  Nothing in it says which request it answers:    *)
(* the client takes what comes next in the stream, and core_http_session_t *)
(* is all it knows of how far it is in a response.                         *)
(***************************************************************************)
EXTENDS Naturals, Sequences

CONSTANTS
  MaxReqs,     \* bound: requests
  MaxLeaks,    \* bound: the application stops after so many calls without exec_dec
  MaxFaults,   \* bound: failures and answers that are too slow
  MaxBody,     \* bound: units of a body
  BufferMax    \* body_buffer_max_len

ASSUME HttpAssumption ==
  /\ MaxReqs \in Nat /\ MaxLeaks \in Nat /\ MaxFaults \in Nat /\ MaxBody \in Nat
  /\ BufferMax \in Nat \ {0}

VARIABLES
  long_connection,  \* AIOT_HTTPOPT_LONG_CONNECTION, set before the first call
  exec_enabled, exec_count,
  handle,           \* "whole", "torn" once aiot_http_deinit has freed its strings, "freed"
  network,          \* network_handle is not NULL
  serving,          \* the server answers on this connection
  owed,             \* requests it has still to answer, or a part of one
  stream,           \* what it has sent and the client has not read
  session,          \* core_http_session_t
  token,            \* the body the token was taken from, empty without a token
  pc, api,          \* where the caller is, in which function
  total,            \* body_total_len of core_http_recv
  resp,             \* response: core_http_response_t on the caller's stack
  dpc,              \* where the deinit thread is
  reqs,             \* history: requests sent
  behind,           \* history: a request was sent before all earlier answers were read
  gaveup,           \* history: a call failed since the last request
  dropped,          \* history: since then a part of an answer was dropped for lack of memory
  delivered,        \* history: the last body given to the application, and when
  leaks,            \* history: calls that returned without exec_dec
  strayed,          \* history: a call read exec_enabled before, and counted itself after, its change
  faults

conn   == <<network, serving, owed, stream, behind>>
call   == <<total, resp>>
gate   == <<exec_enabled, exec_count, leaks, strayed>>
deinit == <<handle, dpc>>
vars   == <<long_connection, gate, deinit, conn, session, token, pc, api, call, reqs, gaveup, dropped, delivered, faults>>

Fault == faults < MaxFaults /\ faults' = faults + 1

-----------------------------------------------------------------------------
\* A part of the answer to request r: the status line, the line with the
\* length n, the empty line, then the units of the body.  What is left of a
\* line that was read in part is "junk", or "glue" without its line end.
Requests == 1 .. MaxReqs
Item == [r : Requests, api : {"auth", "send"}, code : {200, 400}, n : 0 .. MaxBody,
         at : 1 .. MaxBody + 3, left : {"all", "junk", "glue"}]

Kind(item) ==
  IF item.left # "all" THEN item.left
  ELSE CASE item.at = 1 -> "status"
         [] item.at = 2 -> "length"
         [] item.at = 3 -> "end"
         [] OTHER -> "body"

IsLine(item) == Kind(item) \notin {"body", "glue"}

NoSession == [sm |-> "header", total |-> 0, read |-> 0]
NoResp    == [code |-> 0, total |-> 0, content |-> <<>>]

Init ==
  /\ long_connection \in BOOLEAN
  /\ exec_enabled = TRUE /\ exec_count = 0 /\ leaks = 0 /\ strayed = FALSE
  /\ handle = "whole" /\ dpc = "idle"
  /\ network = FALSE /\ serving = FALSE /\ owed = <<>> /\ stream = <<>> /\ behind = FALSE
  /\ session = NoSession /\ token = <<>>
  /\ pc = "idle" /\ api = "recv" /\ total = 0 /\ resp = NoResp
  /\ reqs = 0 /\ gaveup = FALSE /\ dropped = FALSE /\ faults = 0
  /\ delivered = [content |-> <<>>, req |-> 0, behind |-> FALSE, gaveup |-> FALSE, dropped |-> FALSE]

-----------------------------------------------------------------------------
(* The server and the network: outside of the repository. *)

\* The status of an answer matters to aiot_http_auth only.
Answer(n, code) ==
  /\ serving /\ owed # <<>> /\ owed[1].api # "part"
  /\ owed[1].api = "auth" \/ code = 200
  /\ stream' = stream \o [i \in 1 .. n + 3 |->
                 [r |-> owed[1].r, api |-> owed[1].api, code |-> code, n |-> n, at |-> i, left |-> "all"]]
  /\ owed' = Tail(owed)
  /\ UNCHANGED <<long_connection, gate, deinit, network, serving, behind, session, token, pc, api, call, reqs, gaveup, dropped, delivered, faults>>

\* What is on its way is lost.
LinkBreaks ==
  /\ serving /\ Fault
  /\ serving' = FALSE
  /\ \E k \in 0 .. Len(stream) : stream' = SubSeq(stream, 1, k)
  /\ UNCHANGED <<long_connection, gate, deinit, network, owed, behind, session, token, pc, api, call, reqs, gaveup, dropped, delivered>>

-----------------------------------------------------------------------------
(* The gate of aiot_http_auth, aiot_http_send and aiot_http_recv. *)

\* exec_enabled is read without a mutex.  After aiot_http_deinit has returned
\* the application makes no more calls.
Call(f) ==
  /\ pc = "idle" /\ handle # "freed" /\ exec_enabled
  /\ f = "send" => token # <<>>
  /\ f # "recv" => reqs < MaxReqs
  /\ leaks < MaxLeaks
  /\ f = "recv" => network
  /\ api' = f
  /\ pc' = "inc"
  /\ UNCHANGED <<long_connection, gate, deinit, conn, session, token, call, reqs, gaveup, dropped, delivered, faults>>

\* The handler and the response on the stack become core_recv_handler and
\* core_userdata: core_http_setopt fails only for core_exec_enabled = 0, which
\* no code sets.
ExecInc ==
  /\ pc = "inc" /\ handle # "freed"
  /\ exec_count' = exec_count + 1
  /\ strayed' = (strayed \/ ~exec_enabled)
  /\ pc' = IF api = "recv" THEN "read" ELSE "connect"
  /\ UNCHANGED <<long_connection, exec_enabled, leaks, deinit, conn, session, token, api, call, reqs, gaveup, dropped, delivered, faults>>

\* The variables of a call are those of a new one.
Return == pc' = "idle" /\ api' = "recv" /\ total' = 0 /\ resp' = NoResp

ExecDec ==
  /\ pc = "dec" /\ handle # "freed"
  /\ exec_count' = exec_count - 1
  /\ Return
  /\ UNCHANGED <<long_connection, exec_enabled, leaks, strayed, deinit, conn, session, token, reqs, gaveup, dropped, delivered, faults>>

\* An error ends the call.
Fails == pc' = "dec" /\ gaveup' = TRUE /\ UNCHANGED dropped

Close == network' = FALSE /\ serving' = FALSE /\ owed' = <<>> /\ stream' = <<>> /\ behind' = FALSE

-----------------------------------------------------------------------------
(* core_http_connect and core_http_send. *)

ConnectNeeded_IfClosed == ~network

\* Without long_connection every request has a connection of its own.
ConnectNeeded == ~network \/ ~long_connection

Connect ==
  /\ pc = "connect" /\ handle # "freed"
  /\ \/ ~ConnectNeeded /\ pc' = "request" /\ UNCHANGED <<conn, gaveup, dropped, faults>>
     \/ /\ ConnectNeeded /\ pc' = "request"
        /\ network' = TRUE /\ serving' = TRUE /\ owed' = <<>> /\ stream' = <<>> /\ behind' = FALSE
        /\ UNCHANGED <<gaveup, dropped, faults>>
     \/ ConnectNeeded /\ Fails /\ Close /\ Fault
  /\ UNCHANGED <<long_connection, gate, deinit, session, token, api, call, reqs, delivered>>

RequestFails_NoDec ==
  /\ pc = "request" /\ handle = "whole"
  /\ pc' = "idle" /\ gaveup' = TRUE /\ UNCHANGED dropped /\ Fault
  /\ \/ session' \in {session, NoSession} /\ UNCHANGED conn
     \/ /\ session' = NoSession
        /\ owed' = Append(owed, [r |-> 0, api |-> "part"])
        /\ UNCHANGED <<network, serving, stream, behind>>
     \/ session' = NoSession /\ Close
  /\ UNCHANGED <<long_connection, gate, deinit, token, api, call, reqs, delivered>>

\* There is no memory for the path or the header; or the write is too short,
\* and the server cannot make sense of what follows; or the write fails.
RequestFails ==
  /\ pc = "request" /\ handle = "whole"
  /\ Fails /\ Fault
  /\ \/ session' \in {session, NoSession} /\ UNCHANGED conn
     \/ /\ session' = NoSession
        /\ owed' = Append(owed, [r |-> 0, api |-> "part"])
        /\ UNCHANGED <<network, serving, stream, behind>>
     \/ session' = NoSession /\ Close
  /\ UNCHANGED <<long_connection, gate, deinit, token, api, call, reqs, delivered>>

\* The session starts afresh, whatever is left of earlier answers.
Request ==
  /\ pc = "request" /\ handle = "whole"
  /\ reqs' = reqs + 1
  /\ session' = NoSession
  /\ owed' = IF serving THEN Append(owed, [r |-> reqs + 1, api |-> api]) ELSE owed
  /\ behind' = (behind \/ owed # <<>> \/ stream # <<>>)
  /\ gaveup' = FALSE /\ dropped' = FALSE
  /\ pc' = IF api = "auth" THEN "read" ELSE "dec"
  /\ UNCHANGED <<long_connection, gate, deinit, network, serving, stream, token, api, call, delivered, faults>>

-----------------------------------------------------------------------------
(* core_http_recv, in the loops of aiot_http_recv and _core_http_recv_auth. *)

\* network_handle is not NULL: only this thread closes a whole handle's.
RecvStart ==
  /\ pc = "read" /\ handle # "freed" /\ network
  /\ pc' = session.sm
  /\ total' = 0
  /\ UNCHANGED <<long_connection, gate, deinit, conn, session, token, api, resp, reqs, gaveup, dropped, delivered, faults>>

TimeUp_Never ==
  /\ FALSE
  /\ UNCHANGED vars

\* recv_timeout_ms or auth_timeout_ms is over: aiot_http_auth returns
\* STATE_HTTP_AUTH_NOT_FINISHED, and aiot_http_recv returns
\* STATE_HTTP_RECV_NOT_FINISHED without exec_dec.
TimeUp ==
  /\ pc = "read" /\ handle # "freed"
  /\ gaveup' = TRUE
  /\ IF api = "auth" THEN pc' = "dec" /\ UNCHANGED <<api, call, leaks>> ELSE Return /\ leaks' = leaks + 1
  /\ UNCHANGED <<long_connection, exec_enabled, exec_count, strayed, deinit, conn, session, token, reqs, dropped, delivered, faults>>

\* Body units read as a header have no line end: they run into the next line.
Glued(k) == \A i \in 1 .. k : ~IsLine(stream[i])
NoLine   == Glued(Len(stream))
Drop(k)  == SubSeq(stream, k + 1, Len(stream))

\* The status line and Content-Length are found only at the start of a line,
\* the end of the header only in a line of its own.  The handlers keep them:
\* the application has set AIOT_HTTPOPT_RECV_HANDLER.  Without memory for the
\* copies of a pair its handler is not called: then core_http_recv knows the
\* length of the body and the response does not.
HeaderLine(k) ==
  /\ pc = "header" /\ handle # "freed"
  /\ k < Len(stream) /\ Glued(k) /\ IsLine(stream[k + 1])
  /\ LET item == stream[k + 1]
         kind == IF k = 0 THEN Kind(item) ELSE "junk"
     IN  /\ total' = IF kind = "length" THEN item.n ELSE total
         /\ \/ /\ resp' = [resp EXCEPT !.code = IF kind = "status" /\ api = "auth" THEN item.code ELSE @,
                                       !.total = IF kind = "length" THEN item.n ELSE @]
               /\ UNCHANGED <<dropped, faults>>
            \/ kind = "length" /\ Fault /\ dropped' = TRUE /\ UNCHANGED resp
         /\ IF kind = "end" THEN pc' = "body" /\ session' = [session EXCEPT !.sm = "body"]
                            ELSE UNCHANGED <<pc, session>>
  /\ stream' = Drop(k + 1)
  /\ UNCHANGED <<long_connection, gate, deinit, network, serving, owed, behind, token, api, reqs, gaveup, delivered>>

\* Time is up, the line is too long or there is no memory for it: the part of
\* the line that was read is lost, and so is total, but the connection stays
\* and the session still expects a header.
HeaderGivesUp(k) ==
  /\ pc = "header" /\ handle # "freed"
  /\ k <= Len(stream)
  /\ \/ Glued(k) /\ stream' = Drop(k)
     \/ /\ k > 0 /\ Glued(k - 1) /\ IsLine(stream[k])
        /\ \E rest \in {"junk", "glue"} : stream' = <<[stream[k] EXCEPT !.left = rest]>> \o Drop(k)
  /\ IF NoLine /\ k = Len(stream) THEN UNCHANGED faults ELSE Fault
  /\ Fails
  /\ UNCHANGED <<long_connection, gate, deinit, network, serving, owed, behind, session, token, api, call, reqs, delivered>>

\* _core_http_recv_body: the length comes from this call's header, or from
\* the session when an earlier call has read the header.
Remaining == IF total # 0 THEN total ELSE session.total - session.read
Begun     == [session EXCEPT !.total = IF total # 0 THEN total ELSE @]

BodyEmpty ==
  /\ pc = "body" /\ handle # "freed"
  /\ session.total = 0 /\ total = 0
  /\ session' = NoSession
  /\ Fails
  /\ UNCHANGED <<long_connection, gate, deinit, conn, token, api, call, reqs, delivered, faults>>

InBody == pc = "body" /\ handle # "freed" /\ session.total + total # 0

\* The connection is broken and the stream is read to its end.
RecvError ==
  /\ pc \in {"header", "body"} /\ handle # "freed"
  /\ ~serving
  /\ IF pc = "header" THEN NoLine /\ UNCHANGED session
                      ELSE InBody /\ Remaining # 0 /\ stream = <<>> /\ session' = Begun
  /\ Close /\ Fails
  /\ UNCHANGED <<long_connection, gate, deinit, token, api, call, reqs, delivered, faults>>

BodyFinished_FirstBuffer ==
  /\ InBody /\ (Remaining = 0 \/ session.read # 0)
  /\ session' = NoSession
  /\ pc' = "finish"
  /\ UNCHANGED <<long_connection, gate, deinit, conn, token, api, call, reqs, gaveup, dropped, delivered, faults>>

BodyFinished ==
  /\ InBody /\ Remaining = 0
  /\ session' = NoSession
  /\ pc' = "finish"
  /\ UNCHANGED <<long_connection, gate, deinit, conn, token, api, call, reqs, gaveup, dropped, delivered, faults>>

BodyNoMemory ==
  /\ InBody /\ Remaining # 0
  /\ session' = Begun
  /\ Fails /\ Fault
  /\ UNCHANGED <<long_connection, gate, deinit, conn, token, api, call, reqs, delivered>>

BodyChunk_Full(n) ==
  /\ InBody /\ Remaining # 0
  /\ n <= BufferMax /\ n <= Len(stream)
  /\ session' = [Begun EXCEPT !.read = @ + n]
  /\ \/ /\ resp' = [resp EXCEPT !.content = @ \o SubSeq(stream, 1, n)]
        /\ UNCHANGED <<dropped, faults>>
     \/ Fault /\ dropped' = TRUE /\ UNCHANGED resp
  /\ stream' = Drop(n)
  /\ total' = 0 /\ pc' = "read"
  /\ UNCHANGED <<long_connection, gate, deinit, network, serving, owed, behind, token, api, reqs, gaveup, delivered>>

\* n units arrive; without memory for them the response handler leaves them out,
\* and the call goes on.
BodyChunk(n) ==
  /\ InBody /\ Remaining # 0
  /\ n <= Remaining /\ n <= BufferMax /\ n <= Len(stream)
  /\ session' = [Begun EXCEPT !.read = @ + n]
  /\ \/ /\ resp' = [resp EXCEPT !.content = @ \o SubSeq(stream, 1, n)]
        /\ UNCHANGED <<dropped, faults>>
     \/ Fault /\ dropped' = TRUE /\ UNCHANGED resp
  /\ stream' = Drop(n)
  /\ total' = 0 /\ pc' = "read"
  /\ UNCHANGED <<long_connection, gate, deinit, network, serving, owed, behind, token, api, reqs, gaveup, delivered>>

\* Nothing arrives in time.
BodySilent ==
  /\ InBody /\ Remaining # 0
  /\ IF stream = <<>> THEN UNCHANGED faults ELSE Fault
  /\ session' = Begun
  /\ total' = 0 /\ pc' = "read"
  /\ UNCHANGED <<long_connection, gate, deinit, conn, token, api, resp, reqs, gaveup, dropped, delivered>>

-----------------------------------------------------------------------------
(* The end of a response. *)

Deliver == delivered' = [content |-> resp.content, req |-> reqs, behind |-> behind, gaveup |-> gaveup, dropped |-> dropped]

AuthAccepted_AnyLength == resp.code = 200 /\ resp.content # <<>>

\* The answer is whole and a success; it is looked through for the token.
AuthAccepted == resp.code = 200 /\ resp.content # <<>> /\ Len(resp.content) = resp.total

AuthFinish ==
  /\ pc = "finish" /\ api = "auth" /\ handle # "freed"
  /\ \/ AuthAccepted /\ handle = "whole" /\ resp.content[1].api = "auth"
        /\ \/ token' = resp.content /\ Deliver /\ UNCHANGED faults
           \/ token' = <<>> /\ Fault /\ UNCHANGED delivered
     \/ /\ AuthAccepted => handle = "whole" /\ resp.content[1].api # "auth"
        /\ UNCHANGED <<token, delivered, faults>>
  /\ pc' = "dec"
  /\ UNCHANGED <<long_connection, gate, deinit, conn, session, api, call, reqs, gaveup, dropped>>

\* recv_handler of the application gets what was collected.
RecvFinish ==
  /\ pc = "finish" /\ api = "recv" /\ handle # "freed"
  /\ Deliver
  /\ pc' = "dec"
  /\ UNCHANGED <<long_connection, gate, deinit, conn, session, token, api, call, reqs, gaveup, dropped, faults>>

\* A call goes on with a handle that is gone, or with its token or its other
\* strings, which are freed first.
Crash ==
  /\ pc \notin {"idle", "crashed"}
  /\ \/ handle = "freed"
     \/ handle = "torn" /\ (pc = "request" \/ (pc = "finish" /\ api = "auth" /\ AuthAccepted))
  /\ pc' = "crashed"
  /\ strayed' = (strayed \/ pc = "inc")
  /\ UNCHANGED <<long_connection, exec_enabled, exec_count, leaks, deinit, conn, session, token, api, call, reqs, gaveup, dropped, delivered, faults>>

-----------------------------------------------------------------------------
(* aiot_http_deinit. *)

DeinitDisable ==
  /\ dpc = "idle" /\ exec_enabled
  /\ exec_enabled' = FALSE
  /\ dpc' = "wait"
  /\ UNCHANGED <<long_connection, exec_count, leaks, strayed, handle, conn, session, token, pc, api, call, reqs, gaveup, dropped, delivered, faults>>

DeinitWait_NoLimit ==
  /\ dpc = "wait" /\ exec_count = 0
  /\ dpc' = "test"
  /\ UNCHANGED <<long_connection, gate, handle, conn, session, token, pc, api, call, reqs, gaveup, dropped, delivered, faults>>

\* exec_count is 0 or deinit_timeout_ms is over.
DeinitWait ==
  /\ dpc = "wait"
  /\ dpc' = "test"
  /\ UNCHANGED <<long_connection, gate, handle, conn, session, token, pc, api, call, reqs, gaveup, dropped, delivered, faults>>

DeinitTest_NoCount ==
  /\ dpc = "test"
  /\ dpc' = "tear"
  /\ UNCHANGED <<long_connection, gate, handle, conn, session, token, pc, api, call, reqs, gaveup, dropped, delivered, faults>>

\* exec_count is looked at once more, and no mutex keeps it from changing
\* before the handle is taken apart.
DeinitTest ==
  /\ dpc = "test"
  /\ dpc' = IF exec_count # 0 THEN "idle" ELSE "tear"
  /\ UNCHANGED <<long_connection, gate, handle, conn, session, token, pc, api, call, reqs, gaveup, dropped, delivered, faults>>

\* The strings of the handle, the token too, are freed.
DeinitTear ==
  /\ dpc = "tear"
  /\ dpc' = "core" /\ handle' = "torn"
  /\ UNCHANGED <<long_connection, gate, conn, session, token, pc, api, call, reqs, gaveup, dropped, delivered, faults>>

\* core_http_deinit waits again, with a timeout that its loop never counts
\* down (deinit_timeout_ms is more than CORE_HTTP_DEINIT_INTERVAL_MS).
CoreDeinitWait ==
  /\ dpc = "core" /\ exec_count = 0
  /\ dpc' = "core_test"
  /\ UNCHANGED <<long_connection, gate, handle, conn, session, token, pc, api, call, reqs, gaveup, dropped, delivered, faults>>

\* Its STATE_HTTP_DEINIT_TIMEOUT is not looked at.
CoreDeinitTest ==
  /\ dpc = "core_test"
  /\ IF exec_count # 0 THEN dpc' = "idle" ELSE dpc' = "free"
  /\ UNCHANGED <<long_connection, gate, handle, conn, session, token, pc, api, call, reqs, gaveup, dropped, delivered, faults>>

CoreDeinitFree ==
  /\ dpc = "free"
  /\ Close
  /\ handle' = "freed" /\ token' = <<>>
  /\ dpc' = "idle"
  /\ UNCHANGED <<long_connection, gate, session, pc, api, call, reqs, gaveup, dropped, delivered, faults>>

-----------------------------------------------------------------------------
Working ==
  \/ ExecInc \/ ExecDec \/ Crash \/ Connect \/ RequestFails \/ Request
  \/ RecvStart \/ RecvError
  \/ \E k \in 0 .. Len(stream) : HeaderLine(k) \/ HeaderGivesUp(k)
  \/ BodyEmpty \/ BodyFinished \/ BodyNoMemory \/ BodySilent
  \/ \E n \in 1 .. BufferMax : BodyChunk(n)
  \/ AuthFinish \/ RecvFinish

Deinit ==
  \/ DeinitDisable \/ DeinitWait \/ DeinitTest \/ DeinitTear
  \/ CoreDeinitWait \/ CoreDeinitTest \/ CoreDeinitFree

Next ==
  \/ \E f \in {"auth", "send", "recv"} : Call(f)
  \/ Working \/ TimeUp
  \/ Deinit
  \/ \E n \in 0 .. MaxBody, code \in {200, 400} : Answer(n, code)
  \/ LinkBreaks

Spec == Init /\ [][Next]_vars

(***************************************************************************)
(* A call that was made goes on, and so does aiot_http_deinit; time passes *)
(* in the loops around core_http_recv.                                     *)
(***************************************************************************)
FairSpec ==
  Spec /\ WF_vars(Working \/ TimeUp) /\ SF_vars(TimeUp)
       /\ WF_vars(Deinit /\ dpc # "idle")

-----------------------------------------------------------------------------
(* Properties. *)

\* Types; no more of a body is read than its Content-Length announced.
TypeOK ==
  /\ long_connection \in BOOLEAN /\ exec_enabled \in BOOLEAN /\ exec_count \in 0 .. MaxLeaks + 1 /\ leaks \in 0 .. MaxLeaks
  /\ strayed \in BOOLEAN
  /\ handle \in {"whole", "torn", "freed"}
  /\ dpc \in {"idle", "wait", "test", "tear", "core", "core_test", "free"}
  /\ network \in BOOLEAN /\ serving \in BOOLEAN /\ behind \in BOOLEAN
  /\ owed \in Seq([r : 0 .. MaxReqs, api : {"auth", "send", "part"}])
  /\ stream \in Seq(Item)
  /\ session \in [sm : {"header", "body"}, total : 0 .. MaxBody, read : 0 .. MaxBody]
  /\ session.read <= session.total
  /\ token \in Seq(Item)
  /\ pc \in {"idle", "inc", "connect", "request", "read", "header", "body", "finish", "dec", "crashed"}
  /\ api \in {"auth", "send", "recv"}
  /\ total \in 0 .. MaxBody
  /\ resp \in [code : {0, 200, 400}, total : 0 .. MaxBody, content : Seq(Item)]
  /\ reqs \in 0 .. MaxReqs /\ gaveup \in BOOLEAN /\ dropped \in BOOLEAN /\ faults \in 0 .. MaxFaults
  /\ delivered \in [content : Seq(Item), req : 0 .. MaxReqs, behind : BOOLEAN, gaveup : BOOLEAN, dropped : BOOLEAN]

\* exec_count is the number of calls inside of the gate, whichever way they
\* ended, but for the calls of aiot_http_recv that ran out of time.
GateExact == pc # "crashed" => exec_count = leaks + (IF pc \in {"idle", "inc"} THEN 0 ELSE 1)

Whole(content) ==
  /\ content # <<>> /\ Len(content) = content[1].n
  /\ \A i \in DOMAIN content : content[i] = [content[1] EXCEPT !.at = i + 3]

\* The token comes from the whole body of one successful answer to an
\* authentication, although parts of it can be lost for lack of memory and an
\* earlier call may have left the stream anywhere in another answer.
TokenWhole == token # <<>> => Whole(token) /\ token[1].api = "auth" /\ token[1].code = 200

\* A body given to the application answers its last request, unless the
\* connection was used again before the earlier answers were read; and it is
\* whole, unless since the request a call gave up, or a part of the answer was
\* dropped for lack of memory: aiot_http_recv then hands over the shortened
\* body and returns STATE_SUCCESS, although aiot_http_api.h:271 promises the
\* whole one.
ResponseBelongs ==
  delivered.content # <<>> /\ ~delivered.behind =>
    /\ \A i \in DOMAIN delivered.content : delivered.content[i].r = delivered.req
    /\ ~delivered.gaveup /\ ~delivered.dropped => Whole(delivered.content)

\* With a connection for every request no answer is ever taken for another
\* request's, whatever times out.
OwnConnection ==
  ~long_connection => \A i \in DOMAIN delivered.content : delivered.content[i].r = delivered.req

\* A call is inside of the gate of a handle that is torn or freed only when it
\* had read exec_enabled before aiot_http_deinit cleared it and was not yet
\* counted when aiot_http_deinit found exec_count = 0.
OnlyStrays == handle # "whole" /\ pc \notin {"idle", "inc"} => strayed

\* Every call returns, with a silent server too.
CallsReturn == pc # "idle" ~> pc \in {"idle", "crashed"}

\* aiot_http_deinit returns, unless a stray call comes between its two waits.
DeinitReturns == dpc # "idle" ~> dpc = "idle" \/ strayed
=============================================================================
