------------------------- MODULE HttpClient_proofs -------------------------
(***************************************************************************)
(* Proofs about HttpClient: its types and its gate, what a token is made   *)
(* of, and which request a body answers.                                   *)
(***************************************************************************)
EXTENDS HttpClient, TLAPS

Inside == pc \notin {"idle", "inc", "crashed"}

\* The gate, with what the bounds on calls and requests need.
GateInv ==
  /\ leaks \in 0 .. MaxLeaks /\ (pc # "idle" => leaks < MaxLeaks)
  /\ exec_count \in Nat
  /\ pc \in {"idle", "inc"} => exec_count = leaks
  /\ Inside => exec_count = leaks + 1
  /\ pc = "crashed" => exec_count \in {leaks, leaks + 1}
  /\ reqs \in 0 .. MaxReqs
  /\ pc \in {"inc", "connect", "request"} /\ api # "recv" => reqs < MaxReqs
  /\ pc \in {"connect", "request"} => api # "recv"

Places == {"idle", "inc", "connect", "request", "read", "header", "body", "finish", "dec", "crashed"}

\* Who may still be inside of a handle that is taken apart.
StrayInv ==
  /\ pc \in Places
  /\ handle # "whole" \/ dpc # "idle" => ~exec_enabled
  /\ handle # "whole" /\ pc \notin {"idle", "inc"} => strayed
  /\ pc = "crashed" => handle # "whole"
  /\ dpc \in {"core", "core_test", "free"} => handle # "whole"
  /\ dpc \in {"wait", "test", "tear"} => handle = "whole"
  /\ dpc = "tear" /\ pc \notin {"idle", "inc"} => strayed

\* What a call knows of the response it reads.
CallInv ==
  /\ session.sm = "header" => session = NoSession
  /\ pc = "header" => session.sm = "header"
  /\ pc = "body" => session.sm = "body"
  /\ pc = "body" /\ total # 0 => session.read = 0
  /\ pc \in {"idle", "inc", "connect", "request"} => resp = NoResp

\* The parts in s all belong to request r.
AllOf(s, r) == \A i \in 1 .. Len(s) : s[i].r = r

OwedOf(s, r) == \A i \in 1 .. Len(s) : s[i].api # "part" => s[i].r = r

\* Everything on a connection that is not behind answers the last request.
OwnInv ==
  /\ ~behind =>
       /\ AllOf(stream, reqs)
       /\ OwedOf(owed, reqs)
       /\ pc \in {"read", "header", "body", "finish"} /\ handle # "freed" => AllOf(resp.content, reqs)
  /\ ~long_connection => ~behind
  /\ ~long_connection /\ pc = "request" => owed = <<>> /\ stream = <<>>

\* What was delivered on such a connection answered the last request.
Belongs ==
  /\ ~delivered.behind => AllOf(delivered.content, delivered.req)
  /\ ~long_connection => ~delivered.behind

-----------------------------------------------------------------------------
(* Steps by what they leave alone. *)

Reading ==
  \/ RecvStart \/ RecvError
  \/ \E k \in 0 .. Len(stream) : HeaderLine(k) \/ HeaderGivesUp(k)
  \/ BodyEmpty \/ BodyFinished \/ BodyNoMemory \/ BodySilent
  \/ \E n \in 1 .. BufferMax : BodyChunk(n)
  \/ AuthFinish \/ RecvFinish

Server ==
  \/ \E n \in 0 .. MaxBody, code \in {200, 400} : Answer(n, code)
  \/ LinkBreaks

\* The disjuncts of Next, grouped.
LEMMA NextCases ==
  ASSUME [Next]_vars
  PROVE  \/ \E f \in {"auth", "send", "recv"} : Call(f)
         \/ ExecInc \/ ExecDec \/ Crash \/ Connect \/ RequestFails \/ Request
         \/ Reading \/ TimeUp \/ Deinit \/ Server \/ UNCHANGED vars
BY DEF Next, Working, Reading, Server

\* Inside of core_http_recv the gate is not touched.
LEMMA ReadingFrame ==
  ASSUME session.sm \in {"header", "body"}, Reading
  PROVE  /\ UNCHANGED <<long_connection, exec_enabled, exec_count, leaks, strayed, handle, dpc, api, reqs>>
         /\ handle # "freed"
         /\ pc \in {"read", "header", "body", "finish"}
         /\ pc' \in {"read", "header", "body", "finish", "dec"}
<1>1. CASE RecvStart
  BY <1>1 DEF RecvStart, gate, deinit
<1>2. CASE RecvError \/ BodyEmpty \/ BodyFinished \/ BodyNoMemory \/ BodySilent
  BY <1>2 DEF RecvError, BodyEmpty, BodyFinished, BodyNoMemory, BodySilent, InBody, Fails, gate, deinit
<1>3. ASSUME NEW k \in 0 .. Len(stream), HeaderLine(k) \/ HeaderGivesUp(k)
      PROVE  /\ UNCHANGED <<long_connection, exec_enabled, exec_count, leaks, strayed, handle, dpc, api, reqs>>
             /\ handle # "freed" /\ pc = "header" /\ pc' \in {"header", "body", "dec"}
  BY <1>3 DEF HeaderLine, HeaderGivesUp, Fails, gate, deinit
<1>4. ASSUME NEW n \in 1 .. BufferMax, BodyChunk(n)
      PROVE  /\ UNCHANGED <<long_connection, exec_enabled, exec_count, leaks, strayed, handle, dpc, api, reqs>>
             /\ handle # "freed" /\ pc = "body" /\ pc' = "read"
  BY <1>4 DEF BodyChunk, InBody, gate, deinit
<1>5. CASE AuthFinish \/ RecvFinish
  BY <1>5 DEF AuthFinish, RecvFinish, gate, deinit
<1> QED
  BY <1>1, <1>2, <1>3, <1>4, <1>5 DEF Reading

\* The server and the network touch the connection only.
LEMMA ServerFrame ==
  ASSUME Server
  PROVE  UNCHANGED <<long_connection, gate, deinit, session, token, pc, api, call, reqs, gaveup, dropped, delivered, network, behind>>
BY DEF Server, Answer, LinkBreaks

\* aiot_http_deinit leaves the calls alone.
LEMMA DeinitFrame ==
  ASSUME Deinit
  PROVE  UNCHANGED <<long_connection, exec_count, leaks, strayed, session, pc, api, call, reqs, gaveup, dropped, delivered, faults>>
BY DEF Deinit, DeinitDisable, DeinitWait, DeinitTest, DeinitTear, CoreDeinitWait, CoreDeinitTest, CoreDeinitFree, gate, conn

\* exec_count counts the calls inside.
LEMMA GateNext ==
  ASSUME GateInv, StrayInv, session.sm \in {"header", "body"}, [Next]_vars
  PROVE  GateInv'
<1> USE DEF GateInv, Inside
<1>1. ASSUME NEW f \in {"auth", "send", "recv"}, Call(f)
      PROVE  GateInv'
  BY <1>1 DEF Call, gate
<1>2. CASE ExecInc
  BY <1>2 DEF ExecInc
<1>3. CASE ExecDec
  BY <1>3 DEF ExecDec, Return
<1>4. CASE Crash
  BY <1>4 DEF Crash
<1>5. CASE Connect
  BY <1>5 DEF Connect, Fails, gate
<1>6. CASE RequestFails
  BY <1>6 DEF RequestFails, Fails, gate
<1>7. CASE Request
  <2>1. /\ pc = "request" /\ reqs' = reqs + 1 /\ pc' \in {"read", "dec"}
        /\ UNCHANGED <<exec_count, leaks, api>>
    BY <1>7 DEF Request, gate
  <2> QED
    BY <2>1, HttpAssumption
<1>8. CASE Reading
  BY <1>8, ReadingFrame
<1>9. CASE TimeUp
  <2>1. /\ pc = "read" /\ UNCHANGED <<exec_count, reqs>>
        /\ \/ pc' = "dec" /\ leaks' = leaks
           \/ pc' = "idle" /\ leaks' = leaks + 1
    BY <1>9 DEF TimeUp, Return
  <2> QED
    BY <2>1, HttpAssumption
<1>10. CASE Deinit \/ Server \/ UNCHANGED vars
  <2>1. UNCHANGED <<exec_count, leaks, pc, api, reqs>>
    BY <1>10, DeinitFrame, ServerFrame DEF vars, gate
  <2> QED
    BY <2>1
<1> QED
  BY <1>1, <1>2, <1>3, <1>4, <1>5, <1>6, <1>7, <1>8, <1>9, <1>10, NextCases

\* Who comes in late is marked.
LEMMA StrayNext ==
  ASSUME GateInv, StrayInv, session.sm \in {"header", "body"}, [Next]_vars
  PROVE  StrayInv'
<1> USE DEF StrayInv, Places
<1>1. ASSUME NEW f \in {"auth", "send", "recv"}, Call(f)
      PROVE  StrayInv'
  BY <1>1 DEF Call, gate, deinit
<1>2. CASE ExecInc
  BY <1>2 DEF ExecInc, deinit
<1>3. CASE ExecDec
  BY <1>3 DEF ExecDec, Return, deinit
<1>4. CASE Crash
  BY <1>4 DEF Crash, deinit
<1>5. CASE Connect \/ RequestFails \/ Request
  BY <1>5 DEF Connect, RequestFails, Request, Fails, gate, deinit
<1>6. CASE Reading
  BY <1>6, ReadingFrame
<1>7. CASE TimeUp
  BY <1>7 DEF TimeUp, Return, deinit
<1>8. CASE Deinit
  <2>1. CASE DeinitTest
    <3>1. exec_count = 0 => pc \in {"idle", "inc", "crashed"}
      BY DEF GateInv, Inside
    <3>2. /\ UNCHANGED <<pc, exec_enabled, strayed, handle>> /\ dpc = "test"
          /\ dpc' = "idle" \/ (dpc' = "tear" /\ exec_count = 0)
      BY <2>1 DEF DeinitTest, gate
    <3> QED
      BY <3>1, <3>2
  <2>4. CASE DeinitTear
    BY <2>4 DEF DeinitTear, gate
  <2>2. CASE DeinitDisable \/ DeinitWait \/ CoreDeinitWait \/ CoreDeinitTest
    BY <2>2 DEF DeinitDisable, DeinitWait, CoreDeinitWait, CoreDeinitTest, gate
  <2>3. CASE CoreDeinitFree
    BY <2>3 DEF CoreDeinitFree, gate
  <2> QED
    BY <1>8, <2>1, <2>2, <2>3, <2>4 DEF Deinit
<1>9. CASE Server \/ UNCHANGED vars
  BY <1>9, ServerFrame DEF vars, gate, deinit
<1> QED
  BY <1>1, <1>2, <1>3, <1>4, <1>5, <1>6, <1>7, <1>8, <1>9, NextCases

-----------------------------------------------------------------------------
(* Types, part by part. *)

Owing == [r : 0 .. MaxReqs, api : {"auth", "send", "part"}]

\* The server owes whole answers to requests that were sent only.
OwedReal(s) == \A i \in 1 .. Len(s) : s[i].api # "part" => s[i].r \in Requests

ConnTypes ==
  /\ network \in BOOLEAN /\ serving \in BOOLEAN /\ behind \in BOOLEAN
  /\ owed \in Seq(Owing) /\ OwedReal(owed)
  /\ stream \in Seq(Item)

SessionTypes ==
  /\ session \in [sm : {"header", "body"}, total : 0 .. MaxBody, read : 0 .. MaxBody]
  /\ session.read <= session.total
  /\ total \in 0 .. MaxBody

CallTypes ==
  /\ api \in {"auth", "send", "recv"}
  /\ resp \in [code : {0, 200, 400}, total : 0 .. MaxBody, content : Seq(Item)]
  /\ token \in Seq(Item)

GateTypes ==
  /\ long_connection \in BOOLEAN /\ exec_enabled \in BOOLEAN /\ strayed \in BOOLEAN
  /\ handle \in {"whole", "torn", "freed"}
  /\ dpc \in {"idle", "wait", "test", "tear", "core", "core_test", "free"}
  /\ gaveup \in BOOLEAN /\ dropped \in BOOLEAN /\ faults \in 0 .. MaxFaults
  /\ delivered \in [content : Seq(Item), req : 0 .. MaxReqs, behind : BOOLEAN, gaveup : BOOLEAN, dropped : BOOLEAN]

Types == ConnTypes /\ SessionTypes /\ CallTypes /\ GateTypes

LEMMA NoItems == <<>> \in Seq(Item) /\ <<>> \in Seq(Owing) /\ OwedReal(<<>>)
BY DEF OwedReal

\* Reading from the front, or losing the end.
LEMMA DropItems ==
  ASSUME NEW s \in Seq(Item), NEW k \in 0 .. Len(s)
  PROVE  /\ SubSeq(s, k + 1, Len(s)) \in Seq(Item) /\ Len(SubSeq(s, k + 1, Len(s))) = Len(s) - k
         /\ \A i \in 1 .. Len(s) - k : SubSeq(s, k + 1, Len(s))[i] = s[i + k]
         /\ SubSeq(s, 1, k) \in Seq(Item) /\ Len(SubSeq(s, 1, k)) = k
         /\ \A i \in 1 .. k : SubSeq(s, 1, k)[i] = s[i]
OBVIOUS

LEMMA ConnTypesNext ==
  ASSUME Types, reqs \in 0 .. MaxReqs, reqs' \in 0 .. MaxReqs, pc \in {"connect", "request"} => api # "recv", [Next]_vars
  PROVE  ConnTypes'
<1> USE DEF ConnTypes
<1>1. CASE Connect \/ RecvError \/ CoreDeinitFree
  BY <1>1, NoItems DEF Types, Connect, RecvError, CoreDeinitFree, Close, conn
<1>2. CASE RequestFails
  <2>1. [r |-> 0, api |-> "part"] \in Owing
    BY HttpAssumption DEF Owing
  <2>2. Append(owed, [r |-> 0, api |-> "part"]) \in Seq(Owing) /\ OwedReal(Append(owed, [r |-> 0, api |-> "part"]))
    BY <2>1 DEF Types, OwedReal
  <2> QED
    BY <1>2, <2>2, NoItems DEF Types, RequestFails, Close, conn
<1>3. CASE Request
  <2>1. reqs + 1 \in 0 .. MaxReqs /\ api \in {"auth", "send"}
    BY <1>3 DEF Request, Types, CallTypes
  <2>2. [r |-> reqs + 1, api |-> api] \in Owing /\ reqs + 1 \in Requests
    BY <2>1 DEF Owing, Requests
  <2>3. Append(owed, [r |-> reqs + 1, api |-> api]) \in Seq(Owing) /\ OwedReal(Append(owed, [r |-> reqs + 1, api |-> api]))
    BY <2>2 DEF Types, OwedReal
  <2> QED
    BY <1>3, <2>3 DEF Types, Request
<1>4. ASSUME NEW k \in 0 .. Len(stream), HeaderLine(k)
      PROVE  ConnTypes'
  <2>1. k + 1 \in 0 .. Len(stream)
    BY <1>4 DEF HeaderLine, Types
  <2>2. Drop(k + 1) \in Seq(Item)
    BY <2>1, DropItems DEF Drop, Types
  <2> QED
    BY <1>4, <2>2 DEF HeaderLine, Types
<1>5. ASSUME NEW k \in 0 .. Len(stream), HeaderGivesUp(k)
      PROVE  ConnTypes'
  <2>1. Drop(k) \in Seq(Item)
    BY DropItems DEF Drop, Types
  <2>2. ASSUME k > 0, NEW rest \in {"junk", "glue"}
        PROVE  <<[stream[k] EXCEPT !.left = rest]>> \o Drop(k) \in Seq(Item)
    <3>1. stream[k] \in Item
      BY <2>2 DEF Types
    <3>2. [stream[k] EXCEPT !.left = rest] \in Item
      BY <3>1 DEF Item
    <3> QED
      BY <2>1, <3>2
  <2> QED
    BY <1>5, <2>1, <2>2 DEF HeaderGivesUp, Types
<1>6. ASSUME NEW n \in 1 .. BufferMax, BodyChunk(n)
      PROVE  ConnTypes'
  <2>1. n \in 0 .. Len(stream)
    BY <1>6, HttpAssumption DEF BodyChunk, Types
  <2>2. Drop(n) \in Seq(Item)
    BY <2>1, DropItems DEF Drop, Types
  <2> QED
    BY <1>6, <2>2 DEF BodyChunk, Types
<1>7. ASSUME NEW n \in 0 .. MaxBody, NEW code \in {200, 400}, Answer(n, code)
      PROVE  ConnTypes'
  <2> DEFINE a == [i \in 1 .. n + 3 |->
                 [r |-> owed[1].r, api |-> owed[1].api, code |-> code, n |-> n, at |-> i, left |-> "all"]]
  <2>1. owed # <<>> /\ owed[1].api # "part" /\ stream' = stream \o a /\ owed' = Tail(owed)
        /\ UNCHANGED <<network, serving, behind>>
    BY <1>7 DEF Answer
  <2>2. owed[1] \in Owing /\ owed[1].r \in Requests /\ Tail(owed) \in Seq(Owing)
    BY <2>1 DEF Types, OwedReal
  <2>3. \A i \in 1 .. n + 3 : [r |-> owed[1].r, api |-> owed[1].api, code |-> code, n |-> n, at |-> i, left |-> "all"] \in Item
    BY <2>1, <2>2, HttpAssumption DEF Item, Owing
  <2>4. a \in Seq(Item)
    BY <2>3, HttpAssumption
  <2>5. OwedReal(Tail(owed))
    BY <2>1 DEF OwedReal, Types
  <2>6. stream \o a \in Seq(Item)
    BY <2>4 DEF Types
  <2> HIDE DEF a
  <2> QED
    BY <2>1, <2>2, <2>5, <2>6 DEF Types
<1>8. CASE LinkBreaks
  <2>1. \A k \in 0 .. Len(stream) : SubSeq(stream, 1, k) \in Seq(Item)
    BY DropItems DEF Types
  <2> QED
    BY <1>8, <2>1 DEF LinkBreaks, Types
<1>9. ASSUME NEW f \in {"auth", "send", "recv"}, Call(f)
      PROVE  ConnTypes'
  BY <1>9 DEF Call, conn, Types
<1>10. CASE ExecInc \/ ExecDec \/ Crash \/ TimeUp
  BY <1>10 DEF ExecInc, ExecDec, Crash, TimeUp, conn, Types
<1>11. CASE RecvStart \/ BodyEmpty \/ BodyFinished \/ BodyNoMemory \/ BodySilent \/ AuthFinish \/ RecvFinish
  BY <1>11 DEF RecvStart, BodyEmpty, BodyFinished, BodyNoMemory, BodySilent, AuthFinish, RecvFinish, conn, Types
<1>12. CASE DeinitDisable \/ DeinitWait \/ DeinitTest \/ DeinitTear \/ CoreDeinitWait \/ CoreDeinitTest \/ UNCHANGED vars
  BY <1>12 DEF DeinitDisable, DeinitWait, DeinitTest, DeinitTear, CoreDeinitWait, CoreDeinitTest, conn, vars, Types
<1> QED
  BY <1>1, <1>2, <1>3, <1>4, <1>5, <1>6, <1>7, <1>8, <1>9, <1>10, <1>11, <1>12, NextCases
  DEF Reading, Server, Deinit

\* Sessions: no more is read than was announced.
LEMMA SessionTypesNext ==
  ASSUME Types, CallInv, StrayInv, [Next]_vars
  PROVE  SessionTypes' /\ CallInv'
<1> USE DEF SessionTypes, CallInv
<1>0. NoSession \in [sm : {"header", "body"}, total : 0 .. MaxBody, read : 0 .. MaxBody]
      /\ NoSession.sm = "header" /\ NoSession.read <= NoSession.total /\ NoSession.read = 0 /\ 0 \in 0 .. MaxBody
  BY HttpAssumption DEF NoSession
<1>1. ASSUME NEW f \in {"auth", "send", "recv"}, Call(f)
      PROVE  SessionTypes' /\ CallInv'
  BY <1>1 DEF Call, call, Types
<1>2. CASE ExecInc
  BY <1>2 DEF ExecInc, call, Types
<1>3. CASE ExecDec \/ TimeUp
  BY <1>0, <1>3 DEF ExecDec, TimeUp, Return, call, Types
<1>4. CASE Crash
  BY <1>4 DEF Crash, call, Types
<1>5. CASE Connect
  BY <1>5 DEF Connect, Fails, call, Types
<1>6. CASE RequestFails \/ Request
  BY <1>0, <1>6 DEF RequestFails, Request, Fails, call, Types
<1>7. CASE RecvStart
  BY <1>0, <1>7 DEF RecvStart, Types
<1>8. ASSUME NEW k \in 0 .. Len(stream), HeaderLine(k)
      PROVE  SessionTypes' /\ CallInv'
  <2>1. stream[k + 1] \in Item
    BY <1>8 DEF HeaderLine, Types, ConnTypes
  <2>2. stream[k + 1].n \in 0 .. MaxBody
    BY <2>1 DEF Item
  <2>3. total' \in {total, stream[k + 1].n} /\ pc = "header"
        /\ \/ pc' = "body" /\ session' = [session EXCEPT !.sm = "body"]
           \/ UNCHANGED <<pc, session>>
    BY <1>8 DEF HeaderLine
  <2> QED
    BY <1>0, <2>2, <2>3 DEF Types
<1>9. ASSUME NEW k \in 0 .. Len(stream), HeaderGivesUp(k)
      PROVE  SessionTypes' /\ CallInv'
  BY <1>9 DEF HeaderGivesUp, Fails, call, Types
<1>10. CASE BodyEmpty \/ BodyFinished
  BY <1>0, <1>10 DEF BodyEmpty, BodyFinished, InBody, Fails, call, Types
<1>11. ASSUME InBody
       PROVE  /\ Begun \in [sm : {"body"}, total : 0 .. MaxBody, read : 0 .. MaxBody]
              /\ Begun.read = session.read
              /\ Remaining \in Nat /\ Begun.read + Remaining = Begun.total /\ Begun.total <= MaxBody
  <2>1. session.sm = "body" /\ (total # 0 => session.read = 0)
    BY <1>11 DEF InBody
  <2>2. session.total \in Nat /\ session.read \in Nat /\ total \in Nat /\ session.total <= MaxBody /\ total <= MaxBody /\ MaxBody \in Nat
    BY HttpAssumption DEF Types
  <2>3. Begun = [sm |-> "body", total |-> IF total # 0 THEN total ELSE session.total, read |-> session.read]
    BY <2>1 DEF Begun, Types
  <2> QED
    BY <2>1, <2>2, <2>3 DEF Types, Remaining
<1>12. CASE RecvError
  <2>1. session' \in {session, Begun} /\ (session' = Begun /\ session' # session => InBody) /\ UNCHANGED <<total, resp>> /\ pc' = "dec"
    BY <1>12 DEF RecvError, Fails, call
  <2>2. CASE session' = session
    BY <2>1, <2>2 DEF Types
  <2>3. CASE session' # session
    <3>1. session' = Begun /\ InBody
      BY <2>1, <2>3
    <3> QED
      BY <1>11, <2>1, <3>1 DEF Types
  <2> QED
    BY <2>2, <2>3
<1>13. CASE BodyNoMemory \/ BodySilent
  <2>1. InBody /\ session' = Begun /\ total' \in {0, total} /\ pc' \in {"read", "dec"}
    BY <1>13 DEF BodyNoMemory, BodySilent, Fails, call
  <2> QED
    BY <1>0, <1>11, <2>1 DEF Types
<1>14. ASSUME NEW n \in 1 .. BufferMax, BodyChunk(n)
       PROVE  SessionTypes' /\ CallInv'
  <2>1. InBody /\ session' = [Begun EXCEPT !.read = @ + n] /\ total' = 0 /\ pc' = "read" /\ n <= Remaining
    BY <1>14 DEF BodyChunk
  <2>2. n \in Nat
    BY HttpAssumption
  <2> QED
    BY <1>0, <1>11, <2>1, <2>2, HttpAssumption DEF Types
<1>15. CASE AuthFinish \/ RecvFinish
  BY <1>15 DEF AuthFinish, RecvFinish, call, Types
<1>16. CASE Deinit \/ Server \/ UNCHANGED vars
  BY <1>16, DeinitFrame, ServerFrame DEF vars, call, Types
<1> QED
  BY <1>1, <1>2, <1>3, <1>4, <1>5, <1>6, <1>7, <1>8, <1>9, <1>10, <1>12, <1>13, <1>14, <1>15, <1>16, NextCases DEF Reading

LEMMA CallTypesNext ==
  ASSUME Types, [Next]_vars
  PROVE  CallTypes'
<1> USE DEF CallTypes
<1>0. NoResp \in [code : {0, 200, 400}, total : 0 .. MaxBody, content : Seq(Item)]
  BY HttpAssumption, NoItems DEF NoResp
<1>1. ASSUME NEW f \in {"auth", "send", "recv"}, Call(f)
      PROVE  CallTypes'
  BY <1>1 DEF Call, call, Types
<1>2. CASE ExecInc \/ Crash \/ Connect \/ RequestFails \/ Request
  BY <1>2 DEF ExecInc, Crash, Connect, RequestFails, Request, call, Types
<1>3. CASE ExecDec \/ TimeUp
  BY <1>0, <1>3 DEF ExecDec, TimeUp, Return, call, Types
<1>4. CASE RecvStart \/ RecvError \/ BodyEmpty \/ BodyFinished \/ BodyNoMemory \/ BodySilent
  <2>1. UNCHANGED <<api, token, resp>>
    BY <1>4 DEF RecvStart, RecvError, BodyEmpty, BodyFinished, BodyNoMemory, BodySilent, call
  <2> QED
    BY <2>1 DEF Types
<1>5. ASSUME NEW k \in 0 .. Len(stream), HeaderLine(k)
      PROVE  CallTypes'
  <2>1. stream[k + 1] \in Item
    BY <1>5 DEF HeaderLine, Types, ConnTypes
  <2>2. stream[k + 1].n \in 0 .. MaxBody /\ stream[k + 1].code \in {0, 200, 400}
    BY <2>1 DEF Item
  <2>3. UNCHANGED <<api, token>>
        /\ \E c \in {resp.code, stream[k + 1].code}, t \in {resp.total, stream[k + 1].n} :
             resp' = [resp EXCEPT !.code = c, !.total = t]
    <3> DEFINE kind == IF k = 0 THEN Kind(stream[k + 1]) ELSE "junk"
               c == IF kind = "status" /\ api = "auth" THEN stream[k + 1].code ELSE resp.code
               t == IF kind = "length" THEN stream[k + 1].n ELSE resp.total
    <3>1. c \in {resp.code, stream[k + 1].code} /\ t \in {resp.total, stream[k + 1].n}
      OBVIOUS
    <3>2. resp' = [resp EXCEPT !.code = c, !.total = t] \/ resp' = resp
      BY <1>5 DEF HeaderLine, Types
    <3>3. UNCHANGED <<api, token>>
      BY <1>5 DEF HeaderLine
    <3>4. resp = [resp EXCEPT !.code = resp.code, !.total = resp.total]
      BY DEF Types
    <3> HIDE DEF c, t
    <3> QED
      BY <3>1, <3>2, <3>3, <3>4
  <2>4. resp' \in [code : {0, 200, 400}, total : 0 .. MaxBody, content : Seq(Item)]
    <3>1. PICK c \in {resp.code, stream[k + 1].code}, t \in {resp.total, stream[k + 1].n} :
            resp' = [resp EXCEPT !.code = c, !.total = t]
      BY <2>3
    <3>2. c \in {0, 200, 400} /\ t \in 0 .. MaxBody
      BY <2>2 DEF Types
    <3>3. resp' = [code |-> c, total |-> t, content |-> resp.content]
      BY <3>1 DEF Types
    <3> QED
      BY <3>2, <3>3 DEF Types
  <2> QED
    BY <2>3, <2>4 DEF Types
<1>6. ASSUME NEW k \in 0 .. Len(stream), HeaderGivesUp(k)
      PROVE  CallTypes'
  BY <1>6 DEF HeaderGivesUp, call, Types
<1>7. ASSUME NEW n \in 1 .. BufferMax, BodyChunk(n)
      PROVE  CallTypes'
  <2>1. n \in 0 .. Len(stream) /\ resp.content \in Seq(Item)
    BY <1>7, HttpAssumption DEF BodyChunk, Types, ConnTypes
  <2>2. resp.content \o SubSeq(stream, 1, n) \in Seq(Item)
    BY <2>1, DropItems DEF Types, ConnTypes
  <2>3. [resp EXCEPT !.content = @ \o SubSeq(stream, 1, n)] \in [code : {0, 200, 400}, total : 0 .. MaxBody, content : Seq(Item)]
    BY <2>2 DEF Types
  <2>4. UNCHANGED <<api, token>> /\ (UNCHANGED resp \/ resp' = [resp EXCEPT !.content = @ \o SubSeq(stream, 1, n)])
    BY <1>7 DEF BodyChunk
  <2>5. resp' \in [code : {0, 200, 400}, total : 0 .. MaxBody, content : Seq(Item)]
    <3>1. CASE UNCHANGED resp
      BY <3>1 DEF Types
    <3> QED
      BY <2>3, <2>4, <3>1
  <2>6. api' = api /\ token' = token
    BY <2>4
  <2> QED
    BY <2>5, <2>6 DEF Types
<1>8. CASE AuthFinish
  <2>1. resp.content \in Seq(Item)
    BY DEF Types
  <2> QED
    <3>1. UNCHANGED <<api, resp>> /\ (token' = resp.content \/ token' = <<>> \/ token' = token)
      BY <1>8 DEF AuthFinish, call
    <3>2. token \in Seq(Item)
      BY DEF Types
    <3>3. token' \in Seq(Item)
      BY <2>1, <3>1, <3>2, NoItems
    <3> QED
      BY <3>1, <3>3 DEF Types
<1>9. CASE RecvFinish
  BY <1>9 DEF RecvFinish, call, Types
<1>10. CASE Deinit
  <2>1. UNCHANGED <<api, resp>>
    BY <1>10, DeinitFrame DEF call
  <2>2. token' = token \/ token' = <<>>
    BY <1>10 DEF Deinit, DeinitDisable, DeinitWait, DeinitTest, DeinitTear, CoreDeinitWait, CoreDeinitTest, CoreDeinitFree
  <2>3. token' \in Seq(Item)
    <3>1. token \in Seq(Item)
      BY DEF Types
    <3> QED
      BY <2>2, <3>1, NoItems
  <2> QED
    BY <2>1, <2>3 DEF Types
<1>11. CASE Server \/ UNCHANGED vars
  BY <1>11, ServerFrame DEF vars, call, Types
<1> QED
  BY <1>1, <1>2, <1>3, <1>4, <1>5, <1>6, <1>7, <1>8, <1>9, <1>10, <1>11, NextCases DEF Reading

LEMMA GateTypesNext ==
  ASSUME Types, reqs \in 0 .. MaxReqs, [Next]_vars
  PROVE  GateTypes'
<1> USE DEF GateTypes
<1>0. Fault => faults' \in 0 .. MaxFaults
  BY HttpAssumption DEF Fault, Types
<1>1. ASSUME NEW f \in {"auth", "send", "recv"}, Call(f)
      PROVE  GateTypes'
  BY <1>1 DEF Call, gate, deinit, Types
<1>2. CASE ExecInc \/ ExecDec \/ Crash \/ TimeUp
  <2>1. UNCHANGED <<long_connection, exec_enabled, handle, dpc, faults, delivered>>
    BY <1>2 DEF ExecInc, ExecDec, Crash, TimeUp, deinit
  <2>2. gaveup' \in BOOLEAN /\ dropped' \in BOOLEAN /\ strayed' \in BOOLEAN
    BY <1>2 DEF ExecInc, ExecDec, Crash, TimeUp, Types
  <2> QED
    BY <2>1, <2>2 DEF Types
<1>3. CASE Connect \/ RequestFails \/ Request
  <2>1. UNCHANGED <<long_connection, exec_enabled, strayed, handle, dpc, delivered>>
    BY <1>3 DEF Connect, RequestFails, Request, gate, deinit
  <2>2. gaveup' \in BOOLEAN /\ dropped' \in BOOLEAN /\ (Fault \/ UNCHANGED faults)
    BY <1>3 DEF Connect, RequestFails, Request, Fails, Types
  <2> QED
    BY <1>0, <2>1, <2>2 DEF Types
<1>4. CASE RecvStart \/ RecvError \/ BodyEmpty \/ BodyFinished \/ BodyNoMemory \/ BodySilent
  <2>1. UNCHANGED <<long_connection, exec_enabled, strayed, handle, dpc, delivered>>
    BY <1>4 DEF RecvStart, RecvError, BodyEmpty, BodyFinished, BodyNoMemory, BodySilent, gate, deinit
  <2>2. gaveup' \in BOOLEAN /\ dropped' \in BOOLEAN /\ (Fault \/ UNCHANGED faults)
    BY <1>4 DEF RecvStart, RecvError, BodyEmpty, BodyFinished, BodyNoMemory, BodySilent, Fails, Types
  <2> QED
    BY <1>0, <2>1, <2>2 DEF Types
<1>5. ASSUME NEW k \in 0 .. Len(stream), HeaderLine(k) \/ HeaderGivesUp(k)
      PROVE  GateTypes'
  <2>1. UNCHANGED <<long_connection, exec_enabled, strayed, handle, dpc, delivered>>
    BY <1>5 DEF HeaderLine, HeaderGivesUp, gate, deinit
  <2>2. gaveup' \in BOOLEAN /\ dropped' \in BOOLEAN /\ (Fault \/ UNCHANGED faults)
    BY <1>5 DEF HeaderLine, HeaderGivesUp, Fails, Types
  <2> QED
    BY <1>0, <2>1, <2>2 DEF Types
<1>6. ASSUME NEW n \in 1 .. BufferMax, BodyChunk(n)
      PROVE  GateTypes'
  <2>1. UNCHANGED <<long_connection, exec_enabled, strayed, handle, dpc, delivered>>
    BY <1>6 DEF BodyChunk, gate, deinit
  <2>2. gaveup' \in BOOLEAN /\ dropped' \in BOOLEAN /\ (Fault \/ UNCHANGED faults)
    BY <1>6 DEF BodyChunk, Types
  <2> QED
    BY <1>0, <2>1, <2>2 DEF Types
<1>7. CASE AuthFinish \/ RecvFinish
  <2>1. UNCHANGED <<long_connection, exec_enabled, strayed, handle, dpc, gaveup, dropped>>
    BY <1>7 DEF AuthFinish, RecvFinish, gate, deinit
  <2>2. (Fault \/ UNCHANGED faults) /\ (Deliver \/ UNCHANGED delivered)
    BY <1>7 DEF AuthFinish, RecvFinish
  <2>3. resp.content \in Seq(Item)
    BY DEF Types, CallTypes
  <2>4. behind \in BOOLEAN
    BY DEF Types, ConnTypes
  <2>5. [content |-> resp.content, req |-> reqs, behind |-> behind, gaveup |-> gaveup, dropped |-> dropped]
          \in [content : Seq(Item), req : 0 .. MaxReqs, behind : BOOLEAN, gaveup : BOOLEAN, dropped : BOOLEAN]
    BY <2>3, <2>4, Zenon DEF Types
  <2>6. delivered' \in [content : Seq(Item), req : 0 .. MaxReqs, behind : BOOLEAN, gaveup : BOOLEAN, dropped : BOOLEAN]
    BY <2>2, <2>5 DEF Deliver, Types
  <2> QED
    BY <1>0, <2>1, <2>2, <2>6 DEF Types
<1>8. CASE Deinit
  BY <1>8, DeinitFrame DEF Deinit, DeinitDisable, DeinitWait, DeinitTest, DeinitTear, CoreDeinitWait, CoreDeinitTest, CoreDeinitFree, gate, Types
<1>9. CASE Server
  <2>1. Fault \/ UNCHANGED faults
    BY <1>9 DEF Server, Answer, LinkBreaks
  <2> QED
    BY <1>0, <1>9, <2>1, ServerFrame DEF gate, deinit, Types
<1>10. CASE UNCHANGED vars
  BY <1>10 DEF vars, gate, deinit, Types
<1> QED
  BY <1>1, <1>2, <1>3, <1>4, <1>5, <1>6, <1>7, <1>8, <1>9, <1>10, NextCases DEF Reading

Inv == GateInv /\ StrayInv /\ Types /\ CallInv

LEMMA InvInit == Init => Inv
<1> SUFFICES ASSUME Init
             PROVE  Inv
  OBVIOUS
<1>1. GateInv /\ StrayInv /\ CallInv
  BY HttpAssumption DEF Init, GateInv, StrayInv, CallInv, Inside, Places, NoSession, NoResp
<1>2. ConnTypes
  BY NoItems DEF Init, ConnTypes
<1>3. SessionTypes
  BY HttpAssumption DEF Init, SessionTypes, NoSession
<1>4. CallTypes
  <2>1. NoResp \in [code : {0, 200, 400}, total : 0 .. MaxBody, content : Seq(Item)]
    BY HttpAssumption, NoItems DEF NoResp
  <2> QED
    BY <2>1, NoItems DEF Init, CallTypes
<1>5. GateTypes
  <2>1. 0 \in 0 .. MaxReqs /\ 0 \in 0 .. MaxFaults
    BY HttpAssumption
  <2> QED
    BY <2>1, NoItems DEF Init, GateTypes
<1> QED
  BY <1>1, <1>2, <1>3, <1>4, <1>5 DEF Inv, Types

LEMMA InvNext == Inv /\ [Next]_vars => Inv'
<1> SUFFICES ASSUME Inv, [Next]_vars
             PROVE  Inv'
  OBVIOUS
<1>1. session.sm \in {"header", "body"}
  BY DEF Inv, Types, SessionTypes
<1>2. GateInv' /\ StrayInv'
  BY <1>1, GateNext, StrayNext DEF Inv
<1>3. /\ reqs \in 0 .. MaxReqs /\ reqs' \in 0 .. MaxReqs
      /\ pc \in {"connect", "request"} => api # "recv"
  BY <1>2 DEF Inv, GateInv
<1>4. ConnTypes' /\ SessionTypes' /\ CallInv' /\ CallTypes' /\ GateTypes'
  BY <1>3, ConnTypesNext, SessionTypesNext, CallTypesNext, GateTypesNext DEF Inv
<1> QED
  BY <1>2, <1>4 DEF Inv, Types

LEMMA InvAlways == Spec => []Inv
BY InvInit, InvNext, PTL DEF Spec

\* Types of HttpClient: with any bound on requests, bodies and buffers, no
\* more of a body is read than its header announced.
THEOREM HttpTypeCorrect == Spec => []TypeOK
<1>1. Inv => TypeOK
  <2> SUFFICES ASSUME Inv
               PROVE  TypeOK
    OBVIOUS
  <2>1. /\ exec_count \in 0 .. MaxLeaks + 1 /\ leaks \in 0 .. MaxLeaks /\ reqs \in 0 .. MaxReqs
        /\ pc \in Places
    BY HttpAssumption DEF Inv, GateInv, StrayInv, Inside, Places
  <2> QED
    BY <2>1, Zenon DEF Inv, Types, ConnTypes, Owing, SessionTypes, CallTypes, GateTypes, Places, TypeOK
<1> QED
  BY <1>1, InvAlways, PTL

\* exec_inc and exec_dec pair up on every path but the one aiot_http_recv
\* takes when its time is over.
THEOREM GateExactAlways == Spec => []GateExact
<1>1. Inv => GateExact
  BY DEF Inv, GateInv, StrayInv, Places, Inside, GateExact
<1> QED
  BY <1>1, InvAlways, PTL

\* aiot_http_deinit takes the handle apart under no call but a stray one.
THEOREM OnlyStraysAlways == Spec => []OnlyStrays
<1>1. Inv => OnlyStrays
  BY DEF Inv, StrayInv, OnlyStrays
<1> QED
  BY <1>1, InvAlways, PTL

-----------------------------------------------------------------------------
(* What the gate is worth. *)

\* A count that was lost stays: aiot_http_deinit never finds 0.
LeakInv == leaks > 0 => (handle = "whole" /\ dpc # "tear") \/ strayed

\* aiot_http_deinit goes on to take the handle apart when exec_count is 0.
LEMMA TearAtZero ==
  ASSUME Inv, [Next]_vars, dpc # "tear", dpc' = "tear"
  PROVE  exec_count = 0 /\ UNCHANGED <<pc, leaks, exec_enabled>> /\ dpc = "test"
<1>1. DeinitTest
  BY NextCases, ReadingFrame, ServerFrame
     DEF Inv, StrayInv, Types, SessionTypes, Call, ExecInc, ExecDec, Crash, Connect, RequestFails,
         Request, TimeUp, Deinit, DeinitDisable, DeinitWait, DeinitTear, CoreDeinitWait, CoreDeinitTest,
         CoreDeinitFree, vars, deinit
<1> QED
  BY <1>1 DEF DeinitTest, gate

\* Only then is it taken apart.
LEMMA TornAfterTest ==
  ASSUME Inv, [Next]_vars, handle = "whole", handle' # "whole"
  PROVE  dpc = "tear" /\ UNCHANGED <<pc, leaks, exec_enabled>>
<1>1. DeinitTear
  BY NextCases, ReadingFrame, ServerFrame
     DEF Inv, StrayInv, Types, SessionTypes, Call, ExecInc, ExecDec, Crash, Connect, RequestFails,
         Request, TimeUp, Deinit, DeinitDisable, DeinitWait, DeinitTest, CoreDeinitWait, CoreDeinitTest,
         CoreDeinitFree, vars, deinit
<1> QED
  BY <1>1 DEF DeinitTear, gate

LEMMA LeakNext == Inv /\ LeakInv /\ [Next]_vars => LeakInv'
<1> SUFFICES ASSUME Inv, LeakInv, [Next]_vars, leaks' > 0
             PROVE  (handle' = "whole" /\ dpc' # "tear") \/ strayed'
  BY DEF LeakInv
<1>1. strayed => strayed'
  BY NextCases, ReadingFrame, ServerFrame, DeinitFrame
     DEF Inv, Types, SessionTypes, Call, ExecInc, ExecDec, Crash, Connect, RequestFails,
         Request, TimeUp, vars, gate
<1>2. leaks' = leaks \/ TimeUp
  BY NextCases, ReadingFrame, ServerFrame, DeinitFrame
     DEF Inv, Types, SessionTypes, Call, ExecInc, ExecDec, Crash, Connect, RequestFails,
         Request, TimeUp, vars, gate
<1>3. CASE TimeUp
  BY <1>1, <1>3 DEF TimeUp, deinit, Inv, StrayInv
<1>4. CASE dpc # "tear" /\ dpc' = "tear"
  <2>1. exec_count = 0 /\ leaks' = leaks /\ pc # "crashed"
    BY <1>4, TearAtZero DEF Inv, StrayInv
  <2>2. exec_count >= leaks /\ leaks \in Nat
    BY <2>1, HttpAssumption DEF Inv, GateInv, StrayInv, Places, Inside
  <2> QED
    BY <2>1, <2>2
<1>5. CASE leaks' = leaks /\ ~(handle = "whole" /\ dpc # "tear")
  BY <1>1, <1>5 DEF LeakInv
<1>6. CASE handle = "whole" /\ handle' # "whole"
  BY <1>2, <1>3, <1>5, <1>6, TornAfterTest
<1> QED
  BY <1>2, <1>3, <1>4, <1>5, <1>6

(***************************************************************************)
(* After aiot_http_recv has run out of time once, aiot_http_deinit never   *)
(* takes the handle apart: the missing exec_dec keeps exec_count above 0.  *)
(* (Only a stray call that runs out of time after the handle was taken     *)
(* apart comes too late for that.)                                         *)
(***************************************************************************)
THEOREM TimedOutKeepsHandle == Spec => [](leaks > 0 => handle = "whole" \/ strayed)
<1>1. Init => LeakInv
  BY DEF Init, LeakInv
<1>2. LeakInv => (leaks > 0 => handle = "whole" \/ strayed)
  BY DEF LeakInv
<1> QED
  BY <1>1, <1>2, InvAlways, LeakNext, PTL DEF Spec

\* aiot_http_deinit closes the gate while no call stands in it.
NobodyInGate == exec_enabled /\ ~exec_enabled' => pc # "inc"

ShutInv ==
  /\ ~exec_enabled => pc # "inc"
  /\ handle # "whole" \/ dpc = "tear" => pc = "idle"

LEMMA ShutNext == Inv /\ ShutInv /\ [Next]_vars /\ [NobodyInGate]_vars => ShutInv'
<1> SUFFICES ASSUME Inv, ShutInv, [Next]_vars, [NobodyInGate]_vars
             PROVE  ShutInv'
  OBVIOUS
<1>0. session.sm \in {"header", "body"}
  BY DEF Inv, Types, SessionTypes
<1>1. CASE dpc # "tear" /\ dpc' = "tear"
  <2>1. exec_count = 0 /\ UNCHANGED <<pc, exec_enabled>> /\ dpc = "test"
    BY <1>1, TearAtZero
  <2>2. pc \in Places /\ ~exec_enabled /\ pc # "crashed" /\ ~Inside
    BY <2>1 DEF Inv, StrayInv, GateInv
  <2> QED
    BY <2>1, <2>2 DEF ShutInv, Inside
<1>2. CASE handle # "whole" \/ dpc = "tear"
  <2>1. pc = "idle" /\ ~exec_enabled
    BY <1>2 DEF ShutInv, Inv, StrayInv
  <2>2. Deinit \/ Server \/ UNCHANGED vars
    BY <1>0, <2>1, NextCases, ReadingFrame
       DEF Call, ExecInc, ExecDec, Crash, Connect, RequestFails, Request, TimeUp
  <2>3. UNCHANGED pc
    BY <2>2, DeinitFrame, ServerFrame DEF vars
  <2> QED
    BY <2>1, <2>3 DEF ShutInv
<1>3. CASE handle' = "whole" /\ dpc' # "tear"
  <2>1. CASE exec_enabled /\ ~exec_enabled'
    <3>1. Deinit
      BY <1>0, <2>1, NextCases, ReadingFrame, ServerFrame
         DEF Call, ExecInc, ExecDec, Crash, Connect, RequestFails, Request, TimeUp, vars, gate
    <3>2. pc # "inc" /\ UNCHANGED pc
      BY <2>1, <3>1, DeinitFrame DEF NobodyInGate, vars, gate
    <3> QED
      BY <1>3, <3>2 DEF ShutInv
  <2>2. CASE ~exec_enabled
    <3>1. pc # "inc"
      BY <2>2 DEF ShutInv
    <3>2. pc' # "inc"
      BY <1>0, <2>2, <3>1, NextCases, ReadingFrame, ServerFrame, DeinitFrame
         DEF Call, ExecInc, ExecDec, Return, Crash, Connect, RequestFails, Request, Fails, TimeUp, vars
    <3> QED
      BY <1>3, <3>2 DEF ShutInv
  <2>3. CASE exec_enabled'
    BY <1>3, <2>3 DEF ShutInv
  <2> QED
    BY <2>1, <2>2, <2>3
<1>4. CASE handle = "whole" /\ handle' # "whole"
  BY <1>2, <1>4, TornAfterTest
<1> QED
  BY <1>1, <1>2, <1>3, <1>4

(***************************************************************************)
(* If no call stands between its test of exec_enabled and exec_inc at the  *)
(* moment aiot_http_deinit clears the flag, no call is ever inside of a    *)
(* handle that is taken apart, through both waits of aiot_http_deinit: the *)
(* one window between the test and the count is all the gate lacks.        *)
(***************************************************************************)
THEOREM NobodyInsideShut ==
  Spec /\ [][NobodyInGate]_vars => [](handle # "whole" => pc = "idle")
<1>1. Init => ShutInv
  BY DEF Init, ShutInv
<1>2. ShutInv => (handle # "whole" => pc = "idle")
  BY DEF ShutInv
<1> QED
  BY <1>1, <1>2, InvAlways, ShutNext, PTL DEF Spec

-----------------------------------------------------------------------------
(* Which request a body answers. *)

\* Reading from the front, or losing the end, keeps the request.
LEMMA DropOf ==
  ASSUME NEW s \in Seq(Item), NEW k \in 0 .. Len(s), NEW r, AllOf(s, r)
  PROVE  AllOf(SubSeq(s, k + 1, Len(s)), r) /\ AllOf(SubSeq(s, 1, k), r)
<1>1. \A i \in 1 .. Len(s) - k : i + k \in 1 .. Len(s)
  OBVIOUS
<1>2. \A i \in 1 .. k : i \in 1 .. Len(s)
  OBVIOUS
<1>3. AllOf(SubSeq(s, k + 1, Len(s)), r)
  BY <1>1, DropItems DEF AllOf
<1>4. AllOf(SubSeq(s, 1, k), r)
  BY <1>2, DropItems DEF AllOf
<1> QED
  BY <1>3, <1>4

LEMMA ConcatOf ==
  ASSUME NEW s \in Seq(Item), NEW t \in Seq(Item), NEW r, AllOf(s, r), AllOf(t, r)
  PROVE  AllOf(s \o t, r)
<1> SUFFICES ASSUME NEW i \in 1 .. Len(s \o t)
             PROVE  (s \o t)[i].r = r
  BY DEF AllOf
<1>1. Len(s \o t) = Len(s) + Len(t)
  OBVIOUS
<1>2. CASE i <= Len(s)
  BY <1>2 DEF AllOf
<1>3. CASE i > Len(s)
  <2>1. i - Len(s) \in 1 .. Len(t) /\ (s \o t)[i] = t[i - Len(s)]
    BY <1>1, <1>3
  <2> QED
    BY <2>1 DEF AllOf
<1> QED
  BY <1>2, <1>3

LEMMA OwedOfParts ==
  ASSUME NEW s \in Seq(Owing), NEW r, OwedOf(s, r)
  PROVE  /\ OwedOf(Append(s, [r |-> 0, api |-> "part"]), r)
         /\ s # <<>> => OwedOf(Tail(s), r)
BY DEF OwedOf

\* Nothing is of any request.
LEMMA NoneOf == \A r : AllOf(<<>>, r) /\ OwedOf(<<>>, r)
BY DEF AllOf, OwedOf

LEMMA OwnNext ==
  ASSUME Inv, OwnInv, [Next]_vars
  PROVE  OwnInv'
<1> USE DEF OwnInv
<1>0. stream \in Seq(Item) /\ owed \in Seq(Owing) /\ resp.content \in Seq(Item) /\ session.sm \in {"header", "body"}
  BY DEF Inv, Types, ConnTypes, CallTypes, SessionTypes
<1>00. AllOf(NoResp.content, reqs) /\ AllOf(NoResp.content, reqs')
  BY NoneOf DEF NoResp
<1>1. ASSUME NEW f \in {"auth", "send", "recv"}, Call(f)
      PROVE  OwnInv'
  BY <1>1 DEF Call, conn
<1>2. CASE ExecInc
  <2>1. resp = NoResp /\ UNCHANGED <<long_connection, reqs, stream, owed, behind, resp>> /\ pc' # "request"
    BY <1>2 DEF ExecInc, conn, call, Inv, CallInv
  <2> QED
    BY <1>00, <2>1
<1>3. CASE ExecDec \/ Crash \/ TimeUp
  <2>1. UNCHANGED <<long_connection, reqs, stream, owed, behind>> /\ pc' \in {"idle", "dec", "crashed"}
    BY <1>3 DEF ExecDec, Crash, TimeUp, Return, conn
  <2> QED
    BY <2>1
<1>4. CASE Connect
  <2>1. /\ UNCHANGED <<long_connection, reqs>> /\ pc' \in {"dec", "request"}
        /\ \/ UNCHANGED <<stream, owed, behind>> /\ long_connection
           \/ stream' = <<>> /\ owed' = <<>> /\ behind' = FALSE
    BY <1>4 DEF Connect, ConnectNeeded, Fails, Close, conn
  <2> QED
    BY <2>1, NoneOf
<1>5. CASE RequestFails
  <2>1. /\ UNCHANGED <<long_connection, reqs>> /\ pc' = "dec"
        /\ \/ UNCHANGED <<stream, owed, behind>>
           \/ stream' = <<>> /\ owed' = <<>> /\ behind' = FALSE
           \/ owed' = Append(owed, [r |-> 0, api |-> "part"]) /\ UNCHANGED <<stream, behind>>
    BY <1>5 DEF RequestFails, Fails, Close, conn
  <2>2. OwedOf(owed, reqs) => OwedOf(Append(owed, [r |-> 0, api |-> "part"]), reqs)
    BY <1>0, OwedOfParts
  <2>3. CASE owed' = Append(owed, [r |-> 0, api |-> "part"]) /\ UNCHANGED <<stream, behind>>
    BY <2>1, <2>2, <2>3
  <2> QED
    BY <2>1, <2>3, NoneOf
<1>6. CASE Request
  <2>1. /\ pc = "request" /\ reqs' = reqs + 1 /\ pc' \in {"read", "dec"}
        /\ behind' = (behind \/ owed # <<>> \/ stream # <<>>)
        /\ UNCHANGED <<long_connection, stream, resp>>
        /\ owed' = owed \/ owed' = Append(owed, [r |-> reqs + 1, api |-> api])
    BY <1>6 DEF Request, call
  <2>2. resp = NoResp
    BY <2>1 DEF Inv, CallInv
  <2>3. ASSUME ~behind'
        PROVE  stream = <<>> /\ owed = <<>>
    BY <2>1, <2>3
  <2>4. OwedOf(Append(<<>>, [r |-> reqs + 1, api |-> api]), reqs + 1)
    BY DEF OwedOf
  <2>5. ~long_connection => ~behind'
    BY <2>1
  <2>6. ~behind' => AllOf(stream', reqs') /\ OwedOf(owed', reqs') /\ AllOf(resp'.content, reqs')
    BY <1>00, <2>1, <2>2, <2>3, <2>4, NoneOf
  <2> QED
    BY <2>1, <2>5, <2>6
<1>7. CASE RecvStart \/ BodyEmpty \/ BodyFinished \/ BodyNoMemory \/ BodySilent
  BY <1>0, <1>7 DEF RecvStart, BodyEmpty, BodyFinished, BodyNoMemory, BodySilent, InBody, Fails, conn, call, deinit
<1>8. CASE RecvError
  BY <1>8, NoneOf DEF RecvError, Close, Fails
<1>9. ASSUME NEW k \in 0 .. Len(stream), HeaderLine(k)
      PROVE  OwnInv'
  <2>1. /\ pc = "header" /\ pc' \in {"header", "body"} /\ stream' = SubSeq(stream, k + 1 + 1, Len(stream))
        /\ k + 1 \in 0 .. Len(stream) /\ handle' = handle
        /\ UNCHANGED <<long_connection, reqs, owed, behind>>
    BY <1>0, <1>9 DEF HeaderLine, Drop, deinit
  <2>2. resp'.content = resp.content
    <3>1. resp \in [code : {0, 200, 400}, total : 0 .. MaxBody, content : Seq(Item)]
      BY DEF Inv, Types, CallTypes
    <3> DEFINE kind == IF k = 0 THEN Kind(stream[k + 1]) ELSE "junk"
    <3>2. \/ resp' = [resp EXCEPT !.code = IF kind = "status" /\ api = "auth" THEN stream[k + 1].code ELSE resp.code,
                                  !.total = IF kind = "length" THEN stream[k + 1].n ELSE resp.total]
          \/ resp' = resp
      BY <1>9, <3>1 DEF HeaderLine
    <3> HIDE DEF kind
    <3>3. CASE resp' = resp
      BY <3>3
    <3>4. CASE resp' = [resp EXCEPT !.code = IF kind = "status" /\ api = "auth" THEN stream[k + 1].code ELSE resp.code,
                                    !.total = IF kind = "length" THEN stream[k + 1].n ELSE resp.total]
      BY <3>1, <3>4
    <3> QED
      BY <3>2, <3>3, <3>4
  <2>3. AllOf(stream, reqs) => AllOf(stream', reqs)
    BY <1>0, <2>1, DropOf
  <2> QED
    BY <2>1, <2>2, <2>3
<1>10. ASSUME NEW k \in 0 .. Len(stream), HeaderGivesUp(k)
       PROVE  OwnInv'
  <2>1. /\ pc' = "dec" /\ UNCHANGED <<long_connection, reqs, owed, behind>>
        /\ \/ stream' = Drop(k)
           \/ k > 0 /\ \E rest \in {"junk", "glue"} : stream' = <<[stream[k] EXCEPT !.left = rest]>> \o Drop(k)
    BY <1>10 DEF HeaderGivesUp, Fails
  <2>2. AllOf(stream, reqs) => AllOf(Drop(k), reqs)
    BY <1>0, DropOf DEF Drop
  <2>3. Drop(k) \in Seq(Item)
    BY <1>0, DropItems DEF Drop
  <2>4. ASSUME k > 0, NEW rest \in {"junk", "glue"}, AllOf(stream, reqs)
        PROVE  AllOf(<<[stream[k] EXCEPT !.left = rest]>> \o Drop(k), reqs)
    <3> DEFINE h == [stream[k] EXCEPT !.left = rest]
    <3>1. stream[k] \in Item /\ stream[k].r = reqs
      BY <1>0, <2>4 DEF AllOf
    <3>2. h \in Item /\ h.r = reqs
      BY <3>1 DEF Item
    <3> HIDE DEF h
    <3>3. <<h>> \in Seq(Item) /\ AllOf(<<h>>, reqs)
      BY <3>2 DEF AllOf
    <3>4. AllOf(<<h>> \o Drop(k), reqs)
      BY <2>2, <2>3, <2>4, <3>3, ConcatOf
    <3> QED
      BY <3>4 DEF h
  <2> QED
    BY <2>1, <2>2, <2>4
<1>11. ASSUME NEW n \in 1 .. BufferMax, BodyChunk(n)
       PROVE  OwnInv'
  <2>1. /\ pc = "body" /\ pc' = "read" /\ stream' = SubSeq(stream, n + 1, Len(stream)) /\ handle' = handle
        /\ UNCHANGED <<long_connection, reqs, owed, behind>>
        /\ resp' = [resp EXCEPT !.content = resp.content \o SubSeq(stream, 1, n)] \/ resp' = resp
    BY <1>11 DEF BodyChunk, InBody, Drop, deinit
  <2>2. n \in 0 .. Len(stream)
    BY <1>0, <1>11, HttpAssumption DEF BodyChunk
  <2>3. resp'.content = resp.content \o SubSeq(stream, 1, n) \/ resp'.content = resp.content
    BY <2>1 DEF Inv, Types, CallTypes
  <2>4. AllOf(stream, reqs) => AllOf(stream', reqs) /\ AllOf(SubSeq(stream, 1, n), reqs)
    BY <1>0, <2>1, <2>2, DropOf
  <2>5. SubSeq(stream, 1, n) \in Seq(Item)
    BY <1>0, <2>2, DropItems
  <2>6. AllOf(stream, reqs) /\ AllOf(resp.content, reqs) => AllOf(resp.content \o SubSeq(stream, 1, n), reqs)
    BY <1>0, <2>4, <2>5, ConcatOf
  <2> QED
    BY <2>1, <2>3, <2>4, <2>6
<1>12. CASE AuthFinish \/ RecvFinish
  BY <1>12 DEF AuthFinish, RecvFinish, conn, call, deinit
<1>13. CASE Deinit
  <2>1. UNCHANGED <<long_connection, pc, resp, reqs>>
    BY <1>13, DeinitFrame DEF call
  <2>2. CASE CoreDeinitFree
    BY <2>1, <2>2, NoneOf DEF CoreDeinitFree, Close
  <2>3. CASE ~CoreDeinitFree
    <3>1. UNCHANGED <<stream, owed, behind>> /\ (handle' # "freed" => handle # "freed")
      BY <1>13, <2>3 DEF Deinit, DeinitDisable, DeinitWait, DeinitTest, DeinitTear, CoreDeinitWait, CoreDeinitTest, conn, Inv, StrayInv
    <3> QED
      BY <2>1, <3>1
  <2> QED
    BY <2>2, <2>3
<1>14. ASSUME NEW n \in 0 .. MaxBody, NEW code \in {200, 400}, Answer(n, code)
       PROVE  OwnInv'
  <2> DEFINE item(i) == [r |-> owed[1].r, api |-> owed[1].api, code |-> code, n |-> n, at |-> i, left |-> "all"]
             a == [i \in 1 .. n + 3 |-> item(i)]
  <2>1. /\ owed # <<>> /\ owed[1].api # "part" /\ stream' = stream \o a /\ owed' = Tail(owed)
        /\ UNCHANGED <<long_connection, pc, handle, resp, reqs, behind>>
    BY <1>14 DEF Answer, call, deinit
  <2>2. owed[1] \in Owing /\ owed[1].r \in Requests
    BY <1>0, <2>1 DEF Inv, Types, ConnTypes, OwedReal
  <2>3. \A i \in 1 .. n + 3 : item(i) \in Item /\ item(i).r = owed[1].r
    BY <2>1, <2>2, HttpAssumption DEF Item, Owing
  <2>4. a \in Seq(Item) /\ Len(a) = n + 3 /\ \A i \in 1 .. n + 3 : a[i].r = owed[1].r
    BY <2>3, HttpAssumption
  <2> HIDE DEF a
  <2>5. OwedOf(owed, reqs) => owed[1].r = reqs /\ AllOf(a, reqs) /\ OwedOf(Tail(owed), reqs)
    BY <1>0, <2>1, <2>4, OwedOfParts DEF OwedOf, AllOf
  <2>6. AllOf(stream, reqs) /\ OwedOf(owed, reqs) => AllOf(stream', reqs)
    BY <1>0, <2>1, <2>4, <2>5, ConcatOf
  <2> QED
    BY <2>1, <2>5, <2>6
<1>15. CASE LinkBreaks
  <2>1. PICK k \in 0 .. Len(stream) : stream' = SubSeq(stream, 1, k)
    BY <1>15 DEF LinkBreaks
  <2>2. UNCHANGED <<long_connection, pc, handle, resp, reqs, owed, behind>>
    BY <1>15 DEF LinkBreaks, deinit, call
  <2>3. AllOf(stream, reqs) => AllOf(stream', reqs)
    BY <1>0, <2>1, DropOf
  <2>4. stream = <<>> => stream' = <<>>
    BY <2>1
  <2> QED
    BY <2>2, <2>3, <2>4
<1>16. CASE UNCHANGED vars
  BY <1>16 DEF vars, conn, call, deinit
<1> QED
  BY <1>1, <1>2, <1>3, <1>4, <1>5, <1>6, <1>7, <1>8, <1>9, <1>10, <1>11, <1>12, <1>13, <1>14, <1>15, <1>16, NextCases
  DEF Reading, Server

LEMMA BelongsNext ==
  ASSUME Inv, OwnInv, Belongs, [Next]_vars
  PROVE  Belongs'
<1>1. long_connection' = long_connection /\ (UNCHANGED delivered \/ (Deliver /\ pc = "finish" /\ handle # "freed"))
  <2>1. CASE AuthFinish \/ RecvFinish
    BY <2>1 DEF AuthFinish, RecvFinish
  <2>2. CASE Reading /\ ~(AuthFinish \/ RecvFinish)
    BY <2>2 DEF Reading, RecvStart, RecvError, HeaderLine, HeaderGivesUp, BodyEmpty, BodyFinished, BodyNoMemory, BodySilent, BodyChunk
  <2>3. CASE ~Reading
    BY <2>3, NextCases, DeinitFrame, ServerFrame
    DEF Call, ExecInc, ExecDec, Crash, Connect, RequestFails, Request, TimeUp, vars
  <2> QED
    BY <2>1, <2>2, <2>3
<1>2. CASE UNCHANGED delivered
  BY <1>1, <1>2 DEF Belongs
<1>3. CASE Deliver /\ pc = "finish" /\ handle # "freed"
  <2>1. delivered'.content = resp.content /\ delivered'.req = reqs /\ delivered'.behind = behind
    BY <1>3 DEF Deliver
  <2> QED
    BY <1>1, <1>3, <2>1 DEF OwnInv, Belongs
<1> QED
  BY <1>1, <1>2, <1>3

LEMMA BelongsAlways == Spec => [](Inv /\ OwnInv /\ Belongs)
<1>1. Init => OwnInv /\ Belongs
  BY NoneOf DEF Init, NoResp, OwnInv, Belongs
<1>2. Inv /\ OwnInv /\ Belongs /\ [Next]_vars => OwnInv' /\ Belongs'
  BY OwnNext, BelongsNext
<1> QED
  BY <1>1, <1>2, InvAlways, PTL DEF Spec

\* Without AIOT_HTTPOPT_LONG_CONNECTION every body that is delivered answers
\* the last request, however many calls timed out before.
THEOREM OwnConnectionAlways == Spec => []OwnConnection
<1>1. Inv /\ OwnInv /\ Belongs => OwnConnection
  <2> SUFFICES ASSUME Inv, Belongs, ~long_connection, NEW i \in DOMAIN delivered.content
               PROVE  delivered.content[i].r = delivered.req
    BY DEF OwnConnection
  <2>1. delivered.content \in Seq(Item)
    BY DEF Inv, Types, GateTypes
  <2>2. i \in 1 .. Len(delivered.content)
    BY <2>1
  <2> QED
    BY <2>2 DEF Belongs, AllOf
<1> QED
  BY <1>1, BelongsAlways, PTL

-----------------------------------------------------------------------------
(***************************************************************************)
(* What HttpClient makes of the answers: the token comes from a whole      *)
(* answer, and so does a body that is given to the application.            *)
(*                                                                         *)
(* The argument follows a response from the stream, where the parts of an  *)
(* answer are in order, through the header (what the call knows of it fits *)
(* the part that comes next) and the body (what was collected is a chain   *)
(* of units, as long as nothing was left out) to its end.                  *)
(***************************************************************************)

\* b is the part that comes d places after a in the same answer.
Later(a, b, d) ==
  /\ b.r = a.r /\ b.api = a.api /\ b.code = a.code /\ b.n = a.n
  /\ b.at = a.at + d /\ b.left = "all"

\* The parts of an answer are in order and without a gap, up to its end or
\* the end of the stream.
Ordered(s) ==
  /\ s \in Seq(Item)
  /\ \A i \in 1 .. Len(s) : s[i].at <= s[i].n + 3
  /\ \A i \in 2 .. Len(s) : s[i].left = "all"
  /\ \A i, j \in 1 .. Len(s) :
       i < j /\ s[i].at + (j - i) <= s[i].n + 3 => Later(s[i], s[j], j - i)

\* Every answer in the stream is there to its end.
Complete(s) == \A i \in 1 .. Len(s) : s[i].at + (Len(s) - i) >= s[i].n + 3

StreamInv == Ordered(stream) /\ (serving => Complete(stream))

\* The length of the body in hand.
BodyTotal == IF total # 0 THEN total ELSE session.total

\* Nothing comes any more, unless another request is sent.
NoMore == ~serving \/ owed = <<>>

\* The stream goes on with part at of an answer with a body of n units.
GoesOn(at, n) ==
  IF stream = <<>> THEN NoMore ELSE stream[1].at = at /\ stream[1].n = n /\ stream[1].left = "all"

\* Where the session says that a body goes on, the stream does.
BodyInv ==
  /\ pc = "finish" => session.sm = "header"
  /\ pc \notin {"header", "body", "finish", "dec", "crashed"} => total = 0
  /\ session.sm = "body" /\ total # 0 => session.total \in {0, total} /\ session.read = 0
  /\ session.sm = "body" /\ session.read < BodyTotal => GoesOn(session.read + 4, BodyTotal)

\* What a call has read of the header fits the part that comes next.
HeaderInv ==
  /\ pc = "read" /\ session.sm = "header" => resp = NoResp
  /\ pc = "header" =>
       /\ resp.content = <<>> /\ (resp.total = total \/ (dropped /\ resp.total = 0))
       /\ total # 0 => GoesOn(3, total)
       /\ resp.code # 0 =>
            IF stream = <<>> THEN NoMore
            ELSE stream[1].at \in {2, 3} /\ stream[1].code = resp.code /\ stream[1].left = "all"

\* Units 1, 2, ... of one body of length n.
Chain(c, n) ==
  /\ c # <<>> => c[1].at = 4 /\ c[1].n = n
  /\ \A i \in 1 .. Len(c) : Later(c[1], c[i], i - 1)

Coded(c, code) == \A i \in 1 .. Len(c) : c[i].code = code

\* Of a body whose header it has read, a call has collected all that was read,
\* from its start; or less.
Collected ==
  /\ BodyTotal = resp.total
  /\ Len(resp.content) <= session.read
  /\ Len(resp.content) = session.read =>
       /\ Chain(resp.content, resp.total)
       /\ stream # <<>> /\ resp.content # <<>> /\ session.read < resp.total =>
            Later(resp.content[1], stream[1], session.read)
  /\ resp.code # 0 =>
       /\ Coded(resp.content, resp.code)
       /\ stream # <<>> /\ session.read < resp.total => stream[1].code = resp.code

Finished ==
  /\ Len(resp.content) <= resp.total
  /\ Len(resp.content) = resp.total => Chain(resp.content, resp.total)
  /\ resp.code # 0 => Coded(resp.content, resp.code)

ContentInv ==
  /\ pc \in {"read", "body"} /\ session.sm = "body" /\ resp.total # 0 => Collected
  /\ pc = "finish" /\ resp.total # 0 => Finished

\* When no call has given up since the request and nothing was dropped, what
\* was collected is what was read, and the header was read by the same call.
GaveInv ==
  /\ ~gaveup /\ ~dropped /\ pc # "crashed" /\ session.sm = "body" =>
       /\ pc \in {"read", "body"}
       /\ Len(resp.content) = session.read /\ resp.total = BodyTotal
  /\ ~gaveup /\ ~dropped /\ pc = "finish" => Len(resp.content) = resp.total

\* What was delivered, and what the token was taken from.
WholeInv ==
  /\ delivered.content # <<>> /\ ~delivered.gaveup /\ ~delivered.dropped => Whole(delivered.content)
  /\ TokenWhole

AnswerInv == StreamInv /\ BodyInv /\ HeaderInv /\ ContentInv /\ GaveInv /\ WholeInv

-----------------------------------------------------------------------------
(* Sequences of parts. *)

\* Two sequences of parts, one behind the other.
LEMMA JoinItems ==
  ASSUME NEW s \in Seq(Item), NEW t \in Seq(Item)
  PROVE  /\ s \o t \in Seq(Item) /\ Len(s \o t) = Len(s) + Len(t)
         /\ \A i \in 1 .. Len(s) : (s \o t)[i] = s[i]
         /\ \A i \in Len(s) + 1 .. Len(s) + Len(t) : i - Len(s) \in 1 .. Len(t) /\ (s \o t)[i] = t[i - Len(s)]
<1>1. s \o t \in Seq(Item) /\ Len(s \o t) = Len(s) + Len(t) /\ Len(s) \in Nat /\ Len(t) \in Nat
  OBVIOUS
<1>2. ASSUME NEW i \in 1 .. Len(s)
      PROVE  (s \o t)[i] = s[i]
  BY <1>1
<1>3. ASSUME NEW i \in Len(s) + 1 .. Len(s) + Len(t)
      PROVE  i - Len(s) \in 1 .. Len(t) /\ (s \o t)[i] = t[i - Len(s)]
  BY <1>1
<1> QED
  BY <1>1, <1>2, <1>3

\* The numbers of a part.
LEMMA ItemNat ==
  ASSUME NEW a \in Item
  PROVE  a.at \in Nat /\ a.n \in Nat /\ a = [r |-> a.r, api |-> a.api, code |-> a.code, n |-> a.n, at |-> a.at, left |-> a.left]
<1>1. MaxBody \in Nat
  BY HttpAssumption
<1> QED
  BY <1>1 DEF Item

\* A part of which a piece is left, and a part moved within its answer.
LEMMA LeftItem ==
  ASSUME NEW a \in Item, NEW rest \in {"junk", "glue"}
  PROVE  LET h == [a EXCEPT !.left = rest]
         IN  /\ h \in Item /\ h.at = a.at /\ h.n = a.n
             /\ \A b, m : Later(a, b, m) => Later(h, b, m)
<1> DEFINE h == [a EXCEPT !.left = rest]
<1>1. h \in Item
  BY DEF Item
<1>2. h.r = a.r /\ h.api = a.api /\ h.code = a.code /\ h.n = a.n /\ h.at = a.at
  BY DEF Item
<1> HIDE DEF h
<1>3. \A b, m : Later(a, b, m) => Later(h, b, m)
  BY <1>2 DEF Later
<1> QED
  BY <1>1, <1>2, <1>3 DEF h

LEMMA MovedItem ==
  ASSUME NEW a \in Item, NEW m
  PROVE  [a EXCEPT !.at = m] = [r |-> a.r, api |-> a.api, code |-> a.code, n |-> a.n, at |-> m, left |-> a.left]
  BY DEF Item

\* Whether an answer is complete where a stream ends.
LEMMA EndOfAnswer ==
  ASSUME NEW at \in Nat, NEW n \in Nat, NEW i \in Nat, NEW len \in Nat, at + (len - i) >= n + 3
  PROVE  /\ \A j \in Nat : at + (j - i) <= n + 3 => j <= len
         /\ \A m \in Nat : at + ((len + m) - i) >= n + 3
  OBVIOUS

\* Reading from the front.
LEMMA DropOrdered ==
  ASSUME NEW s, Ordered(s), NEW k \in 0 .. Len(s)
  PROVE  LET t == SubSeq(s, k + 1, Len(s))
         IN  /\ Ordered(t) /\ Len(t) = Len(s) - k
             /\ \A i \in 1 .. Len(t) : t[i] = s[i + k]
             /\ Complete(s) => Complete(t)
<1> DEFINE t == SubSeq(s, k + 1, Len(s))
<1>1. s \in Seq(Item)
  BY DEF Ordered
<1>2. t \in Seq(Item) /\ Len(t) = Len(s) - k /\ \A i \in 1 .. Len(t) : t[i] = s[i + k]
  BY <1>1, DropItems
<1> HIDE DEF t
<1>3. \A i \in 1 .. Len(t) : i + k \in 1 .. Len(s) /\ s[i + k] \in Item
  BY <1>1, <1>2
<1>4. Ordered(t)
  <2>1. \A i \in 1 .. Len(t) : t[i].at <= t[i].n + 3
    BY <1>2, <1>3 DEF Ordered
  <2>2. ASSUME NEW i \in 2 .. Len(t)
        PROVE  t[i].left = "all"
    <3>1. i + k \in 2 .. Len(s) /\ i \in 1 .. Len(t)
      BY <1>1, <1>2
    <3> QED
      BY <1>2, <3>1 DEF Ordered
  <2>3. ASSUME NEW i \in 1 .. Len(t), NEW j \in 1 .. Len(t), i < j, t[i].at + (j - i) <= t[i].n + 3
        PROVE  Later(t[i], t[j], j - i)
    <3>1. (j + k) - (i + k) = j - i /\ i + k < j + k
      BY <1>1, <1>2, <2>3
    <3>2. i + k \in 1 .. Len(s) /\ j + k \in 1 .. Len(s) /\ t[i] = s[i + k] /\ t[j] = s[j + k]
      BY <1>2, <1>3
    <3>3. s[i + k].at + ((j + k) - (i + k)) <= s[i + k].n + 3
      BY <2>3, <3>1, <3>2
    <3>4. Later(s[i + k], s[j + k], (j + k) - (i + k))
      BY <3>1, <3>2, <3>3 DEF Ordered
    <3> QED
      BY <3>1, <3>2, <3>4
  <2> QED
    BY <1>2, <2>1, <2>2, <2>3 DEF Ordered
<1>5. Complete(s) => Complete(t)
  <2> SUFFICES ASSUME Complete(s), NEW i \in 1 .. Len(t)
               PROVE  t[i].at + (Len(t) - i) >= t[i].n + 3
    BY DEF Complete
  <2>1. s[i + k].at + (Len(s) - (i + k)) >= s[i + k].n + 3
    BY <1>3 DEF Complete
  <2>2. Len(t) - i = Len(s) - (i + k) /\ t[i] = s[i + k]
    BY <1>1, <1>2
  <2> QED
    BY <2>1, <2>2
<1> QED
  BY <1>2, <1>4, <1>5 DEF t

\* A line that was read in part.
LEMMA SplitOrdered ==
  ASSUME NEW s, Ordered(s), NEW k \in 1 .. Len(s), NEW rest \in {"junk", "glue"}
  PROVE  LET t == <<[s[k] EXCEPT !.left = rest]>> \o SubSeq(s, k + 1, Len(s))
         IN  Ordered(t) /\ (Complete(s) => Complete(t))
<1> DEFINE h == [s[k] EXCEPT !.left = rest]
           d == SubSeq(s, k + 1, Len(s))
           t == <<h>> \o d
<1>1. s \in Seq(Item) /\ s[k] \in Item /\ Len(s) \in Nat /\ k \in 0 .. Len(s)
  BY DEF Ordered
<1>2. h \in Item /\ h.at = s[k].at /\ h.n = s[k].n
  BY <1>1, LeftItem
<1>b. ASSUME NEW b, NEW m, Later(s[k], b, m)
      PROVE  Later(h, b, m)
  BY <1>1, <1>b, LeftItem
<1> HIDE DEF h, t
<1>3. d \in Seq(Item) /\ Len(d) = Len(s) - k /\ \A i \in 1 .. Len(d) : d[i] = s[i + k]
  BY <1>1, DropItems
<1> HIDE DEF d
<1>c. <<h>> \in Seq(Item) /\ Len(<<h>>) = 1 /\ <<h>>[1] = h
  BY <1>2
<1>4. /\ t \in Seq(Item) /\ Len(t) = 1 + Len(d) /\ t[1] = h
      /\ \A i \in 1 + 1 .. 1 + Len(d) : i - 1 \in 1 .. Len(d) /\ t[i] = d[i - 1]
  BY <1>c, <1>3, JoinItems DEF t
<1>5. ASSUME NEW i \in 2 .. Len(t)
      PROVE  t[i] = s[i + k - 1] /\ i + k - 1 \in 2 .. Len(s)
  <2>1. i \in 1 + 1 .. 1 + Len(d) /\ Len(d) \in Nat
    BY <1>3, <1>4
  <2>2. i - 1 \in 1 .. Len(d) /\ t[i] = d[i - 1]
    BY <1>4, <2>1
  <2>a. i \in Nat /\ k \in Nat
    BY <1>1
  <2>b. (i - 1) + k = i + k - 1
    BY <2>a
  <2>c. d[i - 1] = s[(i - 1) + k]
    BY <1>3, <2>2
  <2>3. d[i - 1] = s[(i - 1) + k] /\ (i - 1) + k = i + k - 1
    BY <2>b, <2>c
  <2> QED
    BY <1>1, <1>3, <2>1, <2>2, <2>3
<1>6. ASSUME NEW i \in 1 .. Len(t)
      PROVE  i + k - 1 \in 1 .. Len(s) /\ t[i].at = s[i + k - 1].at /\ t[i].n = s[i + k - 1].n
  <2>1. CASE i = 1
    BY <1>1, <1>2, <1>4, <2>1
  <2>2. CASE i # 1
    <3>1. i \in 2 .. Len(t)
      BY <1>3, <1>4, <2>2
    <3> QED
      BY <1>1, <1>5, <3>1
  <2> QED
    BY <2>1, <2>2
<1>7. Ordered(t)
  <2>1. \A i \in 1 .. Len(t) : t[i].at <= t[i].n + 3
    BY <1>6 DEF Ordered
  <2>2. \A i \in 2 .. Len(t) : t[i].left = "all"
    BY <1>5 DEF Ordered
  <2>3. ASSUME NEW i \in 1 .. Len(t), NEW j \in 1 .. Len(t), i < j, t[i].at + (j - i) <= t[i].n + 3
        PROVE  Later(t[i], t[j], j - i)
    <3>1. (j + k - 1) - (i + k - 1) = j - i /\ i + k - 1 < j + k - 1 /\ j \in 2 .. Len(t)
      BY <1>1, <1>3, <1>4, <2>3
    <3>2. t[j] = s[j + k - 1] /\ j + k - 1 \in 1 .. Len(s) /\ i + k - 1 \in 1 .. Len(s)
      BY <1>5, <1>6, <3>1
    <3>3. s[i + k - 1].at + ((j + k - 1) - (i + k - 1)) <= s[i + k - 1].n + 3
      BY <1>6, <2>3, <3>1
    <3>4. Later(s[i + k - 1], t[j], j - i)
      BY <3>1, <3>2, <3>3 DEF Ordered
    <3>5. CASE i = 1
      <4>1. i + k - 1 = k
        BY <1>1, <3>5
      <4> QED
        BY <1>4, <1>b, <3>4, <3>5, <4>1
    <3>6. CASE i # 1
      <4>1. i \in 2 .. Len(t)
        BY <1>3, <1>4, <3>6
      <4> QED
        BY <1>5, <3>4, <4>1
    <3> QED
      BY <3>5, <3>6
  <2> QED
    BY <1>4, <2>1, <2>2, <2>3 DEF Ordered
<1>8. Complete(s) => Complete(t)
  <2> SUFFICES ASSUME Complete(s), NEW i \in 1 .. Len(t)
               PROVE  t[i].at + (Len(t) - i) >= t[i].n + 3
    BY DEF Complete
  <2>1. s[i + k - 1].at + (Len(s) - (i + k - 1)) >= s[i + k - 1].n + 3
    BY <1>6 DEF Complete
  <2>2. Len(t) - i = Len(s) - (i + k - 1)
    BY <1>1, <1>3, <1>4
  <2> QED
    BY <1>6, <2>1, <2>2
<1> QED
  BY <1>7, <1>8 DEF t, h, d

\* What is left when the end is lost.
LEMMA PrefixOrdered ==
  ASSUME NEW s, Ordered(s), NEW k \in 0 .. Len(s)
  PROVE  LET t == SubSeq(s, 1, k)
         IN  Ordered(t) /\ Len(t) = k /\ \A i \in 1 .. k : t[i] = s[i]
<1> DEFINE t == SubSeq(s, 1, k)
<1>1. s \in Seq(Item) /\ Len(s) \in Nat
  BY DEF Ordered
<1>2. t \in Seq(Item) /\ Len(t) = k /\ \A i \in 1 .. k : t[i] = s[i]
  BY <1>1, DropItems
<1> HIDE DEF t
<1>3. ASSUME NEW i \in 1 .. k
      PROVE  i \in 1 .. Len(s) /\ t[i] = s[i]
  BY <1>1, <1>2
<1>4. Ordered(t)
  <2>1. \A i \in 1 .. Len(t) : t[i].at <= t[i].n + 3
    BY <1>2, <1>3 DEF Ordered
  <2>2. ASSUME NEW i \in 2 .. Len(t)
        PROVE  t[i].left = "all"
    <3>1. i \in 1 .. k /\ i \in 2 .. Len(s)
      BY <1>1, <1>2
    <3> QED
      BY <1>3, <3>1 DEF Ordered
  <2>3. ASSUME NEW i \in 1 .. Len(t), NEW j \in 1 .. Len(t), i < j, t[i].at + (j - i) <= t[i].n + 3
        PROVE  Later(t[i], t[j], j - i)
    <3>1. i \in 1 .. Len(s) /\ j \in 1 .. Len(s) /\ t[i] = s[i] /\ t[j] = s[j]
      BY <1>2, <1>3
    <3> QED
      BY <2>3, <3>1 DEF Ordered
  <2> QED
    BY <1>2, <2>1, <2>2, <2>3 DEF Ordered
<1> QED
  BY <1>2, <1>4 DEF t

\* All parts of one answer with a body of n units.
OneAnswer(w, n) ==
  /\ w \in Seq(Item) /\ Len(w) = n + 3
  /\ \A i \in 1 .. n + 3 :
       /\ w[i].r = w[1].r /\ w[i].api = w[1].api /\ w[i].code = w[1].code /\ w[i].n = n
       /\ w[i].at = i /\ w[i].left = "all"

\* A new answer behind answers that are complete.
LEMMA AnswerOrdered ==
  ASSUME NEW s, Ordered(s), Complete(s), NEW n \in Nat, NEW w, OneAnswer(w, n)
  PROVE  LET t == s \o w
         IN  /\ Ordered(t) /\ Complete(t) /\ t # <<>>
             /\ \A i \in 1 .. Len(s) : t[i] = s[i]
<1> DEFINE t == s \o w
<1>1. s \in Seq(Item)
  BY DEF Ordered
<1>3. w \in Seq(Item) /\ Len(w) = n + 3
  BY DEF OneAnswer
<1>b. \A i \in 1 .. n + 3 : w[i].at = i /\ w[i].n = n /\ w[i].left = "all"
  BY DEF OneAnswer
<1>c. ASSUME NEW i \in 1 .. n + 3, NEW j \in 1 .. n + 3, NEW d, i + d = j
      PROVE  Later(w[i], w[j], d)
  BY <1>c DEF Later, OneAnswer
<1>4. /\ t \in Seq(Item) /\ Len(t) = Len(s) + (n + 3)
      /\ \A i \in 1 .. Len(s) : t[i] = s[i]
      /\ \A i \in Len(s) + 1 .. Len(s) + (n + 3) : i - Len(s) \in 1 .. n + 3 /\ t[i] = w[i - Len(s)]
  <2>1. /\ s \o w \in Seq(Item) /\ Len(s \o w) = Len(s) + Len(w)
        /\ \A i \in 1 .. Len(s) : (s \o w)[i] = s[i]
        /\ \A i \in Len(s) + 1 .. Len(s) + Len(w) : i - Len(s) \in 1 .. Len(w) /\ (s \o w)[i] = w[i - Len(s)]
    BY <1>1, <1>3, JoinItems
  <2> QED
    BY <1>3, <2>1
<1> HIDE DEF t
<1>5. \A i \in Len(s) + 1 .. Len(t) : i - Len(s) \in 1 .. n + 3 /\ t[i] = w[i - Len(s)]
  BY <1>4
<1>6. Len(s) \in Nat /\ Len(t) \in Nat
  BY <1>1, <1>4
<1>a. \A i \in 1 .. Len(t) : i \in 1 .. Len(s) \/ i \in Len(s) + 1 .. Len(t)
  BY <1>6
<1>7. ASSUME NEW i \in 1 .. Len(t)
      PROVE  t[i].at <= t[i].n + 3
  <2>1. CASE i \in 1 .. Len(s)
    BY <1>4, <2>1 DEF Ordered
  <2>2. CASE i \in Len(s) + 1 .. Len(t)
    <3>1. t[i].at = i - Len(s) /\ t[i].n = n /\ i - Len(s) \in 1 .. n + 3
      BY <1>5, <1>b, <2>2
    <3> QED
      BY <3>1
  <2> QED
    BY <1>a, <2>1, <2>2
<1>8. ASSUME NEW i \in 2 .. Len(t)
      PROVE  t[i].left = "all"
  <2>0. i \in 1 .. Len(t)
    BY <1>6
  <2>1. CASE i \in 1 .. Len(s)
    <3>1. i \in 2 .. Len(s)
      BY <1>6, <2>1
    <3> QED
      BY <1>4, <2>1, <3>1 DEF Ordered
  <2>2. CASE i \in Len(s) + 1 .. Len(t)
    BY <1>5, <1>b, <2>2
  <2> QED
    BY <1>a, <2>0, <2>1, <2>2
<1>9. ASSUME NEW i \in 1 .. Len(t), NEW j \in 1 .. Len(t), i < j, t[i].at + (j - i) <= t[i].n + 3
      PROVE  Later(t[i], t[j], j - i)
  <2>1. CASE i \in 1 .. Len(s)
    <3>1. t[i] = s[i] /\ s[i] \in Item /\ i \in 1 .. Len(s)
      BY <1>1, <1>4, <1>6, <2>1
    <3>2. s[i].at + (Len(s) - i) >= s[i].n + 3
      BY <3>1 DEF Complete
    <3>3. s[i].at \in Nat /\ s[i].n \in Nat
      BY <3>1, ItemNat
    <3>4. j <= Len(s)
      <4>1. s[i].at + (j - i) <= s[i].n + 3 /\ i \in Nat /\ j \in Nat
        BY <1>9, <3>1
      <4> QED
        BY <1>6, <3>2, <3>3, <4>1, EndOfAnswer
    <3>5. j \in 1 .. Len(s) /\ t[j] = s[j]
      BY <1>4, <1>6, <3>4
    <3> QED
      BY <1>9, <3>1, <3>5 DEF Ordered
  <2>2. CASE i \in Len(s) + 1 .. Len(t)
    <3>0. j \in Len(s) + 1 .. Len(t)
      BY <1>6, <1>9, <2>2
    <3>1. /\ i - Len(s) \in 1 .. n + 3 /\ t[i] = w[i - Len(s)]
          /\ j - Len(s) \in 1 .. n + 3 /\ t[j] = w[j - Len(s)]
      BY <1>5, <2>2, <3>0
    <3>2. (i - Len(s)) + (j - i) = j - Len(s)
      BY <1>6
    <3> QED
      BY <1>c, <3>1, <3>2
  <2> QED
    BY <1>a, <2>1, <2>2
<1>10. Complete(t)
  <2> SUFFICES ASSUME NEW i \in 1 .. Len(t)
               PROVE  t[i].at + (Len(t) - i) >= t[i].n + 3
    BY DEF Complete
  <2>1. CASE i \in 1 .. Len(s)
    <3>1. t[i] = s[i] /\ s[i] \in Item
      BY <1>1, <1>4, <2>1
    <3>2. s[i].at \in Nat /\ s[i].n \in Nat
      BY <3>1, ItemNat
    <3>3. s[i].at + (Len(s) - i) >= s[i].n + 3
      BY <2>1 DEF Complete
    <3>4. n + 3 \in Nat /\ i \in Nat
      OBVIOUS
    <3>5. s[i].at + ((Len(s) + (n + 3)) - i) >= s[i].n + 3
      BY <1>6, <3>2, <3>3, <3>4, EndOfAnswer
    <3> QED
      BY <1>4, <3>1, <3>5
  <2>2. CASE i \in Len(s) + 1 .. Len(t)
    <3>1. t[i].at = i - Len(s) /\ t[i].n = n
      BY <1>5, <1>b, <2>2
    <3> QED
      BY <1>4, <1>6, <3>1
  <2> QED
    BY <1>a, <2>1, <2>2
<1> QED
  <2>1. Ordered(t)
    BY <1>4, <1>7, <1>8, <1>9 DEF Ordered
  <2>2. t # <<>>
    BY <1>4, <1>6
  <2> QED
    BY <1>4, <1>10, <2>1, <2>2 DEF t

\* Reading k parts of an answer that goes on: the next part of it comes, or
\* the stream was cut.
LEMMA Advance ==
  ASSUME NEW s, Ordered(s), NEW k \in 1 .. Len(s), s[1].at + k <= s[1].n + 3
  PROVE  LET t == SubSeq(s, k + 1, Len(s))
         IN  /\ t # <<>> => Later(s[1], t[1], k)
             /\ t = <<>> => ~Complete(s)
<1> DEFINE t == SubSeq(s, k + 1, Len(s))
<1>1. s \in Seq(Item) /\ Len(s) \in Nat /\ 1 \in 1 .. Len(s) /\ k \in 0 .. Len(s)
  BY DEF Ordered
<1>2. t \in Seq(Item) /\ Len(t) = Len(s) - k /\ \A i \in 1 .. Len(s) - k : t[i] = s[i + k]
  BY <1>1, DropItems
<1>3. s[1].at \in Nat /\ s[1].n \in Nat
  BY <1>1, ItemNat
<1> HIDE DEF t
<1>4. ASSUME t # <<>>
      PROVE  Later(s[1], t[1], k)
  <2>1. 1 \in 1 .. Len(s) - k /\ 1 + k \in 1 .. Len(s) /\ (1 + k) - 1 = k /\ 1 < 1 + k
    <3>1. Len(t) # 0
      BY <1>2, <1>4
    <3> QED
      BY <1>1, <1>2, <3>1
  <2>2. t[1] = s[1 + k]
    BY <1>2, <2>1
  <2>3. Later(s[1], s[1 + k], (1 + k) - 1)
    BY <1>1, <2>1 DEF Ordered
  <2> QED
    BY <2>1, <2>2, <2>3
<1>5. ASSUME t = <<>>, Complete(s)
      PROVE  FALSE
  <2>1. Len(s) = k
    BY <1>1, <1>2, <1>5
  <2>2. s[1].at + (Len(s) - 1) >= s[1].n + 3
    BY <1>1, <1>5 DEF Complete
  <2> QED
    BY <1>1, <1>3, <2>1, <2>2
<1> QED
  BY <1>4, <1>5 DEF t

\* The units that are read at once follow each other.
LEMMA Piece ==
  ASSUME NEW s, Ordered(s), NEW k \in 1 .. Len(s), s[1].at + (k - 1) <= s[1].n + 3, s[1].left = "all"
  PROVE  LET t == SubSeq(s, 1, k)
         IN  t \in Seq(Item) /\ Len(t) = k /\ t[1] = s[1] /\ \A i \in 1 .. k : Later(s[1], t[i], i - 1)
<1> DEFINE t == SubSeq(s, 1, k)
<1>1. s \in Seq(Item) /\ Len(s) \in Nat /\ 1 \in 1 .. Len(s) /\ k \in 0 .. Len(s) /\ 1 \in 1 .. k
  BY DEF Ordered
<1>2. t \in Seq(Item) /\ Len(t) = k /\ \A i \in 1 .. k : t[i] = s[i]
  BY <1>1, DropItems
<1>3. s[1].at \in Nat /\ s[1].n \in Nat
  BY <1>1, ItemNat
<1> HIDE DEF t
<1>4. ASSUME NEW i \in 1 .. k
      PROVE  Later(s[1], t[i], i - 1)
  <2>1. CASE i = 1
    BY <1>2, <1>3, <2>1 DEF Later
  <2>2. CASE i # 1
    <3>1. i \in 1 .. Len(s) /\ 1 < i /\ s[1].at + (i - 1) <= s[1].n + 3
      BY <1>1, <1>3, <2>2
    <3>2. Later(s[1], s[i], i - 1)
      BY <1>1, <3>1 DEF Ordered
    <3> QED
      BY <1>2, <3>2
  <2> QED
    BY <2>1, <2>2
<1> QED
  BY <1>1, <1>2, <1>4 DEF t

\* Units that follow a chain make it longer.
LEMMA ChainGrows ==
  ASSUME NEW c \in Seq(Item), NEW n \in Nat, Chain(c, n), NEW p \in Seq(Item), p # <<>>,
         \A i \in 1 .. Len(p) : Later(p[1], p[i], i - 1),
         IF c = <<>> THEN p[1].at = 4 /\ p[1].n = n ELSE Later(c[1], p[1], Len(c))
  PROVE  /\ Chain(c \o p, n) /\ c \o p # <<>> /\ (c \o p)[1].at = 4
         /\ \A b, d : Len(p) = d /\ Later(p[1], b, d) => Later((c \o p)[1], b, Len(c) + d)
<1> DEFINE w == c \o p
<1>1. /\ w \in Seq(Item) /\ Len(w) = Len(c) + Len(p) /\ Len(c) \in Nat /\ Len(p) \in Nat \ {0}
      /\ \A i \in 1 .. Len(c) : w[i] = c[i]
      /\ \A i \in Len(c) + 1 .. Len(c) + Len(p) : i - Len(c) \in 1 .. Len(p) /\ w[i] = p[i - Len(c)]
  BY JoinItems
<1> HIDE DEF w
<1>2. p[1] \in Item /\ p[1].at \in Nat
  <2>1. 1 \in 1 .. Len(p)
    BY <1>1
  <2> QED
    BY <2>1, ItemNat
<1>3. CASE c = <<>>
  <2>1. Len(c) = 0
    BY <1>3
  <2>2. w[1] = p[1]
    BY <1>1, <2>1
  <2>3. \A i \in 1 .. Len(w) : w[i] = p[i] /\ i \in 1 .. Len(p)
    BY <1>1, <2>1
  <2>4. Chain(w, n)
    BY <1>3, <2>2, <2>3 DEF Chain
  <2>5. w # <<>>
    BY <1>1
  <2>6. \A d : Len(p) = d => Len(c) + d = d
    BY <1>1, <2>1
  <2> QED
    BY <1>3, <2>2, <2>4, <2>5, <2>6 DEF w
<1>4. CASE c # <<>>
  <2>1. 1 \in 1 .. Len(c) /\ w[1] = c[1] /\ c[1] \in Item
    BY <1>1, <1>4
  <2>2. c[1].at = 4 /\ c[1].n = n /\ Later(c[1], p[1], Len(c))
    BY <1>4 DEF Chain
  <2>3. p[1].at = 4 + Len(c)
    BY <2>2 DEF Later
  <2>4. ASSUME NEW b, NEW d \in Nat, Later(p[1], b, d)
        PROVE  Later(c[1], b, Len(c) + d)
    <3>1. b.at = (4 + Len(c)) + d
      BY <2>3, <2>4 DEF Later
    <3>2. b.at = c[1].at + (Len(c) + d)
      BY <1>1, <2>2, <3>1
    <3> QED
      BY <2>2, <2>4, <3>2 DEF Later
  <2>5. ASSUME NEW i \in 1 .. Len(w)
        PROVE  Later(w[1], w[i], i - 1)
    <3>1. CASE i \in 1 .. Len(c)
      BY <1>1, <2>1, <3>1 DEF Chain
    <3>2. CASE i \in Len(c) + 1 .. Len(c) + Len(p)
      <4>1. i - Len(c) \in 1 .. Len(p) /\ w[i] = p[i - Len(c)]
        BY <1>1, <3>2
      <4>2. Later(p[1], w[i], (i - Len(c)) - 1)
        BY <4>1
      <4>3. (i - Len(c)) - 1 \in Nat /\ Len(c) + ((i - Len(c)) - 1) = i - 1
        BY <1>1, <4>1
      <4> QED
        BY <2>1, <2>4, <4>2, <4>3
    <3> QED
      BY <1>1, <3>1, <3>2
  <2>6. Chain(w, n)
    BY <2>1, <2>2, <2>5 DEF Chain
  <2>7. w # <<>>
    BY <1>1
  <2>8. ASSUME NEW b, NEW d, Len(p) = d, Later(p[1], b, d)
        PROVE  Later(w[1], b, Len(c) + d)
    BY <1>1, <2>1, <2>4, <2>8
  <2> QED
    BY <2>1, <2>2, <2>6, <2>7, <2>8 DEF w
<1> QED
  BY <1>3, <1>4

\* A chain as long as its body is a whole body.
LEMMA ChainWhole ==
  ASSUME NEW c \in Seq(Item), c # <<>>, Chain(c, Len(c))
  PROVE  Whole(c)
<1>1. DOMAIN c = 1 .. Len(c) /\ 1 \in 1 .. Len(c)
  OBVIOUS
<1>2. c[1].at = 4 /\ c[1].n = Len(c)
  BY DEF Chain
<1>3. c[1].left = "all"
  BY <1>1 DEF Chain, Later
<1>4. ASSUME NEW i \in 1 .. Len(c)
      PROVE  c[i] = [c[1] EXCEPT !.at = i + 3]
  <2>1. Later(c[1], c[i], i - 1) /\ c[i] \in Item /\ c[1] \in Item
    BY <1>1 DEF Chain
  <2>2. c[i].at = i + 3
    BY <1>2, <2>1 DEF Later
  <2>3. c[i] = [r |-> c[1].r, api |-> c[1].api, code |-> c[1].code, n |-> c[1].n, at |-> i + 3, left |-> c[1].left]
    BY <1>3, <2>1, <2>2, ItemNat DEF Later
  <2> QED
    BY <2>1, <2>3, MovedItem
<1> QED
  BY <1>1, <1>2, <1>4 DEF Whole

-----------------------------------------------------------------------------
(* The stream. *)

LEMMA NoneOrdered == Ordered(<<>>) /\ Complete(<<>>)
BY DEF Ordered, Complete

\* The server sends one answer.
LEMMA AnswerParts ==
  ASSUME Inv, NEW n \in 0 .. MaxBody, NEW code \in {200, 400}, Answer(n, code)
  PROVE  OneAnswer([i \in 1 .. n + 3 |->
           [r |-> owed[1].r, api |-> owed[1].api, code |-> code, n |-> n, at |-> i, left |-> "all"]], n)
<1> DEFINE item(i) == [r |-> owed[1].r, api |-> owed[1].api, code |-> code, n |-> n, at |-> i, left |-> "all"]
           w == [i \in 1 .. n + 3 |-> item(i)]
<1>1. owed # <<>> /\ owed[1].api # "part" /\ owed \in Seq(Owing) /\ OwedReal(owed)
  BY DEF Answer, Inv, Types, ConnTypes
<1>2. owed[1] \in Owing /\ owed[1].r \in Requests
  BY <1>1 DEF OwedReal
<1>3. \A i \in 1 .. n + 3 : item(i) \in Item
  BY <1>1, <1>2, HttpAssumption DEF Item, Owing
<1>4. w \in Seq(Item) /\ Len(w) = n + 3
  BY <1>3, HttpAssumption
<1>5. \A i \in 1 .. n + 3 :
        /\ w[i].r = owed[1].r /\ w[i].api = owed[1].api /\ w[i].code = code /\ w[i].n = n
        /\ w[i].at = i /\ w[i].left = "all"
  OBVIOUS
<1>6. 1 \in 1 .. n + 3
  BY HttpAssumption
<1> HIDE DEF w
<1>7. OneAnswer(w, n)
  BY <1>4, <1>5, <1>6 DEF OneAnswer
<1> QED
  BY <1>7 DEF w

\* What is read, lost or answered leaves the stream in order.
LEMMA StreamNext ==
  ASSUME Inv, StreamInv, [Next]_vars
  PROVE  StreamInv'
<1>0. stream \in Seq(Item) /\ Len(stream) \in Nat
  BY DEF StreamInv, Ordered
<1>1. CASE UNCHANGED <<stream, serving>>
  BY <1>1 DEF StreamInv, Ordered, Complete
<1>2. CASE stream' = <<>>
  BY <1>2, NoneOrdered DEF StreamInv
<1>3. ASSUME NEW k \in 0 .. Len(stream), stream' = SubSeq(stream, k + 1, Len(stream)), UNCHANGED serving
      PROVE  StreamInv'
  BY <1>3, DropOrdered DEF StreamInv
<1>4. ASSUME NEW k \in 0 .. Len(stream), HeaderGivesUp(k)
      PROVE  StreamInv'
  <2>1. /\ UNCHANGED serving
        /\ \/ stream' = SubSeq(stream, k + 1, Len(stream))
           \/ k > 0 /\ \E rest \in {"junk", "glue"} :
                stream' = <<[stream[k] EXCEPT !.left = rest]>> \o SubSeq(stream, k + 1, Len(stream))
    BY <1>4 DEF HeaderGivesUp, Drop
  <2>2. ASSUME k > 0, NEW rest \in {"junk", "glue"},
               stream' = <<[stream[k] EXCEPT !.left = rest]>> \o SubSeq(stream, k + 1, Len(stream))
        PROVE  StreamInv'
    <3>1. k \in 1 .. Len(stream)
      BY <1>0, <2>2
    <3> QED
      BY <2>1, <2>2, <3>1, SplitOrdered DEF StreamInv
  <2> QED
    BY <1>3, <2>1, <2>2
<1>5. ASSUME NEW n \in 0 .. MaxBody, NEW code \in {200, 400}, Answer(n, code)
      PROVE  StreamInv'
  <2> DEFINE w == [i \in 1 .. n + 3 |->
                 [r |-> owed[1].r, api |-> owed[1].api, code |-> code, n |-> n, at |-> i, left |-> "all"]]
  <2>1. serving /\ stream' = stream \o w
    BY <1>5 DEF Answer
  <2>2. OneAnswer(w, n)
    BY <1>5, AnswerParts
  <2>3. Ordered(stream) /\ Complete(stream) /\ n \in Nat
    BY <2>1 DEF StreamInv
  <2> HIDE DEF w
  <2> QED
    BY <2>1, <2>2, <2>3, AnswerOrdered DEF StreamInv
<1>6. CASE LinkBreaks
  <2>1. PICK k \in 0 .. Len(stream) : stream' = SubSeq(stream, 1, k)
    BY <1>6 DEF LinkBreaks
  <2>2. serving' = FALSE
    BY <1>6 DEF LinkBreaks
  <2> QED
    BY <2>1, <2>2, PrefixOrdered DEF StreamInv
<1>7. ASSUME NEW k \in 0 .. Len(stream), HeaderLine(k)
      PROVE  StreamInv'
  <2>1. stream' = SubSeq(stream, (k + 1) + 1, Len(stream)) /\ UNCHANGED serving /\ k + 1 \in 0 .. Len(stream)
    BY <1>0, <1>7 DEF HeaderLine, Drop
  <2> QED
    BY <1>3, <2>1
<1>8. ASSUME NEW n \in 1 .. BufferMax, BodyChunk(n)
      PROVE  StreamInv'
  <2>1. stream' = SubSeq(stream, n + 1, Len(stream)) /\ UNCHANGED serving /\ n \in 0 .. Len(stream)
    BY <1>0, <1>8, HttpAssumption DEF BodyChunk, Drop
  <2> QED
    BY <1>3, <2>1
<1>9. CASE Connect \/ RequestFails \/ RecvError
  <2>1. stream' = <<>> \/ UNCHANGED <<stream, serving>>
    BY <1>9 DEF Connect, RequestFails, RecvError, Close, conn
  <2> QED
    BY <1>1, <1>2, <2>1
<1>10. CASE Request \/ ExecInc \/ ExecDec \/ Crash \/ TimeUp \/ UNCHANGED vars
  <2>1. UNCHANGED <<stream, serving>>
    BY <1>10 DEF Request, ExecInc, ExecDec, Crash, TimeUp, conn, vars
  <2> QED
    BY <1>1, <2>1
<1>11. CASE RecvStart \/ BodyEmpty \/ BodyFinished \/ BodyNoMemory \/ BodySilent \/ AuthFinish \/ RecvFinish
  <2>1. UNCHANGED <<stream, serving>>
    BY <1>11 DEF RecvStart, BodyEmpty, BodyFinished, BodyNoMemory, BodySilent, AuthFinish, RecvFinish, conn
  <2> QED
    BY <1>1, <2>1
<1>12. CASE Deinit
  <2>1. stream' = <<>> \/ UNCHANGED <<stream, serving>>
    BY <1>12 DEF Deinit, DeinitDisable, DeinitWait, DeinitTest, DeinitTear, CoreDeinitWait, CoreDeinitTest, CoreDeinitFree, Close, conn
  <2> QED
    BY <1>1, <1>2, <2>1
<1>13. ASSUME NEW f \in {"auth", "send", "recv"}, Call(f)
       PROVE  StreamInv'
  <2>1. UNCHANGED <<stream, serving>>
    BY <1>13 DEF Call, conn
  <2> QED
    BY <1>1, <2>1
<1> QED
  BY <1>4, <1>5, <1>6, <1>7, <1>8, <1>9, <1>10, <1>11, <1>12, <1>13, NextCases DEF Reading, Server

-----------------------------------------------------------------------------
(* What a step makes of the session and of the part that comes next. *)

\* The types, as the steps below need them.
LEMMA Facts ==
  ASSUME Inv
  PROVE  /\ session.sm \in {"header", "body"} /\ session.total \in Nat /\ session.read \in Nat /\ total \in Nat
         /\ session.sm = "header" => session = NoSession
         /\ pc = "header" => session.sm = "header"
         /\ pc = "body" => session.sm = "body"
         /\ pc = "body" /\ total # 0 => session.read = 0
         /\ pc \in {"idle", "inc", "connect", "request"} => resp = NoResp
         /\ resp.content \in Seq(Item) /\ resp.total \in Nat /\ resp.code \in {0, 200, 400}
         /\ stream \in Seq(Item) /\ Len(stream) \in Nat
<1>1. SessionTypes /\ CallTypes /\ ConnTypes /\ CallInv
  BY DEF Inv, Types
<1>2. session.sm \in {"header", "body"} /\ session.total \in Nat /\ session.read \in Nat /\ total \in Nat
  BY <1>1, HttpAssumption DEF SessionTypes
<1>3. resp.content \in Seq(Item) /\ resp.total \in Nat /\ resp.code \in {0, 200, 400}
  BY <1>1, HttpAssumption DEF CallTypes
<1>4. stream \in Seq(Item) /\ Len(stream) \in Nat
  BY <1>1 DEF ConnTypes
<1> QED
  BY <1>1, <1>2, <1>3, <1>4 DEF CallInv

LEMMA BegunFacts ==
  ASSUME Inv
  PROVE  Begun.sm = session.sm /\ Begun.read = session.read /\ Begun.total = BodyTotal
<1>1. session \in [sm : {"header", "body"}, total : 0 .. MaxBody, read : 0 .. MaxBody]
  BY DEF Inv, Types, SessionTypes
<1> QED
  BY <1>1 DEF Begun, BodyTotal

LEMMA NoneFacts ==
  /\ NoSession.sm = "header" /\ NoSession.total = 0 /\ NoSession.read = 0
  /\ NoResp.code = 0 /\ NoResp.total = 0 /\ NoResp.content = <<>>
BY DEF NoSession, NoResp

LEMMA KindOf ==
  ASSUME NEW a \in Item
  PROVE  /\ Kind(a) = "status" <=> a.left = "all" /\ a.at = 1
         /\ Kind(a) = "length" <=> a.left = "all" /\ a.at = 2
         /\ Kind(a) = "end" <=> a.left = "all" /\ a.at = 3
         /\ a.left = "all" /\ a.at \in {1, 2, 3} => IsLine(a)
<1>1. a.left \in {"all", "junk", "glue"} /\ a.at \in Nat
  BY ItemNat DEF Item
<1>2. CASE a.left # "all"
  BY <1>1, <1>2 DEF Kind
<1>3. CASE a.left = "all" /\ a.at = 1
  BY <1>3 DEF Kind, IsLine
<1>4. CASE a.left = "all" /\ a.at = 2
  BY <1>4 DEF Kind, IsLine
<1>5. CASE a.left = "all" /\ a.at = 3
  BY <1>5 DEF Kind, IsLine
<1>6. CASE a.left = "all" /\ a.at \notin {1, 2, 3}
  BY <1>6 DEF Kind
<1> QED
  BY <1>2, <1>3, <1>4, <1>5, <1>6

\* A later part of the answer the stream begins with.
LEMMA NextPart ==
  ASSUME StreamInv, NEW k \in 1 .. Len(stream), stream[1].at + k <= stream[1].n + 3,
         stream' = SubSeq(stream, k + 1, Len(stream)), UNCHANGED serving
  PROVE  IF stream' = <<>> THEN NoMore' ELSE Later(stream[1], stream'[1], k)
<1>1. Ordered(stream) /\ (serving => Complete(stream))
  BY DEF StreamInv
<1>2. /\ stream' # <<>> => Later(stream[1], stream'[1], k)
      /\ stream' = <<>> => ~Complete(stream)
  BY <1>1, Advance
<1> QED
  BY <1>1, <1>2 DEF NoMore

\* The server and the network do not change the part that comes next, but the
\* connection may break before it.
LEMMA ServerView ==
  ASSUME Inv, StreamInv, Server
  PROVE  \/ stream' = <<>> /\ NoMore'
         \/ stream # <<>> /\ stream' # <<>> /\ stream'[1] = stream[1]
         \/ stream = <<>> /\ ~NoMore
<1>0. stream \in Seq(Item) /\ Len(stream) \in Nat
  BY Facts
<1>1. ASSUME NEW n \in 0 .. MaxBody, NEW code \in {200, 400}, Answer(n, code), stream # <<>>
      PROVE  stream' # <<>> /\ stream'[1] = stream[1]
  <2> DEFINE w == [i \in 1 .. n + 3 |->
                 [r |-> owed[1].r, api |-> owed[1].api, code |-> code, n |-> n, at |-> i, left |-> "all"]]
  <2>1. serving /\ stream' = stream \o w
    BY <1>1 DEF Answer
  <2>2. OneAnswer(w, n)
    BY <1>1, AnswerParts
  <2>3. Ordered(stream) /\ Complete(stream) /\ n \in Nat
    BY <2>1 DEF StreamInv
  <2> HIDE DEF w
  <2>4. stream' # <<>> /\ \A i \in 1 .. Len(stream) : stream'[i] = stream[i]
    BY <2>1, <2>2, <2>3, AnswerOrdered
  <2>5. 1 \in 1 .. Len(stream)
    BY <1>0, <1>1
  <2> QED
    BY <2>4, <2>5
<1>2. ASSUME NEW n \in 0 .. MaxBody, NEW code \in {200, 400}, Answer(n, code)
      PROVE  ~NoMore
  BY <1>2 DEF Answer, NoMore
<1>3. CASE LinkBreaks
  <2>1. PICK k \in 0 .. Len(stream) : stream' = SubSeq(stream, 1, k)
    BY <1>3 DEF LinkBreaks
  <2>2. serving' = FALSE
    BY <1>3 DEF LinkBreaks
  <2>3. Ordered(stream)
    BY DEF StreamInv
  <2>4. Len(stream') = k /\ stream' \in Seq(Item) /\ \A i \in 1 .. k : stream'[i] = stream[i]
    BY <2>1, <2>3, PrefixOrdered DEF Ordered
  <2>5. CASE k = 0
    BY <2>2, <2>4, <2>5 DEF NoMore
  <2>6. CASE k # 0
    <3>1. 1 \in 1 .. k /\ stream # <<>>
      BY <1>0, <2>6
    <3> QED
      BY <2>4, <2>6, <3>1
  <2> QED
    BY <2>5, <2>6
<1> QED
  BY <1>1, <1>2, <1>3 DEF Server

\* aiot_http_deinit does not either.
LEMMA DeinitView ==
  ASSUME Deinit
  PROVE  UNCHANGED <<stream, serving, owed>> \/ (stream' = <<>> /\ NoMore')
<1>1. UNCHANGED <<stream, serving, owed>> \/ (stream' = <<>> /\ serving' = FALSE)
  BY DEF Deinit, DeinitDisable, DeinitWait, DeinitTest, DeinitTear, CoreDeinitWait, CoreDeinitTest, CoreDeinitFree, Close, conn
<1> QED
  BY <1>1 DEF NoMore

-----------------------------------------------------------------------------
(* The header. *)

\* A line that says nothing is read only when nothing of this header is known.
SkipLine == pc' = "header" /\ total = 0 /\ total' = 0 /\ resp'.total = 0 /\ resp'.code = 0

StatusLine ==
  /\ pc' = "header" /\ total' = 0 /\ resp'.total = 0 /\ resp'.code \in {0, stream[1].code}
  /\ IF stream' = <<>> THEN NoMore'
     ELSE stream'[1].at = 2 /\ stream'[1].code = stream[1].code /\ stream'[1].left = "all"

LengthLine ==
  /\ pc' = "header" /\ resp'.code = resp.code
  /\ resp'.total = total' \/ (dropped' /\ resp'.total = 0)
  /\ IF stream' = <<>> THEN NoMore'
     ELSE /\ stream'[1].at = 3 /\ stream'[1].n = total' /\ stream'[1].left = "all"
          /\ resp.code # 0 => stream'[1].code = resp.code

EndLine ==
  /\ pc' = "body" /\ total' = total /\ resp'.code = resp.code
  /\ resp'.total = total \/ (dropped' /\ resp'.total = 0)
  /\ session'.sm = "body" /\ session'.total = 0 /\ session'.read = 0
  /\ total # 0 => IF stream' = <<>> THEN NoMore'
                  ELSE /\ stream'[1].at = 4 /\ stream'[1].n = total /\ stream'[1].left = "all"
                       /\ resp.code # 0 => stream'[1].code = resp.code

\* What a line of the header tells, and what comes after it.
LEMMA HeaderView ==
  ASSUME Inv, StreamInv, HeaderInv, NEW k \in 0 .. Len(stream), HeaderLine(k)
  PROVE  /\ resp'.content = <<>> /\ pc = "header" /\ session.sm = "header"
         /\ (UNCHANGED session /\ (SkipLine \/ StatusLine \/ LengthLine)) \/ EndLine
<1> DEFINE item == stream[k + 1]
           kind == IF k = 0 THEN Kind(stream[k + 1]) ELSE "junk"
<1>0. /\ stream \in Seq(Item) /\ Len(stream) \in Nat /\ total \in Nat
      /\ resp.content \in Seq(Item) /\ resp.total \in Nat /\ resp.code \in {0, 200, 400}
      /\ session.sm = "header" => session = NoSession
      /\ pc = "header" => session.sm = "header"
  BY Facts
<1>1. /\ pc = "header" /\ k < Len(stream) /\ Glued(k) /\ IsLine(stream[k + 1])
      /\ stream' = SubSeq(stream, (k + 1) + 1, Len(stream)) /\ UNCHANGED serving
  BY DEF HeaderLine, Drop
<1>2. stream # <<>> /\ 1 \in 1 .. Len(stream) /\ stream[1] \in Item /\ stream[1].at \in Nat /\ stream[1].n \in Nat
  BY <1>0, <1>1, ItemNat
<1>3. resp.content = <<>> /\ (resp.total = total \/ (dropped /\ resp.total = 0))
  BY <1>1 DEF HeaderInv
<1>4. total # 0 => stream[1].at = 3 /\ stream[1].n = total /\ stream[1].left = "all"
  BY <1>1, <1>2 DEF HeaderInv, GoesOn
<1>5. resp.code # 0 => stream[1].at \in {2, 3} /\ stream[1].code = resp.code /\ stream[1].left = "all"
  BY <1>1, <1>2 DEF HeaderInv
<1>6. k # 0 => ~IsLine(stream[1])
  <2> SUFFICES ASSUME k # 0
               PROVE  ~IsLine(stream[1])
    OBVIOUS
  <2>1. 1 \in 1 .. k
    BY <1>0
  <2> QED
    BY <1>1, <2>1 DEF Glued
<1>7. /\ total' = IF kind = "length" THEN stream[k + 1].n ELSE total
      /\ kind = "end" => pc' = "body" /\ session' = [session EXCEPT !.sm = "body"]
      /\ kind # "end" => UNCHANGED <<pc, session>>
  BY DEF HeaderLine
<1>8. /\ resp'.content = resp.content
      /\ IF kind = "length" THEN resp'.total = stream[k + 1].n \/ (dropped' /\ resp'.total = resp.total)
                            ELSE resp'.total = resp.total /\ dropped' = dropped
      /\ resp'.code \in {resp.code, stream[k + 1].code} /\ (kind # "status" => resp'.code = resp.code)
  <2>1. resp \in [code : {0, 200, 400}, total : 0 .. MaxBody, content : Seq(Item)]
    BY DEF Inv, Types, CallTypes
  <2>2. \/ /\ resp' = [resp EXCEPT !.code = IF kind = "status" /\ api = "auth" THEN stream[k + 1].code ELSE resp.code,
                                   !.total = IF kind = "length" THEN stream[k + 1].n ELSE resp.total]
           /\ UNCHANGED dropped
        \/ kind = "length" /\ dropped' = TRUE /\ resp' = resp
    BY <2>1 DEF HeaderLine
  <2> HIDE DEF kind
  <2>3. CASE /\ resp' = [resp EXCEPT !.code = IF kind = "status" /\ api = "auth" THEN stream[k + 1].code ELSE resp.code,
                                     !.total = IF kind = "length" THEN stream[k + 1].n ELSE resp.total]
             /\ UNCHANGED dropped
    BY <2>1, <2>3
  <2>4. CASE kind = "length" /\ dropped' = TRUE /\ resp' = resp
    BY <2>4
  <2> QED
    BY <2>2, <2>3, <2>4
<1>9. kind \in {"status", "length", "end"} => k = 0
  OBVIOUS
<1>10. kind = "status" => k = 0 /\ stream[1].at = 1 /\ stream[1].left = "all"
  BY <1>2, KindOf
<1>11. kind = "length" => k = 0 /\ stream[1].at = 2 /\ stream[1].left = "all"
  BY <1>2, KindOf
<1>12. kind = "end" => k = 0 /\ stream[1].at = 3 /\ stream[1].left = "all"
  BY <1>2, KindOf
<1>13. k = 0 /\ stream[1].left = "all" /\ stream[1].at \in {2, 3} => kind \in {"length", "end"}
  BY <1>2, KindOf
<1>14. k # 0 => ~(stream[1].left = "all" /\ stream[1].at \in {1, 2, 3})
  BY <1>2, <1>6, KindOf
<1> HIDE DEF kind
<1>15. ASSUME k = 0, stream[1].at + 1 <= stream[1].n + 3
       PROVE  IF stream' = <<>> THEN NoMore' ELSE Later(stream[1], stream'[1], 1)
  <2>1. stream' = SubSeq(stream, 1 + 1, Len(stream))
    BY <1>1, <1>15
  <2> QED
    BY <1>1, <1>2, <1>15, <2>1, NextPart
<1>16. CASE kind = "status"
  <2>1. total = 0 /\ resp.code = 0
    BY <1>4, <1>5, <1>10, <1>16
  <2>2. IF stream' = <<>> THEN NoMore' ELSE Later(stream[1], stream'[1], 1)
    BY <1>2, <1>10, <1>15, <1>16
  <2>3. IF stream' = <<>> THEN NoMore'
        ELSE stream'[1].at = 2 /\ stream'[1].code = stream[1].code /\ stream'[1].left = "all"
    BY <1>10, <1>16, <2>2 DEF Later
  <2>4. StatusLine
    BY <1>1, <1>3, <1>7, <1>8, <1>10, <1>16, <2>1, <2>3 DEF StatusLine
  <2> QED
    BY <1>0, <1>1, <1>3, <1>7, <1>8, <1>16, <2>4
<1>17. CASE kind = "length"
  <2>1. IF stream' = <<>> THEN NoMore' ELSE Later(stream[1], stream'[1], 1)
    BY <1>2, <1>11, <1>15, <1>17
  <2>2. total' = stream[1].n
    BY <1>7, <1>11, <1>17
  <2>3. IF stream' = <<>> THEN NoMore'
        ELSE /\ stream'[1].at = 3 /\ stream'[1].n = total' /\ stream'[1].left = "all"
             /\ resp.code # 0 => stream'[1].code = resp.code
    BY <1>5, <1>11, <1>17, <2>1, <2>2 DEF Later
  <2>5. resp.total = 0
    BY <1>3, <1>4, <1>11, <1>17
  <2>6. resp'.total = total' \/ (dropped' /\ resp'.total = 0)
    BY <1>7, <1>8, <1>17, <2>5
  <2>4. LengthLine
    BY <1>1, <1>7, <1>8, <1>17, <2>3, <2>6 DEF LengthLine
  <2> QED
    BY <1>0, <1>1, <1>3, <1>7, <1>8, <1>17, <2>4
<1>18. CASE kind = "end"
  <2>1. ASSUME total # 0
        PROVE  IF stream' = <<>> THEN NoMore'
               ELSE /\ stream'[1].at = 4 /\ stream'[1].n = total /\ stream'[1].left = "all"
                    /\ resp.code # 0 => stream'[1].code = resp.code
    <3>1. stream[1].at + 1 <= stream[1].n + 3
      BY <1>0, <1>4, <2>1
    <3>2. IF stream' = <<>> THEN NoMore' ELSE Later(stream[1], stream'[1], 1)
      BY <1>12, <1>15, <1>18, <3>1
    <3> QED
      BY <1>4, <1>5, <2>1, <3>2 DEF Later
  <2>2. session = NoSession /\ session' = [session EXCEPT !.sm = "body"]
    BY <1>0, <1>1, <1>7, <1>18
  <2>3. session'.sm = "body" /\ session'.total = 0 /\ session'.read = 0
    BY <2>2 DEF NoSession
  <2>4. EndLine
    BY <1>3, <1>7, <1>8, <1>18, <2>1, <2>3 DEF EndLine
  <2> QED
    BY <1>0, <1>1, <1>3, <1>8, <2>4
<1>19. CASE kind \notin {"status", "length", "end"}
  <2>1. total = 0 /\ resp.code = 0
    BY <1>4, <1>5, <1>13, <1>14, <1>19
  <2>2. SkipLine
    BY <1>1, <1>3, <1>7, <1>8, <1>19, <2>1 DEF SkipLine
  <2> QED
    BY <1>0, <1>1, <1>3, <1>7, <1>8, <1>19, <2>2
<1> QED
  BY <1>16, <1>17, <1>18, <1>19

-----------------------------------------------------------------------------
(* The session and the stream agree. *)

\* Places of a call where total may not be 0.
Late == {"header", "body", "finish", "dec", "crashed"}

\* A step that leaves the session alone.
LEMMA BodyKept ==
  ASSUME Inv, BodyInv, UNCHANGED session, total' \in {0, total},
         pc' = "finish" => session.sm = "header", pc' \notin Late => total' = 0,
         \/ UNCHANGED <<stream, serving, owed>>
         \/ stream' = <<>> /\ NoMore'
         \/ stream # <<>> /\ stream' # <<>> /\ stream'[1] = stream[1]
         \/ stream = <<>> /\ ~NoMore
  PROVE  BodyInv'
<1>0. session.total \in Nat /\ session.read \in Nat /\ total \in Nat
  BY Facts
<1>1. session.sm = "body" /\ total' # 0 => session.total \in {0, total'} /\ session.read = 0
  BY DEF BodyInv
<1>2. ASSUME session.sm = "body", session.read < BodyTotal'
      PROVE  GoesOn(session.read + 4, BodyTotal)'
  <2>1. BodyTotal' = BodyTotal
    BY <1>0, <1>2 DEF BodyInv, BodyTotal
  <2>2. GoesOn(session.read + 4, BodyTotal)
    BY <1>2, <2>1 DEF BodyInv
  <2>3. IF stream = <<>> THEN NoMore
        ELSE stream[1].at = session.read + 4 /\ stream[1].n = BodyTotal /\ stream[1].left = "all"
    BY <2>2 DEF GoesOn
  <2>4. IF stream' = <<>> THEN NoMore'
        ELSE stream'[1].at = session.read + 4 /\ stream'[1].n = BodyTotal /\ stream'[1].left = "all"
    BY <2>3 DEF NoMore
  <2> QED
    BY <2>1, <2>4 DEF GoesOn
<1> QED
  BY <1>1, <1>2 DEF BodyInv, Late

\* A session that starts afresh, or has not come to a body.
LEMMA BodyNew ==
  ASSUME session'.sm = "header", pc' \notin Late => total' = 0
  PROVE  BodyInv'
BY DEF BodyInv, Late

\* _core_http_recv_body notes the length of the body.
LEMMA BodyBegun ==
  ASSUME Inv, BodyInv, session' = Begun, total' \in {0, total}, pc' \in {"dec", "read"}, pc' = "read" => total' = 0,
         UNCHANGED <<stream, serving, owed>> \/ (stream' = <<>> /\ NoMore')
  PROVE  BodyInv'
<1>0. session.total \in Nat /\ session.read \in Nat /\ total \in Nat
  BY Facts
<1>1. session'.sm = session.sm /\ session'.read = session.read /\ session'.total = BodyTotal
  BY BegunFacts
<1>2. BodyTotal' = BodyTotal
  BY <1>0, <1>1 DEF BodyTotal
<1>3. session.sm = "body" /\ total' # 0 => session'.total = total' /\ session'.read = 0
  BY <1>1 DEF BodyInv, BodyTotal
<1>4. session.sm = "body" /\ session.read < BodyTotal => GoesOn(session.read + 4, BodyTotal)'
  <2>1. SUFFICES ASSUME GoesOn(session.read + 4, BodyTotal)
                 PROVE  GoesOn(session.read + 4, BodyTotal)'
    BY DEF BodyInv
  <2> QED
    BY <1>1, <1>2, <2>1 DEF GoesOn, NoMore
<1> QED
  BY <1>1, <1>2, <1>3, <1>4 DEF BodyInv

\* What BodyChunk finds: the units it reads are units of the body in hand.
LEMMA ChunkView ==
  ASSUME Inv, StreamInv, BodyInv, NEW n \in 1 .. BufferMax, BodyChunk(n)
  PROVE  /\ session.sm = "body" /\ pc = "body" /\ BodyTotal \in Nat
         /\ n \in 1 .. Len(stream) /\ stream # <<>> /\ session.read + n <= BodyTotal
         /\ stream[1].at = session.read + 4 /\ stream[1].n = BodyTotal /\ stream[1].left = "all"
         /\ session'.sm = "body" /\ session'.read = session.read + n /\ session'.total = BodyTotal
         /\ total' = 0 /\ pc' = "read" /\ BodyTotal' = BodyTotal
         /\ stream' = SubSeq(stream, n + 1, Len(stream)) /\ UNCHANGED <<serving, owed>>
         /\ session.read + n < BodyTotal =>
              IF stream' = <<>> THEN NoMore' ELSE Later(stream[1], stream'[1], n)
<1>0. /\ session.total \in Nat /\ session.read \in Nat /\ total \in Nat /\ Len(stream) \in Nat
      /\ pc = "body" => session.sm = "body"
      /\ pc = "body" /\ total # 0 => session.read = 0
  BY Facts
<1>1. /\ pc = "body" /\ session.total + total # 0 /\ Remaining # 0 /\ n <= Remaining /\ n <= Len(stream)
      /\ session' = [Begun EXCEPT !.read = @ + n] /\ stream' = SubSeq(stream, n + 1, Len(stream))
      /\ total' = 0 /\ pc' = "read" /\ UNCHANGED <<serving, owed>>
  BY DEF BodyChunk, InBody, Drop
<1>2. n \in Nat \ {0} /\ n \in 1 .. Len(stream) /\ stream # <<>>
  BY <1>0, <1>1, HttpAssumption
<1>3. BodyTotal \in Nat /\ session.read + n <= BodyTotal /\ session.read < BodyTotal
  <2>1. CASE total # 0
    BY <1>0, <1>1, <1>2, <2>1 DEF Remaining, BodyTotal
  <2>2. CASE total = 0
    BY <1>0, <1>1, <1>2, <2>2 DEF Remaining, BodyTotal
  <2> QED
    BY <2>1, <2>2
<1>4. GoesOn(session.read + 4, BodyTotal)
  BY <1>0, <1>1, <1>3 DEF BodyInv
<1>5. stream[1].at = session.read + 4 /\ stream[1].n = BodyTotal /\ stream[1].left = "all"
  BY <1>2, <1>4 DEF GoesOn
<1>6. session'.sm = "body" /\ session'.read = session.read + n /\ session'.total = BodyTotal
  <2>1. session \in [sm : {"header", "body"}, total : 0 .. MaxBody, read : 0 .. MaxBody]
    BY DEF Inv, Types, SessionTypes
  <2>2. Begun = [sm |-> session.sm, total |-> BodyTotal, read |-> session.read]
    BY <2>1 DEF Begun, BodyTotal
  <2> QED
    BY <1>0, <1>1, <2>2
<1>7. BodyTotal' = BodyTotal
  BY <1>1, <1>6 DEF BodyTotal
<1>8. ASSUME session.read + n < BodyTotal
      PROVE  IF stream' = <<>> THEN NoMore' ELSE Later(stream[1], stream'[1], n)
  <2>1. stream[1].at + n <= stream[1].n + 3
    BY <1>0, <1>2, <1>3, <1>5, <1>8
  <2> QED
    BY <1>1, <1>2, <2>1, NextPart
<1> QED
  BY <1>0, <1>1, <1>2, <1>3, <1>5, <1>6, <1>7, <1>8

LEMMA BodyNext ==
  ASSUME Inv, StreamInv, BodyInv, HeaderInv, [Next]_vars
  PROVE  BodyInv'
<1>0. /\ session.sm \in {"header", "body"}
      /\ pc = "header" => session.sm = "header"
      /\ pc = "body" => session.sm = "body"
  BY Facts
<1>a. pc \notin Late => total = 0
  BY DEF BodyInv, Late
<1>1. ASSUME NEW f \in {"auth", "send", "recv"}, Call(f)
      PROVE  BodyInv'
  <2>1. pc = "idle" /\ pc' = "inc" /\ UNCHANGED <<session, total, stream, serving, owed>>
    BY <1>1 DEF Call, conn, call
  <2> QED
    BY <1>a, <2>1, BodyKept DEF Late
<1>2. CASE ExecInc \/ Crash
  <2>1. /\ UNCHANGED <<session, total, stream, serving, owed>>
        /\ (pc = "inc" /\ pc' \in {"read", "connect"}) \/ pc' = "crashed"
    BY <1>2 DEF ExecInc, Crash, conn, call
  <2> QED
    BY <1>a, <2>1, BodyKept DEF Late
<1>3. CASE ExecDec \/ TimeUp
  <2>1. /\ UNCHANGED <<session, stream, serving, owed>> /\ total' \in {0, total}
        /\ (pc' = "idle" /\ total' = 0) \/ pc' = "dec"
    BY <1>3 DEF ExecDec, TimeUp, Return, conn, call
  <2> QED
    BY <2>1, BodyKept DEF Late
<1>4. CASE Connect
  <2>1. /\ pc = "connect" /\ pc' \in {"request", "dec"} /\ UNCHANGED <<session, total>>
        /\ UNCHANGED <<stream, serving, owed>> \/ (stream' = <<>> /\ owed' = <<>>)
    BY <1>4 DEF Connect, Fails, Close, conn, call
  <2>2. UNCHANGED <<stream, serving, owed>> \/ (stream' = <<>> /\ NoMore')
    BY <2>1 DEF NoMore
  <2> QED
    BY <1>a, <2>1, <2>2, BodyKept DEF Late
<1>5. CASE RequestFails
  <2>1. pc' = "dec" /\ (session' = NoSession \/ UNCHANGED <<session, total, stream, serving, owed>>)
    BY <1>5 DEF RequestFails, Fails, conn, call
  <2>2. CASE session' = NoSession
    BY <2>1, <2>2, BodyNew, NoneFacts DEF Late
  <2>3. CASE UNCHANGED <<session, total, stream, serving, owed>>
    BY <2>1, <2>3, BodyKept DEF Late
  <2> QED
    BY <2>1, <2>2, <2>3
<1>6. CASE Request
  <2>1. session' = NoSession /\ total' = total /\ pc = "request"
    BY <1>6 DEF Request, call
  <2>2. total' = 0
    BY <1>a, <2>1 DEF Late
  <2> QED
    BY <2>1, <2>2, BodyNew, NoneFacts
<1>7. CASE RecvStart
  <2>1. pc = "read" /\ pc' = session.sm /\ total' = 0 /\ UNCHANGED <<session, stream, serving, owed>>
    BY <1>7 DEF RecvStart, conn
  <2> QED
    BY <1>0, <2>1, BodyKept
<1>8. ASSUME NEW k \in 0 .. Len(stream), HeaderLine(k)
      PROVE  BodyInv'
  <2>1. session.sm = "header" /\ ((UNCHANGED session /\ (SkipLine \/ StatusLine \/ LengthLine)) \/ EndLine)
    BY <1>8, HeaderView
  <2>2. CASE UNCHANGED session /\ (SkipLine \/ StatusLine \/ LengthLine)
    <3>1. pc' \in Late
      BY <2>2 DEF SkipLine, StatusLine, LengthLine, Late
    <3> QED
      BY <2>1, <2>2, <3>1, BodyNew
  <2>3. CASE EndLine
    <3>1. pc' = "body" /\ session'.sm = "body" /\ session'.total = 0 /\ session'.read = 0 /\ total' = total /\ total \in Nat
      BY <2>3, Facts DEF EndLine
    <3>2. BodyTotal' = total
      BY <3>1 DEF BodyTotal
    <3>3. ASSUME 0 < total
          PROVE  GoesOn(session.read + 4, BodyTotal)'
      <4>1. IF stream' = <<>> THEN NoMore' ELSE stream'[1].at = 4 /\ stream'[1].n = total /\ stream'[1].left = "all"
        BY <2>3, <3>3 DEF EndLine
      <4> QED
        BY <3>1, <3>2, <4>1 DEF GoesOn
    <3> QED
      BY <3>1, <3>2, <3>3 DEF BodyInv
  <2> QED
    BY <2>1, <2>2, <2>3
<1>9. ASSUME NEW k \in 0 .. Len(stream), HeaderGivesUp(k)
      PROVE  BodyInv'
  <2>1. pc = "header" /\ pc' = "dec" /\ UNCHANGED session
    BY <1>9 DEF HeaderGivesUp, Fails
  <2> QED
    BY <1>0, <2>1, BodyNew DEF Late
<1>10. CASE BodyEmpty \/ BodyFinished
  <2>1. session' = NoSession /\ pc' \in {"dec", "finish"}
    BY <1>10 DEF BodyEmpty, BodyFinished, Fails
  <2> QED
    BY <2>1, BodyNew, NoneFacts DEF Late
<1>11. CASE RecvError
  <2>1. /\ stream' = <<>> /\ serving' = FALSE /\ pc' = "dec" /\ UNCHANGED total
        /\ UNCHANGED session \/ session' = Begun
    BY <1>11 DEF RecvError, Close, Fails, call
  <2>2. NoMore'
    BY <2>1 DEF NoMore
  <2>3. CASE UNCHANGED session
    BY <2>1, <2>2, <2>3, BodyKept DEF Late
  <2>4. CASE session' = Begun
    BY <2>1, <2>2, <2>4, BodyBegun
  <2> QED
    BY <2>1, <2>3, <2>4
<1>12. CASE BodyNoMemory \/ BodySilent
  <2>1. /\ session' = Begun /\ UNCHANGED <<stream, serving, owed>>
        /\ (pc' = "dec" /\ UNCHANGED total) \/ (pc' = "read" /\ total' = 0)
    BY <1>12 DEF BodyNoMemory, BodySilent, Fails, conn, call
  <2> QED
    BY <2>1, BodyBegun
<1>13. ASSUME NEW n \in 1 .. BufferMax, BodyChunk(n)
       PROVE  BodyInv'
  <2>0. session.read \in Nat /\ n \in Nat
    BY Facts, HttpAssumption
  <2>1. /\ session'.sm = "body" /\ session'.read = session.read + n /\ total' = 0 /\ pc' = "read" /\ BodyTotal' = BodyTotal
        /\ stream[1].at = session.read + 4 /\ stream[1].n = BodyTotal
        /\ session.read + n < BodyTotal => IF stream' = <<>> THEN NoMore' ELSE Later(stream[1], stream'[1], n)
    BY <1>13, ChunkView
  <2>2. ASSUME session.read + n < BodyTotal
        PROVE  GoesOn(session.read + 4, BodyTotal)'
    <3>1. CASE stream' = <<>>
      BY <2>1, <2>2, <3>1 DEF GoesOn
    <3>2. CASE stream' # <<>>
      <4>1. stream'[1].at = session'.read + 4 /\ stream'[1].n = BodyTotal' /\ stream'[1].left = "all"
        BY <2>0, <2>1, <2>2, <3>2 DEF Later
      <4> QED
        BY <3>2, <4>1 DEF GoesOn
    <3> QED
      BY <3>1, <3>2
  <2> QED
    BY <2>1, <2>2 DEF BodyInv
<1>14. CASE AuthFinish \/ RecvFinish
  <2>1. pc' = "dec" /\ UNCHANGED <<session, total, stream, serving, owed>>
    BY <1>14 DEF AuthFinish, RecvFinish, conn, call
  <2> QED
    BY <2>1, BodyKept DEF Late
<1>15. CASE Deinit
  <2>1. UNCHANGED <<session, total, pc>>
    BY <1>15, DeinitFrame DEF call
  <2>2. pc = "finish" => session.sm = "header"
    BY DEF BodyInv
  <2> QED
    BY <1>a, <1>15, <2>1, <2>2, DeinitView, BodyKept
<1>16. CASE Server
  <2>1. UNCHANGED <<session, total, pc>>
    BY <1>16, ServerFrame DEF call
  <2>2. pc = "finish" => session.sm = "header"
    BY DEF BodyInv
  <2> QED
    BY <1>a, <1>16, <2>1, <2>2, ServerView, BodyKept
<1>17. CASE UNCHANGED vars
  <2>1. UNCHANGED <<session, total, pc, stream, serving, owed>>
    BY <1>17 DEF vars, conn, call
  <2>2. pc = "finish" => session.sm = "header"
    BY DEF BodyInv
  <2> QED
    BY <1>a, <2>1, <2>2, BodyKept
<1> QED
  BY <1>1, <1>2, <1>3, <1>4, <1>5, <1>6, <1>7, <1>8, <1>9, <1>10, <1>11, <1>12, <1>13, <1>14, <1>15, <1>16, <1>17, NextCases
  DEF Reading

-----------------------------------------------------------------------------
(* What a call knows of the header. *)

LEMMA HeaderNext ==
  ASSUME Inv, StreamInv, HeaderInv, [Next]_vars
  PROVE  HeaderInv'
<1>0. /\ session.sm \in {"header", "body"}
      /\ pc \in {"idle", "inc", "connect", "request"} => resp = NoResp
      /\ pc = "body" => session.sm = "body"
  BY Facts
<1>1. CASE pc' \notin {"read", "header"}
  BY <1>1 DEF HeaderInv
<1>2. CASE pc' = "read" /\ resp' = NoResp
  BY <1>2 DEF HeaderInv
<1>3. CASE pc' = "read" /\ session'.sm = "body"
  BY <1>3 DEF HeaderInv
<1>4. ASSUME UNCHANGED <<pc, session, total, resp, dropped>>,
             \/ UNCHANGED <<stream, serving, owed>>
             \/ stream' = <<>> /\ NoMore'
             \/ stream # <<>> /\ stream' # <<>> /\ stream'[1] = stream[1]
             \/ stream = <<>> /\ ~NoMore
      PROVE  HeaderInv'
  <2>1. pc = "header" /\ total # 0 => GoesOn(3, total)'
    <3>1. pc = "header" /\ total # 0 => GoesOn(3, total)
      BY DEF HeaderInv
    <3> QED
      BY <1>4, <3>1 DEF GoesOn, NoMore
  <2>2. pc = "header" /\ resp.code # 0 =>
          IF stream' = <<>> THEN NoMore'
          ELSE stream'[1].at \in {2, 3} /\ stream'[1].code = resp.code /\ stream'[1].left = "all"
    <3>1. pc = "header" /\ resp.code # 0 =>
            IF stream = <<>> THEN NoMore
            ELSE stream[1].at \in {2, 3} /\ stream[1].code = resp.code /\ stream[1].left = "all"
      BY DEF HeaderInv
    <3> QED
      BY <1>4, <3>1 DEF NoMore
  <2> QED
    BY <1>4, <2>1, <2>2 DEF HeaderInv
<1>5. ASSUME NEW f \in {"auth", "send", "recv"}, Call(f)
      PROVE  HeaderInv'
  <2>1. pc' = "inc"
    BY <1>5 DEF Call
  <2> QED
    BY <1>1, <2>1
<1>6. CASE ExecInc
  <2>1. pc = "inc" /\ pc' \in {"read", "connect"} /\ UNCHANGED resp
    BY <1>6 DEF ExecInc, call
  <2> QED
    BY <1>0, <1>1, <1>2, <2>1
<1>7. CASE ExecDec \/ Crash \/ TimeUp \/ Connect \/ RequestFails
  <2>1. pc' \in {"idle", "crashed", "dec", "request"}
    BY <1>7 DEF ExecDec, Crash, TimeUp, Connect, RequestFails, Return, Fails
  <2> QED
    BY <1>1, <2>1
<1>8. CASE Request
  <2>1. pc = "request" /\ pc' \in {"read", "dec"} /\ UNCHANGED resp
    BY <1>8 DEF Request, call
  <2> QED
    BY <1>0, <1>1, <1>2, <2>1
<1>9. CASE RecvStart
  <2>1. pc = "read" /\ pc' = session.sm /\ total' = 0 /\ UNCHANGED <<session, resp>>
    BY <1>9 DEF RecvStart
  <2>2. ASSUME session.sm = "header"
        PROVE  resp'.content = <<>> /\ resp'.total = 0 /\ resp'.code = 0
    BY <2>1, <2>2, NoneFacts DEF HeaderInv
  <2> QED
    BY <1>0, <2>1, <2>2 DEF HeaderInv
<1>10. ASSUME NEW k \in 0 .. Len(stream), HeaderLine(k)
       PROVE  HeaderInv'
  <2>1. resp'.content = <<>> /\ ((UNCHANGED session /\ (SkipLine \/ StatusLine \/ LengthLine)) \/ EndLine)
    BY <1>10, HeaderView
  <2>2. CASE SkipLine
    BY <2>1, <2>2 DEF SkipLine, HeaderInv
  <2>3. CASE StatusLine
    BY <2>1, <2>3 DEF StatusLine, HeaderInv
  <2>4. CASE LengthLine
    BY <2>1, <2>4 DEF LengthLine, HeaderInv, GoesOn
  <2>5. CASE EndLine
    BY <1>1, <2>5 DEF EndLine
  <2> QED
    BY <2>1, <2>2, <2>3, <2>4, <2>5
<1>11. ASSUME NEW k \in 0 .. Len(stream), HeaderGivesUp(k)
       PROVE  HeaderInv'
  <2>1. pc' = "dec"
    BY <1>11 DEF HeaderGivesUp, Fails
  <2> QED
    BY <1>1, <2>1
<1>12. CASE RecvError \/ BodyEmpty \/ BodyFinished \/ BodyNoMemory \/ AuthFinish \/ RecvFinish
  <2>1. pc' \in {"dec", "finish"}
    BY <1>12 DEF RecvError, BodyEmpty, BodyFinished, BodyNoMemory, AuthFinish, RecvFinish, Fails
  <2> QED
    BY <1>1, <2>1
<1>13. CASE BodySilent
  <2>1. pc = "body" /\ pc' = "read" /\ session' = Begun
    BY <1>13 DEF BodySilent, InBody
  <2> QED
    BY <1>0, <1>3, <2>1, BegunFacts
<1>14. ASSUME NEW n \in 1 .. BufferMax, BodyChunk(n)
       PROVE  HeaderInv'
  <2>1. pc = "body" /\ pc' = "read" /\ session' = [Begun EXCEPT !.read = @ + n]
    BY <1>14 DEF BodyChunk, InBody
  <2>2. session'.sm = "body"
    <3>1. session \in [sm : {"header", "body"}, total : 0 .. MaxBody, read : 0 .. MaxBody]
      BY DEF Inv, Types, SessionTypes
    <3> QED
      BY <1>0, <2>1, <3>1 DEF Begun
  <2> QED
    BY <1>3, <2>1, <2>2
<1>15. CASE Deinit
  <2>1. UNCHANGED <<pc, session, total, resp, dropped>>
    BY <1>15, DeinitFrame DEF call
  <2> QED
    BY <1>4, <1>15, <2>1, DeinitView
<1>16. CASE Server
  <2>1. UNCHANGED <<pc, session, total, resp, dropped>>
    BY <1>16, ServerFrame DEF call
  <2> QED
    BY <1>4, <1>16, <2>1, ServerView
<1>17. CASE UNCHANGED vars
  <2>1. UNCHANGED <<pc, session, total, resp, dropped, stream, serving, owed>>
    BY <1>17 DEF vars, conn, call
  <2> QED
    BY <1>4, <2>1
<1> QED
  BY <1>5, <1>6, <1>7, <1>8, <1>9, <1>10, <1>11, <1>12, <1>13, <1>14, <1>15, <1>16, <1>17, NextCases DEF Reading

-----------------------------------------------------------------------------
(* What a call has collected. *)

\* BodyTotal' and the read part of the body are the same; so is the next part.
LEMMA CollectedKept ==
  ASSUME Inv, BodyInv, Collected, session.sm = "body",
         UNCHANGED resp, session'.read = session.read, BodyTotal' = BodyTotal,
         \/ UNCHANGED stream
         \/ stream' = <<>>
         \/ stream # <<>> /\ stream' # <<>> /\ stream'[1] = stream[1]
         \/ stream = <<>> /\ ~NoMore
  PROVE  Collected'
<1>1. session.read < resp.total => ~(stream = <<>> /\ ~NoMore)
  BY DEF Collected, BodyInv, GoesOn
<1>2. session.read < resp.total /\ stream' # <<>> => stream # <<>> /\ stream'[1] = stream[1]
  BY <1>1
<1>3. BodyTotal' = resp'.total /\ Len(resp'.content) <= session'.read
  BY DEF Collected
<1>4. Len(resp'.content) = session'.read => Chain(resp'.content, resp'.total)
  BY DEF Collected
<1>5. Len(resp'.content) = session'.read /\ stream' # <<>> /\ resp'.content # <<>> /\ session'.read < resp'.total =>
        Later(resp'.content[1], stream'[1], session'.read)
  BY <1>2 DEF Collected
<1>6. resp'.code # 0 => Coded(resp'.content, resp'.code) /\
        (stream' # <<>> /\ session'.read < resp'.total => stream'[1].code = resp'.code)
  BY <1>2 DEF Collected
<1> QED
  BY <1>3, <1>4, <1>5, <1>6 DEF Collected

\* Units of the body in hand, kept or left out.
LEMMA ChunkCollected ==
  ASSUME Inv, StreamInv, BodyInv, Collected, NEW n \in 1 .. BufferMax, BodyChunk(n)
  PROVE  Collected'
<1> DEFINE p == SubSeq(stream, 1, n)
           c == resp.content
<1>0. /\ session.read \in Nat /\ n \in Nat \ {0} /\ resp.total \in Nat /\ c \in Seq(Item) /\ Len(c) \in Nat
      /\ stream \in Seq(Item) /\ Len(stream) \in Nat
  BY Facts, HttpAssumption
<1>1. /\ BodyTotal = resp.total /\ n \in 1 .. Len(stream) /\ stream # <<>> /\ session.read + n <= resp.total
      /\ stream[1].at = session.read + 4 /\ stream[1].n = resp.total /\ stream[1].left = "all"
      /\ session'.read = session.read + n /\ BodyTotal' = BodyTotal
      /\ session.read + n < resp.total =>
              IF stream' = <<>> THEN NoMore' ELSE Later(stream[1], stream'[1], n)
  BY ChunkView DEF Collected
<1>2. resp' = resp \/ resp' = [resp EXCEPT !.content = c \o p]
  BY DEF BodyChunk
<1>3. resp'.total = resp.total /\ resp'.code = resp.code /\ (resp'.content = c \/ resp'.content = c \o p)
  <2>1. resp \in [code : {0, 200, 400}, total : 0 .. MaxBody, content : Seq(Item)]
    BY DEF Inv, Types, CallTypes
  <2> HIDE DEF p, c
  <2> QED
    BY <1>2, <2>1 DEF c
<1>4. /\ p \in Seq(Item) /\ Len(p) = n /\ p[1] = stream[1] /\ p # <<>>
      /\ \A i \in 1 .. Len(p) : Later(p[1], p[i], i - 1)
  <2>1. Ordered(stream)
    BY DEF StreamInv
  <2>2. stream[1].at + (n - 1) <= stream[1].n + 3
    BY <1>0, <1>1
  <2>3. p \in Seq(Item) /\ Len(p) = n /\ p[1] = stream[1] /\ \A i \in 1 .. n : Later(stream[1], p[i], i - 1)
    BY <1>1, <2>1, <2>2, Piece
  <2> HIDE DEF p
  <2> QED
    BY <1>0, <2>3
<1>5. /\ c \o p \in Seq(Item) /\ Len(c \o p) = Len(c) + n
      /\ \A i \in 1 .. Len(c) : (c \o p)[i] = c[i]
      /\ \A i \in Len(c) + 1 .. Len(c) + n : i - Len(c) \in 1 .. n /\ (c \o p)[i] = p[i - Len(c)]
  <2>1. /\ c \o p \in Seq(Item) /\ Len(c \o p) = Len(c) + Len(p)
        /\ \A i \in 1 .. Len(c) : (c \o p)[i] = c[i]
        /\ \A i \in Len(c) + 1 .. Len(c) + Len(p) : i - Len(c) \in 1 .. Len(p) /\ (c \o p)[i] = p[i - Len(c)]
    BY <1>0, <1>4, JoinItems
  <2> QED
    BY <1>4, <2>1
<1>6. /\ Len(c) <= session.read
      /\ Len(c) = session.read => Chain(c, resp.total) /\ (c # <<>> => Later(c[1], stream[1], session.read))
      /\ resp.code # 0 => Coded(c, resp.code) /\ stream[1].code = resp.code
  <2>1. session.read < resp.total
    BY <1>0, <1>1
  <2> QED
    BY <1>1, <2>1 DEF Collected
<1> HIDE DEF p, c
<1>7. resp.code # 0 => Coded(c \o p, resp.code)
  <2> SUFFICES ASSUME resp.code # 0, NEW i \in 1 .. Len(c \o p)
               PROVE  (c \o p)[i].code = resp.code
    BY DEF Coded
  <2>1. CASE i \in 1 .. Len(c)
    BY <1>5, <1>6, <2>1 DEF Coded
  <2>2. CASE i \in Len(c) + 1 .. Len(c) + n
    <3>1. i - Len(c) \in 1 .. Len(p) /\ (c \o p)[i] = p[i - Len(c)]
      BY <1>4, <1>5, <2>2
    <3>2. p[i - Len(c)].code = p[1].code
      BY <1>4, <3>1 DEF Later
    <3> QED
      BY <1>4, <1>6, <3>1, <3>2
  <2> QED
    BY <1>0, <1>5, <2>1, <2>2
<1>8. ASSUME Len(c) = session.read
      PROVE  /\ Chain(c \o p, resp.total)
             /\ stream' # <<>> /\ session.read + n < resp.total => Later((c \o p)[1], stream'[1], session.read + n)
  <2>1. IF c = <<>> THEN p[1].at = 4 /\ p[1].n = resp.total ELSE Later(c[1], p[1], Len(c))
    <3>1. CASE c = <<>>
      <4>1. session.read = 0
        BY <1>8, <3>1
      <4> QED
        BY <1>1, <1>4, <3>1, <4>1
    <3>2. CASE c # <<>>
      BY <1>4, <1>6, <1>8, <3>2
    <3> QED
      BY <3>1, <3>2
  <2>2. Chain(c, resp.total)
    BY <1>6, <1>8
  <2>3. /\ Chain(c \o p, resp.total)
        /\ \A b, d : Len(p) = d /\ Later(p[1], b, d) => Later((c \o p)[1], b, Len(c) + d)
    BY <1>0, <1>4, <2>1, <2>2, ChainGrows
  <2>4. stream' # <<>> /\ session.read + n < resp.total => Later(p[1], stream'[1], n)
    BY <1>1, <1>4
  <2> QED
    BY <1>4, <1>8, <2>3, <2>4
<1>9. resp.code # 0 /\ stream' # <<>> /\ session.read + n < resp.total => stream'[1].code = resp.code
  BY <1>1, <1>6 DEF Later
<1>10. CASE resp'.content = c \o p
  <2>1. BodyTotal' = resp'.total /\ Len(resp'.content) <= session'.read
    BY <1>0, <1>1, <1>3, <1>5, <1>6, <1>10
  <2>2. ASSUME Len(resp'.content) = session'.read
        PROVE  /\ Chain(resp'.content, resp'.total)
               /\ stream' # <<>> /\ session'.read < resp'.total => Later(resp'.content[1], stream'[1], session'.read)
    <3>1. Len(c) = session.read
      BY <1>0, <1>1, <1>5, <1>10, <2>2
    <3> QED
      BY <1>1, <1>3, <1>8, <1>10, <3>1
  <2>3. resp'.code # 0 =>
          /\ Coded(resp'.content, resp'.code)
          /\ stream' # <<>> /\ session'.read < resp'.total => stream'[1].code = resp'.code
    BY <1>1, <1>3, <1>7, <1>9, <1>10
  <2> QED
    BY <2>1, <2>2, <2>3 DEF Collected
<1>11. CASE resp'.content = c
  <2>1. BodyTotal' = resp'.total /\ Len(resp'.content) <= session'.read /\ Len(resp'.content) # session'.read
    BY <1>0, <1>1, <1>3, <1>6, <1>11
  <2>2. resp'.code # 0 =>
          /\ Coded(resp'.content, resp'.code)
          /\ stream' # <<>> /\ session'.read < resp'.total => stream'[1].code = resp'.code
    BY <1>1, <1>3, <1>6, <1>9, <1>11
  <2> QED
    BY <2>1, <2>2 DEF Collected
<1> QED
  BY <1>3, <1>10, <1>11

LEMMA ContentNext ==
  ASSUME Inv, StreamInv, BodyInv, HeaderInv, ContentInv, [Next]_vars
  PROVE  ContentInv'
<1>0. /\ session.sm \in {"header", "body"} /\ session.total \in Nat /\ session.read \in Nat /\ total \in Nat
      /\ pc \in {"idle", "inc", "connect", "request"} => resp = NoResp
      /\ pc = "body" => session.sm = "body"
      /\ resp.content \in Seq(Item)
  BY Facts
<1>1. CASE pc' \notin {"read", "body", "finish"}
  BY <1>1 DEF ContentInv
<1>2. CASE resp' = NoResp
  BY <1>2, NoneFacts DEF ContentInv
<1>3. ASSUME UNCHANGED <<pc, session, total, resp>>,
             \/ UNCHANGED stream
             \/ stream' = <<>>
             \/ stream # <<>> /\ stream' # <<>> /\ stream'[1] = stream[1]
             \/ stream = <<>> /\ ~NoMore
      PROVE  ContentInv'
  <2>1. ASSUME pc \in {"read", "body"}, session.sm = "body", resp.total # 0
        PROVE  Collected'
    <3>1. Collected
      BY <2>1 DEF ContentInv
    <3>2. BodyTotal' = BodyTotal
      BY <1>3 DEF BodyTotal
    <3> QED
      BY <1>3, <2>1, <3>1, <3>2, CollectedKept
  <2>2. pc = "finish" /\ resp.total # 0 => Finished'
    BY <1>3 DEF ContentInv, Finished
  <2> QED
    BY <1>3, <2>1, <2>2 DEF ContentInv
<1>4. ASSUME NEW f \in {"auth", "send", "recv"}, Call(f)
      PROVE  ContentInv'
  <2>1. pc' = "inc"
    BY <1>4 DEF Call
  <2> QED
    BY <1>1, <2>1
<1>5. CASE ExecInc \/ Request
  <2>1. pc \in {"inc", "request"} /\ UNCHANGED resp
    BY <1>5 DEF ExecInc, Request, call
  <2> QED
    BY <1>0, <1>2, <2>1
<1>6. CASE ExecDec \/ Crash \/ TimeUp \/ Connect \/ RequestFails
  <2>1. pc' \in {"idle", "crashed", "dec", "request"}
    BY <1>6 DEF ExecDec, Crash, TimeUp, Connect, RequestFails, Return, Fails
  <2> QED
    BY <1>1, <2>1
<1>7. CASE RecvStart
  <2>1. pc = "read" /\ pc' = session.sm /\ total' = 0 /\ UNCHANGED <<session, resp, stream>>
    BY <1>7 DEF RecvStart, conn
  <2>2. total = 0
    BY <2>1 DEF BodyInv
  <2>3. ASSUME session.sm = "body", resp.total # 0
        PROVE  Collected'
    <3>1. Collected
      BY <2>1, <2>3 DEF ContentInv
    <3>2. BodyTotal' = BodyTotal
      BY <2>1, <2>2 DEF BodyTotal
    <3> QED
      BY <2>1, <2>3, <3>1, <3>2, CollectedKept
  <2> QED
    BY <1>0, <2>1, <2>3 DEF ContentInv
<1>8. ASSUME NEW k \in 0 .. Len(stream), HeaderLine(k)
      PROVE  ContentInv'
  <2>1. resp'.content = <<>> /\ ((UNCHANGED session /\ (SkipLine \/ StatusLine \/ LengthLine)) \/ EndLine)
    BY <1>8, HeaderView
  <2>2. CASE SkipLine \/ StatusLine \/ LengthLine
    <3>1. pc' = "header"
      BY <2>2 DEF SkipLine, StatusLine, LengthLine
    <3> QED
      BY <1>1, <3>1
  <2>3. CASE EndLine
    <3>1. ASSUME resp'.total # 0
          PROVE  Collected'
      <4>0. resp'.total = total /\ total # 0
        BY <2>3, <3>1 DEF EndLine
      <4>1. BodyTotal' = resp'.total /\ session'.read = 0 /\ resp'.code = resp.code
        BY <2>3, <4>0 DEF EndLine, BodyTotal
      <4>2. Len(resp'.content) = 0 /\ Chain(resp'.content, resp'.total) /\ Coded(resp'.content, resp'.code)
        BY <2>1 DEF Chain, Coded
      <4>3. resp.code # 0 /\ stream' # <<>> => stream'[1].code = resp.code
        BY <2>3, <4>0 DEF EndLine
      <4> QED
        BY <2>1, <4>1, <4>2, <4>3 DEF Collected
    <3>2. pc' = "body"
      BY <2>3 DEF EndLine
    <3> QED
      BY <3>1, <3>2 DEF ContentInv
  <2> QED
    BY <2>1, <2>2, <2>3
<1>9. ASSUME NEW k \in 0 .. Len(stream), HeaderGivesUp(k)
      PROVE  ContentInv'
  <2>1. pc' = "dec"
    BY <1>9 DEF HeaderGivesUp, Fails
  <2> QED
    BY <1>1, <2>1
<1>10. CASE RecvError \/ BodyEmpty \/ BodyNoMemory \/ AuthFinish \/ RecvFinish
  <2>1. pc' = "dec"
    BY <1>10 DEF RecvError, BodyEmpty, BodyNoMemory, AuthFinish, RecvFinish, Fails
  <2> QED
    BY <1>1, <2>1
<1>11. CASE BodyFinished
  <2>1. pc = "body" /\ Remaining = 0 /\ pc' = "finish" /\ UNCHANGED resp
    BY <1>11 DEF BodyFinished, InBody, call
  <2>2. BodyTotal = session.read
    BY <1>0, <2>1 DEF Remaining, BodyTotal
  <2>3. ASSUME resp.total # 0
        PROVE  Finished'
    <3>1. Collected
      BY <1>0, <2>1, <2>3 DEF ContentInv
    <3> QED
      BY <2>1, <2>2, <3>1 DEF Collected, Finished
  <2> QED
    BY <2>1, <2>3 DEF ContentInv
<1>12. CASE BodySilent
  <2>1. pc = "body" /\ pc' = "read" /\ session' = Begun /\ total' = 0 /\ UNCHANGED <<resp, stream>>
    BY <1>12 DEF BodySilent, InBody, conn
  <2>2. session'.sm = "body" /\ session'.read = session.read /\ BodyTotal' = BodyTotal
    BY <1>0, <2>1, BegunFacts DEF BodyTotal
  <2>3. ASSUME resp.total # 0
        PROVE  Collected'
    <3>1. Collected
      BY <1>0, <2>1, <2>3 DEF ContentInv
    <3> QED
      BY <1>0, <2>1, <2>2, <3>1, CollectedKept
  <2> QED
    BY <2>1, <2>3 DEF ContentInv
<1>13. ASSUME NEW n \in 1 .. BufferMax, BodyChunk(n)
       PROVE  ContentInv'
  <2>1. pc = "body" /\ pc' = "read"
    BY <1>13 DEF BodyChunk, InBody
  <2>2. resp'.total = resp.total
    <3>1. resp \in [code : {0, 200, 400}, total : 0 .. MaxBody, content : Seq(Item)]
      BY DEF Inv, Types, CallTypes
    <3>2. resp' = resp \/ resp' = [resp EXCEPT !.content = resp.content \o SubSeq(stream, 1, n)]
      BY <1>13 DEF BodyChunk
    <3> QED
      BY <3>1, <3>2
  <2>3. ASSUME resp.total # 0
        PROVE  Collected'
    <3>1. Collected
      BY <1>0, <2>1, <2>3 DEF ContentInv
    <3> QED
      BY <1>13, <3>1, ChunkCollected
  <2> QED
    BY <2>1, <2>2, <2>3 DEF ContentInv
<1>14. CASE Deinit
  <2>1. UNCHANGED <<pc, session, total, resp>>
    BY <1>14, DeinitFrame DEF call
  <2>2. UNCHANGED stream \/ stream' = <<>>
    BY <1>14, DeinitView
  <2> QED
    BY <1>3, <2>1, <2>2
<1>15. CASE Server
  <2>1. UNCHANGED <<pc, session, total, resp>>
    BY <1>15, ServerFrame DEF call
  <2> QED
    BY <1>3, <1>15, <2>1, ServerView
<1>16. CASE UNCHANGED vars
  <2>1. UNCHANGED <<pc, session, total, resp, stream>>
    BY <1>16 DEF vars, conn, call
  <2> QED
    BY <1>3, <2>1
<1> QED
  BY <1>4, <1>5, <1>6, <1>7, <1>8, <1>9, <1>10, <1>11, <1>12, <1>13, <1>14, <1>15, <1>16, NextCases DEF Reading

LEMMA GaveNext ==
  ASSUME Inv, StreamInv, BodyInv, HeaderInv, GaveInv, [Next]_vars
  PROVE  GaveInv'
<1>0. /\ session.sm \in {"header", "body"} /\ session.total \in Nat /\ session.read \in Nat /\ total \in Nat
      /\ pc = "body" => session.sm = "body"
      /\ resp.content \in Seq(Item) /\ resp.total \in Nat
  BY Facts
<1>1. CASE gaveup' = TRUE \/ dropped' = TRUE \/ pc' = "crashed"
  BY <1>1 DEF GaveInv
<1>2. CASE session'.sm = "header" /\ pc' # "finish"
  BY <1>2 DEF GaveInv
<1>3. CASE UNCHANGED <<pc, session, total, resp, gaveup, dropped>>
  BY <1>3 DEF GaveInv, BodyTotal
<1>4. CASE pc \notin {"read", "body", "crashed"} /\ pc' # "finish" /\ UNCHANGED <<session, gaveup, dropped>>
  BY <1>0, <1>4 DEF GaveInv
<1>5. ASSUME NEW f \in {"auth", "send", "recv"}, Call(f)
      PROVE  GaveInv'
  <2>1. pc = "idle" /\ pc' = "inc" /\ UNCHANGED <<session, gaveup, dropped>>
    BY <1>5 DEF Call
  <2> QED
    BY <1>4, <2>1
<1>6. CASE ExecInc \/ ExecDec
  <2>1. pc \in {"inc", "dec"} /\ pc' \in {"read", "connect", "idle"} /\ UNCHANGED <<session, gaveup, dropped>>
    BY <1>6 DEF ExecInc, ExecDec, Return
  <2> QED
    BY <1>4, <2>1
<1>7. CASE Crash \/ TimeUp \/ RequestFails
  <2>1. gaveup' = TRUE \/ pc' = "crashed"
    BY <1>7 DEF Crash, TimeUp, RequestFails, Fails
  <2> QED
    BY <1>1, <2>1
<1>8. CASE Connect
  <2>1. gaveup' = TRUE \/ (pc = "connect" /\ pc' = "request" /\ UNCHANGED <<session, gaveup, dropped>>)
    BY <1>8 DEF Connect, Fails
  <2> QED
    BY <1>1, <1>4, <2>1
<1>9. CASE Request
  <2>1. session' = NoSession /\ pc' \in {"read", "dec"}
    BY <1>9 DEF Request
  <2> QED
    BY <1>2, <2>1, NoneFacts
<1>10. CASE RecvStart
  <2>1. pc = "read" /\ pc' = session.sm /\ total' = 0 /\ UNCHANGED <<session, resp, gaveup, dropped>>
    BY <1>10 DEF RecvStart
  <2>2. total = 0
    BY <2>1 DEF BodyInv
  <2> QED
    BY <1>0, <2>1, <2>2 DEF GaveInv, BodyTotal
<1>11. ASSUME NEW k \in 0 .. Len(stream), HeaderLine(k)
       PROVE  GaveInv'
  <2>1. /\ resp'.content = <<>> /\ session.sm = "header"
        /\ (UNCHANGED session /\ (SkipLine \/ StatusLine \/ LengthLine)) \/ EndLine
    BY <1>11, HeaderView
  <2>2. CASE UNCHANGED session /\ (SkipLine \/ StatusLine \/ LengthLine)
    <3>1. pc' = "header"
      BY <2>2 DEF SkipLine, StatusLine, LengthLine
    <3> QED
      BY <1>2, <2>1, <2>2, <3>1
  <2>3. CASE EndLine
    <3>1. pc' = "body" /\ session'.read = 0 /\ (resp'.total = BodyTotal' \/ dropped')
      BY <2>3 DEF EndLine, BodyTotal
    <3>2. Len(resp'.content) = 0
      BY <2>1
    <3> QED
      BY <3>1, <3>2 DEF GaveInv
  <2> QED
    BY <2>1, <2>2, <2>3
<1>12. ASSUME NEW k \in 0 .. Len(stream), HeaderGivesUp(k)
       PROVE  GaveInv'
  <2>1. gaveup' = TRUE
    BY <1>12 DEF HeaderGivesUp, Fails
  <2> QED
    BY <1>1, <2>1
<1>13. CASE RecvError \/ BodyEmpty \/ BodyNoMemory
  <2>1. gaveup' = TRUE
    BY <1>13 DEF RecvError, BodyEmpty, BodyNoMemory, Fails
  <2> QED
    BY <1>1, <2>1
<1>14. CASE BodyFinished
  <2>1. pc = "body" /\ Remaining = 0 /\ pc' = "finish" /\ session' = NoSession /\ UNCHANGED <<resp, gaveup, dropped>>
    BY <1>14 DEF BodyFinished, InBody, call
  <2>2. BodyTotal = session.read
    BY <1>0, <2>1 DEF Remaining, BodyTotal
  <2>3. ~gaveup /\ ~dropped => Len(resp'.content) = resp'.total
    BY <1>0, <2>1, <2>2 DEF GaveInv
  <2> QED
    BY <2>1, <2>3, NoneFacts DEF GaveInv
<1>15. CASE BodySilent
  <2>1. pc = "body" /\ pc' = "read" /\ session' = Begun /\ total' = 0 /\ UNCHANGED <<resp, gaveup, dropped>>
    BY <1>15 DEF BodySilent, InBody
  <2>2. session'.sm = "body" /\ session'.read = session.read /\ BodyTotal' = BodyTotal
    BY <1>0, <2>1, BegunFacts DEF BodyTotal
  <2> QED
    BY <1>0, <2>1, <2>2 DEF GaveInv
<1>16. ASSUME NEW n \in 1 .. BufferMax, BodyChunk(n)
       PROVE  GaveInv'
  <2>0. pc = "body" /\ pc' = "read" /\ n \in 1 .. Len(stream) /\ session'.read = session.read + n /\ BodyTotal' = BodyTotal
    BY <1>16, ChunkView
  <2>1. /\ UNCHANGED gaveup
        /\ \/ dropped' = TRUE
           \/ resp' = [resp EXCEPT !.content = resp.content \o SubSeq(stream, 1, n)] /\ UNCHANGED dropped
    BY <1>16 DEF BodyChunk
  <2>2. CASE resp' = [resp EXCEPT !.content = resp.content \o SubSeq(stream, 1, n)] /\ UNCHANGED <<gaveup, dropped>>
    <3>1. resp'.content = resp.content \o SubSeq(stream, 1, n) /\ resp'.total = resp.total
      <4>1. resp \in [code : {0, 200, 400}, total : 0 .. MaxBody, content : Seq(Item)]
        BY DEF Inv, Types, CallTypes
      <4> QED
        BY <2>2, <4>1
    <3>2. stream \in Seq(Item) /\ n \in 0 .. Len(stream)
      BY <2>0, Facts
    <3>3. SubSeq(stream, 1, n) \in Seq(Item) /\ Len(SubSeq(stream, 1, n)) = n
      BY <3>2, DropItems
    <3>4. Len(resp'.content) = Len(resp.content) + n
      BY <1>0, <3>1, <3>3, JoinItems
    <3>5. ~gaveup /\ ~dropped => Len(resp.content) = session.read /\ resp.total = BodyTotal
      BY <1>0, <2>0 DEF GaveInv
    <3> QED
      BY <2>0, <2>2, <3>1, <3>4, <3>5 DEF GaveInv
  <2> QED
    BY <1>1, <2>1, <2>2
<1>17. CASE AuthFinish \/ RecvFinish
  <2>1. pc = "finish" /\ pc' = "dec" /\ UNCHANGED session
    BY <1>17 DEF AuthFinish, RecvFinish
  <2>2. session.sm = "header"
    BY <2>1 DEF BodyInv
  <2> QED
    BY <1>2, <2>1, <2>2
<1>18. CASE Deinit
  <2>1. UNCHANGED <<pc, session, total, resp, gaveup, dropped>>
    BY <1>18, DeinitFrame DEF call
  <2> QED
    BY <1>3, <2>1
<1>19. CASE Server
  <2>1. UNCHANGED <<pc, session, total, resp, gaveup, dropped>>
    BY <1>19, ServerFrame DEF call
  <2> QED
    BY <1>3, <2>1
<1>20. CASE UNCHANGED vars
  <2>1. UNCHANGED <<pc, session, total, resp, gaveup, dropped>>
    BY <1>20 DEF vars, call
  <2> QED
    BY <1>3, <2>1
<1> QED
  BY <1>5, <1>6, <1>7, <1>8, <1>9, <1>10, <1>11, <1>12, <1>13, <1>14, <1>15, <1>16, <1>17, <1>18, <1>19, <1>20, NextCases DEF Reading

-----------------------------------------------------------------------------
(* What is delivered, and the token. *)

\* A response that ends with as many units as its header announced.
LEMMA FinishedWhole ==
  ASSUME Inv, ContentInv, pc = "finish", resp.content # <<>>, Len(resp.content) = resp.total
  PROVE  Whole(resp.content) /\ (resp.code # 0 => resp.content[1].code = resp.code)
<1>1. resp.content \in Seq(Item) /\ Len(resp.content) \in Nat /\ Len(resp.content) # 0
  BY Facts
<1>2. Finished
  BY <1>1 DEF ContentInv
<1>3. Whole(resp.content)
  BY <1>1, <1>2, ChainWhole DEF Finished
<1>4. 1 \in 1 .. Len(resp.content)
  BY <1>1
<1> QED
  BY <1>2, <1>3, <1>4 DEF Finished, Coded

LEMMA WholeNext ==
  ASSUME Inv, ContentInv, GaveInv, WholeInv, [Next]_vars
  PROVE  WholeInv'
<1>1. CASE UNCHANGED delivered /\ (UNCHANGED token \/ token' = <<>>)
  BY <1>1 DEF WholeInv, TokenWhole
<1>2. ASSUME pc = "finish", Deliver
      PROVE  delivered'.content # <<>> /\ ~delivered'.gaveup /\ ~delivered'.dropped => Whole(delivered'.content)
  <2>1. delivered'.content = resp.content /\ delivered'.gaveup = gaveup /\ delivered'.dropped = dropped
    BY <1>2 DEF Deliver
  <2>2. ~gaveup /\ ~dropped => Len(resp.content) = resp.total
    BY <1>2 DEF GaveInv
  <2> QED
    BY <1>2, <2>1, <2>2, FinishedWhole
<1>3. CASE RecvFinish
  <2>1. pc = "finish" /\ Deliver /\ UNCHANGED token
    BY <1>3 DEF RecvFinish
  <2> QED
    BY <1>2, <2>1 DEF WholeInv, TokenWhole
<1>4. CASE AuthFinish
  <2>1. /\ pc = "finish"
        /\ \/ AuthAccepted /\ resp.content[1].api = "auth" /\ token' = resp.content /\ Deliver
           \/ UNCHANGED delivered /\ (UNCHANGED token \/ token' = <<>>)
    BY <1>4 DEF AuthFinish
  <2>2. CASE AuthAccepted /\ resp.content[1].api = "auth" /\ token' = resp.content /\ Deliver
    <3>1. resp.code = 200 /\ resp.content # <<>> /\ Len(resp.content) = resp.total
      BY <2>2 DEF AuthAccepted
    <3>2. Whole(resp.content) /\ resp.content[1].code = 200
      BY <2>1, <3>1, FinishedWhole
    <3> QED
      BY <1>2, <2>1, <2>2, <3>2 DEF WholeInv, TokenWhole
  <2> QED
    BY <1>1, <2>1, <2>2
<1>5. CASE Reading /\ ~AuthFinish /\ ~RecvFinish
  <2>1. UNCHANGED <<delivered, token>>
    BY <1>5 DEF Reading, RecvStart, RecvError, HeaderLine, HeaderGivesUp, BodyEmpty, BodyFinished, BodyNoMemory, BodySilent, BodyChunk
  <2> QED
    BY <1>1, <2>1
<1>6. CASE Deinit
  <2>1. UNCHANGED delivered /\ (UNCHANGED token \/ token' = <<>>)
    BY <1>6, DeinitFrame DEF Deinit, DeinitDisable, DeinitWait, DeinitTest, DeinitTear, CoreDeinitWait, CoreDeinitTest, CoreDeinitFree
  <2> QED
    BY <1>1, <2>1
<1>7. ASSUME NEW f \in {"auth", "send", "recv"}, Call(f)
      PROVE  WholeInv'
  BY <1>1, <1>7 DEF Call
<1>8. CASE ExecInc \/ ExecDec \/ Crash \/ Connect \/ RequestFails \/ Request \/ TimeUp \/ Server \/ UNCHANGED vars
  <2>1. UNCHANGED <<delivered, token>>
    BY <1>8, ServerFrame DEF ExecInc, ExecDec, Crash, Connect, RequestFails, Request, TimeUp, vars
  <2> QED
    BY <1>1, <2>1
<1> QED
  BY <1>3, <1>4, <1>5, <1>6, <1>7, <1>8, NextCases

LEMMA AnswerInvAlways == Spec => [](Inv /\ AnswerInv)
<1>1. Init => AnswerInv
  <2> SUFFICES ASSUME Init
               PROVE  AnswerInv
    OBVIOUS
  <2>1. StreamInv
    BY NoneOrdered DEF Init, StreamInv
  <2>2. BodyInv /\ HeaderInv /\ ContentInv /\ GaveInv
    BY NoneFacts DEF Init, BodyInv, HeaderInv, ContentInv, GaveInv
  <2>3. WholeInv
    BY DEF Init, WholeInv, TokenWhole
  <2> QED
    BY <2>1, <2>2, <2>3 DEF AnswerInv
<1>2. Inv /\ AnswerInv /\ [Next]_vars => AnswerInv'
  BY StreamNext, BodyNext, HeaderNext, ContentNext, GaveNext, WholeNext DEF AnswerInv
<1> QED
  BY <1>1, <1>2, InvAlways, PTL DEF Spec

\* The token of aiot_http_auth comes from the whole body of one successful
\* answer to an authentication, wherever earlier calls have left the stream
\* and whatever part of a body the response handler had no memory for.
THEOREM TokenWholeAlways == Spec => []TokenWhole
<1>1. AnswerInv => TokenWhole
  BY DEF AnswerInv, WholeInv
<1> QED
  BY <1>1, AnswerInvAlways, PTL

\* A body given to the application answers its last request, unless the
\* connection is behind; and it is whole, unless since that request a call gave
\* up or a part of the answer was dropped for lack of memory, which a call that
\* returns STATE_SUCCESS may do.
THEOREM ResponseBelongsAlways == Spec => []ResponseBelongs
<1>1. Inv /\ Belongs /\ AnswerInv => ResponseBelongs
  <2> SUFFICES ASSUME Inv, Belongs, AnswerInv, delivered.content # <<>>, ~delivered.behind
               PROVE  /\ \A i \in DOMAIN delivered.content : delivered.content[i].r = delivered.req
                      /\ ~delivered.gaveup /\ ~delivered.dropped => Whole(delivered.content)
    BY DEF ResponseBelongs
  <2>1. DOMAIN delivered.content = 1 .. Len(delivered.content)
    BY DEF Inv, Types, GateTypes
  <2> QED
    BY <2>1 DEF Belongs, AllOf, AnswerInv, WholeInv
<1> QED
  BY <1>1, AnswerInvAlways, BelongsAlways, PTL
=============================================================================
