------------------------------ MODULE MqttRecv ------------------------------
(***************************************************************************)
(* The receiving path of the MQTT client (core/aiot_mqtt_api.c): the       *)
(* handshake and the framing of the byte stream by the thread that loops   *)
(* in aiot_mqtt_recv, the dispatch of a PUBLISH to the handlers of the     *)
(* matching filters, and the threads that change sub_list meanwhile        *)
(* (aiot_mqtt_sub, aiot_mqtt_unsub and the two topic map options).         *)
(*                                                                         *)
(* The stream is a sequence of packets and the number of bytes of the      *)
(* first one that are already read; nothing but the receive thread's own   *)
(* count keeps its reads aligned with the packets.  sub_list is the set of *)
(* its topics and the set of its handler nodes; the code changes and       *)
(* copies it under sub_mutex, so each critical section is one step.        *)
(* Protocol version 3.1.1: no properties and no topic aliases (MqttAlias). *)
(***************************************************************************)
EXTENDS MqttTopic, FiniteSetsExt

CONSTANTS
  Users,         \* threads that subscribe and unsubscribe
  AppFilters,    \* the filters they use
  Handlers,      \* their handlers
  Userdata,      \* the contexts they register with a handler
  Shapes,        \* what the broker sends: header byte, topic name, remaining length
  Filters, Names,  \* inputs on which topic_compare is compared with Matches
  RecvHandler,   \* AIOT_MQTTOPT_RECV_HANDLER is configured
  CleanSession,  \* AIOT_MQTTOPT_CLEAN_SESSION
  NULL,
  MaxOps, MaxMsgs, MaxFaults  \* bounds: calls of Users, messages, failures

MaxRemainLen == 128 * 128 * 128 * 128 - 1

ASSUME RecvAssumption ==
  /\ Shapes \subseteq [hdr : 0 .. 255, name : Names, size : 0 .. MaxRemainLen]
  /\ \A s \in Shapes : s.hdr # 32 /\ (s.hdr \div 8) % 2 = 0   \* no CONNACK, not marked as a duplicate
  /\ AppFilters \subseteq Filters
  /\ NULL \notin Handlers
  /\ RecvHandler \in BOOLEAN /\ CleanSession \in BOOLEAN
  /\ MaxOps \in Nat /\ MaxMsgs \in Nat /\ MaxFaults \in Nat

\* Topics are sequences of characters, a character is a string.
ASSUME TopicAssumption == Filters \cup Names \subseteq Seq(STRING)

VARIABLES
  nodes,         \* topics of the nodes of sub_list
  entries,       \* handler nodes of sub_list, each with the topic it hangs under
  upc,           \* the packet a user has still to write
  conn,          \* network_handle is not NULL
  up,            \* the broker serves this connection
  wire, pos,     \* packets sent to the client, bytes of the first that are read
  rpc,           \* where the receive thread is
  frame,         \* what it is reading: header byte and its place in its packet, length so far
  copies,        \* handler_list_copy
  found,         \* sub_found
  msgs,          \* messages the broker has sent or tried to send
  unacked,       \* QoS 1 messages the broker keeps
  resend,        \* those it still has to send again on this connection
  broker_subs,   \* filters the broker knows
  acked,         \* history: messages whose PUBACK is written
  handled,       \* history: messages a handler was called with
  ran,           \* history: handler nodes called for the packet in hand
  missed,        \* history: handler nodes for whose copy there was no memory
  fresh,         \* history: handler nodes registered since the copies were made
  leaving,       \* history: filters removed here, the broker not (yet) told
  ops, faults

list  == <<nodes, entries, upc, leaving, ops>>
link  == <<conn, up, wire, pos>>
recv  == <<rpc, frame, copies, found, ran, missed>>
peer  == <<msgs, unacked, resend, acked, broker_subs>>
vars  == <<list, link, recv, fresh, peer, handled, faults>>

Fault == faults < MaxFaults /\ faults' = faults + 1

-----------------------------------------------------------------------------
(* The remaining length: seven bits a byte, the eighth says that more follow. *)

Pow == <<1, 128, 128 * 128, 128 * 128 * 128>>

LenBytes(n) == IF n < 128 THEN 1 ELSE IF n < 128 * 128 THEN 2 ELSE IF n < 128 * 128 * 128 THEN 3 ELSE 4

\* Byte i (from 1) of what _core_mqtt_remain_len_encode writes for n.
remain_len_encode(n, i) == ((n \div Pow[i]) % 128) + (IF i < LenBytes(n) THEN 128 ELSE 0)

-----------------------------------------------------------------------------
(* The byte stream. *)

CONNACK == 32

Connack(code) == [hdr |-> CONNACK, size |-> 2, msg |-> 0, code |-> code]

PacketLen(p) == 1 + LenBytes(p.size) + p.size

\* The values that byte i (from 0) of a packet may have.  A payload may hold
\* anything, for example what would be a header byte or a long length.
BytesAt(p, i) ==
  IF i = 0 THEN {p.hdr}
  ELSE IF i <= LenBytes(p.size) THEN {remain_len_encode(p.size, i)}
  ELSE IF p.hdr = CONNACK THEN {IF i = 2 THEN 0 ELSE p.code}
  ELSE {0, 48, 255}

NextBytes == IF wire = <<>> THEN {} ELSE BytesAt(wire[1], pos)

\* The number of bytes of the first k packets.
Span(k) == MapThenSumSet(LAMBDA i : PacketLen(wire[i]), 1 .. k)

Available(n) == pos + n <= Span(Len(wire))

\* n bytes of the stream are read.
Advance(n) ==
  /\ wire # <<>>
  /\ IF pos + n < PacketLen(wire[1]) THEN pos' = pos + n /\ UNCHANGED wire
     ELSE IF pos + n = PacketLen(wire[1]) THEN pos' = 0 /\ wire' = Tail(wire)
     ELSE \E k \in 1 .. Len(wire) :
            /\ Span(k) <= pos + n
            /\ IF k = Len(wire) THEN Span(k) = pos + n ELSE pos + n < Span(k + 1)
            /\ pos' = pos + n - Span(k)
            /\ wire' = SubSeq(wire, k + 1, Len(wire))

\* core_sysdep_network_deinit.
Close == conn' = FALSE /\ up' = FALSE /\ wire' = <<>> /\ pos' = 0

NoFrame == [hdr |-> 0, at |-> 0, msg |-> 0, size |-> 0, cnt |-> 0, remain |-> 0]

Init ==
  /\ nodes = {} /\ entries = {} /\ leaving = {} /\ fresh = {}
  /\ upc = [u \in Users |-> [op |-> "none", topic |-> <<>>]]
  /\ conn = FALSE /\ up = FALSE /\ wire = <<>> /\ pos = 0
  /\ rpc = "idle" /\ frame = NoFrame /\ copies = {} /\ found = FALSE
  /\ ran = {} /\ missed = {}
  /\ msgs = <<>> /\ unacked = {} /\ resend = {} /\ acked = {} /\ handled = {}
  /\ broker_subs = {}
  /\ ops = 0 /\ faults = 0

-----------------------------------------------------------------------------
(* sub_list, under sub_mutex. *)

Entry(f, h) == {e \in entries : e.topic = f /\ e.handler = h}

\* _core_mqtt_sublist_insert: a handler that is there gets the new userdata.
sublist_insert(f, h, ud) ==
  LET new == IF h = NULL THEN {} ELSE {[topic |-> f, handler |-> h, userdata |-> ud]}
  IN  /\ nodes' = nodes \cup {f}
      /\ entries' = (entries \ Entry(f, h)) \cup new
      /\ fresh' = fresh \cup new
      /\ leaving' = leaving \ {f}

\* It allocates a node for a new topic or a new handler.
Allocates(f, h) == f \notin nodes \/ (h # NULL /\ Entry(f, h) = {})

sublist_remove_KeepHandlers(f) ==
  /\ nodes' = nodes \ {f}
  /\ leaving' = leaving \cup ({f} \cap broker_subs)
  /\ UNCHANGED <<entries, fresh>>

sublist_remove(f) ==
  /\ nodes' = nodes \ {f}
  /\ entries' = {e \in entries : e.topic # f}
  /\ leaving' = leaving \cup ({f} \cap broker_subs)
  /\ UNCHANGED fresh

sublist_remove_handler(f, h) ==
  /\ entries' = entries \ Entry(f, h)
  /\ UNCHANGED <<nodes, fresh, leaving>>

Call(u, f) ==
  /\ upc[u].op = "none" /\ ops < MaxOps
  /\ topic_is_valid(f)
  /\ ops' = ops + 1

Pending(u, op, f) == upc' = [upc EXCEPT ![u] = [op |-> op, topic |-> f]]

\* aiot_mqtt_sub makes the filter known here first, then to the broker.
SubInsert(u, f, h, ud) ==
  /\ Call(u, f)
  /\ sublist_insert(f, h, ud)
  /\ Pending(u, "sub", f)
  /\ UNCHANGED <<link, recv, peer, handled, faults>>

InsertNoMemory_Goes(u, f, h) ==
  /\ Call(u, f)
  /\ Allocates(f, h)
  /\ Fault
  /\ Pending(u, "sub", f)
  /\ UNCHANGED <<nodes, entries, leaving, fresh, link, recv, peer, handled>>

\* Without memory aiot_mqtt_sub and the topic map option change nothing.
InsertNoMemory(u, f, h) ==
  /\ Call(u, f)
  /\ Allocates(f, h)
  /\ Fault
  /\ UNCHANGED <<nodes, entries, upc, leaving, fresh, link, recv, peer, handled>>

UnsubRemove(u, f) ==
  /\ Call(u, f)
  /\ sublist_remove(f)
  /\ Pending(u, "unsub", f)
  /\ UNCHANGED <<link, recv, peer, handled, faults>>

\* AIOT_MQTTOPT_APPEND_TOPIC_MAP and AIOT_MQTTOPT_REMOVE_TOPIC_MAP; data_mutex,
\* which aiot_mqtt_setopt holds around them, protects nothing they touch.
append_topic_map(u, f, h, ud) ==
  /\ Call(u, f)
  /\ sublist_insert(f, h, ud)
  /\ UNCHANGED <<upc, link, recv, peer, handled, faults>>

remove_topic_map(u, f, h) ==
  /\ Call(u, f)
  /\ sublist_remove_handler(f, h)
  /\ UNCHANGED <<upc, link, recv, peer, handled, faults>>

\* In the handshake the receive thread holds send_mutex and recv_mutex,
\* while it reads a packet recv_mutex.
Handshaking == rpc \in {"c_hdr", "c_len", "c_body"}
Reading     == Handshaking \/ rpc \in {"len", "body"}

Told(op, f) ==
  IF op = "sub" THEN broker_subs' = broker_subs \cup {f} /\ UNCHANGED leaving
                ELSE broker_subs' = broker_subs \ {f} /\ leaving' = leaving \ {f}

\* _core_mqtt_subunsub writes the packet: it reaches the broker, there is no
\* memory or no time for it, or the connection is gone and is closed.
SubunsubWrite(u) ==
  /\ upc[u].op # "none" /\ ~Handshaking
  /\ Pending(u, "none", <<>>)
  /\ \/ conn /\ up /\ Told(upc[u].op, upc[u].topic) /\ UNCHANGED <<link, faults>>
     \/ Fault /\ UNCHANGED <<link, broker_subs, leaving>>
     \/ ~up /\ ~Reading /\ Close /\ UNCHANGED <<broker_subs, leaving, faults>>
  /\ UNCHANGED <<nodes, entries, ops, recv, fresh, msgs, unacked, resend, acked, handled>>

-----------------------------------------------------------------------------
(* The broker and the network: outside of the repository. *)

qos(hdr) == (hdr \div 2) % 4

Packet(m, dup) == [hdr |-> msgs[m].hdr + dup, size |-> msgs[m].size, msg |-> m, code |-> 0]

BrokerSend(s) ==
  LET m == Len(msgs) + 1
  IN  /\ m <= MaxMsgs
      /\ msgs' = Append(msgs, s)
      /\ wire' = IF up THEN Append(wire, [hdr |-> s.hdr, size |-> s.size, msg |-> m, code |-> 0])
                       ELSE wire
      /\ unacked' = IF qos(s.hdr) = 1 /\ (up \/ ~CleanSession) THEN unacked \cup {m} ELSE unacked
      /\ resend' = IF qos(s.hdr) = 1 /\ ~up /\ ~CleanSession THEN resend \cup {m} ELSE resend
      /\ UNCHANGED <<list, conn, up, pos, recv, fresh, acked, broker_subs, handled, faults>>

\* What was not acknowledged on an earlier connection comes again, in order
\* and marked as a duplicate.
BrokerResend ==
  /\ up
  /\ \E m \in resend :
       /\ \A k \in resend : m <= k
       /\ wire' = Append(wire, Packet(m, 8))
       /\ resend' = resend \ {m}
  /\ UNCHANGED <<list, conn, up, pos, recv, fresh, msgs, unacked, acked, broker_subs, handled, faults>>

LinkBreaks ==
  /\ up /\ Fault
  /\ up' = FALSE
  /\ UNCHANGED <<list, conn, wire, pos, recv, fresh, peer, handled>>

-----------------------------------------------------------------------------
(* _core_mqtt_connect, called by the receive thread. *)

\* There is no connection, or too many heartbeats were lost on it and it is
\* closed first.  CONNECT is written: the broker accepts, refuses or is silent.
Connect ==
  /\ rpc = "idle"
  /\ rpc' = "c_hdr"
  /\ conn' = TRUE /\ pos' = 0
  /\ frame' = NoFrame
  /\ \/ /\ IF conn THEN Fault ELSE UNCHANGED faults
        /\ up' = TRUE
        /\ wire' = <<Connack(0)>>
        /\ unacked' = IF CleanSession THEN {} ELSE unacked
        /\ resend' = IF CleanSession THEN {} ELSE unacked
        /\ broker_subs' = IF CleanSession THEN {} ELSE broker_subs
     \/ /\ Fault
        /\ up' = FALSE
        /\ wire' \in {<<>>, <<Connack(5)>>}
        /\ UNCHANGED <<unacked, resend, broker_subs>>
  /\ UNCHANGED <<list, copies, found, ran, missed, fresh, msgs, acked, handled>>

\* A CONNACK that does not come in time, in whole or in part, leaves the
\* handle open; only an error at its first byte closes it.
HandshakeFails ==
  /\ Handshaking
  /\ rpc' = "idle"
  /\ \/ /\ Fault
        /\ \/ UNCHANGED link
           \/ rpc = "c_body" /\ Advance(1) /\ UNCHANGED <<conn, up>>
     \/ /\ ~up
        /\ IF rpc = "c_hdr" THEN Close ELSE UNCHANGED link
        /\ UNCHANGED faults
  /\ UNCHANGED <<list, frame, copies, found, ran, missed, fresh, peer, handled>>

ConnackHdr ==
  /\ rpc = "c_hdr"
  /\ \E b \in NextBytes : rpc' = IF b = CONNACK THEN "c_len" ELSE "idle"
  /\ Advance(1)
  /\ UNCHANGED <<list, conn, up, frame, copies, found, ran, missed, fresh, peer, handled, faults>>

\* One round of the loop of _core_mqtt_read_remainlen; a fifth byte is an error.
LenFrame(b) == [frame EXCEPT !.cnt = @ + 1, !.remain = @ + (b % 128) * Pow[frame.cnt + 1]]
LenDone(b)  == b < 128
TooLong     == frame.cnt = 4

ConnackLen ==
  /\ rpc = "c_len" /\ ~TooLong
  /\ \E b \in NextBytes :
       /\ frame' = LenFrame(b)
       /\ rpc' = IF ~LenDone(b) THEN "c_len" ELSE IF LenFrame(b).remain = 2 THEN "c_body" ELSE "idle"
  /\ Advance(1)
  /\ UNCHANGED <<list, conn, up, copies, found, ran, missed, fresh, peer, handled, faults>>

\* _core_mqtt_connack_handle: any return code but 0 closes the connection.
ConnackBody ==
  /\ rpc = "c_body"
  /\ rpc' = "idle"
  /\ wire # <<>>
  /\ IF wire[1].code = 0 THEN Advance(2) /\ UNCHANGED <<conn, up>> ELSE Close
  /\ UNCHANGED <<list, frame, copies, found, ran, missed, fresh, peer, handled, faults>>

-----------------------------------------------------------------------------
(* aiot_mqtt_recv. *)

RecvHdr ==
  /\ rpc = "idle" /\ conn
  /\ \E b \in NextBytes :
       frame' = [NoFrame EXCEPT !.hdr = b, !.at = pos, !.msg = wire[1].msg, !.size = wire[1].size]
  /\ Advance(1)
  /\ rpc' = "len"
  /\ UNCHANGED <<list, conn, up, copies, found, ran, missed, fresh, peer, handled, faults>>

\* Nothing arrives: the call returns and is made again.
RecvTimeout ==
  /\ rpc = "idle" /\ conn /\ wire = <<>>
  /\ UNCHANGED vars

RecvHdrError_KeepOpen ==
  /\ rpc = "idle" /\ conn /\ ~up
  /\ UNCHANGED vars

RecvHdrError ==
  /\ rpc = "idle" /\ conn /\ ~up
  /\ Close
  /\ UNCHANGED <<list, recv, fresh, peer, handled, faults>>

RecvFails_KeepOpen ==
  /\ rpc \in {"len", "body"}
  /\ rpc' = "idle"
  /\ \/ Fault
     \/ /\ ~up \/ NextBytes = {} \/ (rpc = "len" /\ TooLong) \/ (rpc = "body" /\ ~Available(frame.remain))
        /\ UNCHANGED faults
  /\ UNCHANGED <<list, link, frame, copies, found, ran, missed, fresh, peer, handled>>

\* In the middle of a packet a timeout, an error, a malformed length and a
\* failing allocation all close the connection.
RecvFails ==
  /\ rpc \in {"len", "body"}
  /\ rpc' = "idle"
  /\ \/ Fault
     \/ /\ ~up \/ NextBytes = {} \/ (rpc = "len" /\ TooLong) \/ (rpc = "body" /\ ~Available(frame.remain))
        /\ UNCHANGED faults
  /\ Close
  /\ UNCHANGED <<list, frame, copies, found, ran, missed, fresh, peer, handled>>

RecvLen ==
  /\ rpc = "len" /\ ~TooLong
  /\ \E b \in NextBytes :
       /\ frame' = LenFrame(b)
       /\ rpc' = IF LenDone(b) THEN "body" ELSE "len"
  /\ Advance(1)
  /\ UNCHANGED <<list, conn, up, copies, found, ran, missed, fresh, peer, handled, faults>>

RecvBody ==
  /\ rpc = "body"
  /\ IF frame.remain = 0 THEN UNCHANGED <<wire, pos>> ELSE Available(frame.remain) /\ Advance(frame.remain)
  /\ rpc' = "packet"
  /\ UNCHANGED <<list, conn, up, frame, copies, found, ran, missed, fresh, peer, handled, faults>>

\* The types of the switch, and the packets without an effect in this module:
\* the PUBACK of a publish (MqttPub), the answers to a subscription or a
\* heartbeat, and packets of QoS 2.
pkt_type    == frame.hdr \div 16
PUBLISH     == 3
PUBACK      == 4
PINGRESP    == 13
DISCONNECT  == 14
Known       == {PUBLISH, PUBACK, 5, 6, 7, 9, 11, PINGRESP, DISCONNECT}
NoEffect ==
  \/ pkt_type = PUBACK /\ frame.remain = 2
  \/ pkt_type \in {5, 6, 7, 9, 11}
  \/ pkt_type \in {PINGRESP, DISCONNECT} /\ frame.remain = 0

ValidPublish ==
  /\ pkt_type = PUBLISH /\ qos(frame.hdr) <= 1
  /\ frame.remain >= 2 + Len(msgs[frame.msg].name) + 2 * qos(frame.hdr)

\* What is unknown, invalid or a DISCONNECT of the broker ends the connection.
RecvPacket ==
  /\ rpc = "packet"
  /\ IF ValidPublish THEN rpc' = (IF qos(frame.hdr) = 1 THEN "puback" ELSE "search") /\ UNCHANGED link
     ELSE rpc' = "idle" /\ IF NoEffect THEN UNCHANGED link ELSE Close
  /\ UNCHANGED <<list, frame, copies, found, ran, missed, fresh, peer, handled, faults>>

-----------------------------------------------------------------------------
(* _core_mqtt_pub_handler. *)

\* _core_mqtt_puback_send; what it returns is not looked at.
PubackSend ==
  /\ rpc = "puback"
  /\ rpc' = "search"
  /\ \/ /\ conn /\ up
        /\ unacked' = unacked \ {frame.msg}
        /\ resend' = resend \ {frame.msg}
        /\ acked' = acked \cup {frame.msg}
        /\ UNCHANGED <<link, faults>>
     \/ conn /\ Fault /\ UNCHANGED <<link, unacked, resend, acked>>
     \/ ~up /\ Close /\ UNCHANGED <<unacked, resend, acked, faults>>
  /\ UNCHANGED <<list, frame, copies, found, ran, missed, fresh, msgs, broker_subs, handled>>

Wanted == {e \in entries : topic_compare(e.topic, msgs[frame.msg].name)}

Search_FoundAnyway ==
  /\ rpc = "search"
  /\ missed' \in SUBSET Wanted
  /\ IF missed' = {} THEN UNCHANGED faults ELSE Fault
  /\ copies' = Wanted \ missed'
  /\ found' = (Wanted # {})
  /\ ran' = {} /\ fresh' = {}
  /\ rpc' = "run"
  /\ UNCHANGED <<list, link, frame, peer, handled>>

\* The handlers of all matching nodes are copied under sub_mutex; a copy
\* for which there is no memory is left out.
Search ==
  /\ rpc = "search"
  /\ missed' \in SUBSET Wanted
  /\ IF missed' = {} THEN UNCHANGED faults ELSE Fault
  /\ copies' = Wanted \ missed'
  /\ found' = (copies' # {})
  /\ ran' = {} /\ fresh' = {}
  /\ rpc' = "run"
  /\ UNCHANGED <<list, link, frame, peer, handled>>

RunHandler_FirstOnly ==
  /\ rpc = "run"
  /\ \E c \in copies : copies' = {} /\ ran' = ran \cup {c}
  /\ handled' = handled \cup {frame.msg}
  /\ UNCHANGED <<list, link, rpc, frame, found, missed, fresh, peer, faults>>

\* A handler runs without any mutex; other threads go on meanwhile.
RunHandler ==
  /\ rpc = "run"
  /\ \E c \in copies : copies' = copies \ {c} /\ ran' = ran \cup {c}
  /\ handled' = handled \cup {frame.msg}
  /\ UNCHANGED <<list, link, rpc, frame, found, missed, fresh, peer, faults>>

PubDone ==
  /\ rpc = "run" /\ copies = {}
  /\ handled' = IF RecvHandler /\ ~found THEN handled \cup {frame.msg} ELSE handled
  /\ rpc' = "idle"
  /\ UNCHANGED <<list, link, frame, copies, found, ran, missed, fresh, peer, faults>>

-----------------------------------------------------------------------------
RecvThread ==
  \/ Connect \/ HandshakeFails \/ ConnackHdr \/ ConnackLen \/ ConnackBody
  \/ RecvHdr \/ RecvTimeout \/ RecvHdrError \/ RecvFails \/ RecvLen \/ RecvBody
  \/ RecvPacket \/ PubackSend \/ Search \/ RunHandler \/ PubDone

User(u) ==
  \/ \E f \in AppFilters, h \in Handlers \cup {NULL}, ud \in Userdata :
       SubInsert(u, f, h, ud) \/ append_topic_map(u, f, h, ud)
  \/ \E f \in AppFilters, h \in Handlers \cup {NULL} : InsertNoMemory(u, f, h)
  \/ \E f \in AppFilters, h \in Handlers : remove_topic_map(u, f, h)
  \/ \E f \in AppFilters : UnsubRemove(u, f)
  \/ SubunsubWrite(u)

Next ==
  \/ RecvThread
  \/ \E u \in Users : User(u)
  \/ \E s \in Shapes : BrokerSend(s)
  \/ BrokerResend
  \/ LinkBreaks

Spec == Init /\ [][Next]_vars

(***************************************************************************)
(* The demo's thread calls aiot_mqtt_recv for ever; a broker that serves   *)
(* the connection sends again what was not acknowledged.                   *)
(***************************************************************************)
FairSpec == Spec /\ WF_vars(RecvThread) /\ WF_vars(BrokerResend)

-----------------------------------------------------------------------------
(* Properties. *)

Node   == [topic : AppFilters, handler : Handlers, userdata : Userdata]
UserPc == [op : {"none"}, topic : {<<>>}] \cup [op : {"sub", "unsub"}, topic : AppFilters]

\* Every variable keeps its type: no handler node is left without its topic
\* node, and a topic has one node for each handler (_core_mqtt_sublist_insert).
TypeOK ==
  /\ nodes \subseteq AppFilters /\ leaving \subseteq AppFilters /\ broker_subs \subseteq AppFilters
  /\ entries \subseteq Node /\ fresh \subseteq Node
  /\ \A e \in entries : e.topic \in nodes
  /\ \A d, e \in entries : d.topic = e.topic /\ d.handler = e.handler => d = e
  /\ upc \in [Users -> UserPc]
  /\ conn \in BOOLEAN /\ up \in BOOLEAN /\ (up => conn)
  /\ rpc \in {"idle", "c_hdr", "c_len", "c_body", "len", "body", "packet", "puback", "search", "run"}
  /\ found \in BOOLEAN
  /\ copies \subseteq Node /\ ran \subseteq Node /\ missed \subseteq Node
  /\ ops \in 0 .. MaxOps /\ faults \in 0 .. MaxFaults

\* aiot_mqtt_recv never takes bytes from the middle of a packet for a packet:
\* what its switch acts on is a packet the broker sent, whole, although a
\* failed handshake leaves the handle open in the middle of the CONNACK.
FramesExact ==
  rpc \in {"packet", "puback", "search", "run"} /\ pkt_type \in Known
    => frame.at = 0 /\ frame.remain = frame.size

\* On valid filters _core_mqtt_topic_compare is MQTT's rule for "+" and "#",
\* but for an empty last level, which no wildcard matches.  It says nothing of
\* the state: TLC evaluates it once.
CompareExact ==
  Init => \A f \in Filters, n \in Names :
            topic_is_valid(f) => (topic_compare(f, n) <=> Matches(f, n) /\ ~EmptyLastLevel(f, n))

Concerns(e) ==
  LET name == msgs[frame.msg].name
  IN  Matches(e.topic, name) /\ ~EmptyLastLevel(e.topic, name)

\* _core_mqtt_pub_handler calls every handler that was registered for the
\* topic before the handlers were copied and still is, and no other one,
\* each once; what the application changes meanwhile does not disturb it.  This
\* is the rule the code follows (aiot_mqtt_api.c:2089-2116); the overview in
\* aiot_mqtt_api.h:22-28 has checking stop at the first kind of handler that
\* matches, topic maps before subscriptions, which the code does not do.
DispatchExact ==
  rpc = "run" =>
    /\ {e \in entries \ (fresh \cup missed) : Concerns(e)} \subseteq ran \cup copies
    /\ \A e \in ran \cup copies : Concerns(e)
    /\ ran \cap copies = {}

\* With a default handler configured a message that was acknowledged to the
\* broker, who then forgets it, has been given to some handler, although the
\* PUBACK is written first and copies can fail for lack of memory.
NothingSwallowed == RecvHandler /\ rpc = "idle" => acked \subseteq handled

\* A filter the broker knows has its node in sub_list, unless it was removed
\* here and the broker could not be told: aiot_mqtt_sub inserts before it
\* writes and aiot_mqtt_unsub removes before it writes.
SubscribedHasNode == broker_subs \subseteq nodes \cup leaving

\* Without clean session a QoS 1 message the broker holds is handled in the
\* end, over broken links, failed handshakes and lost acknowledgements.
EventuallyHandled ==
  RecvHandler /\ ~CleanSession => \A m \in 1 .. MaxMsgs : m \in unacked ~> m \in handled
=============================================================================
