------------------------------ MODULE MqttPub ------------------------------
(***************************************************************************)
(* The QoS 1 publishing path of the MQTT client (core/aiot_mqtt_api.c):    *)
(* publisher threads in _core_mqtt_pub, the process thread in              *)
(* _core_mqtt_repub, the receive thread in _core_mqtt_puback_handler, the  *)
(* list of unacknowledged packets they share, and the MQTT 5 send quota.   *)
(*                                                                         *)
(* A step is one critical section of the code, or one access to shared     *)
(* state outside of any mutex.  pub_mutex is a variable because            *)
(* _core_mqtt_repub keeps it across several writes; data_mutex, send_mutex *)
(* and recv_mutex are held within single steps here (module MqttSession    *)
(* looks at those).  Topic aliases are the subject of another module: this *)
(* one describes MQTT 3.1.1, or MQTT 5 with a Topic Alias Maximum of 0.    *)
(***************************************************************************)
EXTENDS Naturals, Sequences, FiniteSets

CONSTANTS
  Publishers,     \* threads that call aiot_mqtt_pub with QoS 1
  MaxPacketId,    \* largest packet identifier, 65535 in the code
  FlowControl,    \* MQTT 5 with AIOT_MQTTOPT_FLOW_CONTROL_ENABLED
  FlowMax,        \* CORE_DEFAULT_SERVER_RECEIVE_MAX, 10 in the code
  QuotaModulus,   \* 2^16: server_receive_max is a uint16_t
  MaxAllocs,      \* bound: packet identifiers allocated in a behaviour
  MaxInFlight,    \* bound: packets in one direction of the stream
  MaxFaults,      \* bound: link breaks, short writes and malformed PUBACKs
  MaxClockBacks   \* bound: backward steps of the system clock

ASSUME PublishersAssumption == Publishers # {}
ASSUME PacketIdAssumption   == MaxPacketId \in Nat \ {0}
ASSUME FlowAssumption       == /\ FlowControl \in BOOLEAN
                               /\ FlowMax \in Nat \ {0}
                               /\ QuotaModulus \in Nat
                               /\ QuotaModulus > FlowMax + 1
ASSUME BoundsAssumption     == /\ MaxAllocs \in Nat
                               /\ MaxInFlight \in Nat
                               /\ MaxFaults \in Nat
                               /\ MaxClockBacks \in Nat

VARIABLES
  packet_id,          \* last identifier handed out, 0 before the first
  pub_list,           \* unacknowledged QoS 1 packets, in no order
  due,                \* messages whose repub_timeout_ms has elapsed since last_send_time
  server_receive_max, \* the send quota
  pub_mutex,          \* "free", or "process" while _core_mqtt_repub runs
  pc,                 \* where each publisher is
  pkt,                \* the packet each publisher works on
  recv_pc,            \* where the receive thread is
  ack,                \* identifier of the PUBACK in the receive thread's hands
  process_pc,         \* where the process thread is
  todo,               \* nodes _core_mqtt_repub has still to visit in this pass
  network,            \* network_handle: "open" or "NULL"
  link,               \* the TCP stream under it: "ok", "torn" or "dead"
  toBroker, toClient, \* the two directions of the stream
  accepted,           \* history: messages _core_mqtt_publist_insert took
  delivered,          \* history: messages the broker received
  allocs,             \* history: identifiers handed out, numbers the messages
  faults, clockBacks

client  == <<packet_id, pub_list, due, server_receive_max, pub_mutex>>
threads == <<pc, pkt, recv_pc, ack, process_pc, todo>>
stream  == <<network, link, toBroker, toClient>>
history == <<accepted, delivered, allocs, faults, clockBacks>>
vars    == <<client, threads, stream, history>>

-----------------------------------------------------------------------------
(* Types.  A message is named by the serial number of its publish call. *)

PacketIds == 1 .. MaxPacketId
Messages  == 1 .. MaxAllocs
Packet    == [id : PacketIds, msg : Messages]
NoPacket  == [id |-> 0, msg |-> 0]
BadAck    == 0     \* stands for a PUBACK with a wrong length
Links     == {"ok", "torn", "dead"}

PubStates     == {"idle", "packet_id", "insert", "write", "close", "flow_test", "flow_dec"}
RecvStates    == {"idle", "flow_inc", "remove", "close"}
ProcessStates == {"idle", "repub", "close"}

(***************************************************************************)
(* Every variable stays in its type; in particular the quota stays within  *)
(* a uint16_t and no node carries the identifier 0 that the protocol       *)
(* reserves (_core_mqtt_packet_id skips it when it wraps).                 *)
(***************************************************************************)
TypeOK ==
  /\ packet_id \in 0 .. MaxPacketId
  /\ pub_list \subseteq Packet
  /\ due \subseteq Messages
  /\ server_receive_max \in 0 .. QuotaModulus - 1
  /\ pub_mutex \in {"free", "process"}
  /\ pc \in [Publishers -> PubStates]
  /\ pkt \in [Publishers -> Packet \cup {NoPacket}]
  /\ \A p \in Publishers : pc[p] \in {"insert", "write"} => pkt[p] # NoPacket
  /\ recv_pc \in RecvStates
  /\ ack \in PacketIds \cup {BadAck}
  /\ process_pc \in ProcessStates
  /\ todo \subseteq Packet
  /\ network \in {"open", "NULL"}
  /\ link \in Links
  /\ toBroker \in Seq(Packet)
  /\ toClient \in Seq(PacketIds \cup {BadAck})
  /\ accepted \subseteq Messages
  /\ delivered \subseteq Messages
  /\ allocs \in 0 .. MaxAllocs
  /\ faults \in 0 .. MaxFaults
  /\ clockBacks \in 0 .. MaxClockBacks

-----------------------------------------------------------------------------
Init ==
  /\ packet_id = 0
  /\ pub_list = {}
  /\ due = {}
  /\ server_receive_max = FlowMax
  /\ pub_mutex = "free"
  /\ pc = [p \in Publishers |-> "idle"]
  /\ pkt = [p \in Publishers |-> NoPacket]
  /\ recv_pc = "idle"
  /\ ack = BadAck
  /\ process_pc = "idle"
  /\ todo = {}
  /\ network = "NULL"
  /\ link = "dead"
  /\ toBroker = <<>>
  /\ toClient = <<>>
  /\ accepted = {}
  /\ delivered = {}
  /\ allocs = 0
  /\ faults = 0
  /\ clockBacks = 0

Goto(p, state) == pc' = [pc EXCEPT ![p] = state]

(***************************************************************************)
(* _core_mqtt_write, as its callers see it.  A packet written to a stream  *)
(* the broker can no longer parse (torn) or no longer reads (dead) is      *)
(* lost although the write succeeds.                                       *)
(***************************************************************************)
WriteOk(packet) ==
  /\ network = "open"
  /\ Len(toBroker) < MaxInFlight
  /\ toBroker' = IF link = "ok" THEN Append(toBroker, packet) ELSE toBroker
  /\ UNCHANGED <<network, link, toClient, faults>>

\* STATE_SYS_DEPEND_NWK_WRITE_LESSDATA after send_timeout_ms: a part of the
\* packet was sent, or nothing because the stream is full.
WriteLess ==
  /\ network = "open"
  /\ \/ /\ faults < MaxFaults
        /\ faults' = faults + 1
        /\ link' \in {link, IF link = "ok" THEN "torn" ELSE link}
     \/ /\ Len(toBroker) >= MaxInFlight
        /\ UNCHANGED <<faults, link>>
  /\ UNCHANGED <<network, toBroker, toClient>>

\* STATE_SYS_DEPEND_NWK_CLOSED without a handle, a send error on a dead stream.
WriteErr ==
  /\ network = "NULL" \/ link = "dead"
  /\ UNCHANGED <<stream, faults>>

(* core_sysdep_network_deinit under send_mutex and recv_mutex. *)
CloseNetwork ==
  /\ network' = "NULL"
  /\ link' = "dead"
  /\ toClient' = <<>>
  /\ UNCHANGED toBroker

-----------------------------------------------------------------------------
(* _core_mqtt_pub with QoS 1, in publisher p. *)

\* _core_mqtt_check_flow_control: with no quota left the call returns
\* STATE_MQTT_RECEIVE_MAX_EXCEEDED before it has changed anything.
PubCheckFlow(p) ==
  /\ pc[p] = "idle"
  /\ FlowControl => /\ pub_mutex = "free"
                    /\ server_receive_max > 0
  /\ Goto(p, "packet_id")
  /\ UNCHANGED <<client, pkt, recv_pc, ack, process_pc, todo, stream, history>>

NextPacketId_Zero == (packet_id + 1) % (MaxPacketId + 1)

\* _core_mqtt_packet_id: 0 is not an identifier.
NextPacketId == IF packet_id = MaxPacketId THEN 1 ELSE packet_id + 1

PubPacketId(p) ==
  /\ pc[p] = "packet_id"
  /\ allocs < MaxAllocs
  /\ packet_id' = NextPacketId
  /\ allocs' = allocs + 1
  /\ pkt' = [pkt EXCEPT ![p] = [id |-> NextPacketId, msg |-> allocs + 1]]
  /\ Goto(p, "insert")
  /\ UNCHANGED <<pub_list, due, server_receive_max, pub_mutex, recv_pc, ack, process_pc, todo,
                 stream, accepted, delivered, faults, clockBacks>>

\* The call fails before the packet is kept: packet too large, out of memory.
PubReject(p) ==
  /\ pc[p] = "insert"
  /\ Goto(p, "idle")
  /\ pkt' = [pkt EXCEPT ![p] = NoPacket]
  /\ UNCHANGED <<client, recv_pc, ack, process_pc, todo, stream, history>>

IdInUse(id) == \E node \in pub_list : node.id = id

PubInsert_NoRollCheck(p) ==
  /\ pc[p] = "insert"
  /\ pub_mutex = "free"
  /\ pub_list' = pub_list \cup {pkt[p]}
  /\ accepted' = accepted \cup {pkt[p].msg}
  /\ Goto(p, "write")
  /\ UNCHANGED <<packet_id, due, server_receive_max, pub_mutex, pkt, recv_pc, ack, process_pc,
                 todo, stream, delivered, allocs, faults, clockBacks>>

PubInsert_NoInsert(p) ==
  /\ pc[p] = "insert"
  /\ pub_mutex = "free"
  /\ accepted' = accepted \cup {pkt[p].msg}
  /\ Goto(p, "write")
  /\ UNCHANGED <<client, pkt, recv_pc, ack, process_pc, todo, stream, delivered, allocs, faults,
                 clockBacks>>

PubInsert(p) ==
  /\ pc[p] = "insert"
  /\ pub_mutex = "free"
  /\ ~IdInUse(pkt[p].id)
  /\ pub_list' = pub_list \cup {pkt[p]}
  /\ accepted' = accepted \cup {pkt[p].msg}
  /\ Goto(p, "write")
  /\ UNCHANGED <<packet_id, due, server_receive_max, pub_mutex, pkt, recv_pc, ack, process_pc,
                 todo, stream, delivered, allocs, faults, clockBacks>>

\* STATE_MQTT_PUBLIST_PACKET_ID_ROLL: the identifier still belongs to an older packet.
PubRoll(p) ==
  /\ pc[p] = "insert"
  /\ pub_mutex = "free"
  /\ IdInUse(pkt[p].id)
  /\ Goto(p, "idle")
  /\ pkt' = [pkt EXCEPT ![p] = NoPacket]
  /\ UNCHANGED <<client, recv_pc, ack, process_pc, todo, stream, history>>

PubWrite(p) ==
  /\ pc[p] = "write"
  /\ \/ WriteOk(pkt[p]) /\ Goto(p, IF FlowControl THEN "flow_test" ELSE "idle")
     \/ WriteLess       /\ Goto(p, "idle")
     \/ WriteErr        /\ Goto(p, "close")
  /\ UNCHANGED <<client, pkt, recv_pc, ack, process_pc, todo, accepted, delivered, allocs, clockBacks>>

\* A write error closes the connection; the packet stays in pub_list.
PubClose(p) ==
  /\ pc[p] = "close"
  /\ CloseNetwork
  /\ Goto(p, "idle")
  /\ UNCHANGED <<client, pkt, recv_pc, ack, process_pc, todo, history>>

\* _core_mqtt_check_flow_dec tests the quota before it takes pub_mutex ...
PubFlowTest(p) ==
  /\ pc[p] = "flow_test"
  /\ Goto(p, IF server_receive_max > 0 THEN "flow_dec" ELSE "idle")
  /\ UNCHANGED <<client, pkt, recv_pc, ack, process_pc, todo, stream, history>>

\* ... and decrements it, modulo 2^16, once it has it.
PubFlowDec(p) ==
  /\ pc[p] = "flow_dec"
  /\ pub_mutex = "free"
  /\ server_receive_max' = (server_receive_max + QuotaModulus - 1) % QuotaModulus
  /\ Goto(p, "idle")
  /\ UNCHANGED <<packet_id, pub_list, due, pub_mutex, pkt, recv_pc, ack, process_pc, todo,
                 stream, history>>

(* _core_mqtt_subunsub draws from the same counter and keeps nothing. *)
SubPacketId ==
  /\ allocs < MaxAllocs
  /\ packet_id' = NextPacketId
  /\ allocs' = allocs + 1
  /\ UNCHANGED <<pub_list, due, server_receive_max, pub_mutex, threads, stream, accepted,
                 delivered, faults, clockBacks>>

-----------------------------------------------------------------------------
(* aiot_mqtt_recv on a PUBACK. *)

RecvPuback ==
  /\ recv_pc = "idle"
  /\ network = "open"
  /\ toClient # <<>>
  /\ ack' = Head(toClient)
  /\ toClient' = Tail(toClient)
  /\ recv_pc' = IF FlowControl THEN "flow_inc" ELSE "remove"
  /\ UNCHANGED <<client, pc, pkt, process_pc, todo, network, link, toBroker, history>>

Clamp(quota) == IF quota > FlowMax THEN FlowMax ELSE quota

RecvFlowInc_NoClamp ==
  /\ recv_pc = "flow_inc"
  /\ pub_mutex = "free"
  /\ server_receive_max' = (server_receive_max + 1) % QuotaModulus
  /\ recv_pc' = "remove"
  /\ UNCHANGED <<packet_id, pub_list, due, pub_mutex, pc, pkt, ack, process_pc, todo, stream,
                 history>>

\* _core_mqtt_flow_control_inc runs before the PUBACK's length is looked at.
RecvFlowInc ==
  /\ recv_pc = "flow_inc"
  /\ pub_mutex = "free"
  /\ server_receive_max' = Clamp((server_receive_max + 1) % QuotaModulus)
  /\ recv_pc' = "remove"
  /\ UNCHANGED <<packet_id, pub_list, due, pub_mutex, pc, pkt, ack, process_pc, todo, stream,
                 history>>

\* _core_mqtt_publist_remove deletes the first node with the identifier, if there is one.
RecvRemove_Wrong ==
  /\ recv_pc = "remove"
  /\ ack # BadAck
  /\ pub_mutex = "free"
  /\ pub_list' \in {pub_list \ {node} : node \in pub_list} \cup {pub_list}
  /\ recv_pc' = "idle"
  /\ UNCHANGED <<packet_id, due, server_receive_max, pub_mutex, pc, pkt, ack, process_pc, todo,
                 stream, history>>

RecvRemove_NoLock ==
  /\ recv_pc = "remove"
  /\ ack # BadAck
  /\ pub_list' = {node \in pub_list : node.id # ack}
  /\ due' = {m \in due : \E node \in pub_list' : node.msg = m}
  /\ recv_pc' = "idle"
  /\ UNCHANGED <<packet_id, server_receive_max, pub_mutex, pc, pkt, ack, process_pc, todo,
                 stream, history>>

RecvRemove ==
  /\ recv_pc = "remove"
  /\ ack # BadAck
  /\ pub_mutex = "free"
  /\ IF IdInUse(ack)
       THEN \E node \in pub_list : /\ node.id = ack
                                   /\ pub_list' = pub_list \ {node}
                                   /\ due' = due \ {node.msg}
       ELSE UNCHANGED <<pub_list, due>>
  /\ recv_pc' = "idle"
  /\ UNCHANGED <<packet_id, server_receive_max, pub_mutex, pc, pkt, ack, process_pc, todo,
                 stream, history>>

\* STATE_MQTT_RECV_INVALID_PUBACK_PACKET makes aiot_mqtt_recv close the connection.
RecvMalformed ==
  /\ recv_pc = "remove"
  /\ ack = BadAck
  /\ recv_pc' = "close"
  /\ UNCHANGED <<client, pc, pkt, ack, process_pc, todo, stream, history>>

\* The read fails on a dead stream.
RecvReadErr ==
  /\ recv_pc = "idle"
  /\ network = "open"
  /\ link = "dead"
  /\ recv_pc' = "close"
  /\ UNCHANGED <<client, pc, pkt, ack, process_pc, todo, stream, history>>

RecvClose ==
  /\ recv_pc = "close"
  /\ CloseNetwork
  /\ recv_pc' = "idle"
  /\ UNCHANGED <<client, pc, pkt, ack, process_pc, todo, history>>

-----------------------------------------------------------------------------
(* _core_mqtt_repub, called by aiot_mqtt_process. *)

RepubBegin ==
  /\ process_pc = "idle"
  /\ pub_mutex = "free"
  /\ pub_mutex' = "process"
  /\ todo' = pub_list
  /\ process_pc' = "repub"
  /\ UNCHANGED <<packet_id, pub_list, due, server_receive_max, pc, pkt, recv_pc, ack, stream,
                 history>>

RepubSkip(node) ==
  /\ process_pc = "repub"
  /\ node \in todo
  /\ node.msg \notin due
  /\ todo' = todo \ {node}
  /\ UNCHANGED <<client, pc, pkt, recv_pc, ack, process_pc, stream, history>>

RepubNode_Never(node) ==
  /\ process_pc = "repub"
  /\ node \in todo
  /\ node.msg \in due
  /\ todo' = todo \ {node}
  /\ UNCHANGED <<client, pc, pkt, recv_pc, ack, process_pc, stream, history>>

\* The node is written again; last_send_time keeps its old value.
RepubNode(node) ==
  /\ process_pc = "repub"
  /\ node \in todo
  /\ node.msg \in due
  /\ WriteOk(node)
  /\ todo' = todo \ {node}
  /\ UNCHANGED <<client, pc, pkt, recv_pc, ack, process_pc, accepted, delivered, allocs, clockBacks>>

\* A failed write ends the pass and gives pub_mutex back.
RepubFail(node) ==
  /\ process_pc = "repub"
  /\ node \in todo
  /\ node.msg \in due
  /\ \/ WriteLess /\ process_pc' = "idle"
     \/ WriteErr  /\ process_pc' = "close"
  /\ todo' = {}
  /\ pub_mutex' = "free"
  /\ UNCHANGED <<packet_id, pub_list, due, server_receive_max, pc, pkt, recv_pc, ack, accepted,
                 delivered, allocs, clockBacks>>

RepubClose ==
  /\ process_pc = "close"
  /\ CloseNetwork
  /\ process_pc' = "idle"
  /\ UNCHANGED <<client, pc, pkt, recv_pc, ack, todo, history>>

RepubEnd ==
  /\ process_pc = "repub"
  /\ todo = {}
  /\ pub_mutex' = "free"
  /\ process_pc' = "idle"
  /\ UNCHANGED <<packet_id, pub_list, due, server_receive_max, pc, pkt, recv_pc, ack, todo,
                 stream, history>>

-----------------------------------------------------------------------------
(* Time, the connection and the broker. *)

RepubTimeout(node) ==
  /\ node \in pub_list
  /\ node.msg \notin due
  /\ due' = due \cup {node.msg}
  /\ UNCHANGED <<packet_id, pub_list, server_receive_max, pub_mutex, threads, stream, history>>

\* The clock steps back: _core_mqtt_repub restarts the interval of every node.
ClockBack ==
  /\ clockBacks < MaxClockBacks
  /\ due # {}
  /\ clockBacks' = clockBacks + 1
  /\ due' = {}
  /\ UNCHANGED <<packet_id, pub_list, server_receive_max, pub_mutex, threads, stream, accepted,
                 delivered, allocs, faults>>

\* aiot_mqtt_connect, or the reconnection aiot_mqtt_recv makes.  Neither
\* touches pub_list or the send quota.
Connect ==
  /\ network = "NULL"
  /\ network' = "open"
  /\ link' = "ok"
  /\ toBroker' = <<>>
  /\ toClient' = <<>>
  /\ UNCHANGED <<client, threads, history>>

LinkBreak ==
  /\ link = "ok"
  /\ faults < MaxFaults
  /\ faults' = faults + 1
  /\ link' = "dead"
  /\ UNCHANGED <<client, threads, network, toBroker, toClient, accepted, delivered, allocs,
                 clockBacks>>

\* The broker gives up a stream it cannot parse.
BrokerDrop ==
  /\ link = "torn"
  /\ link' = "dead"
  /\ UNCHANGED <<client, threads, network, toBroker, toClient, history>>

\* The broker takes a PUBLISH and acknowledges it; the answer is lost when
\* the client no longer listens.
BrokerPublish ==
  /\ toBroker # <<>>
  /\ Len(toClient) < MaxInFlight
  /\ delivered' = delivered \cup {Head(toBroker).msg}
  /\ toBroker' = Tail(toBroker)
  /\ \/ /\ toClient' = IF link = "dead" THEN toClient ELSE Append(toClient, Head(toBroker).id)
        /\ UNCHANGED faults
     \/ /\ link # "dead"
        /\ faults < MaxFaults
        /\ faults' = faults + 1
        /\ toClient' = Append(toClient, BadAck)
  /\ UNCHANGED <<client, threads, network, link, accepted, allocs, clockBacks>>

-----------------------------------------------------------------------------
Publisher(p) ==
  \/ PubCheckFlow(p)
  \/ PubPacketId(p)
  \/ PubReject(p)
  \/ PubInsert(p)
  \/ PubRoll(p)
  \/ PubWrite(p)
  \/ PubClose(p)
  \/ PubFlowTest(p)
  \/ PubFlowDec(p)

Receiver == RecvPuback \/ RecvFlowInc \/ RecvRemove \/ RecvMalformed \/ RecvReadErr \/ RecvClose

Process ==
  \/ RepubBegin
  \/ \E node \in todo : RepubSkip(node) \/ RepubNode(node) \/ RepubFail(node)
  \/ RepubClose
  \/ RepubEnd

Next ==
  \/ \E p \in Publishers : Publisher(p)
  \/ SubPacketId
  \/ Receiver
  \/ Process
  \/ \E node \in pub_list : RepubTimeout(node)
  \/ ClockBack
  \/ Connect
  \/ LinkBreak
  \/ BrokerDrop
  \/ BrokerPublish

Spec == Init /\ [][Next]_vars

(***************************************************************************)
(* Scheduling.  Every thread keeps running: the demo calls                 *)
(* aiot_mqtt_process and aiot_mqtt_recv in endless loops.  The receive     *)
(* thread is strongly fair because the process thread sleeps between two   *)
(* calls, so pub_mutex is free most of the time.  Timers expire, the       *)
(* broker answers, and a closed connection is opened again.  Finally, a    *)
(* thread that saw its write or read fail gets to its close before the     *)
(* next connection is up (microseconds against a TCP and MQTT handshake),  *)
(* at least from some time on.                                             *)
(***************************************************************************)
NobodyClosing == "close" \notin {recv_pc, process_pc} \cup {pc[p] : p \in Publishers}

Fairness ==
  /\ \A p \in Publishers : WF_vars(PubClose(p))
  /\ WF_vars(Process)
  /\ SF_vars(Receiver)
  /\ WF_vars(\E node \in pub_list : RepubTimeout(node))
  /\ WF_vars(Connect)
  /\ WF_vars(BrokerDrop)
  /\ WF_vars(BrokerPublish)
  /\ <>[][Connect => NobodyClosing]_vars

FairSpec == Spec /\ Fairness

-----------------------------------------------------------------------------
(***************************************************************************)
(* Two packets that wait for a PUBACK never share an identifier, however   *)
(* often the 16-bit counter has wrapped and whoever else draws from it:    *)
(* a PUBACK names one packet (_core_mqtt_publist_insert's check).          *)
(***************************************************************************)
UniqueIds ==
  \A m, n \in pub_list : m.id = n.id => m = n

(***************************************************************************)
(* At least once: a message that _core_mqtt_publist_insert took is kept    *)
(* for resending until the broker has it, whatever connections break,      *)
(* whichever acknowledgements are lost or duplicated.  It holds as long as *)
(* the identifiers have not wrapped (MaxAllocs <= MaxPacketId): a          *)
(* duplicate PUBACK that outlives a full turn of the counter would remove  *)
(* the wrong packet.                                                       *)
(***************************************************************************)
NotLost ==
  \A m \in accepted : m \in delivered \/ \E node \in pub_list : node.msg = m

(***************************************************************************)
(* The publishing path implements QoS1Delivery: each message is accepted   *)
(* once, only accepted messages reach the broker, and a PUBACK ends the    *)
(* resending of a message only when the broker has received it.            *)
(***************************************************************************)
Delivery == INSTANCE QoS1Delivery WITH pending <- {node.msg : node \in pub_list}

AtLeastOnce == Delivery!Spec

(***************************************************************************)
(* _core_mqtt_repub never leaves aiot_mqtt_process with pub_mutex, and     *)
(* visits only nodes that are still in the list: no node it has yet to     *)
(* write was freed by a PUBACK in the middle of its pass.                  *)
(***************************************************************************)
RepubSafe ==
  /\ todo \subseteq pub_list
  /\ pub_mutex = "process" <=> process_pc = "repub"

(***************************************************************************)
(* With one publishing thread the send quota stays between 0 and           *)
(* CORE_DEFAULT_SERVER_RECEIVE_MAX: the unguarded test in                  *)
(* _core_mqtt_check_flow_dec cannot make it wrap below zero.               *)
(***************************************************************************)
QuotaInRange == server_receive_max <= FlowMax

(***************************************************************************)
(* STATE_MQTT_RECEIVE_MAX_EXCEEDED says that the uplink QoS 1 packets      *)
(* exceed the limit: when the quota is used up and every thread is at      *)
(* rest, some packet is waiting for its PUBACK.                            *)
(***************************************************************************)
ExceededMeansOutstanding ==
  server_receive_max = 0 /\ (\A p \in Publishers : pc[p] = "idle") /\ recv_pc = "idle"
    => pub_list # {}

(***************************************************************************)
(* aiot_mqtt_process resends a message "until the PUBACK is received":     *)
(* every message taken reaches the broker and leaves pub_list.             *)
(***************************************************************************)
EventuallyAcked ==
  \A m \in Messages :
    (m \in accepted) ~> (m \in delivered /\ \A node \in pub_list : node.msg # m)
=============================================================================
