--------------------------- MODULE MqttPub_proofs ---------------------------
(***************************************************************************)
(* Proofs about MqttPub for any number of publishers, any packet           *)
(* identifier range and any bounds.                                        *)
(***************************************************************************)
EXTENDS MqttPub, FiniteSetTheorems, TLAPS

(* The quota arithmetic stays inside the uint16_t range. *)
LEMMA QuotaArithmetic ==
  ASSUME NEW q \in 0 .. QuotaModulus - 1
  PROVE  /\ (q + QuotaModulus - 1) % QuotaModulus \in 0 .. QuotaModulus - 1
         /\ q > 0 => (q + QuotaModulus - 1) % QuotaModulus = q - 1
         /\ (q + 1) % QuotaModulus \in 0 .. QuotaModulus - 1
         /\ Clamp((q + 1) % QuotaModulus) \in 0 .. FlowMax
<1>1. QuotaModulus \in Nat /\ FlowMax \in Nat /\ QuotaModulus > FlowMax + 1
  BY FlowAssumption
<1>2. (q + 1) % QuotaModulus \in 0 .. QuotaModulus - 1
  BY <1>1
<1>3. (q + QuotaModulus - 1) % QuotaModulus \in 0 .. QuotaModulus - 1
  BY <1>1
<1>4. ASSUME q > 0 PROVE (q + QuotaModulus - 1) % QuotaModulus = q - 1
  <2>1. q - 1 \in 0 .. QuotaModulus - 1  BY <1>1, <1>4
  <2>2. q + QuotaModulus - 1 = (q - 1) + QuotaModulus  BY <1>1
  <2>3. ((q - 1) + QuotaModulus) % QuotaModulus = q - 1  BY <1>1, <2>1
  <2> QED BY <2>2, <2>3
<1> QED BY <1>1, <1>2, <1>3, <1>4 DEF Clamp

LEMMA TypeInit == Init => TypeOK
  BY PacketIdAssumption, FlowAssumption, BoundsAssumption
     DEF Init, TypeOK, PubStates, RecvStates, ProcessStates, Links, Packet, BadAck

LEMMA TypeStep == TypeOK /\ [Next]_vars => TypeOK'
<1> SUFFICES ASSUME TypeOK, [Next]_vars PROVE TypeOK'
  OBVIOUS
<1> USE PacketIdAssumption, FlowAssumption, BoundsAssumption
    DEF TypeOK, Goto, client, threads, stream, history
<1>a. ASSUME NEW packet \in Packet, WriteOk(packet) PROVE toBroker' \in Seq(Packet)
  BY <1>a DEF WriteOk
<1>1. ASSUME NEW p \in Publishers, PubCheckFlow(p) PROVE TypeOK'
  BY <1>1 DEF PubCheckFlow, PubStates
<1>2. ASSUME NEW p \in Publishers, PubPacketId(p) PROVE TypeOK'
  BY <1>2 DEF PubPacketId, NextPacketId, PubStates, Packet, PacketIds, Messages, NoPacket
<1>3. ASSUME NEW p \in Publishers, PubReject(p) PROVE TypeOK'
  BY <1>3 DEF PubReject, PubStates
<1>4. ASSUME NEW p \in Publishers, PubInsert(p) PROVE TypeOK'
  BY <1>4 DEF PubInsert, PubStates, Packet, Messages
<1>5. ASSUME NEW p \in Publishers, PubRoll(p) PROVE TypeOK'
  BY <1>5 DEF PubRoll, PubStates
<1>6. ASSUME NEW p \in Publishers, PubWrite(p) PROVE TypeOK'
  <2>1. pkt[p] \in Packet  BY <1>6 DEF PubWrite
  <2>2. CASE WriteOk(pkt[p])  BY <1>6, <1>a, <2>1, <2>2 DEF PubWrite, WriteOk, PubStates
  <2>3. CASE WriteLess  BY <1>6, <2>3 DEF PubWrite, WriteLess, PubStates, Links
  <2>4. CASE WriteErr  BY <1>6, <2>4 DEF PubWrite, WriteErr, PubStates
  <2> QED BY <1>6, <2>2, <2>3, <2>4 DEF PubWrite
<1>7. ASSUME NEW p \in Publishers, PubClose(p) PROVE TypeOK'
  BY <1>7 DEF PubClose, CloseNetwork, PubStates, Links
<1>8. ASSUME NEW p \in Publishers, PubFlowTest(p) PROVE TypeOK'
  BY <1>8 DEF PubFlowTest, PubStates
<1>9. ASSUME NEW p \in Publishers, PubFlowDec(p) PROVE TypeOK'
  BY <1>9, QuotaArithmetic DEF PubFlowDec, PubStates
<1>10. ASSUME SubPacketId PROVE TypeOK'
  BY <1>10 DEF SubPacketId, NextPacketId
<1>11. ASSUME RecvPuback PROVE TypeOK'
  BY <1>11 DEF RecvPuback, RecvStates
<1>12. ASSUME RecvFlowInc PROVE TypeOK'
  <2>1. server_receive_max' \in 0 .. FlowMax  BY <1>12, QuotaArithmetic DEF RecvFlowInc
  <2> QED BY <1>12, <2>1 DEF RecvFlowInc, RecvStates
<1>13. ASSUME RecvRemove PROVE TypeOK'
  BY <1>13 DEF RecvRemove, IdInUse, RecvStates
<1>14. ASSUME RecvMalformed PROVE TypeOK'
  BY <1>14 DEF RecvMalformed, RecvStates
<1>15. ASSUME RecvReadErr PROVE TypeOK'
  BY <1>15 DEF RecvReadErr, RecvStates
<1>16. ASSUME RecvClose PROVE TypeOK'
  BY <1>16 DEF RecvClose, CloseNetwork, RecvStates, Links
<1>17. ASSUME RepubBegin PROVE TypeOK'
  BY <1>17 DEF RepubBegin, ProcessStates
<1>18. ASSUME NEW node, RepubSkip(node) PROVE TypeOK'
  BY <1>18 DEF RepubSkip
<1>19. ASSUME NEW node, RepubNode(node) PROVE TypeOK'
  BY <1>19, <1>a DEF RepubNode, WriteOk
<1>20. ASSUME NEW node, RepubFail(node) PROVE TypeOK'
  BY <1>20 DEF RepubFail, WriteLess, WriteErr, ProcessStates, Links
<1>21. ASSUME RepubClose PROVE TypeOK'
  BY <1>21 DEF RepubClose, CloseNetwork, ProcessStates, Links
<1>22. ASSUME RepubEnd PROVE TypeOK'
  BY <1>22 DEF RepubEnd, ProcessStates
<1>23. ASSUME NEW node, RepubTimeout(node) PROVE TypeOK'
  BY <1>23 DEF RepubTimeout, Packet
<1>24. ASSUME ClockBack PROVE TypeOK'
  BY <1>24 DEF ClockBack
<1>25. ASSUME Connect PROVE TypeOK'
  BY <1>25 DEF Connect, Links
<1>26. ASSUME LinkBreak PROVE TypeOK'
  BY <1>26 DEF LinkBreak, Links
<1>27. ASSUME BrokerDrop PROVE TypeOK'
  BY <1>27 DEF BrokerDrop, Links
<1>28. ASSUME BrokerPublish PROVE TypeOK'
  <2>1. Head(toBroker) \in Packet /\ toBroker' \in Seq(Packet)  BY <1>28 DEF BrokerPublish
  <2>2. Head(toBroker).id \in PacketIds /\ Head(toBroker).msg \in Messages  BY <2>1 DEF Packet
  <2>3. toClient' \in Seq(PacketIds \cup {BadAck})
    <3> DEFINE S == PacketIds \cup {BadAck}
    <3>1. Head(toBroker).id \in S /\ BadAck \in S /\ toClient \in Seq(S)  BY <2>2
    <3> HIDE DEF S
    <3>2. Append(toClient, Head(toBroker).id) \in Seq(S) /\ Append(toClient, BadAck) \in Seq(S)
      BY <3>1
    <3>3. toClient' \in {toClient, Append(toClient, Head(toBroker).id), Append(toClient, BadAck)}
      BY <1>28 DEF BrokerPublish
    <3> QED BY <3>1, <3>2, <3>3 DEF S
  <2> QED BY <1>28, <2>1, <2>2, <2>3 DEF BrokerPublish
<1>29. CASE UNCHANGED vars
  BY <1>29 DEF vars
<1> QED
  BY <1>1, <1>2, <1>3, <1>4, <1>5, <1>6, <1>7, <1>8, <1>9, <1>10, <1>11, <1>12, <1>13, <1>14, <1>15, <1>16, <1>17, <1>18, <1>19, <1>20, <1>21, <1>22, <1>23, <1>24, <1>25, <1>26, <1>27, <1>28, <1>29 DEF Next, Publisher, Receiver, Process

(* No behaviour of the publishing path leaves its types. *)
THEOREM TypeCorrect == Spec => []TypeOK
  BY TypeInit, TypeStep, PTL DEF Spec

-----------------------------------------------------------------------------
(* Only a successful insertion and a PUBACK change the list. *)
LEMMA ListChanges ==
  [Next]_vars => \/ UNCHANGED pub_list
                 \/ \E p \in Publishers : PubInsert(p)
                 \/ RecvRemove
  BY DEF Next, vars, client, Publisher, Receiver, Process, PubCheckFlow, PubPacketId, PubReject,
         PubRoll, PubWrite, PubClose, PubFlowTest, PubFlowDec, SubPacketId, RecvPuback, RecvFlowInc,
         RecvMalformed, RecvReadErr, RecvClose, RepubBegin, RepubSkip, RepubNode, RepubFail,
         RepubClose, RepubEnd, RepubTimeout, ClockBack, Connect, LinkBreak, BrokerDrop, BrokerPublish

(***************************************************************************)
(* A PUBACK names at most one waiting packet, for every range of packet    *)
(* identifiers, however often the counter wraps.                           *)
(***************************************************************************)
THEOREM UniqueIdsAlways == Spec => []UniqueIds
<1>1. Init => UniqueIds
  BY DEF Init, UniqueIds
<1>2. UniqueIds /\ [Next]_vars => UniqueIds'
  <2> SUFFICES ASSUME UniqueIds, [Next]_vars PROVE UniqueIds'
    OBVIOUS
  <2>1. CASE UNCHANGED pub_list  BY <2>1 DEF UniqueIds
  <2>2. ASSUME NEW p \in Publishers, PubInsert(p) PROVE UniqueIds'
    BY <2>2 DEF PubInsert, IdInUse, UniqueIds
  <2>3. CASE RecvRemove  BY <2>3 DEF RecvRemove, UniqueIds
  <2> QED BY <2>1, <2>2, <2>3, ListChanges
<1> QED BY <1>1, <1>2, PTL DEF Spec

-----------------------------------------------------------------------------
(* RepubSafe needs to know that a pass leaves nothing behind. *)
ProcessInv == RepubSafe /\ (process_pc # "repub" => todo = {})

LEMMA ProcessStep == ProcessInv /\ [Next]_vars => ProcessInv'
<1> SUFFICES ASSUME ProcessInv, [Next]_vars PROVE ProcessInv'
  OBVIOUS
<1> USE DEF ProcessInv, RepubSafe
<1>1. ASSUME NEW p \in Publishers, PubInsert(p) PROVE ProcessInv'
  BY <1>1 DEF PubInsert
<1>2. CASE RecvRemove  BY <1>2 DEF RecvRemove
<1>3. CASE RepubBegin  BY <1>3 DEF RepubBegin
<1>4. ASSUME NEW node, RepubSkip(node) PROVE ProcessInv'
  BY <1>4 DEF RepubSkip, client
<1>5. ASSUME NEW node, RepubNode(node) PROVE ProcessInv'
  BY <1>5 DEF RepubNode, client
<1>6. ASSUME NEW node, RepubFail(node) PROVE ProcessInv'
  BY <1>6 DEF RepubFail
<1>7. CASE RepubClose  BY <1>7 DEF RepubClose, client
<1>8. CASE RepubEnd  BY <1>8 DEF RepubEnd
<1>9. CASE UNCHANGED <<pub_list, pub_mutex, process_pc, todo>>  BY <1>9
<1> QED
  BY <1>1, <1>2, <1>3, <1>4, <1>5, <1>6, <1>7, <1>8, <1>9
  DEF Next, vars, client, threads, Publisher, Receiver, Process, PubCheckFlow, PubPacketId, PubReject,
      PubRoll, PubWrite, PubClose, PubFlowTest, PubFlowDec, SubPacketId, RecvPuback, RecvFlowInc,
      RecvMalformed, RecvReadErr, RecvClose, RepubTimeout, ClockBack, Connect, LinkBreak, BrokerDrop,
      BrokerPublish

(* A resend pass never meets a node that a PUBACK freed under its feet. *)
THEOREM RepubSafeAlways == Spec => []RepubSafe
<1>1. Init => ProcessInv  BY DEF Init, ProcessInv, RepubSafe
<1>2. ProcessInv => RepubSafe  BY DEF ProcessInv
<1> QED BY <1>1, <1>2, ProcessStep, PTL DEF Spec

-----------------------------------------------------------------------------
(***************************************************************************)
(* With a single publisher the quota is positive whenever the publisher    *)
(* has decided to decrement it, because nobody else decrements it.         *)
(***************************************************************************)
QuotaInv ==
  /\ server_receive_max \in 0 .. FlowMax
  /\ \A p \in Publishers : pc[p] = "flow_dec" => server_receive_max > 0

LEMMA QuotaStep ==
  ASSUME \A p, q \in Publishers : p = q
  PROVE  TypeOK /\ QuotaInv /\ [Next]_vars => QuotaInv'
<1> SUFFICES ASSUME TypeOK, QuotaInv, [Next]_vars PROVE QuotaInv'
  OBVIOUS
<1>0. FlowMax \in Nat /\ QuotaModulus \in Nat /\ FlowMax + 1 < QuotaModulus  BY FlowAssumption
<1>1. ASSUME NEW p \in Publishers, PubFlowDec(p) PROVE QuotaInv'
  <2>1. server_receive_max \in 0 .. QuotaModulus - 1 /\ server_receive_max > 0
    BY <1>0, <1>1 DEF QuotaInv, PubFlowDec
  <2>2. server_receive_max' = server_receive_max - 1
    BY <1>1, <2>1, QuotaArithmetic DEF PubFlowDec
  <2>3. \A q \in Publishers : pc'[q] = "idle"
    BY <1>1 DEF PubFlowDec, Goto, TypeOK
  <2> QED BY <1>0, <2>1, <2>2, <2>3 DEF QuotaInv
<1>2. CASE RecvFlowInc
  <2>1. server_receive_max \in 0 .. QuotaModulus - 1  BY <1>0 DEF QuotaInv
  <2>2. (server_receive_max + 1) % QuotaModulus = server_receive_max + 1
    BY <1>0 DEF QuotaInv
  <2>3. server_receive_max' = Clamp(server_receive_max + 1)
    BY <1>2, <2>2 DEF RecvFlowInc
  <2> QED BY <1>0, <1>2, <2>3 DEF QuotaInv, Clamp, RecvFlowInc
<1>3. ASSUME UNCHANGED server_receive_max,
             \A p \in Publishers : pc'[p] = "flow_dec" => pc[p] = "flow_dec" \/ server_receive_max > 0
      PROVE  QuotaInv'
  BY <1>3 DEF QuotaInv
<1>4. ASSUME NEW p \in Publishers, Publisher(p), ~PubFlowDec(p) PROVE QuotaInv'
  BY <1>3, <1>4 DEF Publisher, Goto, TypeOK, client, PubCheckFlow, PubPacketId, PubReject, PubInsert,
     PubRoll, PubWrite, PubClose, PubFlowTest
<1>5. CASE UNCHANGED <<server_receive_max, pc>>
  BY <1>3, <1>5
<1> QED
  BY <1>1, <1>2, <1>4, <1>5
  DEF Next, vars, client, threads, Receiver, Process, SubPacketId, RecvPuback, RecvRemove,
      RecvMalformed, RecvReadErr, RecvClose, RepubBegin, RepubSkip, RepubNode, RepubFail, RepubClose,
      RepubEnd, RepubTimeout, ClockBack, Connect, LinkBreak, BrokerDrop, BrokerPublish

(***************************************************************************)
(* A program that publishes from one thread never sees the send quota      *)
(* leave 0 .. FlowMax, although the code tests it outside of pub_mutex.    *)
(***************************************************************************)
THEOREM QuotaInRangeOnePublisher ==
  ASSUME \A p, q \in Publishers : p = q
  PROVE  Spec => []QuotaInRange
<1>1. Init => QuotaInv  BY FlowAssumption DEF Init, QuotaInv
<1>2. QuotaInv => QuotaInRange  BY FlowAssumption DEF QuotaInv, QuotaInRange
<1> QED BY <1>1, <1>2, TypeCorrect, QuotaStep, PTL DEF Spec

-----------------------------------------------------------------------------
(***************************************************************************)
(* At-least-once delivery while the identifiers have not wrapped.  Then    *)
(* the identifier of a packet is the number of its message, so an          *)
(* acknowledgement on its way to the client names a message that the       *)
(* broker has; the list may forget that message.                           *)
(***************************************************************************)
PacketInv ==
  /\ packet_id = allocs
  /\ accepted \subseteq 1 .. allocs
  /\ \A p \in Publishers :
       /\ pc[p] \in {"insert", "write"} => pkt[p].id = pkt[p].msg /\ pkt[p].msg <= allocs
       /\ pc[p] = "insert" => pkt[p].msg \notin accepted
       /\ pc[p] = "write" => pkt[p].msg \in accepted
  /\ \A p, q \in Publishers :
       p # q /\ pc[p] = "insert" /\ pc[q] = "insert" => pkt[p].msg # pkt[q].msg

ListInv == \A node \in pub_list : node.id = node.msg /\ node.msg \in accepted

StreamInv ==
  \A i \in 1 .. Len(toBroker) :
    toBroker[i].id = toBroker[i].msg /\ toBroker[i].msg \in accepted

AckInv ==
  /\ \A i \in 1 .. Len(toClient) : toClient[i] \in delivered \cup {BadAck}
  /\ recv_pc \in {"flow_inc", "remove"} => ack \in delivered \cup {BadAck}

DeliveryInv == PacketInv /\ ListInv /\ StreamInv /\ AckInv /\ NotLost

LEMMA DeliveryStep ==
  ASSUME MaxAllocs <= MaxPacketId
  PROVE  TypeOK /\ ProcessInv /\ DeliveryInv /\ [Next]_vars => DeliveryInv'
<1> SUFFICES ASSUME TypeOK, ProcessInv, DeliveryInv, [Next]_vars PROVE DeliveryInv'
  OBVIOUS
<1>0. MaxAllocs \in Nat /\ MaxPacketId \in Nat  BY BoundsAssumption, PacketIdAssumption
<1>a. \A q \in Publishers : pc[q] \in {"insert", "write"} => pkt[q] \in Packet /\ pkt[q].msg \in Nat
  BY DEF TypeOK, Packet, Messages
<1>b. ASSUME UNCHANGED <<packet_id, accepted, allocs>>,
             \A q \in Publishers : pc'[q] \in {"insert", "write"} => pc'[q] = pc[q] /\ pkt'[q] = pkt[q]
      PROVE  PacketInv'
  BY <1>b DEF DeliveryInv, PacketInv
<1>c. ASSUME UNCHANGED <<pub_list, accepted, delivered>> PROVE ListInv' /\ NotLost'
  BY <1>c DEF DeliveryInv, ListInv, NotLost
<1>d. ASSUME UNCHANGED <<toBroker, accepted>> PROVE StreamInv'
  BY <1>d DEF DeliveryInv, StreamInv
<1>e. ASSUME UNCHANGED delivered, toClient' \in {toClient, <<>>},
             recv_pc' \in {"flow_inc", "remove"} => recv_pc \in {"flow_inc", "remove"} /\ ack' = ack
      PROVE  AckInv'
  BY <1>e DEF DeliveryInv, AckInv
<1>1. ASSUME NEW p \in Publishers, PubPacketId(p) PROVE DeliveryInv'
  <2>1. NextPacketId = allocs + 1
    BY <1>0, <1>1 DEF PubPacketId, NextPacketId, DeliveryInv, PacketInv, TypeOK
  <2>2. PacketInv'
    <3>1. /\ pkt'[p] = [id |-> allocs + 1, msg |-> allocs + 1]
          /\ pc'[p] = "insert"
          /\ \A q \in Publishers \ {p} : pkt'[q] = pkt[q] /\ pc'[q] = pc[q]
      BY <1>1, <2>1 DEF PubPacketId, Goto, TypeOK
    <3>2. packet_id' = allocs + 1 /\ allocs' = allocs + 1 /\ accepted' = accepted
      BY <1>1, <2>1 DEF PubPacketId
    <3>3. allocs \in Nat /\ accepted \subseteq 1 .. allocs  BY DEF TypeOK, DeliveryInv, PacketInv
    <3>4. allocs + 1 \notin accepted  BY <3>3
    <3> QED BY <1>a, <3>1, <3>2, <3>3, <3>4 DEF DeliveryInv, PacketInv
  <2> QED
    BY <1>1, <2>2 DEF PubPacketId, stream, DeliveryInv, ListInv, StreamInv, AckInv, NotLost
<1>2. ASSUME NEW p \in Publishers, PubInsert(p) PROVE DeliveryInv'
  <2>1. PacketInv'
    <3>1. /\ pc[p] = "insert" /\ pc'[p] = "write"
          /\ \A q \in Publishers \ {p} : pc'[q] = pc[q]
      BY <1>2 DEF PubInsert, Goto, TypeOK
    <3>2. accepted' = accepted \cup {pkt[p].msg} /\ UNCHANGED <<packet_id, allocs, pkt>>
      BY <1>2 DEF PubInsert
    <3>3. pkt[p] \in Packet /\ pkt[p].msg \in 1 .. allocs
      BY <1>a, <3>1 DEF DeliveryInv, PacketInv, TypeOK, Packet, Messages
    <3>4. \A q \in Publishers \ {p} : pc[q] = "insert" => pkt[q].msg # pkt[p].msg
      BY <3>1 DEF DeliveryInv, PacketInv
    <3>5. accepted' \subseteq 1 .. allocs' /\ packet_id' = allocs'
      BY <3>2, <3>3 DEF DeliveryInv, PacketInv
    <3> QED BY <3>1, <3>2, <3>4, <3>5 DEF DeliveryInv, PacketInv
  <2> QED
    BY <1>2, <2>1 DEF PubInsert, stream, DeliveryInv, PacketInv, ListInv, StreamInv, AckInv, NotLost
<1>3. ASSUME NEW packet \in Packet, packet.id = packet.msg, packet.msg \in accepted, WriteOk(packet),
             UNCHANGED accepted
      PROVE  StreamInv'
  BY <1>3 DEF WriteOk, DeliveryInv, StreamInv, TypeOK
<1>4. ASSUME NEW p \in Publishers, PubWrite(p) PROVE DeliveryInv'
  <2>1. pkt[p] \in Packet /\ pkt[p].id = pkt[p].msg /\ pkt[p].msg \in accepted
    BY <1>4 DEF PubWrite, TypeOK, DeliveryInv, PacketInv
  <2>2. PacketInv'
    BY <1>4 DEF PubWrite, Goto, client, DeliveryInv, PacketInv, TypeOK
  <2>3. StreamInv'
    BY <1>3, <1>4, <2>1 DEF PubWrite, WriteLess, WriteErr, stream, DeliveryInv, StreamInv
  <2> QED
    BY <1>4, <2>2, <2>3
    DEF PubWrite, WriteOk, WriteLess, WriteErr, client, stream, DeliveryInv, ListInv, AckInv, NotLost
<1>5. ASSUME NEW p \in Publishers,
             PubCheckFlow(p) \/ PubReject(p) \/ PubRoll(p) \/ PubClose(p) \/ PubFlowTest(p) \/ PubFlowDec(p)
      PROVE  DeliveryInv'
  <2> USE DEF PubCheckFlow, PubReject, PubRoll, PubClose, PubFlowTest, PubFlowDec, CloseNetwork, client,
              stream, history
  <2>1. PacketInv'
    <3>1. \A q \in Publishers : pc'[q] \in {"insert", "write"} => pc'[q] = pc[q] /\ pkt'[q] = pkt[q]
      BY <1>5 DEF Goto, TypeOK
    <3> QED BY <1>5, <1>b, <3>1
  <2>2. UNCHANGED <<pub_list, accepted, delivered, toBroker, recv_pc, ack>> /\ toClient' \in {toClient, <<>>}
    BY <1>5
  <2> QED BY <1>c, <1>d, <1>e, <2>1, <2>2 DEF DeliveryInv
<1>6. CASE SubPacketId
  <2>1. NextPacketId = allocs + 1
    BY <1>0, <1>6 DEF SubPacketId, NextPacketId, DeliveryInv, PacketInv, TypeOK
  <2>2. PacketInv'
    BY <1>0, <1>6, <2>1 DEF SubPacketId, threads, DeliveryInv, PacketInv, TypeOK, Packet, Messages, NoPacket
  <2> QED
    BY <1>6, <2>2 DEF SubPacketId, threads, stream, DeliveryInv, ListInv, StreamInv, AckInv, NotLost
<1>7. CASE RecvPuback
  BY <1>7 DEF RecvPuback, client, history, TypeOK, DeliveryInv, PacketInv, ListInv, StreamInv, AckInv, NotLost
<1>8. CASE RecvRemove
  <2>1. ack \in delivered  BY <1>8 DEF RecvRemove, DeliveryInv, AckInv
  <2>2. NotLost'  BY <1>8, <2>1 DEF RecvRemove, history, DeliveryInv, NotLost, ListInv
  <2> QED BY <1>8, <2>2 DEF RecvRemove, history, stream, DeliveryInv, PacketInv, ListInv, StreamInv, AckInv
<1>9. CASE RecvFlowInc \/ RecvMalformed \/ RecvReadErr \/ RecvClose
  <2>1. /\ UNCHANGED <<packet_id, pub_list, accepted, allocs, delivered, toBroker, pc, pkt, ack>>
        /\ toClient' \in {toClient, <<>>}
        /\ recv_pc' \in {"flow_inc", "remove"} => recv_pc \in {"flow_inc", "remove"}
    BY <1>9 DEF RecvFlowInc, RecvMalformed, RecvReadErr, RecvClose, CloseNetwork, client, stream, history
  <2> QED BY <1>b, <1>c, <1>d, <1>e, <2>1 DEF DeliveryInv
<1>10. ASSUME NEW node \in todo, RepubNode(node) PROVE DeliveryInv'
  <2>1. node \in Packet /\ node.id = node.msg /\ node.msg \in accepted
    BY <1>10 DEF TypeOK, ProcessInv, RepubSafe, DeliveryInv, ListInv
  <2>2. StreamInv'  BY <1>3, <1>10, <2>1 DEF RepubNode
  <2> QED
    BY <1>10, <2>2 DEF RepubNode, WriteOk, client, DeliveryInv, PacketInv, ListInv, AckInv, NotLost
<1>11. ASSUME NEW node, RepubSkip(node) \/ RepubFail(node) \/ RepubTimeout(node) PROVE DeliveryInv'
  <2>1. UNCHANGED <<packet_id, pub_list, accepted, allocs, delivered, toBroker, toClient, pc, pkt, ack, recv_pc>>
    BY <1>11 DEF RepubSkip, RepubFail, RepubTimeout, WriteLess, WriteErr, client, threads, stream, history
  <2> QED BY <1>b, <1>c, <1>d, <1>e, <2>1 DEF DeliveryInv
<1>12. CASE RepubBegin \/ RepubClose \/ RepubEnd \/ ClockBack \/ LinkBreak \/ BrokerDrop
  <2>1. /\ UNCHANGED <<packet_id, pub_list, accepted, allocs, delivered, toBroker, pc, pkt, ack, recv_pc>>
        /\ toClient' \in {toClient, <<>>}
    BY <1>12 DEF RepubBegin, RepubClose, RepubEnd, ClockBack, LinkBreak, BrokerDrop, CloseNetwork, client,
       threads, stream, history
  <2> QED BY <1>b, <1>c, <1>d, <1>e, <2>1 DEF DeliveryInv
<1>13. CASE Connect
  BY <1>13 DEF Connect, client, threads, history, DeliveryInv, PacketInv, ListInv, StreamInv, AckInv, NotLost
<1>14. CASE BrokerPublish
  <2>1. Head(toBroker).id = Head(toBroker).msg
    BY <1>14 DEF BrokerPublish, DeliveryInv, StreamInv, TypeOK
  <2>2. StreamInv'
    BY <1>14 DEF BrokerPublish, DeliveryInv, StreamInv, TypeOK
  <2>3. AckInv'
    <3>1. toClient' \in {toClient, Append(toClient, Head(toBroker).msg), Append(toClient, BadAck)}
      BY <1>14, <2>1 DEF BrokerPublish
    <3>2. delivered' = delivered \cup {Head(toBroker).msg} /\ UNCHANGED <<recv_pc, ack>>
      BY <1>14 DEF BrokerPublish, threads
    <3>3. toClient \in Seq(PacketIds \cup {BadAck})  BY DEF TypeOK
    <3>4. ASSUME NEW x \in delivered' \cup {BadAck}, toClient' = Append(toClient, x)
          PROVE  \A i \in 1 .. Len(toClient') : toClient'[i] \in delivered' \cup {BadAck}
      BY <3>2, <3>3, <3>4 DEF DeliveryInv, AckInv
    <3> QED BY <3>1, <3>2, <3>4 DEF DeliveryInv, AckInv
  <2> QED
    BY <1>14, <2>2, <2>3 DEF BrokerPublish, client, threads, DeliveryInv, PacketInv, ListInv, NotLost
<1>15. CASE UNCHANGED vars
  BY <1>15 DEF vars, client, threads, stream, history, DeliveryInv, PacketInv, ListInv, StreamInv, AckInv, NotLost
<1> QED
  BY <1>1, <1>2, <1>4, <1>5, <1>6, <1>7, <1>8, <1>9, <1>10, <1>11, <1>12, <1>13, <1>14, <1>15
  DEF Next, Publisher, Receiver, Process

LEMMA DeliveryAlways ==
  ASSUME MaxAllocs <= MaxPacketId
  PROVE  Spec => [](TypeOK /\ ProcessInv /\ DeliveryInv)
<1>1. Init => ProcessInv  BY DEF Init, ProcessInv, RepubSafe
<1>2. Init => DeliveryInv
  BY DEF Init, DeliveryInv, PacketInv, ListInv, StreamInv, AckInv, NotLost
<1> QED BY <1>1, <1>2, TypeCorrect, ProcessStep, DeliveryStep, PTL DEF Spec

(* An accepted message is at the broker, or still in pub_list. *)
THEOREM NotLostWithoutWrap ==
  ASSUME MaxAllocs <= MaxPacketId
  PROVE  Spec => []NotLost
<1>1. DeliveryInv => NotLost  BY DEF DeliveryInv
<1> QED BY <1>1, DeliveryAlways, PTL

-----------------------------------------------------------------------------
(* Only four actions move the variables that QoS1Delivery sees. *)
LEMMA DeliveryChanges ==
  [Next]_vars => \/ UNCHANGED <<accepted, pub_list, delivered>>
                 \/ \E p \in Publishers : PubInsert(p)
                 \/ RecvRemove
                 \/ BrokerPublish
  BY DEF Next, vars, client, history, Publisher, Receiver, Process, PubCheckFlow, PubPacketId, PubReject,
         PubRoll, PubWrite, PubClose, PubFlowTest, PubFlowDec, SubPacketId, RecvPuback, RecvFlowInc,
         RecvMalformed, RecvReadErr, RecvClose, RepubBegin, RepubSkip, RepubNode, RepubFail,
         RepubClose, RepubEnd, RepubTimeout, ClockBack, Connect, LinkBreak, BrokerDrop

(***************************************************************************)
(* The publishing path implements QoS1Delivery while the identifiers have  *)
(* not wrapped: an insertion accepts, the broker's receipt delivers, and a *)
(* PUBACK completes its message, which the broker has.                     *)
(***************************************************************************)
THEOREM ImplementsDelivery ==
  ASSUME MaxAllocs <= MaxPacketId
  PROVE  Spec => AtLeastOnce
<1> DEFINE pending == {node.msg : node \in pub_list}
<1>1. Init => Delivery!Init
  BY DEF Init, Delivery!Init
<1>2. TypeOK /\ ProcessInv /\ DeliveryInv /\ [Next]_vars => [Delivery!Next]_<<accepted, pending, delivered>>
  <2> SUFFICES ASSUME TypeOK, DeliveryInv, [Next]_vars
               PROVE  [Delivery!Next]_<<accepted, pending, delivered>>
    OBVIOUS
  <2>1. ASSUME NEW p \in Publishers, PubInsert(p) PROVE Delivery!Next
    <3>1. PICK m \in Messages : m = pkt[p].msg
      BY <2>1 DEF PubInsert, TypeOK, Packet
    <3>2. m \notin accepted /\ pending' = pending \cup {m}
      BY <2>1, <3>1 DEF PubInsert, DeliveryInv, PacketInv
    <3>3. Delivery!Accept(m)
      BY <2>1, <3>1, <3>2 DEF PubInsert, Delivery!Accept
    <3> QED BY <3>3 DEF Delivery!Next
  <2>2. CASE RecvRemove
    <3>1. UNCHANGED <<accepted, delivered>>  BY <2>2 DEF RecvRemove, history
    <3>2. CASE UNCHANGED pub_list  BY <3>1, <3>2
    <3>3. ASSUME NEW node \in pub_list, node.id = ack, pub_list' = pub_list \ {node}
          PROVE  Delivery!Next
      <4>1. node.msg \in Messages /\ node.msg \in pending /\ node.msg \in delivered
        BY <2>2, <3>3 DEF TypeOK, Packet, RecvRemove, DeliveryInv, ListInv, AckInv
      <4>2. \A n \in pub_list : n.msg = node.msg => n = node
        BY DEF TypeOK, Packet, DeliveryInv, ListInv
      <4>3. pending' = pending \ {node.msg}  BY <3>3, <4>2
      <4>4. Delivery!Complete(node.msg)  BY <3>1, <4>1, <4>3 DEF Delivery!Complete
      <4> QED BY <4>1, <4>4 DEF Delivery!Next
    <3> QED BY <2>2, <3>2, <3>3 DEF RecvRemove
  <2>3. CASE BrokerPublish
    <3>1. Head(toBroker).msg \in Messages /\ Head(toBroker).msg \in accepted
      BY <2>3 DEF BrokerPublish, TypeOK, Packet, DeliveryInv, StreamInv
    <3>2. Delivery!Deliver(Head(toBroker).msg)
      BY <2>3, <3>1 DEF BrokerPublish, client, Delivery!Deliver
    <3> QED BY <3>1, <3>2 DEF Delivery!Next
  <2>4. CASE UNCHANGED <<accepted, pub_list, delivered>>  BY <2>4
  <2> QED BY <2>1, <2>2, <2>3, <2>4, DeliveryChanges
<1> QED BY <1>1, <1>2, DeliveryAlways, PTL DEF Spec, AtLeastOnce, Delivery!Spec

-----------------------------------------------------------------------------
(***************************************************************************)
(* The send quota without the race.  ExceededMeansOutstanding fails when   *)
(* the PUBACK of a packet is handled while the call that publishes it has  *)
(* still to decrement the quota.  The theorem says that nothing else makes *)
(* it fail: not lost or duplicate acknowledgements, not resending, not     *)
(* identifiers that wrap, not even a quota that two publishers have        *)
(* decremented below zero.                                                 *)
(***************************************************************************)
Publishing(p) == pc[p] \in {"write", "flow_test", "flow_dec"}

\* No PUBACK is handled while the call that publishes its packet is under way.
NoOverlap ==
  \A p \in Publishers : Publishing(p) /\ recv_pc \in {"flow_inc", "remove"} => pkt[p].id # ack

\* The packets that account for a credit taken and not given back: the quota
\* of a packet is taken at the end of its call, and given back before the
\* PUBACK takes the packet out of the list.
Backed ==
  {node \in pub_list : /\ \A p \in Publishers : Publishing(p) => pkt[p] # node
                       /\ recv_pc = "remove" => node.id # ack}

\* Each call under way has a node of its own in the list.
CallInv ==
  /\ IsFiniteSet(pub_list)
  /\ \A p \in Publishers : Publishing(p) => pkt[p] \in pub_list
  /\ \A p, q \in Publishers : Publishing(p) /\ Publishing(q) /\ p # q => pkt[p] # pkt[q]

\* No more credits are missing than such packets; above FlowMax the quota
\* stands for a number below zero.
CreditInv ==
  FlowMax + (IF server_receive_max > FlowMax THEN QuotaModulus ELSE 0)
    <= server_receive_max + Cardinality(Backed)

LEMMA BackedFinite ==
  ASSUME CallInv
  PROVE  IsFiniteSet(Backed) /\ Cardinality(Backed) \in Nat
<1>1. Backed \subseteq pub_list
  BY DEF Backed
<1> QED
  BY <1>1, FS_Subset, FS_CardinalityType DEF CallInv

\* A step of publisher p alone, with its packet.
LEMMA PublisherMoves ==
  ASSUME TypeOK, NEW p \in Publishers, NEW state, Goto(p, state)
  PROVE  /\ pc'[p] = state
         /\ \A q \in Publishers \ {p} : pc'[q] = pc[q]
  BY DEF Goto, TypeOK

\* Insertion: a new node that belongs to its publisher.
LEMMA CreditInsert ==
  ASSUME TypeOK, CallInv, NEW p \in Publishers, PubInsert(p)
  PROVE  CallInv' /\ Backed' = Backed /\ UNCHANGED server_receive_max
<1>1. /\ pc'[p] = "write" /\ pc[p] = "insert"
      /\ \A q \in Publishers \ {p} : pc'[q] = pc[q]
      /\ pub_list' = pub_list \cup {pkt[p]} /\ pkt[p] \notin pub_list
      /\ UNCHANGED <<pkt, recv_pc, ack, server_receive_max>>
  BY PublisherMoves DEF PubInsert, IdInUse
<1>2. IsFiniteSet(pub_list')
  BY <1>1, FS_AddElement DEF CallInv
<1>3. CallInv'
  BY <1>1, <1>2 DEF CallInv, Publishing
<1>4. \A node \in pub_list : node \in Backed' <=> node \in Backed
  BY <1>1 DEF Backed, Publishing
<1>5. pkt[p] \notin Backed' /\ pkt[p] \notin Backed
  BY <1>1 DEF Backed, Publishing
<1>6. Backed \subseteq pub_list /\ Backed' \subseteq pub_list \cup {pkt[p]}
  BY <1>1 DEF Backed
<1> QED
  BY <1>1, <1>3, <1>4, <1>5, <1>6

\* The end of a call without a decrement, and every other step of a
\* publisher: the packets accounted for can only become more.
LEMMA CreditPublisher ==
  ASSUME TypeOK, CallInv, NEW p \in Publishers, Publisher(p), ~PubInsert(p), ~PubFlowDec(p)
  PROVE  CallInv' /\ Backed \subseteq Backed' /\ UNCHANGED server_receive_max
<1>1. UNCHANGED <<pub_list, recv_pc, ack, server_receive_max>>
  BY DEF Publisher, PubCheckFlow, PubPacketId, PubReject, PubRoll, PubWrite, PubClose, PubFlowTest, client
<1>2. /\ \A q \in Publishers \ {p} : pc'[q] = pc[q] /\ pkt'[q] = pkt[q]
      /\ Publishing(p)' => Publishing(p) /\ pkt'[p] = pkt[p]
  BY DEF Publisher, PubCheckFlow, PubPacketId, PubReject, PubRoll, PubWrite, PubClose, PubFlowTest,
         Goto, Publishing, TypeOK
<1>3. CallInv'
  BY <1>1, <1>2 DEF CallInv, Publishing
<1>4. Backed \subseteq Backed'
  BY <1>1, <1>2 DEF Backed, Publishing
<1> QED
  BY <1>1, <1>3, <1>4

\* The decrement: the packet is in the list, and accounts for it from now on.
LEMMA CreditDec ==
  ASSUME TypeOK, CallInv, NoOverlap, NEW p \in Publishers, PubFlowDec(p)
  PROVE  /\ CallInv'
         /\ Cardinality(Backed') = Cardinality(Backed) + 1
<1>1. /\ pc'[p] = "idle" /\ pc[p] = "flow_dec"
      /\ \A q \in Publishers \ {p} : pc'[q] = pc[q]
      /\ UNCHANGED <<pub_list, pkt, recv_pc, ack>>
  BY PublisherMoves DEF PubFlowDec
<1>2. CallInv'
  BY <1>1 DEF CallInv, Publishing
<1>3. pkt[p] \in Backed' /\ pkt[p] \notin Backed
  BY <1>1 DEF Backed, Publishing, CallInv, NoOverlap
<1>4. \A node \in pub_list : node # pkt[p] => (node \in Backed' <=> node \in Backed)
  BY <1>1 DEF Backed, Publishing
<1>5. Backed \subseteq pub_list /\ Backed' \subseteq pub_list
  BY <1>1 DEF Backed
<1>6. Backed' = Backed \cup {pkt[p]}
  BY <1>3, <1>4, <1>5
<1> QED
  BY <1>2, <1>3, <1>6, BackedFinite, FS_AddElement

\* The increment: at most the packet of the PUBACK no longer counts.
LEMMA CreditInc ==
  ASSUME TypeOK, UniqueIds, CallInv, RecvFlowInc
  PROVE  /\ CallInv'
         /\ Cardinality(Backed) <= Cardinality(Backed') + 1
         /\ Cardinality(Backed') \in Nat
<1>1. /\ recv_pc = "flow_inc" /\ recv_pc' = "remove"
      /\ UNCHANGED <<pub_list, pc, pkt, ack>>
  BY DEF RecvFlowInc
<1>2. CallInv'
  BY <1>1 DEF CallInv, Publishing
<1>3. Backed' = {node \in Backed : node.id # ack}
  BY <1>1 DEF Backed, Publishing
<1>4. IsFiniteSet(Backed) /\ Cardinality(Backed) \in Nat
  BY BackedFinite
<1>5. CASE \E node \in Backed : node.id = ack
  <2>1. PICK node \in Backed : node.id = ack
    BY <1>5
  <2>2. \A n \in Backed : n.id = ack <=> n = node
    BY <2>1 DEF UniqueIds, Backed
  <2>3. Backed' = Backed \ {node}
    BY <1>3, <2>2
  <2>4. Cardinality(Backed') = Cardinality(Backed) - 1 /\ Cardinality(Backed') \in Nat
    BY <1>4, <2>1, <2>3, FS_RemoveElement, FS_CardinalityType
  <2> QED
    BY <1>2, <1>4, <2>4
<1>6. CASE ~\E node \in Backed : node.id = ack
  <2>1. Backed' = Backed
    BY <1>3, <1>6
  <2> QED
    BY <1>2, <1>4, <2>1
<1> QED
  BY <1>5, <1>6

\* The removal: the packet was not counted any more.
LEMMA CreditRemove ==
  ASSUME TypeOK, UniqueIds, CallInv, NoOverlap, RecvRemove
  PROVE  CallInv' /\ Backed' = Backed /\ UNCHANGED server_receive_max
<1>1. /\ recv_pc = "remove" /\ recv_pc' = "idle"
      /\ UNCHANGED <<pc, pkt, ack, server_receive_max>>
      /\ pub_list' \subseteq pub_list
      /\ \A node \in pub_list : node \in pub_list' <=> node.id # ack
  BY DEF RecvRemove, IdInUse, UniqueIds
<1>2. IsFiniteSet(pub_list')
  BY <1>1, FS_Subset DEF CallInv
<1>3. CallInv'
  BY <1>1, <1>2 DEF CallInv, Publishing, NoOverlap
<1>4. Backed' = Backed
  BY <1>1 DEF Backed, Publishing
<1> QED
  BY <1>1, <1>3, <1>4

\* The quota arithmetic, with a quota above FlowMax for one below zero.
LEMMA CreditArithmetic ==
  ASSUME NEW q \in 0 .. QuotaModulus - 1, NEW b \in Nat,
         FlowMax + (IF q > FlowMax THEN QuotaModulus ELSE 0) <= q + b
  PROVE  /\ LET dec == (q + QuotaModulus - 1) % QuotaModulus
            IN  FlowMax + (IF dec > FlowMax THEN QuotaModulus ELSE 0) <= dec + (b + 1)
         /\ \A c \in Nat :
              b <= c + 1 =>
                LET inc == Clamp((q + 1) % QuotaModulus)
                IN  FlowMax + (IF inc > FlowMax THEN QuotaModulus ELSE 0) <= inc + c
<1>1. QuotaModulus \in Nat /\ FlowMax \in Nat /\ QuotaModulus > FlowMax + 1
  BY FlowAssumption
<1> DEFINE dec == (q + QuotaModulus - 1) % QuotaModulus
           inc == Clamp((q + 1) % QuotaModulus)
<1>2. dec = IF q = 0 THEN QuotaModulus - 1 ELSE q - 1
  <2>1. CASE q = 0
    BY <1>1, <2>1
  <2>2. CASE q # 0
    BY <1>1, <2>2, QuotaArithmetic
  <2> QED
    BY <2>1, <2>2
<1>3. FlowMax + (IF dec > FlowMax THEN QuotaModulus ELSE 0) <= dec + (b + 1)
  <2> HIDE DEF dec
  <2> QED
    BY <1>1, <1>2
<1>4. (q + 1) % QuotaModulus = IF q = QuotaModulus - 1 THEN 0 ELSE q + 1
  BY <1>1
<1>5. inc = IF q = QuotaModulus - 1 THEN 0 ELSE IF q + 1 > FlowMax THEN FlowMax ELSE q + 1
  BY <1>1, <1>4 DEF Clamp
<1>6. ASSUME NEW c \in Nat, b <= c + 1
      PROVE  FlowMax + (IF inc > FlowMax THEN QuotaModulus ELSE 0) <= inc + c
  <2> HIDE DEF inc
  <2> QED
    BY <1>1, <1>5, <1>6
<1> QED
  BY <1>3, <1>6

LEMMA CreditStep ==
  ASSUME FlowControl
  PROVE  TypeOK /\ UniqueIds /\ CallInv /\ CreditInv /\ NoOverlap /\ [Next]_vars => CallInv' /\ CreditInv'
<1> SUFFICES ASSUME TypeOK, UniqueIds, CallInv, CreditInv, NoOverlap, [Next]_vars
             PROVE  CallInv' /\ CreditInv'
  OBVIOUS
<1>0. /\ QuotaModulus \in Nat /\ FlowMax \in Nat
      /\ server_receive_max \in 0 .. QuotaModulus - 1
      /\ Cardinality(Backed) \in Nat
  BY FlowAssumption, BackedFinite DEF TypeOK
<1>1. ASSUME CallInv', Backed \subseteq Backed', UNCHANGED server_receive_max
      PROVE  CallInv' /\ CreditInv'
  <2>1. IsFiniteSet(Backed') /\ Cardinality(Backed') \in Nat
    <3>1. Backed' \subseteq pub_list'
      BY DEF Backed
    <3> QED
      BY <1>1, <3>1, FS_Subset, FS_CardinalityType DEF CallInv
  <2>2. Cardinality(Backed) <= Cardinality(Backed')
    BY <1>1, <2>1, FS_Subset
  <2> QED
    BY <1>0, <1>1, <2>1, <2>2 DEF CreditInv
<1>2. ASSUME NEW p \in Publishers, Publisher(p) PROVE CallInv' /\ CreditInv'
  <2>1. CASE PubInsert(p)
    BY <1>1, <2>1, CreditInsert
  <2>2. CASE PubFlowDec(p)
    <3>1. CallInv' /\ Cardinality(Backed') = Cardinality(Backed) + 1
      BY <2>2, CreditDec
    <3>2. server_receive_max' = (server_receive_max + QuotaModulus - 1) % QuotaModulus
      BY <2>2 DEF PubFlowDec
    <3> QED
      BY <1>0, <3>1, <3>2, CreditArithmetic DEF CreditInv
  <2>3. CASE ~PubInsert(p) /\ ~PubFlowDec(p)
    BY <1>1, <1>2, <2>3, CreditPublisher
  <2> QED
    BY <2>1, <2>2, <2>3
<1>3. CASE RecvFlowInc
  <2>1. /\ CallInv' /\ Cardinality(Backed') \in Nat
        /\ Cardinality(Backed) <= Cardinality(Backed') + 1
    BY <1>3, CreditInc
  <2>2. server_receive_max' = Clamp((server_receive_max + 1) % QuotaModulus)
    BY <1>3 DEF RecvFlowInc
  <2> QED
    BY <1>0, <2>1, <2>2, CreditArithmetic DEF CreditInv
<1>4. CASE RecvRemove
  BY <1>1, <1>4, CreditRemove
<1>5. CASE RecvPuback
  <2>1. /\ UNCHANGED <<pub_list, pc, pkt, server_receive_max>>
        /\ recv_pc' = "flow_inc"
    BY <1>5 DEF RecvPuback, client
  <2> QED
    BY <1>1, <2>1 DEF CallInv, Backed, Publishing
<1>6. ASSUME UNCHANGED <<pub_list, pc, pkt, ack, server_receive_max>>,
             recv_pc' \in {recv_pc, "close", "idle"}
      PROVE  CallInv' /\ CreditInv'
  BY <1>1, <1>6 DEF CallInv, Backed, Publishing
<1> QED
  BY <1>2, <1>3, <1>4, <1>5, <1>6
  DEF Next, vars, client, threads, Receiver, Process, SubPacketId,
      RecvMalformed, RecvReadErr, RecvClose, RepubBegin, RepubSkip, RepubNode, RepubFail, RepubClose,
      RepubEnd, RepubTimeout, ClockBack, Connect, LinkBreak, BrokerDrop, BrokerPublish

(***************************************************************************)
(* With flow control, and as long as no PUBACK overtakes the end of the    *)
(* call that publishes its packet, STATE_MQTT_RECEIVE_MAX_EXCEEDED means   *)
(* what it says at any moment and for any number of publishers: as many    *)
(* packets as the limit allows wait for their PUBACK.                      *)
(***************************************************************************)
THEOREM ExceededWithoutOverlap ==
  ASSUME FlowControl
  PROVE  Spec /\ []NoOverlap =>
           []/\ ExceededMeansOutstanding
             /\ server_receive_max = 0 => Cardinality(pub_list) >= FlowMax
<1>1. Init => CallInv /\ CreditInv
  <2> SUFFICES ASSUME Init PROVE CallInv /\ CreditInv
    OBVIOUS
  <2>1. CallInv
    BY FS_EmptySet DEF Init, CallInv, Publishing
  <2> QED
    BY <2>1, BackedFinite, FlowAssumption DEF Init, CreditInv
<1>2. CallInv /\ CreditInv => /\ ExceededMeansOutstanding
                              /\ server_receive_max = 0 => Cardinality(pub_list) >= FlowMax
  <2> SUFFICES ASSUME CallInv, CreditInv, server_receive_max = 0
               PROVE  Cardinality(pub_list) >= FlowMax /\ pub_list # {}
    BY DEF ExceededMeansOutstanding
  <2>1. Backed \subseteq pub_list
    BY DEF Backed
  <2>2. /\ Cardinality(Backed) \in Nat /\ Cardinality(pub_list) \in Nat
        /\ Cardinality(Backed) <= Cardinality(pub_list)
    BY <2>1, FS_Subset, FS_CardinalityType DEF CallInv
  <2>3. FlowMax \in Nat /\ FlowMax > 0 /\ FlowMax <= Cardinality(Backed)
    BY <2>2, FlowAssumption DEF CreditInv
  <2> QED
    BY <2>2, <2>3, FS_EmptySet
<1>3. Spec /\ []NoOverlap => [](CallInv /\ CreditInv)
  BY <1>1, TypeCorrect, UniqueIdsAlways, CreditStep, PTL DEF Spec
<1> QED
  BY <1>2, <1>3, PTL
=============================================================================
