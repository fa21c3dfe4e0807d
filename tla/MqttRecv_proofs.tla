-------------------------- MODULE MqttRecv_proofs --------------------------
(***************************************************************************)
(* What MqttRecv guarantees for every set of filters, handlers and shapes  *)
(* of packets and any number of messages, calls and failures: framing that *)
(* never slips, a complete and exact dispatch, no acknowledged message     *)
(* without a handler, no subscription without its node.                    *)
(***************************************************************************)
EXTENDS MqttRecv, MqttTopic_proofs

-----------------------------------------------------------------------------
(* Who changes what. *)

\* The receive thread leaves sub_list and the users' calls alone.
LEMMA RecvThreadLeavesList ==
  ASSUME RecvThread
  PROVE  UNCHANGED list
BY DEF RecvThread, Connect, HandshakeFails, ConnackHdr, ConnackLen, ConnackBody, RecvHdr,
       RecvTimeout, RecvHdrError, RecvFails, RecvLen, RecvBody, RecvPacket, PubackSend,
       Search, RunHandler, PubDone, vars, list

\* What the steps outside of the receive thread leave alone.
LEMMA OthersLeaveRecv ==
  ASSUME \/ \E u \in Users : User(u)
         \/ \E s \in Shapes : BrokerSend(s)
         \/ BrokerResend
         \/ LinkBreaks
         \/ UNCHANGED vars
  PROVE  UNCHANGED recv /\ UNCHANGED <<acked, handled>>
BY DEF User, SubInsert, append_topic_map, InsertNoMemory, remove_topic_map, UnsubRemove,
       SubunsubWrite, BrokerSend, BrokerResend, LinkBreaks, vars, recv, peer

-----------------------------------------------------------------------------
(* Types. *)

\* The part of TypeOK that the users' calls and the broker's answers move.
ListTyped ==
  /\ nodes \subseteq AppFilters /\ leaving \subseteq AppFilters /\ broker_subs \subseteq AppFilters
  /\ entries \subseteq Node /\ fresh \subseteq Node
  /\ \A e \in entries : e.topic \in nodes
  /\ \A d, e \in entries : d.topic = e.topic /\ d.handler = e.handler => d = e
  /\ upc \in [Users -> UserPc]
  /\ ops \in 0 .. MaxOps

\* The rest of it.
RecvTyped ==
  /\ conn \in BOOLEAN /\ up \in BOOLEAN /\ (up => conn)
  /\ rpc \in {"idle", "c_hdr", "c_len", "c_body", "len", "body", "packet", "puback", "search", "run"}
  /\ found \in BOOLEAN
  /\ copies \subseteq Node /\ ran \subseteq Node /\ missed \subseteq Node
  /\ faults \in 0 .. MaxFaults

\* A failure is counted, or there is none.
LEMMA FaultsTyped ==
  ASSUME faults \in 0 .. MaxFaults, Fault \/ UNCHANGED faults
  PROVE  faults' \in 0 .. MaxFaults
BY RecvAssumption DEF Fault

\* Every user call keeps the structure of sub_list.
LEMMA UserKeepsListTyped ==
  ASSUME ListTyped, NEW u \in Users, User(u)
  PROVE  ListTyped'
<1> USE RecvAssumption DEF ListTyped
<1>1. ASSUME NEW f \in AppFilters, NEW h \in Handlers \cup {NULL}, NEW ud \in Userdata,
             SubInsert(u, f, h, ud) \/ append_topic_map(u, f, h, ud)
      PROVE  ListTyped'
  <2>1. sublist_insert(f, h, ud) /\ UNCHANGED broker_subs /\ ops' \in 0 .. MaxOps
    BY <1>1 DEF SubInsert, append_topic_map, Call, peer
  <2>2. upc' \in [Users -> UserPc]
    BY <1>1 DEF SubInsert, append_topic_map, Pending, UserPc
  <2>3. CASE h = NULL
    <3>1. entries' = entries /\ fresh' = fresh
      BY <2>1, <2>3 DEF sublist_insert, Entry, Node
    <3> QED
      BY <2>1, <2>2, <3>1 DEF sublist_insert
  <2>4. CASE h # NULL
    <3> DEFINE new == [topic |-> f, handler |-> h, userdata |-> ud]
    <3>1. new \in Node /\ new.topic = f /\ new.handler = h
      BY <2>4 DEF Node
    <3>2. entries' = (entries \ Entry(f, h)) \cup {new} /\ fresh' = fresh \cup {new}
      BY <2>1, <2>4 DEF sublist_insert
    <3>3. nodes' = nodes \cup {f} /\ leaving' = leaving \ {f}
      BY <2>1 DEF sublist_insert
    <3>4. \A e \in entries' : e \in entries \/ e = new
      BY <3>2
    <3>5. \A e \in entries' : e.topic = f /\ e.handler = h => e = new
      BY <3>2 DEF Entry
    <3> HIDE DEF new
    <3>6. \A d, e \in entries' : d.topic = e.topic /\ d.handler = e.handler => d = e
      BY <3>1, <3>4, <3>5
    <3> QED
      BY <2>1, <2>2, <3>1, <3>2, <3>3, <3>4, <3>6
  <2> QED
    BY <2>3, <2>4
<1>2. ASSUME NEW f \in AppFilters, NEW h \in Handlers \cup {NULL}, InsertNoMemory(u, f, h)
      PROVE  ListTyped'
  BY <1>2 DEF InsertNoMemory, Call, peer
<1>3. ASSUME NEW f \in AppFilters, NEW h \in Handlers, remove_topic_map(u, f, h)
      PROVE  ListTyped'
  BY <1>3 DEF remove_topic_map, Call, sublist_remove_handler, peer
<1>4. ASSUME NEW f \in AppFilters, UnsubRemove(u, f)
      PROVE  ListTyped'
  BY <1>4 DEF UnsubRemove, Call, sublist_remove, Pending, UserPc, peer
<1>5. ASSUME SubunsubWrite(u)
      PROVE  ListTyped'
  <2>1. broker_subs' \subseteq AppFilters /\ leaving' \subseteq AppFilters
    <3>1. upc[u].topic \in AppFilters
      BY <1>5 DEF SubunsubWrite, UserPc
    <3> QED
      BY <1>5, <3>1 DEF SubunsubWrite, Told
  <2> QED
    BY <1>5, <2>1 DEF SubunsubWrite, Pending, UserPc
<1> QED
  BY <1>1, <1>2, <1>3, <1>4, <1>5 DEF User

\* Every step of the receive thread keeps the rest of the types.
LEMMA RecvThreadKeepsRecvTyped ==
  ASSUME ListTyped, RecvTyped, RecvThread
  PROVE  RecvTyped'
<1>1. faults' \in 0 .. MaxFaults
  <2>1. Fault \/ UNCHANGED faults
    BY DEF RecvThread, Connect, HandshakeFails, ConnackHdr, ConnackLen, ConnackBody, RecvHdr,
       RecvTimeout, RecvHdrError, RecvFails, RecvLen, RecvBody, RecvPacket, PubackSend,
       Search, RunHandler, PubDone, vars
  <2> QED
    BY <2>1, FaultsTyped DEF RecvTyped
<1>2. conn' \in BOOLEAN /\ up' \in BOOLEAN /\ (up' => conn')
  <2>1. CASE Connect
    BY <2>1 DEF Connect
  <2>2. CASE Close
    BY <2>2 DEF Close
  <2>3. CASE UNCHANGED <<conn, up>>
    BY <2>3 DEF RecvTyped
  <2>4. Connect \/ Close \/ UNCHANGED <<conn, up>>
    BY DEF RecvThread, HandshakeFails, ConnackHdr, ConnackLen, ConnackBody, RecvHdr,
       RecvTimeout, RecvHdrError, RecvFails, RecvLen, RecvBody, RecvPacket, PubackSend,
       Search, RunHandler, PubDone, link, vars
  <2> QED
    BY <2>1, <2>2, <2>3, <2>4
<1>3. rpc' \in {"idle", "c_hdr", "c_len", "c_body", "len", "body", "packet", "puback", "search", "run"}
  BY DEF RecvTyped, RecvThread, Connect, HandshakeFails, ConnackHdr, ConnackLen, ConnackBody,
     RecvHdr, RecvTimeout, RecvHdrError, RecvFails, RecvLen, RecvBody, RecvPacket, PubackSend,
     Search, RunHandler, PubDone, recv, vars
<1>4. /\ found' \in BOOLEAN
      /\ copies' \subseteq Node /\ ran' \subseteq Node /\ missed' \subseteq Node
  <2>1. CASE Search
    <3>1. Wanted \subseteq Node
      BY DEF Wanted, ListTyped
    <3> QED
      BY <2>1, <3>1 DEF Search
  <2>2. CASE RunHandler
    BY <2>2 DEF RunHandler, RecvTyped
  <2>3. CASE UNCHANGED <<found, copies, ran, missed>>
    BY <2>3 DEF RecvTyped
  <2> QED
    BY <2>1, <2>2, <2>3 DEF RecvThread, Connect, HandshakeFails, ConnackHdr, ConnackLen,
       ConnackBody, RecvHdr, RecvTimeout, RecvHdrError, RecvFails, RecvLen, RecvBody,
       RecvPacket, PubackSend, PubDone, recv, vars
<1> QED
  BY <1>1, <1>2, <1>3, <1>4 DEF RecvTyped

\* TypeOK, for any users, filters, handlers and shapes of packets.
THEOREM RecvTypeCorrect == Spec => []TypeOK
<1>1. Init => ListTyped /\ RecvTyped
  <2>1. Init => upc \in [Users -> UserPc]
    BY DEF Init, UserPc
  <2>2. Init => ops \in 0 .. MaxOps /\ faults \in 0 .. MaxFaults
    BY RecvAssumption DEF Init
  <2>3. Init => conn \in BOOLEAN /\ up \in BOOLEAN /\ (up => conn) /\ found \in BOOLEAN
    BY DEF Init
  <2> QED
    BY <2>1, <2>2, <2>3 DEF Init, ListTyped, RecvTyped
<1>2. ASSUME ListTyped, RecvTyped, [Next]_vars
      PROVE  ListTyped' /\ RecvTyped'
  <2>1. CASE RecvThread
    <3>1. RecvTyped'
      BY <1>2, <2>1, RecvThreadKeepsRecvTyped
    <3>2. UNCHANGED list
      BY <2>1, RecvThreadLeavesList
    <3>3. broker_subs' \subseteq AppFilters /\ fresh' \subseteq Node
      BY <1>2, <2>1 DEF ListTyped, RecvThread, Connect, HandshakeFails, ConnackHdr, ConnackLen,
         ConnackBody, RecvHdr, RecvTimeout, RecvHdrError, RecvFails, RecvLen, RecvBody,
         RecvPacket, PubackSend, Search, RunHandler, PubDone, peer, vars
    <3> QED
      BY <1>2, <3>1, <3>2, <3>3 DEF ListTyped, list
  <2>2. ASSUME NEW u \in Users, User(u)
        PROVE  ListTyped' /\ RecvTyped'
    <3>1. UNCHANGED recv
      BY <2>2, OthersLeaveRecv
    <3>2. Fault \/ UNCHANGED faults
      BY <2>2 DEF User, SubInsert, append_topic_map, InsertNoMemory, remove_topic_map,
         UnsubRemove, SubunsubWrite
    <3>3. Close \/ UNCHANGED <<conn, up>>
      <4>1. CASE SubunsubWrite(u)
        BY <4>1 DEF SubunsubWrite, link
      <4>2. CASE ~SubunsubWrite(u)
        BY <2>2, <4>2 DEF User, SubInsert, append_topic_map, InsertNoMemory, remove_topic_map,
           UnsubRemove, link
      <4> QED
        BY <4>1, <4>2
    <3>4. conn' \in BOOLEAN /\ up' \in BOOLEAN /\ (up' => conn')
      <4>1. CASE Close
        BY <4>1 DEF Close
      <4>2. CASE UNCHANGED <<conn, up>>
        BY <1>2, <4>2 DEF RecvTyped
      <4> QED
        BY <3>3, <4>1, <4>2
    <3>5. faults' \in 0 .. MaxFaults
      BY <1>2, <3>2, FaultsTyped DEF RecvTyped
    <3> QED
      BY <1>2, <2>2, <3>1, <3>4, <3>5, UserKeepsListTyped DEF RecvTyped, recv
  <2>3. ASSUME NEW s \in Shapes, BrokerSend(s)
        PROVE  ListTyped' /\ RecvTyped'
    BY <1>2, <2>3 DEF BrokerSend, ListTyped, RecvTyped, list, recv
  <2>4. CASE BrokerResend
    BY <1>2, <2>4 DEF BrokerResend, ListTyped, RecvTyped, list, recv
  <2>5. CASE LinkBreaks
    BY <1>2, <2>5, FaultsTyped DEF LinkBreaks, ListTyped, RecvTyped, list, recv, peer
  <2>6. CASE UNCHANGED vars
    BY <1>2, <2>6 DEF ListTyped, RecvTyped, list, recv, link, peer, vars
  <2> QED
    BY <1>2, <2>1, <2>2, <2>3, <2>4, <2>5, <2>6 DEF Next
<1>3. ListTyped /\ RecvTyped => TypeOK
  BY DEF ListTyped, RecvTyped, TypeOK
<1> QED
  BY <1>1, <1>2, <1>3, PTL DEF Spec

-----------------------------------------------------------------------------
(* No acknowledged message without a handler. *)

\* Only the message in hand may be acknowledged and not yet handled; the
\* default handler or a copy that is left will take it.
SwallowInv ==
  RecvHandler =>
    /\ acked \subseteq handled \cup (IF rpc \in {"search", "run"} THEN {frame.msg} ELSE {})
    /\ rpc = "run" /\ found /\ copies = {} => frame.msg \in handled

\* NothingSwallowed, in particular when copies of handlers fail.
THEOREM NothingSwallowedAlways == Spec => []NothingSwallowed
<1>1. Init => SwallowInv
  BY DEF Init, SwallowInv
<1>2. ASSUME SwallowInv, [Next]_vars
      PROVE  SwallowInv'
  <2> SUFFICES ASSUME RecvHandler
               PROVE  /\ acked' \subseteq handled' \cup (IF rpc' \in {"search", "run"} THEN {frame'.msg} ELSE {})
                      /\ rpc' = "run" /\ found' /\ copies' = {} => frame'.msg \in handled'
    BY DEF SwallowInv
  <2> USE <1>2 DEF SwallowInv
  <2>1. CASE PubackSend
    BY <2>1 DEF PubackSend
  <2>2. CASE Search
    BY <2>2 DEF Search, peer
  <2>3. CASE RunHandler
    BY <2>3 DEF RunHandler, peer
  <2>4. CASE PubDone
    BY <2>4 DEF PubDone, peer
  <2>5. CASE /\ UNCHANGED <<acked, handled>>
             /\ rpc \notin {"search", "run"} /\ rpc' \notin {"search", "run"}
    BY <2>5
  <2>6. CASE RecvPacket
    BY <2>6 DEF RecvPacket, peer
  <2>7. CASE UNCHANGED recv /\ UNCHANGED <<acked, handled>>
    BY <2>7 DEF recv
  <2>8. CASE RecvThread
    <3>1. \/ PubackSend \/ Search \/ RunHandler \/ PubDone \/ RecvPacket
          \/ UNCHANGED recv /\ UNCHANGED <<acked, handled>>
          \/ /\ UNCHANGED <<acked, handled>>
             /\ rpc \notin {"search", "run"} /\ rpc' \notin {"search", "run"}
      BY <2>8 DEF RecvThread, Connect, HandshakeFails, Handshaking, ConnackHdr, ConnackLen, ConnackBody,
         RecvHdr, RecvTimeout, RecvHdrError, RecvFails, RecvLen, RecvBody, peer, vars
    <3> QED
      BY <2>1, <2>2, <2>3, <2>4, <2>5, <2>6, <2>7, <3>1
  <2> QED
    BY <2>7, <2>8, OthersLeaveRecv DEF Next
<1>3. SwallowInv => NothingSwallowed
  BY DEF SwallowInv, NothingSwallowed
<1> QED
  BY <1>1, <1>2, <1>3, PTL DEF Spec

-----------------------------------------------------------------------------
(* Subscriptions. *)

\* What a user is about to subscribe to has its node.
SubInv ==
  /\ SubscribedHasNode
  /\ \A u \in Users : upc[u].op = "sub" => upc[u].topic \in nodes

\* With one thread that subscribes, the broker knows no filter that sub_list
\* does not, but for those it could not be told of.
THEOREM SubscribedHasNodeOneUser ==
  ASSUME \A u, v \in Users : u = v
  PROVE  Spec => []SubscribedHasNode
<1>1. Init => SubInv
  BY DEF Init, SubInv, SubscribedHasNode
<1>2. ASSUME TypeOK, SubInv, [Next]_vars
      PROVE  SubInv'
  <2> USE <1>2 DEF SubInv, SubscribedHasNode
  <2>1. CASE RecvThread
    <3>1. UNCHANGED list
      BY <2>1, RecvThreadLeavesList
    <3>2. broker_subs' \subseteq broker_subs
      BY <2>1 DEF RecvThread, Connect, HandshakeFails, ConnackHdr, ConnackLen,
         ConnackBody, RecvHdr, RecvTimeout, RecvHdrError, RecvFails, RecvLen, RecvBody,
         RecvPacket, PubackSend, Search, RunHandler, PubDone, peer, vars
    <3> QED
      BY <3>1, <3>2 DEF list
  <2>2. ASSUME NEW u \in Users, User(u)
        PROVE  SubInv'
    <3>1. \A v \in Users : v = u
      OBVIOUS
    <3>2. upc \in [Users -> UserPc]
      BY DEF TypeOK
    <3>3. ASSUME NEW f \in AppFilters, NEW h \in Handlers \cup {NULL}, NEW ud \in Userdata,
                 SubInsert(u, f, h, ud) \/ append_topic_map(u, f, h, ud)
          PROVE  SubInv'
      BY <3>1, <3>2, <3>3 DEF SubInsert, append_topic_map, Call, sublist_insert, Pending, peer
    <3>4. ASSUME NEW f \in AppFilters, NEW h \in Handlers \cup {NULL}, InsertNoMemory(u, f, h)
          PROVE  SubInv'
      BY <3>4 DEF InsertNoMemory, peer
    <3>5. ASSUME NEW f \in AppFilters, NEW h \in Handlers, remove_topic_map(u, f, h)
          PROVE  SubInv'
      BY <3>5 DEF remove_topic_map, sublist_remove_handler, peer
    <3>6. ASSUME NEW f \in AppFilters, UnsubRemove(u, f)
          PROVE  SubInv'
      BY <3>1, <3>2, <3>6 DEF UnsubRemove, sublist_remove, Pending, peer
    <3>7. CASE SubunsubWrite(u)
      <4>1. \A v \in Users : upc'[v].op = "none"
        BY <3>1, <3>2, <3>7 DEF SubunsubWrite, Pending
      <4>2. broker_subs' \subseteq nodes \cup leaving'
        BY <3>7 DEF SubunsubWrite, Told
      <4> QED
        BY <3>7, <4>1, <4>2 DEF SubunsubWrite
    <3> QED
      BY <2>2, <3>3, <3>4, <3>5, <3>6, <3>7 DEF User
  <2>3. ASSUME NEW s \in Shapes, BrokerSend(s)
        PROVE  SubInv'
    BY <2>3 DEF BrokerSend, list
  <2>4. CASE BrokerResend \/ LinkBreaks \/ UNCHANGED vars
    BY <2>4 DEF BrokerResend, LinkBreaks, vars, list, peer
  <2> QED
    BY <2>1, <2>2, <2>3, <2>4 DEF Next
<1>3. SubInv => SubscribedHasNode
  BY DEF SubInv
<1> QED
  BY <1>1, <1>2, <1>3, RecvTypeCorrect, PTL DEF Spec

-----------------------------------------------------------------------------
(* Framing. *)

Pkt == [hdr : Nat, size : 0 .. MaxRemainLen, msg : Nat, code : {0, 5}]
FrameType == [hdr : Nat, at : Nat, msg : Nat, size : Nat, cnt : 0 .. 4, remain : Nat]

IsConnack(p) == p \in {Connack(0), Connack(5)}

\* The stream: packets the broker sent, and a position inside of the first.
StreamOK ==
  /\ wire \in Seq(Pkt) /\ pos \in Nat
  /\ wire = <<>> => pos = 0
  /\ wire # <<>> => pos < PacketLen(wire[1])
  /\ \A i \in 1 .. Len(wire) : IsConnack(wire[i]) \/ wire[i].msg \in 1 .. Len(msgs)

\* The value of the first c bytes of a length n.
Low(n, c) ==
  IF c = 0 THEN 0 ELSE IF c = 1 THEN n % 128 ELSE IF c = 2 THEN n % (128 * 128)
  ELSE IF c = 3 THEN n % (128 * 128 * 128) ELSE n

\* A stray frame is one that began in the middle of a CONNACK.
Stray == rpc = "packet" /\ frame.at # 0
StrayHdr == frame.hdr < 16

FromMsgs == pkt_type = PUBLISH => frame.msg \in 1 .. Len(msgs)

\* Where the thread is in the stream, and what its frame knows of the packet.
InHandshake ==
  /\ rpc = "idle" /\ pos # 0 => IsConnack(wire[1])
  /\ rpc = "c_hdr" => /\ pos = 0 /\ frame = NoFrame
                      /\ up => wire # <<>>
                      /\ wire # <<>> => IsConnack(wire[1])
  /\ rpc = "c_len" => wire # <<>> /\ IsConnack(wire[1]) /\ pos = 1 /\ frame = NoFrame
  /\ rpc = "c_body" => wire # <<>> /\ IsConnack(wire[1]) /\ pos = 2

InLength ==
  rpc = "len" =>
    IF frame.at = 0
      THEN /\ wire # <<>> /\ frame.hdr = wire[1].hdr
           /\ frame.msg = wire[1].msg /\ frame.size = wire[1].size
           /\ frame.cnt < LenBytes(frame.size) /\ pos = 1 + frame.cnt
           /\ frame.remain = Low(frame.size, frame.cnt)
      ELSE StrayHdr

InBody ==
  rpc = "body" =>
    IF frame.at = 0
      THEN /\ frame.remain = frame.size /\ FromMsgs
           /\ frame.size = 0 => pos = 0
           /\ frame.size # 0 => /\ wire # <<>> /\ wire[1].size = frame.size
                                /\ pos = 1 + LenBytes(frame.size)
      ELSE StrayHdr

InPacket ==
  rpc \in {"packet", "puback", "search", "run"} =>
    IF frame.at = 0
      THEN pos = 0 /\ frame.remain = frame.size /\ FromMsgs
      ELSE StrayHdr /\ rpc = "packet"

FrameInv ==
  /\ msgs \in Seq(Shapes) /\ unacked \cup resend \subseteq 1 .. Len(msgs)
  /\ frame \in FrameType
  /\ ~Stray => StreamOK
  /\ InHandshake /\ InLength /\ InBody /\ InPacket

\* The powers of 128, one by one.
LEMMA PowValues == Pow[1] = 1 /\ Pow[2] = 128 /\ Pow[3] = 128 * 128 /\ Pow[4] = 128 * 128 * 128
BY DEF Pow

\* The bounds of a length, for the provers.
LEMMA LenRange ==
  /\ MaxRemainLen \in Nat
  /\ \A n \in Nat : LenBytes(n) \in 1 .. 4
BY DEF LenBytes, MaxRemainLen

\* Byte k of an encoded length: the last one and only that has no eighth bit,
\* and the loop of _core_mqtt_read_remainlen has collected the length below it.
LEMMA LenStep ==
  ASSUME NEW n \in Nat, n <= MaxRemainLen, NEW k \in 1 .. LenBytes(n)
  PROVE  /\ remain_len_encode(n, k) \in Nat
         /\ remain_len_encode(n, k) < 128 <=> k = LenBytes(n)
         /\ Low(n, k - 1) + (remain_len_encode(n, k) % 128) * Pow[k] = Low(n, k)
         /\ k = LenBytes(n) => Low(n, k) = n
<1>1. n < 128 * 128 * 128 * 128
  BY DEF MaxRemainLen
<1>2. CASE k = 1
  BY <1>2, PowValues, SMT DEF LenBytes, remain_len_encode, Low
<1>3. CASE k = 2
  BY <1>3, PowValues, SMT DEF LenBytes, remain_len_encode, Low
<1>4. CASE k = 3
  BY <1>4, PowValues, SMT DEF LenBytes, remain_len_encode, Low
<1>5. CASE k = 4
  BY <1>1, <1>5, PowValues, SMT DEF LenBytes, remain_len_encode, Low
<1> QED
  BY <1>2, <1>3, <1>4, <1>5, LenRange

\* A packet has a header byte and at least one byte of length.
LEMMA PktLen ==
  ASSUME NEW p \in Pkt
  PROVE  /\ p.size \in Nat /\ p.size <= MaxRemainLen
         /\ LenBytes(p.size) \in 1 .. 4
         /\ PacketLen(p) \in Nat /\ PacketLen(p) >= 2
         /\ PacketLen(p) = 1 + LenBytes(p.size) + p.size
<1>1. p.size \in Nat /\ p.size <= MaxRemainLen
  BY LenRange DEF Pkt
<1>2. LenBytes(p.size) \in 1 .. 4
  BY <1>1, LenRange
<1> QED
  BY <1>1, <1>2 DEF PacketLen

\* What reading one byte does to the stream.
LEMMA AdvanceOne ==
  ASSUME StreamOK, UNCHANGED msgs, Advance(1)
  PROVE  /\ StreamOK'
         /\ wire # <<>>
         /\ IF pos + 1 < PacketLen(wire[1]) THEN pos' = pos + 1 /\ wire' = wire
                                            ELSE pos' = 0 /\ wire' = Tail(wire)
<1>1. wire # <<>> /\ wire \in Seq(Pkt) /\ wire[1] \in Pkt /\ pos \in Nat /\ pos < PacketLen(wire[1])
  BY DEF StreamOK, Advance
<1>2. LenBytes(wire[1].size) \in 1 .. 4 /\ PacketLen(wire[1]) \in Nat /\ PacketLen(wire[1]) >= 2
  BY <1>1, PktLen
<1>3. CASE pos + 1 < PacketLen(wire[1])
  <2>1. pos' = pos + 1 /\ wire' = wire
    BY <1>1, <1>3 DEF Advance
  <2> QED
    BY <1>1, <1>3, <2>1 DEF StreamOK
<1>4. CASE ~(pos + 1 < PacketLen(wire[1]))
  <2>1. pos + 1 = PacketLen(wire[1])
    BY <1>1, <1>2, <1>4
  <2>2. pos' = 0 /\ wire' = Tail(wire)
    BY <1>1, <1>4, <2>1 DEF Advance
  <2>3. wire' \in Seq(Pkt) /\ Len(wire') = Len(wire) - 1
        /\ \A i \in 1 .. Len(wire') : wire'[i] = wire[i + 1]
    BY <1>1, <2>2
  <2>4. \A i \in 1 .. Len(wire') : IsConnack(wire'[i]) \/ wire'[i].msg \in 1 .. Len(msgs)
    BY <1>1, <2>3 DEF StreamOK
  <2>5. wire' # <<>> => wire'[1] \in Pkt /\ 0 < PacketLen(wire'[1])
    <3>1. wire' # <<>> => wire'[1] \in Pkt
      BY <2>3
    <3> QED
      BY <3>1, PktLen
  <2> QED
    BY <1>1, <1>4, <2>2, <2>3, <2>4, <2>5 DEF StreamOK, IsConnack, Connack
<1> QED
  BY <1>3, <1>4

\* Reading the rest of a packet ends at the next one.
LEMMA AdvanceRest ==
  ASSUME StreamOK, UNCHANGED msgs, wire # <<>>, NEW n \in Nat, pos + n = PacketLen(wire[1]), Advance(n)
  PROVE  StreamOK' /\ pos' = 0
<1>1. wire \in Seq(Pkt) /\ wire[1] \in Pkt /\ pos \in Nat /\ PacketLen(wire[1]) \in Nat
  BY PktLen DEF StreamOK
<1>2. pos' = 0 /\ wire' = Tail(wire)
  <2>1. ~(pos + n < PacketLen(wire[1]))
    BY <1>1
  <2> QED
    BY <2>1 DEF Advance
<1>3. /\ wire' \in Seq(Pkt) /\ Len(wire') = Len(wire) - 1
      /\ \A i \in 1 .. Len(wire') : wire'[i] = wire[i + 1]
  BY <1>1, <1>2
<1>4. \A i \in 1 .. Len(wire') : IsConnack(wire'[i]) \/ wire'[i].msg \in 1 .. Len(msgs)
  BY <1>1, <1>3 DEF StreamOK
<1>5. wire' # <<>> => wire'[1] \in Pkt
  BY <1>3
<1>6. wire' # <<>> => 0 < PacketLen(wire'[1])
  BY <1>5, PktLen
<1> QED
  BY <1>2, <1>3, <1>4, <1>6 DEF StreamOK, IsConnack, Connack

\* The bytes of a packet are natural numbers.
LEMMA BytesNat ==
  ASSUME StreamOK, wire # <<>>
  PROVE  NextBytes \subseteq Nat /\ NextBytes = BytesAt(wire[1], pos)
<1>1. wire[1] \in Pkt /\ pos \in Nat
  BY DEF StreamOK
<1>2. pos # 0 /\ pos <= LenBytes(wire[1].size) => remain_len_encode(wire[1].size, pos) \in Nat
  BY <1>1, LenStep, PktLen
<1> QED
  BY <1>1, <1>2 DEF NextBytes, BytesAt, Pkt

\* A step that leaves stream and frame alone.
LEMMA FrameSame ==
  ASSUME FrameInv, UNCHANGED <<msgs, unacked, resend, wire, pos, rpc, frame>>, up' => up
  PROVE  FrameInv'
BY DEF FrameInv, Stray, StrayHdr, StreamOK, InHandshake, InLength, InBody, InPacket, FromMsgs,
       pkt_type

\* A step that closes the connection.
LEMMA FrameClosed ==
  ASSUME FrameInv, Close, UNCHANGED <<msgs, frame>>, unacked' \cup resend' \subseteq unacked \cup resend,
         \/ rpc' = "idle"
         \/ rpc' = rpc /\ rpc \in {"idle", "packet", "puback", "search", "run"}
         \/ rpc = "puback" /\ rpc' = "search"
  PROVE  FrameInv'
<1>1. StreamOK'
  BY DEF StreamOK, Close
<1>2. InHandshake' /\ InLength' /\ InBody'
  BY DEF InHandshake, InLength, InBody, Close
<1>3. InPacket'
  BY DEF FrameInv, InPacket, Close, StrayHdr, FromMsgs, pkt_type
<1> QED
  BY <1>1, <1>2, <1>3 DEF FrameInv

\* A packet that joins the stream changes nothing for what is being read.
LEMMA FrameAppend ==
  ASSUME FrameInv, NEW p \in Pkt, p.msg \in 1 .. Len(msgs)', up, UNCHANGED <<conn, up, pos, rpc, frame>>,
         wire' = Append(wire, p),
         msgs' \in Seq(Shapes), Len(msgs) <= Len(msgs'),
         unacked' \cup resend' \subseteq 1 .. Len(msgs')
  PROVE  FrameInv'
<1>0. msgs \in Seq(Shapes) /\ Len(msgs) \in Nat /\ Len(msgs') \in Nat
  BY DEF FrameInv
<1>1. CASE Stray
  <2>1. rpc = "packet" /\ Stray'
    BY <1>1 DEF Stray
  <2>2. InHandshake' /\ InLength' /\ InBody'
    BY <2>1 DEF InHandshake, InLength, InBody
  <2>3. InPacket'
    BY <1>1, <2>1 DEF FrameInv, InPacket, StrayHdr, Stray
  <2> QED
    BY <2>1, <2>2, <2>3 DEF FrameInv
<1>2. CASE ~Stray
  <2>1. StreamOK
    BY <1>2 DEF FrameInv
  <2>2. /\ wire \in Seq(Pkt) /\ wire' \in Seq(Pkt) /\ wire' # <<>> /\ Len(wire') = Len(wire) + 1
        /\ \A i \in 1 .. Len(wire) : wire'[i] = wire[i]
        /\ wire'[Len(wire) + 1] = p
    BY <2>1 DEF StreamOK
  <2>3. wire # <<>> => wire'[1] = wire[1]
    BY <2>2
  <2>4. wire = <<>> => wire'[1] = p /\ pos = 0
    BY <2>1, <2>2 DEF StreamOK
  <2>5. StreamOK'
    <3>1. \A i \in 1 .. Len(wire') : IsConnack(wire'[i]) \/ wire'[i].msg \in 1 .. Len(msgs')
      <4> TAKE i \in 1 .. Len(wire')
      <4>1. CASE i = Len(wire) + 1
        BY <2>2, <4>1
      <4>2. CASE i \in 1 .. Len(wire)
        BY <1>0, <2>1, <2>2, <4>2 DEF StreamOK
      <4> QED
        BY <2>2, <4>1, <4>2
    <3>2. pos' < PacketLen(wire'[1])
      BY <2>1, <2>3, <2>4, PktLen DEF StreamOK
    <3> QED
      BY <2>1, <2>2, <3>1, <3>2 DEF StreamOK
  <2>6. InHandshake'
    <3>1. wire = <<>> => pos = 0 /\ rpc # "c_hdr"
      BY <2>4 DEF FrameInv, InHandshake
    <3> QED
      BY <2>2, <2>3, <3>1 DEF FrameInv, InHandshake
  <2>7. InLength'
    BY <2>2, <2>3 DEF FrameInv, InLength, StrayHdr
  <2>8. FromMsgs => FromMsgs'
    BY <1>0 DEF FromMsgs, pkt_type
  <2>9. InBody'
    BY <2>2, <2>3, <2>8 DEF FrameInv, InBody, StrayHdr
  <2>10. InPacket'
    BY <2>8 DEF FrameInv, InPacket, StrayHdr
  <2> QED
    BY <2>5, <2>6, <2>7, <2>9, <2>10 DEF FrameInv
<1> QED
  BY <1>1, <1>2

\* Steps of the users, the broker and the link.
LEMMA FrameOthers ==
  ASSUME TypeOK, FrameInv,
         \/ \E u \in Users : User(u)
         \/ \E s \in Shapes : BrokerSend(s)
         \/ BrokerResend
         \/ LinkBreaks
         \/ UNCHANGED vars
  PROVE  FrameInv'
<1>1. ASSUME NEW u \in Users, User(u)
      PROVE  FrameInv'
  <2>1. UNCHANGED <<msgs, unacked, resend, rpc, frame>>
    BY <1>1 DEF User, SubInsert, append_topic_map, InsertNoMemory, remove_topic_map,
       UnsubRemove, SubunsubWrite, recv, peer
  <2>2. \/ UNCHANGED <<up, wire, pos>>
        \/ Close /\ ~Reading
    <3>1. CASE SubunsubWrite(u)
      BY <3>1 DEF SubunsubWrite, link
    <3>2. CASE ~SubunsubWrite(u)
      BY <1>1, <3>2 DEF User, SubInsert, append_topic_map, InsertNoMemory, remove_topic_map,
         UnsubRemove, link
    <3> QED
      BY <3>1, <3>2
  <2>3. ~Reading => rpc \in {"idle", "packet", "puback", "search", "run"}
    BY DEF Reading, Handshaking, TypeOK
  <2> QED
    BY <2>1, <2>2, <2>3, FrameSame, FrameClosed
<1>2. ASSUME NEW s \in Shapes, BrokerSend(s)
      PROVE  FrameInv'
  <2>1. /\ msgs \in Seq(Shapes) /\ msgs' = Append(msgs, s)
        /\ UNCHANGED <<conn, up, pos, rpc, frame>>
    BY <1>2 DEF BrokerSend, FrameInv, recv
  <2>2. /\ msgs' \in Seq(Shapes) /\ Len(msgs') = Len(msgs) + 1 /\ Len(msgs) \in Nat
    BY <2>1
  <2>3. unacked' \cup resend' \subseteq 1 .. Len(msgs')
    BY <1>2, <2>2 DEF BrokerSend, FrameInv
  <2>4. CASE up
    <3> DEFINE p == [hdr |-> s.hdr, size |-> s.size, msg |-> Len(msgs) + 1, code |-> 0]
    <3>1. s.hdr \in Nat /\ s.size \in 0 .. MaxRemainLen
      BY RecvAssumption
    <3>2. p \in Pkt /\ p.msg \in 1 .. Len(msgs')
      BY <2>2, <3>1 DEF Pkt
    <3>3. wire' = Append(wire, p)
      BY <1>2, <2>4 DEF BrokerSend
    <3> QED
      BY <2>1, <2>2, <2>3, <2>4, <3>2, <3>3, FrameAppend
  <2>5. CASE ~up
    <3>1. UNCHANGED wire
      BY <1>2, <2>5 DEF BrokerSend
    <3>2. FromMsgs => FromMsgs'
      BY <2>1, <2>2 DEF FromMsgs, pkt_type
    <3>3. StreamOK => StreamOK'
      BY <2>1, <2>2, <3>1 DEF StreamOK
    <3>4. Stray' <=> Stray
      BY <2>1 DEF Stray
    <3>5. InHandshake' /\ InLength'
      BY <2>1, <3>1 DEF FrameInv, InHandshake, InLength, StrayHdr
    <3>6. InBody'
      BY <2>1, <3>1, <3>2 DEF FrameInv, InBody, StrayHdr
    <3>7. InPacket'
      BY <2>1, <3>1, <3>2 DEF FrameInv, InPacket, StrayHdr
    <3> QED
      BY <2>1, <2>2, <2>3, <3>3, <3>4, <3>5, <3>6, <3>7 DEF FrameInv
  <2> QED
    BY <2>4, <2>5
<1>3. CASE BrokerResend
  <2>1. PICK m \in resend : wire' = Append(wire, Packet(m, 8)) /\ resend' = resend \ {m}
    BY <1>3 DEF BrokerResend
  <2>2. /\ msgs \in Seq(Shapes) /\ m \in 1 .. Len(msgs) /\ Len(msgs) \in Nat
        /\ UNCHANGED <<conn, up, pos, rpc, frame, msgs, unacked>> /\ up
    BY <1>3, <2>1 DEF BrokerResend, FrameInv, recv
  <2>3. msgs[m] \in Shapes
    BY <2>2
  <2>4. msgs[m].hdr \in Nat /\ msgs[m].size \in 0 .. MaxRemainLen
    BY <2>3, RecvAssumption
  <2>5. Packet(m, 8) \in Pkt /\ Packet(m, 8).msg = m
    BY <2>2, <2>4 DEF Packet, Pkt
  <2>6. unacked' \cup resend' \subseteq 1 .. Len(msgs')
    BY <2>1, <2>2 DEF FrameInv
  <2> QED
    BY <2>1, <2>2, <2>5, <2>6, FrameAppend
<1>4. CASE LinkBreaks
  BY <1>4, FrameSame DEF LinkBreaks, recv, peer
<1>5. CASE UNCHANGED vars
  BY <1>5, FrameSame DEF vars, link, recv, peer
<1> QED
  BY <1>1, <1>2, <1>3, <1>4, <1>5

\* The first bytes of the two CONNACKs.
LEMMA ConnackBytes ==
  ASSUME NEW p, IsConnack(p)
  PROVE  /\ p \in Pkt /\ p.size = 2 /\ p.hdr = 32 /\ PacketLen(p) = 4
         /\ BytesAt(p, 0) = {32} /\ BytesAt(p, 1) = {2}
         /\ \A i \in 1 .. 3 : \A b \in BytesAt(p, i) : b < 16
<1>1. p \in Pkt /\ p.size = 2 /\ p.hdr = 32 /\ p.code \in {0, 5}
  <2>1. 2 \in 0 .. MaxRemainLen
    <3>1. MaxRemainLen \in Nat /\ MaxRemainLen >= 2
      BY DEF MaxRemainLen
    <3> QED
      BY <3>1
  <2> QED
    BY <2>1 DEF IsConnack, Connack, CONNACK, Pkt
<1>2. LenBytes(2) = 1
  BY DEF LenBytes
<1>3. remain_len_encode(2, 1) = 2
  BY <1>2, PowValues DEF remain_len_encode
<1> QED
  BY <1>1, <1>2, <1>3 DEF PacketLen, BytesAt, CONNACK

\* One round of the loop of _core_mqtt_read_remainlen, field by field.
LEMMA LenFrameFields ==
  ASSUME NEW b \in Nat, frame \in FrameType, frame.cnt < 4
  PROVE  /\ LenFrame(b) \in FrameType
         /\ LenFrame(b).hdr = frame.hdr /\ LenFrame(b).at = frame.at
         /\ LenFrame(b).msg = frame.msg /\ LenFrame(b).size = frame.size
         /\ LenFrame(b).cnt = frame.cnt + 1
         /\ LenFrame(b).remain = frame.remain + (b % 128) * Pow[frame.cnt + 1]
<1> DEFINE add == (b % 128) * Pow[frame.cnt + 1]
<1>1. frame.cnt \in 0 .. 3 /\ frame.remain \in Nat
  BY DEF FrameType
<1>2. b % 128 \in Nat
  OBVIOUS
<1>3. Pow[frame.cnt + 1] \in {1, 128, 128 * 128, 128 * 128 * 128}
  BY <1>1, PowValues
<1>4. add \in Nat
  BY <1>2, <1>3
<1>5. LenFrame(b) = [frame EXCEPT !.cnt = frame.cnt + 1, !.remain = frame.remain + add]
  BY DEF LenFrame
<1> HIDE DEF add
<1>6. frame.cnt + 1 \in 0 .. 4 /\ frame.remain + add \in Nat
  BY <1>1, <1>4
<1>7. /\ LenFrame(b) \in FrameType
      /\ LenFrame(b).hdr = frame.hdr /\ LenFrame(b).at = frame.at
      /\ LenFrame(b).msg = frame.msg /\ LenFrame(b).size = frame.size
      /\ LenFrame(b).cnt = frame.cnt + 1 /\ LenFrame(b).remain = frame.remain + add
  BY <1>5, <1>6 DEF FrameType
<1> QED
  BY <1>7 DEF add

\* The steps of the handshake.
LEMMA FrameHandshake ==
  ASSUME TypeOK, FrameInv, Connect \/ HandshakeFails \/ ConnackHdr \/ ConnackLen \/ ConnackBody
  PROVE  FrameInv'
<1>0. UNCHANGED msgs /\ unacked' \cup resend' \subseteq unacked \cup resend
  BY DEF Connect, HandshakeFails, ConnackHdr, ConnackLen, ConnackBody, peer
<1>1. CASE Connect
  <2>1. /\ rpc' = "c_hdr" /\ frame' = NoFrame /\ pos' = 0
        /\ wire' = <<Connack(0)>> \/ (wire' = <<Connack(5)>> /\ ~up') \/ (wire' = <<>> /\ ~up')
    BY <1>1 DEF Connect
  <2>2. Connack(0) \in Pkt /\ Connack(5) \in Pkt /\ PacketLen(Connack(0)) = 4 /\ PacketLen(Connack(5)) = 4
    BY ConnackBytes DEF IsConnack
  <2>3. StreamOK'
    <3>1. CASE wire' = <<>>
      BY <2>1, <3>1 DEF StreamOK
    <3>2. ASSUME NEW c \in {0, 5}, wire' = <<Connack(c)>>
          PROVE  StreamOK'
      <4>1. Len(wire') = 1 /\ wire'[1] = Connack(c) /\ wire' \in Seq(Pkt) /\ wire' # <<>>
        BY <2>2, <3>2
      <4> QED
        BY <2>1, <2>2, <4>1 DEF StreamOK, IsConnack
    <3> QED
      BY <2>1, <3>1, <3>2
  <2>4. InHandshake'
    BY <2>1 DEF InHandshake, IsConnack
  <2>5. InLength' /\ InBody' /\ InPacket'
    BY <2>1 DEF InLength, InBody, InPacket
  <2>6. frame' \in FrameType
    BY <2>1 DEF NoFrame, FrameType
  <2> QED
    BY <1>0, <2>3, <2>4, <2>5, <2>6 DEF FrameInv
<1>2. ASSUME Handshaking
      PROVE  /\ StreamOK
             /\ rpc = "c_hdr" => pos = 0 /\ frame = NoFrame
             /\ wire # <<>> => IsConnack(wire[1])
             /\ rpc \in {"c_len", "c_body"} => wire # <<>>
             /\ rpc = "c_len" => pos = 1 /\ frame = NoFrame
             /\ rpc = "c_body" => pos = 2
  BY <1>2 DEF Handshaking, FrameInv, Stray, InHandshake
<1>3. ASSUME StreamOK', rpc' = "idle", frame' = frame, pos' # 0 => IsConnack(wire'[1])
      PROVE  FrameInv'
  <2>1. InHandshake' /\ InLength' /\ InBody' /\ InPacket'
    BY <1>3 DEF InHandshake, InLength, InBody, InPacket
  <2> QED
    BY <1>0, <1>3, <2>1 DEF FrameInv
<1>4. CASE HandshakeFails
  <2>1. Handshaking /\ rpc' = "idle" /\ frame' = frame
    BY <1>4 DEF HandshakeFails
  <2>2. CASE UNCHANGED link
    <3>1. StreamOK'
      BY <1>0, <1>2, <2>1, <2>2 DEF link, StreamOK
    <3>2. pos' # 0 => IsConnack(wire'[1])
      BY <1>2, <2>1, <2>2 DEF link, StreamOK
    <3> QED
      BY <1>3, <2>1, <3>1, <3>2
  <2>3. CASE rpc = "c_body" /\ Advance(1)
    <3>1. PacketLen(wire[1]) = 4 /\ pos = 2
      BY <1>2, <2>1, <2>3, ConnackBytes
    <3>2. StreamOK' /\ wire' = wire
      BY <1>0, <1>2, <2>1, <2>3, <3>1, AdvanceOne
    <3> QED
      BY <1>2, <1>3, <2>1, <2>3, <3>2
  <2>4. CASE Close
    BY <1>0, <2>1, <2>4, FrameClosed
  <2> QED
    BY <1>4, <2>2, <2>3, <2>4 DEF HandshakeFails
<1>5. CASE ConnackHdr
  <2>1. Handshaking /\ rpc = "c_hdr" /\ Advance(1) /\ frame' = frame
    BY <1>5 DEF ConnackHdr, Handshaking
  <2>2. wire # <<>> /\ StreamOK' /\ wire' = wire /\ pos' = 1
    BY <1>0, <1>2, <2>1, AdvanceOne, ConnackBytes
  <2>3. NextBytes = {32}
    BY <1>2, <2>1, <2>2, ConnackBytes DEF NextBytes
  <2>4. rpc' = "c_len"
    BY <1>5, <2>3 DEF ConnackHdr, CONNACK
  <2>5. InHandshake' /\ InLength' /\ InBody' /\ InPacket'
    BY <1>2, <2>1, <2>2, <2>4 DEF InHandshake, InLength, InBody, InPacket
  <2> QED
    BY <1>0, <2>1, <2>2, <2>5 DEF FrameInv
<1>6. CASE ConnackLen
  <2>1. Handshaking /\ rpc = "c_len" /\ Advance(1)
    BY <1>6 DEF ConnackLen, Handshaking
  <2>2. wire # <<>> /\ StreamOK' /\ wire' = wire /\ pos' = 2
    BY <1>0, <1>2, <2>1, AdvanceOne, ConnackBytes
  <2>3. NextBytes = {2}
    BY <1>2, <2>1, <2>2, ConnackBytes DEF NextBytes
  <2>4. LenFrame(2) \in FrameType /\ LenFrame(2).remain = 2
    <3>1. frame \in FrameType /\ frame.cnt = 0 /\ frame.remain = 0
      BY <1>2, <2>1 DEF NoFrame, FrameInv
    <3>2. (2 % 128) * Pow[frame.cnt + 1] = 2
      BY <3>1, PowValues
    <3> QED
      BY <3>1, <3>2, LenFrameFields
  <2>5. frame' = LenFrame(2) /\ rpc' = "c_body"
    BY <1>6, <2>3, <2>4 DEF ConnackLen, LenDone
  <2>6. frame' \in FrameType
    BY <2>4, <2>5
  <2>7. InHandshake' /\ InLength' /\ InBody' /\ InPacket'
    BY <1>2, <2>1, <2>2, <2>5 DEF InHandshake, InLength, InBody, InPacket
  <2> QED
    BY <1>0, <2>2, <2>6, <2>7 DEF FrameInv
<1>7. CASE ConnackBody
  <2>1. Handshaking /\ rpc = "c_body" /\ rpc' = "idle" /\ frame' = frame
    BY <1>7 DEF ConnackBody, Handshaking
  <2>2. CASE Close
    BY <1>0, <2>1, <2>2, FrameClosed
  <2>3. CASE Advance(2)
    <3>1. wire # <<>> /\ wire \in Seq(Pkt) /\ pos + 2 = PacketLen(wire[1])
      BY <1>2, <2>1, ConnackBytes DEF StreamOK
    <3>2. StreamOK' /\ pos' = 0
      BY <1>0, <1>2, <2>1, <2>3, <3>1, AdvanceRest
    <3> QED
      BY <1>3, <2>1, <3>2
  <2> QED
    BY <1>7, <2>2, <2>3 DEF ConnackBody
<1> QED
  BY <1>1, <1>4, <1>5, <1>6, <1>7

\* The steps of aiot_mqtt_recv from the header byte to the whole packet.
LEMMA FrameRead ==
  ASSUME TypeOK, FrameInv, RecvHdr \/ RecvLen \/ RecvBody
  PROVE  FrameInv'
<1>0. UNCHANGED <<msgs, unacked, resend>>
  BY DEF RecvHdr, RecvLen, RecvBody, peer
<1>1. StreamOK /\ frame \in FrameType
  BY DEF RecvHdr, RecvLen, RecvBody, FrameInv, Stray
<1>2. ASSUME wire # <<>>
      PROVE  /\ wire[1] \in Pkt /\ wire[1].size \in Nat /\ wire[1].size <= MaxRemainLen
             /\ LenBytes(wire[1].size) \in 1 .. 4 /\ wire[1].hdr \in Nat /\ wire[1].msg \in Nat
             /\ PacketLen(wire[1]) = 1 + LenBytes(wire[1].size) + wire[1].size
             /\ pos \in Nat /\ pos < PacketLen(wire[1])
             /\ NextBytes = BytesAt(wire[1], pos) /\ NextBytes \subseteq Nat
  <2>1. wire[1] \in Pkt
    BY <1>1, <1>2 DEF StreamOK
  <2>2. wire[1].hdr \in Nat /\ wire[1].msg \in Nat
    BY <2>1 DEF Pkt
  <2> QED
    BY <1>1, <1>2, <2>1, <2>2, PktLen, BytesNat DEF StreamOK
<1>3. CASE RecvHdr
  <2>1. PICK b \in NextBytes :
          frame' = [NoFrame EXCEPT !.hdr = b, !.at = pos, !.msg = wire[1].msg, !.size = wire[1].size]
    BY <1>3 DEF RecvHdr
  <2>2. Advance(1) /\ rpc = "idle" /\ rpc' = "len"
    BY <1>3 DEF RecvHdr
  <2>3. /\ wire # <<>> /\ StreamOK'
        /\ pos + 1 < PacketLen(wire[1]) => pos' = pos + 1 /\ wire' = wire
    BY <1>0, <1>1, <2>2, AdvanceOne
  <2>4. /\ frame' \in FrameType /\ frame'.hdr = b /\ frame'.at = pos /\ frame'.msg = wire[1].msg
        /\ frame'.size = wire[1].size /\ frame'.cnt = 0 /\ frame'.remain = 0
    <3>1. b \in Nat
      BY <1>2, <2>3
    <3>2. frame' = [hdr |-> b, at |-> pos, msg |-> wire[1].msg, size |-> wire[1].size, cnt |-> 0, remain |-> 0]
      BY <2>1 DEF NoFrame
    <3> QED
      BY <1>2, <2>3, <3>1, <3>2 DEF FrameType
  <2>5. InLength'
    <3>1. CASE pos = 0
      <4>1. pos' = 1 /\ wire' = wire
        BY <1>2, <2>3, <3>1
      <4>2. b = wire[1].hdr
        BY <1>2, <2>3, <3>1 DEF BytesAt
      <4> QED
        BY <1>2, <2>3, <2>4, <3>1, <4>1, <4>2 DEF InLength, Low
    <3>2. CASE pos # 0
      <4>1. IsConnack(wire[1])
        BY <2>2, <3>2 DEF FrameInv, InHandshake
      <4>2. pos \in 1 .. 3
        BY <1>2, <2>3, <3>2, <4>1, ConnackBytes
      <4>3. b < 16
        BY <1>2, <2>3, <4>1, <4>2, ConnackBytes
      <4> QED
        BY <2>4, <3>2, <4>3 DEF InLength, StrayHdr
    <3> QED
      BY <3>1, <3>2
  <2>6. InHandshake' /\ InBody' /\ InPacket'
    BY <2>2 DEF InHandshake, InBody, InPacket
  <2> QED
    BY <1>0, <2>3, <2>4, <2>5, <2>6 DEF FrameInv
<1>4. CASE RecvLen
  <2>1. PICK b \in NextBytes : frame' = LenFrame(b) /\ rpc' = IF LenDone(b) THEN "body" ELSE "len"
    BY <1>4 DEF RecvLen
  <2>2. Advance(1) /\ rpc = "len" /\ frame.cnt \in 0 .. 3
    BY <1>1, <1>4 DEF RecvLen, TooLong, FrameType
  <2>3. /\ wire # <<>> /\ StreamOK'
        /\ IF pos + 1 < PacketLen(wire[1]) THEN pos' = pos + 1 /\ wire' = wire
                                           ELSE pos' = 0 /\ wire' = Tail(wire)
    BY <1>0, <1>1, <2>2, AdvanceOne
  <2>4. b \in Nat
    BY <1>2, <2>3
  <2>5. /\ frame' \in FrameType /\ frame'.hdr = frame.hdr /\ frame'.at = frame.at
        /\ frame'.msg = frame.msg /\ frame'.size = frame.size /\ frame'.cnt = frame.cnt + 1
        /\ frame'.remain = frame.remain + (b % 128) * Pow[frame.cnt + 1]
    BY <1>1, <2>1, <2>2, <2>4, LenFrameFields
  <2>6. InLength' /\ InBody'
    <3>1. CASE frame.at # 0
      BY <2>2, <2>5, <3>1 DEF FrameInv, InLength, InBody, StrayHdr
    <3>2. CASE frame.at = 0
      <4> DEFINE n == wire[1].size
                 k == frame.cnt + 1
      <4>1. /\ frame.hdr = wire[1].hdr /\ frame.msg = wire[1].msg /\ frame.size = n
            /\ pos = k /\ k <= LenBytes(n) /\ frame.remain = Low(n, frame.cnt)
        BY <1>2, <2>2, <2>3, <3>2 DEF FrameInv, InLength
      <4>2. k \in 1 .. LenBytes(n) /\ k - 1 = frame.cnt
        BY <1>2, <2>2, <2>3, <4>1
      <4>3. b = remain_len_encode(n, k)
        BY <1>2, <2>2, <2>3, <4>1 DEF BytesAt
      <4>4. /\ b < 128 <=> k = LenBytes(n)
            /\ frame'.remain = Low(n, k)
            /\ k = LenBytes(n) => Low(n, k) = n
        BY <1>2, <2>3, <2>5, <4>1, <4>2, <4>3, LenStep
      <4> HIDE DEF n, k
      <4>5. CASE k = LenBytes(n)
        <5>1. rpc' = "body" /\ frame'.remain = frame'.size
          BY <2>1, <2>5, <4>1, <4>4, <4>5 DEF LenDone
        <5>2. FromMsgs'
          <6>1. IsConnack(wire[1]) \/ wire[1].msg \in 1 .. Len(msgs)
            BY <1>1, <2>3 DEF StreamOK
          <6>2. IsConnack(wire[1]) => wire[1].hdr = 32
            BY ConnackBytes
          <6> QED
            BY <1>0, <2>5, <4>1, <6>1, <6>2 DEF FromMsgs, pkt_type, PUBLISH
        <5>3. frame'.size = 0 => pos' = 0
          BY <1>2, <2>3, <2>5, <4>1, <4>5 DEF n
        <5>4. frame'.size # 0 => wire' = wire /\ pos' = 1 + LenBytes(frame'.size)
          BY <1>2, <2>3, <2>5, <4>1, <4>5 DEF n
        <5> QED
          BY <2>3, <2>5, <3>2, <4>1, <5>1, <5>2, <5>3, <5>4 DEF InLength, InBody, n
      <4>6. CASE k # LenBytes(n)
        <5>1. rpc' = "len"
          BY <2>1, <4>4, <4>6 DEF LenDone
        <5>2. wire' = wire /\ pos' = pos + 1 /\ k < LenBytes(n)
          BY <1>2, <2>3, <4>1, <4>2, <4>6 DEF n
        <5>3. frame'.cnt = k
          BY <2>5 DEF k
        <5> QED
          BY <2>3, <2>5, <3>2, <4>1, <4>2, <4>4, <5>1, <5>2, <5>3 DEF InLength, InBody, n
      <4> QED
        BY <4>5, <4>6
    <3> QED
      BY <3>1, <3>2
  <2>7. InHandshake' /\ InPacket'
    BY <2>1 DEF InHandshake, InPacket
  <2> QED
    BY <1>0, <2>3, <2>5, <2>6, <2>7 DEF FrameInv
<1>5. CASE RecvBody
  <2>1. rpc = "body" /\ rpc' = "packet" /\ frame' = frame
    BY <1>5 DEF RecvBody
  <2>2. InHandshake' /\ InLength' /\ InBody'
    BY <2>1 DEF InHandshake, InLength, InBody
  <2>3. CASE frame.at # 0
    <3>1. Stray' /\ InPacket'
      BY <2>1, <2>3 DEF Stray, InPacket, FrameInv, InBody, StrayHdr
    <3> QED
      BY <1>0, <1>1, <2>1, <2>2, <3>1 DEF FrameInv
  <2>4. CASE frame.at = 0
    <3>1. /\ frame.remain = frame.size /\ FromMsgs
          /\ frame.size = 0 => pos = 0
          /\ frame.size # 0 => /\ wire # <<>> /\ wire[1].size = frame.size
                               /\ pos = 1 + LenBytes(frame.size)
      BY <2>1, <2>4 DEF FrameInv, InBody
    <3>2. FromMsgs'
      BY <1>0, <2>1, <3>1 DEF FromMsgs, pkt_type
    <3>3. StreamOK' /\ pos' = 0
      <4>1. CASE frame.remain = 0
        <5>1. UNCHANGED <<wire, pos>>
          BY <1>5, <4>1 DEF RecvBody
        <5> QED
          BY <1>0, <1>1, <3>1, <4>1, <5>1 DEF StreamOK
      <4>2. CASE frame.remain # 0
        <5>1. Advance(frame.remain)
          BY <1>5, <4>2 DEF RecvBody
        <5>2. frame.remain \in Nat
          BY <1>1 DEF FrameType
        <5>3. wire # <<>> /\ pos + frame.remain = PacketLen(wire[1])
          BY <1>2, <3>1, <4>2, <5>2
        <5> QED
          BY <1>0, <1>1, <5>1, <5>2, <5>3, AdvanceRest
      <4> QED
        BY <4>1, <4>2
    <3>4. InPacket'
      BY <2>1, <2>4, <3>1, <3>2, <3>3 DEF InPacket
    <3> QED
      BY <1>0, <1>1, <2>1, <2>2, <3>3, <3>4 DEF FrameInv
  <2> QED
    BY <2>3, <2>4
<1> QED
  BY <1>3, <1>4, <1>5

\* The other steps of aiot_mqtt_recv: failures, and what is done with a packet.
LEMMA FrameUse ==
  ASSUME TypeOK, FrameInv,
         RecvTimeout \/ RecvHdrError \/ RecvFails \/ RecvPacket \/ PubackSend \/ Search \/ RunHandler \/ PubDone
  PROVE  FrameInv'
<1>1. CASE RecvTimeout
  BY <1>1, FrameSame DEF RecvTimeout, vars, link, recv, peer
<1>2. CASE RecvHdrError
  BY <1>2, FrameClosed DEF RecvHdrError, recv, peer
<1>3. CASE RecvFails
  BY <1>3, FrameClosed DEF RecvFails, peer
<1>4. ASSUME UNCHANGED <<msgs, frame, wire, pos>>, unacked' \cup resend' \subseteq unacked \cup resend,
             rpc \in {"packet", "puback", "search", "run"}, frame.at = 0,
             rpc' \in {"idle", "puback", "search", "run"}
      PROVE  FrameInv'
  <2>1. StreamOK'
    BY <1>4 DEF FrameInv, Stray, StreamOK
  <2>2. pos = 0
    BY <1>4 DEF FrameInv, InPacket
  <2>3. InHandshake' /\ InLength' /\ InBody'
    BY <1>4, <2>2 DEF InHandshake, InLength, InBody
  <2>4. InPacket'
    BY <1>4 DEF FrameInv, InPacket, FromMsgs, pkt_type
  <2> QED
    BY <1>4, <2>1, <2>3, <2>4 DEF FrameInv
<1>5. rpc \in {"puback", "search", "run"} => frame.at = 0
  BY DEF FrameInv, InPacket
<1>6. CASE RecvPacket
  <2>1. frame.at # 0 => pkt_type = 0
    <3>1. frame.hdr \in Nat
      BY DEF FrameInv, FrameType
    <3>2. frame.at # 0 => frame.hdr < 16
      BY <1>6 DEF RecvPacket, FrameInv, InPacket, StrayHdr
    <3> QED
      BY <3>1, <3>2 DEF pkt_type
  <2>2. ValidPublish \/ NoEffect => frame.at = 0
    BY <2>1 DEF ValidPublish, NoEffect, PUBLISH, PUBACK, PINGRESP, DISCONNECT
  <2>3. CASE ValidPublish \/ NoEffect
    BY <1>4, <1>6, <2>2, <2>3 DEF RecvPacket, link, peer
  <2>4. CASE ~(ValidPublish \/ NoEffect)
    BY <1>6, <2>4, FrameClosed DEF RecvPacket, peer
  <2> QED
    BY <2>3, <2>4
<1>7. CASE PubackSend
  <2>1. rpc = "puback" /\ rpc' = "search" /\ UNCHANGED <<msgs, frame>>
        /\ unacked' \cup resend' \subseteq unacked \cup resend
    BY <1>7 DEF PubackSend
  <2>2. UNCHANGED <<wire, pos>> \/ Close
    BY <1>7 DEF PubackSend, link
  <2> QED
    BY <1>4, <1>5, <2>1, <2>2, FrameClosed
<1>8. CASE Search \/ RunHandler \/ PubDone
  <2>1. /\ UNCHANGED <<msgs, frame, wire, pos, unacked, resend>>
        /\ rpc \in {"search", "run"} /\ rpc' \in {"idle", "run"}
    BY <1>8 DEF Search, RunHandler, PubDone, link, peer
  <2> QED
    BY <1>4, <1>5, <2>1
<1> QED
  BY <1>1, <1>2, <1>3, <1>6, <1>7, <1>8

\* A new handle has no connection and no packet in hand.
LEMMA FrameInit == ASSUME Init PROVE FrameInv
<1>1. frame \in FrameType
  BY DEF Init, NoFrame, FrameType
<1>2. StreamOK /\ InHandshake /\ InLength /\ InBody /\ InPacket
  BY DEF Init, StreamOK, InHandshake, InLength, InBody, InPacket
<1>3. msgs \in Seq(Shapes) /\ unacked \cup resend \subseteq 1 .. Len(msgs)
  BY DEF Init
<1> QED
  BY <1>1, <1>2, <1>3 DEF FrameInv

\* The reads of the receive thread keep their place in the stream.
LEMMA FrameNext ==
  ASSUME TypeOK, FrameInv, [Next]_vars
  PROVE  FrameInv'
<1>1. CASE RecvThread
  BY <1>1, FrameHandshake, FrameRead, FrameUse DEF RecvThread
<1>2. CASE ~RecvThread
  BY <1>2, FrameOthers DEF Next
<1> QED
  BY <1>1, <1>2

\* The invariant behind FramesExact holds in every reachable state.
THEOREM FramesInvariant == Spec => []FrameInv
<1> QED
  BY FrameInit, FrameNext, RecvTypeCorrect, PTL DEF Spec

\* What the switch of aiot_mqtt_recv acts on is a whole packet of the broker,
\* whatever its length and whatever bytes it carries.
THEOREM FramesExactAlways == Spec => []FramesExact
<1>1. FrameInv => FramesExact
  <2> SUFFICES ASSUME FrameInv, rpc \in {"packet", "puback", "search", "run"}, pkt_type \in Known
               PROVE  frame.at = 0 /\ frame.remain = frame.size
    BY DEF FramesExact
  <2>1. frame.hdr \in Nat
    BY DEF FrameInv, FrameType
  <2>2. frame.at # 0 => frame.hdr < 16
    BY DEF FrameInv, InPacket, StrayHdr
  <2>3. frame.at = 0
    BY <2>1, <2>2 DEF pkt_type, Known, PUBLISH, PUBACK, PINGRESP, DISCONNECT
  <2> QED
    BY <2>3 DEF FrameInv, InPacket
<1> QED
  BY <1>1, FramesInvariant, PTL

-----------------------------------------------------------------------------
(* Dispatch. *)

\* The filters in sub_list are valid, and a message in hand is a PUBLISH.
DispatchInv ==
  /\ \A e \in entries : topic_is_valid(e.topic)
  /\ rpc \in {"puback", "search", "run"} => pkt_type = PUBLISH
  /\ DispatchExact

\* A user changes sub_list: what it adds is fresh.
LEMMA UserAddsFresh ==
  ASSUME NEW u \in Users, User(u), \A e \in entries : topic_is_valid(e.topic)
  PROVE  /\ \A e \in entries' : topic_is_valid(e.topic)
         /\ entries' \ fresh' \subseteq entries \ fresh
         /\ UNCHANGED <<recv, msgs>>
<1>1. ASSUME NEW f \in AppFilters, NEW h \in Handlers \cup {NULL}, NEW ud \in Userdata,
             SubInsert(u, f, h, ud) \/ append_topic_map(u, f, h, ud)
      PROVE  /\ \A e \in entries' : topic_is_valid(e.topic)
             /\ entries' \ fresh' \subseteq entries \ fresh
  BY <1>1 DEF SubInsert, append_topic_map, Call, sublist_insert, Entry
<1>2. ASSUME NEW f \in AppFilters, NEW h \in Handlers \cup {NULL}, InsertNoMemory(u, f, h)
      PROVE  /\ \A e \in entries' : topic_is_valid(e.topic)
             /\ entries' \ fresh' \subseteq entries \ fresh
  BY <1>2 DEF InsertNoMemory
<1>3. ASSUME NEW f \in AppFilters, NEW h \in Handlers, remove_topic_map(u, f, h)
      PROVE  /\ \A e \in entries' : topic_is_valid(e.topic)
             /\ entries' \ fresh' \subseteq entries \ fresh
  BY <1>3 DEF remove_topic_map, sublist_remove_handler, Entry
<1>4. ASSUME NEW f \in AppFilters, UnsubRemove(u, f)
      PROVE  /\ \A e \in entries' : topic_is_valid(e.topic)
             /\ entries' \ fresh' \subseteq entries \ fresh
  BY <1>4 DEF UnsubRemove, sublist_remove
<1>5. CASE SubunsubWrite(u)
  BY <1>5 DEF SubunsubWrite
<1>6. UNCHANGED <<recv, msgs>>
  BY DEF User, SubInsert, append_topic_map, InsertNoMemory, remove_topic_map, UnsubRemove,
     SubunsubWrite, peer
<1> QED
  BY <1>1, <1>2, <1>3, <1>4, <1>5, <1>6 DEF User

LEMMA CompareIsRule ==
  ASSUME NEW f \in Filters, NEW n \in Names, topic_is_valid(f)
  PROVE  topic_compare(f, n) <=> Matches(f, n) /\ ~EmptyLastLevel(f, n)
<1>1. f \in Seq(STRING) /\ n \in Seq(STRING)
  BY TopicAssumption
<1> QED
  BY <1>1, CompareDecides

\* The character loop of _core_mqtt_topic_compare is MQTT's rule for "+" and
\* "#", but for an empty last level, on every valid filter and every name.
THEOREM CompareExactAlways == Spec => []CompareExact
<1>1. CompareExact
  BY CompareIsRule, Zenon DEF CompareExact
<1> QED
  BY <1>1, PTL

\* A message reaches exactly the handlers registered for filters that match
\* its topic, whatever the application's threads do meanwhile.
THEOREM DispatchExactAlways == Spec => []DispatchExact
<1>1. Init => DispatchInv
  BY DEF Init, DispatchInv, DispatchExact
<1>2. ASSUME TypeOK, FrameInv, DispatchInv, [Next]_vars
      PROVE  DispatchInv'
  <2>1. ASSUME rpc \in {"search", "run"}
        PROVE  frame.msg \in 1 .. Len(msgs) /\ msgs \in Seq(Shapes) /\ msgs[frame.msg].name \in Names
    <3>1. frame.msg \in 1 .. Len(msgs) /\ msgs \in Seq(Shapes)
      BY <1>2, <2>1 DEF DispatchInv, FrameInv, InPacket, FromMsgs
    <3>2. msgs[frame.msg] \in Shapes
      BY <3>1
    <3> QED
      BY <3>1, <3>2, RecvAssumption
  <2>2. CASE RecvThread
    <3>1. UNCHANGED entries
      BY <2>2, RecvThreadLeavesList DEF list
    <3>2. CASE Search
      <4>1. \A e \in entries : topic_compare(e.topic, msgs[frame.msg].name) <=> Concerns(e)
        <5> TAKE e \in entries
        <5>1. msgs[frame.msg].name \in Names /\ e.topic \in Filters /\ topic_is_valid(e.topic)
          BY <1>2, <2>1, <3>2, RecvAssumption DEF Search, TypeOK, Node, DispatchInv
        <5> QED BY <5>1, CompareIsRule DEF Concerns
      <4>2. \A e : Concerns(e)' <=> Concerns(e)
        BY <3>2 DEF Search, Concerns, peer
      <4>3. DispatchExact'
        BY <3>1, <3>2, <4>1, <4>2 DEF Search, Wanted, DispatchExact
      <4> QED
        BY <1>2, <3>1, <3>2, <4>3 DEF DispatchInv, Search, pkt_type
    <3>3. CASE RunHandler
      <4>1. \A e : Concerns(e)' <=> Concerns(e)
        BY <3>3 DEF RunHandler, Concerns, peer
      <4>2. DispatchExact'
        BY <1>2, <3>1, <3>3, <4>1 DEF RunHandler, DispatchInv, DispatchExact
      <4> QED
        BY <1>2, <3>1, <3>3, <4>2 DEF DispatchInv, RunHandler, pkt_type
    <3>4. CASE RecvPacket
      BY <1>2, <3>1, <3>4 DEF RecvPacket, DispatchInv, DispatchExact, ValidPublish, pkt_type
    <3>5. CASE PubackSend
      BY <1>2, <3>1, <3>5 DEF PubackSend, DispatchInv, DispatchExact, pkt_type
    <3>6. CASE rpc' \notin {"puback", "search", "run"}
      BY <1>2, <3>1, <3>6 DEF DispatchInv, DispatchExact
    <3>7. CASE RecvTimeout \/ RecvHdrError
      BY <3>6, <3>7 DEF RecvTimeout, RecvHdrError, vars, recv
    <3>8. CASE Connect \/ HandshakeFails \/ ConnackHdr \/ ConnackLen \/ ConnackBody
               \/ RecvHdr \/ RecvFails \/ RecvLen \/ RecvBody \/ PubDone
      BY <3>6, <3>8 DEF Connect, HandshakeFails, ConnackHdr, ConnackLen, ConnackBody,
         RecvHdr, RecvFails, RecvLen, RecvBody, PubDone
    <3> QED
      BY <2>2, <3>2, <3>3, <3>4, <3>5, <3>7, <3>8 DEF RecvThread
  <2>3. ASSUME UNCHANGED recv, \A e \in entries' : topic_is_valid(e.topic),
               entries' \ fresh' \subseteq entries \ fresh,
               rpc = "run" => msgs'[frame.msg] = msgs[frame.msg]
        PROVE  DispatchInv'
    <3>1. rpc = "run" => \A e : Concerns(e)' <=> Concerns(e)
      BY <2>3 DEF Concerns, recv
    <3>2. DispatchExact'
      BY <1>2, <2>3, <3>1 DEF DispatchInv, DispatchExact, recv
    <3> QED
      BY <1>2, <2>3, <3>2 DEF DispatchInv, recv, pkt_type
  <2>4. ASSUME NEW u \in Users, User(u)
        PROVE  DispatchInv'
    BY <1>2, <2>3, <2>4, UserAddsFresh DEF DispatchInv
  <2>5. ASSUME NEW s \in Shapes, BrokerSend(s)
        PROVE  DispatchInv'
    <3>1. rpc = "run" => msgs'[frame.msg] = msgs[frame.msg]
      BY <2>1, <2>5 DEF BrokerSend
    <3> QED
      BY <1>2, <2>3, <2>5, <3>1 DEF BrokerSend, list, DispatchInv
  <2>6. CASE BrokerResend \/ LinkBreaks \/ UNCHANGED vars
    BY <1>2, <2>3, <2>6 DEF BrokerResend, LinkBreaks, vars, list, peer, DispatchInv
  <2> QED
    BY <1>2, <2>2, <2>4, <2>5, <2>6 DEF Next
<1>3. DispatchInv => DispatchExact
  BY DEF DispatchInv
<1> QED
  BY <1>1, <1>2, <1>3, RecvTypeCorrect, FramesInvariant, PTL DEF Spec
=============================================================================
