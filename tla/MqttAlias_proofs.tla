-------------------------- MODULE MqttAlias_proofs --------------------------
(***************************************************************************)
(* What MqttAlias guarantees for every set of topics, every range of       *)
(* aliases and any number of connections.                                  *)
(*                                                                         *)
(* The outgoing direction rests on one function, owner, from aliases to    *)
(* the topic they were given out for: the list, the packets under way, the *)
(* kept packets and the broker's table all agree with it, and it has no    *)
(* value above tx_topic_alias.  Forgetting bindings never breaks it;       *)
(* giving an alias out again would.                                        *)
(***************************************************************************)
EXTENDS MqttAlias, TLAPS

\* What the guarantee for outgoing packets needs of the application.
OnePublisher == \A p, q \in Publishers : p = q
PrefixFree   == \A s, t \in Topics : <<s, t>> \in PrefixOf => s = t
NoWrap       == \A m \in TxMaxes : m < AliasModulus - 1

\* A publisher between call and return has a whole packet.
PacketTyped == \A p \in Publishers : pc[p] # "idle" => pkt[p] \in Packets

Carries(p) == pc[p] \in {"insert", "build", "write"}

\* All traces of aliases agree with owner.
Agrees(owner) ==
  /\ \A x \in TxAliases : x > tx_topic_alias => owner[x] = NoTopic
  /\ \A i \in DOMAIN tx_topic_alias_list :
       /\ tx_topic_alias_list[i].alias > 0
       /\ owner[tx_topic_alias_list[i].alias] = tx_topic_alias_list[i].topic
  /\ \A x \in TxAliases : broker_tx[x] # NoTopic => broker_tx[x] = owner[x]
  /\ \A m \in pub_list : m.alias > 0 => owner[m.alias] = m.topic
  /\ \A p \in Publishers : Carries(p) /\ pkt[p].alias > 0 => owner[pkt[p].alias] = pkt[p].topic

\* Where a publisher's packet stands.
PacketInv ==
  /\ \A m \in pub_list : m.replaced => m.alias > 0
  /\ \A p \in Publishers :
       /\ pkt[p].replaced => pkt[p].alias > 0
       /\ pc[p] \in {"lookup", "count"} => pkt[p].alias = 0 /\ ~pkt[p].replaced
       /\ pc[p] = "store" => pkt[p].alias = tx_topic_alias + 1 /\ pkt[p].alias < AliasModulus - 1
       /\ pc[p] = "insert" => pkt[p].alias > 0

TxInv ==
  /\ PacketInv
  /\ tx_topic_alias < AliasModulus - 1
  /\ tx_topic_alias_max < AliasModulus - 1
  /\ \E owner \in [TxAliases -> Topics \cup {NoTopic}] : Agrees(owner)

\* The incoming list says what the broker has said on this connection.
RxInv ==
  /\ \A i \in DOMAIN rx_topic_alias_list :
       broker_rx[rx_topic_alias_list[i].alias] = rx_topic_alias_list[i].topic
  /\ link = "connecting" => rx_topic_alias_list = <<>> /\ rx_pc = "idle"
  /\ rx_pc = "alias" => /\ rx.topic \in {rx.meant, NoTopic}
                        /\ rx.topic = NoTopic \/ rx.alias > 0 => broker_rx[rx.alias] = rx.meant
  /\ rx_pc = "dispatch" => rx.topic \in {rx.meant, NoTopic}

\* alias_id does not wrap below the modulus.
LEMMA SmallMod == ASSUME NEW m \in Nat \ {0}, NEW x \in Nat, x < m PROVE x % m = x
OBVIOUS

\* What _core_mqtt_topic_alias_list_insert leaves: old nodes and perhaps the new one.
LEMMA InsertedNodes ==
  ASSUME NEW S, NEW list \in Seq(S), NEW node \in S
  PROVE  /\ Inserted(list, node) \in Seq(S)
         /\ \A i \in DOMAIN Inserted(list, node) :
              \/ Inserted(list, node)[i] = node
              \/ \E j \in DOMAIN list : Inserted(list, node)[i] = list[j]
BY DEF Inserted

LEMMA NodeTyped ==
  ASSUME NEW S, NEW list \in Seq(S), NEW i \in DOMAIN list
  PROVE  list[i] \in S
OBVIOUS

LEMMA TypeInit == Init => TypeOK
BY AliasAssumption DEF Init, TypeOK, TxAliases, RxAliases, Packets, NoPacket, NoRx, Nodes

\* A publisher's step keeps the types.
LEMMA TypePublish ==
  ASSUME TypeOK, PacketTyped, NEW p \in Publishers, Publish(p)
  PROVE  TypeOK' /\ PacketTyped'
<1> USE AliasAssumption
<1>1. ASSUME NEW t \in Topics, PubCall(p, t) PROVE TypeOK' /\ PacketTyped'
  BY <1>1 DEF PubCall, TypeOK, PacketTyped, Packets, TxAliases, rxvars
<1>2. CASE TxFound(p)
  <2>1. PICK i \in DOMAIN tx_topic_alias_list :
          pkt' = [pkt EXCEPT ![p].alias = tx_topic_alias_list[i].alias, ![p].replaced = TRUE]
    BY <1>2 DEF TxFound
  <2>0. tx_topic_alias_list[i] \in Nodes(TxAliases)
    BY <2>1, NodeTyped DEF TypeOK
  <2>2. tx_topic_alias_list[i].alias \in TxAliases
    BY <2>0 DEF Nodes
  <2>3. pkt[p] \in Packets
    BY <1>2 DEF TxFound, PacketTyped
  <2>4. pkt' \in [Publishers -> Packets \cup {NoPacket}] /\ pkt'[p] \in Packets
    BY <2>1, <2>2, <2>3 DEF TypeOK, Packets
  <2> QED
    BY <1>2, <2>1, <2>4 DEF TxFound, TypeOK, PacketTyped, rxvars
<1>3. CASE TxCount(p)
  <2> DEFINE alias_id == (tx_topic_alias + 1) % AliasModulus
  <2>1. alias_id \in TxAliases
    BY DEF TypeOK, TxAliases
  <2>2. pkt[p] \in Packets
    BY <1>3 DEF TxCount, PacketTyped
  <2> HIDE DEF alias_id
  <2>3. pkt' \in {pkt, [pkt EXCEPT ![p].alias = alias_id]} /\ pc' \in {[pc EXCEPT ![p] = "store"], [pc EXCEPT ![p] = "build"]}
    BY <1>3 DEF TxCount, alias_id
  <2>4. [pkt[p] EXCEPT !.alias = alias_id] \in Packets
    BY <2>1, <2>2 DEF Packets
  <2>5. pkt' \in [Publishers -> Packets \cup {NoPacket}] /\ pkt'[p] \in Packets
    BY <2>2, <2>3, <2>4 DEF TypeOK
  <2>6. /\ pc' \in [Publishers -> {"idle", "lookup", "count", "store", "insert", "build", "write"}]
        /\ \A q \in Publishers : q # p => pc'[q] = pc[q] /\ pkt'[q] = pkt[q]
    BY <2>3 DEF TypeOK
  <2>7. UNCHANGED <<link, disc, tx_topic_alias, tx_topic_alias_max, tx_topic_alias_list, pub_list, rxvars, broker_tx, broker_rx>>
    BY <1>3 DEF TxCount
  <2> QED
    BY <2>5, <2>6, <2>7 DEF TypeOK, PacketTyped, rxvars
<1>4. CASE TxInsert(p)
  <2> DEFINE node == [topic |-> pkt[p].topic, alias |-> pkt[p].alias]
  <2>1. node \in Nodes(TxAliases)
    BY <1>4 DEF TxInsert, PacketTyped, Packets, Nodes
  <2>2. Inserted(tx_topic_alias_list, node) \in Seq(Nodes(TxAliases))
    BY <2>1, InsertedNodes DEF TypeOK
  <2> QED
    BY <1>4, <2>2 DEF TxInsert, TypeOK, PacketTyped, rxvars
<1>5. CASE TxStore(p)
  <2>1. pkt[p].alias \in TxAliases
    BY <1>5 DEF TxStore, PacketTyped, Packets
  <2> QED
    BY <1>5, <2>1 DEF TxStore, TypeOK, PacketTyped, rxvars
<1>6. CASE PubBuild(p)
  BY <1>6 DEF PubBuild, TypeOK, PacketTyped, rxvars
<1>8. CASE TxNotFound(p)
  BY <1>8 DEF TxNotFound, TypeOK, PacketTyped, rxvars
<1>9. CASE PubBuildFails(p)
  BY <1>9 DEF PubBuildFails, PubReturns, TypeOK, PacketTyped, rxvars
<1>10. CASE PubWriteFails(p)
  BY <1>10 DEF PubWriteFails, PubReturns, TypeOK, PacketTyped, rxvars
<1>7. CASE PubWrite(p)
  <2>1. broker_tx' \in [TxAliases -> Topics \cup {NoTopic}]
    BY <1>7 DEF PubWrite, BrokerReads, TypeOK, PacketTyped, Packets
  <2> QED
    BY <1>7, <2>1 DEF PubWrite, PubReturns, TypeOK, PacketTyped, rxvars
<1> QED
  BY <1>1, <1>2, <1>3, <1>4, <1>5, <1>6, <1>7, <1>8, <1>9, <1>10 DEF Publish

\* Every step keeps the types.
LEMMA TypeStep == TypeOK /\ PacketTyped /\ [Next]_vars => TypeOK' /\ PacketTyped'
<1> SUFFICES ASSUME TypeOK, PacketTyped, [Next]_vars PROVE TypeOK' /\ PacketTyped'
  OBVIOUS
<1> USE AliasAssumption
<1>1. ASSUME NEW p \in Publishers, Publish(p) PROVE TypeOK' /\ PacketTyped'
  BY <1>1, TypePublish
<1>2. ASSUME NEW m \in pub_list, Repub(m) \/ Acked(m) PROVE TypeOK' /\ PacketTyped'
  <2>1. broker_tx' \in [TxAliases -> Topics \cup {NoTopic}]
    BY <1>2 DEF Repub, Acked, BrokerReads, TypeOK, Packets
  <2> QED
    BY <1>2, <2>1 DEF Repub, Acked, TypeOK, PacketTyped, txvars, rxvars
<1>3. ASSUME NEW by \in Connectors, ConnectBegin(by) PROVE TypeOK' /\ PacketTyped'
  BY <1>3 DEF ConnectBegin, RemoveAll, TypeOK, PacketTyped
<1>4. ASSUME NEW max \in TxMaxes, ConnackHandle(max) PROVE TypeOK' /\ PacketTyped'
  BY <1>4 DEF ConnackHandle, TypeOK, PacketTyped, txvars, rxvars
<1>5. CASE LinkDown
  BY <1>5 DEF LinkDown, TypeOK, PacketTyped, txvars, rxvars
<1>11. CASE DisconnectSend
  BY <1>11 DEF DisconnectSend, TypeOK, PacketTyped, txvars, rxvars
<1>12. CASE DisconnectForget
  BY <1>12 DEF DisconnectForget, RemoveAll, TypeOK, PacketTyped
<1>13. CASE DisconnectClose
  BY <1>13 DEF DisconnectClose, TypeOK, PacketTyped, txvars, rxvars
<1>6. ASSUME NEW t \in Topics, NEW a \in RxAliases, RxTopic(t, a) PROVE TypeOK' /\ PacketTyped'
  BY <1>6 DEF RxTopic, TypeOK, PacketTyped, txvars
<1>7. ASSUME NEW a \in RxAliases, RxAliasOnly(a) PROVE TypeOK' /\ PacketTyped'
  BY <1>7 DEF RxAliasOnly, TypeOK, PacketTyped, txvars
<1>8. CASE RxBind
  <2> DEFINE node == [topic |-> rx.topic, alias |-> rx.alias]
  <2>1. node \in Nodes(RxAliases)
    BY <1>8 DEF RxBind, TypeOK, Nodes
  <2>2. Inserted(rx_topic_alias_list, node) \in Seq(Nodes(RxAliases))
    BY <2>1, InsertedNodes DEF TypeOK
  <2>3. rx_topic_alias_list' \in {rx_topic_alias_list, Inserted(rx_topic_alias_list, node)}
    BY <1>8 DEF RxBind
  <2> QED
    BY <1>8, <2>2, <2>3 DEF RxBind, TypeOK, PacketTyped, txvars
<1>9. CASE RxResolve
  <2>0. \A i \in DOMAIN rx_topic_alias_list : rx_topic_alias_list[i] \in Nodes(RxAliases)
    BY NodeTyped DEF TypeOK
  <2>1. \A i \in DOMAIN rx_topic_alias_list : rx_topic_alias_list[i].topic \in Topics
    BY <2>0 DEF Nodes
  <2>2. rx' \in [topic : Topics \cup {NoTopic}, alias : RxAliases, meant : Topics \cup {NoTopic}]
    BY <1>9, <2>1 DEF RxResolve, TypeOK
  <2> QED
    BY <1>9, <2>2 DEF RxResolve, TypeOK, PacketTyped, txvars
<1>14. CASE RxDispatch
  BY <1>14 DEF RxDispatch, NoRx, TypeOK, PacketTyped, RxAliases, txvars
<1>10. CASE UNCHANGED vars
  BY <1>10 DEF vars, txvars, rxvars, TypeOK, PacketTyped
<1> QED
  BY <1>1, <1>2, <1>3, <1>4, <1>5, <1>6, <1>7, <1>8, <1>9, <1>10, <1>11, <1>12, <1>13, <1>14 DEF Next

(***************************************************************************)
(* Every variable of the alias machinery keeps its type; in particular no  *)
(* alias leaves the range of a uint16_t.                                   *)
(***************************************************************************)
THEOREM AliasTypeCorrect == Spec => []TypeOK
<1>1. Init => PacketTyped
  BY DEF Init, PacketTyped
<1> QED
  BY <1>1, TypeInit, TypeStep, PTL DEF Spec

-----------------------------------------------------------------------------
(* Incoming packets. *)

LEMMA RxStep ==
  ASSUME Connectors = {"recv"}, ~BrokerRebinds
  PROVE  TypeOK /\ RxInv /\ [Next]_vars => RxInv'
<1> SUFFICES ASSUME TypeOK, RxInv, [Next]_vars PROVE RxInv'
  OBVIOUS
<1> USE AliasAssumption
<1>t. \A i \in DOMAIN rx_topic_alias_list : rx_topic_alias_list[i] \in Nodes(RxAliases)
  BY DEF TypeOK
<1>1. ASSUME NEW p \in Publishers, Publish(p) PROVE RxInv'
  <2>1. UNCHANGED <<rxvars, broker_rx>> /\ (link' = "connecting" => link = "connecting")
    BY <1>1 DEF Publish, PubCall, TxFound, TxNotFound, TxCount, TxStore, TxInsert, PubBuild,
         PubBuildFails, PubWrite, PubWriteFails
  <2> QED
    BY <2>1 DEF RxInv, rxvars
<1>2. ASSUME NEW m \in pub_list, Repub(m) \/ Acked(m) PROVE RxInv'
  BY <1>2 DEF Repub, Acked, RxInv, rxvars
<1>3. ASSUME NEW by \in Connectors, ConnectBegin(by) PROVE RxInv'
  BY <1>3 DEF ConnectBegin, RemoveAll, RxInv
<1>4. ASSUME NEW max \in TxMaxes, ConnackHandle(max) PROVE RxInv'
  BY <1>4 DEF ConnackHandle, RxInv, rxvars
<1>5. CASE LinkDown \/ DisconnectSend \/ DisconnectForget \/ DisconnectClose
  BY <1>5 DEF LinkDown, DisconnectSend, DisconnectForget, DisconnectClose, RemoveAll, RxInv, rxvars
<1>6. ASSUME NEW t \in Topics, NEW a \in RxAliases, RxTopic(t, a) PROVE RxInv'
  <2>1. \A i \in DOMAIN rx_topic_alias_list :
          broker_rx'[rx_topic_alias_list[i].alias] = rx_topic_alias_list[i].topic
    BY <1>6, <1>t DEF RxTopic, RxInv, TypeOK, Nodes
  <2>2. a > 0 => broker_rx'[a] = t
    BY <1>6 DEF RxTopic, TypeOK
  <2> QED
    BY <1>6, <2>1, <2>2 DEF RxTopic, RxInv
<1>7. ASSUME NEW a \in RxAliases, RxAliasOnly(a) PROVE RxInv'
  BY <1>7 DEF RxAliasOnly, RxInv
<1>8. CASE RxBind
  <2> DEFINE node == [topic |-> rx.topic, alias |-> rx.alias]
  <2>1. node \in Nodes(RxAliases)
    BY <1>8 DEF RxBind, TypeOK, Nodes
  <2>2. CASE rx_topic_alias_list' = rx_topic_alias_list
    BY <1>8, <2>2 DEF RxBind, RxInv
  <2>3. CASE rx_topic_alias_list' = Inserted(rx_topic_alias_list, node) /\ rx.alias # 0
    <3>1. rx.alias > 0
      BY <2>3 DEF TypeOK, RxAliases
    <3>2. broker_rx[node.alias] = node.topic
      BY <1>8, <3>1 DEF RxBind, RxInv
    <3>3. \A i \in DOMAIN rx_topic_alias_list' :
            \/ rx_topic_alias_list'[i] = node
            \/ \E j \in DOMAIN rx_topic_alias_list : rx_topic_alias_list'[i] = rx_topic_alias_list[j]
      BY <2>1, <2>3, InsertedNodes DEF TypeOK
    <3>4. \A i \in DOMAIN rx_topic_alias_list' :
            broker_rx[rx_topic_alias_list'[i].alias] = rx_topic_alias_list'[i].topic
      BY <3>2, <3>3 DEF RxInv
    <3> QED
      BY <1>8, <3>4 DEF RxBind, RxInv
  <2> QED
    BY <1>8, <2>2, <2>3 DEF RxBind
<1>9. CASE RxResolve
  <2>1. CASE UNCHANGED rx
    BY <1>9, <2>1 DEF RxResolve, RxInv
  <2>2. ASSUME NEW i \in DOMAIN rx_topic_alias_list,
               FirstHit(rx_topic_alias_list, RxHits(rx.alias), i),
               rx' = [rx EXCEPT !.topic = rx_topic_alias_list[i].topic]
        PROVE  RxInv'
    <3>1. rx_topic_alias_list[i].alias = rx.alias
      BY <2>2 DEF FirstHit, RxHits
    <3>2. rx_topic_alias_list[i].topic = rx.meant
      BY <1>9, <3>1 DEF RxResolve, RxInv
    <3> QED
      BY <1>9, <2>2, <3>2 DEF RxResolve, RxInv, TypeOK
  <2> QED
    BY <1>9, <2>1, <2>2 DEF RxResolve
<1>10. CASE RxDispatch
  BY <1>10 DEF RxDispatch, RxInv
<1>11. CASE UNCHANGED vars
  BY <1>11 DEF vars, rxvars, RxInv
<1> QED
  BY <1>1, <1>2, <1>3, <1>4, <1>5, <1>6, <1>7, <1>8, <1>9, <1>10, <1>11 DEF Next

(***************************************************************************)
(* When aiot_mqtt_recv alone makes the connections, and the broker keeps   *)
(* to one topic per alias and connection, no handler is called for a topic *)
(* other than the one the broker meant.                                    *)
(***************************************************************************)
THEOREM RxRightTopicAlways ==
  ASSUME Connectors = {"recv"}, ~BrokerRebinds
  PROVE  Spec => []RxRightTopic
<1>1. Init => RxInv
  BY DEF Init, RxInv
<1>2. RxInv => RxRightTopic
  BY DEF RxInv, RxRightTopic
<1> QED
  BY <1>1, <1>2, RxStep, AliasTypeCorrect, PTL DEF Spec

-----------------------------------------------------------------------------
(* Outgoing packets. *)

\* A step that gives out no alias keeps the owners, and what it adds must agree.
LEMMA SameOwners ==
  ASSUME NEW owner, Agrees(owner),
         tx_topic_alias' = tx_topic_alias,
         \/ tx_topic_alias_list' \in {tx_topic_alias_list, <<>>}
         \/ \A i \in DOMAIN tx_topic_alias_list' :
              /\ tx_topic_alias_list'[i].alias > 0
              /\ owner[tx_topic_alias_list'[i].alias] = tx_topic_alias_list'[i].topic,
         \A x \in TxAliases : broker_tx'[x] # NoTopic => broker_tx'[x] = owner[x],
         \A m \in pub_list' : m \notin pub_list /\ m.alias > 0 => owner[m.alias] = m.topic,
         \A p \in Publishers : Carries(p)' /\ pkt'[p].alias > 0
           => \/ Carries(p) /\ pkt'[p] = pkt[p]
              \/ owner[pkt'[p].alias] = pkt'[p].topic
  PROVE  Agrees(owner)'
BY DEF Agrees

\* A PUBLISH that arrives says no more than the owners do.
LEMMA BrokerAgrees ==
  ASSUME TypeOK, NEW owner, Agrees(owner), NEW m \in Packets, BrokerReads(m),
         m.alias > 0 => owner[m.alias] = m.topic
  PROVE  \A x \in TxAliases : broker_tx'[x] # NoTopic => broker_tx'[x] = owner[x]
BY DEF BrokerReads, Agrees, TypeOK, Packets

LEMMA TxPublish ==
  ASSUME OnePublisher, PrefixFree, NoWrap, TypeOK, PacketTyped, TxInv, NEW p \in Publishers, Publish(p)
  PROVE  TxInv'
<1>o. PICK owner \in [TxAliases -> Topics \cup {NoTopic}] : Agrees(owner)
  BY DEF TxInv
<1>p. \A q \in Publishers : q = p
  BY DEF OnePublisher
<1>m. AliasModulus \in Nat \ {0} /\ NoTopic \notin Topics
  BY AliasAssumption
<1>n. /\ tx_topic_alias \in Nat /\ tx_topic_alias_max \in Nat
      /\ tx_topic_alias < AliasModulus - 1 /\ tx_topic_alias_max < AliasModulus - 1
  BY <1>m DEF TypeOK, TxAliases, TxInv
<1>w. TxInv' <=> /\ PacketInv'
                 /\ tx_topic_alias' < AliasModulus - 1
                 /\ tx_topic_alias_max' < AliasModulus - 1
                 /\ \E f \in [TxAliases -> Topics \cup {NoTopic}] : Agrees(f)'
  BY DEF TxInv
<1>1. ASSUME NEW t \in Topics, PubCall(p, t) PROVE TxInv'
  <2>1. PacketInv'
    BY <1>1, <1>p DEF PubCall, PacketInv, TxInv, TypeOK
  <2>2. Agrees(owner)'
    BY <1>1, <1>o, <1>p, SameOwners DEF PubCall, Carries, TypeOK, Agrees
  <2> QED
    BY <1>1, <1>n, <1>o, <1>w, <2>1, <2>2 DEF PubCall
<1>2. CASE TxFound(p)
  <2>1. PICK i \in DOMAIN tx_topic_alias_list :
          /\ FirstHit(tx_topic_alias_list, TxHits(pkt[p].topic), i)
          /\ pkt' = [pkt EXCEPT ![p].alias = tx_topic_alias_list[i].alias, ![p].replaced = TRUE]
    BY <1>2 DEF TxFound
  <2>2. pkt[p] \in Packets /\ tx_topic_alias_list[i] \in Nodes(TxAliases)
    BY <1>2, NodeTyped DEF TxFound, PacketTyped, TypeOK
  <2>3. tx_topic_alias_list[i].topic = pkt[p].topic
    BY <2>1, <2>2 DEF FirstHit, TxHits, PrefixFree, Nodes, Packets
  <2>4. /\ tx_topic_alias_list[i].alias > 0
        /\ owner[tx_topic_alias_list[i].alias] = pkt[p].topic
    BY <1>o, <2>3 DEF Agrees
  <2>5. /\ pkt'[p].alias = tx_topic_alias_list[i].alias
        /\ pkt'[p].topic = pkt[p].topic
        /\ pc'[p] = "build"
    BY <1>2, <2>1, <2>2 DEF TxFound, TypeOK, Packets
  <2>6. PacketInv'
    BY <1>2, <1>p, <2>4, <2>5 DEF TxFound, PacketInv, TxInv
  <2>7. Agrees(owner)'
    BY <1>2, <1>o, <1>p, <2>4, <2>5, SameOwners DEF TxFound, Agrees
  <2> QED
    BY <1>2, <1>n, <1>o, <1>w, <2>6, <2>7 DEF TxFound
<1>3. CASE TxNotFound(p)
  <2>1. PacketInv'
    BY <1>3, <1>p DEF TxNotFound, PacketInv, TxInv, TypeOK
  <2>2. Agrees(owner)'
    BY <1>3, <1>o, <1>p, SameOwners DEF TxNotFound, Carries, TypeOK, Agrees
  <2> QED
    BY <1>3, <1>n, <1>o, <1>w, <2>1, <2>2 DEF TxNotFound
<1>4. CASE TxCount(p)
  <2>1. (tx_topic_alias + 1) % AliasModulus = tx_topic_alias + 1
    BY <1>m, <1>n, SmallMod
  <2>2. pkt[p] \in Packets /\ pkt[p].alias = 0 /\ ~pkt[p].replaced
    BY <1>4 DEF TxCount, PacketTyped, PacketInv, TxInv
  <2>3. \/ /\ pkt' = [pkt EXCEPT ![p].alias = tx_topic_alias + 1]
           /\ pc' = [pc EXCEPT ![p] = "store"]
           /\ tx_topic_alias + 1 <= tx_topic_alias_max
        \/ pkt' = pkt /\ pc' = [pc EXCEPT ![p] = "build"]
    BY <1>4, <2>1 DEF TxCount
  <2>4. \/ /\ pkt'[p].alias = tx_topic_alias + 1 /\ ~pkt'[p].replaced
           /\ pc'[p] = "store"
           /\ tx_topic_alias + 1 <= tx_topic_alias_max
        \/ pkt'[p] = pkt[p] /\ pc'[p] = "build"
    BY <2>2, <2>3 DEF TypeOK, Packets
  <2>5. UNCHANGED <<tx_topic_alias, tx_topic_alias_max, tx_topic_alias_list, pub_list, broker_tx>>
    BY <1>4 DEF TxCount
  <2>6. PacketInv'
    BY <1>m, <1>n, <1>p, <2>2, <2>4, <2>5 DEF PacketInv, TxInv
  <2>7. Agrees(owner)'
    BY <1>o, <1>p, <2>2, <2>4, <2>5, SameOwners DEF Carries, Agrees
  <2> QED
    BY <1>n, <1>o, <1>w, <2>5, <2>6, <2>7
<1>5. CASE TxStore(p)
  <2> DEFINE x0 == pkt[p].alias
  <2>1. /\ pkt[p] \in Packets
        /\ x0 = tx_topic_alias + 1 /\ x0 < AliasModulus - 1
        /\ x0 \in TxAliases /\ pkt[p].topic \in Topics
    BY <1>5 DEF TxStore, PacketTyped, PacketInv, TxInv, Packets
  <2>2. owner[x0] = NoTopic
    BY <1>o, <1>n, <2>1 DEF Agrees
  <2>3. PICK f \in [TxAliases -> Topics \cup {NoTopic}] : f = [owner EXCEPT ![x0] = pkt[p].topic]
    BY <1>o, <2>1
  <2>4. f[x0] = pkt[p].topic /\ \A x \in TxAliases : x # x0 => f[x] = owner[x]
    BY <1>o, <2>1, <2>3
  <2>5. /\ pc'[p] = "insert" /\ tx_topic_alias' = x0
        /\ UNCHANGED <<tx_topic_alias_max, tx_topic_alias_list, pkt, pub_list, broker_tx>>
    BY <1>5 DEF TxStore, TypeOK
  <2>6. \A x \in TxAliases : x > tx_topic_alias' => f[x] = NoTopic
    BY <1>o, <1>n, <2>1, <2>4, <2>5 DEF Agrees, TxAliases
  <2>7. \A i \in DOMAIN tx_topic_alias_list :
          tx_topic_alias_list[i].alias > 0 /\ f[tx_topic_alias_list[i].alias] = tx_topic_alias_list[i].topic
    <3>1. \A i \in DOMAIN tx_topic_alias_list : tx_topic_alias_list[i] \in Nodes(TxAliases)
      BY NodeTyped DEF TypeOK
    <3> QED
      BY <3>1, <1>o, <1>m, <2>2, <2>4 DEF Agrees, Nodes
  <2>8. \A x \in TxAliases : broker_tx[x] # NoTopic => broker_tx[x] = f[x]
    BY <1>o, <1>m, <2>2, <2>4 DEF Agrees
  <2>9. \A m \in pub_list : m.alias > 0 => f[m.alias] = m.topic
    <3>1. \A m \in pub_list : m.alias \in TxAliases /\ m.topic \in Topics
      BY DEF TypeOK, Packets
    <3> QED
      BY <3>1, <1>o, <1>m, <2>2, <2>4 DEF Agrees
  <2>10. Agrees(f)'
    BY <1>p, <2>4, <2>5, <2>6, <2>7, <2>8, <2>9 DEF Agrees
  <2>11. PacketInv'
    BY <1>p, <1>n, <2>1, <2>5 DEF PacketInv, TxInv
  <2> QED
    BY <1>n, <1>w, <2>1, <2>3, <2>5, <2>10, <2>11
<1>6. CASE TxInsert(p)
  <2> DEFINE node == [topic |-> pkt[p].topic, alias |-> pkt[p].alias]
  <2>1. /\ pkt[p].alias > 0 /\ owner[pkt[p].alias] = pkt[p].topic
        /\ node \in Nodes(TxAliases)
    BY <1>6, <1>o DEF TxInsert, PacketInv, TxInv, Agrees, Carries, PacketTyped, Packets, Nodes
  <2>2. \A i \in DOMAIN tx_topic_alias_list' :
          \/ tx_topic_alias_list'[i] = node
          \/ \E j \in DOMAIN tx_topic_alias_list : tx_topic_alias_list'[i] = tx_topic_alias_list[j]
    <3>1. CASE tx_topic_alias_list' = tx_topic_alias_list
      BY <3>1
    <3>2. CASE tx_topic_alias_list' = Inserted(tx_topic_alias_list, node)
      <4>1. tx_topic_alias_list \in Seq(Nodes(TxAliases))
        BY DEF TypeOK
      <4> HIDE DEF node
      <4> QED
        BY <2>1, <3>2, <4>1, InsertedNodes
    <3> QED
      BY <1>6, <3>1, <3>2 DEF TxInsert
  <2>3. \A i \in DOMAIN tx_topic_alias_list' :
          /\ tx_topic_alias_list'[i].alias > 0
          /\ owner[tx_topic_alias_list'[i].alias] = tx_topic_alias_list'[i].topic
    BY <1>o, <2>1, <2>2 DEF Agrees
  <2>4. /\ pc'[p] = "build"
        /\ UNCHANGED <<tx_topic_alias, tx_topic_alias_max, pkt, pub_list, broker_tx>>
    BY <1>6 DEF TxInsert, TypeOK
  <2>5. Agrees(owner)'
    BY <1>o, <1>p, <2>1, <2>3, <2>4, SameOwners DEF Agrees
  <2>6. PacketInv'
    BY <1>p, <2>4 DEF PacketInv, TxInv
  <2> QED
    BY <1>n, <1>o, <1>w, <2>4, <2>5, <2>6
<1>7. CASE PubBuild(p)
  <2>1. /\ pc[p] = "build" /\ pc'[p] = "write"
        /\ pub_list' \in {pub_list, pub_list \cup {pkt[p]}}
        /\ UNCHANGED <<tx_topic_alias, tx_topic_alias_max, tx_topic_alias_list, pkt, broker_tx>>
    BY <1>7 DEF PubBuild, TypeOK
  <2>2. Agrees(owner)'
    BY <1>o, <1>p, <2>1, SameOwners DEF Agrees, Carries
  <2>3. PacketInv'
    BY <1>p, <2>1 DEF PacketInv, TxInv
  <2> QED
    BY <1>n, <1>o, <1>w, <2>1, <2>2, <2>3
<1>8. CASE PubBuildFails(p) \/ PubWrite(p) \/ PubWriteFails(p)
  <2>1. /\ pc'[p] = "idle" /\ pkt'[p] = NoPacket
        /\ UNCHANGED <<tx_topic_alias, tx_topic_alias_max, tx_topic_alias_list, pub_list>>
    BY <1>8 DEF PubBuildFails, PubWrite, PubWriteFails, PubReturns, TypeOK
  <2>2. \A x \in TxAliases : broker_tx'[x] # NoTopic => broker_tx'[x] = owner[x]
    <3>1. CASE PubWrite(p)
      BY <3>1, <1>o, BrokerAgrees DEF PubWrite, Agrees, Carries, PacketTyped
    <3>2. CASE PubBuildFails(p) \/ PubWriteFails(p)
      BY <3>2, <1>o DEF PubBuildFails, PubWriteFails, Agrees
    <3> QED
      BY <1>8, <3>1, <3>2
  <2>3. Agrees(owner)'
    BY <1>o, <1>p, <2>1, <2>2, SameOwners DEF Carries, Agrees
  <2>4. PacketInv'
    BY <1>p, <2>1 DEF PacketInv, TxInv, NoPacket
  <2> QED
    BY <1>n, <1>o, <1>w, <2>1, <2>3, <2>4
<1> QED
  BY <1>1, <1>2, <1>3, <1>4, <1>5, <1>6, <1>7, <1>8 DEF Publish

LEMMA TxStep ==
  ASSUME OnePublisher, PrefixFree, NoWrap
  PROVE  TypeOK /\ PacketTyped /\ TxInv /\ [Next]_vars => TxInv'
<1> SUFFICES ASSUME TypeOK, PacketTyped, TxInv, [Next]_vars PROVE TxInv'
  OBVIOUS
<1>o. PICK owner \in [TxAliases -> Topics \cup {NoTopic}] : Agrees(owner)
  BY DEF TxInv
<1>w. TxInv' <=> /\ PacketInv'
                 /\ tx_topic_alias' < AliasModulus - 1
                 /\ tx_topic_alias_max' < AliasModulus - 1
                 /\ \E f \in [TxAliases -> Topics \cup {NoTopic}] : Agrees(f)'
  BY DEF TxInv
<1>1. ASSUME NEW p \in Publishers, Publish(p) PROVE TxInv'
  BY <1>1, TxPublish
<1>2. ASSUME NEW m \in pub_list, Repub(m) \/ Acked(m) PROVE TxInv'
  <2>1. /\ pub_list' \subseteq pub_list
        /\ UNCHANGED <<tx_topic_alias, tx_topic_alias_max, tx_topic_alias_list, pc, pkt>>
    BY <1>2 DEF Repub, Acked, txvars
  <2>2. \A x \in TxAliases : broker_tx'[x] # NoTopic => broker_tx'[x] = owner[x]
    BY <1>2, <1>o, BrokerAgrees DEF Repub, Acked, Agrees, TypeOK
  <2>3. Agrees(owner)'
    BY <1>o, <2>1, <2>2 DEF Agrees, Carries
  <2>4. PacketInv'
    BY <2>1 DEF PacketInv, TxInv
  <2> QED
    BY <1>o, <1>w, <2>1, <2>3, <2>4 DEF TxInv
<1>3. ASSUME \/ \E by \in Connectors : ConnectBegin(by)
             \/ LinkDown \/ DisconnectSend \/ DisconnectForget \/ DisconnectClose
             \/ \E t \in Topics, a \in RxAliases : RxTopic(t, a)
             \/ \E a \in RxAliases : RxAliasOnly(a)
             \/ RxBind \/ RxResolve \/ RxDispatch \/ UNCHANGED vars
      PROVE  TxInv'
  <2>1. /\ UNCHANGED <<tx_topic_alias, tx_topic_alias_max, pc, pkt, pub_list, broker_tx>>
        /\ tx_topic_alias_list' \in {tx_topic_alias_list, <<>>}
    BY <1>3 DEF ConnectBegin, LinkDown, DisconnectSend, DisconnectForget, DisconnectClose, RemoveAll, RxTopic, RxAliasOnly, RxBind,
         RxResolve, RxDispatch, txvars, vars
  <2>2. Agrees(owner)'
    BY <1>o, <2>1 DEF Agrees, Carries
  <2>3. PacketInv'
    BY <2>1 DEF PacketInv, TxInv
  <2> QED
    BY <1>o, <1>w, <2>1, <2>2, <2>3 DEF TxInv
<1>4. ASSUME NEW max \in TxMaxes, ConnackHandle(max) PROVE TxInv'
  <2>1. /\ UNCHANGED <<tx_topic_alias, tx_topic_alias_list, pc, pkt, pub_list>>
        /\ tx_topic_alias_max' < AliasModulus - 1
        /\ \A x \in TxAliases : broker_tx'[x] = NoTopic
    BY <1>4 DEF ConnackHandle, txvars, NoWrap
  <2>2. Agrees(owner)'
    BY <1>o, <2>1 DEF Agrees, Carries
  <2>3. PacketInv'
    BY <2>1 DEF PacketInv, TxInv
  <2> QED
    BY <1>o, <1>w, <2>1, <2>2, <2>3 DEF TxInv
<1> QED
  BY <1>1, <1>2, <1>3, <1>4 DEF Next

LEMMA TxInit == ASSUME NoWrap PROVE Init => TxInv
<1> SUFFICES ASSUME Init PROVE TxInv
  OBVIOUS
<1>1. 0 < AliasModulus - 1
  <2>1. PICK m \in TxMaxes : m < AliasModulus - 1
    BY AliasAssumption DEF NoWrap
  <2>2. m \in Nat /\ AliasModulus \in Nat
    BY AliasAssumption DEF TxAliases
  <2> QED
    BY <2>1, <2>2
<1>2. [x \in TxAliases |-> NoTopic] \in [TxAliases -> Topics \cup {NoTopic}]
  OBVIOUS
<1>3. Agrees([x \in TxAliases |-> NoTopic])
  BY DEF Init, Agrees, Carries
<1>4. PacketInv
  BY DEF Init, PacketInv, NoPacket
<1> QED
  BY <1>1, <1>2, <1>3, <1>4 DEF Init, TxInv

(***************************************************************************)
(* With one publishing thread, topics of which none is a prefix of another *)
(* and a broker whose Topic Alias Maximum is below 65535, the broker never *)
(* takes a packet with an alias for a packet of another topic, over any    *)
(* number of reconnections, failed writes and resends.                     *)
(***************************************************************************)
THEOREM NeverWrongTopicOnePublisher ==
  ASSUME OnePublisher, PrefixFree, NoWrap
  PROVE  Spec => []NeverWrongTopic
<1>1. Init => PacketTyped
  BY DEF Init, PacketTyped
<1>2. TypeOK /\ PacketTyped /\ TxInv => NeverWrongTopic
  <2> SUFFICES ASSUME TypeOK, PacketTyped, TxInv, NEW m \in Pending, m.replaced
               PROVE  broker_tx[m.alias] \in {m.topic, NoTopic}
    BY DEF NeverWrongTopic
  <2>1. PICK owner \in [TxAliases -> Topics \cup {NoTopic}] : Agrees(owner)
    BY DEF TxInv
  <2>2. m \in Packets /\ m.alias > 0 /\ owner[m.alias] = m.topic
    BY <2>1 DEF Pending, TypeOK, PacketTyped, PacketInv, TxInv, Agrees, Carries
  <2> QED
    BY <2>1, <2>2 DEF Agrees, Packets
<1> QED
  BY <1>1, <1>2, TypeInit, TypeStep, TxInit, TxStep, PTL DEF Spec
=============================================================================
