----------------------------- MODULE MqttAlias -----------------------------
(***************************************************************************)
(* Topic aliases of MQTT 5 (core/aiot_mqtt_api.c).  Publishers bind topics *)
(* to aliases in tx_topic_alias_list and then send the alias instead of    *)
(* the topic; aiot_mqtt_recv keeps the broker's bindings in                *)
(* rx_topic_alias_list.  A binding is meant for one connection, but        *)
(* publish calls and the packets in pub_list outlive connections.          *)
(*                                                                         *)
(* The walk over a list is one step.  _core_mqtt_connect and               *)
(* aiot_mqtt_disconnect_with_prop free the lists without                   *)
(* topic_alias_mutex; a walk that meets this either finds the freed node   *)
(* or does not, as if it had come before or after.                         *)
(***************************************************************************)
EXTENDS Naturals, Sequences

CONSTANTS
  Publishers,      \* threads in _core_mqtt_pub
  Topics,
  NoTopic,         \* the empty topic
  PrefixOf,        \* pairs <<s, t>> of topics where s is a prefix of t
  AliasModulus,    \* 2^16: alias_id is a uint16_t
  TxMaxes,         \* values of Topic Alias Maximum in the broker's CONNACK
  RxMax,           \* Topic Alias Maximum the client announced
  Connectors,      \* the threads that connect: "recv" (aiot_mqtt_recv), "user"
  BrokerRebinds    \* the broker gives an alias a second topic in one connection

TxAliases == 0 .. AliasModulus - 1
RxAliases == 0 .. RxMax

ASSUME AliasAssumption ==
  /\ NoTopic \notin Topics
  /\ PrefixOf \subseteq Topics \X Topics
  /\ \A t \in Topics : <<t, t>> \in PrefixOf
  /\ AliasModulus \in Nat \ {0}
  /\ TxMaxes # {} /\ TxMaxes \subseteq TxAliases
  /\ RxMax \in Nat
  /\ Connectors \subseteq {"recv", "user"}
  /\ BrokerRebinds \in BOOLEAN

VARIABLES
  link,                  \* "down", "connecting" (send_mutex and recv_mutex are taken), "up"
  disc,                  \* where the thread in aiot_mqtt_disconnect_with_prop is
  tx_topic_alias,        \* the last alias given out
  tx_topic_alias_max,    \* from the last CONNACK
  tx_topic_alias_list,   \* sequence of [topic, alias]
  rx_topic_alias_list,
  pc, pkt,               \* each publisher: where it is, and its packet so far
  pub_list,              \* packets kept for resending
  broker_tx,             \* the broker's table of the client's aliases, this connection
  broker_rx,             \* the bindings the broker has announced on this connection
  rx_pc, rx              \* the PUBLISH packet aiot_mqtt_recv is handling

txvars == <<tx_topic_alias, tx_topic_alias_list, pc, pkt, pub_list>>
rxvars == <<rx_topic_alias_list, rx_pc, rx>>
vars == <<link, disc, tx_topic_alias_max, txvars, rxvars, broker_tx, broker_rx>>

Nodes(aliases) == [topic : Topics, alias : aliases]
Packets  == [topic : Topics, alias : TxAliases, replaced : BOOLEAN]
NoPacket == [topic |-> NoTopic, alias |-> 0, replaced |-> FALSE]
NoRx     == [topic |-> NoTopic, alias |-> 0, meant |-> NoTopic]

(* Every variable keeps its type. *)
TypeOK ==
  /\ link \in {"down", "connecting", "up"}
  /\ disc \in {"idle", "forget", "close"}
  /\ tx_topic_alias \in TxAliases
  /\ tx_topic_alias_max \in TxAliases
  /\ tx_topic_alias_list \in Seq(Nodes(TxAliases))
  /\ rx_topic_alias_list \in Seq(Nodes(RxAliases))
  /\ pc \in [Publishers -> {"idle", "lookup", "count", "store", "insert", "build", "write"}]
  /\ pkt \in [Publishers -> Packets \cup {NoPacket}]
  /\ pub_list \subseteq Packets
  /\ broker_tx \in [TxAliases -> Topics \cup {NoTopic}]
  /\ broker_rx \in [RxAliases -> Topics \cup {NoTopic}]
  /\ rx_pc \in {"idle", "alias", "dispatch"}
  /\ rx \in [topic : Topics \cup {NoTopic}, alias : RxAliases, meant : Topics \cup {NoTopic}]

Init ==
  /\ link = "down"
  /\ disc = "idle"
  /\ tx_topic_alias = 0
  /\ tx_topic_alias_max = 0
  /\ tx_topic_alias_list = <<>>
  /\ rx_topic_alias_list = <<>>
  /\ pc = [p \in Publishers |-> "idle"]
  /\ pkt = [p \in Publishers |-> NoPacket]
  /\ rx = NoRx
  /\ pub_list = {}
  /\ broker_tx = [a \in TxAliases |-> NoTopic]
  /\ broker_rx = [a \in RxAliases |-> NoTopic]
  /\ rx_pc = "idle"

\* _core_mqtt_topic_alias_list_insert: a topic that is in the list stays as it is.
Inserted(list, node) ==
  IF \E i \in DOMAIN list : list[i].topic = node.topic THEN list ELSE Append(list, node)

\* core_list_for_each_entry with a break: the node of the first hit.
FirstHit(list, hits, i) == i \in hits /\ \A j \in DOMAIN list : j < i => j \notin hits

-----------------------------------------------------------------------------
(* _core_mqtt_pub. *)

PubCall(p, t) ==
  /\ pc[p] = "idle"
  /\ pc' = [pc EXCEPT ![p] = "lookup"]
  /\ pkt' = [pkt EXCEPT ![p] = [topic |-> t, alias |-> 0, replaced |-> FALSE]]
  /\ UNCHANGED <<link, disc, tx_topic_alias, tx_topic_alias_max, tx_topic_alias_list, pub_list, rxvars, broker_tx, broker_rx>>

\* The comparison is over the length of the new topic only.
TxHits(t) == {i \in DOMAIN tx_topic_alias_list : <<t, tx_topic_alias_list[i].topic>> \in PrefixOf}

TxFound(p) ==
  /\ pc[p] = "lookup"
  /\ \E i \in DOMAIN tx_topic_alias_list :
       /\ FirstHit(tx_topic_alias_list, TxHits(pkt[p].topic), i)
       /\ pkt' = [pkt EXCEPT ![p].alias = tx_topic_alias_list[i].alias, ![p].replaced = TRUE]
  /\ pc' = [pc EXCEPT ![p] = "build"]
  /\ UNCHANGED <<link, disc, tx_topic_alias, tx_topic_alias_max, tx_topic_alias_list, pub_list, rxvars, broker_tx, broker_rx>>

TxNotFound(p) ==
  /\ pc[p] = "lookup"
  /\ TxHits(pkt[p].topic) = {}
  /\ pc' = [pc EXCEPT ![p] = "count"]
  /\ UNCHANGED <<link, disc, tx_topic_alias, tx_topic_alias_max, tx_topic_alias_list, pkt, pub_list, rxvars, broker_tx, broker_rx>>

\* alias_id++ and the test against tx_topic_alias_max, outside of the mutex.
TxCount_NoMax(p) ==
  /\ pc[p] = "count"
  /\ pkt' = [pkt EXCEPT ![p].alias = tx_topic_alias + 1]
  /\ pc' = [pc EXCEPT ![p] = "store"]
  /\ UNCHANGED <<link, disc, tx_topic_alias, tx_topic_alias_max, tx_topic_alias_list, pub_list, rxvars, broker_tx, broker_rx>>

TxCount(p) ==
  /\ pc[p] = "count"
  /\ LET alias_id == (tx_topic_alias + 1) % AliasModulus IN
       IF alias_id <= tx_topic_alias_max
         THEN /\ pkt' = [pkt EXCEPT ![p].alias = alias_id]
              /\ pc' = [pc EXCEPT ![p] = "store"]
         ELSE /\ pc' = [pc EXCEPT ![p] = "build"]
              /\ UNCHANGED pkt
  /\ UNCHANGED <<link, disc, tx_topic_alias, tx_topic_alias_max, tx_topic_alias_list, pub_list, rxvars, broker_tx, broker_rx>>

TxStore(p) ==
  /\ pc[p] = "store"
  /\ tx_topic_alias' = pkt[p].alias
  /\ pc' = [pc EXCEPT ![p] = "insert"]
  /\ UNCHANGED <<link, disc, tx_topic_alias_max, tx_topic_alias_list, pkt, pub_list, rxvars, broker_tx, broker_rx>>

\* Without memory for the node the packet announces its alias all the same.
TxInsert(p) ==
  /\ pc[p] = "insert"
  /\ tx_topic_alias_list' \in
       {tx_topic_alias_list, Inserted(tx_topic_alias_list, [topic |-> pkt[p].topic, alias |-> pkt[p].alias])}
  /\ pc' = [pc EXCEPT ![p] = "build"]
  /\ UNCHANGED <<link, disc, tx_topic_alias, tx_topic_alias_max, pkt, pub_list, rxvars, broker_tx, broker_rx>>

\* A QoS 1 packet is kept before it is written.
PubBuild(p) ==
  /\ pc[p] = "build"
  /\ pub_list' \in {pub_list, pub_list \cup {pkt[p]}}
  /\ pc' = [pc EXCEPT ![p] = "write"]
  /\ UNCHANGED <<link, disc, tx_topic_alias, tx_topic_alias_max, tx_topic_alias_list, pkt, rxvars, broker_tx, broker_rx>>

PubReturns(p) ==
  /\ pc' = [pc EXCEPT ![p] = "idle"]
  /\ pkt' = [pkt EXCEPT ![p] = NoPacket]

\* The instance is being destroyed, no memory, or the packet is too large.
PubBuildFails(p) ==
  /\ pc[p] = "build"
  /\ PubReturns(p)
  /\ UNCHANGED <<link, disc, tx_topic_alias, tx_topic_alias_max, tx_topic_alias_list, pub_list, rxvars, broker_tx, broker_rx>>

\* The broker reads a PUBLISH: a topic with an alias binds the alias.
BrokerReads(m) ==
  broker_tx' = IF m.alias > 0 /\ ~m.replaced THEN [broker_tx EXCEPT ![m.alias] = m.topic] ELSE broker_tx

\* Under send_mutex, so not while a thread connects.
PubWrite(p) ==
  /\ pc[p] = "write" /\ link = "up"
  /\ BrokerReads(pkt[p])
  /\ PubReturns(p)
  /\ UNCHANGED <<link, disc, tx_topic_alias, tx_topic_alias_max, tx_topic_alias_list, pub_list, rxvars, broker_rx>>

\* The write times out, which keeps the connection, or fails.
PubWriteFails(p) ==
  /\ pc[p] = "write" /\ link # "connecting"
  /\ link' \in {link, "down"}
  /\ PubReturns(p)
  /\ UNCHANGED <<disc, tx_topic_alias, tx_topic_alias_max, tx_topic_alias_list, pub_list, rxvars, broker_tx, broker_rx>>

\* _core_mqtt_repub sends the bytes that were built, on whatever connection is open.
Repub(m) ==
  /\ link = "up"
  /\ BrokerReads(m)
  /\ UNCHANGED <<link, disc, tx_topic_alias_max, txvars, rxvars, broker_rx>>

\* _core_mqtt_puback_handler; when PUBACKs come is the matter of MqttPub.
Acked(m) ==
  /\ pub_list' = pub_list \ {m}
  /\ UNCHANGED <<link, disc, tx_topic_alias, tx_topic_alias_max, tx_topic_alias_list, pc, pkt, rxvars, broker_tx, broker_rx>>

-----------------------------------------------------------------------------
(* The connection. *)

\* _core_mqtt_topic_alias_list_remove_all.
RemoveAll_Resets ==
  /\ rx_topic_alias_list' = <<>>
  /\ tx_topic_alias_list' = <<>>
  /\ tx_topic_alias' = 0

RemoveAll_TxOnly ==
  /\ tx_topic_alias_list' = <<>>
  /\ UNCHANGED <<rx_topic_alias_list, tx_topic_alias>>

RemoveAll ==
  /\ rx_topic_alias_list' = <<>>
  /\ tx_topic_alias_list' = <<>>
  /\ UNCHANGED tx_topic_alias

\* _core_mqtt_connect closes the old handle and forgets the bindings.
\* aiot_mqtt_recv does not call it while it handles a packet; other threads do.
ConnectBegin(by) ==
  /\ link # "connecting"
  /\ by = "recv" => rx_pc = "idle"
  /\ link' = "connecting"
  /\ RemoveAll
  /\ UNCHANGED <<disc, tx_topic_alias_max, pc, pkt, pub_list, rx_pc, rx, broker_tx, broker_rx>>

ConnackHandle(max) ==
  /\ link = "connecting"
  /\ link' = "up"
  /\ tx_topic_alias_max' = max
  /\ broker_tx' = [a \in TxAliases |-> NoTopic]
  /\ broker_rx' = [a \in RxAliases |-> NoTopic]
  /\ UNCHANGED <<disc, txvars, rxvars>>

\* The connection breaks or is closed, or the attempt fails.
LinkDown ==
  /\ link # "down"
  /\ link' = "down"
  /\ UNCHANGED <<disc, tx_topic_alias_max, txvars, rxvars, broker_tx, broker_rx>>

\* aiot_mqtt_disconnect_with_prop writes the DISCONNECT packet, ...
DisconnectSend ==
  /\ disc = "idle" /\ link = "up"
  /\ disc' = "forget"
  /\ UNCHANGED <<link, tx_topic_alias_max, txvars, rxvars, broker_tx, broker_rx>>

\* ... forgets the bindings, of whatever connection there is by now, ...
DisconnectForget ==
  /\ disc = "forget"
  /\ disc' = "close"
  /\ RemoveAll
  /\ UNCHANGED <<link, tx_topic_alias_max, pc, pkt, pub_list, rx_pc, rx, broker_tx, broker_rx>>

\* ... and closes the connection under send_mutex and recv_mutex.
DisconnectClose ==
  /\ disc = "close" /\ link # "connecting"
  /\ disc' = "idle"
  /\ link' = "down"
  /\ UNCHANGED <<tx_topic_alias_max, txvars, rxvars, broker_tx, broker_rx>>

-----------------------------------------------------------------------------
(* _core_mqtt_pub_handler. *)

\* The broker sends a topic, with or without an alias to bind ...
RxTopic(t, a) ==
  /\ link = "up" /\ rx_pc = "idle"
  /\ a > 0 /\ ~BrokerRebinds => broker_rx[a] \in {t, NoTopic}
  /\ broker_rx' = IF a > 0 THEN [broker_rx EXCEPT ![a] = t] ELSE broker_rx
  /\ rx' = [topic |-> t, alias |-> a, meant |-> t]
  /\ rx_pc' = "alias"
  /\ UNCHANGED <<link, disc, tx_topic_alias_max, txvars, rx_topic_alias_list, broker_tx>>

\* ... or only an alias it has bound on this connection.
RxAliasOnly(a) ==
  /\ link = "up" /\ rx_pc = "idle"
  /\ a > 0 /\ broker_rx[a] # NoTopic
  /\ rx' = [topic |-> NoTopic, alias |-> a, meant |-> broker_rx[a]]
  /\ rx_pc' = "alias"
  /\ UNCHANGED <<link, disc, tx_topic_alias_max, txvars, rx_topic_alias_list, broker_tx, broker_rx>>

RxHits(a) == {i \in DOMAIN rx_topic_alias_list : rx_topic_alias_list[i].alias = a}

\* _core_mqtt_process_topic_alias.
RxBind ==
  /\ rx_pc = "alias" /\ rx.topic # NoTopic
  /\ \/ /\ rx.alias > 0
        /\ rx_topic_alias_list' = Inserted(rx_topic_alias_list, [topic |-> rx.topic, alias |-> rx.alias])
     \/ UNCHANGED rx_topic_alias_list    \* no alias, or no memory for the node
  /\ rx_pc' = "dispatch"
  /\ UNCHANGED <<link, disc, tx_topic_alias_max, txvars, rx, broker_tx, broker_rx>>

RxResolve ==
  /\ rx_pc = "alias" /\ rx.topic = NoTopic
  /\ \/ \E i \in DOMAIN rx_topic_alias_list :
          /\ FirstHit(rx_topic_alias_list, RxHits(rx.alias), i)
          /\ rx' = [rx EXCEPT !.topic = rx_topic_alias_list[i].topic]
     \/ RxHits(rx.alias) = {} /\ UNCHANGED rx
  /\ rx_pc' = "dispatch"
  /\ UNCHANGED <<link, disc, tx_topic_alias_max, txvars, rx_topic_alias_list, broker_tx, broker_rx>>

\* The handlers of rx.topic run.
RxDispatch ==
  /\ rx_pc = "dispatch"
  /\ rx_pc' = "idle"
  /\ rx' = NoRx
  /\ UNCHANGED <<link, disc, tx_topic_alias_max, txvars, rx_topic_alias_list, broker_tx, broker_rx>>

-----------------------------------------------------------------------------
Publish(p) ==
  \/ \E t \in Topics : PubCall(p, t)
  \/ TxFound(p)
  \/ TxNotFound(p)
  \/ TxCount(p)
  \/ TxStore(p)
  \/ TxInsert(p)
  \/ PubBuild(p)
  \/ PubBuildFails(p)
  \/ PubWrite(p)
  \/ PubWriteFails(p)

Next ==
  \/ \E p \in Publishers : Publish(p)
  \/ \E m \in pub_list : Repub(m) \/ Acked(m)
  \/ \E by \in Connectors : ConnectBegin(by)
  \/ \E max \in TxMaxes : ConnackHandle(max)
  \/ LinkDown
  \/ DisconnectSend
  \/ DisconnectForget
  \/ DisconnectClose
  \/ \E t \in Topics, a \in RxAliases : RxTopic(t, a)
  \/ \E a \in RxAliases : RxAliasOnly(a)
  \/ RxBind
  \/ RxResolve
  \/ RxDispatch

Spec == Init /\ [][Next]_vars

-----------------------------------------------------------------------------
\* Packets the client may still put on the wire.
Pending == pub_list \cup {pkt[p] : p \in {q \in Publishers : pc[q] \in {"build", "write"}}}

(***************************************************************************)
(* A packet that carries an alias instead of its topic is read by the      *)
(* broker as its own topic or as no topic at all, never as another one,    *)
(* although publish calls and resent packets cross reconnections: aliases  *)
(* are never given out twice, because tx_topic_alias survives the          *)
(* connection that tx_topic_alias_list belongs to.                         *)
(***************************************************************************)
NeverWrongTopic ==
  \A m \in Pending : m.replaced => broker_tx[m.alias] \in {m.topic, NoTopic}

(***************************************************************************)
(* The handlers that aiot_mqtt_recv calls are those of the topic the       *)
(* broker meant: a binding of an earlier connection is never taken for one *)
(* of this connection.                                                     *)
(***************************************************************************)
RxRightTopic ==
  rx_pc = "dispatch" => rx.topic \in {rx.meant, NoTopic}
=============================================================================
