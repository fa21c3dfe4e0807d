---------------------------- MODULE MqttSession ----------------------------
(***************************************************************************)
(* The life of the network connection of the MQTT client                   *)
(* (core/aiot_mqtt_api.c): who opens it, who closes it, who reads and      *)
(* writes it, under which of data_mutex, send_mutex and recv_mutex, and    *)
(* which events the application is told.                                   *)
(*                                                                         *)
(* A thread runs a program: the sequence of internal procedures that are   *)
(* left of its current API call.  Each step takes one mutex, or is one     *)
(* access to shared state outside of the mutexes.  How far a thread is     *)
(* within a procedure shows in the mutexes it owns and in hold, the        *)
(* network handle it has passed to a blocking call of the port layer.      *)
(***************************************************************************)
EXTENDS Naturals, Sequences

CONSTANTS
  Users,             \* threads that call aiot_mqtt_connect, aiot_mqtt_disconnect ...
  Writers,           \* threads that publish or subscribe
  Recv,              \* the thread that loops in aiot_mqtt_recv
  Process,           \* the thread that loops in aiot_mqtt_process
  Handles,           \* network handles core_sysdep_network_init may return
  NULL,
  UserOps,           \* the API functions Users call
  ReconnectEnabled,  \* AIOT_MQTTOPT_RECONN_ENABLED
  MaxLost,           \* max_lost_times
  MaxCalls,          \* bound: calls made by Users
  MaxFaults          \* bound: failures of the link, the broker or the memory

Threads == Users \cup Writers \cup {Recv, Process}

ASSUME ThreadsAssumption ==
  /\ Recv # Process
  /\ Recv \notin Users \cup Writers
  /\ Process \notin Users \cup Writers
  /\ Users \cap Writers = {}
  /\ NULL \notin Threads \cup Handles
ASSUME SessionAssumption ==
  /\ Handles # {}
  /\ UserOps \subseteq {"connect", "disconnect", "disconnect_with_prop"}
  /\ ReconnectEnabled \in BOOLEAN
  /\ MaxLost \in Nat
  /\ MaxCalls \in Nat
  /\ MaxFaults \in Nat

VARIABLES
  data_mutex, send_mutex, recv_mutex,   \* owner, or NULL
  network_handle,                       \* NULL or the open handle
  session,               \* MQTT session over it: "none", "half" (no CONNACK yet), "open"
  alive,                 \* the peer still answers on this connection
  answer,                \* a PINGRESP is waiting to be read
  disconnect_api_called, has_connected, disconnected,
  lost_times,            \* capped at MaxLost + 1: the code only asks if it exceeds MaxLost
  lost_reg,              \* the value lost_times++ has read
  waited,                \* the reconnect interval has passed since last_retry_time
  prog,                  \* the procedures each thread has still to run
  hold,                  \* the handle a thread has passed to the port layer
  event,                 \* history: last event the application saw
  calls, faults

locks  == <<data_mutex, send_mutex, recv_mutex>>
net    == <<network_handle, session, alive, answer>>
flags  == <<disconnect_api_called, has_connected, disconnected>>
timers == <<lost_times, lost_reg, waited>>
vars   == <<locks, net, flags, timers, prog, hold, event, calls, faults>>

Writes   == {"write", "write_prop", "ping"}
Connects == {"connect", "reconnect_locked", "connect_heartbeat"}
Procs    == Writes \cup Connects \cup
            {"close", "read", "reconnect", "recv_entry", "recv_reconnect", "recv_lost", "recv_heartbeat",
             "lost_reset", "lost_load", "lost_store", "notify_connect", "test_connect", "emit_connect",
             "emit_reconnect", "notify_disconnect", "emit_disconnect"}
Events   == {"none", "CONNECT", "RECONNECT", "DISCONNECT"}

(* Every variable stays in its type. *)
TypeOK ==
  /\ data_mutex \in Threads \cup {NULL}
  /\ send_mutex \in Threads \cup {NULL}
  /\ recv_mutex \in Threads \cup {NULL}
  /\ network_handle \in Handles \cup {NULL}
  /\ session \in {"none", "half", "open"}
  /\ alive \in BOOLEAN /\ answer \in BOOLEAN
  /\ disconnect_api_called \in BOOLEAN
  /\ has_connected \in BOOLEAN /\ disconnected \in BOOLEAN
  /\ lost_times \in 0 .. MaxLost + 1
  /\ lost_reg \in 0 .. MaxLost + 1
  /\ waited \in BOOLEAN
  /\ prog \in [Threads -> Seq(Procs)]
  /\ hold \in [Threads -> Handles \cup {NULL}]
  /\ event \in Events
  /\ calls \in 0 .. MaxCalls
  /\ faults \in 0 .. MaxFaults

Init ==
  /\ data_mutex = NULL
  /\ send_mutex = NULL
  /\ recv_mutex = NULL
  /\ network_handle = NULL
  /\ session = "none"
  /\ alive = FALSE
  /\ answer = FALSE
  /\ disconnect_api_called = FALSE
  /\ has_connected = FALSE
  /\ disconnected = FALSE
  /\ lost_times = 0
  /\ lost_reg = 0
  /\ waited = TRUE
  /\ prog = [t \in Threads |-> <<>>]
  /\ hold = [t \in Threads |-> NULL]
  /\ event = "none"
  /\ calls = 0
  /\ faults = 0

At(t, procs)   == prog[t] # <<>> /\ Head(prog[t]) \in procs
Idle(t)        == prog[t] = <<>>
Rest(t)        == Tail(prog[t])
Goto(t, steps) == prog' = [prog EXCEPT ![t] = steps]

Fault == faults < MaxFaults /\ faults' = faults + 1

-----------------------------------------------------------------------------
(* The API calls. *)

\* aiot_mqtt_connect and aiot_mqtt_connect_with_prop.
UserConnect(u) ==
  /\ Idle(u) /\ "connect" \in UserOps
  /\ calls < MaxCalls
  /\ calls' = calls + 1
  /\ disconnect_api_called' = FALSE
  /\ Goto(u, <<"connect">>)
  /\ UNCHANGED <<locks, net, has_connected, disconnected, timers, hold, event, faults>>

\* aiot_mqtt_disconnect sends DISCONNECT and closes whatever came of it.
UserDisconnect(u) ==
  /\ Idle(u) /\ "disconnect" \in UserOps
  /\ calls < MaxCalls
  /\ calls' = calls + 1
  /\ disconnect_api_called' = TRUE
  /\ Goto(u, <<"write", "close", "notify_disconnect">>)
  /\ UNCHANGED <<locks, net, has_connected, disconnected, timers, hold, event, faults>>

\* aiot_mqtt_disconnect_with_prop returns early when the packet is not sent.
UserDisconnectProp(u) ==
  /\ Idle(u) /\ "disconnect_with_prop" \in UserOps
  /\ calls < MaxCalls
  /\ calls' = calls + 1
  /\ disconnect_api_called' = TRUE
  /\ Goto(u, <<"write_prop", "close", "notify_disconnect">>)
  /\ UNCHANGED <<locks, net, has_connected, disconnected, timers, hold, event, faults>>

\* _core_mqtt_pub, _core_mqtt_subunsub; _core_mqtt_repub in the process thread.
WriterCall(t) ==
  /\ Idle(t)
  /\ Goto(t, <<"write">>)
  /\ UNCHANGED <<locks, net, flags, timers, hold, event, calls, faults>>

\* aiot_mqtt_process when the heartbeat interval has elapsed.
ProcessHeartbeat ==
  /\ Idle(Process)
  /\ Goto(Process, <<"ping", "lost_load">>)
  /\ UNCHANGED <<locks, net, flags, timers, hold, event, calls, faults>>

RecvCall ==
  /\ Idle(Recv)
  /\ Goto(Recv, <<"recv_entry">>)
  /\ UNCHANGED <<locks, net, flags, timers, hold, event, calls, faults>>

-----------------------------------------------------------------------------
(* core_sysdep_network_deinit under send_mutex and recv_mutex. *)

CloseLockSend_RecvFirst(t) ==
  /\ At(t, {"close"})
  /\ recv_mutex = NULL
  /\ recv_mutex' = t
  /\ UNCHANGED <<data_mutex, send_mutex, net, flags, timers, prog, hold, event, calls, faults>>

CloseLockSend(t) ==
  /\ At(t, {"close"})
  /\ send_mutex = NULL
  /\ send_mutex' = t
  /\ UNCHANGED <<data_mutex, recv_mutex, net, flags, timers, prog, hold, event, calls, faults>>

CloseLockRecv(t) ==
  /\ At(t, {"close"})
  /\ send_mutex = t /\ recv_mutex = NULL
  /\ recv_mutex' = t
  /\ UNCHANGED <<data_mutex, send_mutex, net, flags, timers, prog, hold, event, calls, faults>>

CloseDeinit_SendOnly(t) ==
  /\ At(t, {"close"})
  /\ send_mutex = t
  /\ network_handle' = NULL
  /\ session' = "none"
  /\ alive' = FALSE
  /\ answer' = FALSE
  /\ send_mutex' = NULL
  /\ recv_mutex' = IF recv_mutex = t THEN NULL ELSE recv_mutex
  /\ Goto(t, Rest(t))
  /\ UNCHANGED <<data_mutex, flags, timers, hold, event, calls, faults>>

CloseDeinit(t) ==
  /\ At(t, {"close"})
  /\ send_mutex = t /\ recv_mutex = t
  /\ network_handle' = NULL
  /\ session' = "none"
  /\ alive' = FALSE
  /\ answer' = FALSE
  /\ send_mutex' = NULL
  /\ recv_mutex' = NULL
  /\ Goto(t, Rest(t))
  /\ UNCHANGED <<data_mutex, flags, timers, hold, event, calls, faults>>

-----------------------------------------------------------------------------
(* _core_mqtt_write under send_mutex. *)

\* What a caller does when its write fails with res: a heartbeat is not
\* counted, aiot_mqtt_disconnect_with_prop returns, and every caller but
\* that one closes the connection unless the write merely timed out.
AfterError(t) ==
  CASE At(t, {"write"})      -> <<"close">> \o Rest(t)
    [] At(t, {"ping"})       -> <<"close">>
    [] At(t, {"write_prop"}) -> <<>>

AfterLessData(t) == IF At(t, {"write"}) THEN Rest(t) ELSE <<>>

WriteClosed_TriesAgain(t) ==
  /\ At(t, Writes) /\ hold[t] = NULL
  /\ send_mutex = NULL
  /\ network_handle = NULL
  /\ UNCHANGED vars

\* Without a handle the write returns STATE_SYS_DEPEND_NWK_CLOSED.
WriteClosed(t) ==
  /\ At(t, Writes) /\ hold[t] = NULL
  /\ send_mutex = NULL
  /\ network_handle = NULL
  /\ Goto(t, AfterError(t))
  /\ UNCHANGED <<locks, net, flags, timers, hold, event, calls, faults>>

WriteBegin(t) ==
  /\ At(t, Writes) /\ hold[t] = NULL
  /\ send_mutex = NULL
  /\ network_handle # NULL
  /\ send_mutex' = t
  /\ hold' = [hold EXCEPT ![t] = network_handle]
  /\ UNCHANGED <<data_mutex, recv_mutex, net, flags, timers, prog, event, calls, faults>>

\* A dead connection still takes data for a while, or reports an error.
WriteEnd(t) ==
  /\ At(t, Writes) /\ hold[t] # NULL
  /\ \/ /\ Goto(t, Rest(t))
        /\ answer' = (answer \/ (At(t, {"ping"}) /\ alive /\ session = "open"))
        /\ UNCHANGED faults
     \/ /\ Goto(t, AfterLessData(t))
        /\ Fault
        /\ UNCHANGED answer
     \/ /\ ~alive
        /\ Goto(t, AfterError(t))
        /\ UNCHANGED <<answer, faults>>
  /\ send_mutex' = NULL
  /\ hold' = [hold EXCEPT ![t] = NULL]
  /\ UNCHANGED <<data_mutex, recv_mutex, network_handle, session, alive, flags, timers, event, calls>>

\* The DISCONNECT packet of MQTT 5 cannot be built: bad property, no memory.
WritePropFails(t) ==
  /\ At(t, {"write_prop"}) /\ hold[t] = NULL
  /\ Fault
  /\ Goto(t, <<>>)
  /\ UNCHANGED <<locks, net, flags, timers, hold, event, calls>>

-----------------------------------------------------------------------------
(* _core_mqtt_connect, called with send_mutex and recv_mutex. *)

\* _core_mqtt_reconnect looks at the handle before it takes any mutex.
ReconnectTest(t) ==
  /\ At(t, {"reconnect"})
  /\ Goto(t, IF network_handle # NULL THEN Rest(t) ELSE <<"reconnect_locked">> \o Rest(t))
  /\ UNCHANGED <<locks, net, flags, timers, hold, event, calls, faults>>

ReconnectLockData(t) ==
  /\ At(t, {"reconnect_locked"})
  /\ data_mutex = NULL
  /\ data_mutex' = t
  /\ UNCHANGED <<send_mutex, recv_mutex, net, flags, timers, prog, hold, event, calls, faults>>

ConnectLockSend(t) ==
  /\ At(t, Connects)
  /\ At(t, {"reconnect_locked"}) => data_mutex = t
  /\ send_mutex = NULL
  /\ send_mutex' = t
  /\ UNCHANGED <<data_mutex, recv_mutex, net, flags, timers, prog, hold, event, calls, faults>>

ConnectLockRecv(t) ==
  /\ At(t, Connects)
  /\ send_mutex = t /\ recv_mutex = NULL
  /\ recv_mutex' = t
  /\ UNCHANGED <<data_mutex, send_mutex, net, flags, timers, prog, hold, event, calls, faults>>

Unlock(t) ==
  /\ data_mutex' = IF data_mutex = t THEN NULL ELSE data_mutex
  /\ send_mutex' = NULL
  /\ recv_mutex' = NULL

\* The reconnect interval has not passed: aiot_mqtt_recv returns.
ReconnectTooEarly(t) ==
  /\ At(t, {"reconnect_locked"})
  /\ send_mutex = t /\ recv_mutex = t /\ hold[t] = NULL
  /\ ~waited
  /\ Unlock(t)
  /\ Goto(t, <<>>)
  /\ UNCHANGED <<net, flags, timers, hold, event, calls, faults>>

\* What follows a connection attempt, and the interval that starts with it.
ConnectReturns(t, success) ==
  /\ Unlock(t)
  /\ waited' = (waited /\ ~At(t, {"reconnect_locked"}))
  /\ Goto(t, IF At(t, {"connect"})
               THEN IF success THEN <<"notify_connect">> ELSE <<"notify_disconnect">>
               ELSE IF success THEN <<"lost_reset", "notify_connect">> \o Rest(t) ELSE <<>>)

MayConnect(t) ==
  /\ At(t, Connects)
  /\ send_mutex = t /\ recv_mutex = t /\ hold[t] = NULL
  /\ At(t, {"reconnect_locked"}) => waited

\* Failures before the old handle is closed: the credentials cannot be signed.
ConnectRefused(t) ==
  /\ MayConnect(t)
  /\ Fault
  /\ ConnectReturns(t, FALSE)
  /\ UNCHANGED <<net, flags, lost_times, lost_reg, hold, event, calls>>

\* The old handle is closed and a new one initialised.
ConnectBegin(t) ==
  /\ MayConnect(t)
  /\ \E h \in Handles : /\ network_handle' = h
                        /\ hold' = [hold EXCEPT ![t] = h]
  /\ session' = "none"
  /\ alive' = FALSE
  /\ answer' = FALSE
  /\ UNCHANGED <<locks, flags, timers, prog, event, calls, faults>>

ConnectSucceeds(t) ==
  /\ At(t, Connects) /\ hold[t] # NULL
  /\ session' = "open"
  /\ alive' = TRUE
  /\ hold' = [hold EXCEPT ![t] = NULL]
  /\ ConnectReturns(t, TRUE)
  /\ UNCHANGED <<network_handle, answer, flags, lost_times, lost_reg, event, calls, faults>>

\* No memory, no TCP connection, a write or read error, a CONNACK that refuses.
ConnectFails(t) ==
  /\ At(t, Connects) /\ hold[t] # NULL
  /\ Fault
  /\ network_handle' = NULL
  /\ hold' = [hold EXCEPT ![t] = NULL]
  /\ ConnectReturns(t, FALSE)
  /\ UNCHANGED <<session, alive, answer, flags, lost_times, lost_reg, event, calls>>

\* The CONNECT or the CONNACK times out, or the CONNACK is malformed: the
\* handle stays open without an MQTT session.
ConnectHalfOpen(t) ==
  /\ At(t, Connects) /\ hold[t] # NULL
  /\ Fault
  /\ session' = "half"
  /\ alive' \in BOOLEAN
  /\ hold' = [hold EXCEPT ![t] = NULL]
  /\ ConnectReturns(t, FALSE)
  /\ UNCHANGED <<network_handle, answer, flags, lost_times, lost_reg, event, calls>>

-----------------------------------------------------------------------------
(* aiot_mqtt_recv. *)

RecvEntry ==
  /\ At(Recv, {"recv_entry"})
  /\ Goto(Recv, IF network_handle = NULL THEN <<"notify_disconnect", "recv_reconnect">>
                                         ELSE <<"recv_reconnect">>)
  /\ UNCHANGED <<locks, net, flags, timers, hold, event, calls, faults>>

MayReconnect == ReconnectEnabled /\ ~disconnect_api_called

RecvReconnect ==
  /\ At(Recv, {"recv_reconnect"})
  /\ Goto(Recv, IF MayReconnect THEN <<"reconnect", "recv_lost">> ELSE <<"recv_lost">>)
  /\ UNCHANGED <<locks, net, flags, timers, hold, event, calls, faults>>

RecvLost_Never ==
  /\ At(Recv, {"recv_lost"})
  /\ Goto(Recv, <<"read">>)
  /\ UNCHANGED <<locks, net, flags, timers, hold, event, calls, faults>>

RecvLost_OffByOne ==
  /\ At(Recv, {"recv_lost"})
  /\ Goto(Recv, IF lost_times >= MaxLost THEN <<"notify_disconnect", "recv_heartbeat">> ELSE <<"read">>)
  /\ UNCHANGED <<locks, net, flags, timers, hold, event, calls, faults>>

RecvLost ==
  /\ At(Recv, {"recv_lost"})
  /\ Goto(Recv, IF lost_times > MaxLost THEN <<"notify_disconnect", "recv_heartbeat">> ELSE <<"read">>)
  /\ UNCHANGED <<locks, net, flags, timers, hold, event, calls, faults>>

RecvHeartbeat ==
  /\ At(Recv, {"recv_heartbeat"})
  /\ Goto(Recv, IF MayReconnect THEN <<"connect_heartbeat", "read">> ELSE <<"read">>)
  /\ UNCHANGED <<locks, net, flags, timers, hold, event, calls, faults>>

ReadClosed ==
  /\ At(Recv, {"read"}) /\ hold[Recv] = NULL
  /\ recv_mutex = NULL
  /\ network_handle = NULL
  /\ Goto(Recv, <<"close">>)
  /\ UNCHANGED <<locks, net, flags, timers, hold, event, calls, faults>>

ReadBegin ==
  /\ At(Recv, {"read"}) /\ hold[Recv] = NULL
  /\ recv_mutex = NULL
  /\ network_handle # NULL
  /\ recv_mutex' = Recv
  /\ hold' = [hold EXCEPT ![Recv] = network_handle]
  /\ UNCHANGED <<data_mutex, send_mutex, net, flags, timers, prog, event, calls, faults>>

ReadEnds(next) ==
  /\ At(Recv, {"read"}) /\ hold[Recv] # NULL
  /\ Goto(Recv, next)
  /\ recv_mutex' = NULL
  /\ hold' = [hold EXCEPT ![Recv] = NULL]
  /\ UNCHANGED <<data_mutex, send_mutex, network_handle, session, alive, flags, timers, event, calls>>

\* recv_timeout_ms passes without a byte.
ReadTimeout ==
  /\ ReadEnds(<<>>)
  /\ UNCHANGED <<answer, faults>>

\* A packet: PINGRESP, PUBACK, SUBACK, a QoS 0 PUBLISH, or a QoS 1 PUBLISH,
\* which _core_mqtt_puback_send answers.
ReadPacket ==
  /\ alive /\ session = "open"
  /\ \E reply \in {<<>>, <<"write">>} : ReadEnds(<<"lost_reset">> \o reply)
  /\ answer' = FALSE
  /\ UNCHANGED faults

\* The CONNACK of a half-open connection: STATE_MQTT_PACKET_TYPE_UNKNOWN.
ReadLateConnack ==
  /\ alive /\ session = "half"
  /\ ReadEnds(<<"lost_reset", "close">>)
  /\ UNCHANGED <<answer, faults>>

\* A packet that its handler rejects, and _core_mqtt_server_disconnect_handler.
ReadBadPacket ==
  /\ alive /\ session = "open"
  /\ ReadEnds(<<"lost_reset", "close">>)
  /\ Fault
  /\ UNCHANGED answer

ReadServerDisconnect ==
  /\ alive /\ session = "open"
  /\ ReadEnds(<<"lost_reset", "close", "notify_disconnect">>)
  /\ Fault
  /\ UNCHANGED answer

\* A reset or closed stream, or one that stops inside a packet.
ReadError ==
  /\ ReadEnds(<<"close">>)
  /\ IF alive THEN Fault ELSE UNCHANGED faults
  /\ UNCHANGED answer

-----------------------------------------------------------------------------
(* lost_times, shared by the receive and the process thread without a mutex. *)

LostReset(t) ==
  /\ At(t, {"lost_reset"})
  /\ lost_times' = 0
  /\ Goto(t, Rest(t))
  /\ UNCHANGED <<locks, net, flags, lost_reg, waited, hold, event, calls, faults>>

LostLoad ==
  /\ At(Process, {"lost_load"})
  /\ lost_reg' = lost_times
  /\ Goto(Process, <<"lost_store">>)
  /\ UNCHANGED <<locks, net, flags, lost_times, waited, hold, event, calls, faults>>

LostStore_Twice ==
  /\ At(Process, {"lost_store"})
  /\ lost_times' = IF lost_reg > MaxLost THEN lost_reg ELSE lost_reg + 2
  /\ Goto(Process, <<>>)
  /\ UNCHANGED <<locks, net, flags, lost_reg, waited, hold, event, calls, faults>>

LostStore ==
  /\ At(Process, {"lost_store"})
  /\ lost_times' = IF lost_reg > MaxLost THEN lost_reg ELSE lost_reg + 1
  /\ Goto(Process, <<>>)
  /\ UNCHANGED <<locks, net, flags, lost_reg, waited, hold, event, calls, faults>>

-----------------------------------------------------------------------------
(* Events, told without a mutex. *)

\* _core_mqtt_connect_event_notify
NotifyConnect(t) ==
  /\ At(t, {"notify_connect"})
  /\ disconnected' = FALSE
  /\ Goto(t, <<"test_connect">> \o Rest(t))
  /\ UNCHANGED <<locks, net, disconnect_api_called, has_connected, timers, hold, event, calls, faults>>

TestConnect(t) ==
  /\ At(t, {"test_connect"})
  /\ Goto(t, <<IF has_connected THEN "emit_reconnect" ELSE "emit_connect">> \o Rest(t))
  /\ UNCHANGED <<locks, net, flags, timers, hold, event, calls, faults>>

EmitConnect(t) ==
  /\ At(t, {"emit_connect"})
  /\ has_connected' = TRUE
  /\ event' = "CONNECT"
  /\ Goto(t, Rest(t))
  /\ UNCHANGED <<locks, net, disconnect_api_called, disconnected, timers, hold, calls, faults>>

EmitReconnect(t) ==
  /\ At(t, {"emit_reconnect"})
  /\ event' = "RECONNECT"
  /\ Goto(t, Rest(t))
  /\ UNCHANGED <<locks, net, flags, timers, hold, calls, faults>>

\* _core_mqtt_disconnect_event_notify
NotifyDisconnect(t) ==
  /\ At(t, {"notify_disconnect"})
  /\ Goto(t, IF has_connected /\ ~disconnected THEN <<"emit_disconnect">> \o Rest(t) ELSE Rest(t))
  /\ UNCHANGED <<locks, net, flags, timers, hold, event, calls, faults>>

EmitDisconnect(t) ==
  /\ At(t, {"emit_disconnect"})
  /\ disconnected' = TRUE
  /\ event' = "DISCONNECT"
  /\ Goto(t, Rest(t))
  /\ UNCHANGED <<locks, net, disconnect_api_called, has_connected, timers, hold, calls, faults>>

-----------------------------------------------------------------------------
(* Time and the peer. *)

IntervalElapses ==
  /\ ~waited
  /\ waited' = TRUE
  /\ UNCHANGED <<locks, net, flags, lost_times, lost_reg, prog, hold, event, calls, faults>>

LinkDies ==
  /\ alive
  /\ Fault
  /\ alive' = FALSE
  /\ answer' = FALSE
  /\ UNCHANGED <<locks, network_handle, session, flags, timers, prog, hold, event, calls>>

-----------------------------------------------------------------------------
Close(t)   == CloseLockSend(t) \/ CloseLockRecv(t) \/ CloseDeinit(t)
Write(t)   == WriteClosed(t) \/ WriteBegin(t) \/ WriteEnd(t) \/ WritePropFails(t)
Connect(t) == \/ ReconnectTest(t) \/ ReconnectLockData(t) \/ ConnectLockSend(t) \/ ConnectLockRecv(t)
              \/ ReconnectTooEarly(t) \/ ConnectRefused(t) \/ ConnectBegin(t)
              \/ ConnectSucceeds(t) \/ ConnectFails(t) \/ ConnectHalfOpen(t)
Notify(t)  == \/ NotifyConnect(t) \/ TestConnect(t) \/ EmitConnect(t) \/ EmitReconnect(t)
              \/ NotifyDisconnect(t) \/ EmitDisconnect(t)
Receive    == \/ RecvEntry \/ RecvReconnect \/ RecvLost \/ RecvHeartbeat \/ ReadClosed \/ ReadBegin
              \/ ReadTimeout \/ ReadPacket \/ ReadLateConnack \/ ReadBadPacket \/ ReadServerDisconnect
              \/ ReadError
Heartbeat  == LostLoad \/ LostStore

\* The steps of a call under way, and the start of one.
Continue(t) ==
  \/ Close(t) \/ Write(t) \/ Connect(t) \/ Notify(t) \/ LostReset(t)
  \/ t = Recv /\ Receive
  \/ t = Process /\ Heartbeat

Call ==
  \/ \E u \in Users : UserConnect(u) \/ UserDisconnect(u) \/ UserDisconnectProp(u)
  \/ \E t \in Writers \cup {Process} : WriterCall(t)
  \/ ProcessHeartbeat
  \/ RecvCall

Next ==
  \/ Call
  \/ \E t \in Threads : Continue(t)
  \/ IntervalElapses
  \/ LinkDies

Spec == Init /\ [][Next]_vars

(***************************************************************************)
(* Scheduling.  A mutex that is released again and again is not denied to  *)
(* a waiting thread for ever, the demo's two loops keep calling            *)
(* aiot_mqtt_recv and aiot_mqtt_process, the heartbeat and the reconnect   *)
(* interval elapse, and what a live peer has sent arrives.  From some time *)
(* on a thread whose read or write failed reaches its close before another *)
(* thread opens the next connection (it needs microseconds, the handshake  *)
(* with the broker milliseconds).                                          *)
(***************************************************************************)
NobodyClosing == \A t \in Threads : ~At(t, {"close"})

RunsOn == \A t \in Threads : SF_vars(Continue(t))

Fairness ==
  /\ RunsOn
  /\ WF_vars(RecvCall)
  /\ SF_vars(ProcessHeartbeat)
  /\ WF_vars(IntervalElapses)
  /\ SF_vars(answer /\ ReadPacket)
  /\ SF_vars(ReadLateConnack)
  /\ <>[][(\E t \in Threads : ConnectBegin(t)) => NobodyClosing]_vars

FairSpec == Spec /\ Fairness

\* Only that no thread is denied a mutex, or stopped, for ever.
RunsOnSpec == Spec /\ RunsOn

-----------------------------------------------------------------------------
(***************************************************************************)
(* No handle is closed while core_sysdep_network_send or                   *)
(* core_sysdep_network_recv works on it, although each caller protects     *)
(* itself with only one of the two mutexes; and two threads that are in    *)
(* the port layer together are one reader and one writer, so the bytes of  *)
(* two packets never mix.                                                  *)
(***************************************************************************)
NoUseAfterClose ==
  /\ \A t \in Threads : hold[t] # NULL => network_handle = hold[t]
  /\ \A t, u \in Threads :
       t # u /\ hold[t] # NULL /\ hold[u] # NULL
         => {Head(prog[t]), Head(prog[u])} \cap Writes # {} /\ "read" \in {Head(prog[t]), Head(prog[u])}

(***************************************************************************)
(* The next step of t takes a mutex that u owns (possibly t itself: the    *)
(* mutexes are not recursive).                                             *)
(***************************************************************************)
WaitsForData(t, u) == At(t, {"reconnect_locked"}) /\ data_mutex # t /\ data_mutex = u

WaitsForSend(t, u) ==
  /\ send_mutex = u
  /\ \/ At(t, Connects) /\ send_mutex # t /\ (At(t, {"reconnect_locked"}) => data_mutex = t)
     \/ At(t, {"close"}) /\ send_mutex # t
     \/ At(t, Writes) /\ hold[t] = NULL

WaitsForRecv(t, u) ==
  /\ recv_mutex = u
  /\ \/ At(t, Connects \cup {"close"}) /\ send_mutex = t /\ recv_mutex # t
     \/ At(t, {"read"}) /\ hold[t] = NULL

WaitsFor(t, u) == WaitsForData(t, u) \/ WaitsForSend(t, u) \/ WaitsForRecv(t, u)

(***************************************************************************)
(* Threads never wait for each other in a circle: of the threads that      *)
(* send, receive, close after an error, connect and reconnect, any set has *)
(* one that waits for no mutex of another in the set.  And no call returns *)
(* with a mutex, so the last one in a row of waiting threads can go on.    *)
(***************************************************************************)
NoWaitingCircle ==
  /\ \A S \in SUBSET Threads : S # {} => \E t \in S : \A u \in S : ~WaitsFor(t, u)
  /\ \A t \in Threads : Idle(t) => t \notin {data_mutex, send_mutex, recv_mutex}

(***************************************************************************)
(* When the receive thread rests and the last thing the application heard  *)
(* is DISCONNECT, the MQTT session is indeed gone, or given up because     *)
(* more than MaxLost heartbeats are unanswered.                            *)
(***************************************************************************)
DisconnectEventTrue ==
  (\A t \in Users \cup {Recv} : Idle(t)) /\ event = "DISCONNECT" => session # "open" \/ lost_times > MaxLost

(***************************************************************************)
(* After aiot_mqtt_disconnect has returned the client is offline until the *)
(* next call of aiot_mqtt_connect (disconnect_api_called).                 *)
(***************************************************************************)
StaysDisconnected ==
  (\A t \in Users \cup {Recv} : Idle(t)) /\ disconnect_api_called => network_handle = NULL

(***************************************************************************)
(* With reconnection enabled the client gets back to a live session after  *)
(* every failure: a broken or silent link, a half-open connection, a       *)
(* refused or lost CONNECT.                                                *)
(***************************************************************************)
Recovers == []<>(session = "open" /\ alive)

(***************************************************************************)
(* Every call of aiot_mqtt_connect, aiot_mqtt_disconnect and               *)
(* aiot_mqtt_disconnect_with_prop returns, with the threads of             *)
(* aiot_mqtt_recv and aiot_mqtt_process going for the same mutexes,        *)
(* closing and reconnecting, as long as no thread is denied a mutex or     *)
(* stopped for ever; of the link, the broker, the timers and the calls of  *)
(* the other threads nothing is assumed.                                   *)
(***************************************************************************)
CallsReturn == \A u \in Users : ~Idle(u) ~> Idle(u)
=============================================================================
