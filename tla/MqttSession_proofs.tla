------------------------- MODULE MqttSession_proofs -------------------------
(***************************************************************************)
(* Proofs about MqttSession for any number of users and writers, any set   *)
(* of handles and any bounds.                                              *)
(***************************************************************************)
EXTENDS MqttSession, TLAPS

(***************************************************************************)
(* Who owns what.  The procedure a thread is in tells which mutexes it may *)
(* own, and a thread inside the port layer owns a mutex that every closer  *)
(* needs too.  Both properties follow from this.                           *)
(***************************************************************************)
OwnerInv ==
  \A t \in Threads :
    /\ data_mutex = t => At(t, {"reconnect_locked"})
    /\ send_mutex = t => \/ At(t, Connects \cup {"close"})
                         \/ At(t, Writes) /\ hold[t] # NULL
    /\ recv_mutex = t => \/ At(t, Connects \cup {"close"}) /\ send_mutex = t
                         \/ At(t, {"read"}) /\ hold[t] # NULL
    /\ At(t, {"reconnect_locked"}) /\ send_mutex = t => data_mutex = t

HoldInv ==
  \A t \in Threads :
    hold[t] # NULL =>
      /\ network_handle = hold[t]
      /\ \/ At(t, Writes) /\ send_mutex = t
         \/ At(t, {"read"}) /\ recv_mutex = t
         \/ At(t, Connects) /\ send_mutex = t /\ recv_mutex = t

MutexInv == OwnerInv /\ HoldInv

\* The thread owns nothing.
Free(t) == t \notin {data_mutex, send_mutex, recv_mutex} /\ hold[t] = NULL

LEMMA Disjoint ==
  /\ Connects \cap Writes = {}
  /\ "close" \notin Connects \cup Writes
  /\ "read" \notin Connects \cup Writes \cup {"close"}
  /\ "reconnect_locked" \in Connects
  BY DEF Connects, Writes

LEMMA OwnersFree ==
  ASSUME MutexInv, NEW t \in Threads, hold[t] = NULL,
         ~At(t, Connects \cup {"close"})
  PROVE  Free(t)
  BY Disjoint DEF MutexInv, OwnerInv, Free, At

\* A step of t that touches neither mutexes nor handles, taken with nothing in hand.
LEMMA LocalStep ==
  ASSUME MutexInv, NEW t \in Threads, Free(t),
         UNCHANGED <<data_mutex, send_mutex, recv_mutex, hold, network_handle>>,
         \A u \in Threads \ {t} : prog'[u] = prog[u]
  PROVE  MutexInv'
<1>1. ASSUME NEW u \in Threads, u # t, NEW S PROVE At(u, S)' <=> At(u, S)
  BY <1>1 DEF At
<1>2. OwnerInv'
  BY <1>1 DEF MutexInv, OwnerInv, Free
<1>3. HoldInv'
  BY <1>1 DEF MutexInv, HoldInv, Free
<1> QED BY <1>2, <1>3 DEF MutexInv

-----------------------------------------------------------------------------
LEMMA TypeInit == Init => TypeOK
<1>1. Init => /\ alive \in BOOLEAN /\ answer \in BOOLEAN /\ waited \in BOOLEAN
              /\ disconnect_api_called \in BOOLEAN /\ has_connected \in BOOLEAN /\ disconnected \in BOOLEAN
  BY DEF Init
<1>2. Init => /\ lost_times \in 0 .. MaxLost + 1 /\ lost_reg \in 0 .. MaxLost + 1
              /\ calls \in 0 .. MaxCalls /\ faults \in 0 .. MaxFaults
  BY SessionAssumption DEF Init
<1>3. Init => prog \in [Threads -> Seq(Procs)] /\ hold \in [Threads -> Handles \cup {NULL}]
  BY DEF Init
<1> QED BY <1>1, <1>2, <1>3 DEF Init, TypeOK, Events

\* A program that goes on with further procedures is a program.
LEMMA ProgType ==
  ASSUME TypeOK, NEW t \in Threads, NEW steps \in Seq(Procs), Goto(t, steps)
  PROVE  prog' \in [Threads -> Seq(Procs)]
  BY DEF TypeOK, Goto

LEMMA RestType ==
  ASSUME TypeOK, NEW t \in Threads, prog[t] # <<>>
  PROVE  /\ Rest(t) \in Seq(Procs)
         /\ \A s \in Seq(Procs) : s \o Rest(t) \in Seq(Procs)
  BY DEF TypeOK, Rest

LEMMA Literals ==
  /\ <<>> \in Seq(Procs)
  /\ \A a \in Procs : <<a>> \in Seq(Procs)
  /\ \A a, b \in Procs : <<a, b>> \in Seq(Procs)
  /\ \A a, b, c \in Procs : <<a, b, c>> \in Seq(Procs)
  OBVIOUS

(* Every step keeps the types of the variables other than prog. *)
LEMMA TypeStep == TypeOK /\ [Next]_vars => TypeOK'
<1> SUFFICES ASSUME TypeOK, [Next]_vars PROVE TypeOK'
  OBVIOUS
<1> USE SessionAssumption DEF TypeOK, locks, net, flags, timers
<1> DEFINE Others == /\ data_mutex' \in Threads \cup {NULL}
                     /\ send_mutex' \in Threads \cup {NULL}
                     /\ recv_mutex' \in Threads \cup {NULL}
                     /\ network_handle' \in Handles \cup {NULL}
                     /\ session' \in {"none", "half", "open"}
                     /\ hold' \in [Threads -> Handles \cup {NULL}]
                     /\ event' \in Events
                     /\ calls' \in 0 .. MaxCalls
                     /\ faults' \in 0 .. MaxFaults
                     /\ lost_times' \in 0 .. MaxLost + 1
                     /\ lost_reg' \in 0 .. MaxLost + 1
<1> DEFINE Flags == /\ alive' \in BOOLEAN /\ answer' \in BOOLEAN /\ waited' \in BOOLEAN
                    /\ disconnect_api_called' \in BOOLEAN
                    /\ has_connected' \in BOOLEAN /\ disconnected' \in BOOLEAN
<1>1. ASSUME NEW t \in Threads, UserConnect(t) \/ UserDisconnect(t) \/ UserDisconnectProp(t)
      PROVE  TypeOK'
  <2>1. Others  BY <1>1 DEF UserConnect, UserDisconnect, UserDisconnectProp
  <2>f. Flags  BY <1>1 DEF UserConnect, UserDisconnect, UserDisconnectProp
  <2>2. prog' \in [Threads -> Seq(Procs)]
    BY <1>1, ProgType, Literals DEF UserConnect, UserDisconnect, UserDisconnectProp, Procs, Writes, Connects
  <2> QED BY <2>1, <2>f, <2>2
<1>2. ASSUME NEW t \in Threads, WriterCall(t) PROVE TypeOK'
  <2>1. Others  BY <1>2 DEF WriterCall
  <2>f. Flags  BY <1>2 DEF WriterCall
  <2>2. prog' \in [Threads -> Seq(Procs)]
    BY <1>2, ProgType, Literals DEF WriterCall, Procs, Writes
  <2> QED BY <2>1, <2>f, <2>2
<1>3. ASSUME ProcessHeartbeat \/ RecvCall PROVE TypeOK'
  <2>1. Others  BY <1>3 DEF ProcessHeartbeat, RecvCall
  <2>f. Flags  BY <1>3 DEF ProcessHeartbeat, RecvCall
  <2>2. prog' \in [Threads -> Seq(Procs)]
    BY <1>3, ProgType, Literals DEF ProcessHeartbeat, RecvCall, Procs, Writes, Threads
  <2> QED BY <2>1, <2>f, <2>2
<1>4. ASSUME NEW t \in Threads, Close(t) PROVE TypeOK'
  <2>1. Others  BY <1>4 DEF Close, CloseLockSend, CloseLockRecv, CloseDeinit
  <2>f. Flags  BY <1>4 DEF Close, CloseLockSend, CloseLockRecv, CloseDeinit
  <2>2. prog' \in [Threads -> Seq(Procs)]
    BY <1>4, ProgType, RestType DEF Close, CloseLockSend, CloseLockRecv, CloseDeinit, At
  <2> QED BY <2>1, <2>f, <2>2
<1>5. ASSUME NEW t \in Threads, Write(t) PROVE TypeOK'
  <2>1. Others
    <3>1. hold' \in [Threads -> Handles \cup {NULL}]
      BY <1>5 DEF Write, WriteClosed, WriteBegin, WriteEnd, WritePropFails
    <3>2. faults' \in 0 .. MaxFaults
      BY <1>5 DEF Write, WriteClosed, WriteBegin, WriteEnd, WritePropFails, Fault
    <3>3. network_handle' \in Handles \cup {NULL} /\ session' \in {"none", "half", "open"}
      BY <1>5 DEF Write, WriteClosed, WriteBegin, WriteEnd, WritePropFails
    <3> QED BY <1>5, <3>1, <3>2, <3>3 DEF Write, WriteClosed, WriteBegin, WriteEnd, WritePropFails
  <2>f. Flags
    BY <1>5 DEF Write, WriteClosed, WriteBegin, WriteEnd, WritePropFails, Fault
  <2>2. At(t, Writes) => AfterError(t) \in Seq(Procs) /\ AfterLessData(t) \in Seq(Procs) /\ Rest(t) \in Seq(Procs)
    BY RestType, Literals DEF AfterError, AfterLessData, At, Writes, Procs
  <2>3. prog' \in [Threads -> Seq(Procs)]
    BY <1>5, <2>2, ProgType, Literals
    DEF Write, WriteClosed, WriteBegin, WriteEnd, WritePropFails, At
  <2> QED BY <2>1, <2>f, <2>3
<1>6. ASSUME NEW t \in Threads, Connect(t) PROVE TypeOK'
  <2> USE DEF Connect, ReconnectTest, ReconnectLockData, ConnectLockSend, ConnectLockRecv, ReconnectTooEarly,
       ConnectRefused, ConnectBegin, ConnectSucceeds, ConnectFails, ConnectHalfOpen, ConnectReturns, Unlock
  <2>1. Others
    <3>1. hold' \in [Threads -> Handles \cup {NULL}]
      BY <1>6
    <3>2. faults' \in 0 .. MaxFaults
      BY <1>6 DEF Fault
    <3>3. network_handle' \in Handles \cup {NULL} /\ session' \in {"none", "half", "open"}
      BY <1>6
    <3> QED BY <1>6, <3>1, <3>2, <3>3
  <2>f. Flags  BY <1>6
  <2>2. prog' \in [Threads -> Seq(Procs)]
    <3>1. ASSUME NEW ok \in BOOLEAN, prog[t] # <<>>, ConnectReturns(t, ok) PROVE prog' \in [Threads -> Seq(Procs)]
      <4>1. <<"notify_connect">> \in Seq(Procs) /\ <<"notify_disconnect">> \in Seq(Procs)
            /\ <<"lost_reset", "notify_connect">> \in Seq(Procs)
        BY Literals DEF Procs
      <4> QED BY <3>1, <4>1, Literals, RestType, ProgType DEF ConnectReturns
    <3>2. ASSUME ReconnectTest(t) PROVE prog' \in [Threads -> Seq(Procs)]
      <4>1. <<"reconnect_locked">> \in Seq(Procs)  BY Literals DEF Procs, Connects
      <4> QED BY <3>2, <4>1, RestType, ProgType DEF ReconnectTest, At
    <3>3. ASSUME ReconnectTooEarly(t) PROVE prog' \in [Threads -> Seq(Procs)]
      BY <3>3, Literals, ProgType DEF ReconnectTooEarly
    <3> QED
      BY <1>6, <3>1, <3>2, <3>3
      DEF Connect, ReconnectLockData, ConnectLockSend, ConnectLockRecv, ConnectRefused, MayConnect, ConnectBegin,
          ConnectSucceeds, ConnectFails, ConnectHalfOpen, At
  <2> QED BY <2>1, <2>f, <2>2
<1>7. ASSUME NEW t \in Threads, Notify(t) PROVE TypeOK'
  <2>1. Others
    BY <1>7 DEF Notify, NotifyConnect, TestConnect, EmitConnect, EmitReconnect, NotifyDisconnect, EmitDisconnect, Events
  <2>f. Flags
    BY <1>7 DEF Notify, NotifyConnect, TestConnect, EmitConnect, EmitReconnect, NotifyDisconnect, EmitDisconnect, Events
  <2>2. prog' \in [Threads -> Seq(Procs)]
    <3>1. /\ <<"test_connect">> \in Seq(Procs) /\ <<"emit_connect">> \in Seq(Procs)
          /\ <<"emit_reconnect">> \in Seq(Procs) /\ <<"emit_disconnect">> \in Seq(Procs)
      BY Literals DEF Procs
    <3> QED
      BY <1>7, <3>1, RestType, ProgType
      DEF Notify, NotifyConnect, TestConnect, EmitConnect, EmitReconnect, NotifyDisconnect, EmitDisconnect, At
  <2> QED BY <2>1, <2>f, <2>2
<1>8. ASSUME NEW t \in Threads, LostReset(t) PROVE TypeOK'
  <2>1. Others  BY <1>8 DEF LostReset
  <2>f. Flags  BY <1>8 DEF LostReset
  <2>2. prog' \in [Threads -> Seq(Procs)]  BY <1>8, RestType, ProgType DEF LostReset, At
  <2> QED BY <2>1, <2>f, <2>2
<1>9. ASSUME Receive PROVE TypeOK'
  <2> USE DEF Receive, RecvEntry, RecvReconnect, RecvLost, RecvHeartbeat, ReadClosed, ReadBegin, ReadTimeout,
              ReadPacket, ReadLateConnack, ReadBadPacket, ReadServerDisconnect, ReadError, ReadEnds
  <2>0. Recv \in Threads  BY DEF Threads
  <2>1. Others
    <3>1. hold' \in [Threads -> Handles \cup {NULL}]
      BY <1>9, <2>0
    <3>2. faults' \in 0 .. MaxFaults
      BY <1>9, <2>0 DEF Fault
    <3>3. network_handle' \in Handles \cup {NULL} /\ session' \in {"none", "half", "open"}
      BY <1>9, <2>0
    <3> QED BY <1>9, <2>0, <3>1, <3>2, <3>3
  <2>f. Flags  BY <1>9, <2>0 DEF Fault
  <2>2. prog' \in [Threads -> Seq(Procs)]
    <3>1. /\ <<"notify_disconnect", "recv_reconnect">> \in Seq(Procs) /\ <<"recv_reconnect">> \in Seq(Procs)
          /\ <<"reconnect", "recv_lost">> \in Seq(Procs) /\ <<"recv_lost">> \in Seq(Procs)
          /\ <<"notify_disconnect", "recv_heartbeat">> \in Seq(Procs) /\ <<"read">> \in Seq(Procs)
          /\ <<"connect_heartbeat", "read">> \in Seq(Procs) /\ <<"close">> \in Seq(Procs)
          /\ <<"lost_reset", "close">> \in Seq(Procs)
          /\ <<"lost_reset", "close", "notify_disconnect">> \in Seq(Procs)
          /\ <<"lost_reset">> \in Seq(Procs) /\ <<"write">> \in Seq(Procs) /\ <<>> \in Seq(Procs)
      BY Literals DEF Procs, Connects, Writes
    <3>2. <<"lost_reset">> \o <<>> \in Seq(Procs) /\ <<"lost_reset">> \o <<"write">> \in Seq(Procs)
      BY <3>1
    <3> HIDE DEF TypeOK
    <3>3. \E steps \in Seq(Procs) : Goto(Recv, steps) \/ UNCHANGED prog
      BY <1>9, <3>1, <3>2
    <3> QED BY <2>0, <3>3, ProgType DEF TypeOK
  <2> QED BY <2>1, <2>f, <2>2
<1>10. ASSUME Heartbeat PROVE TypeOK'
  <2>0. Process \in Threads  BY DEF Threads
  <2>1. Others  BY <1>10 DEF Heartbeat, LostLoad, LostStore
  <2>f. Flags  BY <1>10 DEF Heartbeat, LostLoad, LostStore
  <2>2. <<"lost_store">> \in Seq(Procs)  BY Literals DEF Procs
  <2>3. prog' \in [Threads -> Seq(Procs)]
    BY <1>10, <2>0, <2>2, Literals, ProgType DEF Heartbeat, LostLoad, LostStore
  <2> QED BY <2>1, <2>f, <2>3
<1>11. ASSUME IntervalElapses \/ LinkDies PROVE TypeOK'
  <2>1. Others  BY <1>11 DEF IntervalElapses, LinkDies, Fault
  <2>f. Flags  BY <1>11 DEF IntervalElapses, LinkDies, Fault
  <2>2. prog' = prog  BY <1>11 DEF IntervalElapses, LinkDies
  <2> QED BY <2>1, <2>f, <2>2
<1>12. CASE UNCHANGED vars
  BY <1>12 DEF vars
<1> QED
  BY <1>1, <1>2, <1>3, <1>4, <1>5, <1>6, <1>7, <1>8, <1>9, <1>10, <1>11, <1>12 DEF Next, Call, Continue, Threads

(* No behaviour of the session leaves its types. *)
THEOREM SessionTypeCorrect == Spec => []TypeOK
  BY TypeInit, TypeStep, PTL DEF Spec

-----------------------------------------------------------------------------
LEMMA GotoOthers ==
  ASSUME TypeOK, NEW t \in Threads, NEW steps, Goto(t, steps)
  PROVE  \A u \in Threads \ {t} : prog'[u] = prog[u]
  BY DEF TypeOK, Goto

LEMMA LocalGoto ==
  ASSUME TypeOK, MutexInv, NEW t \in Threads, hold[t] = NULL, ~At(t, Connects \cup {"close"}),
         UNCHANGED <<data_mutex, send_mutex, recv_mutex, hold, network_handle>>,
         NEW steps, Goto(t, steps)
  PROVE  MutexInv'
  BY OwnersFree, LocalStep, GotoOthers

\* A step of t that gives back every mutex and handle t has.
LEMMA ReleaseStep ==
  ASSUME TypeOK, MutexInv, NEW t \in Threads, NEW steps, Goto(t, steps),
         data_mutex' = (IF data_mutex = t THEN NULL ELSE data_mutex),
         send_mutex' = (IF send_mutex = t THEN NULL ELSE send_mutex),
         recv_mutex' = (IF recv_mutex = t THEN NULL ELSE recv_mutex),
         hold' = [hold EXCEPT ![t] = NULL],
         network_handle' # network_handle => send_mutex = t /\ recv_mutex = t
  PROVE  MutexInv'
<1>0. NULL \notin Threads  BY ThreadsAssumption
<1>1. ASSUME NEW u \in Threads, u # t, NEW S PROVE At(u, S)' <=> At(u, S)
  BY <1>1, GotoOthers DEF At
<1>2. hold'[t] = NULL /\ \A u \in Threads \ {t} : hold'[u] = hold[u]
  BY DEF TypeOK
<1>3. OwnerInv'
  BY <1>0, <1>1, <1>2 DEF MutexInv, OwnerInv
<1>4. HoldInv'
  BY <1>0, <1>1, <1>2 DEF MutexInv, HoldInv
<1> QED BY <1>3, <1>4 DEF MutexInv

LEMMA MutexStep == TypeOK /\ MutexInv /\ [Next]_vars => MutexInv'
<1> SUFFICES ASSUME TypeOK, MutexInv, [Next]_vars PROVE MutexInv'
  OBVIOUS
<1> USE DEF locks, net
<1>0. NULL \notin Threads /\ NULL \notin Handles  BY ThreadsAssumption
<1>a. ASSUME UNCHANGED <<data_mutex, send_mutex, recv_mutex, hold, network_handle, prog>> PROVE MutexInv'
  BY <1>a DEF MutexInv, OwnerInv, HoldInv, At
<1>b. ASSUME NEW t \in Threads, Idle(t) PROVE hold[t] = NULL /\ ~At(t, Connects \cup {"close"})
  BY <1>b DEF Idle, At, MutexInv, HoldInv
<1>c. ASSUME NEW t \in Threads, NEW S, At(t, S), S \cap (Connects \cup Writes \cup {"close", "read"}) = {}
      PROVE  hold[t] = NULL /\ ~At(t, Connects \cup {"close"})
  BY <1>c DEF At, MutexInv, HoldInv
<1>1. ASSUME NEW t \in Threads, UserConnect(t) \/ UserDisconnect(t) \/ UserDisconnectProp(t) \/ WriterCall(t)
      PROVE  MutexInv'
  BY <1>1, <1>b, LocalGoto DEF UserConnect, UserDisconnect, UserDisconnectProp, WriterCall
<1>2. ASSUME ProcessHeartbeat \/ RecvCall PROVE MutexInv'
  <2>1. Process \in Threads /\ Recv \in Threads  BY DEF Threads
  <2> QED BY <1>2, <1>b, <2>1, LocalGoto DEF ProcessHeartbeat, RecvCall
<1>3. ASSUME NEW t \in Threads, CloseLockSend(t) \/ CloseLockRecv(t) \/ ReconnectLockData(t)
                                \/ ConnectLockSend(t) \/ ConnectLockRecv(t)
      PROVE  MutexInv'
  <2>1. UNCHANGED <<prog, hold, network_handle>>
    BY <1>3 DEF CloseLockSend, CloseLockRecv, ReconnectLockData, ConnectLockSend, ConnectLockRecv
  <2>2. At(t, Connects \cup {"close"})
    BY <1>3 DEF CloseLockSend, CloseLockRecv, ReconnectLockData, ConnectLockSend, ConnectLockRecv, At, Connects
  <2>3. OwnerInv'
    BY <1>0, <1>3, <2>1, <2>2, Disjoint
    DEF MutexInv, OwnerInv, At, CloseLockSend, CloseLockRecv, ReconnectLockData, ConnectLockSend, ConnectLockRecv
  <2>4. HoldInv'
    BY <1>0, <1>3, <2>1
    DEF MutexInv, HoldInv, At, CloseLockSend, CloseLockRecv, ReconnectLockData, ConnectLockSend, ConnectLockRecv
  <2> QED BY <2>3, <2>4 DEF MutexInv
<1>4. ASSUME NEW t \in Threads, CloseDeinit(t) PROVE MutexInv'
  <2>1. hold[t] = NULL  BY <1>4, Disjoint DEF CloseDeinit, At, MutexInv, HoldInv
  <2>2. data_mutex # t  BY <1>4, Disjoint DEF CloseDeinit, At, MutexInv, OwnerInv
  <2>3. hold' = [hold EXCEPT ![t] = NULL]  BY <1>4, <2>1 DEF CloseDeinit, TypeOK
  <2> QED BY <1>4, <2>2, <2>3, ReleaseStep DEF CloseDeinit
<1>5. ASSUME NEW t \in Threads, WriteClosed(t) \/ WritePropFails(t) PROVE MutexInv'
  <2>1. hold[t] = NULL /\ ~At(t, Connects \cup {"close"})
    BY <1>5, Disjoint DEF WriteClosed, WritePropFails, At, Writes, Connects
  <2> QED BY <1>5, <2>1, LocalGoto DEF WriteClosed, WritePropFails
<1>6. ASSUME NEW t \in Threads, WriteBegin(t) PROVE MutexInv'
  <2>1. hold'[t] = network_handle /\ \A u \in Threads \ {t} : hold'[u] = hold[u]
    BY <1>6 DEF WriteBegin, TypeOK
  <2>2. At(t, Writes) /\ ~At(t, Connects \cup {"close"}) /\ ~At(t, {"read"}) /\ ~At(t, {"reconnect_locked"})
    BY <1>6, Disjoint DEF WriteBegin, At
  <2>3. OwnerInv'
    BY <1>0, <1>6, <2>1, <2>2 DEF WriteBegin, MutexInv, OwnerInv, At
  <2>4. HoldInv'
    BY <1>0, <1>6, <2>1, <2>2 DEF WriteBegin, MutexInv, HoldInv, At
  <2> QED BY <2>3, <2>4 DEF MutexInv
<1>7. ASSUME NEW t \in Threads, WriteEnd(t) PROVE MutexInv'
  <2>1. send_mutex = t /\ data_mutex # t /\ recv_mutex # t
    BY <1>7, Disjoint DEF WriteEnd, At, MutexInv, OwnerInv, HoldInv
  <2>2. \E steps : Goto(t, steps)  BY <1>7 DEF WriteEnd
  <2> QED BY <1>7, <2>1, <2>2, ReleaseStep DEF WriteEnd
<1>8. ASSUME NEW t \in Threads, ReconnectTest(t) PROVE MutexInv'
  <2>1. hold[t] = NULL /\ ~At(t, Connects \cup {"close"})
    BY <1>8, <1>c DEF ReconnectTest, Connects, Writes
  <2> QED BY <1>8, <2>1, LocalGoto DEF ReconnectTest
<1>9. ASSUME NEW t \in Threads, ReconnectTooEarly(t) \/ ConnectRefused(t) PROVE MutexInv'
  <2>1. send_mutex = t /\ recv_mutex = t /\ hold[t] = NULL
    BY <1>9 DEF ReconnectTooEarly, ConnectRefused, MayConnect
  <2>2. hold' = [hold EXCEPT ![t] = NULL]  BY <1>9, <2>1 DEF ReconnectTooEarly, ConnectRefused, TypeOK
  <2>3. \E steps : Goto(t, steps)  BY <1>9 DEF ReconnectTooEarly, ConnectRefused, ConnectReturns
  <2> QED
    BY <1>9, <2>1, <2>2, <2>3, ReleaseStep DEF ReconnectTooEarly, ConnectRefused, ConnectReturns, Unlock
<1>10. ASSUME NEW t \in Threads, ConnectBegin(t) PROVE MutexInv'
  <2>1. PICK h \in Handles : network_handle' = h /\ hold' = [hold EXCEPT ![t] = h]
    BY <1>10 DEF ConnectBegin
  <2>2. hold'[t] = h /\ \A u \in Threads \ {t} : hold'[u] = hold[u]
    BY <2>1 DEF TypeOK
  <2>3. send_mutex = t /\ recv_mutex = t /\ At(t, Connects)
    BY <1>10 DEF ConnectBegin, MayConnect
  <2>4. \A u \in Threads \ {t} : hold[u] = NULL
    BY <2>3 DEF MutexInv, HoldInv
  <2>5. UNCHANGED <<data_mutex, send_mutex, recv_mutex, prog>>
    BY <1>10 DEF ConnectBegin
  <2>6. OwnerInv'
    BY <1>0, <2>2, <2>3, <2>5, Disjoint DEF MutexInv, OwnerInv, At
  <2>7. HoldInv'
    BY <2>1, <2>2, <2>3, <2>4, <2>5 DEF HoldInv, At
  <2> QED BY <2>6, <2>7 DEF MutexInv
<1>11. ASSUME NEW t \in Threads, ConnectSucceeds(t) \/ ConnectFails(t) \/ ConnectHalfOpen(t) PROVE MutexInv'
  <2>1. send_mutex = t /\ recv_mutex = t
    BY <1>11, Disjoint DEF ConnectSucceeds, ConnectFails, ConnectHalfOpen, At, MutexInv, HoldInv
  <2>2. \E steps : Goto(t, steps)
    BY <1>11 DEF ConnectSucceeds, ConnectFails, ConnectHalfOpen, ConnectReturns
  <2> QED
    BY <1>11, <2>1, <2>2, ReleaseStep
    DEF ConnectSucceeds, ConnectFails, ConnectHalfOpen, ConnectReturns, Unlock
<1>12. ASSUME NEW t \in Threads, Notify(t) \/ LostReset(t) PROVE MutexInv'
  <2>1. hold[t] = NULL /\ ~At(t, Connects \cup {"close"})
    BY <1>12, <1>c
    DEF Notify, NotifyConnect, TestConnect, EmitConnect, EmitReconnect, NotifyDisconnect, EmitDisconnect,
        LostReset, Connects, Writes
  <2> QED
    BY <1>12, <2>1, LocalGoto
    DEF Notify, NotifyConnect, TestConnect, EmitConnect, EmitReconnect, NotifyDisconnect, EmitDisconnect, LostReset
<1>13. ASSUME RecvEntry \/ RecvReconnect \/ RecvLost \/ RecvHeartbeat \/ ReadClosed PROVE MutexInv'
  <2>1. Recv \in Threads  BY DEF Threads
  <2>2. hold[Recv] = NULL /\ ~At(Recv, Connects \cup {"close"})
    BY <1>13, <1>c, <2>1, Disjoint
    DEF RecvEntry, RecvReconnect, RecvLost, RecvHeartbeat, ReadClosed, Connects, Writes, At
  <2> QED
    BY <1>13, <2>1, <2>2, LocalGoto DEF RecvEntry, RecvReconnect, RecvLost, RecvHeartbeat, ReadClosed
<1>14. ASSUME ReadBegin PROVE MutexInv'
  <2>0. Recv \in Threads  BY DEF Threads
  <2>1. hold'[Recv] = network_handle /\ \A u \in Threads \ {Recv} : hold'[u] = hold[u]
    BY <1>14, <2>0 DEF ReadBegin, TypeOK
  <2>2. /\ At(Recv, {"read"}) /\ ~At(Recv, Connects \cup {"close"}) /\ ~At(Recv, Writes)
        /\ ~At(Recv, {"reconnect_locked"})
    BY <1>14, Disjoint DEF ReadBegin, At
  <2>3. OwnerInv'
    BY <1>0, <1>14, <2>0, <2>1, <2>2 DEF ReadBegin, MutexInv, OwnerInv, At
  <2>4. HoldInv'
    BY <1>0, <1>14, <2>0, <2>1, <2>2 DEF ReadBegin, MutexInv, HoldInv, At
  <2> QED BY <2>3, <2>4 DEF MutexInv
<1>15. ASSUME NEW steps, ReadEnds(steps) PROVE MutexInv'
  <2>0. Recv \in Threads  BY DEF Threads
  <2>1. recv_mutex = Recv /\ data_mutex # Recv /\ send_mutex # Recv
    BY <1>15, <2>0, Disjoint DEF ReadEnds, At, MutexInv, OwnerInv, HoldInv
  <2> QED BY <1>15, <2>0, <2>1, ReleaseStep DEF ReadEnds
<1>16. ASSUME Heartbeat PROVE MutexInv'
  <2>1. Process \in Threads  BY DEF Threads
  <2>2. hold[Process] = NULL /\ ~At(Process, Connects \cup {"close"})
    BY <1>16, <1>c, <2>1 DEF Heartbeat, LostLoad, LostStore, Connects, Writes
  <2> QED BY <1>16, <2>1, <2>2, LocalGoto DEF Heartbeat, LostLoad, LostStore
<1>17. ASSUME IntervalElapses \/ LinkDies PROVE MutexInv'
  BY <1>17, <1>a DEF IntervalElapses, LinkDies
<1>18. CASE UNCHANGED vars
  BY <1>18, <1>a DEF vars
<1>19. ASSUME Receive PROVE MutexInv'
  BY <1>13, <1>14, <1>15, <1>19
  DEF Receive, ReadTimeout, ReadPacket, ReadLateConnack, ReadBadPacket, ReadServerDisconnect, ReadError
<1>20. ASSUME NEW t \in Threads, Continue(t) PROVE MutexInv'
  BY <1>3, <1>4, <1>5, <1>6, <1>7, <1>8, <1>9, <1>10, <1>11, <1>12, <1>16, <1>19, <1>20
  DEF Continue, Close, Write, Connect
<1> QED BY <1>1, <1>2, <1>17, <1>18, <1>20 DEF Next, Call, Threads

LEMMA MutexAlways == Spec => [](TypeOK /\ MutexInv)
<1>1. Init => MutexInv
  BY ThreadsAssumption DEF Init, MutexInv, OwnerInv, HoldInv
<1> QED BY <1>1, SessionTypeCorrect, MutexStep, PTL DEF Spec

(***************************************************************************)
(* However many threads publish, connect and disconnect, no handle is      *)
(* closed under a thread that sends or receives on it, and no two threads  *)
(* send, or receive, at the same time.                                     *)
(***************************************************************************)
THEOREM NoUseAfterCloseAlways == Spec => []NoUseAfterClose
<1>1. MutexInv => NoUseAfterClose
  <2> SUFFICES ASSUME MutexInv PROVE NoUseAfterClose
    OBVIOUS
  <2>1. \A t \in Threads : hold[t] # NULL => network_handle = hold[t]
    BY DEF MutexInv, HoldInv
  <2>2. ASSUME NEW t \in Threads, NEW u \in Threads, t # u, hold[t] # NULL, hold[u] # NULL
        PROVE  \/ Head(prog[t]) \in Writes /\ Head(prog[u]) = "read"
               \/ Head(prog[u]) \in Writes /\ Head(prog[t]) = "read"
    BY <2>2 DEF MutexInv, HoldInv, At
  <2> QED BY <2>1, <2>2 DEF NoUseAfterClose
<1> QED BY <1>1, MutexAlways, PTL

(***************************************************************************)
(* The mutexes are taken in the order data_mutex, send_mutex, recv_mutex:  *)
(* who is about to wait for one owns none of the later ones.               *)
(***************************************************************************)
LockOrder ==
  \A t \in Threads :
    /\ At(t, {"reconnect_locked"}) /\ data_mutex # t => send_mutex # t /\ recv_mutex # t
    /\ At(t, Connects \cup Writes \cup {"close"}) /\ send_mutex # t => recv_mutex # t
    /\ At(t, {"read"}) /\ recv_mutex # t => send_mutex # t /\ data_mutex # t
    /\ Idle(t) => t \notin {data_mutex, send_mutex, recv_mutex}

(***************************************************************************)
(* Any number of threads take the mutexes in the same order.               *)
(***************************************************************************)
THEOREM LockOrderAlways == Spec => []LockOrder
<1>1. MutexInv => LockOrder
  BY Disjoint DEF MutexInv, OwnerInv, LockOrder, At, Idle
<1> QED BY <1>1, MutexAlways, PTL

\* The owner of a mutex waits only for a later one.
LEMMA LaterMutex ==
  ASSUME MutexInv, NEW t \in Threads, NEW u \in Threads, WaitsFor(t, u)
  PROVE  /\ recv_mutex # t
         /\ send_mutex = t => recv_mutex = u
         /\ data_mutex = t => u \in {send_mutex, recv_mutex}
         /\ u \in {data_mutex, send_mutex, recv_mutex}
<1>1. CASE WaitsForData(t, u)
  BY <1>1, Disjoint DEF WaitsForData, MutexInv, OwnerInv, At
<1>2. CASE WaitsForSend(t, u)
  BY <1>2, Disjoint DEF WaitsForSend, MutexInv, OwnerInv, At
<1>3. CASE WaitsForRecv(t, u)
  BY <1>3, Disjoint DEF WaitsForRecv, MutexInv, OwnerInv, At
<1> QED
  BY <1>1, <1>2, <1>3 DEF WaitsFor

(***************************************************************************)
(* For any number of threads there is no circle, of any length, in which   *)
(* each waits for a mutex of the next, over every path that takes one of   *)
(* the three: sends and receives, closing after an error, connecting,      *)
(* reconnecting under data_mutex.                                          *)
(***************************************************************************)
THEOREM NoWaitingCircleAlways == Spec => []NoWaitingCircle
<1>1. MutexInv => NoWaitingCircle
  <2>i. MutexInv => \A t \in Threads : Idle(t) => t \notin {data_mutex, send_mutex, recv_mutex}
    BY DEF MutexInv, OwnerInv, At, Idle
  <2> SUFFICES ASSUME MutexInv, NEW S \in SUBSET Threads, S # {},
                      \A t \in S : \E u \in S : WaitsFor(t, u)
               PROVE  FALSE
    BY <2>i DEF NoWaitingCircle
  <2>1. recv_mutex \notin S
    BY LaterMutex
  <2>2. send_mutex \notin S
    BY <2>1, LaterMutex
  <2>3. data_mutex \notin S
    BY <2>1, <2>2, LaterMutex
  <2> QED
    BY <2>1, <2>2, <2>3, LaterMutex
<1> QED BY <1>1, MutexAlways, PTL
-----------------------------------------------------------------------------
(***************************************************************************)
(* The events, when only the receive thread opens connections.             *)
(*                                                                         *)
(* DisconnectEventTrue is about the moment between two calls of            *)
(* aiot_mqtt_recv; to get from one such moment to the next the invariant   *)
(* says what each point within a call knows.  Gone is stable under every   *)
(* other thread, since those close the session and count heartbeats but    *)
(* neither open the one nor reset the other.                               *)
(***************************************************************************)
Gone == session # "open" \/ lost_times > MaxLost

Starts(s, procs) == s # <<>> /\ Head(s) \in procs

\* A new session is open and the application is about to be told.
Opens(s) == \/ Starts(s, {"notify_connect", "test_connect", "emit_connect", "emit_reconnect"})
            \/ Starts(s, {"lost_reset"}) /\ Starts(Tail(s), {"notify_connect"})
Tells(s) == Starts(s, {"notify_disconnect", "emit_disconnect"})
Dials(s) == Starts(s, {"reconnect"} \cup Connects)
\* A packet is awaited, or was read and still has to reset lost_times.
Reads(s) == \/ Starts(s, {"read"})
            \/ Starts(s, {"lost_reset"}) /\ ~Opens(s)

\* What may follow a procedure in the program of the receive thread.
Follow(p) ==
  CASE p \in {"recv_entry", "recv_reconnect", "recv_lost", "recv_heartbeat", "read", "write"} -> {<<>>}
    [] p \in {"reconnect", "reconnect_locked"} -> {<<"recv_lost">>}
    [] p = "connect_heartbeat" -> {<<"read">>}
    [] p \in {"notify_connect", "test_connect", "emit_connect", "emit_reconnect"} -> {<<"recv_lost">>, <<"read">>}
    [] p \in {"notify_disconnect", "emit_disconnect"} -> {<<>>, <<"recv_reconnect">>, <<"recv_heartbeat">>}
    [] p = "close" -> {<<>>, <<"notify_disconnect">>}
    [] p = "lost_reset" -> {<<>>, <<"write">>, <<"close">>, <<"close", "notify_disconnect">>,
                            <<"notify_connect", "recv_lost">>, <<"notify_connect", "read">>}
    [] OTHER -> {}

RecvProgram(s)  == s = <<>> \/ Tail(s) \in Follow(Head(s))
OtherProgram(s) == s = <<>> \/ /\ Head(s) \in {"write", "close", "ping", "lost_load", "lost_store"}
                               /\ Tail(s) \in {<<>>, <<"lost_load">>}

ProgramInv ==
  /\ RecvProgram(prog[Recv])
  /\ \A t \in Threads \ {Recv} : OtherProgram(prog[t])

EventInv ==
  /\ ~disconnect_api_called
  /\ At(Process, {"lost_store"}) => lost_reg >= lost_times
  /\ network_handle = NULL => session # "open"
  /\ At(Recv, Connects) /\ hold[Recv] # NULL => session # "open"
  /\ Dials(prog[Recv]) => ReconnectEnabled
  /\ session = "open" => ReconnectEnabled
  /\ Tells(prog[Recv]) => Gone
  /\ Reads(prog[Recv]) /\ event = "DISCONNECT" => session # "open"
  /\ event = "DISCONNECT" => Gone \/ Opens(prog[Recv])

LEMMA Tuples ==
  /\ \A a : <<a>> # <<>> /\ Head(<<a>>) = a /\ Tail(<<a>>) = <<>>
  /\ \A a, b : <<a, b>> # <<>> /\ Head(<<a, b>>) = a /\ Tail(<<a, b>>) = <<b>>
  /\ \A a, b, c : <<a, b, c>> # <<>> /\ Head(<<a, b, c>>) = a /\ Tail(<<a, b, c>>) = <<b, c>>
<1>1. \A a : <<a>> # <<>> /\ Head(<<a>>) = a /\ Tail(<<a>>) = <<>>
  OBVIOUS
<1>2. \A a, b : <<a, b>> # <<>> /\ Head(<<a, b>>) = a /\ Tail(<<a, b>>) = <<b>>
  OBVIOUS
<1>3. \A a, b, c : <<a, b, c>> # <<>> /\ Head(<<a, b, c>>) = a /\ Tail(<<a, b, c>>) = <<b, c>>
  OBVIOUS
<1> QED
  BY <1>1, <1>2, <1>3

LEMMA Joined == \A a, b, c : <<a, b>> \o <<c>> = <<a, b, c>>
<1> SUFFICES ASSUME NEW a, NEW b, NEW c
             PROVE  <<a, b>> \o <<c>> = <<a, b, c>>
  OBVIOUS
<1> DEFINE S == {a, b, c}
           u == <<a, b>> \o <<c>>
<1>1. <<a, b>> \in Seq(S) /\ <<c>> \in Seq(S) /\ Len(<<a, b>>) = 2 /\ Len(<<c>>) = 1
  OBVIOUS
<1>2. u \in Seq(S) /\ Len(u) = 3 /\ u[1] = a /\ u[2] = b /\ u[3] = c
  BY <1>1
<1>3. <<a, b, c>> \in Seq(S) /\ Len(<<a, b, c>>) = 3
  OBVIOUS
<1> HIDE DEF u
<1>4. u = [i \in 1 .. 3 |-> <<a, b, c>>[i]]
  BY <1>2
<1>5. <<a, b, c>> = [i \in 1 .. 3 |-> <<a, b, c>>[i]]
  BY <1>3
<1> QED
  BY <1>4, <1>5 DEF u

LEMMA Paired == \A a, b : <<a>> \o <<b>> = <<a, b>>
<1> SUFFICES ASSUME NEW a, NEW b
             PROVE  <<a>> \o <<b>> = <<a, b>>
  OBVIOUS
<1> DEFINE u == <<a>> \o <<b>>
<1>1. <<a>> \in Seq({a, b}) /\ <<b>> \in Seq({a, b}) /\ Len(<<a>>) = 1 /\ Len(<<b>>) = 1
  OBVIOUS
<1>2. u \in Seq({a, b}) /\ Len(u) = 2 /\ u[1] = a /\ u[2] = b
  BY <1>1
<1>3. <<a, b>> \in Seq({a, b}) /\ Len(<<a, b>>) = 2
  OBVIOUS
<1> HIDE DEF u
<1>4. u = [i \in 1 .. 2 |-> <<a, b>>[i]]
  BY <1>2
<1>5. <<a, b>> = [i \in 1 .. 2 |-> <<a, b>>[i]]
  BY <1>3
<1> QED
  BY <1>4, <1>5 DEF u

LEMMA Prepended ==
  ASSUME NEW p \in Procs, NEW s \in Seq(Procs)
  PROVE  <<p>> \o s # <<>> /\ Head(<<p>> \o s) = p /\ Tail(<<p>> \o s) = s
<1>1. <<p>> \o s \in Seq(Procs) /\ Len(<<p>> \o s) = Len(s) + 1 /\ (<<p>> \o s)[1] = p
  OBVIOUS
<1>2. Tail(<<p>> \o s) = s
  OBVIOUS
<1> QED
  BY <1>1, <1>2

\* What follows a procedure of the receive thread, one procedure at a time.
LEMMA Followed ==
  ASSUME NEW s, s # <<>>, RecvProgram(s)
  PROVE  /\ Head(s) \in {"recv_entry", "recv_reconnect", "recv_lost", "recv_heartbeat", "read", "write"} => Tail(s) = <<>>
         /\ Head(s) \in {"reconnect", "reconnect_locked"} => Tail(s) = <<"recv_lost">>
         /\ Head(s) = "connect_heartbeat" => Tail(s) = <<"read">>
         /\ Head(s) \in {"notify_connect", "test_connect", "emit_connect", "emit_reconnect"}
              => Tail(s) \in {<<"recv_lost">>, <<"read">>}
         /\ Head(s) \in {"notify_disconnect", "emit_disconnect"}
              => Tail(s) \in {<<>>, <<"recv_reconnect">>, <<"recv_heartbeat">>}
         /\ Head(s) = "close" => Tail(s) \in {<<>>, <<"notify_disconnect">>}
         /\ Head(s) = "lost_reset"
              => Tail(s) \in {<<>>, <<"write">>, <<"close">>, <<"close", "notify_disconnect">>,
                              <<"notify_connect", "recv_lost">>, <<"notify_connect", "read">>}
         /\ Head(s) \notin {"connect", "write_prop", "ping", "lost_load", "lost_store"}
  BY DEF RecvProgram, Follow

\* The programs the receive thread goes on with.
LEMMA RecvPrograms ==
  /\ RecvProgram(<<>>)
  /\ \A p \in {"recv_entry", "recv_reconnect", "recv_lost", "recv_heartbeat", "read", "write", "close",
               "notify_disconnect", "lost_reset"} : RecvProgram(<<p>>)
  /\ \A r \in {"recv_reconnect", "recv_heartbeat"} : RecvProgram(<<"notify_disconnect", r>>)
  /\ RecvProgram(<<"reconnect", "recv_lost">>) /\ RecvProgram(<<"connect_heartbeat", "read">>)
  /\ RecvProgram(<<"close", "notify_disconnect">>)
  /\ RecvProgram(<<"lost_reset", "close">>) /\ RecvProgram(<<"lost_reset", "write">>)
  /\ RecvProgram(<<"lost_reset", "close", "notify_disconnect">>)
  /\ \A r \in {"recv_lost", "read"} : RecvProgram(<<"notify_connect", r>>) /\ RecvProgram(<<"lost_reset", "notify_connect", r>>)
<1>1. /\ RecvProgram(<<>>)
      /\ \A p \in {"recv_entry", "recv_reconnect", "recv_lost", "recv_heartbeat", "read", "write", "close",
                   "notify_disconnect", "lost_reset"} : RecvProgram(<<p>>)
  BY Tuples DEF RecvProgram, Follow
<1>2. /\ \A r \in {"recv_reconnect", "recv_heartbeat"} : RecvProgram(<<"notify_disconnect", r>>)
      /\ RecvProgram(<<"reconnect", "recv_lost">>) /\ RecvProgram(<<"connect_heartbeat", "read">>)
      /\ RecvProgram(<<"close", "notify_disconnect">>)
  BY Tuples DEF RecvProgram, Follow
<1>3. RecvProgram(<<"lost_reset", "close">>) /\ RecvProgram(<<"lost_reset", "write">>)
  BY Tuples DEF RecvProgram, Follow
<1>4. RecvProgram(<<"lost_reset", "close", "notify_disconnect">>)
  BY Tuples DEF RecvProgram, Follow
<1>5. ASSUME NEW r \in {"recv_lost", "read"}
      PROVE  RecvProgram(<<"notify_connect", r>>) /\ RecvProgram(<<"lost_reset", "notify_connect", r>>)
  BY Tuples DEF RecvProgram, Follow
<1> QED
  BY <1>1, <1>2, <1>3, <1>4, <1>5

LEMMA RecvGoto ==
  ASSUME TypeOK, ProgramInv, NEW s, RecvProgram(s), Goto(Recv, s)
  PROVE  ProgramInv' /\ prog'[Recv] = s /\ prog'[Process] = prog[Process]
<1>1. Recv \in Threads /\ Process \in Threads /\ Recv # Process
  BY ThreadsAssumption DEF Threads
<1>2. prog'[Recv] = s /\ \A t \in Threads \ {Recv} : prog'[t] = prog[t]
  BY <1>1 DEF TypeOK, Goto
<1> QED
  BY <1>1, <1>2 DEF ProgramInv

LEMMA OtherGoto ==
  ASSUME TypeOK, ProgramInv, NEW t \in Threads, t # Recv, NEW s, OtherProgram(s), Goto(t, s)
  PROVE  ProgramInv' /\ prog'[Recv] = prog[Recv] /\ prog'[t] = s
<1>1. Recv \in Threads
  BY DEF Threads
<1>2. prog'[t] = s /\ \A u \in Threads \ {t} : prog'[u] = prog[u]
  BY DEF TypeOK, Goto
<1> QED
  BY <1>1, <1>2 DEF ProgramInv

\* A step of another thread: it may end the session and count a heartbeat.
LEMMA EventOther ==
  ASSUME TypeOK, TypeOK', EventInv,
         UNCHANGED <<event, disconnect_api_called>>, prog'[Recv] = prog[Recv], hold'[Recv] = hold[Recv],
         session' \in {session, "none"},
         network_handle' = NULL => network_handle = NULL \/ session' = "none",
         lost_times' >= lost_times,
         At(Process, {"lost_store"})' => lost_reg' >= lost_times'
  PROVE  EventInv'
<1>1. lost_times \in Nat /\ lost_times' \in Nat /\ MaxLost \in Nat
  BY SessionAssumption DEF TypeOK
<1>2. Gone => Gone'
  BY <1>1 DEF Gone
<1>3. At(Recv, Connects)' <=> At(Recv, Connects)
  BY DEF At
<1>4. /\ ~disconnect_api_called' /\ (network_handle' = NULL => session' # "open")
      /\ (At(Recv, Connects)' /\ hold'[Recv] # NULL => session' # "open")
      /\ (session' = "open" => ReconnectEnabled)
  BY <1>3 DEF EventInv
<1>5. /\ Dials(prog[Recv])' => ReconnectEnabled
      /\ Tells(prog[Recv])' => Gone'
      /\ Reads(prog[Recv])' /\ event' = "DISCONNECT" => session' # "open"
      /\ event' = "DISCONNECT" => Gone' \/ Opens(prog[Recv])'
  BY <1>2 DEF EventInv
<1> QED
  BY <1>4, <1>5 DEF EventInv

\* A step of the thread that neither touches what the invariant speaks of.
LEMMA EventQuiet ==
  ASSUME TypeOK, TypeOK', ProgramInv, EventInv,
         UNCHANGED <<event, disconnect_api_called, session, network_handle, lost_times, lost_reg, prog>>,
         hold'[Recv] = hold[Recv]
  PROVE  ProgramInv' /\ EventInv'
<1>1. ProgramInv'
  BY DEF ProgramInv
<1>2. lost_times \in Nat /\ lost_reg \in Nat
  BY SessionAssumption DEF TypeOK
<1>3. At(Process, {"lost_store"})' => lost_reg' >= lost_times'
  BY DEF At, EventInv
<1> QED
  BY <1>1, <1>2, <1>3, EventOther

LEMMA ProcessIs == Process \in Threads /\ Recv \in Threads /\ Process # Recv
  BY ThreadsAssumption DEF Threads

\* The calls of the threads, when no user makes any.
LEMMA EventCall ==
  ASSUME Users = {}, TypeOK, TypeOK', ProgramInv, EventInv, Call
  PROVE  ProgramInv' /\ EventInv'
<1> USE ProcessIs
<1>0. lost_times \in Nat /\ lost_reg \in Nat
  BY SessionAssumption DEF TypeOK
<1>1. ASSUME NEW t \in Threads, t # Recv, NEW s, OtherProgram(s), Goto(t, s), ~Starts(s, {"lost_store"}),
             UNCHANGED <<locks, net, flags, timers, hold, event, calls, faults>>
      PROVE  ProgramInv' /\ EventInv'
  <2>1. ProgramInv' /\ prog'[Recv] = prog[Recv] /\ prog'[t] = s
    BY <1>1, OtherGoto
  <2>2. At(Process, {"lost_store"})' => At(Process, {"lost_store"})
    <3>1. CASE t = Process
      BY <1>1, <2>1, <3>1 DEF At, Starts
    <3>2. CASE t # Process
      BY <1>1, <3>2, GotoOthers DEF At
    <3> QED
      BY <3>1, <3>2
  <2>3. EventInv'
    BY <1>0, <1>1, <2>1, <2>2, EventOther DEF EventInv, net, flags, timers
  <2> QED
    BY <2>1, <2>3
<1>2. ASSUME NEW t \in Writers \cup {Process}, WriterCall(t)
      PROVE  ProgramInv' /\ EventInv'
  <2>1. t \in Threads /\ t # Recv
    BY <1>2, ThreadsAssumption DEF Threads
  <2>2. OtherProgram(<<"write">>) /\ ~Starts(<<"write">>, {"lost_store"})
    BY Tuples DEF OtherProgram, Starts
  <2> QED
    BY <1>1, <1>2, <2>1, <2>2 DEF WriterCall
<1>3. ASSUME ProcessHeartbeat
      PROVE  ProgramInv' /\ EventInv'
  <2>1. OtherProgram(<<"ping", "lost_load">>) /\ ~Starts(<<"ping", "lost_load">>, {"lost_store"})
    BY Tuples DEF OtherProgram, Starts
  <2> QED
    BY <1>1, <1>3, <2>1 DEF ProcessHeartbeat
<1>4. ASSUME RecvCall
      PROVE  ProgramInv' /\ EventInv'
  <2>1. Head(<<"recv_entry">>) = "recv_entry" /\ ~Opens(prog[Recv])
    BY <1>4, Tuples DEF RecvCall, Idle, Opens, Starts
  <2>2. ProgramInv' /\ prog'[Recv] = <<"recv_entry">> /\ prog'[Process] = prog[Process]
    BY <1>4, RecvPrograms, RecvGoto DEF RecvCall
  <2>3. /\ ~Opens(prog'[Recv]) /\ ~Tells(prog'[Recv]) /\ ~Dials(prog'[Recv]) /\ ~Reads(prog'[Recv])
        /\ ~At(Recv, Connects)'
    BY <2>1, <2>2 DEF Opens, Tells, Dials, Reads, Starts, At, Connects
  <2>4. UNCHANGED <<event, disconnect_api_called, session, network_handle, lost_times, lost_reg>>
    BY <1>4 DEF RecvCall, net, flags, timers
  <2>5. Gone' <=> Gone
    BY <2>4 DEF Gone
  <2>6. At(Process, {"lost_store"})' <=> At(Process, {"lost_store"})
    BY <2>2 DEF At
  <2>7. EventInv'
    BY <2>1, <2>3, <2>4, <2>5, <2>6 DEF EventInv
  <2> QED
    BY <2>2, <2>7
<1> QED
  BY <1>2, <1>3, <1>4 DEF Call

\* The steps of a thread other than the receive thread.
LEMMA EventOthers ==
  ASSUME TypeOK, TypeOK', ProgramInv, EventInv, NEW t \in Threads, t # Recv, Continue(t)
  PROVE  ProgramInv' /\ EventInv'
<1> USE ProcessIs
<1>0. lost_times \in Nat /\ lost_reg \in Nat /\ lost_times' \in Nat /\ lost_reg' \in Nat
  BY SessionAssumption DEF TypeOK
<1>a. OtherProgram(prog[t])
  BY DEF ProgramInv
<1>b. \A S : At(t, S) => /\ Head(prog[t]) \in {"write", "close", "ping", "lost_load", "lost_store"}
                         /\ Rest(t) \in {<<>>, <<"lost_load">>}
  BY <1>a DEF At, OtherProgram, Rest
<1>c. OtherProgram(<<>>) /\ OtherProgram(<<"lost_load">>) /\ OtherProgram(<<"close">>)
  BY Tuples DEF OtherProgram
<1>d. ~Starts(<<>>, {"lost_store"}) /\ ~Starts(<<"lost_load">>, {"lost_store"}) /\ ~Starts(<<"close">>, {"lost_store"})
  BY Tuples DEF Starts
<1>e. /\ OtherProgram(<<"close">> \o <<>>) /\ OtherProgram(<<"close">> \o <<"lost_load">>)
      /\ ~Starts(<<"close">> \o <<>>, {"lost_store"}) /\ ~Starts(<<"close">> \o <<"lost_load">>, {"lost_store"})
  <2>1. "close" \in Procs /\ <<>> \in Seq(Procs) /\ <<"lost_load">> \in Seq(Procs)
    BY Literals DEF Procs
  <2>2. /\ <<"close">> \o <<>> # <<>> /\ Head(<<"close">> \o <<>>) = "close" /\ Tail(<<"close">> \o <<>>) = <<>>
        /\ <<"close">> \o <<"lost_load">> # <<>> /\ Head(<<"close">> \o <<"lost_load">>) = "close"
        /\ Tail(<<"close">> \o <<"lost_load">>) = <<"lost_load">>
    BY <2>1, Prepended
  <2> QED
    BY <2>2 DEF OtherProgram, Starts
<1>f. ASSUME NEW s, OtherProgram(s), Goto(t, s), ~Starts(s, {"lost_store"}),
             UNCHANGED <<event, disconnect_api_called, lost_times, lost_reg>>, hold'[Recv] = hold[Recv],
             session' \in {session, "none"},
             network_handle' = NULL => network_handle = NULL \/ session' = "none"
      PROVE  ProgramInv' /\ EventInv'
  <2>1. ProgramInv' /\ prog'[Recv] = prog[Recv] /\ prog'[t] = s
    BY <1>f, OtherGoto
  <2>2. At(Process, {"lost_store"})' => At(Process, {"lost_store"})
    <3>1. CASE t = Process
      BY <1>f, <2>1, <3>1 DEF At, Starts
    <3>2. CASE t # Process
      BY <1>f, <3>2, GotoOthers DEF At
    <3> QED
      BY <3>1, <3>2
  <2>3. EventInv'
    BY <1>0, <1>f, <2>1, <2>2, EventOther DEF EventInv
  <2> QED
    BY <2>1, <2>3
<1>1. ASSUME CloseLockSend(t) \/ CloseLockRecv(t) \/ WriteBegin(t)
      PROVE  ProgramInv' /\ EventInv'
  <2>1. /\ UNCHANGED <<event, disconnect_api_called, session, network_handle, lost_times, lost_reg, prog>>
        /\ hold'[Recv] = hold[Recv]
    BY <1>1 DEF CloseLockSend, CloseLockRecv, WriteBegin, net, flags, timers, TypeOK
  <2> QED
    BY <2>1, EventQuiet
<1>2. ASSUME CloseDeinit(t)
      PROVE  ProgramInv' /\ EventInv'
  <2>1. OtherProgram(Rest(t)) /\ ~Starts(Rest(t), {"lost_store"}) /\ Goto(t, Rest(t))
    BY <1>2, <1>b, <1>c, <1>d DEF CloseDeinit
  <2>2. /\ UNCHANGED <<event, disconnect_api_called, lost_times, lost_reg>> /\ hold'[Recv] = hold[Recv]
        /\ session' = "none"
    BY <1>2 DEF CloseDeinit, flags, timers
  <2> QED
    BY <1>f, <2>1, <2>2
<1>3. At(t, Writes) => /\ ~At(t, {"write_prop"})
                       /\ OtherProgram(AfterError(t)) /\ ~Starts(AfterError(t), {"lost_store"})
                       /\ OtherProgram(AfterLessData(t)) /\ ~Starts(AfterLessData(t), {"lost_store"})
                       /\ OtherProgram(Rest(t)) /\ ~Starts(Rest(t), {"lost_store"})
  <2> SUFFICES ASSUME At(t, Writes)
               PROVE  /\ ~At(t, {"write_prop"})
                      /\ OtherProgram(AfterError(t)) /\ ~Starts(AfterError(t), {"lost_store"})
                      /\ OtherProgram(AfterLessData(t)) /\ ~Starts(AfterLessData(t), {"lost_store"})
                      /\ OtherProgram(Rest(t)) /\ ~Starts(Rest(t), {"lost_store"})
    OBVIOUS
  <2>1. /\ Head(prog[t]) \in {"write", "ping"} /\ prog[t] # <<>> /\ Rest(t) \in {<<>>, <<"lost_load">>}
    BY <1>b DEF At, Writes
  <2>2. ~At(t, {"write_prop"})
    BY <2>1 DEF At
  <2>3. AfterError(t) \in {<<"close">> \o Rest(t), <<"close">>}
    BY <2>1 DEF AfterError, At
  <2>4. AfterLessData(t) \in {Rest(t), <<>>}
    BY DEF AfterLessData
  <2> QED
    BY <1>c, <1>d, <1>e, <2>1, <2>2, <2>3, <2>4
<1>4. ASSUME WriteClosed(t) \/ WriteEnd(t)
      PROVE  ProgramInv' /\ EventInv'
  <2>1. /\ UNCHANGED <<event, disconnect_api_called, lost_times, lost_reg, session, network_handle>>
        /\ hold'[Recv] = hold[Recv]
    BY <1>4 DEF WriteClosed, WriteEnd, net, flags, timers, TypeOK
  <2>2. \E s : OtherProgram(s) /\ Goto(t, s) /\ ~Starts(s, {"lost_store"})
    BY <1>3, <1>4 DEF WriteClosed, WriteEnd
  <2> QED
    BY <1>f, <2>1, <2>2
<1>5. ASSUME Write(t) \/ Close(t)
      PROVE  ProgramInv' /\ EventInv'
  <2>1. ~WritePropFails(t)
    BY <1>b DEF WritePropFails, At
  <2> QED
    BY <1>1, <1>2, <1>4, <1>5, <2>1 DEF Write, Close
<1>6. ~Connect(t)
  BY <1>b
  DEF Connect, ReconnectTest, ReconnectLockData, ConnectLockSend, ConnectLockRecv, ReconnectTooEarly,
      ConnectRefused, MayConnect, ConnectBegin, ConnectSucceeds, ConnectFails, ConnectHalfOpen, At, Connects
<1>7. ~Notify(t) /\ ~LostReset(t)
  BY <1>b
  DEF Notify, NotifyConnect, TestConnect, EmitConnect, EmitReconnect, NotifyDisconnect, EmitDisconnect, LostReset, At
<1>8. ASSUME t = Process, LostLoad
      PROVE  ProgramInv' /\ EventInv'
  <2>1. OtherProgram(<<"lost_store">>) /\ Goto(t, <<"lost_store">>)
    BY <1>8, Tuples DEF OtherProgram, LostLoad
  <2>2. ProgramInv' /\ prog'[Recv] = prog[Recv]
    BY <2>1, OtherGoto
  <2>3. /\ UNCHANGED <<event, disconnect_api_called, session, network_handle, lost_times, hold>>
        /\ lost_reg' = lost_times
    BY <1>8 DEF LostLoad, net, flags
  <2> QED
    BY <1>0, <2>2, <2>3, EventOther
<1>9. ASSUME t = Process, LostStore
      PROVE  ProgramInv' /\ EventInv'
  <2>1. Goto(t, <<>>) /\ At(Process, {"lost_store"})
    BY <1>9 DEF LostStore
  <2>2. ProgramInv' /\ prog'[Recv] = prog[Recv] /\ prog'[t] = <<>>
    BY <1>c, <2>1, OtherGoto
  <2>3. UNCHANGED <<event, disconnect_api_called, session, network_handle, hold>>
    BY <1>9 DEF LostStore, net, flags
  <2>4. lost_times' >= lost_times
    <3>1. lost_reg >= lost_times
      BY <2>1 DEF EventInv
    <3>2. lost_times' = lost_reg \/ lost_times' = lost_reg + 1
      BY <1>9 DEF LostStore
    <3> QED
      BY <1>0, <3>1, <3>2
  <2>5. ~At(Process, {"lost_store"})'
    BY <1>9, <2>2 DEF At
  <2> QED
    BY <2>2, <2>3, <2>4, <2>5, EventOther
<1> QED
  BY <1>5, <1>6, <1>7, <1>8, <1>9 DEF Continue, Heartbeat

\* A step of the receive thread that goes on with program s.
LEMMA EventRecv ==
  ASSUME TypeOK, TypeOK', ProgramInv, EventInv, NEW s, RecvProgram(s), Goto(Recv, s),
         UNCHANGED <<disconnect_api_called, lost_reg>>, lost_times' <= lost_times,
         network_handle' = NULL => session' # "open",
         Starts(s, Connects) /\ hold'[Recv] # NULL => session' # "open",
         Dials(s) => ReconnectEnabled,
         session' = "open" => ReconnectEnabled,
         Tells(s) => Gone',
         Reads(s) /\ event' = "DISCONNECT" => session' # "open",
         event' = "DISCONNECT" => Gone' \/ Opens(s)
  PROVE  ProgramInv' /\ EventInv'
<1>0. lost_times \in Nat /\ lost_reg \in Nat /\ lost_times' \in Nat
  BY SessionAssumption DEF TypeOK
<1>1. ProgramInv' /\ prog'[Recv] = s /\ prog'[Process] = prog[Process]
  BY RecvGoto
<1>2. At(Process, {"lost_store"})' => lost_reg' >= lost_times'
  <2>1. At(Process, {"lost_store"})' => lost_reg >= lost_times
    BY <1>1 DEF At, EventInv
  <2> QED
    BY <1>0, <2>1
<1>3. At(Recv, Connects)' <=> Starts(s, Connects)
  BY <1>1 DEF At, Starts
<1>4. EventInv'
  BY <1>1, <1>2, <1>3 DEF EventInv
<1> QED
  BY <1>1, <1>4

\* The same, when the step is only a decision.
LEMMA EventDecides ==
  ASSUME TypeOK, TypeOK', ProgramInv, EventInv, NEW s, RecvProgram(s), Goto(Recv, s),
         UNCHANGED <<disconnect_api_called, lost_reg, lost_times, network_handle, session, event>>,
         Starts(s, Connects) => hold'[Recv] = NULL,
         Dials(s) => ReconnectEnabled,
         Tells(s) => Gone,
         Reads(s) /\ event = "DISCONNECT" => session # "open",
         Opens(prog[Recv]) => Opens(s)
  PROVE  ProgramInv' /\ EventInv'
<1>0. lost_times' <= lost_times
  BY SessionAssumption DEF TypeOK
<1>1. Gone' <=> Gone
  BY DEF Gone
<1>2. /\ network_handle' = NULL => session' # "open"
      /\ session' = "open" => ReconnectEnabled
      /\ event' = "DISCONNECT" => Gone' \/ Opens(s)
  BY <1>1 DEF EventInv
<1> QED
  BY <1>0, <1>1, <1>2, EventRecv

\* What the receive thread is about, by the procedure it is at.
LEMMA Kinds ==
  ASSUME NEW s, s # <<>>
  PROVE  /\ Opens(s) => Head(s) \in {"notify_connect", "test_connect", "emit_connect", "emit_reconnect", "lost_reset"}
         /\ Head(s) \in {"notify_connect", "test_connect", "emit_connect", "emit_reconnect"} => Opens(s)
         /\ Tells(s) <=> Head(s) \in {"notify_disconnect", "emit_disconnect"}
         /\ Dials(s) <=> Head(s) \in {"reconnect", "connect", "reconnect_locked", "connect_heartbeat"}
         /\ Reads(s) => Head(s) \in {"read", "lost_reset"}
         /\ Head(s) = "read" => Reads(s)
         /\ Head(s) = "lost_reset" => (Reads(s) <=> ~Opens(s))
  BY DEF Opens, Tells, Dials, Reads, Starts, Connects

LEMMA NoKind == ~Opens(<<>>) /\ ~Tells(<<>>) /\ ~Dials(<<>>) /\ ~Reads(<<>>)
  BY DEF Opens, Tells, Dials, Reads, Starts

LEMMA AtIs ==
  ASSUME NEW t, NEW p, At(t, {p})
  PROVE  prog[t] # <<>> /\ Head(prog[t]) = p
  BY DEF At

\* Mutexes, and handles passed to the port layer.
LEMMA RecvQuiet ==
  ASSUME TypeOK, TypeOK', ProgramInv, EventInv,
         \/ CloseLockSend(Recv) \/ CloseLockRecv(Recv) \/ ReconnectLockData(Recv) \/ ConnectLockSend(Recv)
         \/ ConnectLockRecv(Recv) \/ WriteBegin(Recv) \/ ReadBegin \/ ConnectBegin(Recv)
  PROVE  ProgramInv' /\ EventInv'
<1> USE ProcessIs
<1>1. ASSUME \/ CloseLockSend(Recv) \/ CloseLockRecv(Recv) \/ ReconnectLockData(Recv) \/ ConnectLockSend(Recv)
             \/ ConnectLockRecv(Recv)
      PROVE  ProgramInv' /\ EventInv'
  <2>1. UNCHANGED <<event, disconnect_api_called, session, network_handle, lost_times, lost_reg, prog, hold>>
    BY <1>1
    DEF CloseLockSend, CloseLockRecv, ReconnectLockData, ConnectLockSend, ConnectLockRecv, net, flags, timers
  <2> QED
    BY <2>1, EventQuiet
<1>2. ASSUME WriteBegin(Recv) \/ ReadBegin
      PROVE  ProgramInv' /\ EventInv'
  <2>1. UNCHANGED <<event, disconnect_api_called, session, network_handle, lost_times, lost_reg, prog>>
    BY <1>2 DEF WriteBegin, ReadBegin, net, flags, timers
  <2>2. ~At(Recv, Connects)'
    BY <1>2, <2>1, Disjoint DEF WriteBegin, ReadBegin, At
  <2>3. ProgramInv'
    BY <2>1 DEF ProgramInv
  <2>4. (Gone' <=> Gone) /\ (At(Process, {"lost_store"})' <=> At(Process, {"lost_store"}))
    BY <2>1 DEF Gone, At
  <2>5. EventInv'
    BY <2>1, <2>2, <2>4 DEF EventInv
  <2> QED
    BY <2>3, <2>5
<1>3. ASSUME ConnectBegin(Recv)
      PROVE  ProgramInv' /\ EventInv'
  <2>1. UNCHANGED <<event, disconnect_api_called, lost_times, lost_reg, prog>> /\ session' = "none"
    BY <1>3 DEF ConnectBegin, flags, timers
  <2>2. ProgramInv'
    BY <2>1 DEF ProgramInv
  <2>3. Gone' /\ (At(Process, {"lost_store"})' <=> At(Process, {"lost_store"}))
    BY <2>1 DEF Gone, At
  <2>4. EventInv'
    BY <2>1, <2>3 DEF EventInv
  <2> QED
    BY <2>2, <2>4
<1> QED
  BY <1>1, <1>2, <1>3

\* Close and write, which report nothing.
LEMMA RecvCloses ==
  ASSUME TypeOK, TypeOK', ProgramInv, EventInv, CloseDeinit(Recv) \/ WriteClosed(Recv) \/ WriteEnd(Recv)
  PROVE  ProgramInv' /\ EventInv'
<1>0. RecvProgram(prog[Recv]) /\ lost_times' \in Nat
  BY SessionAssumption DEF ProgramInv, TypeOK
<1>1. ASSUME CloseDeinit(Recv)
      PROVE  ProgramInv' /\ EventInv'
  <2>1. prog[Recv] # <<>> /\ Head(prog[Recv]) = "close" /\ Goto(Recv, Rest(Recv))
    BY <1>1, AtIs DEF CloseDeinit
  <2>2. Rest(Recv) \in {<<>>, <<"notify_disconnect">>}
    BY <1>0, <2>1, Followed DEF Rest
  <2>3. RecvProgram(Rest(Recv)) /\ ~Dials(Rest(Recv)) /\ ~Starts(Rest(Recv), Connects)
    BY <2>2, RecvPrograms, Tuples, Kinds, NoKind DEF Starts, Connects
  <2>4. UNCHANGED <<disconnect_api_called, lost_reg, lost_times, event>> /\ session' = "none"
    BY <1>1 DEF CloseDeinit, flags, timers
  <2>5. Gone' /\ lost_times' <= lost_times
    BY <1>0, <2>4 DEF Gone
  <2> QED
    BY <2>1, <2>3, <2>4, <2>5, EventRecv
<1>2. ASSUME WriteClosed(Recv) \/ WriteEnd(Recv)
      PROVE  ProgramInv' /\ EventInv'
  <2>1. prog[Recv] # <<>> /\ Head(prog[Recv]) = "write" /\ Rest(Recv) = <<>>
    BY <1>0, <1>2, Followed DEF WriteClosed, WriteEnd, At, Writes, Rest
  <2>2. AfterError(Recv) = <<"close">> /\ AfterLessData(Recv) = <<>>
    <3>1. <<"close">> \o <<>> = <<"close">>
      OBVIOUS
    <3> QED
      BY <2>1, <3>1 DEF AfterError, AfterLessData, At
  <2>3. PICK s \in {<<>>, <<"close">>} : Goto(Recv, s)
    BY <1>2, <2>1, <2>2 DEF WriteClosed, WriteEnd
  <2>4. RecvProgram(s) /\ ~Dials(s) /\ ~Tells(s) /\ ~Reads(s) /\ ~Starts(s, Connects)
    BY RecvPrograms, Tuples, Kinds, NoKind DEF Starts, Connects
  <2>5. UNCHANGED <<disconnect_api_called, lost_reg, lost_times, network_handle, session, event>>
    BY <1>2 DEF WriteClosed, WriteEnd, net, flags, timers
  <2>6. ~Opens(prog[Recv])
    BY <2>1, Kinds
  <2> QED
    BY <2>3, <2>4, <2>5, <2>6, EventDecides
<1> QED
  BY <1>1, <1>2

\* The attempts to connect.
LEMMA RecvConnects ==
  ASSUME TypeOK, TypeOK', ProgramInv, EventInv, MutexInv,
         \/ ReconnectTest(Recv) \/ ReconnectTooEarly(Recv) \/ ConnectRefused(Recv)
         \/ ConnectSucceeds(Recv) \/ ConnectFails(Recv) \/ ConnectHalfOpen(Recv)
  PROVE  ProgramInv' /\ EventInv'
<1> USE ProcessIs
<1>0. RecvProgram(prog[Recv]) /\ lost_times' \in Nat
  BY SessionAssumption DEF ProgramInv, TypeOK
<1>k. RecvProgram(<<>>) /\ ~Starts(<<>>, Connects)
  BY RecvPrograms DEF Starts
<1>1. ASSUME ReconnectTest(Recv)
      PROVE  ProgramInv' /\ EventInv'
  <2>1. prog[Recv] # <<>> /\ Head(prog[Recv]) = "reconnect" /\ Rest(Recv) = <<"recv_lost">>
    <3>1. prog[Recv] # <<>> /\ Head(prog[Recv]) = "reconnect"
      BY <1>1, AtIs DEF ReconnectTest
    <3> QED
      BY <1>0, <3>1, Followed DEF Rest
  <2>2. Dials(prog[Recv]) /\ ~Opens(prog[Recv]) /\ ReconnectEnabled
    BY <2>1, Kinds DEF EventInv
  <2>3. hold[Recv] = NULL
    BY <2>1, Disjoint DEF MutexInv, HoldInv, At, Connects, Writes
  <2>4. UNCHANGED <<disconnect_api_called, lost_reg, lost_times, network_handle, session, event, hold>>
    BY <1>1 DEF ReconnectTest, net, flags, timers
  <2>5. "reconnect_locked" \in Procs /\ <<"recv_lost">> \in Seq(Procs)
    BY Literals DEF Procs, Connects
  <2>6. PICK s \in {<<"recv_lost">>, <<"reconnect_locked">> \o <<"recv_lost">>} : Goto(Recv, s)
    BY <1>1, <2>1 DEF ReconnectTest
  <2>7. s # <<>> /\ Head(s) \in {"recv_lost", "reconnect_locked"}
    BY <2>5, Tuples, Prepended
  <2>8. RecvProgram(s)
    <3>1. CASE s = <<"recv_lost">>
      BY <3>1, RecvPrograms
    <3>2. CASE s = <<"reconnect_locked">> \o <<"recv_lost">>
      BY <2>5, <3>2, Prepended DEF RecvProgram, Follow
    <3> QED
      BY <3>1, <3>2
  <2>9. ~Tells(s) /\ ~Reads(s)
    BY <2>7, Kinds
  <2> QED
    BY <2>2, <2>3, <2>4, <2>6, <2>8, <2>9, EventDecides
<1>2. ASSUME At(Recv, Connects)
      PROVE  /\ ~At(Recv, {"connect"}) /\ ~Opens(prog[Recv]) /\ Rest(Recv) \in {<<"recv_lost">>, <<"read">>}
             /\ ReconnectEnabled
  <2>1. prog[Recv] # <<>> /\ Head(prog[Recv]) \in {"reconnect_locked", "connect_heartbeat"}
    BY <1>0, <1>2, Followed DEF At, Connects
  <2>2. Dials(prog[Recv]) /\ ~Opens(prog[Recv])
    BY <2>1, Kinds
  <2>3. Rest(Recv) \in {<<"recv_lost">>, <<"read">>}
    BY <1>0, <2>1, Followed DEF Rest
  <2> QED
    BY <2>1, <2>2, <2>3 DEF At, EventInv
<1>3. ASSUME ReconnectTooEarly(Recv) \/ ConnectRefused(Recv)
      PROVE  ProgramInv' /\ EventInv'
  <2>1. At(Recv, Connects)
    BY <1>3, Disjoint DEF ReconnectTooEarly, ConnectRefused, MayConnect, At
  <2>2. Goto(Recv, <<>>)
    BY <1>2, <1>3, <2>1 DEF ReconnectTooEarly, ConnectRefused, ConnectReturns
  <2>3. UNCHANGED <<disconnect_api_called, lost_reg, lost_times, network_handle, session, event>>
    BY <1>3 DEF ReconnectTooEarly, ConnectRefused, net, flags, timers
  <2> QED
    BY <1>2, <1>k, <2>1, <2>2, <2>3, NoKind, EventDecides
<1>4. ASSUME ConnectFails(Recv) \/ ConnectHalfOpen(Recv)
      PROVE  ProgramInv' /\ EventInv'
  <2>1. At(Recv, Connects) /\ hold[Recv] # NULL
    BY <1>4 DEF ConnectFails, ConnectHalfOpen
  <2>2. Goto(Recv, <<>>)
    BY <1>2, <1>4, <2>1 DEF ConnectFails, ConnectHalfOpen, ConnectReturns
  <2>3. UNCHANGED <<disconnect_api_called, lost_reg, lost_times, event>>
    BY <1>4 DEF ConnectFails, ConnectHalfOpen, flags
  <2>4. session' # "open"
    BY <1>4, <2>1 DEF ConnectFails, ConnectHalfOpen, EventInv
  <2>5. Gone' /\ lost_times' <= lost_times
    BY <1>0, <2>3, <2>4 DEF Gone
  <2> QED
    BY <1>k, <2>2, <2>3, <2>4, <2>5, NoKind, EventRecv
<1>5. ASSUME ConnectSucceeds(Recv)
      PROVE  ProgramInv' /\ EventInv'
  <2>1. At(Recv, Connects) /\ hold[Recv] # NULL
    BY <1>5 DEF ConnectSucceeds
  <2>2. PICK r \in {"recv_lost", "read"} : Rest(Recv) = <<r>>
    BY <1>2, <2>1
  <2>3. Goto(Recv, <<"lost_reset", "notify_connect">> \o <<r>>)
    BY <1>2, <1>5, <2>1, <2>2 DEF ConnectSucceeds, ConnectReturns
  <2>4. <<"lost_reset", "notify_connect">> \o <<r>> = <<"lost_reset", "notify_connect", r>>
    BY <2>2, Joined
  <2> DEFINE s == <<"lost_reset", "notify_connect", r>>
  <2>5. Goto(Recv, s)
    BY <2>3, <2>4
  <2>6. s # <<>> /\ Head(s) = "lost_reset" /\ Starts(Tail(s), {"notify_connect"}) /\ RecvProgram(s)
    BY Tuples, RecvPrograms DEF Starts
  <2> HIDE DEF s
  <2>7. Opens(s) /\ ~Tells(s) /\ ~Dials(s) /\ ~Reads(s) /\ ~Starts(s, Connects)
    <3>1. Opens(s)
      BY <2>6 DEF Opens, Starts
    <3> QED
      BY <2>6, <3>1, Kinds DEF Starts, Connects
  <2>8. UNCHANGED <<disconnect_api_called, lost_reg, lost_times, event, network_handle>>
    BY <1>5 DEF ConnectSucceeds, flags
  <2>9. network_handle # NULL /\ lost_times' <= lost_times
    BY <1>0, <2>1, <2>8 DEF MutexInv, HoldInv
  <2> QED
    BY <1>2, <2>1, <2>5, <2>6, <2>7, <2>8, <2>9, EventRecv
<1> QED
  BY <1>1, <1>3, <1>4, <1>5

\* The events and the heartbeat counter.
LEMMA RecvNotifies ==
  ASSUME TypeOK, TypeOK', ProgramInv, EventInv, Notify(Recv) \/ LostReset(Recv)
  PROVE  ProgramInv' /\ EventInv'
<1> USE ProcessIs
<1>0. RecvProgram(prog[Recv]) /\ lost_times \in Nat /\ lost_times' \in Nat
  BY SessionAssumption DEF ProgramInv, TypeOK
<1>a. ASSUME prog[Recv] # <<>>,
             Head(prog[Recv]) \in {"notify_connect", "test_connect", "emit_connect", "emit_reconnect"}
      PROVE  Opens(prog[Recv]) /\ Rest(Recv) \in {<<"recv_lost">>, <<"read">>} /\ Rest(Recv) \in Seq(Procs)
  BY <1>0, <1>a, Kinds, Followed, RestType DEF Rest
<1>1. ASSUME NotifyConnect(Recv) \/ TestConnect(Recv)
      PROVE  ProgramInv' /\ EventInv'
  <2>1. prog[Recv] # <<>> /\ Head(prog[Recv]) \in {"notify_connect", "test_connect"}
    BY <1>1, AtIs DEF NotifyConnect, TestConnect
  <2>2. PICK p \in {"test_connect", "emit_connect", "emit_reconnect"} : Goto(Recv, <<p>> \o Rest(Recv))
    BY <1>1 DEF NotifyConnect, TestConnect
  <2> DEFINE s == <<p>> \o Rest(Recv)
  <2>3. s # <<>> /\ Head(s) = p /\ Tail(s) \in {<<"recv_lost">>, <<"read">>}
    BY <1>a, <2>1, Prepended DEF Procs
  <2>4. Goto(Recv, s)
    BY <2>2
  <2> HIDE DEF s
  <2>5. RecvProgram(s)
    BY <2>3 DEF RecvProgram, Follow
  <2>6. Opens(s) /\ ~Tells(s) /\ ~Dials(s) /\ ~Reads(s) /\ ~Starts(s, Connects)
    BY <2>3, Kinds DEF Starts, Connects
  <2>7. UNCHANGED <<disconnect_api_called, lost_reg, lost_times, network_handle, session, event>>
    BY <1>1 DEF NotifyConnect, TestConnect, net, flags, timers
  <2> QED
    BY <2>4, <2>5, <2>6, <2>7, EventDecides
<1>2. ASSUME EmitConnect(Recv) \/ EmitReconnect(Recv)
      PROVE  ProgramInv' /\ EventInv'
  <2>1. prog[Recv] # <<>> /\ Head(prog[Recv]) \in {"emit_connect", "emit_reconnect"}
    BY <1>2, AtIs DEF EmitConnect, EmitReconnect
  <2>2. PICK s \in {<<"recv_lost">>, <<"read">>} : Goto(Recv, s)
    BY <1>2, <1>a, <2>1 DEF EmitConnect, EmitReconnect
  <2>3. RecvProgram(s) /\ s # <<>> /\ Head(s) \in {"recv_lost", "read"}
    BY RecvPrograms, Tuples
  <2>4. ~Tells(s) /\ ~Dials(s) /\ ~Starts(s, Connects)
    BY <2>3, Kinds DEF Starts, Connects
  <2>5. UNCHANGED <<disconnect_api_called, lost_reg, lost_times, network_handle, session>> /\ event' # "DISCONNECT"
    BY <1>2 DEF EmitConnect, EmitReconnect, net, flags, timers
  <2>6. lost_times' <= lost_times /\ (network_handle' = NULL => session' # "open")
        /\ (session' = "open" => ReconnectEnabled)
    BY <1>0, <2>5 DEF EventInv
  <2> QED
    BY <2>2, <2>3, <2>4, <2>5, <2>6, EventRecv
<1>b. ASSUME prog[Recv] # <<>>, Head(prog[Recv]) \in {"notify_disconnect", "emit_disconnect"}
      PROVE  /\ Gone /\ ~Opens(prog[Recv]) /\ RecvProgram(Rest(Recv))
             /\ ~Tells(Rest(Recv)) /\ ~Dials(Rest(Recv)) /\ ~Reads(Rest(Recv)) /\ ~Starts(Rest(Recv), Connects)
             /\ Rest(Recv) \in {<<>>, <<"recv_reconnect">>, <<"recv_heartbeat">>} /\ Rest(Recv) \in Seq(Procs)
  <2>1. Tells(prog[Recv]) /\ ~Opens(prog[Recv])
    BY <1>b, Kinds
  <2>2. Rest(Recv) \in {<<>>, <<"recv_reconnect">>, <<"recv_heartbeat">>} /\ Rest(Recv) \in Seq(Procs)
    BY <1>0, <1>b, Followed, RestType DEF Rest
  <2>3. Rest(Recv) = <<>> \/ (Rest(Recv) # <<>> /\ Head(Rest(Recv)) \in {"recv_reconnect", "recv_heartbeat"})
    BY <2>2, Tuples
  <2>4. RecvProgram(Rest(Recv))
    BY <2>2, RecvPrograms
  <2>5. ~Tells(Rest(Recv)) /\ ~Dials(Rest(Recv)) /\ ~Reads(Rest(Recv)) /\ ~Starts(Rest(Recv), Connects)
    BY <2>3, Kinds, NoKind DEF Starts, Connects
  <2> QED
    BY <2>1, <2>2, <2>4, <2>5 DEF EventInv
<1>3. ASSUME NotifyDisconnect(Recv)
      PROVE  ProgramInv' /\ EventInv'
  <2>1. prog[Recv] # <<>> /\ Head(prog[Recv]) = "notify_disconnect"
    BY <1>3, AtIs DEF NotifyDisconnect
  <2>2. UNCHANGED <<disconnect_api_called, lost_reg, lost_times, network_handle, session, event>>
    BY <1>3 DEF NotifyDisconnect, net, flags, timers
  <2>3. CASE Goto(Recv, Rest(Recv))
    BY <1>b, <2>1, <2>2, <2>3, EventDecides
  <2>4. CASE Goto(Recv, <<"emit_disconnect">> \o Rest(Recv))
    <3> DEFINE s == <<"emit_disconnect">> \o Rest(Recv)
    <3>1. s # <<>> /\ Head(s) = "emit_disconnect" /\ Tail(s) = Rest(Recv)
      BY <1>b, <2>1, Prepended DEF Procs
    <3>2. Goto(Recv, s)
      BY <2>4
    <3> HIDE DEF s
    <3>3. RecvProgram(s)
      BY <1>b, <2>1, <3>1 DEF RecvProgram, Follow
    <3>4. ~Dials(s) /\ ~Reads(s) /\ ~Starts(s, Connects)
      BY <3>1, Kinds DEF Starts, Connects
    <3> QED
      BY <1>b, <2>1, <2>2, <3>2, <3>3, <3>4, EventDecides
  <2> QED
    BY <1>3, <2>3, <2>4 DEF NotifyDisconnect
<1>4. ASSUME EmitDisconnect(Recv)
      PROVE  ProgramInv' /\ EventInv'
  <2>1. prog[Recv] # <<>> /\ Head(prog[Recv]) = "emit_disconnect" /\ Goto(Recv, Rest(Recv))
    BY <1>4, AtIs DEF EmitDisconnect
  <2>2. UNCHANGED <<disconnect_api_called, lost_reg, lost_times, network_handle, session>>
    BY <1>4 DEF EmitDisconnect, net, flags, timers
  <2>3. Gone' /\ lost_times' <= lost_times
    BY <1>0, <1>b, <2>1, <2>2 DEF Gone
  <2>4. (network_handle' = NULL => session' # "open") /\ (session' = "open" => ReconnectEnabled)
    BY <2>2 DEF EventInv
  <2> QED
    BY <1>b, <2>1, <2>2, <2>3, <2>4, EventRecv
<1>5. ASSUME LostReset(Recv)
      PROVE  ProgramInv' /\ EventInv'
  <2>1. prog[Recv] # <<>> /\ Head(prog[Recv]) = "lost_reset" /\ Goto(Recv, Rest(Recv))
    BY <1>5, AtIs DEF LostReset
  <2>2. Rest(Recv) \in {<<>>, <<"write">>, <<"close">>, <<"close", "notify_disconnect">>,
                        <<"notify_connect", "recv_lost">>, <<"notify_connect", "read">>}
    BY <1>0, <2>1, Followed DEF Rest
  <2>3. Rest(Recv) = <<>> \/ (Rest(Recv) # <<>> /\ Head(Rest(Recv)) \in {"write", "close", "notify_connect"})
    BY <2>2, Tuples
  <2>4. RecvProgram(Rest(Recv))
    BY <2>2, RecvPrograms
  <2>5. ~Tells(Rest(Recv)) /\ ~Dials(Rest(Recv)) /\ ~Reads(Rest(Recv)) /\ ~Starts(Rest(Recv), Connects)
    BY <2>3, Kinds, NoKind DEF Starts, Connects
  <2>6. Opens(prog[Recv]) => Opens(Rest(Recv))
    BY <2>1 DEF Opens, Starts, Rest
  <2>7. UNCHANGED <<disconnect_api_called, lost_reg, network_handle, session, event>> /\ lost_times' = 0
    BY <1>5 DEF LostReset, net, flags
  <2>8. event = "DISCONNECT" => session # "open" \/ Opens(prog[Recv])
    BY <2>1, Kinds DEF EventInv
  <2>9. event' = "DISCONNECT" => Gone' \/ Opens(Rest(Recv))
    BY <2>6, <2>7, <2>8 DEF Gone
  <2>10. (network_handle' = NULL => session' # "open") /\ (session' = "open" => ReconnectEnabled)
         /\ lost_times' <= lost_times
    BY <1>0, <2>7 DEF EventInv
  <2> QED
    BY <2>1, <2>4, <2>5, <2>7, <2>9, <2>10, EventRecv
<1> QED
  BY <1>1, <1>2, <1>3, <1>4, <1>5 DEF Notify

\* The decisions of aiot_mqtt_recv and what it reads.
LEMMA RecvReceives ==
  ASSUME TypeOK, TypeOK', ProgramInv, EventInv, MutexInv, Receive
  PROVE  ProgramInv' /\ EventInv'
<1> USE ProcessIs
<1>0. RecvProgram(prog[Recv]) /\ lost_times \in Nat /\ MaxLost \in Nat
  BY SessionAssumption DEF ProgramInv, TypeOK
<1>1. ASSUME RecvEntry
      PROVE  ProgramInv' /\ EventInv'
  <2>1. prog[Recv] # <<>> /\ Head(prog[Recv]) = "recv_entry"
    BY <1>1, AtIs DEF RecvEntry
  <2>2. PICK s \in {<<"notify_disconnect", "recv_reconnect">>, <<"recv_reconnect">>} :
          Goto(Recv, s) /\ (s = <<"notify_disconnect", "recv_reconnect">> => network_handle = NULL)
    <3>1. <<"recv_reconnect">> # <<"notify_disconnect", "recv_reconnect">>
      BY Tuples
    <3> QED
      BY <1>1, <3>1 DEF RecvEntry
  <2>3. s # <<>> /\ Head(s) \in {"notify_disconnect", "recv_reconnect"} /\ RecvProgram(s)
    BY RecvPrograms, Tuples
  <2>4. ~Dials(s) /\ ~Reads(s) /\ ~Starts(s, Connects)
    BY <2>3, Kinds DEF Starts, Connects
  <2>5. Tells(s) => Gone
    <3>1. Tells(s) => s = <<"notify_disconnect", "recv_reconnect">>
      BY <2>3, Kinds, Tuples
    <3> QED
      BY <2>2, <3>1 DEF EventInv, Gone
  <2>6. ~Opens(prog[Recv])
    BY <2>1, Kinds
  <2>7. UNCHANGED <<disconnect_api_called, lost_reg, lost_times, network_handle, session, event>>
    BY <1>1 DEF RecvEntry, net, flags, timers
  <2> QED
    BY <2>2, <2>3, <2>4, <2>5, <2>6, <2>7, EventDecides
<1>2. ASSUME RecvReconnect
      PROVE  ProgramInv' /\ EventInv'
  <2>1. prog[Recv] # <<>> /\ Head(prog[Recv]) = "recv_reconnect"
    BY <1>2, AtIs DEF RecvReconnect
  <2>2. PICK s \in {<<"reconnect", "recv_lost">>, <<"recv_lost">>} :
          Goto(Recv, s) /\ (s = <<"reconnect", "recv_lost">> => ReconnectEnabled)
    <3>1. <<"recv_lost">> # <<"reconnect", "recv_lost">>
      BY Tuples
    <3> QED
      BY <1>2, <3>1 DEF RecvReconnect, MayReconnect
  <2>3. s # <<>> /\ Head(s) \in {"reconnect", "recv_lost"} /\ RecvProgram(s)
    BY RecvPrograms, Tuples
  <2>4. ~Tells(s) /\ ~Reads(s) /\ ~Starts(s, Connects)
    BY <2>3, Kinds DEF Starts, Connects
  <2>5. Dials(s) => ReconnectEnabled
    <3>1. Dials(s) => s = <<"reconnect", "recv_lost">>
      BY <2>3, Kinds, Tuples
    <3> QED
      BY <2>2, <3>1
  <2>6. ~Opens(prog[Recv])
    BY <2>1, Kinds
  <2>7. UNCHANGED <<disconnect_api_called, lost_reg, lost_times, network_handle, session, event>>
    BY <1>2 DEF RecvReconnect, net, flags, timers
  <2> QED
    BY <2>2, <2>3, <2>4, <2>5, <2>6, <2>7, EventDecides
<1>3. ASSUME RecvLost
      PROVE  ProgramInv' /\ EventInv'
  <2>1. prog[Recv] # <<>> /\ Head(prog[Recv]) = "recv_lost"
    BY <1>3, AtIs DEF RecvLost
  <2>2. UNCHANGED <<disconnect_api_called, lost_reg, lost_times, network_handle, session, event>>
    BY <1>3 DEF RecvLost, net, flags, timers
  <2>3. ~Opens(prog[Recv])
    BY <2>1, Kinds
  <2>4. CASE lost_times > MaxLost
    <3> DEFINE s == <<"notify_disconnect", "recv_heartbeat">>
    <3>1. Goto(Recv, s)
      BY <1>3, <2>4 DEF RecvLost
    <3>2. s # <<>> /\ Head(s) = "notify_disconnect" /\ RecvProgram(s)
      BY RecvPrograms, Tuples
    <3> HIDE DEF s
    <3>3. ~Dials(s) /\ ~Reads(s) /\ ~Starts(s, Connects) /\ Gone
      BY <2>4, <3>2, Kinds DEF Starts, Connects, Gone
    <3> QED
      BY <2>2, <2>3, <3>1, <3>2, <3>3, EventDecides
  <2>5. CASE ~(lost_times > MaxLost)
    <3> DEFINE s == <<"read">>
    <3>1. Goto(Recv, s)
      BY <1>3, <2>5 DEF RecvLost
    <3>2. s # <<>> /\ Head(s) = "read" /\ RecvProgram(s)
      BY RecvPrograms, Tuples
    <3> HIDE DEF s
    <3>3. ~Dials(s) /\ ~Tells(s) /\ ~Starts(s, Connects)
      BY <3>2, Kinds DEF Starts, Connects
    <3>4. event = "DISCONNECT" => session # "open"
      BY <2>3, <2>5 DEF EventInv, Gone
    <3> QED
      BY <2>2, <2>3, <3>1, <3>2, <3>3, <3>4, EventDecides
  <2> QED
    BY <2>4, <2>5
<1>4. ASSUME RecvHeartbeat
      PROVE  ProgramInv' /\ EventInv'
  <2>1. prog[Recv] # <<>> /\ Head(prog[Recv]) = "recv_heartbeat"
    BY <1>4, AtIs DEF RecvHeartbeat
  <2>2. UNCHANGED <<disconnect_api_called, lost_reg, lost_times, network_handle, session, event, hold>>
    BY <1>4 DEF RecvHeartbeat, net, flags, timers
  <2>3. ~Opens(prog[Recv])
    BY <2>1, Kinds
  <2>4. hold[Recv] = NULL
    BY <2>1 DEF MutexInv, HoldInv, At, Connects, Writes
  <2>5. CASE ReconnectEnabled
    <3> DEFINE s == <<"connect_heartbeat", "read">>
    <3>1. Goto(Recv, s)
      BY <1>4, <2>5 DEF RecvHeartbeat, MayReconnect, EventInv
    <3>2. s # <<>> /\ Head(s) = "connect_heartbeat" /\ RecvProgram(s)
      BY RecvPrograms, Tuples
    <3> HIDE DEF s
    <3>3. ~Reads(s) /\ ~Tells(s)
      BY <3>2, Kinds
    <3> QED
      BY <2>2, <2>3, <2>4, <2>5, <3>1, <3>2, <3>3, EventDecides
  <2>6. CASE ~ReconnectEnabled
    <3> DEFINE s == <<"read">>
    <3>1. Goto(Recv, s)
      BY <1>4, <2>6 DEF RecvHeartbeat, MayReconnect
    <3>2. s # <<>> /\ Head(s) = "read" /\ RecvProgram(s)
      BY RecvPrograms, Tuples
    <3> HIDE DEF s
    <3>3. ~Dials(s) /\ ~Tells(s) /\ ~Starts(s, Connects)
      BY <3>2, Kinds DEF Starts, Connects
    <3>4. session # "open"
      BY <2>6 DEF EventInv
    <3> QED
      BY <2>2, <2>3, <3>1, <3>2, <3>3, <3>4, EventDecides
  <2> QED
    BY <2>5, <2>6
<1>5. ASSUME NEW s, At(Recv, {"read"}), Goto(Recv, s), RecvProgram(s),
             s = <<>> \/ (s # <<>> /\ Head(s) \in {"close", "lost_reset"}),
             UNCHANGED <<disconnect_api_called, lost_reg, lost_times, network_handle, session, event>>
      PROVE  ProgramInv' /\ EventInv'
  <2>1. prog[Recv] # <<>> /\ Head(prog[Recv]) = "read"
    BY <1>5, AtIs
  <2>2. ~Opens(prog[Recv]) /\ (event = "DISCONNECT" => session # "open")
    BY <2>1, Kinds DEF EventInv
  <2>3. ~Dials(s) /\ ~Tells(s) /\ ~Starts(s, Connects)
    BY <1>5, Kinds, NoKind DEF Starts, Connects
  <2> QED
    BY <1>5, <2>2, <2>3, EventDecides
<1>6. ASSUME ReadClosed
      PROVE  ProgramInv' /\ EventInv'
  <2>1. UNCHANGED <<disconnect_api_called, lost_reg, lost_times, network_handle, session, event>>
    BY <1>6 DEF ReadClosed, net, flags, timers
  <2> QED
    BY <1>5, <1>6, <2>1, RecvPrograms, Tuples DEF ReadClosed
<1>7. ASSUME NEW s, ReadEnds(s), RecvProgram(s), s = <<>> \/ (s # <<>> /\ Head(s) \in {"close", "lost_reset"})
      PROVE  ProgramInv' /\ EventInv'
  <2>1. UNCHANGED <<disconnect_api_called, lost_reg, lost_times, network_handle, session, event>>
    BY <1>7 DEF ReadEnds, flags, timers
  <2> QED
    BY <1>5, <1>7, <2>1 DEF ReadEnds
<1>8. ASSUME ReadTimeout \/ ReadPacket \/ ReadLateConnack \/ ReadBadPacket \/ ReadServerDisconnect \/ ReadError
      PROVE  ProgramInv' /\ EventInv'
  <2>1. <<"lost_reset">> \o <<>> = <<"lost_reset">> /\ <<"lost_reset">> \o <<"write">> = <<"lost_reset", "write">>
    <3>1. <<"lost_reset">> \o <<>> = <<"lost_reset">>
      OBVIOUS
    <3> QED
      BY <3>1, Paired
  <2>2. \E s \in {<<>>, <<"lost_reset">>, <<"lost_reset", "write">>, <<"lost_reset", "close">>,
                  <<"lost_reset", "close", "notify_disconnect">>, <<"close">>} : ReadEnds(s)
    BY <1>8, <2>1 DEF ReadTimeout, ReadPacket, ReadLateConnack, ReadBadPacket, ReadServerDisconnect, ReadError
  <2>3. ASSUME NEW s \in {<<>>, <<"lost_reset">>, <<"lost_reset", "write">>, <<"lost_reset", "close">>,
                          <<"lost_reset", "close", "notify_disconnect">>, <<"close">>}
        PROVE  RecvProgram(s) /\ (s = <<>> \/ (s # <<>> /\ Head(s) \in {"close", "lost_reset"}))
    BY RecvPrograms, Tuples
  <2> QED
    BY <1>7, <2>2, <2>3
<1>9. ASSUME ReadBegin
      PROVE  ProgramInv' /\ EventInv'
  BY <1>9, RecvQuiet
<1> QED
  BY <1>1, <1>2, <1>3, <1>4, <1>6, <1>8, <1>9 DEF Receive

LEMMA EventStep ==
  ASSUME Users = {}, TypeOK, TypeOK', MutexInv, ProgramInv, EventInv, [Next]_vars
  PROVE  ProgramInv' /\ EventInv'
<1> USE ProcessIs
<1>1. CASE Call
  BY <1>1, EventCall
<1>2. ASSUME NEW t \in Threads, t # Recv, Continue(t)
      PROVE  ProgramInv' /\ EventInv'
  BY <1>2, EventOthers
<1>3. CASE Continue(Recv)
  <2>1. ~WritePropFails(Recv)
    BY Followed DEF WritePropFails, At, ProgramInv
  <2>2. CASE Close(Recv) \/ Write(Recv)
    BY <2>1, <2>2, RecvQuiet, RecvCloses DEF Close, Write
  <2>3. CASE Connect(Recv)
    BY <2>3, RecvQuiet, RecvConnects DEF Connect
  <2>4. CASE Notify(Recv) \/ LostReset(Recv)
    BY <2>4, RecvNotifies
  <2>5. CASE Receive
    BY <2>5, RecvReceives
  <2> QED
    BY <1>3, <2>2, <2>3, <2>4, <2>5 DEF Continue
<1>4. ASSUME IntervalElapses \/ LinkDies \/ UNCHANGED vars
      PROVE  ProgramInv' /\ EventInv'
  <2>1. UNCHANGED <<event, disconnect_api_called, session, network_handle, lost_times, lost_reg, prog, hold>>
    BY <1>4 DEF IntervalElapses, LinkDies, vars, net, flags, timers
  <2> QED
    BY <2>1, EventQuiet
<1> QED
  BY <1>1, <1>2, <1>3, <1>4 DEF Next

(***************************************************************************)
(* As long as the application leaves the connection to aiot_mqtt_recv,     *)
(* which connects, reconnects and gives up silent sessions, the last event *)
(* it heard between two calls is true: after DISCONNECT there is no        *)
(* session, or more than MaxLost heartbeats are unanswered.  This holds    *)
(* for any number of publishing threads, handles, failures and any         *)
(* MaxLost.                                                                *)
(***************************************************************************)
THEOREM DisconnectEventTrueAlways ==
  ASSUME Users = {}
  PROVE  Spec => []DisconnectEventTrue
<1>1. Init => ProgramInv /\ EventInv
  <2> SUFFICES ASSUME Init
               PROVE  ProgramInv /\ EventInv
    OBVIOUS
  <2>1. prog[Recv] = <<>> /\ prog[Process] = <<>>
    BY ProcessIs DEF Init
  <2>2. ProgramInv
    BY <2>1 DEF Init, ProgramInv, RecvProgram, OtherProgram
  <2>3. EventInv
    BY <2>1, NoKind DEF Init, EventInv, At, Gone
  <2> QED
    BY <2>2, <2>3
<1>2. TypeOK /\ TypeOK' /\ MutexInv /\ ProgramInv /\ EventInv /\ [Next]_vars => ProgramInv' /\ EventInv'
  BY EventStep
<1>3. EventInv => DisconnectEventTrue
  BY NoKind DEF EventInv, DisconnectEventTrue, Idle, Gone
<1> QED
  BY <1>1, <1>2, <1>3, MutexAlways, PTL DEF Spec

-----------------------------------------------------------------------------
(***************************************************************************)
(* Staying offline, when the receive thread does not reconnect.            *)
(*                                                                         *)
(* StaysDisconnected fails because aiot_mqtt_recv tests                    *)
(* disconnect_api_called before it waits for the mutexes.  Without         *)
(* reconnection nobody but the user opens a connection (QuietInv), so from *)
(* the close within aiot_mqtt_disconnect on the handle stays NULL          *)
(* (OfflineInv).                                                           *)
(***************************************************************************)
Quiet == Procs \ ({"reconnect"} \cup Connects)

QuietInv == \A t \in Threads \ Users : prog[t] \in Seq(Quiet)

Closing(s) == \/ Starts(s, {"write"}) /\ Tail(s) = <<"close", "notify_disconnect">>
              \/ Starts(s, {"close"}) /\ Tail(s) \in {<<"close", "notify_disconnect">>, <<"notify_disconnect">>}

Closed(s) == s \in {<<>>, <<"notify_disconnect">>, <<"emit_disconnect">>}

OfflineInv ==
  disconnect_api_called =>
    /\ Users # {}
    /\ \A u \in Users : Closing(prog[u]) \/ (Closed(prog[u]) /\ network_handle = NULL)

\* One thread connects and disconnects, with aiot_mqtt_disconnect.
OneUserOffline ==
  /\ ~ReconnectEnabled
  /\ "disconnect_with_prop" \notin UserOps
  /\ \A u, v \in Users : u = v

LEMMA QuietGoto ==
  ASSUME TypeOK, QuietInv, NEW t \in Threads, NEW s, Goto(t, s), t \in Users \/ s \in Seq(Quiet)
  PROVE  QuietInv'
<1>1. prog'[t] = s /\ \A u \in Threads \ {t} : prog'[u] = prog[u]
  BY DEF TypeOK, Goto
<1> QED
  BY <1>1 DEF QuietInv

LEMMA QuietLiterals ==
  /\ <<>> \in Seq(Quiet)
  /\ \A a \in Quiet : <<a>> \in Seq(Quiet)
  /\ \A a, b \in Quiet : <<a, b>> \in Seq(Quiet)
  /\ \A a, b, c \in Quiet : <<a, b, c>> \in Seq(Quiet)
  OBVIOUS

LEMMA QuietProcs ==
  {"write", "ping", "close", "read", "recv_entry", "recv_reconnect", "recv_lost", "recv_heartbeat", "lost_reset",
   "lost_load", "lost_store", "test_connect", "emit_connect", "emit_reconnect", "notify_disconnect", "emit_disconnect"}
    \subseteq Quiet
  BY DEF Quiet, Procs, Writes, Connects

\* The rest of a program without dialling.
LEMMA QuietRest ==
  ASSUME QuietInv, NEW t \in Threads \ Users, prog[t] # <<>>
  PROVE  /\ Head(prog[t]) \in Quiet /\ Rest(t) \in Seq(Quiet)
         /\ \A p \in Quiet : <<p>> \o Rest(t) \in Seq(Quiet)
<1>1. prog[t] \in Seq(Quiet)
  BY DEF QuietInv
<1>2. Head(prog[t]) \in Quiet /\ Tail(prog[t]) \in Seq(Quiet)
  BY <1>1
<1>3. ASSUME NEW p \in Quiet
      PROVE  <<p>> \o Tail(prog[t]) \in Seq(Quiet)
  BY <1>2
<1> QED
  BY <1>2, <1>3 DEF Rest

\* Every step leads a thread other than the user to a program without dialling.
LEMMA QuietContinue ==
  ASSUME TypeOK, QuietInv, ~ReconnectEnabled, NEW t \in Threads \ Users, Continue(t)
  PROVE  UNCHANGED prog \/ \E s \in Seq(Quiet) : Goto(t, s)
<1>1. ASSUME Close(t)
      PROVE  UNCHANGED prog \/ \E s \in Seq(Quiet) : Goto(t, s)
  BY <1>1, QuietRest DEF Close, CloseLockSend, CloseLockRecv, CloseDeinit, At
<1>2. ASSUME Write(t)
      PROVE  UNCHANGED prog \/ \E s \in Seq(Quiet) : Goto(t, s)
  <2>1. At(t, Writes) => AfterError(t) \in Seq(Quiet) /\ AfterLessData(t) \in Seq(Quiet) /\ Rest(t) \in Seq(Quiet)
    BY QuietRest, QuietLiterals, QuietProcs DEF AfterError, AfterLessData, At, Writes
  <2> QED
    BY <1>2, <2>1, QuietLiterals DEF Write, WriteClosed, WriteBegin, WriteEnd, WritePropFails
<1>3. ~Connect(t)
  BY QuietRest
  DEF Connect, ReconnectTest, ReconnectLockData, ConnectLockSend, ConnectLockRecv, ReconnectTooEarly,
      ConnectRefused, MayConnect, ConnectBegin, ConnectSucceeds, ConnectFails, ConnectHalfOpen, At, Connects, Quiet
<1>4. ASSUME Notify(t) \/ LostReset(t)
      PROVE  UNCHANGED prog \/ \E s \in Seq(Quiet) : Goto(t, s)
  BY <1>4, QuietRest, QuietProcs
  DEF Notify, NotifyConnect, TestConnect, EmitConnect, EmitReconnect, NotifyDisconnect, EmitDisconnect, LostReset, At
<1>5. ASSUME t = Recv, Receive
      PROVE  UNCHANGED prog \/ \E s \in Seq(Quiet) : Goto(t, s)
  <2>1. /\ <<"notify_disconnect", "recv_reconnect">> \in Seq(Quiet) /\ <<"recv_reconnect">> \in Seq(Quiet)
        /\ <<"recv_lost">> \in Seq(Quiet) /\ <<"notify_disconnect", "recv_heartbeat">> \in Seq(Quiet)
        /\ <<"read">> \in Seq(Quiet) /\ <<"close">> \in Seq(Quiet)
        /\ <<"lost_reset", "close">> \in Seq(Quiet) /\ <<"lost_reset", "close", "notify_disconnect">> \in Seq(Quiet)
        /\ <<"lost_reset">> \in Seq(Quiet) /\ <<"write">> \in Seq(Quiet)
    BY QuietLiterals, QuietProcs
  <2>2. <<"lost_reset">> \o <<>> \in Seq(Quiet) /\ <<"lost_reset">> \o <<"write">> \in Seq(Quiet)
    BY <2>1
  <2>3. CASE RecvEntry \/ RecvReconnect \/ RecvLost \/ RecvHeartbeat \/ ReadClosed \/ ReadBegin
    BY <1>5, <2>1, <2>3 DEF RecvEntry, RecvReconnect, RecvLost, RecvHeartbeat, ReadClosed, ReadBegin, MayReconnect
  <2>4. CASE ReadTimeout \/ ReadPacket \/ ReadLateConnack \/ ReadBadPacket \/ ReadServerDisconnect \/ ReadError
    BY <1>5, <2>1, <2>2, <2>4, QuietLiterals
    DEF ReadTimeout, ReadPacket, ReadLateConnack, ReadBadPacket, ReadServerDisconnect, ReadError, ReadEnds
  <2> QED
    BY <1>5, <2>3, <2>4 DEF Receive
<1>6. ASSUME t = Process, Heartbeat
      PROVE  UNCHANGED prog \/ \E s \in Seq(Quiet) : Goto(t, s)
  <2>1. <<"lost_store">> \in Seq(Quiet) /\ <<>> \in Seq(Quiet)
    BY QuietLiterals, QuietProcs
  <2> QED
    BY <1>6, <2>1 DEF Heartbeat, LostLoad, LostStore
<1> QED
  BY <1>1, <1>2, <1>3, <1>4, <1>5, <1>6 DEF Continue

\* No step but one of a thread that dials opens a connection.
LEMMA HandleOnlyCloses ==
  ASSUME NEW t \in Threads, Continue(t), ~Connect(t)
  PROVE  UNCHANGED disconnect_api_called /\ network_handle' \in {network_handle, NULL}
<1> USE DEF net, flags
<1>1. CASE Close(t) \/ Write(t)
  BY <1>1
  DEF Close, CloseLockSend, CloseLockRecv, CloseDeinit, Write, WriteClosed, WriteBegin, WriteEnd, WritePropFails
<1>2. CASE Notify(t) \/ LostReset(t)
  BY <1>2
  DEF Notify, NotifyConnect, TestConnect, EmitConnect, EmitReconnect, NotifyDisconnect, EmitDisconnect, LostReset
<1>3. CASE Receive
  BY <1>3
  DEF Receive, RecvEntry, RecvReconnect, RecvLost, RecvHeartbeat, ReadClosed, ReadBegin, ReadTimeout, ReadPacket,
      ReadLateConnack, ReadBadPacket, ReadServerDisconnect, ReadError, ReadEnds
<1>4. CASE Heartbeat
  BY <1>4 DEF Heartbeat, LostLoad, LostStore
<1> QED
  BY <1>1, <1>2, <1>3, <1>4 DEF Continue

\* Connecting leaves disconnect_api_called alone.
LEMMA ConnectKeepsFlag ==
  ASSUME NEW t \in Threads, Connect(t)
  PROVE  UNCHANGED disconnect_api_called
  BY DEF Connect, ReconnectTest, ReconnectLockData, ConnectLockSend, ConnectLockRecv, ReconnectTooEarly,
         ConnectRefused, ConnectBegin, ConnectSucceeds, ConnectFails, ConnectHalfOpen, flags

\* The steps of the user thread move nobody else.
LEMMA UserGoto ==
  ASSUME NEW t \in Users, Continue(t)
  PROVE  UNCHANGED prog \/ \E s : Goto(t, s)
<1>0. t # Recv /\ t # Process
  BY ThreadsAssumption
<1>1. CASE Close(t) \/ Write(t)
  BY <1>1
  DEF Close, CloseLockSend, CloseLockRecv, CloseDeinit, Write, WriteClosed, WriteBegin, WriteEnd, WritePropFails
<1>2. CASE Notify(t) \/ LostReset(t)
  BY <1>2
  DEF Notify, NotifyConnect, TestConnect, EmitConnect, EmitReconnect, NotifyDisconnect, EmitDisconnect, LostReset
<1>3. CASE Connect(t)
  BY <1>3
  DEF Connect, ReconnectTest, ReconnectLockData, ConnectLockSend, ConnectLockRecv, ReconnectTooEarly,
      ConnectRefused, ConnectBegin, ConnectSucceeds, ConnectFails, ConnectHalfOpen, ConnectReturns
<1> QED
  BY <1>0, <1>1, <1>2, <1>3 DEF Continue

\* The user thread on its way out of aiot_mqtt_disconnect.
LEMMA OfflineUser ==
  ASSUME TypeOK, OneUserOffline, OfflineInv, disconnect_api_called, NEW u \in Users, Continue(u)
  PROVE  OfflineInv'
<1>0. u \in Threads /\ u # Recv /\ u # Process
  BY ThreadsAssumption DEF Threads
<1>i. Closing(prog[u]) \/ (Closed(prog[u]) /\ network_handle = NULL)
  BY DEF OfflineInv
<1>h. prog[u] # <<>> => Head(prog[u]) \in {"write", "close", "notify_disconnect", "emit_disconnect"}
  BY <1>i, Tuples DEF Closing, Closed, Starts
<1>a. ASSUME NEW s, Goto(u, s), Closing(s) \/ (Closed(s) /\ network_handle' = NULL)
      PROVE  OfflineInv'
  <2>1. prog'[u] = s
    BY <1>0, <1>a DEF TypeOK, Goto
  <2>2. \A v \in Users : v = u
    BY DEF OneUserOffline
  <2> QED
    BY <1>a, <2>1, <2>2 DEF OfflineInv
<1>b. ASSUME UNCHANGED <<prog, network_handle>>
      PROVE  OfflineInv'
  BY <1>b DEF OfflineInv
<1>c. Closing(<<"close", "notify_disconnect">>) /\ Closed(<<"notify_disconnect">>)
  BY Tuples DEF Closing, Closed, Starts
<1>1. CASE CloseLockSend(u) \/ CloseLockRecv(u) \/ WriteBegin(u)
  BY <1>1, <1>b DEF CloseLockSend, CloseLockRecv, WriteBegin, net
<1>2. CASE CloseDeinit(u)
  <2>1. prog[u] # <<>> /\ Head(prog[u]) = "close" /\ Goto(u, Rest(u)) /\ network_handle' = NULL
    BY <1>2, AtIs DEF CloseDeinit
  <2>2. Closing(prog[u])
    BY <1>i, <2>1, Tuples DEF Closed
  <2>3. Rest(u) \in {<<"close", "notify_disconnect">>, <<"notify_disconnect">>}
    BY <2>1, <2>2 DEF Closing, Starts, Rest
  <2> QED
    BY <1>a, <1>c, <2>1, <2>3
<1>3. CASE WriteClosed(u) \/ WriteEnd(u)
  <2>1. prog[u] # <<>> /\ Head(prog[u]) = "write"
    BY <1>3, <1>h DEF WriteClosed, WriteEnd, At, Writes
  <2>2. Closing(prog[u])
    BY <1>i, <2>1, Tuples DEF Closed
  <2>3. Rest(u) = <<"close", "notify_disconnect">>
    BY <2>1, <2>2 DEF Closing, Starts, Rest
  <2>4. AfterError(u) = <<"close">> \o Rest(u) /\ AfterLessData(u) = Rest(u)
    BY <2>1 DEF AfterError, AfterLessData, At
  <2>5. "close" \in Procs /\ Rest(u) \in Seq(Procs)
    BY <1>0, <2>1, RestType DEF Procs
  <2>6. Closing(AfterError(u))
    BY <2>3, <2>4, <2>5, Prepended DEF Closing, Starts
  <2>7. Goto(u, AfterError(u)) \/ Goto(u, Rest(u))
    BY <1>3, <2>4 DEF WriteClosed, WriteEnd
  <2> QED
    BY <1>a, <1>c, <2>3, <2>6, <2>7
<1>4. CASE NotifyDisconnect(u) \/ EmitDisconnect(u)
  <2>1. prog[u] # <<>> /\ Head(prog[u]) \in {"notify_disconnect", "emit_disconnect"}
    BY <1>4, AtIs DEF NotifyDisconnect, EmitDisconnect
  <2>2. Closed(prog[u]) /\ network_handle = NULL
    BY <1>i, <2>1 DEF Closing, Starts
  <2>3. Rest(u) = <<>>
    BY <2>1, <2>2, Tuples DEF Closed, Rest
  <2>4. <<"emit_disconnect">> \o <<>> = <<"emit_disconnect">>
    OBVIOUS
  <2>5. \E s \in {<<>>, <<"emit_disconnect">>} : Goto(u, s)
    BY <1>4, <2>3, <2>4 DEF NotifyDisconnect, EmitDisconnect
  <2>6. network_handle' = NULL
    BY <1>4, <2>2 DEF NotifyDisconnect, EmitDisconnect, net
  <2> QED
    BY <1>a, <2>5, <2>6 DEF Closed
<1>5. ~WritePropFails(u) /\ ~LostReset(u)
  BY <1>h DEF WritePropFails, LostReset, At
<1>6. ~NotifyConnect(u) /\ ~TestConnect(u) /\ ~EmitConnect(u) /\ ~EmitReconnect(u)
  BY <1>h DEF NotifyConnect, TestConnect, EmitConnect, EmitReconnect, At
<1>7. ~Connect(u)
  BY <1>h
  DEF Connect, ReconnectTest, ReconnectLockData, ConnectLockSend, ConnectLockRecv, ReconnectTooEarly,
      ConnectRefused, MayConnect, ConnectBegin, ConnectSucceeds, ConnectFails, ConnectHalfOpen, At, Connects
<1> QED
  BY <1>0, <1>1, <1>2, <1>3, <1>4, <1>5, <1>6, <1>7 DEF Continue, Close, Write, Notify

LEMMA OfflineStep ==
  ASSUME OneUserOffline, TypeOK, QuietInv, OfflineInv, [Next]_vars
  PROVE  QuietInv' /\ OfflineInv'
<1> USE ProcessIs
<1>a. ASSUME NEW t \in Threads \ Users, UNCHANGED prog \/ (\E s \in Seq(Quiet) : Goto(t, s)),
             UNCHANGED disconnect_api_called, network_handle' \in {network_handle, NULL}
      PROVE  QuietInv' /\ OfflineInv'
  <2>1. QuietInv'
    BY <1>a, QuietGoto DEF QuietInv
  <2>2. \A u \in Users : prog'[u] = prog[u]
    BY <1>a, GotoOthers DEF Threads
  <2>3. OfflineInv'
    BY <1>a, <2>2 DEF OfflineInv
  <2> QED
    BY <2>1, <2>3
<1>1. ASSUME NEW u \in Users, UserConnect(u) \/ UserDisconnect(u) \/ UserDisconnectProp(u)
      PROVE  QuietInv' /\ OfflineInv'
  <2>0. u \in Threads
    BY DEF Threads
  <2>1. ~UserDisconnectProp(u)
    BY DEF UserDisconnectProp, OneUserOffline
  <2>2. QuietInv'
    BY <1>1, <2>0, QuietGoto DEF UserConnect, UserDisconnect, UserDisconnectProp
  <2>3. CASE UserConnect(u)
    BY <2>2, <2>3 DEF UserConnect, OfflineInv
  <2>4. CASE UserDisconnect(u)
    <3>1. prog'[u] = <<"write", "close", "notify_disconnect">>
      BY <2>0, <2>4 DEF UserDisconnect, Goto, TypeOK
    <3>2. Closing(<<"write", "close", "notify_disconnect">>)
      BY Tuples DEF Closing, Starts
    <3>3. \A v \in Users : v = u
      BY DEF OneUserOffline
    <3> QED
      BY <2>2, <3>1, <3>2, <3>3 DEF OfflineInv
  <2> QED
    BY <1>1, <2>1, <2>2, <2>3, <2>4
<1>2. ASSUME NEW t \in Writers \cup {Process}, WriterCall(t)
      PROVE  QuietInv' /\ OfflineInv'
  <2>1. t \in Threads \ Users /\ <<"write">> \in Seq(Quiet)
    BY ThreadsAssumption, QuietLiterals, QuietProcs DEF Threads
  <2> QED
    BY <1>2, <1>a, <2>1 DEF WriterCall, net, flags
<1>3. ASSUME ProcessHeartbeat \/ RecvCall
      PROVE  QuietInv' /\ OfflineInv'
  <2>1. Process \in Threads \ Users /\ Recv \in Threads \ Users
    BY ThreadsAssumption
  <2>2. <<"ping", "lost_load">> \in Seq(Quiet) /\ <<"recv_entry">> \in Seq(Quiet)
    BY QuietLiterals, QuietProcs
  <2> QED
    BY <1>3, <1>a, <2>1, <2>2 DEF ProcessHeartbeat, RecvCall, net, flags
<1>4. ASSUME NEW t \in Threads \ Users, Continue(t)
      PROVE  QuietInv' /\ OfflineInv'
  <2>1. UNCHANGED prog \/ \E s \in Seq(Quiet) : Goto(t, s)
    BY <1>4, QuietContinue DEF OneUserOffline
  <2>2. ~Connect(t)
    BY QuietRest
    DEF Connect, ReconnectTest, ReconnectLockData, ConnectLockSend, ConnectLockRecv, ReconnectTooEarly,
        ConnectRefused, MayConnect, ConnectBegin, ConnectSucceeds, ConnectFails, ConnectHalfOpen, At, Connects, Quiet
  <2> QED
    BY <1>4, <1>a, <2>1, <2>2, HandleOnlyCloses
<1>5. ASSUME NEW u \in Users, Continue(u)
      PROVE  QuietInv' /\ OfflineInv'
  <2>0. u \in Threads
    BY DEF Threads
  <2>1. QuietInv'
    BY <1>5, <2>0, UserGoto, QuietGoto DEF QuietInv
  <2>2. UNCHANGED disconnect_api_called
    BY <1>5, <2>0, HandleOnlyCloses, ConnectKeepsFlag
  <2>3. CASE disconnect_api_called
    BY <1>5, <2>1, <2>3, OfflineUser
  <2>4. CASE ~disconnect_api_called
    BY <2>1, <2>2, <2>4 DEF OfflineInv
  <2> QED
    BY <2>3, <2>4
<1>6. CASE IntervalElapses \/ LinkDies \/ UNCHANGED vars
  <2>1. UNCHANGED <<prog, disconnect_api_called, network_handle>>
    BY <1>6 DEF IntervalElapses, LinkDies, vars, net, flags
  <2> QED
    BY <2>1 DEF QuietInv, OfflineInv
<1> QED
  BY <1>1, <1>2, <1>3, <1>4, <1>5, <1>6 DEF Next, Call

(***************************************************************************)
(* When reconnection is off and one thread connects and disconnects, the   *)
(* client is offline after aiot_mqtt_disconnect until the next             *)
(* aiot_mqtt_connect, whatever the writers, the heartbeat and the network  *)
(* do: for such a client the early test of disconnect_api_called in        *)
(* aiot_mqtt_recv is all that can break the promise.                       *)
(***************************************************************************)
THEOREM StaysDisconnectedWithoutReconnect ==
  ASSUME OneUserOffline
  PROVE  Spec => []StaysDisconnected
<1>1. Init => QuietInv /\ OfflineInv
  <2>1. <<>> \in Seq(Quiet)
    BY QuietLiterals
  <2> QED
    BY <2>1 DEF Init, QuietInv, OfflineInv
<1>2. TypeOK /\ QuietInv /\ OfflineInv /\ [Next]_vars => QuietInv' /\ OfflineInv'
  BY OfflineStep
<1>3. OfflineInv => StaysDisconnected
  BY DEF OfflineInv, StaysDisconnected, Idle, Closing, Starts
<1> QED
  BY <1>1, <1>2, <1>3, SessionTypeCorrect, PTL DEF Spec
=============================================================================
