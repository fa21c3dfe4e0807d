------------------------------ MODULE MqttExec ------------------------------
(***************************************************************************)
(* The gate between the API functions of the MQTT client and               *)
(* aiot_mqtt_deinit (core/aiot_mqtt_api.c).  A guarded function reads      *)
(* exec_enabled, adds itself to exec_count, works, and subtracts itself;   *)
(* aiot_mqtt_deinit clears exec_enabled, waits until exec_count is 0 or    *)
(* deinit_timeout_ms is over, and frees the handle piece by piece.  Only   *)
(* the counter is protected, by data_mutex; the flag, and both of the      *)
(* reads of the counter in aiot_mqtt_deinit, are not, and nothing joins    *)
(* the last of them to the frees.                                          *)
(*                                                                         *)
(* What the functions do to the handle is the subject of MqttPub and       *)
(* MqttSession; here their work is one step.                               *)
(***************************************************************************)
EXTENDS Naturals, FiniteSets

CONSTANTS
  Callers,    \* the application's threads
  Functions,  \* the kinds of functions it calls, some of Apis
  MaxLeaks    \* bound: failed subscriptions in a behaviour

(***************************************************************************)
(* The functions by the way they pass the gate.  "pub5" is a publish under *)
(* MQTT 5; "plain" is aiot_mqtt_setopt, aiot_mqtt_connect,                 *)
(* aiot_mqtt_disconnect, aiot_mqtt_process or aiot_mqtt_unsub; "bare" is a *)
(* function without a guard: aiot_mqtt_heartbeat, core_mqtt_setopt.        *)
(***************************************************************************)
Apis == {"plain", "sub", "recv", "pub", "pub5", "bare"}

ASSUME CallersAssumption   == IsFiniteSet(Callers)
ASSUME FunctionsAssumption == Functions \subseteq Apis
ASSUME LeaksAssumption     == MaxLeaks \in Nat

VARIABLES
  exec_enabled,  \* the flag, TRUE for 1
  exec_count,    \* calls in progress, as the library counts them
  handle,        \* "whole", "torn" once the frees have begun, "unlocked" without
                 \* its mutexes, "freed"
  pc,            \* where each caller is
  api,           \* the function it is in
  deinit_pc,     \* where the thread that calls aiot_mqtt_deinit is
  result,        \* what aiot_mqtt_deinit last returned
  leaks,         \* history: calls that returned without _core_mqtt_exec_dec
  caught         \* history: the threads between their test of exec_enabled and
                 \* _core_mqtt_exec_inc when aiot_mqtt_deinit cleared the flag

vars == <<exec_enabled, exec_count, handle, pc, api, deinit_pc, result, leaks, caught>>

Places  == {"idle", "alias", "check", "inc", "body", "tail", "bare", "crashed"}
Results == {"none", "success", "timeout", "disabled"}

\* aiot_mqtt_deinit has seen exec_count 0 for the last time.
PastTest == {"tear", "unlock", "free"}

Counted == {t \in Callers : pc[t] = "body"}

(***************************************************************************)
(* Types; exec_count never falls below 0.                                  *)
(***************************************************************************)
TypeOK ==
  /\ exec_enabled \in BOOLEAN
  /\ exec_count \in Nat
  /\ handle \in {"whole", "torn", "unlocked", "freed"}
  /\ pc \in [Callers -> Places]
  /\ api \in [Callers -> Apis]
  /\ deinit_pc \in {"idle", "disable", "poll", "test"} \cup PastTest
  /\ result \in Results
  /\ leaks \in 0 .. MaxLeaks
  /\ caught \subseteq Callers

-----------------------------------------------------------------------------
(* aiot_mqtt_init has returned. *)
Init ==
  /\ exec_enabled = TRUE
  /\ exec_count = 0
  /\ handle = "whole"
  /\ pc = [t \in Callers |-> "idle"]
  /\ api = [t \in Callers |-> "plain"]
  /\ deinit_pc = "idle"
  /\ result = "none"
  /\ leaks = 0
  /\ caught = {}

Goto(t, place) == pc' = [pc EXCEPT ![t] = place]

\* Where a function first touches the handle.
Entry(a) ==
  CASE a = "pub5" -> "alias"
    [] a = "bare" -> "bare"
    [] OTHER      -> "check"

\* A call starts.  The application makes no call after aiot_mqtt_deinit
\* has freed the handle.
Call(t, a) ==
  /\ pc[t] = "idle"
  /\ handle # "freed"
  /\ api' = [api EXCEPT ![t] = a]
  /\ Goto(t, Entry(a))
  /\ UNCHANGED <<exec_enabled, exec_count, handle, deinit_pc, result, leaks, caught>>

\* _core_mqtt_pub looks at the send quota and enters the topic into
\* tx_topic_alias_list before it looks at exec_enabled.
PubAlias(t) ==
  /\ pc[t] = "alias"
  /\ handle # "freed"
  /\ \/ Goto(t, "check")
     \/ Goto(t, "idle")      \* invalid property, RECEIVE_MAX_EXCEEDED
  /\ UNCHANGED <<exec_enabled, exec_count, handle, api, deinit_pc, result, leaks, caught>>

\* The whole of a function that has no guard.
BareCall(t) ==
  /\ pc[t] = "bare"
  /\ handle # "freed"
  /\ Goto(t, "idle")
  /\ UNCHANGED <<exec_enabled, exec_count, handle, api, deinit_pc, result, leaks, caught>>

CheckEnabled_Unread(t) ==
  /\ pc[t] = "check"
  /\ handle # "freed"
  /\ Goto(t, "inc")
  /\ UNCHANGED <<exec_enabled, exec_count, handle, api, deinit_pc, result, leaks, caught>>

CheckEnabled(t) ==
  /\ pc[t] = "check"
  /\ handle # "freed"
  /\ exec_enabled
  /\ Goto(t, "inc")
  /\ UNCHANGED <<exec_enabled, exec_count, handle, api, deinit_pc, result, leaks, caught>>

\* STATE_USER_INPUT_EXEC_DISABLED
CheckDisabled(t) ==
  /\ pc[t] = "check"
  /\ handle # "freed"
  /\ ~exec_enabled
  /\ Goto(t, "idle")
  /\ UNCHANGED <<exec_enabled, exec_count, handle, api, deinit_pc, result, leaks, caught>>

\* data_mutex is there until late in aiot_mqtt_deinit, and after that its
\* pointer is NULL and the port layer locks nothing: the call counts itself.
ExecInc(t) ==
  /\ pc[t] = "inc"
  /\ handle # "freed"
  /\ exec_count' = exec_count + 1
  /\ Goto(t, "body")
  /\ UNCHANGED <<exec_enabled, handle, api, deinit_pc, result, leaks, caught>>

\* The functions that go on using the handle when they have left the count:
\* _core_mqtt_pub in _core_mqtt_check_flow_dec or freeing a packet that is
\* too large, aiot_mqtt_recv closing the connection after a read error.
TailAfterDec == {"pub", "pub5", "recv"}

ExecDec_Twice(t) ==
  /\ pc[t] = "body"
  /\ handle # "freed"
  /\ exec_count' = exec_count - 2
  /\ Goto(t, "idle")
  /\ UNCHANGED <<exec_enabled, handle, api, deinit_pc, result, leaks, caught>>

ExecDec_ReadBlocks(t) ==
  /\ pc[t] = "body"
  /\ handle # "freed"
  /\ api[t] # "recv"
  /\ exec_count' = exec_count - 1
  /\ \/ Goto(t, "idle")
     \/ api[t] \in TailAfterDec /\ Goto(t, "tail")
  /\ UNCHANGED <<exec_enabled, handle, api, deinit_pc, result, leaks, caught>>

\* The work is done: _core_mqtt_exec_dec.
ExecDec(t) ==
  /\ pc[t] = "body"
  /\ handle # "freed"
  /\ exec_count' = exec_count - 1
  /\ \/ Goto(t, "idle")
     \/ api[t] \in TailAfterDec /\ Goto(t, "tail")
  /\ UNCHANGED <<exec_enabled, handle, api, deinit_pc, result, leaks, caught>>

Tail(t) ==
  /\ pc[t] = "tail"
  /\ handle # "freed"
  /\ Goto(t, "idle")
  /\ UNCHANGED <<exec_enabled, exec_count, handle, api, deinit_pc, result, leaks, caught>>

\* _core_mqtt_sublist_insert runs out of memory: _core_mqtt_sub returns at once.
SubFails(t) ==
  /\ pc[t] = "body"
  /\ handle # "freed"
  /\ api[t] = "sub"
  /\ leaks < MaxLeaks
  /\ leaks' = leaks + 1
  /\ Goto(t, "idle")
  /\ UNCHANGED <<exec_enabled, exec_count, handle, api, deinit_pc, result, caught>>

\* The next step of t reads or writes memory that is being, or has been, freed.
Stray(t) ==
  \/ handle # "whole" /\ pc[t] \in {"alias", "body", "tail", "bare"}
  \/ handle \in {"unlocked", "freed"} /\ pc[t] = "inc"
  \/ handle = "freed" /\ pc[t] = "check"

\* Its outcome is undefined: besides going on as if nothing had happened the
\* program may fail; with the handle gone the call ends somehow, or fails.
StrayStep(t) ==
  /\ Stray(t)
  /\ \/ Goto(t, "crashed")
     \/ handle = "freed" /\ Goto(t, "idle")
  /\ UNCHANGED <<exec_enabled, exec_count, handle, api, deinit_pc, result, leaks, caught>>

-----------------------------------------------------------------------------
(* aiot_mqtt_deinit; the application calls it again when it fails. *)

DeinitEnter ==
  /\ deinit_pc = "idle"
  /\ handle = "whole"         \* else *handle is NULL and the call returns at once
  /\ IF exec_enabled
       THEN deinit_pc' = "disable" /\ UNCHANGED result
       ELSE result' = "disabled" /\ UNCHANGED deinit_pc
  /\ UNCHANGED <<exec_enabled, exec_count, handle, pc, api, leaks, caught>>

DeinitDisable ==
  /\ deinit_pc = "disable"
  /\ exec_enabled' = FALSE
  /\ caught' = {t \in Callers : pc[t] = "inc"}
  /\ deinit_pc' = "poll"
  /\ UNCHANGED <<exec_count, handle, pc, api, result, leaks>>

\* The loop ends; a turn that only sleeps changes nothing.
DeinitQuiet ==
  /\ deinit_pc = "poll"
  /\ exec_count = 0
  /\ deinit_pc' = "test"
  /\ UNCHANGED <<exec_enabled, exec_count, handle, pc, api, result, leaks, caught>>

DeinitTimeout_Never ==
  /\ deinit_pc = "poll"
  /\ exec_count = 0
  /\ deinit_pc' = "test"
  /\ UNCHANGED <<exec_enabled, exec_count, handle, pc, api, result, leaks, caught>>

DeinitTimeout ==
  /\ deinit_pc = "poll"
  /\ exec_count # 0           \* and deinit_timeout_ms has passed
  /\ deinit_pc' = "test"
  /\ UNCHANGED <<exec_enabled, exec_count, handle, pc, api, result, leaks, caught>>

DeinitFails_Reenables ==
  /\ deinit_pc = "test"
  /\ exec_count # 0
  /\ deinit_pc' = "idle"
  /\ result' = "timeout"
  /\ exec_enabled' = TRUE
  /\ UNCHANGED <<exec_count, handle, pc, api, leaks, caught>>

\* exec_count is read once more; exec_enabled stays FALSE on a timeout.
DeinitFails ==
  /\ deinit_pc = "test"
  /\ exec_count # 0
  /\ deinit_pc' = "idle"
  /\ result' = "timeout"
  /\ UNCHANGED <<exec_enabled, exec_count, handle, pc, api, leaks, caught>>

\* The same read finds 0.  No mutex is held: what follows may come much later.
DeinitTest ==
  /\ deinit_pc = "test"
  /\ exec_count = 0
  /\ deinit_pc' = "tear"
  /\ UNCHANGED <<exec_enabled, exec_count, handle, pc, api, result, leaks, caught>>

\* Aliases, the process handlers' data, *handle, the connection, the strings ...
DeinitTear ==
  /\ deinit_pc = "tear"
  /\ deinit_pc' = "unlock"
  /\ handle' = "torn"
  /\ UNCHANGED <<exec_enabled, exec_count, pc, api, result, leaks, caught>>

\* ... the mutexes, data_mutex first, and the lists ...
DeinitUnlock ==
  /\ deinit_pc = "unlock"
  /\ deinit_pc' = "free"
  /\ handle' = "unlocked"
  /\ UNCHANGED <<exec_enabled, exec_count, pc, api, result, leaks, caught>>

\* ... and the handle itself.
DeinitFree ==
  /\ deinit_pc = "free"
  /\ handle' = "freed"
  /\ deinit_pc' = "idle"
  /\ result' = "success"
  /\ UNCHANGED <<exec_enabled, exec_count, pc, api, leaks, caught>>

-----------------------------------------------------------------------------
Deinit ==
  \/ DeinitEnter
  \/ DeinitDisable
  \/ DeinitQuiet
  \/ DeinitTimeout
  \/ DeinitFails
  \/ DeinitTest
  \/ DeinitTear
  \/ DeinitUnlock
  \/ DeinitFree

Continue(t) ==
  \/ PubAlias(t)
  \/ BareCall(t)
  \/ CheckEnabled(t)
  \/ CheckDisabled(t)
  \/ ExecInc(t)
  \/ ExecDec(t)
  \/ Tail(t)
  \/ SubFails(t)
  \/ StrayStep(t)

Next ==
  \/ \E t \in Callers : Continue(t) \/ \E a \in Functions : Call(t, a)
  \/ Deinit

Spec == Init /\ [][Next]_vars

(***************************************************************************)
(* A call comes to its end, because every wait on the network in it has a  *)
(* timeout, and aiot_mqtt_deinit runs on until it returns; nobody has to   *)
(* make a call.                                                            *)
(***************************************************************************)
Fairness ==
  /\ \A t \in Callers : WF_vars(Continue(t))
  /\ WF_vars(deinit_pc # "idle" /\ Deinit)

FairSpec == Spec /\ Fairness

-----------------------------------------------------------------------------
(***************************************************************************)
(* Who can be counted and at work while aiot_mqtt_deinit frees the handle: *)
(* only a thread that stood between its test of exec_enabled and           *)
(* _core_mqtt_exec_inc at the moment aiot_mqtt_deinit cleared the flag.    *)
(* Every other counted call, whatever came, failed and went while          *)
(* aiot_mqtt_deinit was polling, has been waited for.                      *)
(***************************************************************************)
OnlyCaught == handle # "whole" => Counted \subseteq caught

(***************************************************************************)
(* A handle that aiot_mqtt_deinit can no longer free: a subscription that  *)
(* failed for lack of memory has kept its place in exec_count, or          *)
(* aiot_mqtt_deinit has returned an error before.                          *)
(***************************************************************************)
Doomed ==
  /\ handle = "whole"
  /\ deinit_pc \notin PastTest
  /\ leaks > 0 \/ result \in {"timeout", "disabled"}

(***************************************************************************)
(* Such a handle stays so for ever: aiot_mqtt_deinit times out and leaves  *)
(* exec_enabled cleared, every later call of it is refused, and the end of *)
(* the calls it had waited for does not help.                              *)
(***************************************************************************)
StaysDoomed == [][Doomed => Doomed']_vars

(***************************************************************************)
(* Once aiot_mqtt_deinit has cleared exec_enabled, the functions that are  *)
(* under way end, and from some time on no guarded function works on the   *)
(* handle any more, however often the application goes on calling.         *)
(***************************************************************************)
Drains == ~exec_enabled ~> [](Counted = {})

(***************************************************************************)
(* aiot_mqtt_deinit returns, also when exec_count never falls to 0.        *)
(***************************************************************************)
DeinitReturns == deinit_pc # "idle" ~> deinit_pc = "idle"

(***************************************************************************)
(* The options' documentation has aiot_mqtt_deinit wait for the functions  *)
(* that are still running and has every later call refused with            *)
(* STATE_USER_INPUT_EXEC_DISABLED: no function works on a handle that is   *)
(* being freed.                                                            *)
(***************************************************************************)
NoUseAfterFree == \A t \in Callers : api[t] # "bare" => ~Stray(t)
=============================================================================
