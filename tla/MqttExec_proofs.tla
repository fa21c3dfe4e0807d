-------------------------- MODULE MqttExec_proofs ---------------------------
(***************************************************************************)
(* What MqttExec guarantees for every finite set of threads and every      *)
(* number of failed subscriptions: which calls aiot_mqtt_deinit does not   *)
(* wait for, when it can never free the handle, and what an application    *)
(* has to do for it to be safe.                                            *)
(*                                                                         *)
(* CountInv is the heart: exec_count is at least the number of calls at    *)
(* work plus the failed subscriptions, so that a passed test means that    *)
(* there are none.  A step leaves the set of counted calls alone, adds a   *)
(* thread to it (ExecInc) or takes one out of it (ExecDec, SubFails, a     *)
(* stray step): the lemmas about Counted.                                  *)
(***************************************************************************)
EXTENDS MqttExec, FiniteSetTheorems, TLAPS

\* Nobody who is at work, and no failed subscription, is missing from the count.
CountInv == exec_count >= Cardinality(Counted) + leaks

\* The handle's state goes with the stage of aiot_mqtt_deinit.
StageInv ==
  /\ handle = "torn" <=> deinit_pc = "unlock"
  /\ handle = "unlocked" <=> deinit_pc = "free"
  /\ handle = "freed" => deinit_pc = "idle"

\* The flag is cleared once, and what aiot_mqtt_deinit returned it returned after that.
FlagInv ==
  /\ deinit_pc \notin {"idle", "disable"} => ~exec_enabled
  /\ handle # "whole" => ~exec_enabled
  /\ result # "none" => ~exec_enabled /\ deinit_pc = "idle"

\* With the flag cleared only the caught threads are on their way into the
\* count, and after the last test only they are in it.
CaughtInv ==
  /\ ~exec_enabled => \A t \in Callers : pc[t] = "inc" => t \in caught
  /\ deinit_pc \in PastTest \/ handle # "whole" => Counted \subseteq caught

IInv == TypeOK /\ CountInv /\ StageInv /\ FlagInv /\ CaughtInv

\* The counted calls are finitely many, and there are no more than threads.
LEMMA CountedFinite ==
  /\ IsFiniteSet(Counted)
  /\ Cardinality(Counted) \in Nat
  /\ Cardinality(Callers) \in Nat
  /\ Cardinality(Counted) <= Cardinality(Callers)
<1>1. Counted \subseteq Callers
  BY DEF Counted
<1> QED
  BY <1>1, FS_Subset, FS_CardinalityType, CallersAssumption

\* A thread that moves between two places outside of "body" changes nothing.
LEMMA CountedSame ==
  ASSUME NEW t \in Callers, NEW place \in Places, pc \in [Callers -> Places],
         pc[t] # "body", place # "body", Goto(t, place)
  PROVE  /\ pc' \in [Callers -> Places]
         /\ Counted' = Counted
BY DEF Goto, Counted

\* _core_mqtt_exec_inc takes its caller into the counted ones.
LEMMA CountedAdd ==
  ASSUME NEW t \in Callers, pc \in [Callers -> Places], pc[t] # "body", Goto(t, "body")
  PROVE  /\ pc' \in [Callers -> Places]
         /\ Cardinality(Counted') = Cardinality(Counted) + 1
<1>1. /\ pc' \in [Callers -> Places]
      /\ Counted' = Counted \cup {t}
      /\ t \notin Counted
  BY DEF Goto, Counted, Places
<1> QED
  BY <1>1, CountedFinite, FS_AddElement

\* A thread that leaves "body" was counted, and no longer is.
LEMMA CountedRemove ==
  ASSUME NEW t \in Callers, NEW place \in Places, pc \in [Callers -> Places],
         pc[t] = "body", place # "body", Goto(t, place)
  PROVE  /\ pc' \in [Callers -> Places]
         /\ Cardinality(Counted') = Cardinality(Counted) - 1
         /\ Cardinality(Counted) >= 1
<1>1. /\ pc' \in [Callers -> Places]
      /\ Counted' = Counted \ {t}
      /\ t \in Counted
  BY DEF Goto, Counted
<1>2. Cardinality(Counted') = Cardinality(Counted) - 1
  BY <1>1, CountedFinite, FS_RemoveElement
<1>3. Counted # {}
  BY <1>1
<1>4. Cardinality(Counted) # 0
  BY <1>3, CountedFinite, FS_EmptySet
<1> QED
  BY <1>1, <1>2, <1>4, CountedFinite

LEMMA InitInv == Init => IInv
<1> SUFFICES ASSUME Init PROVE IInv
  OBVIOUS
<1>1. Counted = {}
  BY DEF Init, Counted
<1>2. Cardinality(Counted) = 0
  BY <1>1, FS_EmptySet
<1>3. TypeOK
  BY LeaksAssumption DEF Init, TypeOK, Places, Apis, Results
<1> QED
  BY <1>2, <1>3 DEF Init, IInv, CountInv, StageInv, FlagInv, CaughtInv, PastTest

\* A step of a caller leaves aiot_mqtt_deinit alone.
LEMMA CallerFrame ==
  ASSUME NEW t \in Callers, Continue(t) \/ \E a \in Functions : Call(t, a)
  PROVE  /\ UNCHANGED <<exec_enabled, handle, deinit_pc, result, caught>>
         /\ \A u \in Callers \ {t} : pc \in [Callers -> Places] => pc'[u] = pc[u]
         /\ \E place \in Places : Goto(t, place)
<1>1. \A a : Entry(a) \in Places
  BY DEF Entry, Places
<1>2. UNCHANGED <<exec_enabled, handle, deinit_pc, result, caught>>
  BY DEF Continue, PubAlias, BareCall, CheckEnabled, CheckDisabled, ExecInc, ExecDec, Tail,
         SubFails, StrayStep, Call
<1>3. \E place \in Places : Goto(t, place)
  BY <1>1 DEF Continue, PubAlias, BareCall, CheckEnabled, CheckDisabled, ExecInc, ExecDec, Tail,
              SubFails, StrayStep, Call, Places
<1> QED
  BY <1>2, <1>3 DEF Goto

\* The counter, and the calls it stands for, after a step of a caller.
LEMMA CallerCount ==
  ASSUME TypeOK, CountInv, NEW t \in Callers,
         Continue(t) \/ \E a \in Functions : Call(t, a)
  PROVE  TypeOK' /\ CountInv'
<1> USE LeaksAssumption
<1>t. /\ pc \in [Callers -> Places]
      /\ Cardinality(Counted) \in Nat
      /\ exec_count \in Nat /\ leaks \in 0 .. MaxLeaks
      /\ exec_count >= Cardinality(Counted) + leaks
  BY CountedFinite DEF TypeOK, CountInv
<1>f. UNCHANGED <<exec_enabled, handle, deinit_pc, result, caught>>
  BY CallerFrame
<1>p. {"idle", "alias", "check", "inc", "tail", "bare", "crashed"} \subseteq Places \ {"body"}
  BY DEF Places
<1> DEFINE Uncounted == Places \ {"body"}
<1> SUFFICES /\ pc' \in [Callers -> Places]
             /\ api' \in [Callers -> Apis]
             /\ exec_count' \in Nat /\ leaks' \in 0 .. MaxLeaks
             /\ exec_count' >= Cardinality(Counted)' + leaks'
  BY <1>f DEF TypeOK, CountInv
<1>1. CASE \E a \in Functions : Call(t, a)
  <2>1. PICK a \in Functions : Call(t, a)
    BY <1>1
  <2>2. Entry(a) \in Uncounted /\ a \in Apis
    BY FunctionsAssumption DEF Entry, Places
  <2>3. pc' \in [Callers -> Places] /\ Counted' = Counted
    BY <2>1, <2>2, <1>t, CountedSame DEF Call
  <2>4. api' \in [Callers -> Apis] /\ UNCHANGED <<exec_count, leaks>>
    BY <2>1, <2>2 DEF Call, TypeOK
  <2> QED
    BY <2>3, <2>4, <1>t
<1>2. CASE PubAlias(t) \/ BareCall(t) \/ CheckEnabled(t) \/ CheckDisabled(t) \/ Tail(t)
  <2>1. PICK place \in Uncounted : pc[t] # "body" /\ Goto(t, place)
    BY <1>2, <1>p DEF PubAlias, BareCall, CheckEnabled, CheckDisabled, Tail
  <2>2. pc' \in [Callers -> Places] /\ Counted' = Counted
    BY <2>1, <1>t, CountedSame
  <2>3. UNCHANGED <<api, exec_count, leaks>>
    BY <1>2 DEF PubAlias, BareCall, CheckEnabled, CheckDisabled, Tail
  <2> QED
    BY <2>2, <2>3, <1>t DEF TypeOK
<1>3. CASE ExecInc(t)
  <2>1. pc' \in [Callers -> Places] /\ Cardinality(Counted') = Cardinality(Counted) + 1
    BY <1>3, <1>t, CountedAdd DEF ExecInc
  <2>2. exec_count' = exec_count + 1 /\ UNCHANGED <<api, leaks>>
    BY <1>3 DEF ExecInc
  <2> QED
    BY <2>1, <2>2, <1>t DEF TypeOK
<1>4. CASE ExecDec(t)
  <2>1. PICK place \in Uncounted : pc[t] = "body" /\ Goto(t, place)
    BY <1>4, <1>p DEF ExecDec
  <2>2. /\ pc' \in [Callers -> Places]
        /\ Cardinality(Counted') = Cardinality(Counted) - 1
        /\ Cardinality(Counted) >= 1
    BY <2>1, <1>t, CountedRemove
  <2>3. exec_count' = exec_count - 1 /\ UNCHANGED <<api, leaks>>
    BY <1>4 DEF ExecDec
  <2> QED
    BY <2>2, <2>3, <1>t DEF TypeOK
<1>5. CASE SubFails(t)
  <2>1. /\ pc' \in [Callers -> Places]
        /\ Cardinality(Counted') = Cardinality(Counted) - 1
    BY <1>5, <1>p, <1>t, CountedRemove DEF SubFails
  <2>2. leaks < MaxLeaks /\ leaks' = leaks + 1 /\ UNCHANGED <<api, exec_count>>
    BY <1>5 DEF SubFails
  <2> QED
    BY <2>1, <2>2, <1>t DEF TypeOK
<1>6. CASE StrayStep(t)
  <2>1. PICK place \in Uncounted : Goto(t, place)
    BY <1>6, <1>p DEF StrayStep
  <2>2. pc' \in [Callers -> Places] /\ Cardinality(Counted)' <= Cardinality(Counted)
    <3>1. CASE pc[t] = "body"
      BY <3>1, <2>1, <1>t, CountedRemove
    <3>2. CASE pc[t] # "body"
      BY <3>2, <2>1, <1>t, CountedSame
    <3> QED
      BY <3>1, <3>2
  <2>3. Cardinality(Counted)' \in Nat
    <3>1. Counted' \subseteq Callers
      BY DEF Counted
    <3> QED
      BY <3>1, FS_Subset, FS_CardinalityType, CallersAssumption
  <2>4. UNCHANGED <<api, exec_count, leaks>>
    BY <1>6 DEF StrayStep
  <2> QED
    BY <2>2, <2>3, <2>4, <1>t DEF TypeOK
<1> QED
  BY <1>1, <1>2, <1>3, <1>4, <1>5, <1>6 DEF Continue

\* Into the count goes only who has passed the test of exec_enabled.
LEMMA CallerCaught ==
  ASSUME TypeOK, FlagInv, CaughtInv, NEW t \in Callers,
         Continue(t) \/ \E a \in Functions : Call(t, a)
  PROVE  CaughtInv'
<1>f. /\ UNCHANGED <<exec_enabled, handle, deinit_pc, caught>>
      /\ \A u \in Callers \ {t} : pc'[u] = pc[u]
      /\ pc \in [Callers -> Places]
  BY CallerFrame DEF TypeOK
<1>1. pc'[t] = "inc" => exec_enabled
  <2>1. \A a : Entry(a) # "inc"
    BY DEF Entry
  <2> QED
    BY <1>f, <2>1 DEF Continue, PubAlias, BareCall, CheckEnabled, CheckDisabled, ExecInc, ExecDec,
                      Tail, SubFails, StrayStep, Call, Goto
<1>2. pc'[t] = "body" => pc[t] = "inc"
  <2>1. \A a : Entry(a) # "body"
    BY DEF Entry
  <2> QED
    BY <1>f, <2>1 DEF Continue, PubAlias, BareCall, CheckEnabled, CheckDisabled, ExecInc, ExecDec,
                      Tail, SubFails, StrayStep, Call, Goto
<1>3. ASSUME ~exec_enabled', NEW u \in Callers, pc'[u] = "inc"
      PROVE  u \in caught'
  BY <1>3, <1>1, <1>f DEF CaughtInv
<1>4. ASSUME deinit_pc' \in PastTest \/ handle' # "whole", NEW u \in Callers, pc'[u] = "body"
      PROVE  u \in caught'
  <2>1. ~exec_enabled
    BY <1>4, <1>f DEF FlagInv, PastTest
  <2>2. CASE u = t
    BY <2>1, <2>2, <1>4, <1>2, <1>f DEF CaughtInv
  <2>3. CASE u # t
    BY <2>3, <1>4, <1>f DEF CaughtInv, Counted
  <2> QED
    BY <2>2, <2>3
<1> QED
  BY <1>3, <1>4 DEF CaughtInv, Counted

\* A step of aiot_mqtt_deinit: when its last test is passed nobody is counted.
LEMMA DeinitKeeps ==
  ASSUME IInv, Deinit
  PROVE  IInv'
<1>1. /\ UNCHANGED <<exec_count, pc, api, leaks>> /\ Counted' = Counted
      /\ TypeOK /\ CountInv /\ StageInv /\ FlagInv /\ CaughtInv
  BY DEF Deinit, DeinitEnter, DeinitDisable, DeinitQuiet, DeinitTimeout, DeinitFails, DeinitTest,
         DeinitTear, DeinitUnlock, DeinitFree, Counted, IInv
<1>2. TypeOK'
  BY <1>1 DEF Deinit, DeinitEnter, DeinitDisable, DeinitQuiet, DeinitTimeout, DeinitFails,
              DeinitTest, DeinitTear, DeinitUnlock, DeinitFree, TypeOK, Results, PastTest
<1>3. StageInv' /\ FlagInv'
  BY <1>1 DEF Deinit, DeinitEnter, DeinitDisable, DeinitQuiet, DeinitTimeout, DeinitFails,
              DeinitTest, DeinitTear, DeinitUnlock, DeinitFree, StageInv, FlagInv, TypeOK
<1>4. CountInv'
  BY <1>1 DEF CountInv
<1>5. CaughtInv'
  <2>1. CASE DeinitDisable
    <3>1. handle = "whole"
      BY <2>1, <1>1 DEF DeinitDisable, FlagInv, StageInv, TypeOK
    <3> QED
      BY <2>1, <3>1, <1>1 DEF DeinitDisable, CaughtInv, PastTest
  <2>2. CASE DeinitTest
    <3>1. Cardinality(Counted) = 0
      BY <2>2, <1>1, CountedFinite, LeaksAssumption DEF DeinitTest, CountInv, TypeOK
    <3>2. Counted = {}
      BY <3>1, CountedFinite, FS_EmptySet
    <3> QED
      BY <2>2, <3>2, <1>1 DEF DeinitTest, CaughtInv
  <2>3. CASE DeinitEnter \/ DeinitQuiet \/ DeinitTimeout \/ DeinitFails
    BY <2>3, <1>1 DEF DeinitEnter, DeinitQuiet, DeinitTimeout, DeinitFails, CaughtInv, PastTest
  <2>4. CASE DeinitTear \/ DeinitUnlock \/ DeinitFree
    BY <2>4, <1>1 DEF DeinitTear, DeinitUnlock, DeinitFree, CaughtInv, PastTest
  <2> QED
    BY <2>1, <2>2, <2>3, <2>4 DEF Deinit
<1> QED
  BY <1>2, <1>3, <1>4, <1>5 DEF IInv

LEMMA InvStep == IInv /\ [Next]_vars => IInv'
<1> SUFFICES ASSUME IInv, [Next]_vars PROVE IInv'
  OBVIOUS
<1>1. ASSUME NEW t \in Callers, Continue(t) \/ \E a \in Functions : Call(t, a)
      PROVE  IInv'
  <2>1. TypeOK' /\ CountInv' /\ CaughtInv'
    BY <1>1, CallerCount, CallerCaught DEF IInv
  <2>2. StageInv' /\ FlagInv'
    BY <1>1, CallerFrame DEF IInv, StageInv, FlagInv
  <2> QED
    BY <2>1, <2>2 DEF IInv
<1>2. CASE UNCHANGED vars
  BY <1>2 DEF vars, IInv, TypeOK, CountInv, StageInv, FlagInv, CaughtInv, Counted
<1> QED
  BY <1>1, <1>2, DeinitKeeps DEF Next

LEMMA InvAlways == Spec => []IInv
BY InitInv, InvStep, PTL DEF Spec

\* Every variable keeps its type; exec_count never falls below 0.
THEOREM ExecTypeCorrect == Spec => []TypeOK
<1>1. IInv => TypeOK
  BY DEF IInv
<1> QED
  BY <1>1, InvAlways, PTL

\* The calls that aiot_mqtt_deinit does not wait for are those it caught
\* between their test of exec_enabled and _core_mqtt_exec_inc.
THEOREM OnlyCaughtAlways == Spec => []OnlyCaught
<1>1. IInv => OnlyCaught
  BY DEF IInv, CaughtInv, OnlyCaught
<1> QED
  BY <1>1, InvAlways, PTL

(***************************************************************************)
(* Every way to a handle that is being freed: a function without a guard,  *)
(* a publish before its guard, the rest of a call after                    *)
(* _core_mqtt_exec_dec, a call made when the handle is gone, or a thread   *)
(* that was caught between the test of exec_enabled and the count.         *)
(***************************************************************************)
THEOREM StrayWays ==
  Spec => [](\A t \in Callers :
               Stray(t) => pc[t] \in {"alias", "check", "tail", "bare"} \/ t \in caught)
<1>1. IInv => \A t \in Callers :
                Stray(t) => pc[t] \in {"alias", "check", "tail", "bare"} \/ t \in caught
  BY DEF IInv, FlagInv, CaughtInv, Stray, Counted
<1> QED
  BY <1>1, InvAlways, PTL

(***************************************************************************)
(* After a subscription that failed for lack of memory, and after an error *)
(* of aiot_mqtt_deinit, the handle can never be freed: a lost count keeps  *)
(* every later test from passing, and the flag is never set again.         *)
(***************************************************************************)
THEOREM StaysDoomedAlways == Spec => StaysDoomed
<1>1. IInv /\ [Next]_vars => [Doomed => Doomed']_vars
  <2> SUFFICES ASSUME IInv, Next, Doomed
               PROVE  Doomed'
    OBVIOUS
  <2>1. ASSUME NEW t \in Callers, Continue(t) \/ \E a \in Functions : Call(t, a)
        PROVE  Doomed'
    <3>1. leaks > 0 => leaks' > 0
      BY <2>1, LeaksAssumption
         DEF IInv, TypeOK, Continue, PubAlias, BareCall, CheckEnabled, CheckDisabled, ExecInc,
             ExecDec, Tail, SubFails, StrayStep, Call
    <3> QED
      BY <2>1, <3>1, CallerFrame DEF Doomed
  <2>2. CASE Deinit
    <3>1. leaks > 0 => exec_count # 0
      BY CountedFinite, LeaksAssumption DEF IInv, TypeOK, CountInv
    <3>2. result # "none" => deinit_pc = "idle" /\ ~exec_enabled
      BY DEF IInv, FlagInv
    <3> QED
      BY <2>2, <3>1, <3>2 DEF Doomed, Deinit, DeinitEnter, DeinitDisable, DeinitQuiet,
         DeinitTimeout, DeinitFails, DeinitTest, DeinitTear, DeinitUnlock, DeinitFree, PastTest
  <2> QED
    BY <2>1, <2>2 DEF Next
<1> QED
  BY <1>1, InvAlways, PTL DEF Spec, StaysDoomed

-----------------------------------------------------------------------------
(***************************************************************************)
(* What an application has to do for aiot_mqtt_deinit to be safe: it makes *)
(* no call while aiot_mqtt_deinit runs, and whatever is under way when it  *)
(* enters is already counted and does not touch the handle after that.     *)
(* The demo stops its loops, sleeps for a second, calls aiot_mqtt_deinit   *)
(* and joins its threads only then: it is orderly if that second is enough *)
(* for their last calls.                                                   *)
(***************************************************************************)
Waitable(t) == pc[t] # "idle" => pc[t] = "body" /\ api[t] \notin TailAfterDec

Orderly ==
  /\ deinit_pc = "idle" /\ deinit_pc' # "idle" => \A t \in Callers : Waitable(t)
  /\ \A t \in Callers : pc[t] = "idle" /\ pc'[t] # "idle" => deinit_pc = "idle"

\* While aiot_mqtt_deinit runs only such calls are left, and none after its test.
OrderlyInv ==
  /\ deinit_pc # "idle" => \A t \in Callers : Waitable(t)
  /\ deinit_pc \in PastTest \/ handle # "whole" => \A t \in Callers : pc[t] = "idle"

\* A thread on its way out of the gate stays on it.
LEMMA OrderlyCaller ==
  ASSUME TypeOK, StageInv, OrderlyInv, Orderly, NEW t \in Callers,
         Continue(t) \/ \E a \in Functions : Call(t, a)
  PROVE  OrderlyInv'
<1> USE DEF TypeOK
<1>1. /\ UNCHANGED <<handle, deinit_pc>>
      /\ \A u \in Callers \ {t} : pc'[u] = pc[u]
  BY CallerFrame
<1>2. \A u \in Callers \ {t} : api'[u] = api[u]
  BY DEF Continue, PubAlias, BareCall, CheckEnabled, CheckDisabled, ExecInc, ExecDec, Tail,
         SubFails, StrayStep, Call
<1>3. CASE deinit_pc \in PastTest \/ handle # "whole"
  <2>1. pc[t] = "idle"
    BY <1>3 DEF OrderlyInv
  <2>2. ~Continue(t)
    BY <2>1 DEF Continue, PubAlias, BareCall, CheckEnabled, CheckDisabled, ExecInc, ExecDec, Tail,
                SubFails, StrayStep, Stray
  <2>3. PICK a \in Functions : Call(t, a)
    BY <2>2
  <2>4. pc'[t] # "idle" /\ handle # "freed"
    BY <2>3 DEF Call, Goto, Entry
  <2>5. deinit_pc # "idle"
    BY <1>3, <2>4 DEF StageInv, PastTest
  <2> QED
    BY <2>1, <2>4, <2>5 DEF Orderly
<1>4. CASE handle = "whole" /\ deinit_pc \notin PastTest /\ deinit_pc # "idle"
  <2>1. Waitable(t)
    BY <1>4 DEF OrderlyInv
  <2>2. pc[t] = "idle" => pc'[t] = "idle"
    BY <1>4 DEF Orderly
  <2>3. pc[t] = "body" /\ api[t] \notin TailAfterDec => pc'[t] = "idle"
    <3> SUFFICES ASSUME pc[t] = "body", api[t] \notin TailAfterDec
                 PROVE  Goto(t, "idle")
      BY DEF Goto
    <3> QED
      BY <1>4 DEF Continue, PubAlias, BareCall, CheckEnabled, CheckDisabled, ExecInc, ExecDec, Tail,
                  SubFails, StrayStep, Stray, Call
  <2>4. Waitable(t)'
    BY <2>1, <2>2, <2>3 DEF Waitable
  <2>5. \A u \in Callers : Waitable(u)'
    BY <1>1, <1>2, <1>4, <2>4 DEF OrderlyInv, Waitable
  <2> QED
    BY <1>1, <1>4, <2>5 DEF OrderlyInv
<1>5. CASE handle = "whole" /\ deinit_pc = "idle"
  BY <1>1, <1>5 DEF OrderlyInv, PastTest
<1> QED
  BY <1>3, <1>4, <1>5

\* The last test is passed when none of the calls it waits for is left.
LEMMA OrderlyDeinit ==
  ASSUME IInv, OrderlyInv, Orderly, Deinit
  PROVE  OrderlyInv'
<1>1. UNCHANGED <<pc, api>>
  BY DEF Deinit, DeinitEnter, DeinitDisable, DeinitQuiet, DeinitTimeout, DeinitFails, DeinitTest,
         DeinitTear, DeinitUnlock, DeinitFree
<1>2. deinit_pc' # "idle" => \A t \in Callers : Waitable(t)
  BY DEF Orderly, OrderlyInv
<1>3. ASSUME deinit_pc' \in PastTest \/ handle' # "whole", NEW t \in Callers
      PROVE  pc[t] = "idle"
  <2>1. CASE deinit_pc \in PastTest \/ handle # "whole"
    BY <2>1 DEF OrderlyInv
  <2>2. CASE deinit_pc \notin PastTest /\ handle = "whole"
    <3>1. DeinitTest
      BY <1>3, <2>2 DEF Deinit, DeinitEnter, DeinitDisable, DeinitQuiet, DeinitTimeout,
                        DeinitFails, DeinitTear, DeinitUnlock, DeinitFree, PastTest
    <3>2. Cardinality(Counted) = 0
      BY <3>1, CountedFinite, LeaksAssumption DEF IInv, TypeOK, CountInv, DeinitTest
    <3>3. Counted = {}
      BY <3>2, CountedFinite, FS_EmptySet
    <3>4. Waitable(t) /\ t \notin Counted
      BY <3>1, <3>3 DEF DeinitTest, OrderlyInv
    <3> QED
      BY <3>4 DEF Waitable, Counted
  <2> QED
    BY <2>1, <2>2
<1> QED
  BY <1>1, <1>2, <1>3 DEF OrderlyInv, Waitable

LEMMA OrderlyStep ==
  IInv /\ OrderlyInv /\ [Next]_vars /\ [Orderly]_vars => OrderlyInv'
<1> SUFFICES ASSUME IInv, OrderlyInv, [Next]_vars, [Orderly]_vars
             PROVE  OrderlyInv'
  OBVIOUS
<1>1. CASE UNCHANGED vars
  BY <1>1 DEF vars, OrderlyInv, Waitable
<1>2. CASE ~UNCHANGED vars
  <2>1. Orderly /\ Next /\ TypeOK /\ StageInv
    BY <1>2 DEF IInv
  <2> QED
    BY <2>1, OrderlyCaller, OrderlyDeinit DEF Next
<1> QED
  BY <1>1, <1>2

(***************************************************************************)
(* For an application that keeps to Orderly, no function works on a handle *)
(* that is being freed, the unguarded ones included, for any number of     *)
(* threads and any failures: it is enough to wait for the counted calls.   *)
(***************************************************************************)
THEOREM NoUseAfterFreeOrderly ==
  Spec /\ [][Orderly]_vars => [](NoUseAfterFree /\ \A t \in Callers : ~Stray(t))
<1>1. Init => OrderlyInv
  BY DEF Init, OrderlyInv, PastTest
<1>2. OrderlyInv => NoUseAfterFree /\ \A t \in Callers : ~Stray(t)
  BY DEF OrderlyInv, NoUseAfterFree, Stray
<1>3. Spec /\ [][Orderly]_vars => []OrderlyInv
  BY <1>1, InvAlways, OrderlyStep, PTL DEF Spec
<1> QED
  BY <1>2, <1>3, PTL
=============================================================================
