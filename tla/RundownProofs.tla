---------------------------- MODULE RundownProofs -----------------------------
(***************************************************************************)
(* Proofs about the registration rundown, for any finite set of handles    *)
(* and any set of waiters.                                                 *)
(***************************************************************************)
EXTENDS Rundown, FiniteSetTheorems, TLAPS

\* The invariants of the run, together with the life cycle of a handle and what a
\* waiter knows between register and re-check, are inductive.
IInv == TypeOK /\ CountsGuards /\ LifeCycle /\ Registered /\ NoLostWakeup

-----------------------------------------------------------------------------
\* A registration has finitely many handles, so its guards can be counted.
LEMMA GuardsFinite ==
    ASSUME TypeOK
    PROVE  IsFiniteSet(guards) /\ Cardinality(guards) \in Nat
<1>1. IsFiniteSet(Conns \cup Incoming)
  BY RundownAssumption, FS_Union
<1>2. IsFiniteSet(Handles)
  BY <1>1, FS_AddElement DEF Handles
<1>3. IsFiniteSet(guards)
  BY <1>2, FS_Subset DEF TypeOK
<1> QED
  BY <1>3, FS_CardinalityType

\* While a guard lives the count is positive.
LEMMA GuardIsCounted ==
    ASSUME TypeOK, CountsGuards, NEW h \in guards
    PROVE  active > 0
<1>1. Cardinality(guards) # 0
  BY GuardsFinite, FS_EmptySet
<1> QED
  BY <1>1, GuardsFinite DEF CountsGuards

\* Reserving adds one to the count (RundownGuard::new).
LEMMA CountUp ==
    ASSUME TypeOK, CountsGuards, NEW h \in Handles, h \notin guards, NewGuard(h)
    PROVE  active' \in Nat /\ active' >= active /\ CountsGuards'
<1>1. Cardinality(guards') = Cardinality(guards) + 1
  BY GuardsFinite, FS_AddElement DEF NewGuard
<1> QED
  BY <1>1, GuardsFinite DEF CountsGuards, NewGuard, TypeOK

\* Dropping a guard takes one off, and never goes below zero (RundownGuard::drop).
LEMMA CountDown ==
    ASSUME TypeOK, CountsGuards, NEW h \in guards,
           active' = active - 1, guards' = guards \ {h}
    PROVE  active' \in Nat /\ CountsGuards'
<1>1. Cardinality(guards') = Cardinality(guards) - 1
  BY GuardsFinite, FS_RemoveElement
<1>2. active > 0
  BY GuardIsCounted
<1> QED
  BY <1>1, <1>2, GuardsFinite DEF CountsGuards, TypeOK

-----------------------------------------------------------------------------
\* The empty registration satisfies the invariant.
LEMMA InitIInv == Init => IInv
<1> SUFFICES ASSUME Init PROVE IInv
  OBVIOUS
<1>1. TypeOK
  BY DEF Init, TypeOK, HandleStates, WaiterStates
<1>2. CountsGuards
  BY FS_EmptySet DEF Init, CountsGuards
<1>3. LifeCycle
  BY DEF Init, LifeCycle, GuardStates, InCallback, Handles
<1>4. Registered /\ NoLostWakeup
  BY DEF Init, Registered, NoLostWakeup
<1> QED
  BY <1>1, <1>2, <1>3, <1>4 DEF IInv

\* Every step of a handle or a waiter keeps the invariant.
LEMMA NextIInv == IInv /\ [Next]_vars => IInv'
<1> SUFFICES ASSUME IInv, [Next]_vars PROVE IInv'
  OBVIOUS
<1> USE DEF IInv
<1>1. ASSUME NEW h \in Handles, Reserve(h) PROVE IInv'
  <2>1. h \notin guards
    BY <1>1 DEF Reserve, LifeCycle, GuardStates
  <2>2. active' \in Nat /\ active' >= active /\ CountsGuards'
    BY <1>1, <2>1, CountUp DEF Reserve
  <2>3. TypeOK'
    BY <1>1, <2>2 DEF Reserve, Goto, NewGuard, TypeOK, HandleStates
  <2>4. LifeCycle'
    BY <1>1 DEF Reserve, Goto, NewGuard, LifeCycle, GuardStates, InCallback, TypeOK, Handles
  <2>5. Registered'
    BY <1>1 DEF Reserve, Goto, NewGuard, Registered, TypeOK
  <2>6. NoLostWakeup'
    BY <1>1, <2>2 DEF Reserve, Goto, NewGuard, NoLostWakeup, StaleLoad, TypeOK
  <2> QED
    BY <2>2, <2>3, <2>4, <2>5, <2>6
<1>2. ASSUME NEW h \in Handles, OpenHandle(h) PROVE IInv'
  <2>2. CountsGuards'
    BY <1>2 DEF OpenHandle, CountsGuards
  <2>3. TypeOK'
    BY <1>2 DEF OpenHandle, Goto, TypeOK, HandleStates
  <2>4. LifeCycle'
    BY <1>2 DEF OpenHandle, Goto, LifeCycle, GuardStates, InCallback, TypeOK, Handles
  <2>5. Registered'
    BY <1>2 DEF OpenHandle, Goto, Registered, TypeOK
  <2>6. NoLostWakeup'
    BY <1>2 DEF OpenHandle, Goto, NoLostWakeup, StaleLoad, TypeOK
  <2> QED
    BY <2>2, <2>3, <2>4, <2>5, <2>6
<1>3. ASSUME NEW h \in Handles, Abandon(h) PROVE IInv'
  <2>2. CountsGuards'
    BY <1>3 DEF Abandon, CountsGuards
  <2>3. TypeOK'
    BY <1>3 DEF Abandon, Goto, TypeOK, HandleStates
  <2>4. LifeCycle'
    BY <1>3 DEF Abandon, Goto, LifeCycle, GuardStates, InCallback, TypeOK, Handles
  <2>5. Registered'
    BY <1>3 DEF Abandon, Goto, Registered, TypeOK
  <2>6. NoLostWakeup'
    BY <1>3 DEF Abandon, Goto, NoLostWakeup, StaleLoad, TypeOK
  <2> QED
    BY <2>2, <2>3, <2>4, <2>5, <2>6
<1>4. ASSUME NEW h \in Handles, Offer(h) PROVE IInv'
  <2>2. CountsGuards'
    BY <1>4 DEF Offer, CountsGuards
  <2>3. TypeOK'
    BY <1>4 DEF Offer, Goto, TypeOK, HandleStates
  <2>4. LifeCycle'
    BY <1>4 DEF Offer, Goto, LifeCycle, GuardStates, InCallback, TypeOK, Handles
  <2>5. Registered'
    BY <1>4 DEF Offer, Goto, Registered, TypeOK
  <2>6. NoLostWakeup'
    BY <1>4 DEF Offer, Goto, NoLostWakeup, StaleLoad, TypeOK
  <2> QED
    BY <2>2, <2>3, <2>4, <2>5, <2>6
<1>5. ASSUME NEW h \in Handles, NewConnection(h) PROVE IInv'
  <2>1. h \notin guards
    BY <1>5 DEF NewConnection, LifeCycle, GuardStates
  <2>2. active' \in Nat /\ active' >= active /\ CountsGuards'
    BY <1>5, <2>1, CountUp DEF NewConnection, TypeOK, CountsGuards
  <2>3. TypeOK'
    BY <1>5, <2>2 DEF NewConnection, Goto, NewGuard, TypeOK, HandleStates
  <2>4. LifeCycle'
    BY <1>5 DEF NewConnection, Goto, NewGuard, LifeCycle, GuardStates, InCallback, TypeOK, Handles
  <2>5. Registered'
    BY <1>5 DEF NewConnection, Goto, NewGuard, Registered, TypeOK
  <2>6. NoLostWakeup'
    BY <1>5, <2>2 DEF NewConnection, Goto, NewGuard, NoLostWakeup, StaleLoad, TypeOK
  <2> QED
    BY <2>2, <2>3, <2>4, <2>5, <2>6
<1>6. ASSUME NEW h \in Handles, SetConfiguration(h) PROVE IInv'
  <2>2. CountsGuards'
    BY <1>6 DEF SetConfiguration, CountsGuards
  <2>3. TypeOK'
    BY <1>6 DEF SetConfiguration, Goto, TypeOK, HandleStates
  <2>4. LifeCycle'
    BY <1>6 DEF SetConfiguration, Goto, LifeCycle, GuardStates, InCallback, TypeOK, Handles
  <2>5. Registered'
    BY <1>6 DEF SetConfiguration, Goto, Registered, TypeOK
  <2>6. NoLostWakeup'
    BY <1>6 DEF SetConfiguration, Goto, NoLostWakeup, StaleLoad, TypeOK
  <2> QED
    BY <2>2, <2>3, <2>4, <2>5, <2>6
<1>7. ASSUME NEW h \in Handles, Rejected(h) PROVE IInv'
  <2>2. CountsGuards'
    BY <1>7 DEF Rejected, CountsGuards
  <2>3. TypeOK'
    BY <1>7 DEF Rejected, Goto, TypeOK, HandleStates
  <2>4. LifeCycle'
    BY <1>7 DEF Rejected, Goto, LifeCycle, GuardStates, InCallback, TypeOK, Handles
  <2>5. Registered'
    BY <1>7 DEF Rejected, Goto, Registered, TypeOK
  <2>6. NoLostWakeup'
    BY <1>7 DEF Rejected, Goto, NoLostWakeup, StaleLoad, TypeOK
  <2> QED
    BY <2>2, <2>3, <2>4, <2>5, <2>6
<1>8. ASSUME NEW h \in Handles, CloseHandle(h) PROVE IInv'
  <2>2. CountsGuards'
    BY <1>8 DEF CloseHandle, CountsGuards
  <2>3. TypeOK'
    BY <1>8 DEF CloseHandle, Goto, TypeOK, HandleStates
  <2>4. LifeCycle'
    BY <1>8 DEF CloseHandle, Goto, LifeCycle, GuardStates, InCallback, TypeOK, Handles
  <2>5. Registered'
    BY <1>8 DEF CloseHandle, Goto, Registered, TypeOK
  <2>6. NoLostWakeup'
    BY <1>8 DEF CloseHandle, Goto, NoLostWakeup, StaleLoad, TypeOK
  <2> QED
    BY <2>2, <2>3, <2>4, <2>5, <2>6
<1>9. ASSUME NEW h \in Handles, Decrement(h) PROVE IInv'
  <2>1. h \in guards
    BY <1>9 DEF Decrement, LifeCycle, GuardStates
  <2>2. active' \in Nat /\ CountsGuards'
    BY <1>9, <2>1, CountDown DEF Decrement
  <2>3. TypeOK'
    BY <1>9, <2>2 DEF Decrement, Goto, AfterDrop, TypeOK, HandleStates
  <2>4. LifeCycle'
    BY <1>9 DEF Decrement, Goto, AfterDrop, LifeCycle, GuardStates, InCallback, TypeOK, Handles
  <2>5. Registered'
    BY <1>9 DEF Decrement, Goto, AfterDrop, Registered, TypeOK
  <2>6. NoLostWakeup'
    BY <1>9, <2>2 DEF Decrement, Goto, AfterDrop, NoLostWakeup, StaleLoad, TypeOK
  <2> QED
    BY <2>2, <2>3, <2>4, <2>5, <2>6
<1>10. ASSUME NEW h \in Handles, Drain(h) PROVE IInv'
  <2>2. CountsGuards'
    BY <1>10 DEF Drain, CountsGuards
  <2>3. TypeOK'
    BY <1>10 DEF Drain, Goto, TypeOK, HandleStates
  <2>4. LifeCycle'
    BY <1>10 DEF Drain, Goto, LifeCycle, GuardStates, InCallback, TypeOK, Handles
  <2>5. Registered'
    BY <1>10 DEF Drain, Goto, Registered, TypeOK, LifeCycle
  <2>6. NoLostWakeup'
    BY <1>10 DEF Drain, Goto, NoLostWakeup, StaleLoad, TypeOK, LifeCycle
  <2> QED
    BY <2>2, <2>3, <2>4, <2>5, <2>6
<1>11. ASSUME NEW h \in Handles, WakeAll(h) PROVE IInv'
  <2>2. CountsGuards'
    BY <1>11 DEF WakeAll, CountsGuards
  <2>3. TypeOK'
    BY <1>11 DEF WakeAll, Goto, AfterDrop, TypeOK, HandleStates
  <2>4. LifeCycle'
    BY <1>11 DEF WakeAll, Goto, AfterDrop, LifeCycle, GuardStates, InCallback, TypeOK, Handles
  <2>5. Registered'
    BY <1>11 DEF WakeAll, Goto, AfterDrop, Registered, TypeOK, LifeCycle
  <2>6. NoLostWakeup'
    BY <1>11 DEF WakeAll, Goto, AfterDrop, NoLostWakeup, StaleLoad, TypeOK, LifeCycle
  <2> QED
    BY <2>2, <2>3, <2>4, <2>5, <2>6
<1>12. ASSUME NEW w \in Waiters, Poll(w) PROVE IInv'
  <2>1. TypeOK'
    BY <1>12 DEF Poll, WaiterGoto, hVars, TypeOK, WaiterStates
  <2>2. CountsGuards' /\ LifeCycle'
    BY <1>12 DEF Poll, WaiterGoto, hVars, CountsGuards, LifeCycle, InCallback
  <2>3. Registered'
    BY <1>12 DEF Poll, WaiterGoto, hVars, Registered, TypeOK
  <2>4. NoLostWakeup'
    BY <1>12 DEF Poll, WaiterGoto, hVars, NoLostWakeup, StaleLoad, Registered, TypeOK
  <2> QED
    BY <2>1, <2>2, <2>3, <2>4
<1>13. ASSUME NEW w \in Waiters, Register(w) PROVE IInv'
  <2>1. TypeOK'
    BY <1>13 DEF Register, WaiterGoto, hVars, TypeOK, WaiterStates
  <2>2. CountsGuards' /\ LifeCycle'
    BY <1>13 DEF Register, WaiterGoto, hVars, CountsGuards, LifeCycle, InCallback
  <2>3. Registered'
    BY <1>13 DEF Register, WaiterGoto, hVars, Registered, TypeOK
  <2>4. NoLostWakeup'
    BY <1>13 DEF Register, WaiterGoto, hVars, NoLostWakeup, StaleLoad, Registered, TypeOK
  <2> QED
    BY <2>1, <2>2, <2>3, <2>4
<1>14. ASSUME NEW w \in Waiters, Recheck(w) PROVE IInv'
  <2>1. TypeOK'
    BY <1>14 DEF Recheck, WaiterGoto, hVars, TypeOK, WaiterStates
  <2>2. CountsGuards' /\ LifeCycle'
    BY <1>14 DEF Recheck, WaiterGoto, hVars, CountsGuards, LifeCycle, InCallback
  <2>3. Registered'
    BY <1>14 DEF Recheck, WaiterGoto, hVars, Registered, TypeOK
  <2>4. NoLostWakeup'
    BY <1>14 DEF Recheck, WaiterGoto, hVars, NoLostWakeup, StaleLoad, Registered, TypeOK
  <2> QED
    BY <2>1, <2>2, <2>3, <2>4
<1>15. ASSUME NEW w \in Waiters, Deregister(w) PROVE IInv'
  <2>1. TypeOK'
    BY <1>15 DEF Deregister, WaiterGoto, hVars, TypeOK, WaiterStates
  <2>2. CountsGuards' /\ LifeCycle'
    BY <1>15 DEF Deregister, WaiterGoto, hVars, CountsGuards, LifeCycle, InCallback
  <2>3. Registered'
    BY <1>15 DEF Deregister, WaiterGoto, hVars, Registered, TypeOK
  <2>4. NoLostWakeup'
    BY <1>15 DEF Deregister, WaiterGoto, hVars, NoLostWakeup, StaleLoad, Registered, TypeOK
  <2> QED
    BY <2>1, <2>2, <2>3, <2>4
<1>16. ASSUME NEW w \in Waiters, DropWaiter(w) PROVE IInv'
  <2>1. TypeOK'
    BY <1>16 DEF DropWaiter, WaiterGoto, hVars, TypeOK, WaiterStates
  <2>2. CountsGuards' /\ LifeCycle'
    BY <1>16 DEF DropWaiter, WaiterGoto, hVars, CountsGuards, LifeCycle, InCallback
  <2>3. Registered'
    BY <1>16 DEF DropWaiter, WaiterGoto, hVars, Registered, TypeOK
  <2>4. NoLostWakeup'
    BY <1>16 DEF DropWaiter, WaiterGoto, hVars, NoLostWakeup, StaleLoad, Registered, TypeOK
  <2> QED
    BY <2>1, <2>2, <2>3, <2>4
<1>17. CASE UNCHANGED vars
  BY <1>17 DEF vars, TypeOK, CountsGuards, LifeCycle, InCallback, Registered, NoLostWakeup, StaleLoad
<1> QED
  BY <1>1, <1>2, <1>3, <1>4, <1>5, <1>6, <1>7, <1>8, <1>9, <1>10, <1>11, <1>12, <1>13, <1>14, <1>15, <1>16, <1>17 DEF Next, HandleStep, WaiterStep

\* Hence it holds of every reachable state.
LEMMA Invariance == Spec => []IInv
BY InitIInv, NextIInv, PTL DEF Spec

-----------------------------------------------------------------------------
\* Every variable of the rundown keeps its shape; in particular the atomic count
\* never wraps below zero.
THEOREM TypeCorrect == Spec => []TypeOK
BY Invariance, PTL DEF IInv

\* The count is the number of living guards, for any number of handles
\* (RundownGuard::new and its Drop are balanced on every path).
THEOREM CountCorrect == Spec => []CountsGuards
BY Invariance, PTL DEF IInv

\* No wait_idle future that parked is ever forgotten, for any number of futures,
\* handles and overlapping guard drops (register, then re-check; drain, then wake).
THEOREM NoLostWakeupAlways == Spec => []NoLostWakeup
BY Invariance, PTL DEF IInv

\* The life cycle alone says which guard covers what is open.
LEMMA LifeCycleGuards ==
    ASSUME TypeOK, LifeCycle
    PROVE  OpenIsGuarded
<1> SUFFICES ASSUME NEW h \in open
            PROVE  h \in guards \/ (InCallback(h) /\ h \in Incoming /\ Listener \in guards)
  BY DEF OpenIsGuarded
<1>1. h \in Handles /\ Listener \in Handles
  BY DEF TypeOK, Handles
<1>2. CASE pc[h] = "open"
  BY <1>1, <1>2 DEF LifeCycle, GuardStates
<1>3. CASE pc[h] # "open"
  BY <1>1, <1>3 DEF LifeCycle, GuardStates, InCallback
<1> QED
  BY <1>2, <1>3

\* Whatever msquic holds open in the registration is covered by a living guard, its
\* own or the listener's.
THEOREM OpenIsGuardedAlways == Spec => []OpenIsGuarded
<1>1. IInv => OpenIsGuarded
  BY LifeCycleGuards DEF IInv
<1> QED
  BY <1>1, Invariance, PTL

\* A step that resolves wait_idle is taken in a state where no handle is open: a
\* zero count means no guard, and no guard means nothing open.
THEOREM IdleIsSoundAlways == Spec => IdleIsSound
<1> DEFINE Resolves == \E w \in Waiters : wpc[w] # "deregister" /\ wpc'[w] = "deregister"
<1>1. ASSUME IInv, [Next]_vars, Resolves PROVE active = 0
  <2>1. ASSUME NEW h \in Handles, HandleStep(h) PROVE wpc' = wpc
    BY <2>1 DEF HandleStep, Reserve, OpenHandle, Abandon, Offer, NewConnection,
                SetConfiguration, Rejected, CloseHandle, Decrement, Drain, WakeAll
  <2>2. ASSUME NEW w \in Waiters, Poll(w) \/ WaiterStep(w) \/ DropWaiter(w) PROVE active = 0
    BY <1>1, <2>2 DEF Poll, WaiterStep, Register, Recheck, Deregister, DropWaiter,
                      WaiterGoto, IInv, TypeOK
  <2> QED
    BY <1>1, <2>1, <2>2 DEF Next, vars
<1>2. ASSUME IInv, active = 0 PROVE open = {}
  <2>1. guards = {}
    BY <1>2, GuardIsCounted DEF IInv
  <2> QED
    BY <1>2, <2>1, LifeCycleGuards DEF IInv, OpenIsGuarded
<1>3. IInv /\ [Next]_vars =>
        [\A w \in Waiters : wpc[w] # "deregister" /\ wpc'[w] = "deregister" => open = {}]_vars
  BY <1>1, <1>2
<1> QED
  BY <1>3, Invariance, PTL DEF Spec, IdleIsSound
=============================================================================
