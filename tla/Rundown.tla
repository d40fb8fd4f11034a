------------------------------- MODULE Rundown -------------------------------
(***************************************************************************)
(* Registration rundown (registration.rs): the atomic count of guards, the *)
(* waker table of wait_idle, and the handles that hold a guard: outgoing   *)
(* connections (connection.rs), a listener and the connections it is       *)
(* offered (listener.rs).  A step is one atomic operation, one locked      *)
(* section or one native call.                                             *)
(*                                                                         *)
(* The orderings used by the code are Relaxed/Release/Acquire.  All        *)
(* updates of `active` are read-modify-writes; a plain load may also       *)
(* return an older, non-zero value until a lock orders it after the        *)
(* decrement (StaleLoad).                                                  *)
(***************************************************************************)
EXTENDS Naturals, FiniteSets

CONSTANTS
    Conns,     \* outgoing connections
    Listener,  \* the listener
    Incoming,  \* connections msquic offers the listener
    Waiters    \* WaitIdle futures

Handles == Conns \cup Incoming \cup {Listener}

ASSUME RundownAssumption ==
    /\ IsFiniteSet(Conns) /\ IsFiniteSet(Incoming)
    /\ Listener \notin Conns \cup Incoming
    /\ Conns \cap Incoming = {}

VARIABLES
    active,  \* RundownState.active
    map,     \* RundownState.waiters: the futures with a registered waker
    pc,      \* where each handle is in its life
    guards,  \* handles whose RundownGuard has not decremented yet
    open,    \* handles msquic holds open, each with a reference on the registration
    taken,   \* the wakers each guard drop drained and has still to wake
    wpc,     \* where each WaitIdle is
    woken    \* futures whose task was woken since their last poll

hVars == <<active, pc, guards, open>>
vars == <<active, map, pc, guards, open, taken, wpc, woken>>

HandleStates == {"none", "reserved", "open", "offered", "configuring",
                 "drop", "drain", "wake", "refused", "rejecting", "gone"}
WaiterStates == {"idle", "register", "recheck", "parked", "deregister", "ready", "dropped"}

TypeOK ==
    /\ active \in Nat
    /\ map \subseteq Waiters
    /\ pc \in [Handles -> HandleStates]
    /\ guards \subseteq Handles
    /\ open \subseteq Handles
    /\ taken \in [Handles -> SUBSET Waiters]
    /\ wpc \in [Waiters -> WaiterStates]
    /\ woken \subseteq Waiters

Init ==
    /\ active = 0
    /\ map = {}
    /\ pc = [h \in Handles |-> "none"]
    /\ guards = {}
    /\ open = {}
    /\ taken = [h \in Handles |-> {}]
    /\ wpc = [w \in Waiters |-> "idle"]
    /\ woken = {}

-----------------------------------------------------------------------------
(* Handles.                                                                *)

Goto(h, state) == pc' = [pc EXCEPT ![h] = state]

\* Mutant of NewGuard: the guard exists but was not counted.
NewGuardUncounted(h) ==
    /\ guards' = guards \cup {h}
    /\ UNCHANGED active

\* RundownGuard::new
NewGuard(h) ==
    /\ active' = active + 1
    /\ guards' = guards \cup {h}

\* Mutant of Reserve: the native open runs before the reservation.
ReserveLate(h) ==
    /\ pc[h] = "none"
    /\ h \notin Incoming
    /\ open' = open \cup {h}
    /\ Goto(h, "reserved")
    /\ UNCHANGED <<active, guards, map, taken, wpc, woken>>

\* connect / Listener::with_config reserve before they open.
Reserve(h) ==
    /\ pc[h] = "none"
    /\ h \notin Incoming
    /\ NewGuard(h)
    /\ Goto(h, "reserved")
    /\ UNCHANGED <<map, open, taken, wpc, woken>>

OpenHandle(h) ==
    /\ pc[h] = "reserved"
    /\ open' = open \cup {h}
    /\ Goto(h, "open")
    /\ UNCHANGED <<active, map, guards, taken, wpc, woken>>

\* The open fails, or the connect future is dropped before it ran.
Abandon(h) ==
    /\ pc[h] = "reserved"
    /\ Goto(h, "drop")
    /\ UNCHANGED <<active, map, guards, open, taken, wpc, woken>>

\* msquic opens a connection and calls the listener.
Offer(i) ==
    /\ i \in Incoming
    /\ pc[i] = "none"
    /\ pc[Listener] = "open"
    /\ open' = open \cup {i}
    /\ Goto(i, "offered")
    /\ UNCHANGED <<active, map, guards, taken, wpc, woken>>

\* NewConnection reserves first; a poisoned listener refuses without.
NewConnection(i) ==
    /\ pc[i] = "offered"
    /\ \/ NewGuard(i) /\ Goto(i, "configuring")
       \/ Goto(i, "refused") /\ UNCHANGED <<active, guards>>
    /\ UNCHANGED <<map, open, taken, wpc, woken>>

\* set_configuration: ownership is taken on success; on failure the un-invoked
\* closure drops its guard inside decide_new_connection.
SetConfiguration(i) ==
    /\ pc[i] = "configuring"
    /\ Goto(i, "open") \/ Goto(i, "drop")
    /\ UNCHANGED <<active, map, guards, open, taken, wpc, woken>>

\* The callback has returned Err and msquic closes the connection it kept.
Rejected(i) ==
    /\ pc[i] \in {"refused", "rejecting"}
    /\ open' = open \ {i}
    /\ Goto(i, "gone")
    /\ UNCHANGED <<active, map, guards, taken, wpc, woken>>

\* A listener callback for i is still running, or msquic is still rejecting i.
InCallback(i) == i \in open /\ pc[i] # "open"

\* The last owner drops the handle: the native close runs before the guard's
\* drop (field order in ConnHandle and Listener).  ListenerClose waits for the
\* listener's callbacks.
CloseHandle(h) ==
    /\ pc[h] = "open"
    /\ h = Listener => \A i \in Incoming : ~InCallback(i)
    /\ open' = open \ {h}
    /\ Goto(h, "drop")
    /\ UNCHANGED <<active, map, guards, taken, wpc, woken>>

\* What a handle has left to do once its guard is gone.
AfterDrop(h) == IF h \in open THEN "rejecting" ELSE "gone"

\* RundownGuard::drop: the decrement ...
Decrement(h) ==
    /\ pc[h] = "drop"
    /\ active' = active - 1
    /\ guards' = guards \ {h}
    /\ Goto(h, IF active = 1 THEN "drain" ELSE AfterDrop(h))
    /\ UNCHANGED <<map, open, taken, wpc, woken>>

\* Mutant of Drain: the table is emptied and its wakers dropped unwoken.
DrainForgets(h) ==
    /\ pc[h] = "drain"
    /\ map' = {}
    /\ Goto(h, "wake")
    /\ UNCHANGED <<active, guards, open, taken, wpc, woken>>

\* ... the one that reached zero drains the table under the lock ...
Drain(h) ==
    /\ pc[h] = "drain"
    /\ taken' = [taken EXCEPT ![h] = map]
    /\ map' = {}
    /\ Goto(h, "wake")
    /\ UNCHANGED <<active, guards, open, wpc, woken>>

\* ... and wakes after releasing it.
WakeAll(h) ==
    /\ pc[h] = "wake"
    /\ woken' = woken \cup taken[h]
    /\ taken' = [taken EXCEPT ![h] = {}]
    /\ Goto(h, AfterDrop(h))
    /\ UNCHANGED <<active, map, guards, open, wpc>>

-----------------------------------------------------------------------------
(* WaitIdle.                                                               *)

WaiterGoto(w, state) == wpc' = [wpc EXCEPT ![w] = state]

\* A load not ordered after the last decrement by the waiters lock may miss it.
StaleLoad == \E h \in Handles : pc[h] = "drain"

\* Mutant of Poll: a wake is taken for the answer.
PollTrustsWake(w) ==
    /\ wpc[w] \in {"idle", "parked"}
    /\ \/ (active = 0 \/ w \in woken) /\ WaiterGoto(w, "deregister")
       \/ WaiterGoto(w, "register")
    /\ woken' = woken \ {w}
    /\ UNCHANGED <<hVars, map, taken>>

\* The fast path of poll; with no lock before it the load may always be stale.
Poll(w) ==
    /\ wpc[w] \in {"idle", "parked"}
    /\ \/ active = 0 /\ WaiterGoto(w, "deregister")
       \/ WaiterGoto(w, "register")
    /\ woken' = woken \ {w}
    /\ UNCHANGED <<hVars, map, taken>>

\* Mutant of Register: parks at once, with no re-check of the count.
RegisterAndPark(w) ==
    /\ wpc[w] = "register"
    /\ map' = map \cup {w}
    /\ WaiterGoto(w, "parked")
    /\ UNCHANGED <<hVars, taken, woken>>

Register(w) ==
    /\ wpc[w] = "register"
    /\ map' = map \cup {w}
    /\ WaiterGoto(w, "recheck")
    /\ UNCHANGED <<hVars, taken, woken>>

Recheck(w) ==
    /\ wpc[w] = "recheck"
    /\ \/ active = 0 /\ WaiterGoto(w, "deregister")
       \/ (active > 0 \/ StaleLoad) /\ WaiterGoto(w, "parked")
    /\ UNCHANGED <<hVars, map, taken, woken>>

Deregister(w) ==
    /\ wpc[w] = "deregister"
    /\ map' = map \ {w}
    /\ WaiterGoto(w, "ready")
    /\ UNCHANGED <<hVars, taken, woken>>

\* The future is dropped unresolved.
DropWaiter(w) ==
    /\ wpc[w] \in {"idle", "parked"}
    /\ map' = map \ {w}
    /\ WaiterGoto(w, "dropped")
    /\ UNCHANGED <<hVars, taken, woken>>

-----------------------------------------------------------------------------
HandleStep(h) ==
    \/ Reserve(h) \/ OpenHandle(h) \/ Abandon(h)
    \/ Offer(h) \/ NewConnection(h) \/ SetConfiguration(h) \/ Rejected(h)
    \/ CloseHandle(h) \/ Decrement(h) \/ Drain(h) \/ WakeAll(h)

WaiterStep(w) == Register(w) \/ Recheck(w) \/ Deregister(w)

Next ==
    \/ \E h \in Handles : HandleStep(h)
    \/ \E w \in Waiters : Poll(w) \/ WaiterStep(w) \/ DropWaiter(w)

Spec == Init /\ [][Next]_vars

\* Handles are eventually dropped, a guard drop and a poll run to their end, and
\* an executor polls a new or a woken future.
FairSpec ==
    /\ Spec
    /\ \A h \in Handles :
        /\ WF_vars(OpenHandle(h) \/ NewConnection(h) \/ SetConfiguration(h) \/ Rejected(h))
        /\ SF_vars(CloseHandle(h))
        /\ WF_vars(Decrement(h) \/ Drain(h) \/ WakeAll(h))
    /\ \A w \in Waiters :
        /\ WF_vars(WaiterStep(w))
        /\ WF_vars((wpc[w] = "idle" \/ w \in woken) /\ Poll(w))

-----------------------------------------------------------------------------
\* The count is the number of living guards.
CountsGuards == active = Cardinality(guards)

GuardStates == {"reserved", "configuring", "open", "drop"}

\* Which handles own a guard, which are open in msquic, and that a connection in
\* a listener callback keeps its listener open.
LifeCycle ==
    /\ \A h \in Handles :
        /\ h \in guards <=> pc[h] \in GuardStates
        /\ pc[h] \in {"open", "offered", "configuring", "refused", "rejecting"} => h \in open
        /\ pc[h] \in {"none", "reserved", "gone"} => h \notin open
        /\ InCallback(h) => h \in Incoming /\ pc[Listener] = "open"
        /\ taken[h] # {} => pc[h] = "wake"
    /\ pc[Listener] \notin {"offered", "configuring", "refused", "rejecting"}

\* What msquic holds open is covered: a handle by its own guard, a connection in
\* a listener callback by the listener's (reserve before open, close before
\* decrement, ListenerClose waiting for callbacks).
OpenIsGuarded ==
    \A h \in open : h \in guards \/ (InCallback(h) /\ h \in Incoming /\ Listener \in guards)

\* A future that parked cannot be forgotten: its task was woken, or its waker is
\* in the table of a count that has still to reach zero or to drain it, or in the
\* hands of a guard drop about to wake it (register, then re-check).
NoLostWakeup ==
    \A w \in Waiters : wpc[w] = "parked" /\ w \notin woken =>
        \/ w \in map /\ (active > 0 \/ StaleLoad)
        \/ \E h \in Handles : w \in taken[h]

\* A future between register and re-check is in the table unless a drain has
\* already answered it.
Registered ==
    \A w \in Waiters : wpc[w] = "recheck" =>
        w \in map \/ w \in woken \/ \E h \in Handles : w \in taken[h]

\* wait_idle resolves on a load that found no msquic-h3 handle left open in the
\* registration.
IdleIsSound ==
    [][\A w \in Waiters :
         wpc[w] # "deregister" /\ wpc'[w] = "deregister" => open = {}]_vars

\* A handle whose guard has been decremented was closed first.
CloseBeforeDecrement ==
    \A h \in Handles : pc[h] \in {"drain", "wake", "rejecting", "gone"} => h \notin open

\* Every wait_idle future that is not dropped resolves once handles are dropped.
WaitersResolve == \A w \in Waiters : <>(wpc[w] \in {"ready", "dropped"})
=============================================================================
