------------------------------ MODULE Listener -------------------------------
(***************************************************************************)
(* The listener (listener.rs): msquic runs its NewConnection callbacks in  *)
(* parallel, one invocation per offered connection, each under             *)
(* guard_callback with an ownership token of its own; accept and shutdown  *)
(* wait on the channel and the one-shot the callbacks feed.                *)
(*                                                                         *)
(* A step is one atomic access, one locked section, one channel operation  *)
(* or one native call.  The rundown guards are module Rundown's.           *)
(***************************************************************************)
EXTENDS Naturals, Sequences, FiniteSets

CONSTANTS
    Conns,      \* bound: the connections msquic may offer
    Callers,    \* the tasks that may call shutdown
    MaxPanics   \* bound: callback invocations that panic

Stop == "StopComplete"

ASSUME ListenerAssumption == MaxPanics \in Nat /\ Stop \notin Conns

Invocations == Conns \cup {Stop}

VARIABLES
    inv,        \* every callback invocation: where it is, its ownership token
    conns,      \* every offered connection: who has it, how often it was closed
    queue,      \* the accept channel: connections, and Stop for None
    waker,      \* the accepting task's waker: none, armed, fired
    parked,     \* an accept is waiting
    accepts,    \* what accept returned last, and whether a connection came after None
    shutdown,   \* the shutdown one-shot: its sender, its value, its receiver's owner
    callers,    \* where every shutdown call is
    poisoned,   \* ListenerCtxSender.poisoned
    native,     \* msquic's listener: open, stopping, stopped, closed
    life,       \* the Listener: live, closing (in its drop), gone
    panics      \* invocations that panicked

cbVars == <<inv, poisoned, panics>>
accVars == <<waker, parked, accepts>>
shVars == <<shutdown, callers>>
natVars == <<native, life>>
vars == <<cbVars, conns, queue, accVars, shVars, natVars>>

\* listener_ctx_channel, a listener opened and started.
Init ==
    /\ inv = [i \in Invocations |-> [pc |-> "none", owned |-> FALSE]]
    /\ conns = [c \in Conns |-> [at |-> "none", closes |-> 0]]
    /\ queue = <<>>
    /\ waker = "none"
    /\ parked = FALSE
    /\ accepts = [ended |-> FALSE, late |-> FALSE]
    /\ shutdown = [tx |-> TRUE, sent |-> FALSE, rx |-> TRUE]
    /\ callers = [k \in Callers |-> "idle"]
    /\ poisoned = FALSE
    /\ native = "open"
    /\ life = "live"
    /\ panics = 0

GoTo(i, pc) == inv' = [inv EXCEPT ![i].pc = pc]
CloseConn(c) == [conns EXCEPT ![c] = [at |-> "closed", closes |-> @.closes + 1]]
\* The channel's send wakes the task that registered.
Wake == IF waker = "armed" THEN "fired" ELSE waker

Received == life # "gone"

\* unbounded_send, which fails once the receiver is gone.
Enqueue(x) ==
    /\ queue' = IF Received THEN Append(queue, x) ELSE queue
    /\ waker' = IF Received THEN Wake ELSE waker

-----------------------------------------------------------------------------
(* NewConnection.                                                          *)

\* guard_callback's relaxed load of the flag, which may be stale: a poisoned
\* listener refuses, and msquic closes what it offered.
NewConnection(c) ==
    /\ native = "open"
    /\ inv[c].pc = "none"
    /\ \/ /\ GoTo(c, "configure")
          /\ conns' = [conns EXCEPT ![c].at = "callback"]
       \/ /\ poisoned
          /\ GoTo(c, "returned")
          /\ conns' = CloseConn(c)
    /\ UNCHANGED <<poisoned, panics, queue, accVars, shVars, natVars>>

\* set_configuration on the borrowed handle, and decide_new_connection: a failure
\* returns its status and msquic closes; success takes ownership.
SetConfiguration(c) ==
    /\ inv[c].pc = "configure"
    /\ \/ inv' = [inv EXCEPT ![c] = [pc |-> "deliver", owned |-> TRUE]] /\ UNCHANGED conns
       \/ GoTo(c, "returned") /\ conns' = CloseConn(c)
    /\ UNCHANGED <<poisoned, panics, queue, accVars, shVars, natVars>>

\* attach and unbounded_send: a connection nobody receives drops, and Ok is returned.
DeliverConn(c) ==
    /\ inv[c].pc = "deliver"
    /\ GoTo(c, "returned")
    /\ Enqueue(c)
    /\ conns' = IF Received THEN [conns EXCEPT ![c].at = "queue"] ELSE CloseConn(c)
    /\ UNCHANGED <<poisoned, panics, parked, accepts, shVars, natVars>>

-----------------------------------------------------------------------------
(* StopComplete, and the recovery from a panic: the same two wake-ups.     *)

\* StopComplete of a stopped or closed listener; a poisoned context ignores it.
StopComplete ==
    /\ native = "stopping"
    /\ \A i \in Invocations : inv[i].pc \in {"none", "returned"}
    /\ inv[Stop].pc = "none"
    /\ GoTo(Stop, IF poisoned THEN "returned" ELSE "none sent")
    /\ UNCHANGED <<conns, poisoned, panics, queue, accVars, shVars, natVars>>

\* None on the accept channel: the end of connections.
SendNone(i) ==
    /\ inv[i].pc = "none sent"
    /\ GoTo(i, "release")
    /\ Enqueue(Stop)
    /\ UNCHANGED <<conns, poisoned, panics, parked, accepts, shVars, natVars>>

\* The shutdown sender is taken under its lock and resolved, once.
ReleaseShutdown(i) ==
    /\ inv[i].pc = "release"
    /\ GoTo(i, IF i = Stop THEN "returned" ELSE "poison")
    /\ shutdown' = IF shutdown.tx THEN [shutdown EXCEPT !.tx = FALSE, !.sent = TRUE] ELSE shutdown
    /\ UNCHANGED <<conns, poisoned, panics, queue, accVars, callers, natVars>>

\* A NewConnection body panics: what it owned is dropped by the unwinding.
\* recovery is where listener_recover begins.
PanicThen(c, recovery) ==
    /\ panics < MaxPanics
    /\ inv[c].pc \in {"configure", "deliver"}
    /\ panics' = panics + 1
    /\ GoTo(c, recovery)
    /\ conns' = IF inv[c].owned THEN CloseConn(c) ELSE conns
    /\ UNCHANGED <<poisoned, queue, accVars, shVars, natVars>>

\* Mutant of CallbackPanic: recovery poisons the listener without waking anybody.
CallbackPanicSilent(c) == PanicThen(c, "poison")

CallbackPanic(c) == PanicThen(c, "none sent")

\* What recovery returns to msquic: Ok closes nothing, an error makes it close.
RecoverReturning(c, status) ==
    /\ inv[c].pc = "poison"
    /\ poisoned' = TRUE
    /\ GoTo(c, "returned")
    /\ conns' = IF status = "Err" THEN CloseConn(c) ELSE conns
    /\ UNCHANGED <<panics, queue, accVars, shVars, natVars>>

\* Mutant of ListenerRecover: one ownership bit is shared by the parallel invocations.
ListenerRecoverShared(c) ==
    RecoverReturning(c, IF \E d \in Conns : inv[d].owned THEN "Ok" ELSE "Err")

\* The invocation's own token decides: msquic must not close what its drop closed.
ListenerRecover(c) == RecoverReturning(c, IF inv[c].owned THEN "Ok" ELSE "Err")

CallbackStep(c) ==
    SetConfiguration(c) \/ DeliverConn(c) \/ SendNone(c) \/ ReleaseShutdown(c) \/ ListenerRecover(c)
StopStep == SendNone(Stop) \/ ReleaseShutdown(Stop)

-----------------------------------------------------------------------------
(* accept, shutdown and drop.                                              *)

\* poll_accept: None on the channel and a closed channel both read as None.
PollAccept ==
    /\ life = "live"
    /\ \/ /\ queue # <<>>
          /\ queue' = Tail(queue)
          /\ parked' = FALSE
          /\ IF Head(queue) = Stop
             THEN accepts' = [accepts EXCEPT !.ended = TRUE] /\ UNCHANGED conns
             ELSE /\ accepts' = [accepts EXCEPT !.late = @ \/ accepts.ended]
                  /\ conns' = [conns EXCEPT ![Head(queue)].at = "app"]
          /\ UNCHANGED waker
       \/ /\ queue = <<>>
          /\ waker' = "armed"
          /\ parked' = TRUE
          /\ UNCHANGED <<queue, accepts, conns>>
    /\ UNCHANGED <<cbVars, shVars, natVars>>

DropAccepted(c) ==
    /\ conns[c].at = "app"
    /\ conns' = CloseConn(c)
    /\ UNCHANGED <<cbVars, queue, accVars, shVars, natVars>>

\* shutdown: whoever gets the receiver stops the listener, everybody else returns.
TakeShutdown(k) ==
    /\ life = "live"
    /\ callers[k] = "idle"
    /\ callers' = [callers EXCEPT ![k] = IF shutdown.rx THEN "stop" ELSE "no-op"]
    /\ shutdown' = [shutdown EXCEPT !.rx = FALSE]
    /\ UNCHANGED <<cbVars, conns, queue, accVars, natVars>>

\* Mutant of StopListener: the accept channel is ended here, not by StopComplete.
StopListenerEnds(k) ==
    /\ callers[k] = "stop"
    /\ callers' = [callers EXCEPT ![k] = "await"]
    /\ native' = IF native = "open" THEN "stopping" ELSE native
    /\ Enqueue(Stop)
    /\ UNCHANGED <<cbVars, conns, parked, accepts, shutdown, life>>

StopListener(k) ==
    /\ callers[k] = "stop"
    /\ callers' = [callers EXCEPT ![k] = "await"]
    /\ native' = IF native = "open" THEN "stopping" ELSE native
    /\ UNCHANGED <<cbVars, conns, queue, accVars, shutdown, life>>

AwaitStop(k) ==
    /\ callers[k] = "await"
    /\ shutdown.sent \/ ~shutdown.tx
    /\ callers' = [callers EXCEPT ![k] = "done"]
    /\ UNCHANGED <<cbVars, conns, queue, accVars, shutdown, natVars>>

\* The future of a shutdown is dropped.
CancelShutdown(k) ==
    /\ callers[k] = "await"
    /\ callers' = [callers EXCEPT ![k] = "cancelled"]
    /\ UNCHANGED <<cbVars, conns, queue, accVars, shutdown, natVars>>

\* The drop begins with ListenerClose, which stops a listener still open and waits;
\* no call borrows the Listener any more.
DropListener ==
    /\ life = "live"
    /\ \A k \in Callers : callers[k] \notin {"stop", "await"}
    /\ life' = "closing"
    /\ native' = IF native = "open" THEN "stopping" ELSE native
    /\ parked' = FALSE
    /\ UNCHANGED <<cbVars, conns, queue, waker, accepts, shVars>>

\* Then the receiver goes, and with it every connection still queued.
DropReceiver ==
    /\ life = "closing"
    /\ native = "stopped"
    /\ life' = "gone"
    /\ queue' = <<>>
    /\ conns' = [c \in Conns |-> IF conns[c].at = "queue"
                               THEN [at |-> "closed", closes |-> conns[c].closes + 1] ELSE conns[c]]
    /\ UNCHANGED <<cbVars, accVars, shVars, native>>

\* StopComplete has returned: the listener is stopped.
Stopped ==
    /\ native = "stopping"
    /\ inv[Stop].pc = "returned"
    /\ native' = "stopped"
    /\ UNCHANGED <<cbVars, conns, queue, accVars, shVars, life>>

-----------------------------------------------------------------------------
ShutdownCall(k) == StopListener(k) \/ AwaitStop(k)

Next ==
    \/ \E c \in Conns : NewConnection(c) \/ CallbackStep(c) \/ CallbackPanic(c) \/ DropAccepted(c)
    \/ StopComplete \/ StopStep \/ Stopped
    \/ PollAccept \/ DropListener \/ DropReceiver
    \/ \E k \in Callers : TakeShutdown(k) \/ ShutdownCall(k) \/ CancelShutdown(k)

Spec == Init /\ [][Next]_vars

\* A woken accept polls again.
Repoll == parked /\ waker = "fired" /\ PollAccept

\* Callbacks return, msquic stops what it was asked to stop, calls run on.
FairSpec ==
    /\ Spec
    /\ \A c \in Conns : WF_vars(CallbackStep(c))
    /\ WF_vars(StopComplete \/ StopStep \/ Stopped)
    /\ WF_vars(Repoll) /\ \A k \in Callers : WF_vars(ShutdownCall(k))

-----------------------------------------------------------------------------
\* However many callbacks run at once and whichever of them panics, an offered
\* connection is closed exactly once or is in exactly one place once its callback
\* returned: the queue, once, or the application (the per-invocation token); a
\* Listener that is gone left none behind.
ConnSettledOnce ==
    \A c \in Conns :
        /\ inv[c].pc = "returned" => conns[c].at # "callback"
        /\ conns[c].closes = (IF conns[c].at = "closed" THEN 1 ELSE 0)
        /\ Cardinality({i \in DOMAIN queue : queue[i] = c}) = (IF conns[c].at = "queue" THEN 1 ELSE 0)

\* None ends the accepting: no connection comes out of accept after it.
EndIsFinal == ~accepts.late

\* Without a panic, None is the end: StopComplete follows every delivery.
EndIsFinalWithoutPanic == panics = 0 => EndIsFinal

\* An accept waiting for its first None gets it, or a connection, once the
\* listener is stopped or a callback panicked.
AcceptReleased ==
    (parked /\ ~accepts.ended /\ (native # "open" \/ poisoned)) ~> ~parked

\* Every shutdown call returns.
ShutdownReturns == \A k \in Callers : callers[k] \in {"stop", "await"} ~> callers[k] \notin {"stop", "await"}

\* Stopping the listener, or a panic in one of its callbacks, leaves neither an
\* accept nor a shutdown call waiting.
WaitersReleased == AcceptReleased /\ ShutdownReturns
=============================================================================
