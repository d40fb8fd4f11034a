----------------------------- MODULE Connection ------------------------------
(***************************************************************************)
(* One connection (connection.rs, callback.rs): the connect future or the  *)
(* attached handle, the connection callback on its msquic worker with its  *)
(* panic recovery, the two accept frontends, the shutdown waiter, the      *)
(* opener's close and the drop of the last handle.                         *)
(*                                                                         *)
(* A step is one locked section, one channel operation or one native call. *)
(* Calls on the Connection are serialized (&mut self) and so are its       *)
(* callbacks; openers and streams live on other threads.  msquic is        *)
(* external: `nat` and `handle` keep the little of it the code depends on. *)
(***************************************************************************)
EXTENDS Terminals, Sequences, FiniteSets

CONSTANTS
    Streams,    \* bound: the streams the peer may start
    Faults,     \* the kinds of fault of which one may happen
    Remotes,    \* the ways the connection may end other than locally
    MaxUses,    \* bound: of a cloned opener and a shutdown waiter, how many are used
    NoStream

ASSUME ConnectionAssumption ==
    /\ NoStream \notin Streams
    /\ Faults \subseteq {"panic", "id"}
    /\ Remotes \subseteq {"peer", "idle", "transport"}
    /\ MaxUses \in Nat

Dirs == {"uni", "bidi"}

VARIABLES
    fut,        \* the connect future, then the Connection it became
    result,     \* what connect returned
    connected,  \* the connect one-shot: its sender, and what was sent
    shutdown,   \* the shutdown one-shot, likewise
    waiter,     \* its receiver: held by the Connection, waiting, done
    senders,    \* the ConnCtxSender.uni / .bidi that are still Some
    incoming,   \* the queue of accepted streams of each direction
    receiver,   \* the ConnCtxReceiver is alive
    conn,       \* the shared connection slot
    cb,         \* the running connection callback
    poisoned,   \* ConnCtxSender.poisoned
    acc,        \* where the running accept poll is
    parked,     \* the directions whose accept poll returned Pending
    waker,      \* their wakers: none, armed, fired
    errs,       \* what each accept frontend last failed with
    opener,     \* a StreamOpener clone on another thread
    streams,    \* every peer stream: who has it, how often it was closed
    handle,     \* the native handle: none, open, closing (ConnectionClose), closed
    nat,        \* msquic's connection, and a shutdown asked of it
    fault,      \* the fault that happened, or "none"
    told        \* connection causes h3 was told by any frontend

futVars == <<fut, result, connected>>
waitVars == <<shutdown, waiter>>
chanVars == <<senders, incoming, receiver>>
cbVars == <<cb, poisoned, fault>>
accVars == <<acc, parked, waker, errs>>
natVars == <<handle, nat>>
vars == <<futVars, waitVars, chanVars, conn, cbVars, accVars, opener, streams, natVars, told>>

Status(why) == IF why = "idle" THEN "CONNECTION_IDLE" ELSE "OTHER"
NoneYet == "none"
Reasonless == "connection closed without a terminal reason"

Quiet == [todo |-> <<>>, stream |-> NoStream, dir |-> "bidi", owned |-> FALSE, recovering |-> FALSE]
NoPoll == [pc |-> "idle", dir |-> "bidi"]

\* conn_ctx_channel, and one of the two ways to a Connection: connect or attach.
Init ==
    /\ \/ fut = "reserved" /\ handle = "none" /\ nat = [conn |-> "idle", asked |-> FALSE, up |-> FALSE]
       \/ fut = "ready" /\ handle = "open" /\ nat = [conn |-> "handshake", asked |-> FALSE, up |-> FALSE]
    /\ result = NoneYet
    /\ connected = [tx |-> TRUE, val |-> NoneYet]
    /\ shutdown = [tx |-> TRUE, sent |-> FALSE]
    /\ waiter = "held"
    /\ senders = Dirs
    /\ incoming = [d \in Dirs |-> <<>>]
    /\ receiver = TRUE
    /\ conn = EmptySlot
    /\ cb = Quiet
    /\ poisoned = FALSE
    /\ acc = NoPoll
    /\ parked = {}
    /\ waker = [d \in Dirs |-> "none"]
    /\ errs = [d \in Dirs |-> NoneYet]
    /\ opener = "none"
    /\ streams = [s \in Streams |-> [at |-> "none", closes |-> 0]]
    /\ fault = "none"
    /\ told = {}

-----------------------------------------------------------------------------
(* Streams and handles: every close is a native call.                      *)

\* One StreamClose, whoever makes it.
CloseStream(st, s) == [st EXCEPT ![s] = [at |-> "closed", closes |-> @.closes + 1]]

\* Dropping the receiver drops, and so closes, what is still queued.
CloseQueued(st) ==
    [s \in Streams |-> IF st[s].at \in Dirs THEN [at |-> "closed", closes |-> st[s].closes + 1]
                                            ELSE st[s]]

\* Mutant of DropReceiver: queued streams are forgotten, not dropped.
DropReceiverForgets ==
    /\ receiver' = FALSE
    /\ UNCHANGED <<incoming, streams>>

DropReceiver ==
    /\ receiver' = FALSE
    /\ incoming' = [d \in Dirs |-> <<>>]
    /\ streams' = CloseQueued(streams)

-----------------------------------------------------------------------------
(* connect, and the life of the Connection.                                *)

\* The first poll: open the handle, then start it; either may fail.  Until the
\* start no callback can run, so the poll is one step.
ConnectPoll ==
    /\ fut = "reserved"
    /\ \/ fut' = "failed" /\ result' = "OPEN" /\ receiver' = FALSE
          /\ UNCHANGED natVars
       \/ fut' = "unwinding" /\ result' = "START" /\ handle' = "closing"
          /\ UNCHANGED <<nat, receiver>>
       \/ fut' = "waiting" /\ handle' = "open" /\ nat' = [nat EXCEPT !.conn = "handshake"]
          /\ UNCHANGED <<result, receiver>>
    /\ UNCHANGED <<connected, waitVars, senders, incoming, conn, cbVars, accVars, opener, streams, told>>

\* The one-shot is answered; an outcome that is not a success unwinds the future.
ConnectAnswered(outcome) ==
    /\ fut = "waiting"
    /\ connected.val # NoneYet \/ ~connected.tx
    /\ result' = outcome
    /\ fut' = IF outcome = "Ok" THEN "ready" ELSE "unwinding"
    /\ handle' = IF outcome = "Ok" THEN handle ELSE "closing"
    /\ UNCHANGED <<connected, waitVars, chanVars, conn, cbVars, accVars, opener, streams, nat, told>>

\* Mutant of AwaitConnected: whatever the one-shot carries, connect succeeds.
AwaitConnectedAny == ConnectAnswered("Ok")

\* The await: a dropped sender reads as ABORTED.
AwaitConnected == ConnectAnswered(IF connected.val = NoneYet THEN "ABORTED" ELSE connected.val)

\* The caller gives up on connect.
DropConnect ==
    /\ \/ fut = "reserved" /\ fut' = "dropped" /\ receiver' = FALSE /\ UNCHANGED handle
       \/ fut = "waiting" /\ fut' = "unwinding" /\ handle' = "closing" /\ UNCHANGED receiver
    /\ UNCHANGED <<result, connected, waitVars, senders, incoming, conn, cbVars, accVars, opener,
                   streams, nat, told>>

\* The future's locals go in reverse order: ConnectionClose first, then the receiver.
Unwound ==
    /\ fut = "unwinding"
    /\ handle = "closed"
    /\ fut' = IF result = NoneYet THEN "dropped" ELSE "failed"
    /\ DropReceiver
    /\ UNCHANGED <<result, connected, waitVars, senders, conn, cbVars, accVars, opener, natVars, told>>

\* What the application uses besides connecting and accepting.
Used == (IF opener = "none" THEN {} ELSE {"opener"})
          \cup (IF waiter \in {"waiting", "done"} THEN {"waiter"} ELSE {})
MayUse(what) == Cardinality(Used \cup {what}) <= MaxUses

\* Connection::opener, or the opener's Clone: one more Arc<ConnHandle>.
CloneOpener ==
    /\ fut = "ready"
    /\ MayUse("opener")
    /\ opener = "none"
    /\ opener' = "live"
    /\ UNCHANGED <<futVars, waitVars, chanVars, conn, cbVars, accVars, streams, natVars, told>>

\* The Connection goes: its receiver, then its Arcs; the last Arc closes the handle.
DropConnection ==
    /\ fut = "ready"
    /\ acc = NoPoll
    /\ fut' = "dropped"
    /\ parked' = {}
    /\ DropReceiver
    /\ waiter' = IF waiter = "held" THEN "gone" ELSE waiter
    /\ handle' = IF opener \in {"none", "gone"} THEN "closing" ELSE handle
    /\ UNCHANGED <<result, connected, shutdown, senders, conn, cbVars, acc, waker, errs, opener, nat, told>>

DropOpener ==
    /\ opener = "live"
    /\ opener' = "gone"
    /\ handle' = IF fut = "dropped" THEN "closing" ELSE handle
    /\ UNCHANGED <<futVars, waitVars, chanVars, conn, cbVars, accVars, streams, nat, told>>

\* opener.close: record LocalClose, then ask msquic to shut the connection down.
OpenerClose ==
    \/ /\ opener = "live"
       /\ opener' = "closing"
       /\ conn' = RecordConnTerminal(conn, "LocalClose")
       /\ UNCHANGED <<futVars, waitVars, chanVars, cbVars, accVars, streams, natVars, told>>
    \/ /\ opener = "closing"
       /\ opener' = "live"
       /\ nat' = [nat EXCEPT !.asked = TRUE]
       /\ UNCHANGED <<futVars, waitVars, chanVars, conn, cbVars, accVars, streams, handle, told>>

\* get_shutdown_waiter: the first call takes the receiver, later ones get one
\* that is already resolved.
GetShutdownWaiter ==
    /\ fut = "ready"
    /\ MayUse("waiter")
    /\ waiter' = IF waiter = "held" THEN "waiting" ELSE waiter
    /\ UNCHANGED <<futVars, shutdown, chanVars, conn, cbVars, accVars, opener, streams, natVars, told>>

\* wait: a sent value and a dropped sender both end it.
WaitDone ==
    /\ waiter = "waiting"
    /\ shutdown.sent \/ ~shutdown.tx
    /\ waiter' = "done"
    /\ UNCHANGED <<futVars, shutdown, chanVars, conn, cbVars, accVars, opener, streams, natVars, told>>

-----------------------------------------------------------------------------
(* The accept frontends.                                                   *)

AcceptFails(d, c) ==
    /\ errs' = [errs EXCEPT ![d] = c]
    /\ parked' = parked \ {d}
    /\ acc' = NoPoll

\* The head of an accept poll: report an urgent terminal, or go on to the channel.
BeginAccept(d, urgent) ==
    /\ fut = "ready"
    /\ acc = NoPoll
    /\ IF urgent
       THEN /\ conn' = ObserveConnWinner(conn)
            /\ told' = told \cup {conn.terminal}
            /\ AcceptFails(d, conn.terminal)
       ELSE /\ acc' = [pc |-> "channel", dir |-> d]
            /\ UNCHANGED <<conn, told, errs, parked>>
    /\ UNCHANGED <<futVars, waitVars, chanVars, cbVars, waker, opener, streams, natVars>>

\* Mutant of PollAccept: any terminal overtakes the queued streams.
PollAcceptEager(d) == BeginAccept(d, conn.terminal # NoCause)

\* fail_fast_terminal: an internal terminal goes ahead of the queued streams.
PollAccept(d) == BeginAccept(d, conn.terminal = "Internal")

\* The channel: a stream for h3, the end of the channel, or an armed waker.
PollIncoming ==
    /\ acc.pc = "channel"
    /\ LET d == acc.dir
           q == incoming[d]
       IN  \/ /\ q # <<>>
              /\ incoming' = [incoming EXCEPT ![d] = Tail(q)]
              /\ streams' = [streams EXCEPT ![Head(q)].at = "h3"]
              /\ acc' = NoPoll
              /\ parked' = parked \ {d}
              /\ UNCHANGED waker
           \/ /\ q = <<>> /\ d \in senders
              /\ waker' = [waker EXCEPT ![d] = "armed"]
              /\ parked' = parked \cup {d}
              /\ acc' = NoPoll
              /\ UNCHANGED <<incoming, streams>>
           \/ /\ q = <<>> /\ d \notin senders
              /\ acc' = [acc EXCEPT !.pc = "observe"]
              /\ UNCHANGED <<incoming, streams, parked, waker>>
    /\ UNCHANGED <<futVars, waitVars, senders, receiver, conn, cbVars, errs, opener, natVars, told>>

\* observe_terminal: commit on delivery; an empty slot is not frozen.
ObserveTerminal ==
    /\ acc.pc = "observe"
    /\ conn' = CommitConn(conn)
    /\ told' = IF conn.terminal = NoCause THEN told ELSE told \cup {conn.terminal}
    /\ AcceptFails(acc.dir, OrElse(conn.terminal, Reasonless))
    /\ UNCHANGED <<futVars, waitVars, chanVars, cbVars, waker, opener, streams, natVars>>

\* h3 drops a stream it accepted; its Drop closes it.
DropAccepted(s) ==
    /\ streams[s].at = "h3"
    /\ streams' = CloseStream(streams, s)
    /\ UNCHANGED <<futVars, waitVars, chanVars, conn, cbVars, accVars, opener, natVars, told>>

AcceptStep == PollIncoming \/ ObserveTerminal

-----------------------------------------------------------------------------
(* connection_callback: what each event does, in order.  The last effect   *)
(* of every callback is the status it returns to msquic.                   *)

Effect(op, x) == [op |-> op, x |-> x]
Return(status) == Effect("return", status)

\* Dropping both incoming-stream senders, uni before bidi.
WakeAcceptors == <<Effect("close", "uni"), Effect("close", "bidi")>>

OnConnected == <<Effect("resolve", "Ok"), Return("Ok")>>

\* ShutdownInitiatedByPeer (no lossless status) and ByTransport (the real one).
OnShutdownInitiated(why) ==
    <<Effect("record", IF why = "peer" THEN "PeerApplication" ELSE ClassifyTransport(Status(why))),
      Effect("resolve", IF why = "peer" THEN "ABORTED" ELSE Status(why)),
      Return("Ok")>>

\* accept_stream_id fails: nothing is owned yet, msquic closes what it offered.
AcceptStreamId == <<Effect("record", "Internal")>> \o WakeAcceptors \o <<Return("Err")>>

OnPeerStreamStarted(validId) ==
    IF validId THEN <<Effect("own", ""), Effect("deliver", ""), Return("Ok")>>
               ELSE AcceptStreamId

\* Mutant of OnShutdownComplete: the accept channels close before a cause is on record.
OnShutdownCompleteLate ==
    <<Effect("resolve", "ABORTED")>> \o WakeAcceptors
        \o <<Effect("record", "LocalClose"), Effect("notify", ""), Return("Ok")>>

OnShutdownComplete ==
    <<Effect("record", "LocalClose"), Effect("resolve", "ABORTED")>> \o WakeAcceptors
        \o <<Effect("notify", ""), Return("Ok")>>

\* Mutant of ConnectionRecover: the ownership token is not consulted.
ConnectionRecoverErr(owned) ==
    <<Effect("force", ""), Effect("record", "Internal"), Effect("resolve", "INTERNAL")>>
        \o WakeAcceptors \o <<Effect("notify", ""), Effect("poison", ""), Return("Err")>>

\* Mutant of ConnectionRecover: nobody waiting is woken.
ConnectionRecoverSilent(owned) ==
    <<Effect("force", ""), Effect("record", "Internal"), Effect("poison", ""),
      Return(IF owned THEN "Ok" ELSE "Err")>>

\* connection_recover: a stream whose Drop already closed it must not be rejected too.
ConnectionRecover(owned) ==
    <<Effect("force", ""), Effect("record", "Internal"), Effect("resolve", "INTERNAL")>>
        \o WakeAcceptors
        \o <<Effect("notify", ""), Effect("poison", ""), Return(IF owned THEN "Ok" ELSE "Err")>>

\* conn_poison_disp: only the teardown event is taken as handled.
ConnPoisonDisp(ev) == <<Return(IF ev = "ShutdownComplete" THEN "Ok" ELSE "Err")>>

\* guard_callback: a poisoned context runs no body.
Indicate(ev, effects, s, d) ==
    /\ cb.todo = <<>>
    /\ cb' = [Quiet EXCEPT !.todo = IF poisoned THEN ConnPoisonDisp(ev) ELSE effects,
                           !.stream = s, !.dir = d]

Faulty(kind) ==
    /\ kind \in Faults
    /\ fault = "none"
    /\ fault' = kind

Wake(d) == IF waker[d] = "armed" THEN [waker EXCEPT ![d] = "fired"] ELSE waker

\* An effect on the slot, a one-shot or a sender; a taken sender is a no-op.
CallbackStep ==
    /\ cb.todo # <<>>
    /\ LET e == Head(cb.todo)
       IN  /\ e.op \notin {"own", "deliver", "return"}
           /\ cb' = [cb EXCEPT !.todo = Tail(@)]
           /\ conn' = IF e.op = "record" THEN RecordConnTerminal(conn, e.x) ELSE conn
           /\ connected' = IF e.op = "resolve" /\ connected.tx THEN [tx |-> FALSE, val |-> e.x]
                                                               ELSE connected
           /\ senders' = IF e.op = "close" THEN senders \ {e.x} ELSE senders
           /\ waker' = IF e.op = "close" /\ e.x \in senders THEN Wake(e.x) ELSE waker
           /\ shutdown' = IF e.op = "notify" /\ shutdown.tx THEN [tx |-> FALSE, sent |-> TRUE]
                                                            ELSE shutdown
           /\ nat' = IF e.op = "force" THEN [nat EXCEPT !.asked = TRUE] ELSE nat
           /\ poisoned' = (poisoned \/ e.op = "poison")
    /\ UNCHANGED <<fut, result, waiter, incoming, receiver, fault, acc, parked, errs, opener,
                   streams, handle, told>>

\* Stream::from_raw and the ownership token.
OwnStream ==
    /\ cb.todo # <<>>
    /\ Head(cb.todo).op = "own"
    /\ cb' = [cb EXCEPT !.todo = Tail(@), !.owned = TRUE]
    /\ UNCHANGED <<futVars, waitVars, chanVars, conn, poisoned, fault, accVars, opener, streams,
                   natVars, told>>

\* attach and unbounded_send: without a sender or a receiver the stream drops here.
Deliver(afterDrop) ==
    /\ cb.todo # <<>>
    /\ Head(cb.todo).op = "deliver"
    /\ LET d == cb.dir
       IN  IF d \in senders /\ receiver
           THEN /\ incoming' = [incoming EXCEPT ![d] = Append(@, cb.stream)]
                /\ streams' = [streams EXCEPT ![cb.stream].at = d]
                /\ waker' = Wake(d)
                /\ cb' = [cb EXCEPT !.todo = Tail(@)]
           ELSE /\ streams' = CloseStream(streams, cb.stream)
                /\ cb' = [cb EXCEPT !.todo = afterDrop]
                /\ UNCHANGED <<incoming, waker>>
    /\ UNCHANGED <<futVars, waitVars, senders, receiver, conn, poisoned, fault, acc, parked, errs,
                   opener, natVars, told>>

\* A delivery failure is never returned: the Drop already closed the stream.
DeliverStream == Deliver(Tail(cb.todo))

\* msquic reads the status: an error on a stream it offered makes it close the stream.
CallbackReturns ==
    /\ cb.todo # <<>>
    /\ Head(cb.todo).op = "return"
    /\ streams' = IF Head(cb.todo).x = "Err" /\ cb.stream # NoStream
                  THEN CloseStream(streams, cb.stream) ELSE streams
    /\ cb' = Quiet
    /\ UNCHANGED <<futVars, waitVars, chanVars, conn, poisoned, fault, accVars, opener, natVars, told>>

\* The body panics part-way: an owned stream drops, guard_callback runs recover.
CallbackPanic ==
    /\ cb.todo # <<>>
    /\ Head(cb.todo).op # "return"
    /\ ~cb.recovering
    /\ Faulty("panic")
    /\ streams' = IF cb.owned THEN CloseStream(streams, cb.stream) ELSE streams
    /\ cb' = [cb EXCEPT !.todo = ConnectionRecover(cb.owned), !.recovering = TRUE]
    /\ UNCHANGED <<futVars, waitVars, chanVars, conn, poisoned, accVars, opener, natVars, told>>

CallbackRuns == CallbackStep \/ OwnStream \/ DeliverStream \/ CallbackReturns

-----------------------------------------------------------------------------
(* msquic.                                                                 *)

NativeUnchanged ==
    UNCHANGED <<futVars, waitVars, chanVars, conn, poisoned, accVars, opener, told>>

HandshakeDone ==
    /\ nat.conn = "handshake" /\ handle = "open"
    /\ Indicate("Connected", OnConnected, NoStream, "bidi")
    /\ nat' = [nat EXCEPT !.conn = "connected", !.up = TRUE]
    /\ UNCHANGED <<fault, streams, handle>>
    /\ NativeUnchanged

\* The peer, a timeout or the transport ends the connection.
ShutdownInitiated(why) ==
    /\ nat.conn \in {"handshake", "connected"} /\ handle = "open"
    /\ Indicate("ShutdownInitiated", OnShutdownInitiated(why), NoStream, "bidi")
    /\ nat' = [nat EXCEPT !.conn = "ending"]
    /\ UNCHANGED <<fault, streams, handle>>
    /\ NativeUnchanged

\* The peer starts a stream; its id may be refused once.
PeerStreamStarted(s, d) ==
    /\ nat.conn = "connected" /\ handle = "open"
    /\ streams[s].at = "none"
    /\ \/ Indicate("PeerStreamStarted", OnPeerStreamStarted(TRUE), s, d) /\ UNCHANGED fault
       \/ ~poisoned /\ Faulty("id") /\ Indicate("PeerStreamStarted", OnPeerStreamStarted(FALSE), s, d)
    /\ streams' = [streams EXCEPT ![s].at = "callback"]
    /\ UNCHANGED natVars
    /\ NativeUnchanged

\* msquic carries out a shutdown asked of it, or a Registration::shutdown.
LocalShutdown ==
    /\ nat.conn \in {"handshake", "connected"} /\ handle = "open"
    /\ cb.todo = <<>>
    /\ nat' = [nat EXCEPT !.conn = "ending"]
    /\ UNCHANGED <<cb, fault, streams, handle>>
    /\ NativeUnchanged

\* The end of the connection, also on the way of a ConnectionClose.
ShutdownCompletes ==
    /\ nat.conn = "ending" \/ (handle = "closing" /\ nat.conn \in {"handshake", "connected"})
    /\ handle \in {"open", "closing"}
    /\ Indicate("ShutdownComplete", OnShutdownComplete, NoStream, "bidi")
    /\ nat' = [nat EXCEPT !.conn = "complete"]
    /\ UNCHANGED <<fault, streams, handle>>
    /\ NativeUnchanged

\* ConnectionClose returns: no callback runs any more and the context is freed.
HandleClosed ==
    /\ handle = "closing"
    /\ nat.conn \in {"idle", "complete"}
    /\ cb.todo = <<>>
    /\ handle' = "closed"
    /\ connected' = [connected EXCEPT !.tx = FALSE]
    /\ shutdown' = [shutdown EXCEPT !.tx = FALSE]
    /\ senders' = {}
    /\ UNCHANGED <<fut, result, waiter, incoming, receiver, conn, cbVars, accVars, opener, streams,
                   nat, told>>

\* Another frontend of the connection reports its end to h3.
OtherFrontend ==
    /\ conn.terminal # NoCause
    /\ conn' = CommitConn(conn)
    /\ told' = told \cup {conn.terminal}
    /\ UNCHANGED <<futVars, waitVars, chanVars, cbVars, accVars, opener, streams, natVars>>

-----------------------------------------------------------------------------
NativeStep ==
    \/ HandshakeDone \/ LocalShutdown \/ ShutdownCompletes \/ HandleClosed
    \/ \E why \in Remotes : ShutdownInitiated(why)
    \/ \E s \in Streams, d \in Dirs : PeerStreamStarted(s, d)

Lifetime ==
    \/ ConnectPoll \/ AwaitConnected \/ DropConnect \/ Unwound
    \/ CloneOpener \/ DropConnection \/ DropOpener \/ OpenerClose
    \/ GetShutdownWaiter \/ WaitDone
    \/ \E s \in Streams : DropAccepted(s)

Next ==
    \/ Lifetime \/ AcceptStep \/ \E d \in Dirs : PollAccept(d)
    \/ CallbackRuns \/ CallbackPanic \/ NativeStep \/ OtherFrontend

Spec == Init /\ [][Next]_vars

\* h3 polls again once the task waiting on that direction was woken.
Repoll(d) == d \in parked /\ waker[d] = "fired" /\ PollAccept(d)

\* What msquic owes a connection: the handshake ends one way or the other, and a
\* shutdown asked for, initiated or forced by a close completes.
NativeProgress ==
    \/ HandshakeDone
    \/ nat.asked /\ LocalShutdown
    \/ ShutdownCompletes \/ HandleClosed

FairSpec ==
    /\ Spec
    /\ WF_vars(CallbackRuns) /\ WF_vars(AcceptStep) /\ WF_vars(NativeProgress)
    /\ WF_vars(AwaitConnected) /\ WF_vars(WaitDone) /\ WF_vars(Unwound)
    /\ \A d \in Dirs : SF_vars(Repoll(d))

-----------------------------------------------------------------------------
\* A peer stream is closed at most once, whether by its Drop or by msquic's
\* rejection, and once its callback has returned it is either closed or in exactly
\* one place: one queue, once, or h3 (PeerStreamStarted, connection_recover).
PeerStreamClosedOnce ==
    \A s \in Streams :
        /\ cb.todo = <<>> => streams[s].at # "callback"
        /\ streams[s].closes = (IF streams[s].at = "closed" THEN 1 ELSE 0)
        /\ \A d \in Dirs :
              Cardinality({i \in DOMAIN incoming[d] : incoming[d][i] = s})
                = (IF streams[s].at = d THEN 1 ELSE 0)

\* connect succeeds only on a connection msquic reported Connected, and an error
\* it returns from the one-shot already has its cause on record.
ConnectTellsTruth ==
    /\ result = "Ok" => nat.up
    /\ connected.val \notin {NoneYet, "Ok"} => conn.terminal # NoCause

\* A future that failed or was dropped has closed its handle and left no stream
\* in a queue nobody will read (connect_with_config's unwinding).
NothingLeftBehind ==
    fut \in {"failed", "dropped"} /\ opener \in {"none", "gone"} =>
        /\ handle \in {"none", "closing", "closed"}
        /\ ~receiver /\ \A s \in Streams : streams[s].at \notin Dirs

\* No acceptor is told that the connection closed without a reason: the cause is
\* on record before the senders go, in every arm and in recovery.
NoReasonlessAccept == \A d \in Dirs : errs[d] # Reasonless

\* Every stream accepted before an ordinary end of the connection reaches h3
\* before the error does: only an internal terminal overtakes the queue.
QueueBeforeTerminal ==
    \A d \in Dirs : errs[d] \notin {NoneYet, "Internal"} => incoming[d] = <<>>

\* Once an acceptor reported the adapter's own failure, no acceptor hands out
\* another stream (fail_fast_terminal).
NothingAfterInternal ==
    (\E d \in Dirs : errs[d] = "Internal") =>
        \A s \in Streams : streams'[s].at = "h3" => streams[s].at = "h3"

\* The shutdown waiter resolves only after msquic reported the end of the
\* connection, or after a contained panic forced it.
WaiterAfterShutdown ==
    waiter = "done" => nat.conn = "complete" \/ (nat.asked /\ fault = "panic")

\* What connect and the shutdown waiter report has happened, and why it did is known.
AnswersTrue == ConnectTellsTruth /\ WaiterAfterShutdown

\* The order in which an acceptor hands out streams and the end of the connection:
\* an ordinary end after every queued stream, the adapter's own failure before.
AcceptOrder == [][QueueBeforeTerminal' /\ NothingAfterInternal]_vars

Ending == nat.conn \in {"ending", "complete"} \/ nat.asked

SomeoneWaits ==
    \/ fut = "waiting"
    \/ Ending /\ (parked # {} \/ waiter = "waiting")

\* Nobody waits for ever: connect is answered however the handshake ends, and once
\* the connection is ending, by a panic in its callback too, every parked acceptor
\* and whoever waits for its shutdown is released, until at some point nobody is left.
WaitersReleased == SomeoneWaits ~> ~SomeoneWaits

\* The shared slot as the connection's callback and frontends use it keeps ConnCause's promise.
Cause == INSTANCE ConnCause WITH cause <- conn.terminal
CauseSpec == Cause!Spec
=============================================================================
