------------------------------ MODULE SendHalf -------------------------------
(***************************************************************************)
(* The send half of one stream (stream.rs): the four h3 frontends driving  *)
(* the SendReducer, the send arms of stream_callback running on a msquic   *)
(* worker, and the slots and the event channel between the two threads.    *)
(*                                                                         *)
(* A step is one locked section, one channel operation or one native call; *)
(* the reducer itself touches only frontend-owned state and runs within    *)
(* the step that produced its input.  Calls on the half are serialized     *)
(* (&mut self), and so are a connection's callbacks.  msquic is external:  *)
(* `nat` keeps the little of it the code depends on.                       *)
(***************************************************************************)
EXTENDS SendReducer, Sequences, FiniteSets

CONSTANTS
    MaxSends,   \* bound: sends accepted by msquic on this stream
    Faults,     \* the kinds of fault of which one may happen
    Remotes     \* the ways the connection may end other than locally

ASSUME SendHalfAssumption ==
    /\ MaxSends \in Nat
    /\ Faults \subseteq {"panic", "null", "connection"}
    /\ Remotes \subseteq {"peer", "idle", "transport"}

VARIABLES
    reducer,        \* SendStreamReceiveCtx.reducer
    fe,             \* where the running frontend call is
    parked,         \* the poll h3 is waiting in, or "no"
    waker,          \* the task's waker in the send channel: none, armed, fired
    chan,           \* the ordered send-event channel
    chanOpen,       \* StreamSendCtx.send is still Some
    send_terminal,  \* the send slot
    conn,           \* the shared connection slot
    cb,             \* the effects the running stream callback has still to do
    poisoned,       \* StreamSendCtx.poisoned
    boxes,          \* Box<SendBuffer>s turned into raw pointers, not yet reclaimed
    nat,            \* msquic's side of the stream and its connection: the sends it
                    \* took and still holds, a FIN asked for, how far the send
                    \* direction is (open, aborting, closed, then the stream shut and
                    \* the connection gone), and how the connection ends
    fault,          \* the fault that happened, or "none"
    errs,           \* every send-scope error the half has surfaced to h3
    told            \* connection causes h3 was told by any frontend

feVars == <<reducer, fe, parked>>
chanVars == <<chan, chanOpen, waker>>
slotVars == <<send_terminal, conn>>
cbVars == <<cb, poisoned, fault>>
vars == <<feVars, chanVars, slotVars, cbVars, boxes, nat, errs, told>>

Polls == {"poll_ready", "poll_finish"}
Payloads == {"Empty", "Oversized", "NonEmpty"}

\* The status msquic reports with the reason it ends the connection.
Status(why) == IF why = "idle" THEN "CONNECTION_IDLE" ELSE "OTHER"

Idle == [pc |-> "idle", m |-> "none", inp |-> "none", poll |-> Pending,
         payload |-> "Empty", ok |-> TRUE, t |-> NoTerm]

Init ==
    /\ reducer = IdleSend
    /\ fe = Idle
    /\ parked = "no"
    /\ waker = "none"
    /\ chan = <<>>
    /\ chanOpen = TRUE
    /\ send_terminal = NoTerm
    /\ conn = EmptySlot
    /\ cb = <<>>
    /\ poisoned = FALSE
    /\ boxes = 0
    /\ nat = [accepted |-> 0, sends |-> 0, fin |-> FALSE, dir |-> "open",
              graceful |-> FALSE, conn |-> "up"]
    /\ fault = "none"
    /\ errs = {}
    /\ told = {}

-----------------------------------------------------------------------------
(* The frontends.                                                          *)

\* Run the reducer's answer r as far as the next shared access.
Continue(r) ==
    /\ reducer' = r.state
    /\ CASE r.op = "Pending" ->
              fe' = Idle /\ parked' = fe.m /\ UNCHANGED errs
         [] r.op = "Repoll" ->
              fe' = [Idle EXCEPT !.pc = "poll", !.m = fe.m] /\ UNCHANGED <<parked, errs>>
         [] r.op \in {"SubmitSend", "SubmitGraceful", "SubmitReset"} ->
              fe' = [Idle EXCEPT !.pc = r.op, !.m = fe.m] /\ UNCHANGED <<parked, errs>>
         [] r.op = "PublishTerminal" ->
              fe' = [Idle EXCEPT !.pc = "publish", !.m = fe.m, !.t = r.t] /\ UNCHANGED <<parked, errs>>
         [] r.op = "ReturnError" /\ r.t.kind = "Connection" ->
              fe' = [Idle EXCEPT !.pc = "commit", !.m = fe.m, !.t = r.t] /\ UNCHANGED <<parked, errs>>
         [] r.op = "ReturnError" /\ r.t.kind # "Connection" ->
              fe' = Idle /\ parked' = "no" /\ errs' = errs \cup {r.t}
         [] OTHER ->
              fe' = Idle /\ parked' = "no" /\ UNCHANGED errs

\* The reducer input the frontend has built, once its terminal t is resolved.
Feed(t) ==
    CASE fe.inp = "PollReady"         -> OnPollReady(reducer, fe.poll, t)
      [] fe.inp = "PollFinish"        -> OnPollFinish(reducer, fe.poll, t)
      [] fe.inp = "SendRequested"     -> OnSendRequested(reducer, fe.payload, t)
      [] fe.inp = "Reset"             -> OnReset(reducer, t)
      [] fe.inp = "SendSubmitted"     -> OnSendSubmitted(reducer, fe.ok, t)
      [] fe.inp = "GracefulSubmitted" -> OnGracefulSubmitted(reducer, fe.ok, t)
      [] fe.inp = "ResetSubmitted"    -> OnResetSubmitted(reducer, fe.ok, t)
      [] fe.inp = "FinishGuard"       ->
            ReturnError(reducer, IF t = NoTerm THEN Internal("poll_ready after finish") ELSE t)

Begin(m, inp, pc, payload) ==
    /\ fe.pc = "idle"
    /\ fe' = [Idle EXCEPT !.pc = pc, !.m = m, !.inp = inp, !.payload = payload]
    /\ UNCHANGED <<reducer, parked, chanVars, slotVars, cbVars, boxes, nat, errs, told>>

\* Mutant of PollReady: no finish guard, so the channel is consumed.
PollReadyUnguarded == Begin("poll_ready", "PollReady", "poll", "Empty")

\* A started finish diverts poll_ready from the channel (the non-consuming guard).
PollReady ==
    IF reducer.finish_started
    THEN Begin("poll_ready", "FinishGuard", "load", "Empty")
    ELSE Begin("poll_ready", "PollReady", "poll", "Empty")

PollFinish == Begin("poll_finish", "PollFinish", "poll", "Empty")

SendData ==
    \E payload \in Payloads :
        /\ payload = "NonEmpty" => nat.accepted < MaxSends
        /\ Begin("send_data", "SendRequested", "load", payload)

Reset == Begin("reset", "Reset", "load", "Empty")

Call == PollReady \/ PollFinish \/ SendData \/ Reset

\* poll_send_channel: an event, the end of the channel, or an armed waker.
PollSendChannel ==
    /\ fe.pc = "poll"
    /\ fe' = [fe EXCEPT !.pc = "load",
                        !.inp = IF fe.m = "poll_ready" THEN "PollReady" ELSE "PollFinish",
                        !.poll = IF chan # <<>> THEN Head(chan)
                                 ELSE IF chanOpen THEN Pending ELSE Closed]
    /\ chan' = IF chan # <<>> THEN Tail(chan) ELSE chan
    /\ waker' = IF chan = <<>> /\ chanOpen THEN "armed" ELSE waker
    /\ UNCHANGED <<reducer, parked, chanOpen, slotVars, cbVars, boxes, nat, errs, told>>

\* load_winner, the first lock of resolve_terminal.
LoadWinner ==
    /\ fe.pc = "load"
    /\ \/ /\ NeedsPeek(send_terminal)
          /\ fe' = [fe EXCEPT !.pc = "peek", !.t = send_terminal]
          /\ UNCHANGED <<reducer, parked, errs>>
       \/ /\ ~NeedsPeek(send_terminal)
          /\ Continue(Feed(send_terminal))
    /\ UNCHANGED <<chanVars, slotVars, cbVars, boxes, nat, told>>

\* peek_conn_terminal, its second lock; then the reducer runs.
PeekConn ==
    /\ fe.pc = "peek"
    /\ Continue(Feed(ResolveTerminal(fe.t, conn.terminal)))
    /\ UNCHANGED <<chanVars, slotVars, cbVars, boxes, nat, told>>

\* publish_send on the frontend thread, and the reducer's answer to the winner.
PublishWinner ==
    /\ fe.pc = "publish"
    /\ send_terminal' = PublishSend(send_terminal, fe.t)
    /\ Continue(OnTerminalPublished(reducer, fe.m, send_terminal'))
    /\ UNCHANGED <<chanVars, conn, cbVars, boxes, nat, told>>

\* commit_send_winner: freeze the connection slot as its cause is handed to h3.
CommitSendWinner ==
    /\ fe.pc = "commit"
    /\ told' = told \cup {OrElse(conn.terminal, fe.t.arg)}
    /\ conn' = CommitConn(conn)
    /\ fe' = Idle
    /\ parked' = "no"
    /\ UNCHANGED <<reducer, chanVars, send_terminal, cbVars, boxes, nat, errs>>

Submitted(inp, ok) == fe' = [fe EXCEPT !.pc = "load", !.inp = inp, !.ok = ok]

\* submit_owned_send: on an immediate error the box is taken back at once.
SubmitSend ==
    /\ fe.pc = "SubmitSend"
    /\ \/ /\ nat.dir \in {"open", "aborting"}
          /\ nat' = [nat EXCEPT !.accepted = @ + 1, !.sends = @ + 1]
          /\ boxes' = boxes + 1
          /\ Submitted("SendSubmitted", TRUE)
       \/ /\ Submitted("SendSubmitted", FALSE)
          /\ UNCHANGED <<nat, boxes>>
    /\ UNCHANGED <<reducer, parked, chanVars, slotVars, cbVars, errs, told>>

SubmitGraceful ==
    /\ fe.pc = "SubmitGraceful"
    /\ \/ /\ nat' = [nat EXCEPT !.fin = @ \/ nat.dir = "open"]
          /\ Submitted("GracefulSubmitted", TRUE)
       \/ /\ Submitted("GracefulSubmitted", FALSE)
          /\ UNCHANGED nat
    /\ UNCHANGED <<reducer, parked, chanVars, slotVars, cbVars, boxes, errs, told>>

\* The abort of an open send direction; what was queued will be cancelled.
AbortSend(n) == [n EXCEPT !.dir = IF @ = "open" THEN "aborting" ELSE @]

SubmitReset ==
    /\ fe.pc = "SubmitReset"
    /\ \/ /\ nat' = AbortSend(nat)
          /\ Submitted("ResetSubmitted", TRUE)
       \/ /\ Submitted("ResetSubmitted", FALSE)
          /\ UNCHANGED nat
    /\ UNCHANGED <<reducer, parked, chanVars, slotVars, cbVars, boxes, errs, told>>

FrontendStep ==
    \/ PollSendChannel \/ LoadWinner \/ PeekConn \/ PublishWinner
    \/ CommitSendWinner \/ SubmitSend \/ SubmitGraceful \/ SubmitReset

-----------------------------------------------------------------------------
(* stream_callback: the shared accesses each event makes, in order.        *)

Effect(op, x) == [op |-> op, x |-> x]

\* Mutant of OnSendComplete: the box is never taken back.
OnSendCompleteLeaks(cancelled) == <<Effect("enqueue", Complete(cancelled))>>

OnSendComplete(cancelled) ==
    <<Effect("reclaim", NoTerm), Effect("enqueue", Complete(cancelled))>>
OnSendCompleteNull ==
    <<Effect("publish", Internal("SendComplete missing client context")),
      Effect("enqueue", TerminalWake)>>
OnPeerReceiveAborted ==
    <<Effect("publish", Stopped), Effect("enqueue", TerminalWake)>>
OnSendShutdownComplete(graceful) ==
    <<Effect("enqueue", FinishComplete(graceful))>>
OnShutdownComplete(why) ==
    LET reason == ClassifyConnShutdown(why \in {"peer", "local"}, why = "peer", Status(why))
    IN  IF why = "up"
        THEN <<Effect("close", NoTerm)>>
        ELSE <<Effect("record", Connection(reason)), Effect("publish", Connection(reason)),
               Effect("close", NoTerm)>>
\* Mutants of StreamRecover: no wake and no close, or a close with no terminal published.
StreamRecoverSilent == <<Effect("publish", Internal("stream callback panicked"))>>
StreamRecoverUnpublished == <<Effect("enqueue", TerminalWake), Effect("close", NoTerm)>>

StreamRecover ==
    <<Effect("publish", Internal("stream callback panicked")),
      Effect("enqueue", TerminalWake), Effect("close", NoTerm)>>

\* guard_callback: a poisoned context runs no body at all.
Indicate(effects) ==
    /\ cb = <<>>
    /\ cb' = IF poisoned THEN <<>> ELSE effects

Faulty(kind) ==
    /\ kind \in Faults
    /\ fault = "none"
    /\ fault' = kind

Wake == IF waker = "armed" THEN "fired" ELSE waker

CallbackStep ==
    /\ cb # <<>>
    /\ cb' = Tail(cb)
    /\ LET e == Head(cb)
       IN  /\ boxes' = IF e.op = "reclaim" THEN boxes - 1 ELSE boxes
           /\ send_terminal' = IF e.op = "publish" THEN PublishSend(send_terminal, e.x)
                                                   ELSE send_terminal
           /\ conn' = IF e.op = "record" THEN RecordConnTerminal(conn, e.x.arg) ELSE conn
           /\ chan' = IF e.op = "enqueue" /\ chanOpen THEN Append(chan, e.x) ELSE chan
           /\ chanOpen' = (chanOpen /\ e.op # "close")
           /\ waker' = IF chanOpen /\ e.op \in {"enqueue", "close"} THEN Wake ELSE waker
    /\ UNCHANGED <<feVars, poisoned, fault, nat, errs, told>>

\* The body panics part-way; guard_callback contains it and stream_recover runs.
\* Nothing precedes the reclaim of a completed box, so no panic can.
CallbackPanic ==
    /\ cb # <<>>
    /\ Head(cb).op # "reclaim"
    /\ Faulty("panic")
    /\ cb' = StreamRecover
    /\ poisoned' = TRUE
    /\ nat' = AbortSend(nat)
    /\ UNCHANGED <<feVars, chanVars, slotVars, boxes, errs, told>>

-----------------------------------------------------------------------------
(* msquic's side of the send direction.                                    *)

NativeUnchanged == UNCHANGED <<feVars, chanVars, slotVars, poisoned, boxes, errs, told>>

SendCompletes ==
    /\ nat.sends > 0
    /\ Indicate(OnSendComplete(nat.dir = "aborting"))
    /\ nat' = [nat EXCEPT !.sends = @ - 1]
    /\ UNCHANGED fault
    /\ NativeUnchanged

SendCompletesNull ==
    /\ nat.sends > 0
    /\ Faulty("null")
    /\ Indicate(OnSendCompleteNull)
    /\ nat' = [nat EXCEPT !.sends = @ - 1]
    /\ NativeUnchanged

PeerStopsSending ==
    /\ nat.dir = "open"
    /\ Indicate(OnPeerReceiveAborted)
    /\ nat' = AbortSend(nat)
    /\ UNCHANGED fault
    /\ NativeUnchanged

SendShutdownCompletes ==
    /\ nat.sends = 0
    /\ nat.dir = "aborting" \/ (nat.dir = "open" /\ nat.fin)
    /\ Indicate(OnSendShutdownComplete(nat.dir = "open"))
    /\ nat' = [nat EXCEPT !.dir = "closed", !.graceful = (nat.dir = "open")]
    /\ UNCHANGED fault
    /\ NativeUnchanged

ShutdownCompletes ==
    /\ nat.dir = "closed"
    /\ Indicate(OnShutdownComplete(nat.conn))
    /\ nat' = [nat EXCEPT !.dir = "shut"]
    /\ UNCHANGED fault
    /\ NativeUnchanged

-----------------------------------------------------------------------------
(* The rest of the connection: its callback, its other frontends.          *)

ConnUnchanged == UNCHANGED <<feVars, chanVars, send_terminal, cb, poisoned, boxes, errs>>

\* ShutdownInitiatedByPeer / ByTransport: msquic reports it, then ends the streams.
ShutdownInitiated(why) ==
    /\ nat.conn = "up"
    /\ cb = <<>>
    /\ conn' = RecordConnTerminal(conn, IF why = "peer" THEN "PeerApplication"
                                                       ELSE ClassifyTransport(Status(why)))
    /\ nat' = [AbortSend(nat) EXCEPT !.conn = why]
    /\ UNCHANGED <<fault, told>>
    /\ ConnUnchanged

\* opener.rs close: record LocalClose, then ask msquic to shut down.
OpenerClose ==
    /\ conn' = RecordConnTerminal(conn, "LocalClose")
    /\ UNCHANGED <<nat, fault, told>>
    /\ ConnUnchanged

\* msquic carries out opener.close's shutdown, or a Registration::shutdown,
\* which records nothing in the slot.
LocalShutdown ==
    /\ nat.conn = "up"
    /\ cb = <<>>
    /\ nat' = [AbortSend(nat) EXCEPT !.conn = "local"]
    /\ UNCHANGED <<conn, fault, told>>
    /\ ConnUnchanged

\* The connection callback fault (a rejected stream id, or a contained panic).
ConnInternal ==
    /\ Faulty("connection")
    /\ nat.dir # "gone"
    /\ cb = <<>>
    /\ conn' = RecordConnTerminal(conn, "Internal")
    /\ UNCHANGED <<nat, told>>
    /\ ConnUnchanged

\* The connection's ShutdownComplete, after its streams'.
ConnShutdownComplete ==
    /\ nat.dir = "shut"
    /\ nat.conn # "up"
    /\ cb = <<>>
    /\ conn' = RecordConnTerminal(conn, "LocalClose")
    /\ nat' = [nat EXCEPT !.dir = "gone"]
    /\ UNCHANGED <<fault, told>>
    /\ ConnUnchanged

\* accept, open or the receive half reports the connection's end to h3.
OtherFrontend ==
    /\ conn.terminal # NoCause
    /\ conn' = CommitConn(conn)
    /\ told' = told \cup {conn.terminal}
    /\ UNCHANGED <<fault, nat>>
    /\ ConnUnchanged

-----------------------------------------------------------------------------
NativeStep ==
    \/ SendCompletes \/ SendCompletesNull \/ PeerStopsSending
    \/ SendShutdownCompletes \/ ShutdownCompletes

ConnStep ==
    \/ OpenerClose \/ LocalShutdown \/ ConnInternal \/ ConnShutdownComplete \/ OtherFrontend
    \/ \E why \in Remotes : ShutdownInitiated(why)

Next == Call \/ FrontendStep \/ CallbackStep \/ CallbackPanic \/ NativeStep \/ ConnStep

Spec == Init /\ [][Next]_vars

\* h3 polls again once its task was woken.
Repoll ==
    /\ waker = "fired"
    /\ \/ parked = "poll_ready" /\ PollReady
       \/ parked = "poll_finish" /\ PollFinish

\* What msquic owes a stream: every accepted send and every ended direction is
\* reported, and so is the end of a stream whose connection is closing.
NativeProgress ==
    \/ SendCompletes \/ SendShutdownCompletes
    \/ nat.conn # "up" /\ ShutdownCompletes

FairSpec ==
    /\ Spec
    /\ WF_vars(FrontendStep) /\ WF_vars(CallbackStep)
    /\ WF_vars(Repoll) /\ WF_vars(NativeProgress)

-----------------------------------------------------------------------------
\* The provisional cancellation marker is finalized or refined before h3 sees
\* anything of it, in the finish guard of poll_ready too.
ProvisionalNeverSurfaced == ProvisionalAbort \notin errs

\* Once the half has surfaced an error of its own scope, every later error of
\* that scope is the same one (publish_send's first writer), and never the marker
\* a later event may still refine; only the non-sticky poll_ready-after-finish
\* misuse is exempt.
SendErrorSticky ==
    /\ \A e, f \in errs \ {Internal("poll_ready after finish")} : e = f
    /\ ProvisionalNeverSurfaced

FinishArms == {"finish event observed on poll_ready", "finish complete without a started finish"}
FaultArms == {"stream callback panicked", "SendComplete missing client context"}

\* The arms transition documents as impossible are: no completion without a
\* send in flight, no wake or closed channel without a terminal, no call during
\* a reservation.
NoImpossibleArm ==
    \A t \in {send_terminal} \cup errs :
        t.kind = "Internal" => t.arg \in FinishArms \cup FaultArms \cup {"poll_ready after finish"}

\* msquic never holds two sends of the half, and a completion not yet consumed
\* counts as one: the reducer's send_inprogress and its reservations.
OneSendAtATime ==
    nat.sends + Cardinality({i \in DOMAIN chan : chan[i].poll = "Complete"}) <= 1

\* A finish msquic completed gracefully is not lost to poll_ready: until
\* poll_finish has seen it, its event is still on its way (the finish guard).
FinishEventNotLost ==
    nat.graceful /\ reducer.finish_started /\ ~reducer.finish_complete /\ ~poisoned =>
        \/ \E i \in DOMAIN cb : cb[i].x = FinishComplete(TRUE)
        \/ \E i \in DOMAIN chan : chan[i] = FinishComplete(TRUE)
        \/ fe.m = "poll_finish" /\ fe.poll = FinishComplete(TRUE)

\* poll_finish reports success only for a finish msquic completed gracefully.
FinishedMeansGraceful == reducer.finish_complete => nat.graceful

\* Every box msquic was given is one it still holds or is about to be
\* reclaimed, so none outlives the stream and none is reclaimed twice
\* (submit_owned_send and the SendComplete arm).
BoxesAccounted ==
    boxes = nat.sends + Cardinality({i \in DOMAIN cb : cb[i].op = "reclaim"})

\* An InternalError tells h3 the adapter broke its contract: none without a
\* fault or a misuse by h3.
NoSpuriousInternal ==
    fault = "none" => \A e \in errs :
        e.kind = "Internal" => e.arg = "poll_ready after finish"

\* A poll that is waiting is answered.
ParkedResolves == \A m \in Polls : parked = m ~> parked # m

\* The shared slot as this half and its neighbours use it keeps ConnCause's promise.
Cause == INSTANCE ConnCause WITH cause <- conn.terminal
CauseSpec == Cause!Spec
=============================================================================
