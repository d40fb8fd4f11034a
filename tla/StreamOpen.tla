----------------------------- MODULE StreamOpen ------------------------------
(***************************************************************************)
(* Opening local streams (opener.rs, and the open / start part of          *)
(* stream.rs): every StreamOpener clone drives poll_open_inner over its    *)
(* own holder, against the StartComplete and ShutdownComplete arms of the  *)
(* streams' callbacks and the end of the connection.                       *)
(*                                                                         *)
(* An opener stands for one holder (bidi_temp or uni_temp: poll_open_bidi  *)
(* and poll_open_send run the same code over it).  The two halves of an    *)
(* opened stream are SendHalf and RecvHalf; of the stream callback only    *)
(* what reaches the opener is kept here.                                   *)
(***************************************************************************)
EXTENDS Terminals, Sequences, FiniteSets

CONSTANTS
    Openers,    \* the openers, each with its holder
    MaxStreams, \* bound: native streams opened on the connection
    Faults,     \* the kinds of fault of which one may happen
    Remotes     \* the ways the connection may end other than locally

ASSUME StreamOpenAssumption ==
    /\ MaxStreams \in Nat
    /\ Faults \subseteq {"panic", "id"}
    /\ Remotes \subseteq {"peer", "idle", "transport"}

VARIABLES
    streams,    \* the OpeningStreams, in order: the opener, the start one-shot,
                \* its waker, msquic's view, who owns it, the callback's poison flag
    op,         \* where each opener's poll is; the stream and start result it took
    holder,     \* the index of the OpeningStream in each holder, 0 for None
    parked,     \* the openers whose poll returned Pending
    errs,       \* everything the openers' polls failed with
    conn,       \* the shared connection slot
    cb,         \* the running stream callback: its stream and remaining effects
    ending,     \* how msquic ends the connection, and whether its callback was told
    fault,      \* the fault that happened, or "none"
    told        \* connection causes h3 was told by any frontend

opVars == <<op, holder, parked>>
vars == <<streams, opVars, errs, conn, cb, ending, fault, told>>

Status(why) == IF why = "idle" THEN "CONNECTION_IDLE" ELSE "OTHER"
Cancelled == Internal("stream start cancelled without a terminal reason")
BadId == Internal("local stream ID is invalid")

\* StreamErrorIncoming::Unknown, with what made msquic refuse.
Raw(why) == Term("Unknown", why)

\* A start that answered: a raw id (valid or not), or a status and its origin.
NoStart == [res |-> "none", why |-> ""]
Started(valid) == [res |-> IF valid THEN "id" ELSE "badId", why |-> ""]
StartErr(why) == [res |-> "err", why |-> why]

\* stream_ctx_channel_pre_id and open_and_start: the start sender is in the
\* callback's context, everything else in the OpeningStream.
Opening == [tx |-> TRUE, val |-> NoStart, waker |-> "none", nat |-> "starting", ok |-> FALSE,
            owner |-> "opener", closes |-> 0, poisoned |-> FALSE]

NoPoll == [pc |-> "idle", n |-> 0, val |-> NoStart]
NoCb == [todo |-> <<>>, stream |-> 0, recovering |-> FALSE]

Init ==
    /\ streams = <<>>
    /\ op = [o \in Openers |-> NoPoll]
    /\ holder = [o \in Openers |-> 0]
    /\ parked = {}
    /\ errs = {}
    /\ conn = EmptySlot
    /\ cb = NoCb
    /\ ending = [why |-> "up", indicated |-> FALSE]
    /\ fault = "none"
    /\ told = {}

\* The drop of the stream's last Arc: one StreamClose.
Closed(n) == [streams EXCEPT ![n].owner = "none", ![n].closes = @ + 1]
DropHeld(o) == IF holder[o] = 0 THEN streams ELSE Closed(holder[o])

-----------------------------------------------------------------------------
(* poll_open_inner.                                                        *)

\* The poll is over.
Ready(o) ==
    /\ op' = [op EXCEPT ![o] = NoPoll]
    /\ parked' = parked \ {o}

GoTo(o, pc) == op' = [op EXCEPT ![o].pc = pc]

\* The poll ends with an error: the recorded cause, frozen as it is delivered,
\* or, when there is none, the fallback.
FailWith(o, fallback) ==
    /\ conn' = CommitConn(conn)
    /\ told' = IF conn.terminal = NoCause THEN told ELSE told \cup {conn.terminal}
    /\ errs' = errs \cup {IF conn.terminal = NoCause THEN fallback ELSE Connection(conn.terminal)}
    /\ Ready(o)

\* Step 1: a cause on record ends the poll and drops the stream in flight.
PollOpen(o) ==
    /\ op[o].pc = "idle"
    /\ \/ /\ conn.terminal # NoCause
          /\ FailWith(o, Cancelled)
          /\ streams' = DropHeld(o)
          /\ holder' = [holder EXCEPT ![o] = 0]
       \/ /\ conn.terminal = NoCause
          /\ holder[o] = 0 => Len(streams) < MaxStreams
          /\ GoTo(o, IF holder[o] = 0 THEN "submit" ELSE "start")
          /\ UNCHANGED <<streams, holder, parked, errs, conn, told>>
    /\ UNCHANGED <<cb, ending, fault>>

\* submit_open_start, and what the poll does after a start msquic took.
SubmitThen(o, pc, waiting) ==
    /\ op[o].pc = "submit"
    /\ \/ /\ Len(streams) < MaxStreams
          /\ streams' = Append(streams, Opening)
          /\ holder' = [holder EXCEPT ![o] = Len(streams) + 1]
          /\ parked' = parked \cup waiting
          /\ GoTo(o, pc)
       \/ /\ GoTo(o, "refused")
          /\ UNCHANGED <<streams, holder, parked>>
    /\ UNCHANGED <<errs, conn, cb, ending, fault, told>>

\* Step 2, between the check and a possible end of the connection.
SubmitOpenStart(o) == SubmitThen(o, "start", {})

SubmitRefused(o) ==
    /\ op[o].pc = "refused"
    /\ FailWith(o, Raw("refused"))
    /\ UNCHANGED <<streams, holder, cb, ending, fault>>

\* Step 3: the start one-shot has a value (then the holder is taken), was
\* cancelled (then it is emptied), or arms the waker.
AwaitStart(o, taken) ==
    /\ op[o].pc = "start"
    /\ LET n == holder[o]
           s == streams[n]
       IN  \/ /\ s.val # NoStart
              /\ op' = [op EXCEPT ![o] = [pc |-> "classify", n |-> n, val |-> s.val]]
              /\ streams' = [streams EXCEPT ![n].val = NoStart, ![n].owner = "poll"]
              /\ holder' = [holder EXCEPT ![o] = taken]
              /\ UNCHANGED parked
           \/ /\ s.val = NoStart /\ s.tx
              /\ streams' = [streams EXCEPT ![n].waker = "armed"]
              /\ parked' = parked \cup {o}
              /\ GoTo(o, "idle")
              /\ UNCHANGED holder
           \/ /\ s.val = NoStart /\ ~s.tx
              /\ streams' = Closed(n)
              /\ holder' = [holder EXCEPT ![o] = 0]
              /\ GoTo(o, "cancelled")
              /\ UNCHANGED parked
    /\ UNCHANGED <<errs, conn, cb, ending, fault, told>>

\* Mutant of PollStart: the holder still has the stream whose start it consumed.
PollStartKeepsHolder(o) == AwaitStart(o, holder[o])

PollStart(o) == AwaitStart(o, 0)

\* stream_open_conn_error.
StartCancelled(o) ==
    /\ op[o].pc = "cancelled"
    /\ FailWith(o, Cancelled)
    /\ UNCHANGED <<streams, holder, cb, ending, fault>>

\* Mutant of ClassifyStartOutcome: a failed start is reported without a look at the slot.
ClassifyStartOutcomeRaw(o) ==
    /\ op[o].pc = "classify"
    /\ op[o].val.res = "err"
    /\ streams' = Closed(op[o].n)
    /\ errs' = errs \cup {Raw(op[o].val.why)}
    /\ Ready(o)
    /\ UNCHANGED <<holder, conn, cb, ending, fault, told>>

\* Step 4: a failed start prefers the recorded cause, a bad id is the adapter's
\* fault, a good one finalizes the stream; a stream not finalized is dropped.
ClassifyStartOutcome(o) ==
    /\ op[o].pc = "classify"
    /\ \/ /\ op[o].val.res = "err"
          /\ FailWith(o, Raw(op[o].val.why))
          /\ streams' = Closed(op[o].n)
       \/ /\ op[o].val.res = "badId"
          /\ errs' = errs \cup {BadId}
          /\ Ready(o)
          /\ streams' = Closed(op[o].n)
          /\ UNCHANGED <<conn, told>>
       \/ /\ op[o].val.res = "id"
          /\ streams' = [streams EXCEPT ![op[o].n].owner = "h3"]
          /\ Ready(o)
          /\ UNCHANGED <<errs, conn, told>>
    /\ UNCHANGED <<holder, cb, ending, fault>>

\* h3 drops an opened stream.
DropOpened(n) ==
    /\ streams[n].owner = "h3"
    /\ streams' = Closed(n)
    /\ UNCHANGED <<opVars, errs, conn, cb, ending, fault, told>>

\* An opener goes between two polls, with its OpeningStream.
DropOpener(o) ==
    /\ op[o].pc = "idle"
    /\ op' = [op EXCEPT ![o].pc = "gone"]
    /\ streams' = DropHeld(o)
    /\ holder' = [holder EXCEPT ![o] = 0]
    /\ parked' = parked \ {o}
    /\ UNCHANGED <<errs, conn, cb, ending, fault, told>>

PollStep(o) ==
    SubmitOpenStart(o) \/ SubmitRefused(o) \/ PollStart(o) \/ StartCancelled(o)
        \/ ClassifyStartOutcome(o)

-----------------------------------------------------------------------------
(* stream_callback, as far as it reaches the opener.                       *)

Effect(x, arg) == [op |-> x, x |-> arg]

OnStartComplete(result) == <<Effect("answer", result)>>

OnShutdownComplete(why) ==
    <<Effect("record", ClassifyConnShutdown(why \in {"peer", "local"}, why = "peer", Status(why))),
      Effect("cancel", "")>>

\* Mutant of StreamRecover: the pending start is not answered.
StreamRecoverSilent == <<Effect("poison", "")>>

StreamRecover == <<Effect("answer", StartErr("panic")), Effect("poison", "")>>

\* guard_callback: a poisoned context runs no body; a closed stream has no callback.
Indicate(n, effects) ==
    /\ cb.todo = <<>>
    /\ streams[n].owner # "none"
    /\ cb' = [NoCb EXCEPT !.todo = IF streams[n].poisoned THEN <<>> ELSE effects, !.stream = n]

Faulty(kind) ==
    /\ kind \in Faults
    /\ fault = "none"
    /\ fault' = kind

\* A step of the running callback; a taken start sender answers nobody.
CallbackStep ==
    /\ cb.todo # <<>>
    /\ cb' = [cb EXCEPT !.todo = Tail(@)]
    /\ LET e == Head(cb.todo)
           n == cb.stream
           s == streams[n]
       IN  /\ conn' = IF e.op = "record" THEN RecordConnTerminal(conn, e.x) ELSE conn
           /\ streams' = [streams EXCEPT ![n] =
                 [s EXCEPT !.tx = @ /\ e.op \notin {"answer", "cancel"},
                           !.val = IF e.op = "answer" /\ s.tx THEN e.x ELSE @,
                           !.waker = IF e.op \in {"answer", "cancel"} /\ s.tx /\ @ = "armed"
                                     THEN "fired" ELSE @,
                           !.poisoned = @ \/ e.op = "poison"]]
    /\ UNCHANGED <<opVars, errs, ending, fault, told>>

\* The body panics; stream_recover aborts the stream and answers the opener.
CallbackPanic ==
    /\ cb.todo # <<>>
    /\ ~cb.recovering
    /\ Faulty("panic")
    /\ cb' = [cb EXCEPT !.todo = StreamRecover, !.recovering = TRUE]
    /\ UNCHANGED <<streams, opVars, errs, conn, ending, told>>

-----------------------------------------------------------------------------
(* msquic, and the rest of the connection.                                 *)

NativeUnchanged == UNCHANGED <<opVars, errs, conn, ending, told>>

\* A start is answered: an id, a refusal, or the end of the connection.
StartCompletes(n) ==
    /\ streams[n].nat = "starting"
    /\ \/ /\ ~ending.indicated
          /\ \/ Indicate(n, OnStartComplete(Started(TRUE))) /\ UNCHANGED fault
             \/ Indicate(n, OnStartComplete(Started(FALSE))) /\ Faulty("id")
             \/ Indicate(n, OnStartComplete(StartErr("other"))) /\ UNCHANGED fault
       \/ /\ ending.indicated
          /\ Indicate(n, OnStartComplete(StartErr(ending.why)))
          /\ UNCHANGED fault
    /\ streams' = [streams EXCEPT ![n].nat = "answered",
                                  ![n].ok = (cb'.todo = OnStartComplete(Started(TRUE)))]
    /\ NativeUnchanged

\* Ending the connection shuts its streams down, a start still pending included.
ShutdownCompletes(n) ==
    /\ ending.indicated
    /\ streams[n].nat # "shut"
    /\ Indicate(n, OnShutdownComplete(ending.why))
    /\ streams' = [streams EXCEPT ![n].nat = "shut"]
    /\ UNCHANGED fault
    /\ NativeUnchanged

\* msquic closes the connection: from here on it may refuse streams.
ConnectionEnds(why) ==
    /\ ending.why = "up"
    /\ ending' = [why |-> why, indicated |-> FALSE]
    /\ UNCHANGED <<streams, opVars, errs, conn, cb, fault, told>>

\* ShutdownInitiatedByPeer / ByTransport; a local shutdown has no such event.
ShutdownInitiated ==
    /\ ending.why # "up" /\ ~ending.indicated
    /\ cb.todo = <<>>
    /\ ending' = [ending EXCEPT !.indicated = TRUE]
    /\ conn' = CASE ending.why = "local" -> conn
                [] ending.why = "peer"  -> RecordConnTerminal(conn, "PeerApplication")
                [] OTHER -> RecordConnTerminal(conn, ClassifyTransport(Status(ending.why)))
    /\ UNCHANGED <<streams, opVars, errs, cb, fault, told>>

\* opener.close records LocalClose before msquic is asked to shut down.
OpenerClose ==
    /\ conn' = RecordConnTerminal(conn, "LocalClose")
    /\ UNCHANGED <<streams, opVars, errs, cb, ending, fault, told>>

\* Another frontend of the connection reports its end to h3.
OtherFrontend ==
    /\ conn.terminal # NoCause
    /\ conn' = CommitConn(conn)
    /\ told' = told \cup {conn.terminal}
    /\ UNCHANGED <<streams, opVars, errs, cb, ending, fault>>

-----------------------------------------------------------------------------
NativeStep ==
    \/ \E n \in DOMAIN streams : StartCompletes(n) \/ ShutdownCompletes(n)
    \/ \E why \in Remotes \cup {"local"} : ConnectionEnds(why)
    \/ ShutdownInitiated

Next ==
    \/ \E o \in Openers : PollOpen(o) \/ PollStep(o) \/ DropOpener(o)
    \/ \E n \in DOMAIN streams : DropOpened(n)
    \/ CallbackStep \/ CallbackPanic \/ NativeStep \/ OpenerClose \/ OtherFrontend

Spec == Init /\ [][Next]_vars

\* The task of a woken opener polls again.
Repoll(o) ==
    /\ o \in parked /\ holder[o] # 0
    /\ streams[holder[o]].waker = "fired"
    /\ PollOpen(o)

\* Pending starts are answered or their streams shut down once the connection ended.
NativeProgress ==
    \/ ShutdownInitiated
    \/ \E n \in DOMAIN streams : ShutdownCompletes(n)

FairSpec ==
    /\ Spec
    /\ WF_vars(CallbackStep) /\ WF_vars(NativeProgress)
    /\ \A o \in Openers : WF_vars(PollStep(o)) /\ WF_vars(Repoll(o))

-----------------------------------------------------------------------------
\* h3 is handed a stream only after msquic reported a successful start with a
\* valid id for that very stream (classify_start_outcome, finalize).
OpenedMeansStarted ==
    \A n \in DOMAIN streams : streams[n].owner = "h3" => streams[n].ok

\* Every native stream has one owner: one holder, the poll that took it from there,
\* or h3; without one it was closed exactly once.  A start that was consumed is not
\* in a holder any more, so it is never polled again (poll_open_inner's takes); and
\* h3 owns only streams that did start.
StreamOwnedOnce ==
    /\ OpenedMeansStarted
    /\ \A n \in DOMAIN streams :
        /\ Cardinality({o \in Openers : holder[o] = n}) = (IF streams[n].owner = "opener" THEN 1 ELSE 0)
        /\ Cardinality({o \in Openers : op[o].n = n}) = (IF streams[n].owner = "poll" THEN 1 ELSE 0)
        /\ streams[n].closes = (IF streams[n].owner = "none" THEN 1 ELSE 0)

\* No open is told that its start was cancelled without a reason: the cause is on
\* record before the callback drops the start sender.
NoReasonlessCancel == Cancelled \notin errs

\* A start that failed because the peer or the transport ended the connection is
\* reported with that cause, never as msquic's bare status, although the poll
\* checked the slot before it started the stream (classify_start_outcome).
RemoteCauseSurfaced == \A why \in Remotes : Raw(why) \notin errs

\* A failed open tells h3 what ended it, whether the start failed, was cut off by
\* the end of the connection or never got an answer.
StartFailureHasCause == NoReasonlessCancel /\ RemoteCauseSurfaced

\* An open that waits is answered once its start is, once its callback panicked
\* and once the connection is over.
OpenersReleased ==
    \A o \in Openers :
        (/\ o \in parked
         /\ holder[o] # 0
         /\ ending.why # "up" \/ ~streams[holder[o]].tx \/ streams[holder[o]].poisoned)
        ~> o \notin parked

\* The shared slot as the openers and the streams' callbacks use it keeps ConnCause's promise.
Cause == INSTANCE ConnCause WITH cause <- conn.terminal
CauseSpec == Cause!Spec
=============================================================================
