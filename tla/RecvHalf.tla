------------------------------ MODULE RecvHalf -------------------------------
(***************************************************************************)
(* The receive half of one stream (stream.rs): the Receive arm and the     *)
(* receive terminals of stream_callback on a msquic worker, the RecvBudget *)
(* that pends an indication, and h3's poll_data / stop_sending draining    *)
(* the event channel and re-arming msquic.                                 *)
(*                                                                         *)
(* Payload bytes are their stream offsets: a Data event carries the range  *)
(* lo..hi-1, so its length is hi - lo and order and loss are visible.      *)
(* msquic is external and kept in `nat`; `ind` says whether a receive      *)
(* indication is running, pended or absent.                                *)
(***************************************************************************)
EXTENDS Terminals, Sequences, FiniteSets

CONSTANTS
    MaxBytes,   \* RecvBudget.max_bytes
    MaxUnits,   \* RecvBudget.max_units
    MaxInd,     \* bound: the longest receive indication
    Total       \* bound: bytes the peer sends

ASSUME RecvAssumption ==
    /\ MaxBytes \in Nat \ {0}
    /\ MaxUnits \in Nat \ {0}
    /\ MaxInd \in Nat
    /\ Total \in Nat

VARIABLES
    st,       \* RecvState: buffered, units, pend_outstanding, pending_indication_len
    locked,   \* the callback is inside admit, holding the RecvState mutex
    saved,    \* admit's snapshot for the rollback
    rq,       \* the receive-event channel
    rqOpen,   \* StreamSendCtx.receive is Some
    sent,     \* StreamSendCtx.receive_terminal_sent
    poisoned, \* StreamSendCtx.poisoned
    cb,       \* where the running stream callback is
    fe,       \* where the running poll_data is, and the event it took
    half,     \* H3RecvStream: "live", "closed" by stop_sending, or "dropped"
    terminal, \* RecvStreamReceiveCtx.terminal
    waker,    \* the task's waker in the channel: none, armed (parked), fired
    taken,    \* bytes h3 was given, or that are in poll_data's hands
    conn,     \* the shared connection slot
    told,     \* connection causes h3 was told by any frontend
    nat       \* msquic's side of the receive direction

chanVars == <<rq, rqOpen, sent, waker>>
budgetVars == <<st, locked, saved>>
feVars == <<fe, half, terminal, taken>>
vars == <<budgetVars, chanVars, feVars, poisoned, cb, conn, told, nat>>

EmptyState == [buffered |-> 0, units |-> 0,
               pend_outstanding |-> FALSE, pending_indication_len |-> 0]

Data(lo, hi) == [ev |-> "Data", lo |-> lo, hi |-> hi]
Terminal(ev) == [ev |-> ev, lo |-> 0, hi |-> 0]
TerminalEvents == {"Fin", "Reset", "Connection", "Internal"}
IdleCb == [pc |-> "idle", n |-> 0, ev |-> "none", next |-> "idle", pend |-> FALSE]
IdleFe == [pc |-> "idle", lo |-> 0, hi |-> 0, len |-> 0]

Init ==
    /\ st = EmptyState
    /\ locked = FALSE
    /\ saved = EmptyState
    /\ rq = <<>>
    /\ rqOpen = TRUE
    /\ sent = FALSE
    /\ poisoned = FALSE
    /\ cb = IdleCb
    /\ fe = IdleFe
    /\ half = "live"
    /\ terminal = "none"
    /\ waker = "none"
    /\ taken = 0
    /\ conn = EmptySlot
    /\ told = {}
    /\ nat = [indicated |-> 0, ind |-> "none", len |-> 0, early |-> FALSE,
              dir |-> "open", conn |-> "up"]

-----------------------------------------------------------------------------
(* RecvBudget.                                                             *)

\* Mutant of AtLimit: one indication too late.
PastLimit(s) == s.buffered > MaxBytes \/ s.units > MaxUnits

AtLimit(s) == s.buffered >= MaxBytes \/ s.units >= MaxUnits

\* Mutant of Charge: the pend decision is taken before the charge.
ChargeDecidesFirst(s, n) ==
    LET charged == [s EXCEPT !.buffered = @ + n,
                             !.units = IF n > 0 THEN @ + 1 ELSE @]
    IN  IF AtLimit(s)
        THEN [charged EXCEPT !.pend_outstanding = TRUE, !.pending_indication_len = n]
        ELSE charged

\* admit up to the publication: charge, then decide whether to pend.
Charge(s, n) ==
    LET charged == [s EXCEPT !.buffered = @ + n,
                             !.units = IF n > 0 THEN @ + 1 ELSE @]
    IN  IF AtLimit(charged)
        THEN [charged EXCEPT !.pend_outstanding = TRUE, !.pending_indication_len = n]
        ELSE charged

\* usize::saturating_sub
Minus(a, b) == IF a >= b THEN a - b ELSE 0

\* Mutant of Drained: the unit is kept.
DrainedKeepsUnit(s, len) == [s EXCEPT !.buffered = Minus(@, len)]

\* on_drained: release the bytes and one unit, and end a pend that is over.
Drained(s, len) == [s EXCEPT !.buffered = Minus(@, len), !.units = Minus(@, 1)]
Rearms(s) == s.pend_outstanding /\ ~AtLimit(s)
OnDrained(s, len) ==
    IF Rearms(Drained(s, len))
    THEN [Drained(s, len) EXCEPT !.pend_outstanding = FALSE, !.pending_indication_len = 0]
    ELSE Drained(s, len)

-----------------------------------------------------------------------------
(* stream_callback.                                                        *)

\* Mutant of Wake: the parked task is not woken.
WakeLost == waker

Wake == IF waker = "armed" THEN "fired" ELSE waker

\* The state of an event's handler when msquic enters it; poisoned contexts run none.
Enter(handler) ==
    /\ cb.pc = "idle"
    /\ cb' = IF poisoned THEN IdleCb ELSE handler

\* Receive: copied and admitted unless a terminal was sent or nobody is left to read.
ReceiveHandler(n, fin) ==
    [pc |-> IF ~sent /\ rqOpen THEN "account" ELSE IF fin THEN "terminal" ELSE "return",
     n |-> n, ev |-> IF fin THEN "Fin" ELSE "none", next |-> "return", pend |-> FALSE]
TerminalHandler(ev) == [IdleCb EXCEPT !.pc = "terminal", !.ev = ev]
ShutdownHandler(why) ==
    IF why = "up" THEN [IdleCb EXCEPT !.pc = "close"]
                  ELSE [IdleCb EXCEPT !.pc = "record", !.ev = "Connection", !.next = "close"]

\* admit takes the lock and commits the accounting ...
AdmitAccount ==
    /\ cb.pc = "account"
    /\ locked' = TRUE
    /\ saved' = st
    /\ st' = Charge(st, cb.n)
    /\ cb' = [cb EXCEPT !.pc = "publish", !.pend = AtLimit(st')]
    /\ UNCHANGED <<chanVars, feVars, poisoned, conn, told, nat>>

\* ... and publishes before letting it go; a dropped receiver undoes the charge.
AdmitPublish ==
    /\ cb.pc = "publish"
    /\ locked' = FALSE
    /\ saved' = EmptyState
    /\ LET failed == cb.n > 0 /\ half = "dropped"
       IN  /\ st' = IF failed THEN saved ELSE st
           /\ rq' = IF cb.n > 0 /\ ~failed
                    THEN Append(rq, Data(nat.indicated - cb.n, nat.indicated)) ELSE rq
           /\ rqOpen' = (rqOpen /\ ~failed)
           /\ waker' = IF cb.n > 0 THEN Wake ELSE waker
           /\ cb' = [cb EXCEPT !.pc = IF cb.ev = "none" THEN "return" ELSE "terminal",
                               !.pend = cb.pend /\ ~failed]
    /\ UNCHANGED <<sent, feVars, poisoned, conn, told, nat>>

\* publish_recv_terminal: the first terminal closes the channel behind it.
PublishRecvTerminal ==
    /\ cb.pc = "terminal"
    /\ rq' = IF ~sent /\ rqOpen /\ half # "dropped" THEN Append(rq, Terminal(cb.ev)) ELSE rq
    /\ rqOpen' = (rqOpen /\ sent)
    /\ waker' = IF ~sent THEN Wake ELSE waker
    /\ sent' = TRUE
    /\ cb' = IF cb.next = "idle" THEN IdleCb ELSE [cb EXCEPT !.pc = cb.next]
    /\ UNCHANGED <<budgetVars, feVars, poisoned, conn, told, nat>>

\* A connection-caused shutdown records the classified cause before its marker.
RecordCause ==
    /\ cb.pc = "record"
    /\ conn' = RecordConnTerminal(conn,
                  ClassifyConnShutdown(nat.conn \in {"peer", "local"}, nat.conn = "peer", "OTHER"))
    /\ cb' = [cb EXCEPT !.pc = "terminal"]
    /\ UNCHANGED <<budgetVars, chanVars, feVars, poisoned, told, nat>>

CloseChannel ==
    /\ cb.pc = "close"
    /\ rqOpen' = FALSE
    /\ waker' = IF rqOpen THEN Wake ELSE waker
    /\ cb' = IdleCb
    /\ UNCHANGED <<budgetVars, rq, sent, feVars, poisoned, conn, told, nat>>

\* The Receive event returns: PENDING keeps the indication unless its completion
\* already came in while the callback was running.
ReturnFromReceive ==
    /\ cb.pc = "return"
    /\ cb' = IdleCb
    /\ nat' = [nat EXCEPT !.ind = IF cb.pend /\ ~nat.early THEN "pended" ELSE "none",
                          !.early = FALSE]
    /\ UNCHANGED <<budgetVars, chanVars, feVars, poisoned, conn, told>>

\* A contained panic outside admit: stream_recover aborts the stream and
\* publishes an internal receive terminal.
CallbackPanic ==
    /\ cb.pc \notin {"idle", "publish"}
    /\ ~poisoned
    /\ poisoned' = TRUE
    /\ cb' = TerminalHandler("Internal")
    /\ nat' = [nat EXCEPT !.dir = IF @ = "open" THEN "ended" ELSE @, !.ind = "none", !.early = FALSE]
    /\ UNCHANGED <<budgetVars, chanVars, feVars, conn, told>>

CallbackStep ==
    \/ AdmitAccount \/ AdmitPublish \/ PublishRecvTerminal \/ RecordCause
    \/ CloseChannel \/ ReturnFromReceive

-----------------------------------------------------------------------------
(* poll_data and stop_sending.                                             *)

FeUnchanged == UNCHANGED <<budgetVars, rqOpen, sent, poisoned, cb, conn, told, nat>>

CanPoll == half = "live" /\ terminal = "none" /\ fe.pc = "idle"

\* poll_event takes a Data event off the channel.
TakeData ==
    /\ CanPoll
    /\ rq # <<>>
    /\ Head(rq).ev = "Data"
    /\ fe' = [IdleFe EXCEPT !.pc = "drain", !.lo = Head(rq).lo, !.hi = Head(rq).hi]
    /\ taken' = Head(rq).hi
    /\ rq' = Tail(rq)
    /\ waker' = "none"
    /\ UNCHANGED <<half, terminal>>
    /\ FeUnchanged

\* Mutant of TakeTerminal: a queued terminal overtakes the data before it.
TakeTerminalEagerly ==
    /\ CanPoll
    /\ rq # <<>>
    /\ rq[Len(rq)].ev # "Data"
    /\ rq' = SubSeq(rq, 1, Len(rq) - 1)
    /\ waker' = "none"
    /\ IF rq[Len(rq)].ev = "Connection"
       THEN fe' = [IdleFe EXCEPT !.pc = "observe"] /\ UNCHANGED terminal
       ELSE terminal' = rq[Len(rq)].ev /\ UNCHANGED fe
    /\ UNCHANGED <<half, taken>>
    /\ FeUnchanged

\* ... or a terminal, which it stores; a connection marker is resolved first.
TakeTerminal ==
    /\ CanPoll
    /\ rq # <<>>
    /\ Head(rq).ev # "Data"
    /\ rq' = Tail(rq)
    /\ waker' = "none"
    /\ IF Head(rq).ev = "Connection"
       THEN fe' = [IdleFe EXCEPT !.pc = "observe"] /\ UNCHANGED terminal
       ELSE terminal' = Head(rq).ev /\ UNCHANGED fe
    /\ UNCHANGED <<half, taken>>
    /\ FeUnchanged

\* An empty channel parks h3 with its waker armed; a closed one that held no
\* terminal is an internal fault.
TakeNothing ==
    /\ CanPoll
    /\ rq = <<>>
    /\ IF rqOpen
       THEN waker' = "armed" /\ UNCHANGED terminal
       ELSE waker' = "none" /\ terminal' = "ClosedWithoutReason"
    /\ UNCHANGED <<rq, fe, half, taken>>
    /\ FeUnchanged

\* observe_conn_winner: read and freeze the shared slot, cache the winner.
ObserveCause ==
    /\ fe.pc = "observe"
    /\ terminal' = "Connection"
    /\ conn' = ObserveConnWinner(conn)
    /\ told' = told \cup {conn.terminal}
    /\ fe' = IdleFe
    /\ UNCHANGED <<budgetVars, chanVars, half, taken, poisoned, cb, nat>>

\* Mutants of DrainBudget: the pend is cleared and never completed, or completed
\* with the length of the event that was drained.
DrainBudgetForgets ==
    /\ fe.pc = "drain"
    /\ ~locked
    /\ st' = OnDrained(st, fe.hi - fe.lo)
    /\ fe' = IdleFe
    /\ UNCHANGED <<locked, saved, chanVars, half, terminal, taken, poisoned, cb, conn, told, nat>>
DrainBudgetPartial ==
    /\ fe.pc = "drain"
    /\ ~locked
    /\ st' = OnDrained(st, fe.hi - fe.lo)
    /\ fe' = IF Rearms(Drained(st, fe.hi - fe.lo))
             THEN [IdleFe EXCEPT !.pc = "complete", !.len = fe.hi - fe.lo]
             ELSE IdleFe
    /\ UNCHANGED <<locked, saved, chanVars, half, terminal, taken, poisoned, cb, conn, told, nat>>

\* on_drained, waiting for admit if it holds the lock.
DrainBudget ==
    /\ fe.pc = "drain"
    /\ ~locked
    /\ st' = OnDrained(st, fe.hi - fe.lo)
    /\ fe' = IF Rearms(Drained(st, fe.hi - fe.lo))
             THEN [IdleFe EXCEPT !.pc = "complete", !.len = st.pending_indication_len]
             ELSE IdleFe
    /\ UNCHANGED <<locked, saved, chanVars, half, terminal, taken, poisoned, cb, conn, told, nat>>

\* submit_receive_complete with the full saved length.
ReceiveComplete ==
    /\ fe.pc = "complete"
    /\ nat' = IF nat.ind = "active" THEN [nat EXCEPT !.early = TRUE]
                                    ELSE [nat EXCEPT !.ind = "none"]
    /\ fe' = IdleFe
    /\ UNCHANGED <<budgetVars, chanVars, half, terminal, taken, poisoned, cb, conn, told>>

PollData == TakeData \/ TakeTerminal \/ TakeNothing

\* Best-effort ABORT_RECEIVE, then the sticky local end.
StopSending ==
    /\ half = "live"
    /\ fe.pc = "idle"
    /\ half' = "closed"
    /\ \/ nat' = [nat EXCEPT !.dir = IF @ = "open" THEN "ended" ELSE @]
       \/ UNCHANGED nat
    /\ UNCHANGED <<budgetVars, chanVars, fe, terminal, taken, poisoned, cb, conn, told>>

\* h3 drops the half and with it the channel's receiver.
DropHalf ==
    /\ half # "dropped"
    /\ fe.pc = "idle"
    /\ half' = "dropped"
    /\ rq' = <<>>
    /\ waker' = "none"
    /\ UNCHANGED <<budgetVars, rqOpen, sent, fe, terminal, taken, poisoned, cb, conn, told, nat>>

-----------------------------------------------------------------------------
(* msquic, and the rest of the connection.                                 *)

NativeUnchanged ==
    UNCHANGED <<budgetVars, chanVars, feVars, poisoned, conn, told>>

Receive(n, fin) ==
    /\ nat.dir = "open"
    /\ nat.ind = "none"
    /\ nat.indicated + n <= Total
    /\ Enter(ReceiveHandler(n, fin))
    /\ nat' = [nat EXCEPT !.indicated = @ + n, !.ind = "active", !.len = n,
                          !.dir = IF fin THEN "ended" ELSE "open"]
    /\ NativeUnchanged

PeerSendShutdown ==
    /\ nat.dir = "open"
    /\ nat.ind = "none"
    /\ Enter(TerminalHandler("Fin"))
    /\ nat' = [nat EXCEPT !.dir = "ended"]
    /\ NativeUnchanged

PeerSendAborted ==
    /\ nat.dir = "open"
    /\ Enter(TerminalHandler("Reset"))
    /\ nat' = [nat EXCEPT !.dir = "ended"]
    /\ NativeUnchanged

ShutdownComplete ==
    /\ nat.dir # "shut"
    /\ nat.dir = "ended" \/ nat.conn # "up"
    /\ Enter(ShutdownHandler(nat.conn))
    /\ nat' = [nat EXCEPT !.dir = "shut"]
    /\ NativeUnchanged

\* The connection ends, with the connection callback recording the cause (peer)
\* or with nothing on record (local: a Registration::shutdown).
ConnectionEnds ==
    /\ nat.conn = "up"
    /\ nat.dir # "shut"
    /\ cb.pc = "idle"
    /\ \/ /\ nat' = [nat EXCEPT !.conn = "peer"]
          /\ conn' = RecordConnTerminal(conn, "PeerApplication")
       \/ /\ nat' = [nat EXCEPT !.conn = "local"]
          /\ UNCHANGED conn
    /\ UNCHANGED <<budgetVars, chanVars, feVars, poisoned, cb, told>>

\* opener.rs close on another thread.
OpenerClose ==
    /\ conn' = RecordConnTerminal(conn, "LocalClose")
    /\ UNCHANGED <<budgetVars, chanVars, feVars, poisoned, cb, told, nat>>

\* accept, open or the send half reports the connection's end to h3.
OtherFrontend ==
    /\ conn.terminal # NoCause
    /\ conn' = CommitConn(conn)
    /\ told' = told \cup {conn.terminal}
    /\ UNCHANGED <<budgetVars, chanVars, feVars, poisoned, cb, nat>>

-----------------------------------------------------------------------------
FrontendStep == ObserveCause \/ DrainBudget \/ ReceiveComplete

NativeStep ==
    \/ \E n \in 0..MaxInd, fin \in BOOLEAN : Receive(n, fin)
    \/ PeerSendShutdown \/ PeerSendAborted \/ ShutdownComplete

Next ==
    \/ CallbackStep \/ CallbackPanic
    \/ PollData \/ FrontendStep \/ StopSending \/ DropHalf
    \/ NativeStep \/ ConnectionEnds \/ OpenerClose \/ OtherFrontend

Spec == Init /\ [][Next]_vars

\* h3 asks for more unless it is parked; the peer keeps sending while msquic lets
\* it, however many empty indications come first; a stream that ended is reported.
\* The reader gets the budget's lock although callbacks take it again and again: the
\* mutex hands a lock that is released over and over to a thread waiting for it.
FairSpec ==
    /\ Spec
    /\ WF_vars(CallbackStep) /\ SF_vars(FrontendStep)
    /\ WF_vars(waker # "armed" /\ PollData)
    /\ SF_vars(\E n \in 1..MaxInd : Receive(n, FALSE))
    /\ WF_vars(ShutdownComplete)

-----------------------------------------------------------------------------
RecvStates == [buffered : Nat, units : Nat, pend_outstanding : BOOLEAN,
               pending_indication_len : Nat]
Events == [ev : {"Data"} \cup TerminalEvents, lo : Nat, hi : Nat]
CbStates == [pc : {"idle", "account", "publish", "terminal", "record", "close", "return"},
             n : Nat, ev : TerminalEvents \cup {"none"},
             next : {"idle", "return", "close"}, pend : BOOLEAN]
FeStates == [pc : {"idle", "drain", "observe", "complete"}, lo : Nat, hi : Nat, len : Nat]
NatStates == [indicated : Nat, ind : {"none", "active", "pended"}, len : Nat, early : BOOLEAN,
              dir : {"open", "ended", "shut"}, conn : {"up", "peer", "local"}]

\* Every variable keeps its shape.
TypeOK ==
    /\ st \in RecvStates /\ saved \in RecvStates
    /\ locked \in BOOLEAN /\ rqOpen \in BOOLEAN /\ sent \in BOOLEAN /\ poisoned \in BOOLEAN
    /\ rq \in Seq(Events)
    /\ cb \in CbStates
    /\ fe \in FeStates
    /\ half \in {"live", "closed", "dropped"}
    /\ terminal \in TerminalEvents \cup {"none", "ClosedWithoutReason"}
    /\ waker \in {"none", "armed", "fired"}
    /\ taken \in Nat
    /\ conn \in ConnSlot
    /\ told \subseteq ConnectionTerminal
    /\ nat \in NatStates

\* A pend is outstanding exactly while the buffered bytes or units are at a
\* limit, so neither a pend is forgotten nor one kept that no drain will end
\* (admit and on_drained take the same decision).
PendExact == st.pend_outstanding <=> AtLimit(st)

\* The budget is exceeded by at most the one indication that reached it: the
\* full copy in the Receive arm never piles up (admit).
LimitsRespected ==
    /\ st.units <= MaxUnits
    /\ st.buffered < MaxBytes + MaxInd

\* Where the charged bytes and units are between a charge and its drain.
Charged == nat.indicated - (IF cb.pc = "account" THEN cb.n ELSE 0)
Undrained == IF fe.pc = "drain" THEN fe.lo ELSE taken
InHand == IF fe.pc = "drain" THEN 1 ELSE 0
InAdmit == IF cb.pc = "publish" /\ cb.n > 0 THEN 1 ELSE 0
DataEvents == {i \in DOMAIN rq : rq[i].ev = "Data"}

\* The budget counts exactly what was charged and not yet drained, so
\* on_drained's saturating_sub never clamps.
BudgetExact ==
    half # "dropped" /\ ~poisoned =>
        /\ st.buffered = Charged - Undrained
        /\ st.units = Cardinality(DataEvents) + InHand + InAdmit

\* msquic holds a pended indication only while the budget says so or its
\* completion is on its way.
PausedIsOwed ==
    nat.ind = "pended" => st.pend_outstanding \/ fe.pc = "complete"

\* receive_complete is called for the outstanding indication, once, and with
\* its full length, even when it overtakes the callback's PENDING.
CompletesOutstanding ==
    fe.pc = "complete" /\ ~poisoned =>
        nat.ind # "none" /\ ~nat.early /\ fe.len = nat.len

\* The channel holds consecutive ranges that start where h3 stopped reading,
\* then at most one terminal: nothing is lost, repeated or reordered.
DeliveredInOrder ==
    \A i \in DOMAIN rq :
        /\ rq[i].ev # "Data" => i = Len(rq)
        /\ rq[i].ev = "Data" =>
              rq[i].lo < rq[i].hi /\ rq[i].lo = (IF i = 1 THEN taken ELSE rq[i - 1].hi)

\* Whatever ends the stream, h3 hears of it after every byte that was received
\* before it (publish_recv_terminal rides the same channel as the data).
TerminalAfterData ==
    terminal # "none" /\ ~poisoned => taken = nat.indicated

\* poll_data never finds the channel closed with no terminal in it.
NoReasonlessClose == terminal # "ClosedWithoutReason"

\* What h3 reads is the stream: the bytes in order and once, then the end, after all
\* of them and with a reason (the Receive arm, publish_recv_terminal, poll_data).
ReaderSeesStream == DeliveredInOrder /\ TerminalAfterData /\ NoReasonlessClose

\* The receive half's unconditional freeze keeps ConnCause's promise too: its
\* connection marker is only ever behind a recorded cause.
Cause == INSTANCE ConnCause WITH cause <- conn.terminal
CauseSpec == Cause!Spec

\* A reader that keeps reading gets everything the peer sends, or an end.
ReaderProgresses ==
    <>(taken = Total \/ half # "live" \/ terminal # "none")
=============================================================================
