---------------------------- MODULE RecvHalfProofs ----------------------------
(***************************************************************************)
(* Proofs about receive backpressure, for every byte and unit limit, every *)
(* bound on an indication and any number of bytes.                         *)
(***************************************************************************)
EXTENDS RecvHalf, Integers, FiniteSetTheorems, TLAPS

-----------------------------------------------------------------------------
(* The inductive invariant.                                                *)

\* What poll_data drains has a length.
Ranges ==
    /\ \A i \in DOMAIN rq : rq[i].lo <= rq[i].hi
    /\ fe.lo <= fe.hi

\* A budget state that took its pend decision and keeps within the limits.
Settled(s) ==
    /\ s.pend_outstanding <=> AtLimit(s)
    /\ s.units <= MaxUnits
    /\ s.buffered < MaxBytes + MaxInd

\* The snapshot admit rolls back to is a state the budget was in, not pended.
Snapshot ==
    /\ Settled(saved)
    /\ locked <=> cb.pc = "publish"
    /\ locked => ~saved.pend_outstanding

\* An indication is active exactly while a Receive handler runs, and one that
\* has not been charged yet finds no pend.
Handler ==
    /\ nat.ind = "active" <=> cb.next = "return"
    /\ cb.pc \in {"account", "publish", "return"} => cb.next = "return"
    /\ cb.pc = "idle" => cb.next = "idle"
    /\ cb.pc \in {"record", "close"} => cb.next # "return"
    /\ cb.pc \in {"record", "terminal"} => cb.ev # "none"
    /\ cb.pc \in {"account", "publish"} =>
          cb.n = nat.len /\ cb.n <= MaxInd /\ cb.n <= nat.indicated
    /\ cb.pc = "account" => ~cb.pend /\ ~st.pend_outstanding
    /\ cb.pend => cb.next = "return"
    /\ poisoned => cb.pc \in {"idle", "terminal"} /\ cb.next = "idle"
                   /\ nat.dir # "open" /\ nat.ind = "none"

\* A pend on record is an indication msquic has not been given back.
Owed ==
    st.pend_outstanding /\ ~poisoned =>
        /\ nat.ind = "pended" \/ (nat.ind = "active" /\ cb.pend /\ ~nat.early)
        /\ st.pending_indication_len = nat.len

\* A completion on its way finds that indication still there.
Completing ==
    fe.pc = "complete" /\ ~poisoned =>
        /\ ~st.pend_outstanding
        /\ nat.ind = "active" => cb.pend /\ cb.pc \in {"terminal", "return"}

\* A handler that decided to pend is owed a completion, unless it already had it.
Decided ==
    /\ nat.early => nat.ind = "active" /\ cb.pc \in {"terminal", "return"} /\ ~st.pend_outstanding
    /\ cb.pend /\ ~nat.early => st.pend_outstanding \/ fe.pc = "complete"

\* The conversation with msquic about one indication.
Pause == Handler /\ Owed /\ Completing /\ Decided /\ PausedIsOwed /\ CompletesOutstanding

\* A connection marker, wherever it is, is behind a recorded cause, and what h3
\* was told is frozen.
CauseKnown ==
    /\ conn.observed => conn.terminal # NoCause
    /\ told # {} => conn.observed
    /\ cb.pc = "terminal" /\ cb.ev = "Connection" => conn.terminal # NoCause
    /\ \A i \in DOMAIN rq : rq[i].ev = "Connection" => conn.terminal # NoCause
    /\ fe.pc = "observe" => conn.terminal # NoCause
    /\ cb.next = "return" => cb.ev \in {"none", "Fin"}

IInv == CauseKnown /\ TypeOK /\ Ranges /\ Settled(st) /\ Snapshot /\ Pause

-----------------------------------------------------------------------------
(* What the operators return.                                              *)

\* After a record the slot holds a cause, and an observed slot is as it was.
LEMMA RecordFacts ==
    ASSUME NEW slot \in ConnSlot, NEW c \in ConnectionTerminal,
           slot.observed => slot.terminal # NoCause
    PROVE  /\ RecordConnTerminal(slot, c) \in ConnSlot
           /\ RecordConnTerminal(slot, c).terminal # NoCause
           /\ RecordConnTerminal(slot, c).observed = slot.observed
           /\ slot.observed => RecordConnTerminal(slot, c) = slot
<1>1. c # NoCause
  BY DEF ConnectionTerminal, SpecificCause, NoCause
<1> QED
  BY <1>1 DEF ConnSlot, RecordConnTerminal

\* admit on a budget below its limits: the charge takes its pend decision and
\* oversteps the byte limit by less than one indication.
LEMMA ChargeSettles ==
    ASSUME NEW s \in RecvStates, NEW n \in Nat, n <= MaxInd, Settled(s), ~s.pend_outstanding
    PROVE  /\ Charge(s, n) \in RecvStates
           /\ Settled(Charge(s, n))
           /\ Charge(s, n).pend_outstanding => Charge(s, n).pending_indication_len = n
<1> DEFINE b == s.buffered + n
           u == IF n > 0 THEN s.units + 1 ELSE s.units
           charged == [s EXCEPT !.buffered = b, !.units = u]
           pended == [charged EXCEPT !.pend_outstanding = TRUE, !.pending_indication_len = n]
<1>1. Charge(s, n) = IF AtLimit(charged) THEN pended ELSE charged
  BY DEF Charge
<1>0. b \in Nat /\ u \in Nat /\ u <= s.units + 1
  BY DEF RecvStates
<1>2. /\ charged \in RecvStates
      /\ charged.buffered = b /\ charged.units = u
      /\ charged.pend_outstanding = s.pend_outstanding
  <2> HIDE DEF b, u
  <2> QED
    BY <1>0 DEF RecvStates
<1>3. /\ pended \in RecvStates
      /\ pended.buffered = charged.buffered /\ pended.units = charged.units
      /\ pended.pend_outstanding /\ pended.pending_indication_len = n
  BY <1>2 DEF RecvStates
<1>4. s.buffered \in Nat /\ s.units \in Nat /\ s.buffered < MaxBytes /\ s.units < MaxUnits
  BY RecvAssumption DEF Settled, AtLimit, RecvStates
<1> HIDE DEF charged, pended
<1>5. Settled(pended) \/ ~AtLimit(charged)
  BY <1>0, <1>2, <1>3, <1>4, RecvAssumption DEF Settled, AtLimit
<1>6. Settled(charged) \/ AtLimit(charged)
  BY <1>0, <1>2, <1>4, RecvAssumption DEF Settled, AtLimit
<1> QED
  BY <1>1, <1>2, <1>3, <1>5, <1>6

\* on_drained: keeps to the limits and keeps the pend exactly while it must.
LEMMA DrainSettles ==
    ASSUME NEW s \in RecvStates, NEW len \in Nat, Settled(s)
    PROVE  /\ OnDrained(s, len) \in RecvStates
           /\ Settled(OnDrained(s, len))
           /\ OnDrained(s, len).pend_outstanding <=>
                 s.pend_outstanding /\ ~Rearms(Drained(s, len))
           /\ Rearms(Drained(s, len)) => s.pend_outstanding
           /\ OnDrained(s, len).pend_outstanding =>
                 OnDrained(s, len).pending_indication_len = s.pending_indication_len
<1> DEFINE d == Drained(s, len)
           rearmed == [d EXCEPT !.pend_outstanding = FALSE, !.pending_indication_len = 0]
<1>1. OnDrained(s, len) = IF Rearms(d) THEN rearmed ELSE d
  BY DEF OnDrained
<1>2. s.buffered \in Nat /\ s.units \in Nat
  BY DEF RecvStates
<1>3. /\ Minus(s.buffered, len) \in Nat /\ Minus(s.buffered, len) <= s.buffered
      /\ Minus(s.units, 1) \in Nat /\ Minus(s.units, 1) <= s.units
  BY <1>2 DEF Minus
<1>4. /\ d \in RecvStates
      /\ d.buffered = Minus(s.buffered, len) /\ d.units = Minus(s.units, 1)
      /\ d.pend_outstanding = s.pend_outstanding
      /\ d.pending_indication_len = s.pending_indication_len
  BY <1>3 DEF Drained, RecvStates
<1>5. /\ rearmed \in RecvStates
      /\ rearmed.buffered = d.buffered /\ rearmed.units = d.units
      /\ ~rearmed.pend_outstanding
  BY <1>4 DEF RecvStates
<1> HIDE DEF d, rearmed
<1>6. AtLimit(d) => AtLimit(s)
  BY <1>2, <1>3, <1>4, RecvAssumption DEF AtLimit
<1>7. d.units <= MaxUnits /\ d.buffered < MaxBytes + MaxInd
  BY <1>2, <1>3, <1>4, RecvAssumption DEF Settled
<1>8. CASE Rearms(d)
  BY <1>1, <1>4, <1>5, <1>7, <1>8 DEF Settled, Rearms, AtLimit, d
<1>9. CASE ~Rearms(d)
  BY <1>1, <1>4, <1>6, <1>7, <1>9 DEF Settled, Rearms, d
<1> QED
  BY <1>8, <1>9

\* The events left after poll_event took one are events that were there.
LEMMA TakeHead ==
    ASSUME NEW S, NEW q \in Seq(S), q # <<>>
    PROVE  /\ 1 \in DOMAIN q /\ Head(q) = q[1] /\ Head(q) \in S
           /\ Tail(q) \in Seq(S)
           /\ \A i \in DOMAIN Tail(q) : i + 1 \in DOMAIN q /\ Tail(q)[i] = q[i + 1]
OBVIOUS

\* An event appended to the channel is the only new one.
LEMMA AddLast ==
    ASSUME NEW S, NEW q \in Seq(S), NEW e \in S
    PROVE  /\ Append(q, e) \in Seq(S)
           /\ \A i \in DOMAIN Append(q, e) :
                 (i \in DOMAIN q /\ Append(q, e)[i] = q[i]) \/ Append(q, e)[i] = e
OBVIOUS

-----------------------------------------------------------------------------
\* A new stream satisfies the invariant.
LEMMA InitIInv == Init => IInv
<1> SUFFICES ASSUME Init PROVE IInv
  OBVIOUS
<1>1. TypeOK
  <2>1. st \in RecvStates /\ saved \in RecvStates
    BY DEF Init, EmptyState, RecvStates
  <2>2. cb \in CbStates /\ fe \in FeStates
    BY DEF Init, IdleCb, IdleFe, CbStates, FeStates
  <2>3. nat \in NatStates
    BY DEF Init, NatStates
  <2>4. conn \in ConnSlot
    BY DEF Init, EmptySlot, ConnSlot
  <2>5. rq \in Seq(Events) /\ told \subseteq ConnectionTerminal
    BY DEF Init
  <2> QED
    BY <2>1, <2>2, <2>3, <2>4, <2>5, Zenon DEF Init, TypeOK
<1>2. Ranges
  BY DEF Init, Ranges, IdleFe
<1>3. Settled(st) /\ Snapshot
  BY RecvAssumption DEF Init, Settled, Snapshot, AtLimit, EmptyState, IdleCb
<1>4. Pause
  BY DEF Init, Pause, Handler, Owed, Completing, Decided, PausedIsOwed, CompletesOutstanding,
         EmptyState, IdleCb, IdleFe
<1>5. CauseKnown
  BY DEF Init, CauseKnown, EmptySlot, IdleCb, IdleFe
<1> QED
  BY <1>1, <1>2, <1>3, <1>4, <1>5 DEF IInv

\* Every step keeps it.
LEMMA NextIInv == IInv /\ [Next]_vars => IInv'
<1> SUFFICES ASSUME IInv, [Next]_vars PROVE IInv'
  OBVIOUS
<1> USE DEF IInv
<1>1. ASSUME AdmitAccount PROVE IInv'
  <2>1. st \in RecvStates /\ cb.n \in Nat /\ cb.n <= MaxInd /\ ~st.pend_outstanding
    BY <1>1 DEF AdmitAccount, TypeOK, CbStates, Pause, Handler
  <2>2. /\ st' \in RecvStates /\ Settled(st')
        /\ st'.pend_outstanding => st'.pending_indication_len = cb.n
    BY <1>1, <2>1, ChargeSettles DEF AdmitAccount
  <2>3. st'.pend_outstanding <=> AtLimit(st')
    BY <2>2 DEF Settled
  <2>4. AtLimit(st') \in BOOLEAN
    BY DEF AtLimit
  <2>5. cb' \in CbStates
    BY <1>1, <2>4 DEF AdmitAccount, TypeOK, CbStates
  <2>6. TypeOK'
    BY <1>1, <2>5, <2>2 DEF AdmitAccount, chanVars, feVars, TypeOK
  <2>7. Ranges'
    BY <1>1 DEF AdmitAccount, chanVars, feVars, Ranges
  <2>8. Settled(st)' /\ Snapshot'
    BY <1>1, <2>1, <2>2 DEF AdmitAccount, Settled, Snapshot, AtLimit, TypeOK, CbStates
  <2>9. Pause'
    BY <1>1, <2>1, <2>2, <2>3, <2>4 DEF AdmitAccount, feVars, TypeOK, CbStates, Pause,
       Handler, Owed, Completing, Decided, PausedIsOwed, CompletesOutstanding
  <2>10. CauseKnown'
    BY <1>1 DEF AdmitAccount, chanVars, feVars, CauseKnown, TypeOK, CbStates
  <2> QED
    BY <2>6, <2>7, <2>8, <2>9, <2>10
<1>2. ASSUME AdmitPublish PROVE IInv'
  <2> DEFINE e == Data(nat.indicated - cb.n, nat.indicated)
  <2>1. e \in Events /\ e.ev = "Data" /\ e.lo <= e.hi
    BY <1>2 DEF AdmitPublish, Data, Events, TypeOK, CbStates, NatStates, Pause, Handler
  <2>2. /\ rq' \in Seq(Events)
        /\ \A i \in DOMAIN rq' : (i \in DOMAIN rq /\ rq'[i] = rq[i]) \/ rq'[i] = e
    <3> HIDE DEF e
    <3>1. rq' = rq \/ rq' = Append(rq, e)
      BY <1>2 DEF AdmitPublish, e
    <3> QED
      BY <2>1, <3>1, AddLast DEF TypeOK
  <2>3. st' \in RecvStates /\ saved' \in RecvStates
    BY <1>2 DEF AdmitPublish, TypeOK, EmptyState, RecvStates
  <2>4. cb' \in CbStates
    BY <1>2 DEF AdmitPublish, TypeOK, CbStates
  <2>5. TypeOK'
    BY <1>2, <2>3, <2>4, <2>2 DEF AdmitPublish, chanVars, feVars, Wake, TypeOK
  <2>6. Ranges'
    BY <1>2, <2>1, <2>2 DEF AdmitPublish, chanVars, feVars, Ranges, Data
  <2>7. Settled(st)' /\ Snapshot'
    BY <1>2, RecvAssumption DEF AdmitPublish, Settled, Snapshot, AtLimit, EmptyState,
       TypeOK, CbStates
  <2>8. Pause'
    BY <1>2 DEF AdmitPublish, feVars, TypeOK, CbStates, NatStates, Snapshot, Pause, Handler,
       Owed, Completing, Decided, PausedIsOwed, CompletesOutstanding
  <2>9. CauseKnown'
    BY <1>2, <2>1, <2>2 DEF AdmitPublish, chanVars, feVars, CauseKnown, Data, TypeOK,
       CbStates, Pause, Handler
  <2> QED
    BY <2>5, <2>6, <2>7, <2>8, <2>9
<1>3. ASSUME PublishRecvTerminal PROVE IInv'
  <2> DEFINE e == Terminal(cb.ev)
  <2>1. e \in Events /\ e.ev = cb.ev /\ e.lo <= e.hi
    BY <1>3 DEF PublishRecvTerminal, Terminal, Events, TypeOK, CbStates, Pause, Handler
  <2>2. /\ rq' \in Seq(Events)
        /\ \A i \in DOMAIN rq' : (i \in DOMAIN rq /\ rq'[i] = rq[i]) \/ rq'[i] = e
    <3> HIDE DEF e
    <3>1. rq' = rq \/ rq' = Append(rq, e)
      BY <1>3 DEF PublishRecvTerminal, e
    <3> QED
      BY <2>1, <3>1, AddLast DEF TypeOK
  <2>3. cb' \in CbStates
    BY <1>3 DEF PublishRecvTerminal, TypeOK, CbStates, IdleCb
  <2>4. TypeOK'
    BY <1>3, <2>3, <2>2 DEF PublishRecvTerminal, budgetVars, feVars, Wake, TypeOK
  <2>5. Ranges'
    BY <1>3, <2>1, <2>2 DEF PublishRecvTerminal, feVars, Ranges, Terminal
  <2>6. Settled(st)' /\ Snapshot'
    BY <1>3 DEF PublishRecvTerminal, budgetVars, Settled, Snapshot, AtLimit, IdleCb, TypeOK,
       CbStates, Pause, Handler
  <2>7. Pause'
    BY <1>3 DEF PublishRecvTerminal, budgetVars, feVars, IdleCb, TypeOK, CbStates, Pause,
       Handler, Owed, Completing, Decided, PausedIsOwed, CompletesOutstanding
  <2>8. CauseKnown'
    BY <1>3, <2>1, <2>2 DEF PublishRecvTerminal, feVars, CauseKnown, Terminal, IdleCb,
       TypeOK, CbStates
  <2> QED
    BY <2>4, <2>5, <2>6, <2>7, <2>8
<1>4. ASSUME RecordCause PROVE IInv'
  <2>1. /\ conn' \in ConnSlot /\ conn'.terminal # NoCause
        /\ conn.observed => conn' = conn
        /\ conn'.observed = conn.observed
    <3> DEFINE c == ClassifyConnShutdown(nat.conn \in {"peer", "local"}, nat.conn = "peer", "OTHER")
    <3>1. c \in ConnectionTerminal
      BY DEF c, ClassifyConnShutdown, ClassifyTransport, ConnectionTerminal, SpecificCause
    <3> HIDE DEF c
    <3>2. conn' = RecordConnTerminal(conn, c)
      BY <1>4 DEF RecordCause, c
    <3> QED
      BY <3>1, <3>2, RecordFacts DEF TypeOK, CauseKnown
  <2>2. cb' \in CbStates
    BY <1>4 DEF RecordCause, TypeOK, CbStates
  <2>3. TypeOK'
    BY <1>4, <2>2, <2>1 DEF RecordCause, budgetVars, chanVars, feVars, TypeOK
  <2>4. Ranges'
    BY <1>4 DEF RecordCause, budgetVars, chanVars, feVars, Ranges
  <2>5. Settled(st)' /\ Snapshot'
    BY <1>4 DEF RecordCause, budgetVars, chanVars, feVars, Settled, Snapshot, AtLimit,
       TypeOK, CbStates, Pause, Handler
  <2>6. Pause'
    BY <1>4 DEF RecordCause, budgetVars, chanVars, feVars, TypeOK, CbStates, FeStates,
       NatStates, Pause, Handler, Owed, Completing, Decided, PausedIsOwed, CompletesOutstanding
  <2>7. CauseKnown'
    BY <1>4, <2>1 DEF RecordCause, budgetVars, chanVars, feVars, CauseKnown, TypeOK, CbStates
  <2> QED
    BY <2>3, <2>4, <2>5, <2>6, <2>7
<1>5. ASSUME CloseChannel PROVE IInv'
  <2>1. cb' \in CbStates
    BY <1>5 DEF CloseChannel, TypeOK, CbStates, IdleCb
  <2>2. TypeOK'
    BY <1>5, <2>1 DEF CloseChannel, budgetVars, feVars, Wake, TypeOK
  <2>3. Ranges'
    BY <1>5 DEF CloseChannel, budgetVars, feVars, Wake, Ranges, IdleCb
  <2>4. Settled(st)' /\ Snapshot'
    BY <1>5 DEF CloseChannel, budgetVars, feVars, Wake, Settled, Snapshot, AtLimit, IdleCb,
       TypeOK, CbStates, Pause, Handler
  <2>5. Pause'
    BY <1>5 DEF CloseChannel, budgetVars, feVars, Wake, IdleCb, TypeOK, CbStates, FeStates,
       NatStates, Pause, Handler, Owed, Completing, Decided, PausedIsOwed, CompletesOutstanding
  <2>6. CauseKnown'
    BY <1>5 DEF CloseChannel, budgetVars, feVars, Wake, IdleCb, CauseKnown, TypeOK, CbStates
  <2> QED
    BY <2>2, <2>3, <2>4, <2>5, <2>6
<1>6. ASSUME ReturnFromReceive PROVE IInv'
  <2>1. cb' \in CbStates
    BY <1>6 DEF ReturnFromReceive, TypeOK, CbStates, IdleCb
  <2>2. nat' \in NatStates
    BY <1>6 DEF ReturnFromReceive, TypeOK, NatStates
  <2>3. TypeOK'
    BY <1>6, <2>1, <2>2 DEF ReturnFromReceive, budgetVars, chanVars, feVars, TypeOK
  <2>4. Ranges'
    BY <1>6 DEF ReturnFromReceive, budgetVars, chanVars, feVars, Ranges, IdleCb
  <2>5. Settled(st)' /\ Snapshot'
    BY <1>6 DEF ReturnFromReceive, budgetVars, chanVars, feVars, Settled, Snapshot, AtLimit,
       IdleCb, TypeOK, CbStates, Pause, Handler
  <2>6. Pause'
    BY <1>6 DEF ReturnFromReceive, budgetVars, chanVars, feVars, IdleCb, TypeOK, CbStates,
       FeStates, NatStates, Pause, Handler, Owed, Completing, Decided, PausedIsOwed,
       CompletesOutstanding
  <2>7. CauseKnown'
    BY <1>6 DEF ReturnFromReceive, budgetVars, chanVars, feVars, IdleCb, CauseKnown, TypeOK,
       CbStates
  <2> QED
    BY <2>3, <2>4, <2>5, <2>6, <2>7
<1>7. ASSUME CallbackPanic PROVE IInv'
  <2>1. cb' \in CbStates
    BY <1>7 DEF CallbackPanic, TypeOK, CbStates, TerminalHandler, IdleCb, TerminalEvents
  <2>2. nat' \in NatStates
    BY <1>7 DEF CallbackPanic, TypeOK, NatStates
  <2>3. TypeOK'
    BY <1>7, <2>1, <2>2 DEF CallbackPanic, budgetVars, chanVars, feVars, TypeOK
  <2>4. Ranges'
    BY <1>7 DEF CallbackPanic, budgetVars, chanVars, feVars, Ranges, TerminalHandler, IdleCb
  <2>5. Settled(st)' /\ Snapshot'
    BY <1>7 DEF CallbackPanic, budgetVars, chanVars, feVars, Settled, Snapshot, AtLimit,
       TerminalHandler, IdleCb, TypeOK, CbStates, Pause, Handler
  <2>6. Pause'
    BY <1>7 DEF CallbackPanic, budgetVars, chanVars, feVars, TerminalHandler, IdleCb,
       TypeOK, CbStates, FeStates, NatStates, Pause, Handler, Owed, Completing, Decided,
       PausedIsOwed, CompletesOutstanding
  <2>7. CauseKnown'
    BY <1>7 DEF CallbackPanic, budgetVars, chanVars, feVars, TerminalHandler, IdleCb,
       CauseKnown, TypeOK, CbStates
  <2> QED
    BY <2>3, <2>4, <2>5, <2>6, <2>7
<1>8. ASSUME TakeData PROVE IInv'
  <2>1. /\ 1 \in DOMAIN rq /\ Head(rq) = rq[1] /\ Head(rq) \in Events
        /\ rq' \in Seq(Events)
        /\ \A i \in DOMAIN rq' : i + 1 \in DOMAIN rq /\ rq'[i] = rq[i + 1]
    BY <1>8, TakeHead DEF TakeData, TypeOK
  <2>2. /\ fe' \in FeStates /\ fe'.pc = "drain" /\ fe'.lo = rq[1].lo /\ fe'.hi = rq[1].hi
        /\ taken' \in Nat
    BY <1>8, <2>1 DEF TakeData, IdleFe, FeStates, Events
  <2>3. TypeOK'
    BY <1>8, <2>1, <2>2 DEF TakeData, FeUnchanged, budgetVars, TypeOK
  <2>4. Ranges'
    BY <1>8, <2>1, <2>2 DEF TakeData, Ranges
  <2>5. Settled(st)' /\ Snapshot'
    BY <1>8 DEF TakeData, FeUnchanged, budgetVars, Settled, Snapshot, AtLimit
  <2>6. Pause'
    BY <1>8, <2>2 DEF TakeData, FeUnchanged, budgetVars, CanPoll, Pause, Handler, Owed,
       Completing, Decided, PausedIsOwed, CompletesOutstanding
  <2>7. CauseKnown'
    BY <1>8, <2>1, <2>2 DEF TakeData, FeUnchanged, CauseKnown
  <2> QED
    BY <2>3, <2>4, <2>5, <2>6, <2>7
<1>9. ASSUME TakeTerminal PROVE IInv'
  <2>1. /\ 1 \in DOMAIN rq /\ Head(rq) = rq[1] /\ Head(rq) \in Events
        /\ rq' \in Seq(Events)
        /\ \A i \in DOMAIN rq' : i + 1 \in DOMAIN rq /\ rq'[i] = rq[i + 1]
    BY <1>9, TakeHead DEF TakeTerminal, TypeOK
  <2>2. /\ fe' \in FeStates /\ fe'.pc \in {"idle", "observe"} /\ fe'.lo <= fe'.hi
        /\ fe'.pc = "observe" => rq[1].ev = "Connection"
        /\ terminal' \in TerminalEvents \cup {"none"}
    <3>1. CASE Head(rq).ev = "Connection"
      BY <1>9, <2>1, <3>1 DEF TakeTerminal, CanPoll, IdleFe, FeStates
    <3>2. CASE ~(Head(rq).ev = "Connection")
      BY <1>9, <2>1, <3>2 DEF TakeTerminal, CanPoll, FeStates, Events, TypeOK, Ranges
    <3> QED
      BY <3>1, <3>2
  <2>3. TypeOK'
    BY <1>9, <2>1, <2>2 DEF TakeTerminal, FeUnchanged, budgetVars, TypeOK
  <2>4. Ranges'
    BY <1>9, <2>1, <2>2 DEF TakeTerminal, Ranges
  <2>5. Settled(st)' /\ Snapshot'
    BY <1>9 DEF TakeTerminal, FeUnchanged, budgetVars, Settled, Snapshot, AtLimit
  <2>6. Pause'
    BY <1>9, <2>2 DEF TakeTerminal, FeUnchanged, budgetVars, CanPoll, Pause, Handler, Owed,
       Completing, Decided, PausedIsOwed, CompletesOutstanding
  <2>7. CauseKnown'
    BY <1>9, <2>1, <2>2 DEF TakeTerminal, FeUnchanged, CauseKnown
  <2> QED
    BY <2>3, <2>4, <2>5, <2>6, <2>7
<1>11. ASSUME TakeNothing PROVE IInv'
  <2>1. TypeOK'
    BY <1>11 DEF TakeNothing, FeUnchanged, budgetVars, TypeOK
  <2>2. Ranges'
    BY <1>11 DEF TakeNothing, FeUnchanged, budgetVars, Ranges
  <2>3. Settled(st)' /\ Snapshot'
    BY <1>11 DEF TakeNothing, FeUnchanged, budgetVars, Settled, Snapshot, AtLimit, TypeOK,
       CbStates, Pause, Handler
  <2>4. Pause'
    BY <1>11 DEF TakeNothing, FeUnchanged, budgetVars, TypeOK, CbStates, FeStates,
       NatStates, Pause, Handler, Owed, Completing, Decided, PausedIsOwed, CompletesOutstanding
  <2>5. CauseKnown'
    BY <1>11 DEF TakeNothing, FeUnchanged, budgetVars, CauseKnown, TypeOK, CbStates
  <2> QED
    BY <2>1, <2>2, <2>3, <2>4, <2>5
<1>12. ASSUME ObserveCause PROVE IInv'
  <2>1. /\ conn' \in ConnSlot /\ conn'.terminal = conn.terminal /\ conn'.observed
        /\ conn.terminal \in ConnectionTerminal
    BY <1>12 DEF ObserveCause, CauseKnown, TypeOK, ConnSlot, ObserveConnWinner
  <2>2. fe' \in FeStates
    BY <1>12 DEF ObserveCause, IdleFe, FeStates
  <2>3. TypeOK'
    BY <1>12, <2>2, <2>1 DEF ObserveCause, budgetVars, chanVars, TerminalEvents, TypeOK
  <2>4. Ranges'
    BY <1>12 DEF ObserveCause, budgetVars, chanVars, TerminalEvents, Ranges, IdleFe
  <2>5. Settled(st)' /\ Snapshot'
    BY <1>12 DEF ObserveCause, budgetVars, chanVars, TerminalEvents, Settled, Snapshot,
       AtLimit, IdleFe, TypeOK, CbStates, Pause, Handler
  <2>6. Pause'
    BY <1>12 DEF ObserveCause, budgetVars, chanVars, TerminalEvents, IdleFe, TypeOK,
       CbStates, FeStates, NatStates, Pause, Handler, Owed, Completing, Decided, PausedIsOwed,
       CompletesOutstanding
  <2>7. CauseKnown'
    BY <1>12, <2>1 DEF ObserveCause, budgetVars, chanVars, TerminalEvents, IdleFe,
       CauseKnown, TypeOK, CbStates
  <2> QED
    BY <2>3, <2>4, <2>5, <2>6, <2>7
<1>13. ASSUME DrainBudget PROVE IInv'
  <2> DEFINE len == fe.hi - fe.lo
             rearms == Rearms(Drained(st, len))
  <2>1. len \in Nat
    BY DEF TypeOK, FeStates, Ranges
  <2>2. /\ st' \in RecvStates /\ Settled(st')
        /\ st'.pend_outstanding <=> st.pend_outstanding /\ ~rearms
        /\ rearms => st.pend_outstanding
        /\ st'.pend_outstanding => st'.pending_indication_len = st.pending_indication_len
    BY <1>13, <2>1, DrainSettles DEF DrainBudget, TypeOK
  <2>3. fe' = IF rearms THEN [IdleFe EXCEPT !.pc = "complete", !.len = st.pending_indication_len]
                        ELSE IdleFe
    BY <1>13 DEF DrainBudget
  <2>4. UNCHANGED <<locked, saved, chanVars, half, terminal, taken, poisoned, cb, conn, told, nat>>
    BY <1>13 DEF DrainBudget
  <2>5. ~locked /\ fe.pc = "drain"
    BY <1>13 DEF DrainBudget
  <2> HIDE DEF len, rearms
  <2>6. /\ fe'.pc = IF rearms THEN "complete" ELSE "idle"
        /\ rearms => fe'.len = st.pending_indication_len
    BY <2>3 DEF IdleFe
  <2>7. fe' \in FeStates
    BY <2>3 DEF TypeOK, IdleFe, FeStates, RecvStates
  <2>8. TypeOK'
    BY <1>13, <2>7, <2>2, <2>4 DEF chanVars, TypeOK
  <2>9. Ranges'
    BY <2>3, <2>4 DEF chanVars, Ranges, IdleFe
  <2>10. Settled(st)' /\ Snapshot'
    BY <2>2, <2>4 DEF Settled, Snapshot, AtLimit
  <2>11. Pause'
    BY <2>2, <2>4, <2>5, <2>6 DEF Snapshot, TypeOK, CbStates, Pause, Handler, Owed,
       Completing, Decided, PausedIsOwed, CompletesOutstanding
  <2>12. CauseKnown'
    BY <2>3, <2>4 DEF chanVars, CauseKnown, IdleFe
  <2> QED
    BY <2>8, <2>9, <2>10, <2>11, <2>12
<1>14. ASSUME ReceiveComplete PROVE IInv'
  <2>1. nat' \in NatStates
    BY <1>14 DEF ReceiveComplete, TypeOK, NatStates
  <2>2. fe' \in FeStates
    BY <1>14 DEF ReceiveComplete, IdleFe, FeStates
  <2>3. TypeOK'
    BY <1>14, <2>1, <2>2 DEF ReceiveComplete, budgetVars, chanVars, TypeOK
  <2>4. Ranges'
    BY <1>14 DEF ReceiveComplete, budgetVars, chanVars, Ranges, IdleFe
  <2>5. Settled(st)' /\ Snapshot'
    BY <1>14 DEF ReceiveComplete, budgetVars, chanVars, Settled, Snapshot, AtLimit, IdleFe,
       TypeOK, CbStates, Pause, Handler
  <2>6. Pause'
    BY <1>14 DEF ReceiveComplete, budgetVars, chanVars, IdleFe, TypeOK, CbStates, FeStates,
       NatStates, Pause, Handler, Owed, Completing, Decided, PausedIsOwed, CompletesOutstanding
  <2>7. CauseKnown'
    BY <1>14 DEF ReceiveComplete, budgetVars, chanVars, IdleFe, CauseKnown, TypeOK, CbStates
  <2> QED
    BY <2>3, <2>4, <2>5, <2>6, <2>7
<1>15. ASSUME StopSending PROVE IInv'
  <2>1. nat' \in NatStates
    BY <1>15 DEF StopSending, TypeOK, NatStates
  <2>2. TypeOK'
    BY <1>15, <2>1 DEF StopSending, budgetVars, chanVars, TypeOK
  <2>3. Ranges'
    BY <1>15 DEF StopSending, budgetVars, chanVars, Ranges
  <2>4. Settled(st)' /\ Snapshot'
    BY <1>15 DEF StopSending, budgetVars, chanVars, Settled, Snapshot, AtLimit, TypeOK,
       CbStates, Pause, Handler
  <2>5. Pause'
    BY <1>15 DEF StopSending, budgetVars, chanVars, TypeOK, CbStates, FeStates, NatStates,
       Pause, Handler, Owed, Completing, Decided, PausedIsOwed, CompletesOutstanding
  <2>6. CauseKnown'
    BY <1>15 DEF StopSending, budgetVars, chanVars, CauseKnown, TypeOK, CbStates
  <2> QED
    BY <2>2, <2>3, <2>4, <2>5, <2>6
<1>16. ASSUME DropHalf PROVE IInv'
  <2>1. rq' \in Seq(Events)
    BY <1>16 DEF DropHalf
  <2>2. TypeOK'
    BY <1>16, <2>1 DEF DropHalf, budgetVars, TypeOK
  <2>3. Ranges'
    BY <1>16 DEF DropHalf, budgetVars, Ranges
  <2>4. Settled(st)' /\ Snapshot'
    BY <1>16 DEF DropHalf, budgetVars, Settled, Snapshot, AtLimit, TypeOK, CbStates, Pause, Handler
  <2>5. Pause'
    BY <1>16 DEF DropHalf, budgetVars, TypeOK, CbStates, FeStates, NatStates, Pause,
       Handler, Owed, Completing, Decided, PausedIsOwed, CompletesOutstanding
  <2>6. CauseKnown'
    BY <1>16 DEF DropHalf, budgetVars, CauseKnown, TypeOK, CbStates
  <2> QED
    BY <2>2, <2>3, <2>4, <2>5, <2>6
<1>17. ASSUME PeerSendShutdown PROVE IInv'
  <2>1. cb' \in CbStates
    BY <1>17 DEF PeerSendShutdown, Enter, TerminalHandler, IdleCb, TerminalEvents, TypeOK, CbStates
  <2>2. nat' \in NatStates
    BY <1>17 DEF PeerSendShutdown, TypeOK, NatStates
  <2>3. TypeOK'
    BY <1>17, <2>1, <2>2 DEF PeerSendShutdown, NativeUnchanged, budgetVars, chanVars, feVars, TypeOK
  <2>4. Ranges'
    BY <1>17 DEF PeerSendShutdown, NativeUnchanged, budgetVars, chanVars, feVars, Ranges,
       Enter, TerminalHandler, IdleCb
  <2>5. Settled(st)' /\ Snapshot'
    BY <1>17 DEF PeerSendShutdown, NativeUnchanged, budgetVars, chanVars, feVars, Settled,
       Snapshot, AtLimit, Enter, TerminalHandler, IdleCb, TypeOK, CbStates, Pause, Handler
  <2>6. Pause'
    BY <1>17 DEF PeerSendShutdown, NativeUnchanged, budgetVars, chanVars, feVars, Enter,
       TerminalHandler, IdleCb, TypeOK, CbStates, FeStates, NatStates, Pause, Handler, Owed,
       Completing, Decided, PausedIsOwed, CompletesOutstanding
  <2>7. CauseKnown'
    BY <1>17 DEF PeerSendShutdown, NativeUnchanged, budgetVars, chanVars, feVars, Enter,
       TerminalHandler, IdleCb, CauseKnown, TypeOK, CbStates
  <2> QED
    BY <2>3, <2>4, <2>5, <2>6, <2>7
<1>18. ASSUME PeerSendAborted PROVE IInv'
  <2>1. cb' \in CbStates
    BY <1>18 DEF PeerSendAborted, Enter, TerminalHandler, IdleCb, TerminalEvents, TypeOK, CbStates
  <2>2. nat' \in NatStates
    BY <1>18 DEF PeerSendAborted, TypeOK, NatStates
  <2>3. TypeOK'
    BY <1>18, <2>1, <2>2 DEF PeerSendAborted, NativeUnchanged, budgetVars, chanVars, feVars, TypeOK
  <2>4. Ranges'
    BY <1>18 DEF PeerSendAborted, NativeUnchanged, budgetVars, chanVars, feVars, Ranges,
       Enter, TerminalHandler, IdleCb
  <2>5. Settled(st)' /\ Snapshot'
    BY <1>18 DEF PeerSendAborted, NativeUnchanged, budgetVars, chanVars, feVars, Settled,
       Snapshot, AtLimit, Enter, TerminalHandler, IdleCb, TypeOK, CbStates, Pause, Handler
  <2>6. Pause'
    BY <1>18 DEF PeerSendAborted, NativeUnchanged, budgetVars, chanVars, feVars, Enter,
       TerminalHandler, IdleCb, TypeOK, CbStates, FeStates, NatStates, Pause, Handler, Owed,
       Completing, Decided, PausedIsOwed, CompletesOutstanding
  <2>7. CauseKnown'
    BY <1>18 DEF PeerSendAborted, NativeUnchanged, budgetVars, chanVars, feVars, Enter,
       TerminalHandler, IdleCb, CauseKnown, TypeOK, CbStates
  <2> QED
    BY <2>3, <2>4, <2>5, <2>6, <2>7
<1>19. ASSUME ShutdownComplete PROVE IInv'
  <2>1. cb' \in CbStates
    BY <1>19 DEF ShutdownComplete, Enter, ShutdownHandler, IdleCb, TerminalEvents, TypeOK, CbStates
  <2>2. nat' \in NatStates
    BY <1>19 DEF ShutdownComplete, TypeOK, NatStates
  <2>3. TypeOK'
    BY <1>19, <2>1, <2>2 DEF ShutdownComplete, NativeUnchanged, budgetVars, chanVars, feVars, TypeOK
  <2>4. Ranges'
    BY <1>19 DEF ShutdownComplete, NativeUnchanged, budgetVars, chanVars, feVars, Ranges,
       Enter, ShutdownHandler, IdleCb
  <2>5. Settled(st)' /\ Snapshot'
    BY <1>19 DEF ShutdownComplete, NativeUnchanged, budgetVars, chanVars, feVars, Settled,
       Snapshot, AtLimit, Enter, ShutdownHandler, IdleCb, TypeOK, CbStates, Pause, Handler
  <2>6. Pause'
    BY <1>19 DEF ShutdownComplete, NativeUnchanged, budgetVars, chanVars, feVars, Enter,
       ShutdownHandler, IdleCb, TypeOK, CbStates, FeStates, NatStates, Pause, Handler, Owed,
       Completing, Decided, PausedIsOwed, CompletesOutstanding
  <2>7. CauseKnown'
    BY <1>19 DEF ShutdownComplete, NativeUnchanged, budgetVars, chanVars, feVars, Enter,
       ShutdownHandler, IdleCb, CauseKnown, TypeOK, CbStates
  <2> QED
    BY <2>3, <2>4, <2>5, <2>6, <2>7
<1>20. ASSUME ConnectionEnds PROVE IInv'
  <2>1. /\ conn' \in ConnSlot
        /\ conn.terminal # NoCause => conn'.terminal # NoCause
        /\ conn'.observed = conn.observed
    BY <1>20, RecordFacts DEF ConnectionEnds, CauseKnown, TypeOK, ConnectionTerminal, SpecificCause
  <2>2. nat' \in NatStates
    BY <1>20 DEF ConnectionEnds, TypeOK, NatStates
  <2>3. TypeOK'
    BY <1>20, <2>2, <2>1 DEF ConnectionEnds, budgetVars, chanVars, feVars, TypeOK
  <2>4. Ranges'
    BY <1>20 DEF ConnectionEnds, budgetVars, chanVars, feVars, Ranges
  <2>5. Settled(st)' /\ Snapshot'
    BY <1>20 DEF ConnectionEnds, budgetVars, chanVars, feVars, Settled, Snapshot, AtLimit,
       TypeOK, CbStates, Pause, Handler
  <2>6. Pause'
    BY <1>20 DEF ConnectionEnds, budgetVars, chanVars, feVars, TypeOK, CbStates, FeStates,
       NatStates, Pause, Handler, Owed, Completing, Decided, PausedIsOwed, CompletesOutstanding
  <2>7. CauseKnown'
    BY <1>20, <2>1 DEF ConnectionEnds, budgetVars, chanVars, feVars, CauseKnown, TypeOK, CbStates
  <2> QED
    BY <2>3, <2>4, <2>5, <2>6, <2>7
<1>21. ASSUME OpenerClose PROVE IInv'
  <2>1. /\ conn' \in ConnSlot
        /\ conn.terminal # NoCause => conn'.terminal # NoCause
        /\ conn'.observed = conn.observed
    BY <1>21, RecordFacts DEF OpenerClose, CauseKnown, TypeOK, ConnectionTerminal, SpecificCause
  <2>2. TypeOK'
    BY <1>21, <2>1 DEF OpenerClose, budgetVars, chanVars, feVars, TypeOK
  <2>3. Ranges'
    BY <1>21 DEF OpenerClose, budgetVars, chanVars, feVars, Ranges
  <2>4. Settled(st)' /\ Snapshot'
    BY <1>21 DEF OpenerClose, budgetVars, chanVars, feVars, Settled, Snapshot, AtLimit,
       TypeOK, CbStates, Pause, Handler
  <2>5. Pause'
    BY <1>21 DEF OpenerClose, budgetVars, chanVars, feVars, TypeOK, CbStates, FeStates,
       NatStates, Pause, Handler, Owed, Completing, Decided, PausedIsOwed, CompletesOutstanding
  <2>6. CauseKnown'
    BY <1>21, <2>1 DEF OpenerClose, budgetVars, chanVars, feVars, CauseKnown, TypeOK, CbStates
  <2> QED
    BY <2>2, <2>3, <2>4, <2>5, <2>6
<1>22. ASSUME OtherFrontend PROVE IInv'
  <2>1. /\ conn' \in ConnSlot /\ conn'.terminal = conn.terminal /\ conn'.observed
        /\ conn.terminal \in ConnectionTerminal
    BY <1>22 DEF OtherFrontend, TypeOK, ConnSlot, CommitConn, ObserveConnWinner
  <2>2. TypeOK'
    BY <1>22, <2>1 DEF OtherFrontend, budgetVars, chanVars, feVars, TypeOK
  <2>3. Ranges'
    BY <1>22 DEF OtherFrontend, budgetVars, chanVars, feVars, Ranges
  <2>4. Settled(st)' /\ Snapshot'
    BY <1>22 DEF OtherFrontend, budgetVars, chanVars, feVars, Settled, Snapshot, AtLimit,
       TypeOK, CbStates, Pause, Handler
  <2>5. Pause'
    BY <1>22 DEF OtherFrontend, budgetVars, chanVars, feVars, TypeOK, CbStates, FeStates,
       NatStates, Pause, Handler, Owed, Completing, Decided, PausedIsOwed, CompletesOutstanding
  <2>6. CauseKnown'
    BY <1>22, <2>1 DEF OtherFrontend, budgetVars, chanVars, feVars, CauseKnown, TypeOK, CbStates
  <2> QED
    BY <2>2, <2>3, <2>4, <2>5, <2>6
<1>23. ASSUME NEW n \in 0..MaxInd, NEW fin \in BOOLEAN, Receive(n, fin) PROVE IInv'
  <2>1. n \in Nat /\ n <= MaxInd
    BY RecvAssumption
  <2>2. cb' \in CbStates
    BY <1>23 DEF Receive, Enter, ReceiveHandler, IdleCb, TerminalEvents, TypeOK, CbStates
  <2>3. nat.indicated + n \in Nat
    BY <2>1 DEF TypeOK, NatStates
  <2>4. nat' \in NatStates
    BY <1>23, <2>1, <2>3 DEF Receive, TypeOK, NatStates
  <2>5. TypeOK'
    BY <1>23, <2>2, <2>3, <2>4 DEF Receive, NativeUnchanged, budgetVars, chanVars, feVars, TypeOK
  <2>6. Ranges'
    BY <1>23 DEF Receive, NativeUnchanged, budgetVars, chanVars, feVars, Ranges, Enter,
       ReceiveHandler, IdleCb
  <2>7. Settled(st)' /\ Snapshot'
    BY <1>23 DEF Receive, NativeUnchanged, budgetVars, chanVars, feVars, Settled, Snapshot,
       AtLimit, Enter, ReceiveHandler, IdleCb, TypeOK, CbStates, Pause, Handler
  <2>8. Pause'
    BY <1>23 DEF Receive, NativeUnchanged, budgetVars, chanVars, feVars, Enter,
       ReceiveHandler, IdleCb, TypeOK, CbStates, FeStates, NatStates, Pause, Handler, Owed,
       Completing, Decided, PausedIsOwed, CompletesOutstanding
  <2>9. CauseKnown'
    BY <1>23 DEF Receive, NativeUnchanged, budgetVars, chanVars, feVars, Enter,
       ReceiveHandler, IdleCb, CauseKnown, TypeOK, CbStates
  <2> QED
    BY <2>5, <2>6, <2>7, <2>8, <2>9
<1>24. CASE UNCHANGED vars
  BY <1>24 DEF vars, budgetVars, chanVars, feVars, TypeOK, Ranges, Settled, Snapshot, AtLimit,
     Pause, Handler, Owed, Completing, Decided, PausedIsOwed, CompletesOutstanding, CauseKnown
<1> QED
  BY <1>1, <1>2, <1>3, <1>4, <1>5, <1>6, <1>7, <1>8, <1>9, <1>11, <1>12, <1>13,
     <1>14, <1>15, <1>16, <1>17, <1>18, <1>19, <1>20, <1>21, <1>22, <1>23, <1>24
     DEF Next, CallbackStep, PollData, FrontendStep, NativeStep

\* Hence it holds of every reachable state.
LEMMA Invariance == Spec => []IInv
BY InitIInv, NextIInv, PTL DEF Spec

-----------------------------------------------------------------------------
\* Every variable of the receive half keeps its shape.
THEOREM TypeCorrect == Spec => []TypeOK
BY Invariance, PTL DEF IInv

\* A pend is on record exactly while the budget is at a limit, whatever the limits
\* (admit and on_drained agree, rollback included).
THEOREM PendExactAlways == Spec => []PendExact
<1>1. IInv => PendExact
  BY DEF IInv, Settled, PendExact
<1> QED
  BY <1>1, Invariance, PTL

\* The receive buffer never holds more than the limit and one indication, and never
\* more units than the limit.
THEOREM LimitsRespectedAlways == Spec => []LimitsRespected
<1>1. IInv => LimitsRespected
  BY DEF IInv, Settled, LimitsRespected
<1> QED
  BY <1>1, Invariance, PTL

\* msquic is never left holding an indication nobody will complete.
THEOREM PausedIsOwedAlways == Spec => []PausedIsOwed
BY Invariance, PTL DEF IInv, Pause

\* receive_complete always answers the outstanding indication, once and in full.
THEOREM CompletesOutstandingAlways == Spec => []CompletesOutstanding
BY Invariance, PTL DEF IInv, Pause

-----------------------------------------------------------------------------
(* The receive half implements ConnCause.                                  *)

\* A record in the slot is a Record of the abstract cause, or changes nothing.
LEMMA RecordRefines ==
    ASSUME TypeOK, CauseKnown, NEW c \in ConnectionTerminal,
           conn' = RecordConnTerminal(conn, c), told' = told
    PROVE  [Cause!Next]_Cause!vars
<1>1. CASE conn'.terminal = conn.terminal
  BY <1>1 DEF Cause!vars
<1>2. CASE conn'.terminal # conn.terminal
  <2>1. /\ ~conn.observed
        /\ conn.terminal = NoCause \/ (conn.terminal = "LocalClose" /\ c # "LocalClose")
        /\ conn'.terminal = c
    BY <1>2 DEF TypeOK, ConnSlot, RecordConnTerminal, IsProvisional
  <2>2. told = {}
    BY <2>1 DEF CauseKnown
  <2>3. Cause!Record(c)
    BY <2>1, <2>2 DEF Cause!Record, NoCause, Cause!NoCause
  <2> QED
    BY <2>3 DEF Cause!Next, ConnectionTerminal, SpecificCause,
                Cause!ConnectionTerminal, Cause!SpecificCause
<1> QED
  BY <1>1, <1>2

\* A frontend that reports the slot's cause delivers the abstract one.
LEMMA DeliverRefines ==
    ASSUME conn.terminal # NoCause, conn'.terminal = conn.terminal,
           told' = told \cup {conn.terminal}
    PROVE  [Cause!Next]_Cause!vars
BY DEF Cause!Next, Cause!Deliver, NoCause, Cause!NoCause

\* The receive half, its unconditional freeze and its neighbours' reports included,
\* keeps ConnCause's promise: one cause reaches h3, and a reported cause is final.
THEOREM CauseRefinement == Spec => CauseSpec
<1>1. Init => Cause!Init
  BY DEF Init, EmptySlot, Cause!Init, NoCause, Cause!NoCause
<1>2. IInv /\ [Next]_vars => [Cause!Next]_Cause!vars
  <2> SUFFICES ASSUME IInv, [Next]_vars PROVE [Cause!Next]_Cause!vars
    OBVIOUS
  <2>1. CASE ConnectionEnds \/ OpenerClose
    BY <2>1, RecordRefines DEF ConnectionEnds, OpenerClose, IInv, Cause!vars,
                               ConnectionTerminal, SpecificCause
  <2>2. CASE RecordCause
    <3> DEFINE c == ClassifyConnShutdown(nat.conn \in {"peer", "local"}, nat.conn = "peer", "OTHER")
    <3>1. c \in ConnectionTerminal
      BY DEF c, ClassifyConnShutdown, ClassifyTransport, ConnectionTerminal, SpecificCause
    <3> HIDE DEF c
    <3>2. conn' = RecordConnTerminal(conn, c) /\ told' = told
      BY <2>2 DEF RecordCause, c
    <3> QED
      BY <3>1, <3>2, RecordRefines DEF IInv
  <2>3. CASE ObserveCause \/ OtherFrontend
    <3>1. /\ conn.terminal # NoCause /\ conn'.terminal = conn.terminal
          /\ told' = told \cup {conn.terminal}
      BY <2>3 DEF ObserveCause, OtherFrontend, CommitConn, ObserveConnWinner, IInv,
                  CauseKnown, TypeOK, ConnSlot
    <3> QED
      BY <3>1, DeliverRefines
  <2>4. CASE UNCHANGED <<conn, told>>
    BY <2>4 DEF Cause!vars
  <2>5. \/ ConnectionEnds \/ OpenerClose \/ RecordCause \/ ObserveCause \/ OtherFrontend
        \/ UNCHANGED <<conn, told>>
    BY DEF Next, CallbackStep, PollData, FrontendStep, NativeStep, vars,
           AdmitAccount, AdmitPublish, PublishRecvTerminal, CloseChannel, ReturnFromReceive,
           CallbackPanic, TakeData, TakeTerminal, TakeNothing, DrainBudget,
           ReceiveComplete, StopSending, DropHalf, Receive, PeerSendShutdown,
           PeerSendAborted, ShutdownComplete, FeUnchanged, NativeUnchanged
  <2> QED
    BY <2>1, <2>2, <2>3, <2>4, <2>5
<1> QED
  BY <1>1, <1>2, Invariance, PTL DEF Spec, CauseSpec, Cause!Spec

-----------------------------------------------------------------------------
(* The second invariant: what is in the channel, on top of the first.      *)

\* The bytes that went through the channel or were refused by nobody: all that was
\* indicated but what admit has in its hands.
Published == nat.indicated - (IF cb.pc \in {"account", "publish"} THEN cb.n ELSE 0)

\* How a stream ends: a direction that is over has its terminal in the channel, with the
\* reader or on its way there, and nothing is admitted behind it.
Ends ==
    /\ cb.ev # "none" \/ sent \/ cb.pc \in {"record", "close"} => nat.dir # "open"
    /\ ~rqOpen /\ half # "dropped" => nat.dir # "open"
    /\ ~rqOpen /\ half = "live" => sent
    /\ cb.pc \in {"account", "publish"} => ~sent
    /\ nat.dir # "open" /\ half = "live" /\ ~sent =>
          cb.pc \in {"account", "publish", "record", "terminal"} /\ cb.ev # "none"

\* Whether and where the terminal is.
Terminated ==
    /\ sent /\ half = "live" =>
          terminal # "none" \/ fe.pc = "observe" \/ (rq # <<>> /\ rq[Len(rq)].ev # "Data")
    /\ terminal # "none" \/ fe.pc = "observe" => sent
    /\ \A i \in DOMAIN rq : rq[i].ev # "Data" => sent
    /\ half = "dropped" => rq = <<>>
    /\ fe.pc # "idle" => half = "live" /\ terminal = "none"

\* The channel ends where admit will go on.
Tip ==
    half # "dropped" /\ ~poisoned =>
        /\ taken <= Published /\ \A i \in DOMAIN rq : rq[i].ev = "Data" => rq[i].hi <= Published
        /\ rq = <<>> \/ rq[1].ev # "Data" => taken = Published
        /\ \A i \in DOMAIN rq :
              rq[i].ev = "Data" /\ (i = Len(rq) \/ rq[i + 1].ev # "Data") => rq[i].hi = Published
        /\ fe.pc = "observe" => taken = nat.indicated

\* The charged units, by the length of the channel: only its last event is no data.
DataCount == IF rq # <<>> /\ rq[Len(rq)].ev # "Data" THEN Len(rq) - 1 ELSE Len(rq)
Counted ==
    /\ fe.pc = "drain" => fe.hi = taken
    /\ half # "dropped" /\ ~poisoned =>
          st.buffered = Charged - Undrained /\ st.units = DataCount + InHand + InAdmit

Flow == Ends /\ Terminated /\ DeliveredInOrder /\ Tip /\ Counted /\ TerminalAfterData /\ NoReasonlessClose

\* A new stream has an empty channel.
LEMMA InitFlow == Init => Flow
<1> SUFFICES ASSUME Init PROVE Flow
  OBVIOUS
<1>1. /\ rq = <<>> /\ rqOpen /\ ~sent /\ cb.pc = "idle" /\ cb.ev = "none" /\ fe.pc = "idle" /\ half = "live"
      /\ terminal = "none" /\ taken = 0 /\ nat.indicated = 0 /\ nat.dir = "open" /\ st.buffered = 0 /\ st.units = 0
  BY DEF Init, IdleCb, IdleFe, EmptyState
<1>2. Ends /\ Terminated
  BY <1>1 DEF Ends, Terminated
<1>3. DeliveredInOrder /\ Tip /\ TerminalAfterData /\ NoReasonlessClose
  BY <1>1 DEF DeliveredInOrder, Tip, Published, TerminalAfterData, NoReasonlessClose
<1>4. Counted
  BY <1>1 DEF Counted, DataCount, Charged, Undrained, InHand, InAdmit
<1> QED
  BY <1>2, <1>3, <1>4 DEF Flow

\* Steps that leave the channel and the reader's bytes alone.
LEMMA ChannelKept ==
    ASSUME Flow, UNCHANGED <<rq, taken, st>>, half' # "dropped" => half # "dropped", ~poisoned' => ~poisoned,
           half' # "dropped" /\ ~poisoned' =>
               Published' = Published /\ Charged' = Charged /\ InAdmit' = InAdmit,
           UNCHANGED fe \/ (fe'.pc = "idle" /\ fe.pc # "drain"),
           fe.pc = "observe" => nat'.indicated = nat.indicated
    PROVE  DeliveredInOrder' /\ Tip' /\ Counted'
<1>1. DeliveredInOrder'
  BY DEF Flow, DeliveredInOrder
<1>2. Tip'
  BY DEF Flow, Tip
<1>3. InHand' = InHand /\ Undrained' = Undrained /\ DataCount' = DataCount
  BY DEF InHand, Undrained, DataCount
<1>4. Counted'
  BY <1>3 DEF Flow, Counted
<1> QED
  BY <1>1, <1>2, <1>4

\* And say nothing to the reader.
LEMMA ReaderKept ==
    ASSUME Flow, UNCHANGED <<terminal, taken>>, ~poisoned' => ~poisoned,
           terminal # "none" => nat'.indicated = nat.indicated
    PROVE  TerminalAfterData' /\ NoReasonlessClose'
BY DEF Flow, TerminalAfterData, NoReasonlessClose

\* The callback, but for admit and the publication of a terminal.
LEMMA CallbackFlow ==
    ASSUME IInv, Flow, RecordCause \/ CloseChannel \/ ReturnFromReceive \/ CallbackPanic PROVE Flow'
<1>a. TypeOK /\ Handler
  BY DEF IInv, Pause
<1>b. cb \in CbStates /\ nat \in NatStates
  BY <1>a DEF TypeOK
<1>1. CASE RecordCause
  <2>1. /\ cb.pc = "record" /\ cb'.pc = "terminal" /\ cb'.ev = cb.ev /\ cb.ev # "none"
        /\ UNCHANGED <<st, rq, rqOpen, sent, fe, half, terminal, taken, poisoned, nat>>
    BY <1>1, <1>a, <1>b DEF RecordCause, CbStates, Handler, budgetVars, chanVars, feVars
  <2>2. Published' = Published /\ Charged' = Charged /\ InAdmit' = InAdmit
    BY <2>1 DEF Published, Charged, InAdmit
  <2>3. Ends' /\ Terminated'
    BY <2>1 DEF Flow, Ends, Terminated
  <2> QED
    BY <2>1, <2>2, <2>3, ChannelKept, ReaderKept DEF Flow
<1>2. CASE CloseChannel
  <2>1. /\ cb.pc = "close" /\ cb'.pc = "idle" /\ cb'.ev = "none" /\ rqOpen' = FALSE
        /\ UNCHANGED <<st, rq, sent, fe, half, terminal, taken, poisoned, nat>>
    BY <1>2 DEF CloseChannel, IdleCb, budgetVars, feVars
  <2>2. Published' = Published /\ Charged' = Charged /\ InAdmit' = InAdmit
    BY <2>1 DEF Published, Charged, InAdmit
  <2>3. Ends' /\ Terminated'
    BY <2>1 DEF Flow, Ends, Terminated
  <2> QED
    BY <2>1, <2>2, <2>3, ChannelKept, ReaderKept DEF Flow
<1>3. CASE ReturnFromReceive
  <2>1. /\ cb.pc = "return" /\ cb'.pc = "idle" /\ cb'.ev = "none"
        /\ UNCHANGED <<st, rq, rqOpen, sent, fe, half, terminal, taken, poisoned>>
    BY <1>3 DEF ReturnFromReceive, IdleCb, budgetVars, chanVars, feVars
  <2>2. nat'.indicated = nat.indicated /\ nat'.dir = nat.dir
    BY <1>3, <1>b DEF ReturnFromReceive, NatStates
  <2>3. Published' = Published /\ Charged' = Charged /\ InAdmit' = InAdmit
    BY <2>1, <2>2 DEF Published, Charged, InAdmit
  <2>4. Ends' /\ Terminated'
    BY <2>1, <2>2 DEF Flow, Ends, Terminated
  <2> QED
    BY <2>1, <2>2, <2>3, <2>4, ChannelKept, ReaderKept DEF Flow
<1>4. CASE CallbackPanic
  <2>1. /\ cb'.pc = "terminal" /\ cb'.ev = "Internal" /\ poisoned'
        /\ UNCHANGED <<st, rq, rqOpen, sent, fe, half, terminal, taken>>
    BY <1>4 DEF CallbackPanic, TerminalHandler, IdleCb, budgetVars, chanVars, feVars
  <2>2. nat'.indicated = nat.indicated /\ nat'.dir # "open" /\ (nat.dir # "open" => nat'.dir # "open")
    BY <1>4, <1>b DEF CallbackPanic, NatStates
  <2>3. Ends' /\ Terminated'
    BY <2>1, <2>2 DEF Flow, Ends, Terminated
  <2> QED
    BY <2>1, <2>2, <2>3, ChannelKept, ReaderKept DEF Flow
<1> QED
  BY <1>1, <1>2, <1>3, <1>4

\* The rest of the connection, and msquic's events that bring no data.
LEMMA OutsideFlow ==
    ASSUME IInv, Flow,
           \/ PeerSendShutdown \/ PeerSendAborted \/ ShutdownComplete
           \/ ConnectionEnds \/ OpenerClose \/ OtherFrontend
    PROVE  Flow'
<1>a. TypeOK /\ Handler
  BY DEF IInv, Pause
<1>b. cb \in CbStates /\ nat \in NatStates
  BY <1>a DEF TypeOK
<1>1. /\ UNCHANGED <<st, rq, rqOpen, sent, fe, half, terminal, taken, poisoned>>
      /\ nat'.indicated = nat.indicated /\ (nat.dir # "open" => nat'.dir # "open")
  BY <1>b DEF PeerSendShutdown, PeerSendAborted, ShutdownComplete, ConnectionEnds, OpenerClose, OtherFrontend,
         NativeUnchanged, budgetVars, chanVars, feVars, NatStates
<1>2. CASE cb' = cb /\ (nat' = nat \/ nat'.dir = nat.dir)
  <2>1. Published' = Published /\ Charged' = Charged /\ InAdmit' = InAdmit
    BY <1>1, <1>2 DEF Published, Charged, InAdmit
  <2>2. Ends' /\ Terminated'
    BY <1>1, <1>2 DEF Flow, Ends, Terminated
  <2> QED
    BY <1>1, <2>1, <2>2, ChannelKept, ReaderKept DEF Flow
<1>3. CASE /\ cb.pc = "idle" /\ nat'.dir # "open"
           /\ \/ poisoned /\ cb' = IdleCb
              \/ cb'.pc \in {"record", "terminal"} /\ cb'.ev # "none"
              \/ cb'.pc = "close" /\ nat.dir # "open"
  <2>1. cb'.pc \notin {"account", "publish"}
    BY <1>3 DEF IdleCb
  <2>2. Published' = Published /\ Charged' = Charged /\ InAdmit' = InAdmit
    BY <1>1, <1>3, <2>1 DEF Published, Charged, InAdmit
  <2>3. poisoned => nat.dir # "open"
    BY <1>a DEF Handler
  <2>4. Ends' /\ Terminated'
    BY <1>1, <1>3, <2>1, <2>3 DEF Flow, Ends, Terminated
  <2> QED
    BY <1>1, <2>2, <2>4, ChannelKept, ReaderKept DEF Flow
<1>4. CASE ConnectionEnds \/ OpenerClose \/ OtherFrontend
  BY <1>2, <1>4, <1>b DEF ConnectionEnds, OpenerClose, OtherFrontend, NatStates
<1>5. CASE PeerSendShutdown \/ PeerSendAborted
  BY <1>3, <1>5, <1>b DEF PeerSendShutdown, PeerSendAborted, Enter, TerminalHandler, IdleCb, NatStates
<1>6. CASE ShutdownComplete
  BY <1>3, <1>6, <1>b DEF ShutdownComplete, Enter, ShutdownHandler, IdleCb, NatStates
<1> QED
  BY <1>4, <1>5, <1>6

\* The reader's steps that take nothing off the channel: a channel that is closed while
\* h3 reads holds the terminal.
LEMMA ReaderFlow ==
    ASSUME IInv, Flow, ObserveCause \/ ReceiveComplete \/ StopSending \/ DropHalf \/ TakeNothing PROVE Flow'
<1>a. TypeOK
  BY DEF IInv
<1>b. cb \in CbStates /\ nat \in NatStates /\ fe \in FeStates
  BY <1>a DEF TypeOK
<1>1. UNCHANGED <<st, rqOpen, sent, taken, poisoned, cb>>
  BY DEF ObserveCause, ReceiveComplete, StopSending, DropHalf, TakeNothing, FeUnchanged, budgetVars, chanVars, feVars
<1>2. nat'.indicated = nat.indicated /\ (nat.dir # "open" => nat'.dir # "open") /\ (nat'.dir = nat.dir \/ half' # "live")
  BY <1>b DEF ObserveCause, ReceiveComplete, StopSending, DropHalf, TakeNothing, FeUnchanged, NatStates
<1>3. Published' = Published /\ Charged' = Charged /\ InAdmit' = InAdmit
  BY <1>1, <1>2 DEF Published, Charged, InAdmit
<1>4. CASE ObserveCause
  <2>1. fe.pc = "observe" /\ fe'.pc = "idle" /\ terminal' = "Connection" /\ UNCHANGED <<rq, half, nat>>
    BY <1>4 DEF ObserveCause, IdleFe, chanVars
  <2>2. Ends' /\ Terminated'
    BY <1>1, <2>1 DEF Flow, Ends, Terminated
  <2>3. DeliveredInOrder' /\ Tip' /\ Counted'
    BY <1>1, <1>2, <1>3, <2>1, ChannelKept
  <2>4. TerminalAfterData' /\ NoReasonlessClose'
    BY <1>1, <2>1 DEF Flow, Tip, Terminated, TerminalAfterData, NoReasonlessClose
  <2> QED
    BY <2>2, <2>3, <2>4 DEF Flow
<1>5. CASE ReceiveComplete
  <2>1. fe.pc = "complete" /\ fe'.pc = "idle" /\ UNCHANGED <<rq, half, terminal>>
    BY <1>5 DEF ReceiveComplete, IdleFe, chanVars
  <2>2. nat'.dir = nat.dir
    BY <1>5, <1>b DEF ReceiveComplete, NatStates
  <2>3. Ends' /\ Terminated'
    BY <1>1, <2>1, <2>2 DEF Flow, Ends, Terminated
  <2> QED
    BY <1>1, <1>2, <1>3, <2>1, <2>3, ChannelKept, ReaderKept DEF Flow
<1>6. CASE StopSending
  <2>1. half = "live" /\ half' = "closed" /\ UNCHANGED <<rq, fe, terminal>> /\ fe.pc = "idle"
    BY <1>6 DEF StopSending, chanVars
  <2>2. Ends' /\ Terminated'
    BY <1>1, <1>2, <2>1 DEF Flow, Ends, Terminated
  <2> QED
    BY <1>1, <1>2, <1>3, <2>1, <2>2, ChannelKept, ReaderKept DEF Flow
<1>7. CASE DropHalf
  <2>1. half' = "dropped" /\ rq' = <<>> /\ UNCHANGED <<fe, terminal, nat>> /\ fe.pc = "idle"
    BY <1>7 DEF DropHalf
  <2>2. Ends' /\ Terminated'
    BY <1>1, <1>2, <2>1 DEF Flow, Ends, Terminated
  <2>3. DeliveredInOrder' /\ Tip' /\ Counted'
    BY <2>1 DEF DeliveredInOrder, Tip, Counted
  <2> QED
    BY <1>1, <2>1, <2>2, <2>3, ReaderKept DEF Flow
<1>8. CASE TakeNothing
  <2>1. half = "live" /\ terminal = "none" /\ fe.pc = "idle" /\ rq = <<>> /\ UNCHANGED <<rq, fe, half, nat>>
    BY <1>8 DEF TakeNothing, CanPoll, FeUnchanged
  <2>2. rqOpen
    BY <2>1 DEF Flow, Ends, Terminated
  <2>3. terminal' = terminal
    BY <1>8, <2>2 DEF TakeNothing
  <2>4. Ends' /\ Terminated'
    BY <1>1, <2>1, <2>3 DEF Flow, Ends, Terminated
  <2> QED
    BY <1>1, <1>3, <2>1, <2>3, <2>4, ChannelKept, ReaderKept DEF Flow
<1> QED
  BY <1>4, <1>5, <1>6, <1>7, <1>8

\* on_drained releases exactly the bytes and the unit of the event that was taken.
LEMMA DrainFlow ==
    ASSUME IInv, Flow, DrainBudget PROVE Flow'
<1>a. TypeOK /\ Ranges
  BY DEF IInv
<1>b. cb \in CbStates /\ nat \in NatStates /\ fe \in FeStates /\ st \in RecvStates /\ rq \in Seq(Events)
      /\ taken \in Nat
  BY <1>a DEF TypeOK
<1>1. /\ fe.pc = "drain" /\ st' = OnDrained(st, fe.hi - fe.lo)
      /\ UNCHANGED <<rq, rqOpen, sent, half, terminal, taken, poisoned, cb, nat>>
  BY DEF DrainBudget, chanVars
<1>2. fe'.pc \in {"idle", "complete"}
  BY DEF DrainBudget, IdleFe
<1>3. half = "live" /\ terminal = "none" /\ fe.hi = taken /\ fe.lo \in Nat /\ fe.hi \in Nat /\ fe.lo <= fe.hi
  BY <1>1, <1>a, <1>b DEF Flow, Terminated, Counted, Ranges, FeStates
<1>4. Ends' /\ Terminated'
  BY <1>1, <1>2, <1>3 DEF Flow, Ends, Terminated
<1>5. DeliveredInOrder' /\ Tip'
  <2>1. Published' = Published
    BY <1>1 DEF Published
  <2> QED
    BY <1>1, <1>2, <2>1 DEF Flow, DeliveredInOrder, Tip
<1>6. st'.buffered = Minus(st.buffered, fe.hi - fe.lo) /\ st'.units = Minus(st.units, 1)
  <2> DEFINE n == fe.hi - fe.lo
  <2>1. n \in Nat
    BY <1>3
  <2> HIDE DEF n
  <2>2. Minus(st.buffered, n) \in Nat /\ Minus(st.units, 1) \in Nat
    BY <1>b, <2>1 DEF RecvStates, Minus
  <2>3. PICK d : d = Drained(st, n)
    OBVIOUS
  <2>4. d \in RecvStates /\ d.buffered = Minus(st.buffered, n) /\ d.units = Minus(st.units, 1)
    BY <1>b, <2>2, <2>3 DEF Drained, RecvStates
  <2>5. OnDrained(st, n) = d \/ OnDrained(st, n) = [d EXCEPT !.pend_outstanding = FALSE, !.pending_indication_len = 0]
    BY <2>3 DEF OnDrained
  <2>6. st' = OnDrained(st, n)
    BY <1>1 DEF n
  <2>7. st'.buffered = Minus(st.buffered, n) /\ st'.units = Minus(st.units, 1)
    BY <2>4, <2>5, <2>6 DEF RecvStates
  <2> QED
    BY <2>7 DEF n
<1>7. Counted'
  <2> SUFFICES ASSUME half # "dropped", ~poisoned
               PROVE  st'.buffered = Charged' - Undrained' /\ st'.units = DataCount' + InHand' + InAdmit'
    BY <1>1, <1>2 DEF Counted
  <2>1. st.buffered = Charged - fe.lo /\ st.units = DataCount + 1 + InAdmit
    BY <1>1 DEF Flow, Counted, Undrained, InHand
  <2>2. Charged' = Charged /\ InAdmit' = InAdmit /\ DataCount' = DataCount /\ InHand' = 0 /\ Undrained' = taken
    BY <1>1, <1>2 DEF Charged, InAdmit, DataCount, InHand, Undrained
  <2>3. DataCount \in Nat /\ InAdmit \in Nat /\ Charged \in Int
    BY <1>b DEF DataCount, InAdmit, Charged, CbStates, NatStates
  <2>4. taken <= Charged
    <3>1. taken <= Published /\ Published <= Charged /\ Published \in Int
      BY <1>b DEF Flow, Tip, Published, Charged, CbStates, NatStates
    <3> QED
      BY <1>b, <2>3, <3>1
  <2> QED
    BY <1>3, <1>6, <2>1, <2>2, <2>3, <2>4 DEF Minus
<1>8. TerminalAfterData' /\ NoReasonlessClose'
  BY <1>1, ReaderKept
<1> QED
  BY <1>4, <1>5, <1>7, <1>8 DEF Flow

\* poll_event takes the next range.
LEMMA TakeDataFlow ==
    ASSUME IInv, Flow, TakeData PROVE Flow'
<1>a. TypeOK /\ Ranges
  BY DEF IInv
<1>b. cb \in CbStates /\ nat \in NatStates /\ rq \in Seq(Events) /\ taken \in Nat
  BY <1>a DEF TypeOK
<1>1. /\ half = "live" /\ terminal = "none" /\ fe.pc = "idle" /\ rq # <<>> /\ Head(rq).ev = "Data"
      /\ fe' = [IdleFe EXCEPT !.pc = "drain", !.lo = Head(rq).lo, !.hi = Head(rq).hi]
      /\ taken' = Head(rq).hi /\ rq' = Tail(rq)
      /\ UNCHANGED <<half, terminal, st, rqOpen, sent, poisoned, cb, nat>>
  BY DEF TakeData, CanPoll, FeUnchanged, budgetVars
<1>2. PICK h : h = Head(rq)
  OBVIOUS
<1>3. fe'.pc = "drain" /\ fe'.lo = h.lo /\ fe'.hi = h.hi /\ taken' = h.hi
  BY <1>1, <1>2 DEF IdleFe
<1>4. /\ 1 \in DOMAIN rq /\ h = rq[1] /\ h.ev = "Data" /\ h.lo \in Nat /\ h.hi \in Nat
      /\ rq' \in Seq(Events) /\ Len(rq') = Len(rq) - 1 /\ Len(rq) \in Nat
      /\ DOMAIN rq = 1..Len(rq) /\ DOMAIN rq' = 1..Len(rq')
      /\ \A i \in DOMAIN rq' : i + 1 \in DOMAIN rq /\ rq'[i] = rq[i + 1]
  <2>1. /\ 1 \in DOMAIN rq /\ h = rq[1] /\ h \in Events /\ rq' \in Seq(Events)
        /\ \A i \in DOMAIN rq' : i + 1 \in DOMAIN rq /\ rq'[i] = rq[i + 1]
    BY <1>1, <1>2, <1>b, TakeHead
  <2>2. Len(rq') = Len(rq) - 1 /\ Len(rq) \in Nat /\ DOMAIN rq = 1..Len(rq) /\ DOMAIN rq' = 1..Len(rq')
    BY <1>1, <1>b, <2>1
  <2>3. h.ev = "Data" /\ h.lo \in Nat /\ h.hi \in Nat
    BY <1>1, <1>2, <2>1 DEF Events
  <2> QED
    BY <2>1, <2>2, <2>3
<1>5. h.lo = taken
  BY <1>4 DEF Flow, DeliveredInOrder
<1>6. Ends' /\ Terminated'
  <2>1. sent => rq # <<>> /\ rq[Len(rq)].ev # "Data"
    BY <1>1 DEF Flow, Terminated
  <2>2. sent => rq' # <<>> /\ rq'[Len(rq')].ev # "Data"
    <3>1. sent => Len(rq) # 1
      BY <1>4, <2>1
    <3>2. Len(rq) # 1 => rq' # <<>> /\ Len(rq') \in DOMAIN rq' /\ rq'[Len(rq')] = rq[Len(rq)]
      BY <1>4
    <3> QED
      BY <2>1, <3>1, <3>2
  <2>3. \A i \in DOMAIN rq' : rq'[i].ev # "Data" => sent
    BY <1>4 DEF Flow, Terminated
  <2> QED
    BY <1>1, <1>3, <2>2, <2>3 DEF Flow, Ends, Terminated
<1>7. DeliveredInOrder'
  <2> SUFFICES ASSUME NEW i \in DOMAIN rq'
               PROVE  /\ rq'[i].ev # "Data" => i = Len(rq')
                      /\ rq'[i].ev = "Data" =>
                            rq'[i].lo < rq'[i].hi /\ rq'[i].lo = (IF i = 1 THEN taken' ELSE rq'[i - 1].hi)
    BY DEF DeliveredInOrder
  <2>1. i + 1 \in DOMAIN rq /\ i + 1 # 1 /\ rq'[i] = rq[i + 1] /\ (i + 1) - 1 = i
    BY <1>4
  <2>2. /\ rq[i + 1].ev # "Data" => i + 1 = Len(rq)
        /\ rq[i + 1].ev = "Data" => rq[i + 1].lo < rq[i + 1].hi /\ rq[i + 1].lo = rq[i].hi
    BY <2>1 DEF Flow, DeliveredInOrder
  <2>3. i # 1 => i - 1 \in DOMAIN rq' /\ rq'[i - 1] = rq[i]
    BY <1>4
  <2> QED
    BY <1>3, <1>4, <2>1, <2>2, <2>3
<1>8. Tip'
  <2> SUFFICES ASSUME half # "dropped", ~poisoned
               PROVE  /\ taken' <= Published' /\ \A i \in DOMAIN rq' : rq'[i].ev = "Data" => rq'[i].hi <= Published'
                      /\ rq' = <<>> \/ rq'[1].ev # "Data" => taken' = Published'
                      /\ \A i \in DOMAIN rq' :
                            rq'[i].ev = "Data" /\ (i = Len(rq') \/ rq'[i + 1].ev # "Data") => rq'[i].hi = Published'
    BY <1>1, <1>3 DEF Tip
  <2>1. Published' = Published
    BY <1>1 DEF Published
  <2>2. /\ \A i \in DOMAIN rq : rq[i].ev = "Data" => rq[i].hi <= Published
        /\ \A i \in DOMAIN rq :
              rq[i].ev = "Data" /\ (i = Len(rq) \/ rq[i + 1].ev # "Data") => rq[i].hi = Published
    BY DEF Flow, Tip
  <2>3. taken' <= Published' /\ \A i \in DOMAIN rq' : rq'[i].ev = "Data" => rq'[i].hi <= Published'
    BY <1>3, <1>4, <2>1, <2>2
  <2>4. rq' = <<>> \/ rq'[1].ev # "Data" => taken' = Published'
    <3>1. rq' = <<>> => 1 = Len(rq)
      BY <1>4
    <3>2. rq' # <<>> => 1 \in DOMAIN rq' /\ rq'[1] = rq[1 + 1]
      BY <1>4
    <3> QED
      BY <1>3, <1>4, <2>1, <2>2, <3>1, <3>2
  <2>5. ASSUME NEW i \in DOMAIN rq', rq'[i].ev = "Data", i = Len(rq') \/ rq'[i + 1].ev # "Data"
        PROVE  rq'[i].hi = Published'
    <3>1. i + 1 \in DOMAIN rq /\ rq'[i] = rq[i + 1]
      BY <1>4
    <3>2. i = Len(rq') => i + 1 = Len(rq)
      BY <1>4
    <3>3. i # Len(rq') => i + 1 \in DOMAIN rq' /\ rq'[i + 1] = rq[(i + 1) + 1]
      BY <1>4
    <3> QED
      BY <2>1, <2>2, <2>5, <3>1, <3>2, <3>3
  <2> QED
    BY <2>3, <2>4, <2>5
<1>9. Counted'
  <2> SUFFICES ASSUME half # "dropped", ~poisoned
               PROVE  st'.buffered = Charged' - Undrained' /\ st'.units = DataCount' + InHand' + InAdmit'
    BY <1>1, <1>3 DEF Counted
  <2>1. st.buffered = Charged - taken /\ st.units = DataCount + 0 + InAdmit
    BY <1>1 DEF Flow, Counted, Undrained, InHand
  <2>2. Charged' = Charged /\ InAdmit' = InAdmit /\ InHand' = 1 /\ Undrained' = taken
    BY <1>1, <1>3, <1>5 DEF Charged, InAdmit, InHand, Undrained
  <2>3. DataCount' = DataCount - 1 /\ DataCount \in Nat /\ InAdmit \in Nat
    <3>1. Len(rq) = 1 => rq[Len(rq)].ev = "Data" /\ rq' = <<>>
      BY <1>4
    <3>2. Len(rq) # 1 => rq' # <<>> /\ rq'[Len(rq')] = rq[Len(rq)]
      BY <1>4
    <3> QED
      BY <1>1, <1>4, <3>1, <3>2 DEF DataCount, InAdmit
  <2> QED
    BY <1>1, <2>1, <2>2, <2>3
<1>10. TerminalAfterData' /\ NoReasonlessClose'
  BY <1>1 DEF TerminalAfterData, NoReasonlessClose
<1> QED
  BY <1>6, <1>7, <1>8, <1>9, <1>10 DEF Flow

\* poll_event takes the terminal: it is the last event, and h3 has had every byte.
LEMMA TakeTerminalFlow ==
    ASSUME IInv, Flow, TakeTerminal PROVE Flow'
<1>a. TypeOK
  BY DEF IInv
<1>b. cb \in CbStates /\ nat \in NatStates /\ rq \in Seq(Events) /\ taken \in Nat
  BY <1>a DEF TypeOK
<1>1. /\ half = "live" /\ terminal = "none" /\ fe.pc = "idle" /\ rq # <<>> /\ Head(rq).ev # "Data" /\ rq' = Tail(rq)
      /\ \/ fe'.pc = "observe" /\ terminal' = terminal
         \/ fe' = fe /\ terminal' = Head(rq).ev
      /\ UNCHANGED <<half, taken, st, rqOpen, sent, poisoned, cb, nat>>
  BY DEF TakeTerminal, CanPoll, FeUnchanged, budgetVars, IdleFe
<1>2. 1 \in DOMAIN rq /\ Head(rq) = rq[1] /\ Head(rq) \in Events /\ Len(rq) \in Nat
  BY <1>1, <1>b
<1>3. Len(rq) = 1 /\ sent
  BY <1>1, <1>2 DEF Flow, DeliveredInOrder, Terminated
<1>4. rq' = <<>>
  BY <1>1, <1>2, <1>3, <1>b
<1>5. Head(rq).ev # "ClosedWithoutReason" /\ (terminal' = "none" => fe'.pc = "observe")
  BY <1>1, <1>2 DEF Events, TerminalEvents
<1>6. Ends' /\ Terminated'
  BY <1>1, <1>3, <1>4, <1>5 DEF Flow, Ends, Terminated
<1>7. Published' = Published /\ Charged' = Charged /\ InAdmit' = InAdmit /\ InHand' = InHand /\ Undrained' = Undrained
  BY <1>1 DEF Published, Charged, InAdmit, InHand, Undrained
<1>8. ~poisoned => taken = Published /\ Published = nat.indicated
  <2>1. cb.pc \notin {"account", "publish"}
    BY <1>3 DEF Flow, Ends
  <2>2. Published = nat.indicated
    BY <1>b, <2>1 DEF Published, NatStates
  <2> QED
    BY <1>1, <1>2, <2>2 DEF Flow, Tip
<1>9. DeliveredInOrder' /\ Tip'
  BY <1>1, <1>4, <1>7, <1>8, <1>b DEF DeliveredInOrder, Tip, NatStates
<1>10. Counted'
  <2>1. DataCount = 0 /\ DataCount' = 0
    BY <1>1, <1>2, <1>3, <1>4 DEF DataCount
  <2>2. fe'.pc # "drain"
    BY <1>1
  <2> QED
    BY <1>1, <1>7, <2>1, <2>2 DEF Flow, Counted
<1>11. TerminalAfterData' /\ NoReasonlessClose'
  BY <1>1, <1>5, <1>8 DEF TerminalAfterData, NoReasonlessClose
<1> QED
  BY <1>6, <1>9, <1>10, <1>11 DEF Flow

\* A Receive event: while the direction is open the channel is, unless it was dropped.
LEMMA ReceiveFlow ==
    ASSUME IInv, Flow, NEW n \in 0..MaxInd, NEW fin \in BOOLEAN, Receive(n, fin) PROVE Flow'
<1>a. TypeOK /\ Handler
  BY DEF IInv, Pause
<1>b. cb \in CbStates /\ nat \in NatStates /\ n \in Nat /\ nat.indicated \in Nat
  BY <1>a, RecvAssumption DEF TypeOK, NatStates
<1>1. /\ nat.dir = "open" /\ cb.pc = "idle" /\ cb' = (IF poisoned THEN IdleCb ELSE ReceiveHandler(n, fin))
      /\ UNCHANGED <<st, rq, rqOpen, sent, fe, half, terminal, taken, poisoned>>
  BY DEF Receive, Enter, NativeUnchanged, budgetVars, chanVars, feVars
<1>2. nat'.indicated = nat.indicated + n /\ nat'.dir = (IF fin THEN "ended" ELSE "open")
  BY <1>b DEF Receive, NatStates
<1>3. ~poisoned /\ ~sent /\ (half # "dropped" => rqOpen)
  BY <1>1, <1>a DEF Handler, Flow, Ends
<1>4. /\ cb'.pc = (IF rqOpen THEN "account" ELSE IF fin THEN "terminal" ELSE "return")
      /\ cb'.n = n /\ cb'.ev = (IF fin THEN "Fin" ELSE "none")
  BY <1>1, <1>3 DEF ReceiveHandler
<1>5. Ends' /\ Terminated'
  BY <1>1, <1>2, <1>3, <1>4 DEF Flow, Ends, Terminated
<1>6. half # "dropped" => Published' = Published /\ Charged' = Charged /\ InAdmit' = InAdmit
  BY <1>1, <1>2, <1>3, <1>4, <1>b DEF Published, Charged, InAdmit
<1>7. fe.pc # "observe" /\ terminal = "none"
  BY <1>3 DEF Flow, Terminated
<1> QED
  BY <1>1, <1>5, <1>6, <1>7, ChannelKept, ReaderKept DEF Flow

\* admit charges what it is going to publish.
LEMMA AccountFlow ==
    ASSUME IInv, Flow, AdmitAccount PROVE Flow'
<1>a. TypeOK /\ Handler
  BY DEF IInv, Pause
<1>b. cb \in CbStates /\ nat \in NatStates /\ st \in RecvStates /\ rq \in Seq(Events)
  BY <1>a DEF TypeOK
<1>1. /\ cb.pc = "account" /\ st' = Charge(st, cb.n)
      /\ UNCHANGED <<rq, rqOpen, sent, fe, half, terminal, taken, poisoned, nat>>
  BY DEF AdmitAccount, chanVars, feVars
<1>2. cb'.pc = "publish" /\ cb'.n = cb.n /\ cb'.ev = cb.ev /\ cb.n \in Nat
  BY <1>b DEF AdmitAccount, CbStates
<1>3. st'.buffered = st.buffered + cb.n /\ st'.units = st.units + (IF cb.n > 0 THEN 1 ELSE 0)
  <2>1. PICK n \in Nat : n = cb.n
    BY <1>2
  <2>2. PICK b \in Nat : b = st.buffered + n
    BY <1>b, <2>1 DEF RecvStates
  <2>3. PICK u \in Nat : u = IF n > 0 THEN st.units + 1 ELSE st.units
    BY <1>b DEF RecvStates
  <2>4. PICK c : c = [st EXCEPT !.buffered = b, !.units = u]
    OBVIOUS
  <2>5. c \in RecvStates /\ c.buffered = b /\ c.units = u
    BY <1>b, <2>4 DEF RecvStates
  <2>6. Charge(st, n) = c \/ Charge(st, n) = [c EXCEPT !.pend_outstanding = TRUE, !.pending_indication_len = n]
    BY <2>2, <2>3, <2>4 DEF Charge
  <2>7. st'.buffered = b /\ st'.units = u
    BY <1>1, <2>1, <2>5, <2>6 DEF RecvStates
  <2> QED
    BY <1>b, <2>1, <2>2, <2>3, <2>7 DEF RecvStates
<1>4. Ends' /\ Terminated'
  BY <1>1, <1>2 DEF Flow, Ends, Terminated
<1>5. Published' = Published
  BY <1>1, <1>2 DEF Published
<1>6. DeliveredInOrder' /\ Tip'
  BY <1>1, <1>5 DEF Flow, DeliveredInOrder, Tip
<1>7. Counted'
  <2> SUFFICES ASSUME half # "dropped", ~poisoned
               PROVE  st'.buffered = Charged' - Undrained' /\ st'.units = DataCount' + InHand' + InAdmit'
    BY <1>1 DEF Flow, Counted
  <2>1. st.buffered = Charged - Undrained /\ st.units = DataCount + InHand + InAdmit
    BY DEF Flow, Counted
  <2>2. Undrained' = Undrained /\ DataCount' = DataCount /\ InHand' = InHand
    BY <1>1 DEF Undrained, DataCount, InHand
  <2>3. Charged \in Int /\ Charged' = Charged + cb.n
    BY <1>1, <1>2, <1>b DEF Charged, NatStates
  <2>4. InAdmit = 0 /\ InAdmit' = (IF cb.n > 0 THEN 1 ELSE 0)
    BY <1>1, <1>2 DEF InAdmit
  <2>5. Undrained \in Nat /\ DataCount \in Nat /\ InHand \in Nat
    BY <1>a, <1>b DEF Undrained, DataCount, InHand, TypeOK, FeStates
  <2> QED
    BY <1>2, <1>3, <2>1, <2>2, <2>3, <2>4, <2>5
<1>8. TerminalAfterData' /\ NoReasonlessClose'
  BY <1>1, ReaderKept
<1> QED
  BY <1>4, <1>6, <1>7, <1>8 DEF Flow

\* Where an appended event is.
LEMMA AppendAt ==
    ASSUME NEW S, NEW q \in Seq(S), NEW e \in S
    PROVE  /\ Append(q, e) \in Seq(S) /\ Append(q, e) # <<>> /\ Len(q) \in Nat
           /\ Len(Append(q, e)) = Len(q) + 1 /\ Append(q, e)[Len(q) + 1] = e
           /\ DOMAIN q = 1..Len(q) /\ DOMAIN Append(q, e) = 1..(Len(q) + 1)
           /\ \A i \in DOMAIN q : Append(q, e)[i] = q[i]
           /\ q = <<>> <=> Len(q) = 0
OBVIOUS

\* admit publishes the range that follows the last one, or hands it to nobody.
LEMMA PublishFlow ==
    ASSUME IInv, Flow, AdmitPublish PROVE Flow'
<1>a. TypeOK /\ Handler
  BY DEF IInv, Pause
<1>b. cb \in CbStates /\ nat \in NatStates /\ rq \in Seq(Events) /\ taken \in Nat
      /\ cb.n \in Nat /\ nat.indicated \in Nat
  BY <1>a DEF TypeOK, CbStates, NatStates
<1>1. /\ cb.pc = "publish" /\ UNCHANGED <<sent, fe, half, terminal, taken, poisoned, nat>>
      /\ half # "dropped" => st' = st /\ rqOpen' = rqOpen
      /\ rqOpen' => rqOpen
      /\ rq' = IF cb.n > 0 /\ half # "dropped"
               THEN Append(rq, Data(nat.indicated - cb.n, nat.indicated)) ELSE rq
  <2>1. cb.pc = "publish" /\ UNCHANGED <<sent, fe, half, terminal, taken, poisoned, nat>>
    BY DEF AdmitPublish, feVars
  <2>2. half # "dropped" => st' = st
    BY DEF AdmitPublish
  <2>3. rqOpen' = (rqOpen /\ ~(cb.n > 0 /\ half = "dropped"))
    BY DEF AdmitPublish
  <2>4. rqOpen \in BOOLEAN
    BY <1>a DEF TypeOK
  <2>5. rq' = IF cb.n > 0 /\ half # "dropped"
              THEN Append(rq, Data(nat.indicated - cb.n, nat.indicated)) ELSE rq
    <3>1. rq' = IF cb.n > 0 /\ ~(cb.n > 0 /\ half = "dropped")
                THEN Append(rq, Data(nat.indicated - cb.n, nat.indicated)) ELSE rq
      BY DEF AdmitPublish
    <3> QED
      BY <3>1
  <2> QED
    BY <2>1, <2>2, <2>3, <2>4, <2>5
<1>2. cb'.pc = (IF cb.ev = "none" THEN "return" ELSE "terminal") /\ cb'.ev = cb.ev
  BY <1>b DEF AdmitPublish, CbStates
<1>3. ~sent /\ cb.n <= nat.indicated /\ terminal = "none" /\ fe.pc # "observe"
      /\ \A i \in DOMAIN rq : rq[i].ev = "Data"
  BY <1>1, <1>a DEF Flow, Ends, Terminated, Handler
<1>4. Ends'
  BY <1>1, <1>2 DEF Flow, Ends
<1>5. TerminalAfterData' /\ NoReasonlessClose'
  BY <1>1, ReaderKept
<1>6. Published = nat.indicated - cb.n /\ Published' = nat.indicated /\ Charged' = Charged
  BY <1>1, <1>2, <1>b DEF Published, Charged
<1>7. CASE half = "dropped" \/ cb.n = 0
  <2>1. rq' = rq
    BY <1>1, <1>7
  <2>2. Terminated'
    BY <1>1, <2>1 DEF Flow, Terminated
  <2>3. CASE half = "dropped"
    <3>1. DeliveredInOrder'
      BY <1>1, <2>1 DEF Flow, DeliveredInOrder
    <3>2. Tip' /\ Counted'
      BY <1>1, <2>3 DEF Flow, Tip, Counted
    <3> QED
      BY <1>4, <1>5, <2>2, <3>1, <3>2 DEF Flow
  <2>4. CASE half # "dropped" /\ cb.n = 0
    <3>1. Published' = Published /\ InAdmit' = InAdmit
      BY <1>2, <1>6, <1>b, <2>4 DEF InAdmit
    <3>2. DeliveredInOrder' /\ Tip' /\ Counted'
      BY <1>1, <1>6, <2>1, <2>4, <3>1, ChannelKept
    <3> QED
      BY <1>4, <1>5, <2>2, <3>2 DEF Flow
  <2> QED
    BY <1>7, <2>3, <2>4
<1>8. CASE half # "dropped" /\ cb.n > 0
  <2>1. PICK e : e = Data(nat.indicated - cb.n, nat.indicated)
    OBVIOUS
  <2>2. e \in Events /\ e.ev = "Data" /\ e.lo = Published /\ e.hi = nat.indicated /\ e.lo < e.hi
    BY <1>3, <1>6, <1>8, <1>b, <2>1 DEF Data, Events
  <2>3. rq' = Append(rq, e)
    BY <1>1, <1>8, <2>1
  <2>4. /\ rq' # <<>> /\ Len(rq) \in Nat /\ Len(rq') = Len(rq) + 1 /\ rq'[Len(rq) + 1] = e
        /\ DOMAIN rq = 1..Len(rq) /\ DOMAIN rq' = 1..(Len(rq) + 1)
        /\ \A i \in DOMAIN rq : rq'[i] = rq[i]
        /\ rq = <<>> <=> Len(rq) = 0
    BY <1>b, <2>2, <2>3, AppendAt
  <2>5. \A i \in DOMAIN rq' : rq'[i].ev = "Data"
    BY <1>3, <2>2, <2>4
  <2>6. Terminated'
    BY <1>1, <1>3, <1>8, <2>5 DEF Flow, Terminated
  <2>7. ~poisoned
    BY <1>1, <1>a DEF Handler
  <2>8. e.lo = IF Len(rq) = 0 THEN taken ELSE rq[Len(rq)].hi
    <3>1. Len(rq) = 0 => taken = Published
      BY <1>8, <2>4, <2>7 DEF Flow, Tip
    <3>2. Len(rq) # 0 => rq[Len(rq)].hi = Published
      <4>1. Len(rq) # 0 => Len(rq) \in DOMAIN rq
        BY <2>4
      <4> QED
        BY <1>3, <1>8, <2>7, <4>1 DEF Flow, Tip
    <3> QED
      BY <2>2, <3>1, <3>2
  <2>9. DeliveredInOrder'
    <3> SUFFICES ASSUME NEW i \in DOMAIN rq'
                 PROVE  rq'[i].lo < rq'[i].hi /\ rq'[i].lo = (IF i = 1 THEN taken ELSE rq'[i - 1].hi)
      BY <1>1, <2>5 DEF DeliveredInOrder
    <3>1. CASE i = Len(rq) + 1
      <4>1. i # 1 => i - 1 = Len(rq) /\ Len(rq) \in DOMAIN rq /\ Len(rq) # 0
        BY <2>4, <3>1
      <4>2. i = 1 => Len(rq) = 0
        BY <2>4, <3>1
      <4> QED
        BY <2>2, <2>4, <2>8, <3>1, <4>1, <4>2
    <3>2. CASE i # Len(rq) + 1
      <4>1. i \in DOMAIN rq /\ rq'[i] = rq[i]
        BY <2>4, <3>2
      <4>2. i # 1 => i - 1 \in DOMAIN rq /\ rq'[i - 1] = rq[i - 1]
        BY <2>4, <4>1
      <4>3. rq[i].lo < rq[i].hi /\ rq[i].lo = (IF i = 1 THEN taken ELSE rq[i - 1].hi)
        BY <1>3, <4>1 DEF Flow, DeliveredInOrder
      <4> QED
        BY <4>1, <4>2, <4>3
    <3> QED
      BY <3>1, <3>2
  <2>10. Tip'
    <3>1. taken <= Published /\ \A i \in DOMAIN rq : rq[i].hi <= Published
      BY <1>3, <1>8, <2>7 DEF Flow, Tip
    <3>2. taken' <= Published'
      BY <1>1, <1>6, <1>b, <3>1
    <3>3. ASSUME NEW i \in DOMAIN rq' PROVE rq'[i].hi <= Published'
      <4>1. CASE i = Len(rq) + 1
        BY <1>6, <1>b, <2>2, <2>4, <4>1
      <4>2. CASE i # Len(rq) + 1
        <5>1. i \in DOMAIN rq /\ rq'[i] = rq[i] /\ rq[i].hi <= Published
          BY <2>4, <3>1, <4>2
        <5>2. rq[i] \in Events
          BY <1>b, <2>4, <5>1
        <5>3. rq[i].hi \in Nat
          BY <5>2 DEF Events
        <5> QED
          BY <1>6, <1>b, <5>1, <5>3
      <4> QED
        BY <4>1, <4>2
    <3>4. rq' # <<>> /\ rq'[1].ev = "Data"
      BY <2>4, <2>5
    <3>5. ASSUME NEW i \in DOMAIN rq', i = Len(rq') \/ rq'[i + 1].ev # "Data" PROVE rq'[i].hi = Published'
      <4>1. i # Len(rq') => i + 1 \in DOMAIN rq'
        BY <2>4
      <4>2. i = Len(rq) + 1
        BY <2>4, <2>5, <3>5, <4>1
      <4> QED
        BY <1>6, <2>2, <2>4, <4>2
    <3> QED
      BY <1>1, <1>3, <3>2, <3>3, <3>4, <3>5 DEF Tip
  <2>11. Counted'
    <3>1. st.buffered = Charged - Undrained /\ st.units = DataCount + InHand + InAdmit
      BY <1>8, <2>7 DEF Flow, Counted
    <3>2. Undrained' = Undrained /\ InHand' = InHand /\ InHand \in Nat
      BY <1>1 DEF Undrained, InHand
    <3>3. InAdmit = 1 /\ InAdmit' = 0
      BY <1>1, <1>2, <1>8 DEF InAdmit
    <3>4. DataCount = Len(rq)
      <4>1. rq # <<>> => rq[Len(rq)].ev = "Data"
        BY <1>3, <2>4
      <4> QED
        BY <4>1 DEF DataCount
    <3>5. DataCount' = Len(rq) + 1
      <4>1. rq'[Len(rq')].ev = "Data"
        BY <2>2, <2>4
      <4> QED
        BY <2>4, <4>1 DEF DataCount
    <3>6. st'.units = DataCount' + InHand' + InAdmit'
      BY <1>1, <1>8, <2>4, <3>1, <3>2, <3>3, <3>4, <3>5
    <3> QED
      BY <1>1, <1>6, <1>8, <3>1, <3>2, <3>6 DEF Flow, Counted
  <2> QED
    BY <1>4, <1>5, <2>6, <2>9, <2>10, <2>11 DEF Flow
<1> QED
  BY <1>7, <1>8, <1>b

\* publish_recv_terminal puts the one terminal behind the data.
LEMMA TerminalFlow ==
    ASSUME IInv, Flow, PublishRecvTerminal PROVE Flow'
<1>a. TypeOK /\ Handler
  BY DEF IInv, Pause
<1>b. cb \in CbStates /\ nat \in NatStates /\ rq \in Seq(Events) /\ nat.indicated \in Nat
  BY <1>a DEF TypeOK, NatStates
<1>1. /\ cb.pc = "terminal" /\ UNCHANGED <<st, fe, half, terminal, taken, poisoned, nat>>
      /\ rqOpen' = (rqOpen /\ sent) /\ sent' = TRUE
      /\ rq' = IF ~sent /\ rqOpen /\ half # "dropped" THEN Append(rq, Terminal(cb.ev)) ELSE rq
  BY DEF PublishRecvTerminal, budgetVars, feVars
<1>2. cb'.pc \in {"idle", "return", "close"} /\ cb.ev # "none" /\ nat.dir # "open"
  <2>1. cb.ev # "none"
    BY <1>1, <1>a DEF Handler
  <2>2. cb'.pc \in {"idle", "return", "close"}
    BY <1>b DEF PublishRecvTerminal, CbStates, IdleCb
  <2> QED
    BY <2>1, <2>2 DEF Flow, Ends
<1>3. Ends'
  BY <1>1, <1>2 DEF Flow, Ends
<1>4. TerminalAfterData' /\ NoReasonlessClose'
  BY <1>1, ReaderKept
<1>5. Published' = Published /\ Charged' = Charged /\ InAdmit' = InAdmit /\ Published = nat.indicated
  BY <1>1, <1>2, <1>b DEF Published, Charged, InAdmit
<1>6. CASE sent \/ ~rqOpen \/ half = "dropped"
  <2>1. rq' = rq
    BY <1>1, <1>6
  <2>2. half = "live" => sent
    BY <1>6 DEF Flow, Ends
  <2>3. Terminated'
    BY <1>1, <2>1, <2>2 DEF Flow, Terminated
  <2>4. DeliveredInOrder' /\ Tip' /\ Counted'
    BY <1>1, <1>5, <2>1, ChannelKept
  <2> QED
    BY <1>3, <1>4, <2>3, <2>4 DEF Flow
<1>7. CASE ~sent /\ rqOpen /\ half # "dropped"
  <2>1. PICK e : e = Terminal(cb.ev)
    OBVIOUS
  <2>2. e \in Events /\ e.ev # "Data"
    BY <1>2, <1>b, <2>1 DEF Terminal, Events, CbStates, TerminalEvents
  <2>3. rq' = Append(rq, e)
    BY <1>1, <1>7, <2>1
  <2>4. /\ rq' # <<>> /\ Len(rq) \in Nat /\ Len(rq') = Len(rq) + 1 /\ rq'[Len(rq) + 1] = e
        /\ DOMAIN rq = 1..Len(rq) /\ DOMAIN rq' = 1..(Len(rq) + 1)
        /\ \A i \in DOMAIN rq : rq'[i] = rq[i]
        /\ rq = <<>> <=> Len(rq) = 0
    BY <1>b, <2>2, <2>3, AppendAt
  <2>5. terminal = "none" /\ fe.pc # "observe" /\ \A i \in DOMAIN rq : rq[i].ev = "Data"
    BY <1>7 DEF Flow, Terminated
  <2>6. rq'[Len(rq')].ev # "Data"
    BY <2>2, <2>4
  <2>7. Terminated'
    BY <1>1, <1>7, <2>4, <2>5, <2>6 DEF Flow, Terminated
  <2>8. \A i \in DOMAIN rq' : rq'[i].ev = "Data" => i \in DOMAIN rq /\ rq'[i] = rq[i]
    BY <2>2, <2>4
  <2>9. \A i \in DOMAIN rq' : rq'[i].ev # "Data" => i = Len(rq')
    BY <2>4, <2>5
  <2>10. DeliveredInOrder'
    <3> SUFFICES ASSUME NEW i \in DOMAIN rq', rq'[i].ev = "Data"
                 PROVE  rq'[i].lo < rq'[i].hi /\ rq'[i].lo = (IF i = 1 THEN taken ELSE rq'[i - 1].hi)
      BY <1>1, <2>9 DEF DeliveredInOrder
    <3>1. i \in DOMAIN rq /\ rq'[i] = rq[i]
      BY <2>8
    <3>2. i # 1 => i - 1 \in DOMAIN rq /\ rq'[i - 1] = rq[i - 1]
      BY <2>4, <3>1
    <3>3. rq[i].lo < rq[i].hi /\ rq[i].lo = (IF i = 1 THEN taken ELSE rq[i - 1].hi)
      BY <2>5, <3>1 DEF Flow, DeliveredInOrder
    <3> QED
      BY <3>1, <3>2, <3>3
  <2>11. Tip'
    <3> SUFFICES ASSUME ~poisoned
                 PROVE  /\ taken <= Published
                        /\ \A i \in DOMAIN rq' : rq'[i].ev = "Data" => rq'[i].hi <= Published
                        /\ rq' = <<>> \/ rq'[1].ev # "Data" => taken = Published
                        /\ \A i \in DOMAIN rq' :
                              rq'[i].ev = "Data" /\ (i = Len(rq') \/ rq'[i + 1].ev # "Data") => rq'[i].hi = Published
      BY <1>1, <1>5, <2>5 DEF Tip
    <3>1. taken <= Published /\ \A i \in DOMAIN rq : rq[i].hi <= Published
      BY <1>7, <2>5 DEF Flow, Tip
    <3>2. \A i \in DOMAIN rq' : rq'[i].ev = "Data" => rq'[i].hi <= Published
      BY <2>8, <3>1
    <3>3. rq' = <<>> \/ rq'[1].ev # "Data" => taken = Published
      <4>1. rq # <<>> => 1 \in DOMAIN rq /\ rq'[1].ev = "Data"
        BY <2>4, <2>5
      <4>2. rq = <<>> => taken = Published
        BY <1>7 DEF Flow, Tip
      <4> QED
        BY <2>4, <4>1, <4>2
    <3>4. ASSUME NEW i \in DOMAIN rq', rq'[i].ev = "Data", i = Len(rq') \/ rq'[i + 1].ev # "Data"
          PROVE  rq'[i].hi = Published
      <4>1. i \in DOMAIN rq /\ rq'[i] = rq[i]
        BY <2>8, <3>4
      <4>2. i # Len(rq')
        BY <2>6, <3>4
      <4>3. i # Len(rq) => i + 1 \in DOMAIN rq /\ rq'[i + 1] = rq[i + 1]
        BY <2>4, <4>1
      <4>4. i = Len(rq)
        BY <2>5, <3>4, <4>2, <4>3
      <4> QED
        BY <1>7, <2>5, <4>1, <4>4 DEF Flow, Tip
    <3> QED
      BY <3>1, <3>2, <3>3, <3>4
  <2>12. Counted'
    <3>1. Undrained' = Undrained /\ InHand' = InHand
      BY <1>1 DEF Undrained, InHand
    <3>2. DataCount = Len(rq)
      <4>1. rq # <<>> => rq[Len(rq)].ev = "Data"
        BY <2>4, <2>5
      <4> QED
        BY <4>1 DEF DataCount
    <3>3. DataCount' = Len(rq)
      BY <2>4, <2>6 DEF DataCount
    <3> QED
      BY <1>1, <1>5, <3>1, <3>2, <3>3 DEF Flow, Counted
  <2> QED
    BY <1>3, <1>4, <2>7, <2>10, <2>11, <2>12 DEF Flow
<1> QED
  BY <1>6, <1>7

\* Every step keeps the second invariant.
LEMMA NextFlow == IInv /\ Flow /\ [Next]_vars => Flow'
<1> SUFFICES ASSUME IInv, Flow, [Next]_vars PROVE Flow'
  OBVIOUS
<1>1. CASE AdmitAccount
  BY <1>1, AccountFlow
<1>2. CASE AdmitPublish
  BY <1>2, PublishFlow
<1>3. CASE PublishRecvTerminal
  BY <1>3, TerminalFlow
<1>4. CASE RecordCause \/ CloseChannel \/ ReturnFromReceive \/ CallbackPanic
  BY <1>4, CallbackFlow
<1>5. CASE TakeData
  BY <1>5, TakeDataFlow
<1>6. CASE TakeTerminal
  BY <1>6, TakeTerminalFlow
<1>7. CASE DrainBudget
  BY <1>7, DrainFlow
<1>8. CASE ObserveCause \/ ReceiveComplete \/ StopSending \/ DropHalf \/ TakeNothing
  BY <1>8, ReaderFlow
<1>9. CASE \E n \in 0..MaxInd, fin \in BOOLEAN : Receive(n, fin)
  BY <1>9, ReceiveFlow
<1>10. CASE \/ PeerSendShutdown \/ PeerSendAborted \/ ShutdownComplete
            \/ ConnectionEnds \/ OpenerClose \/ OtherFrontend
  BY <1>10, OutsideFlow
<1>11. CASE UNCHANGED vars
  <2>1. UNCHANGED <<st, rq, rqOpen, sent, fe, half, terminal, taken, poisoned, cb, nat>>
    BY <1>11 DEF vars, budgetVars, chanVars, feVars
  <2>2. Published' = Published /\ Charged' = Charged /\ InAdmit' = InAdmit
    BY <2>1 DEF Published, Charged, InAdmit
  <2>3. Ends' /\ Terminated'
    BY <2>1 DEF Flow, Ends, Terminated
  <2>4. DeliveredInOrder' /\ Tip' /\ Counted'
    BY <2>1, <2>2, ChannelKept
  <2>5. TerminalAfterData' /\ NoReasonlessClose'
    BY <2>1, ReaderKept
  <2> QED
    BY <2>3, <2>4, <2>5 DEF Flow
<1> QED
  BY <1>1, <1>2, <1>3, <1>4, <1>5, <1>6, <1>7, <1>8, <1>9, <1>10, <1>11
     DEF Next, CallbackStep, PollData, FrontendStep, NativeStep

\* Both invariants hold of every state.
LEMMA FlowInvariance == Spec => [](IInv /\ Flow)
<1>1. Init => Flow
  BY InitFlow
<1>2. IInv /\ Flow /\ [Next]_vars => Flow'
  BY NextFlow
<1> QED
  BY <1>1, <1>2, Invariance, PTL DEF Spec

\* The budget counts exactly what was charged and not yet drained, whatever the limits
\* and however admit, the reader and the ends of the stream interleave.
THEOREM BudgetExactAlways == Spec => []BudgetExact
<1>1. IInv /\ Flow => BudgetExact
  <2> SUFFICES ASSUME IInv, Flow, half # "dropped", ~poisoned
               PROVE  st.buffered = Charged - Undrained /\ st.units = Cardinality(DataEvents) + InHand + InAdmit
    BY DEF BudgetExact
  <2>1. rq \in Seq(Events) /\ Len(rq) \in Nat /\ DOMAIN rq = 1..Len(rq)
    BY DEF IInv, TypeOK
  <2>2. \A i \in DOMAIN rq : rq[i].ev # "Data" => i = Len(rq)
    BY DEF Flow, DeliveredInOrder
  <2>3. rq = <<>> <=> Len(rq) = 0
    BY <2>1
  <2>4. DataCount \in 0..Len(rq) /\ DataEvents = 1..DataCount
    <3>1. CASE rq = <<>>
      BY <2>1, <2>3, <3>1 DEF DataCount, DataEvents
    <3>2. CASE rq # <<>> /\ rq[Len(rq)].ev = "Data"
      <4>1. DataCount = Len(rq)
        BY <3>2 DEF DataCount
      <4> QED
        BY <2>1, <2>2, <3>2, <4>1 DEF DataEvents
    <3>3. CASE rq # <<>> /\ rq[Len(rq)].ev # "Data"
      <4>1. DataCount = Len(rq) - 1
        BY <3>3 DEF DataCount
      <4>2. \A i \in 1..Len(rq) : rq[i].ev = "Data" <=> i # Len(rq)
        BY <2>1, <2>2, <3>3
      <4>3. PICK n \in Nat : n = Len(rq) /\ n # 0
        BY <2>1, <2>3, <3>3
      <4>4. \A i : i \in 1..n /\ i # n <=> i \in 1..(n - 1)
        BY <4>3
      <4>5. \A i : i \in DataEvents <=> i \in 1..n /\ i # n
        BY <2>1, <4>2, <4>3 DEF DataEvents
      <4>6. DataEvents = 1..(n - 1)
        BY <4>4, <4>5
      <4> QED
        BY <4>1, <4>3, <4>6
    <3> QED
      BY <3>1, <3>2, <3>3
  <2>5. Cardinality(DataEvents) = DataCount
    <3>1. PICK n \in Nat : n = DataCount
      BY <2>1, <2>4
    <3>2. Cardinality(1..n) = n
      BY FS_Interval
    <3> QED
      BY <2>4, <3>1, <3>2
  <2> QED
    BY <2>5 DEF Flow, Counted
<1> QED
  BY <1>1, FlowInvariance, PTL

\* h3 reads the stream's bytes in order and once, then its end, after all of them and
\* with a reason, however the callback, the reader and the connection interleave.
THEOREM ReaderSeesStreamAlways == Spec => []ReaderSeesStream
<1>1. Flow => ReaderSeesStream
  BY DEF Flow, ReaderSeesStream
<1> QED
  BY <1>1, FlowInvariance, PTL
=============================================================================
