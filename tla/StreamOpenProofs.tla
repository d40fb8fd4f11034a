-------------------------- MODULE StreamOpenProofs ---------------------------
(* What StreamOpen's run checks of the openers and of the connection's cause, for *)
(* any number of openers and streams, any faults and any remote ends.            *)
EXTENDS StreamOpen, Integers, FiniteSetTheorems, SequenceTheorems, TLAPS

Pcs == {"idle", "submit", "refused", "start", "cancelled", "classify", "gone"}
Whys == {"up", "local"} \cup Remotes

\* The answers of a start: none yet, an id, a bad id, or a status and its origin.
Answers == {Started(TRUE), Started(FALSE)} \cup {StartErr(w) : w \in {"other", "panic"} \cup Whys}
Vals == {NoStart} \cup Answers

StreamRec == [tx : BOOLEAN, val : Vals, waker : {"none", "armed", "fired"},
              nat : {"starting", "answered", "shut"}, ok : BOOLEAN,
              owner : {"opener", "poll", "h3", "none"}, closes : Nat, poisoned : BOOLEAN]

\* The shape of every variable the properties look at.
Shapes ==
    /\ streams \in Seq(StreamRec)
    /\ op \in [Openers -> [pc : Pcs, n : Nat, val : Vals]]
    /\ holder \in [Openers -> Nat]
    /\ conn \in ConnSlot
    /\ DOMAIN cb = {"todo", "stream", "recovering"} /\ cb.stream \in Nat
    /\ ending \in [why : Whys, indicated : BOOLEAN]

Known == conn.terminal # NoCause

\* The streams the openers have, f[o] or none, are exactly the ones of s whose owner
\* says so, and no two openers have the same one.
Exclusive(f, who, s) ==
    /\ \A o \in Openers : f[o] # 0 => f[o] \in DOMAIN s /\ s[f[o]].owner = who
    /\ \A o, p \in Openers : f[o] = f[p] /\ f[o] # 0 => o = p
    /\ \A n \in DOMAIN s : s[n].owner = who => \E o \in Openers : f[o] = n

Taken == [o \in Openers |-> op[o].n]

\* A stream is in a holder, or with the poll that took it from there, or closed once.
Ownership ==
    /\ Exclusive(holder, "opener", streams)
    /\ Exclusive(Taken, "poll", streams)
    /\ \A n \in DOMAIN streams : streams[n].closes = (IF streams[n].owner = "none" THEN 1 ELSE 0)

\* Where the poll is says what it has.
PollHas(o) ==
    /\ op[o].pc = "start" => holder[o] # 0
    /\ op[o].pc \notin {"idle", "start"} => holder[o] = 0
    /\ op[o].pc = "classify" <=> op[o].n # 0
    /\ op[o].pc = "cancelled" => Known

\* A result on its way from msquic to the opener: an id is the id of a start that
\* succeeded, a remote end is on record before it is anybody's status.
Honest(n, val) == (val.res = "id" => streams[n].ok) /\ (val.why \in Remotes => Known)

\* What a poll took from a stream, and what a stream holds, is honest; a stream whose
\* sender went without an answer has a cause on record.
PollFine(o) == PollHas(o) /\ (op[o].n # 0 => Honest(op[o].n, op[o].val))

StreamFine(n) ==
    /\ Honest(n, streams[n].val)
    /\ streams[n].nat = "starting" => ~streams[n].ok
    /\ streams[n].owner = "h3" => streams[n].ok
    /\ streams[n].owner = "opener" /\ ~streams[n].tx /\ streams[n].val = NoStart => Known

Fine == (\A o \in Openers : PollFine(o)) /\ (\A n \in DOMAIN streams : StreamFine(n))

\* What a stream callback has still to do, and what it knows by then.
TodoShape ==
    \/ cb.todo = <<>>
    \/ /\ cb.stream \in DOMAIN streams
       /\ \/ \E r \in Answers : cb.todo = OnStartComplete(r) /\ Honest(cb.stream, r)
          \/ \E w \in Remotes \cup {"local"} : cb.todo = OnShutdownComplete(w)
          \/ cb.todo = <<Effect("cancel", "")>> /\ Known
          \/ cb.todo = StreamRecover
          \/ cb.todo = <<Effect("poison", "")>>

\* The slot: frozen with a cause, told as it is; a remote end was recorded first.
CauseKnown ==
    /\ conn.observed => Known
    /\ told \subseteq {conn.terminal}
    /\ told # {} => conn.observed
    /\ ending.indicated => ending.why # "up" /\ (ending.why \in Remotes => Known)

IInv == Shapes /\ Ownership /\ Fine /\ TodoShape /\ CauseKnown /\ StartFailureHasCause

-----------------------------------------------------------------------------
(* Ownership.                                                              *)

\* Nobody of this kind gains or loses a stream.
LEMMA ExclusiveSame ==
    ASSUME NEW f, NEW g, NEW who, NEW s, NEW t, Exclusive(f, who, s),
           \A o \in Openers : g[o] = f[o],
           \A n \in DOMAIN s : n \in DOMAIN t,
           \A n \in DOMAIN t : t[n].owner = who <=> (n \in DOMAIN s /\ s[n].owner = who)
    PROVE  Exclusive(g, who, t)
  BY DEF Exclusive

-----------------------------------------------------------------------------
(* Frames.                                                                 *)

\* No step takes a stream, a started stream or the cause back.
Grows ==
    /\ \A n \in DOMAIN streams : n \in DOMAIN streams' /\ (streams[n].ok => streams'[n].ok)
    /\ Known => Known'

\* What was honest stays honest.
LEMMA HonestStays ==
    ASSUME Grows, NEW n \in DOMAIN streams, NEW val, Honest(n, val) PROVE Honest(n, val)'
  BY DEF Grows, Honest

\* A running callback keeps what it has to do through the steps of others.
LEMMA TodoStays ==
    ASSUME Grows, TodoShape, UNCHANGED cb PROVE TodoShape'
  BY DEF Grows, TodoShape, Honest

\* The polls of other openers stay as they are.
LEMMA OtherPolls ==
    ASSUME Grows, Ownership, NEW p \in Openers, PollFine(p), op'[p] = op[p], holder'[p] = holder[p]
    PROVE  PollFine(p)'
<1>1. op[p].n # 0 => op[p].n \in DOMAIN streams
  BY DEF Ownership, Exclusive, Taken
<1> QED
  BY <1>1, HonestStays DEF PollFine, PollHas, Grows

\* So do the streams a step does not touch.
LEMMA OtherStreams ==
    ASSUME Grows, NEW n \in DOMAIN streams, StreamFine(n), streams'[n] = streams[n]
    PROVE  StreamFine(n)'
  BY DEF Grows, StreamFine, Honest

\* One stream is replaced.
LEMMA UpdateStream ==
    ASSUME Shapes, NEW n \in DOMAIN streams, NEW r \in StreamRec, streams' = [streams EXCEPT ![n] = r]
    PROVE  /\ streams' \in Seq(StreamRec) /\ DOMAIN streams' = DOMAIN streams /\ streams'[n] = r
           /\ \A m \in DOMAIN streams : m # n => streams'[m] = streams[m]
  BY DEF Shapes

\* StreamClose, as the replacement of one stream.
LEMMA ClosedIs ==
    ASSUME Shapes, NEW n \in DOMAIN streams
    PROVE  LET r == [streams[n] EXCEPT !.owner = "none", !.closes = @ + 1]
           IN  Closed(n) = [streams EXCEPT ![n] = r] /\ r \in StreamRec
<1>1. streams[n] \in StreamRec
  BY DEF Shapes
<1>2. [streams[n] EXCEPT !.owner = "none", !.closes = @ + 1] \in StreamRec
  <2>1. streams[n].closes + 1 \in Nat
    BY <1>1 DEF StreamRec
  <2>2. [streams[n] EXCEPT !.owner = "none"] \in StreamRec
    BY <1>1 DEF StreamRec
  <2> QED
    BY <1>1, <2>1, <2>2 DEF StreamRec
<1>3. Closed(n) = [streams EXCEPT ![n] = [streams[n] EXCEPT !.owner = "none", !.closes = @ + 1]]
  BY <1>1 DEF Closed, Shapes
<1> QED
  BY <1>2, <1>3

\* It touches that stream alone.
LEMMA CloseStream ==
    ASSUME Shapes, NEW n \in DOMAIN streams, streams' = Closed(n)
    PROVE  /\ streams' \in Seq(StreamRec) /\ DOMAIN streams' = DOMAIN streams
           /\ streams'[n] = [streams[n] EXCEPT !.owner = "none", !.closes = @ + 1]
           /\ \A m \in DOMAIN streams : m # n => streams'[m] = streams[m]
  BY ClosedIs, UpdateStream

\* A step of one stream: it stays fine, and so do the others.
LEMMA StreamStep ==
    ASSUME Shapes, Fine, Known => Known', NEW n \in DOMAIN streams, NEW r \in StreamRec,
           streams' = [streams EXCEPT ![n] = r], streams[n].ok => r.ok, StreamFine(n)'
    PROVE  Grows /\ \A m \in DOMAIN streams' : StreamFine(m)'
<1>1. /\ streams' \in Seq(StreamRec) /\ DOMAIN streams' = DOMAIN streams /\ streams'[n] = r
      /\ \A m \in DOMAIN streams : m # n => streams'[m] = streams[m]
  BY UpdateStream
<1>2. Grows
  BY <1>1 DEF Grows
<1>3. ASSUME NEW m \in DOMAIN streams', m # n PROVE StreamFine(m)'
  BY <1>1, <1>2, <1>3, OtherStreams DEF Fine
<1> QED
  BY <1>2, <1>3

\* Opener o drops the stream in its holder, if there is one.
LEMMA ReleaseHeld ==
    ASSUME Shapes, Ownership, Fine, Known => Known', NEW o \in Openers, streams' = DropHeld(o),
           holder' = [holder EXCEPT ![o] = 0], \A p \in Openers : op'[p].n = op[p].n
    PROVE  /\ streams' \in Seq(StreamRec) /\ holder' \in [Openers -> Nat]
           /\ holder'[o] = 0 /\ \A p \in Openers : p # o => holder'[p] = holder[p]
           /\ Ownership' /\ Grows /\ \A n \in DOMAIN streams' : StreamFine(n)'
<1>1. /\ holder' \in [Openers -> Nat] /\ holder'[o] = 0
      /\ \A p \in Openers : p # o => holder'[p] = holder[p]
  BY DEF Shapes
<1>2. 0 \notin DOMAIN streams
  BY DEF Shapes
<1>3. \A p \in Openers : Taken'[p] = Taken[p]
  BY DEF Taken
<1>4. CASE holder[o] = 0
  <2>1. streams' = streams
    BY <1>4 DEF DropHeld
  <2>2. Grows /\ \A n \in DOMAIN streams' : StreamFine(n)'
    BY <2>1, OtherStreams DEF Grows, Fine
  <2>3. Exclusive(holder', "opener", streams') /\ Exclusive(Taken', "poll", streams')
    BY <1>1, <1>3, <1>4, <2>1 DEF Ownership, Exclusive
  <2> QED
    BY <1>1, <2>1, <2>2, <2>3 DEF Ownership, Shapes
<1>5. CASE holder[o] # 0
  <2> DEFINE n == holder[o]
  <2>1. n \in DOMAIN streams /\ streams[n].owner = "opener" /\ streams[n].closes = 0 /\ StreamFine(n)
    BY <1>5 DEF Ownership, Exclusive, Fine
  <2>2. streams[n] \in StreamRec
    BY <2>1 DEF Shapes
  <2>3. streams' = Closed(n)
    BY <1>5 DEF DropHeld
  <2>4. /\ streams' \in Seq(StreamRec) /\ DOMAIN streams' = DOMAIN streams
        /\ streams'[n] = [streams[n] EXCEPT !.owner = "none", !.closes = @ + 1]
        /\ \A m \in DOMAIN streams : m # n => streams'[m] = streams[m]
    BY <2>1, <2>3, CloseStream
  <2>5. /\ streams'[n].owner = "none" /\ streams'[n].closes = 1 /\ streams'[n].ok = streams[n].ok
        /\ streams'[n].val = streams[n].val /\ streams'[n].nat = streams[n].nat
    BY <2>1, <2>2, <2>4 DEF StreamRec
  <2> HIDE DEF n
  <2>6. Grows
    BY <2>4, <2>5 DEF Grows
  <2>7. PICK k : k = n
    OBVIOUS
  <2>8. StreamFine(k)'
    BY <2>1, <2>5, <2>6, <2>7 DEF StreamFine, Honest, Grows
  <2>9. \A m \in DOMAIN streams' : StreamFine(m)'
    BY <2>4, <2>6, <2>7, <2>8, OtherStreams DEF Fine
  <2>10. Exclusive(holder', "opener", streams')
    <3>1. Exclusive(holder, "opener", streams)
      BY DEF Ownership
    <3>2. \A m \in DOMAIN streams : m # holder[o] => (streams'[m].owner = "opener" <=> streams[m].owner = "opener")
      BY <2>4 DEF n
    <3>3. streams'[holder[o]].owner # "opener"
      BY <2>5 DEF n
    <3>4. DOMAIN streams' = DOMAIN streams /\ 0 \notin DOMAIN streams'
      BY <1>2, <2>4
    <3> QED
      BY <1>1, <1>5, <3>1, <3>2, <3>3, <3>4 DEF Exclusive
  <2>11. Exclusive(Taken', "poll", streams')
    <3>1. \A m \in DOMAIN streams' : streams'[m].owner = "poll" <=> (m \in DOMAIN streams /\ streams[m].owner = "poll")
      BY <2>1, <2>4, <2>5
    <3> QED
      BY <1>3, <2>4, <3>1, ExclusiveSame DEF Ownership
  <2>12. \A m \in DOMAIN streams' : streams'[m].closes = (IF streams'[m].owner = "none" THEN 1 ELSE 0)
    <3> SUFFICES ASSUME NEW m \in DOMAIN streams'
                 PROVE  streams'[m].closes = (IF streams'[m].owner = "none" THEN 1 ELSE 0)
      OBVIOUS
    <3>1. CASE m = n
      BY <2>5, <3>1
    <3>2. CASE m # n
      BY <2>4, <3>2 DEF Ownership
    <3> QED
      BY <3>1, <3>2
  <2> QED
    BY <1>1, <2>4, <2>6, <2>9, <2>10, <2>11, <2>12 DEF Ownership
<1> QED
  BY <1>4, <1>5

\* Opener o's poll passes the stream it took on to h3, or closes it.
LEMMA ReleaseTaken ==
    ASSUME Shapes, Ownership, Fine, Known => Known', NEW o \in Openers, op[o].n # 0,
           NEW r \in StreamRec, streams' = [streams EXCEPT ![op[o].n] = r],
           r.owner \in {"none", "h3"}, r.closes = (IF r.owner = "none" THEN 1 ELSE 0),
           r.val = streams[op[o].n].val, r.ok = streams[op[o].n].ok, r.nat = streams[op[o].n].nat,
           r.owner = "h3" => r.ok,
           op'[o].n = 0, \A p \in Openers : p # o => op'[p] = op[p], holder' = holder
    PROVE  /\ streams' \in Seq(StreamRec) /\ Ownership' /\ Grows
           /\ \A n \in DOMAIN streams' : StreamFine(n)'
<1>1. PICK n : n = op[o].n
  OBVIOUS
<1>2. n \in DOMAIN streams /\ streams[n].owner = "poll" /\ StreamFine(n) /\ 0 \notin DOMAIN streams
  BY <1>1 DEF Ownership, Exclusive, Fine, Taken, Shapes
<1>3. /\ streams' \in Seq(StreamRec) /\ DOMAIN streams' = DOMAIN streams /\ streams'[n] = r
      /\ \A m \in DOMAIN streams : m # n => streams'[m] = streams[m]
  BY <1>1, <1>2, UpdateStream
<1>4. StreamFine(n)'
  BY <1>1, <1>2, <1>3 DEF StreamFine, Honest
<1>5. Grows /\ \A m \in DOMAIN streams' : StreamFine(m)'
  BY <1>1, <1>2, <1>4, StreamStep
<1>6. Exclusive(Taken', "poll", streams')
  <2>1. Taken[o] = n /\ n # 0 /\ Taken'[o] = 0
    BY <1>1 DEF Taken
  <2>2. \A p \in Openers : p # o => Taken'[p] = Taken[p]
    BY DEF Taken
  <2>3. Exclusive(Taken, "poll", streams)
    BY DEF Ownership
  <2>4. Taken[o] # 0 /\ streams'[Taken[o]].owner # "poll"
    BY <1>3, <2>1
  <2>5. DOMAIN streams' = DOMAIN streams /\ 0 \notin DOMAIN streams'
    BY <1>2, <1>3
  <2>6. \A m \in DOMAIN streams : m # Taken[o] => (streams'[m].owner = "poll" <=> streams[m].owner = "poll")
    BY <1>3, <2>1
  <2> QED
    BY <2>1, <2>2, <2>3, <2>4, <2>5, <2>6 DEF Exclusive
<1>7. Exclusive(holder', "opener", streams')
  <2>1. \A m \in DOMAIN streams' : streams'[m].owner = "opener" <=> (m \in DOMAIN streams /\ streams[m].owner = "opener")
    BY <1>2, <1>3
  <2> QED
    BY <1>3, <2>1, ExclusiveSame DEF Ownership
<1>8. \A m \in DOMAIN streams' : streams'[m].closes = (IF streams'[m].owner = "none" THEN 1 ELSE 0)
  BY <1>3 DEF Ownership
<1> QED
  BY <1>3, <1>5, <1>6, <1>7, <1>8 DEF Ownership

-----------------------------------------------------------------------------
(* The slot and the errors.                                                *)

\* A record leaves a cause in the slot, and an observed slot alone.
LEMMA RecordKeeps ==
    ASSUME Shapes, CauseKnown, NEW c \in ConnectionTerminal, conn' = RecordConnTerminal(conn, c)
    PROVE  /\ conn' \in ConnSlot /\ Known' /\ conn'.observed = conn.observed
           /\ conn.observed => conn' = conn
<1>1. conn.terminal \in ConnectionTerminal \cup {NoCause} /\ conn.observed \in BOOLEAN /\ c # NoCause
  BY DEF Shapes, ConnSlot, ConnectionTerminal, SpecificCause, NoCause
<1>2. CASE conn' = conn /\ Known
  BY <1>1, <1>2 DEF Shapes, Known
<1>3. CASE conn' = [conn EXCEPT !.terminal = c] /\ ~conn.observed
  BY <1>1, <1>3 DEF Shapes, ConnSlot, Known
<1>4. conn' = conn => Known
  BY <1>1 DEF RecordConnTerminal, CauseKnown, Known, IsProvisional, Shapes, ConnSlot
<1> QED
  BY <1>2, <1>3, <1>4 DEF RecordConnTerminal

\* The errors the properties rule out.
Bad == {Cancelled} \cup {Raw(w) : w \in Remotes}

\* What they rule out, in these terms.
LEMMA NoBad == StartFailureHasCause <=> errs \cap Bad = {}
  BY DEF StartFailureHasCause, NoReasonlessCancel, RemoteCauseSurfaced, Bad

\* Neither a connection error nor a refusal nor a bad id is one of them.
LEMMA GoodErrors ==
    /\ \A c : Connection(c) \notin Bad
    /\ Raw("refused") \notin Bad /\ Raw("other") \notin Bad /\ Raw("panic") \notin Bad
    /\ BadId \notin Bad
<1>1. /\ \A c : Connection(c).kind = "Connection"
      /\ \A w : Raw(w).kind = "Unknown" /\ Raw(w).arg = w
      /\ Cancelled.kind = "Internal" /\ BadId.kind = "Internal" /\ BadId # Cancelled
  BY DEF Connection, Raw, Cancelled, BadId, Internal, Term
<1>2. Remotes \subseteq {"peer", "idle", "transport"}
  BY StreamOpenAssumption
<1> QED
  BY <1>1, <1>2 DEF Bad

\* A failing poll reports the recorded cause and freezes it, and a bad fallback is
\* never used.
LEMMA FailWithKeeps ==
    ASSUME Shapes, CauseKnown, StartFailureHasCause, NEW o \in Openers, NEW fallback,
           FailWith(o, fallback), fallback \in Bad => Known, UNCHANGED ending
    PROVE  /\ conn' \in ConnSlot /\ (Known <=> Known') /\ CauseKnown' /\ StartFailureHasCause'
           /\ op' = [op EXCEPT ![o] = NoPoll]
<1>1. conn' \in ConnSlot /\ conn'.terminal = conn.terminal /\ conn'.observed = (conn.observed \/ Known)
  BY DEF FailWith, CommitConn, ObserveConnWinner, Shapes, ConnSlot, Known
<1>2. CauseKnown'
  BY <1>1 DEF FailWith, CauseKnown, Known, Shapes
<1>3. errs' \cap Bad = {}
  BY NoBad, GoodErrors DEF FailWith, Known
<1>4. StartFailureHasCause'
  BY <1>3 DEF StartFailureHasCause, NoReasonlessCancel, RemoteCauseSurfaced, Bad
<1> QED
  BY <1>1, <1>2, <1>4 DEF FailWith, Ready, Known

\* A step of one opener keeps the invariant if it keeps its own part of it.
LEMMA OpenerStep ==
    ASSUME IInv, NEW o \in Openers, UNCHANGED <<cb, ending>>, Grows, streams' \in Seq(StreamRec),
           NEW q \in [pc : Pcs, n : Nat, val : Vals], op' = [op EXCEPT ![o] = q],
           holder' \in [Openers -> Nat], \A p \in Openers : p # o => holder'[p] = holder[p],
           Ownership', PollFine(o)', \A n \in DOMAIN streams' : StreamFine(n)',
           conn' \in ConnSlot, CauseKnown', StartFailureHasCause'
    PROVE  IInv'
<1>1. op' \in [Openers -> [pc : Pcs, n : Nat, val : Vals]] /\ \A p \in Openers : p # o => op'[p] = op[p]
  BY DEF IInv, Shapes
<1>2. Shapes'
  BY <1>1 DEF IInv, Shapes
<1>3. ASSUME NEW p \in Openers, p # o PROVE PollFine(p)'
  BY <1>1, <1>3, OtherPolls DEF IInv, Fine
<1>4. Fine'
  BY <1>3 DEF Fine
<1>5. TodoShape'
  BY TodoStays DEF IInv
<1> QED
  BY <1>2, <1>4, <1>5 DEF IInv

\* The fields of the start results.
LEMMA AnswerFields ==
    /\ NoStart.res = "none" /\ NoStart.why \notin Remotes
    /\ Started(TRUE).res = "id" /\ Started(TRUE).why \notin Remotes
    /\ Started(FALSE).res = "badId" /\ Started(FALSE).why \notin Remotes
    /\ \A w : StartErr(w).res = "err" /\ StartErr(w).why = w
    /\ \A r \in Answers : r # NoStart
<1>1. /\ NoStart.res = "none" /\ NoStart.why = "" /\ Started(TRUE).res = "id" /\ Started(TRUE).why = ""
      /\ Started(FALSE).res = "badId" /\ Started(FALSE).why = ""
      /\ \A w : StartErr(w).res = "err" /\ StartErr(w).why = w
  BY DEF NoStart, Started, StartErr
<1>2. "" \notin Remotes
  BY StreamOpenAssumption
<1> QED
  BY <1>1, <1>2 DEF Answers

\* A poll that is over has nothing.
LEMMA NoPollFine ==
    ASSUME NEW o \in Openers, op'[o] = NoPoll PROVE PollFine(o)'
  BY DEF PollFine, PollHas, NoPoll

-----------------------------------------------------------------------------
(* The invariant.                                                          *)

\* It holds before the first open.
LEMMA InitIInv == Init => IInv
<1> SUFFICES ASSUME Init PROVE IInv
  OBVIOUS
<1>1. Shapes
  <2>1. NoPoll \in [pc : Pcs, n : Nat, val : Vals]
    BY DEF NoPoll, Pcs, Vals
  <2>2. conn \in ConnSlot /\ cb.stream \in Nat /\ DOMAIN cb = {"todo", "stream", "recovering"}
    BY DEF Init, EmptySlot, ConnSlot, NoCb
  <2> QED
    BY <2>1, <2>2, EmptySeq DEF Init, Shapes, Whys
<1>2. Ownership
  BY DEF Init, Ownership, Exclusive, Taken, NoPoll
<1>3. Fine
  BY DEF Init, Fine, PollFine, PollHas, NoPoll
<1>4. TodoShape /\ CauseKnown
  BY DEF Init, TodoShape, NoCb, CauseKnown, EmptySlot
<1>5. StartFailureHasCause
  BY DEF Init, StartFailureHasCause, NoReasonlessCancel, RemoteCauseSurfaced
<1> QED
  BY <1>1, <1>2, <1>3, <1>4, <1>5 DEF IInv

\* The steps of poll_open_inner.
LEMMA PollKeeps ==
    ASSUME IInv, NEW o \in Openers, PollOpen(o) \/ PollStep(o) \/ DropOpener(o) PROVE IInv'
<1>a. Shapes /\ Ownership /\ Fine /\ TodoShape /\ CauseKnown /\ StartFailureHasCause /\ PollFine(o)
  BY DEF IInv, Fine
<1>b. op[o] \in [pc : Pcs, n : Nat, val : Vals] /\ 0 \notin DOMAIN streams
  BY <1>a DEF Shapes
<1>c. NoPoll \in [pc : Pcs, n : Nat, val : Vals] /\ NoPoll.n = 0
  BY DEF NoPoll, Pcs, Vals
<1>1. CASE PollOpen(o) /\ Known
  <2>1. FailWith(o, Cancelled) /\ streams' = DropHeld(o) /\ holder' = [holder EXCEPT ![o] = 0]
        /\ UNCHANGED <<cb, ending>> /\ op[o].pc = "idle"
    BY <1>1 DEF PollOpen, Known
  <2>2. /\ conn' \in ConnSlot /\ (Known <=> Known') /\ CauseKnown' /\ StartFailureHasCause'
        /\ op' = [op EXCEPT ![o] = NoPoll]
    BY <1>1, <1>a, <2>1, FailWithKeeps
  <2>3. op'[o] = NoPoll /\ \A p \in Openers : op'[p].n = op[p].n
    BY <1>a, <1>c, <2>1, <2>2 DEF PollFine, PollHas, Shapes
  <2>4. /\ streams' \in Seq(StreamRec) /\ holder' \in [Openers -> Nat]
        /\ holder'[o] = 0 /\ \A p \in Openers : p # o => holder'[p] = holder[p]
        /\ Ownership' /\ Grows /\ \A n \in DOMAIN streams' : StreamFine(n)'
    BY <1>1, <1>a, <2>1, <2>2, <2>3, ReleaseHeld
  <2>5. PollFine(o)'
    BY <2>3, NoPollFine
  <2> QED
    BY <1>c, <2>1, <2>2, <2>4, <2>5, OpenerStep
<1>2. ASSUME NEW pc \in Pcs, GoTo(o, pc), op[o].pc \in {"idle", "submit"},
             pc \in {"submit", "refused", "gone"} => holder[o] = 0, pc = "start" => holder[o] # 0,
             pc \notin {"classify", "cancelled"},
             UNCHANGED <<streams, holder, errs, conn, cb, ending, told>>
      PROVE  IInv'
  <2> DEFINE q == [op[o] EXCEPT !.pc = pc]
  <2>1. q \in [pc : Pcs, n : Nat, val : Vals] /\ op' = [op EXCEPT ![o] = q] /\ q.pc = pc /\ q.n = op[o].n
    BY <1>2, <1>a, <1>b DEF GoTo, Shapes
  <2>2. op'[o] = q /\ \A p \in Openers : op'[p].n = op[p].n
    BY <1>a, <2>1 DEF Shapes
  <2>3. PollFine(o)'
    BY <1>2, <1>a, <2>1, <2>2 DEF PollFine, PollHas, Pcs
  <2> HIDE DEF q
  <2>4. Grows /\ \A n \in DOMAIN streams' : StreamFine(n)'
    BY <1>2, <1>a, OtherStreams DEF Grows, Fine, Known
  <2>5. Ownership'
    BY <1>2, <1>a, <2>2 DEF Ownership, Exclusive, Taken
  <2>6. CauseKnown' /\ StartFailureHasCause' /\ conn' \in ConnSlot /\ streams' \in Seq(StreamRec)
    BY <1>2, <1>a DEF CauseKnown, Known, StartFailureHasCause, NoReasonlessCancel, RemoteCauseSurfaced, Shapes
  <2>7. holder' \in [Openers -> Nat] /\ \A p \in Openers : p # o => holder'[p] = holder[p]
    BY <1>2, <1>a DEF Shapes
  <2> QED
    BY <1>2, <2>1, <2>3, <2>4, <2>5, <2>6, <2>7, OpenerStep
<1>3. CASE PollOpen(o) /\ ~Known
  BY <1>2, <1>3 DEF PollOpen, Known, Pcs
<1>4. CASE SubmitOpenStart(o)
  <2>1. op[o].pc = "submit" /\ holder[o] = 0 /\ op[o].n = 0
        /\ UNCHANGED <<errs, conn, cb, ending, fault, told>>
    BY <1>4, <1>a DEF SubmitOpenStart, SubmitThen, PollFine, PollHas
  <2>2. CASE GoTo(o, "refused") /\ UNCHANGED <<streams, holder, parked>>
    BY <1>2, <2>1, <2>2 DEF Pcs
  <2>3. CASE /\ streams' = Append(streams, Opening)
             /\ holder' = [holder EXCEPT ![o] = Len(streams) + 1]
             /\ GoTo(o, "start")
    <3> DEFINE q == [op[o] EXCEPT !.pc = "start"]
    <3>1. q \in [pc : Pcs, n : Nat, val : Vals] /\ op' = [op EXCEPT ![o] = q] /\ q.pc = "start" /\ q.n = 0
      BY <1>a, <1>b, <2>1, <2>3 DEF GoTo, Shapes, Pcs
    <3>2. op'[o] = q /\ \A p \in Openers : op'[p].n = op[p].n
      BY <1>a, <2>1, <3>1 DEF Shapes
    <3>3. PICK k : k = Len(streams) + 1
      OBVIOUS
    <3>4. /\ k \in Nat /\ k # 0 /\ k \notin DOMAIN streams
          /\ holder' \in [Openers -> Nat] /\ holder'[o] = k /\ \A p \in Openers : p # o => holder'[p] = holder[p]
      BY <1>a, <2>3, <3>3 DEF Shapes
    <3>5. PollFine(o)'
      BY <3>1, <3>2, <3>4 DEF PollFine, PollHas
    <3> HIDE DEF q
    <3>6. Opening \in StreamRec
      BY DEF Opening, StreamRec, Vals
    <3>7. /\ streams' \in Seq(StreamRec) /\ DOMAIN streams' = DOMAIN streams \cup {k} /\ streams'[k] = Opening
          /\ \A n \in DOMAIN streams : streams'[n] = streams[n]
      BY <1>a, <2>3, <3>3, <3>6 DEF Shapes
    <3>8. Grows
      BY <2>1, <3>7 DEF Grows, Known
    <3>9. StreamFine(k)'
      <4>1. /\ streams'[k].val = NoStart /\ ~streams'[k].ok /\ streams'[k].owner = "opener" /\ streams'[k].tx
            /\ streams'[k].closes = 0
        BY <3>7 DEF Opening
      <4> QED
        BY <4>1, AnswerFields DEF StreamFine, Honest
    <3>10. \A n \in DOMAIN streams' : StreamFine(n)'
      BY <1>a, <3>7, <3>8, <3>9, OtherStreams DEF Fine
    <3>11. Ownership'
      <4>1. streams'[k].owner = "opener" /\ streams'[k].closes = 0
        BY <3>7 DEF Opening
      <4>2. Exclusive(holder, "opener", streams) /\ Exclusive(Taken, "poll", streams)
        BY <1>a DEF Ownership
      <4>3. Exclusive(holder', "opener", streams')
        <5>1. \A p \in Openers : holder[p] # k
          BY <3>4, <4>2 DEF Exclusive
        <5>2. \A p \in Openers : holder'[p] # 0 => holder'[p] \in DOMAIN streams' /\ streams'[holder'[p]].owner = "opener"
          BY <3>4, <3>7, <4>1, <4>2 DEF Exclusive
        <5>3. \A p, r \in Openers : holder'[p] = holder'[r] /\ holder'[p] # 0 => p = r
          BY <3>4, <4>2, <5>1 DEF Exclusive
        <5>4. \A n \in DOMAIN streams' : streams'[n].owner = "opener" => \E p \in Openers : holder'[p] = n
          <6> SUFFICES ASSUME NEW n \in DOMAIN streams', streams'[n].owner = "opener", n # k
                       PROVE  \E p \in Openers : holder'[p] = n
            BY <3>4
          <6>1. PICK p \in Openers : holder[p] = n
            BY <3>7, <4>2 DEF Exclusive
          <6>2. p # o
            BY <1>b, <2>1, <3>7, <6>1
          <6> QED
            BY <3>4, <6>1, <6>2
        <5> QED
          BY <5>2, <5>3, <5>4 DEF Exclusive
      <4>4. Exclusive(Taken', "poll", streams')
        <5>1. \A p \in Openers : Taken'[p] = Taken[p]
          BY <3>2 DEF Taken
        <5>2. \A n \in DOMAIN streams' : streams'[n].owner = "poll" <=> (n \in DOMAIN streams /\ streams[n].owner = "poll")
          BY <3>4, <3>7, <4>1
        <5> QED
          BY <3>7, <4>2, <5>1, <5>2 DEF Exclusive
      <4>5. \A n \in DOMAIN streams' : streams'[n].closes = (IF streams'[n].owner = "none" THEN 1 ELSE 0)
        BY <1>a, <3>7, <4>1 DEF Ownership
      <4> QED
        BY <4>3, <4>4, <4>5 DEF Ownership
    <3>12. CauseKnown' /\ StartFailureHasCause' /\ conn' \in ConnSlot
      BY <1>a, <2>1 DEF CauseKnown, Known, StartFailureHasCause, NoReasonlessCancel, RemoteCauseSurfaced, Shapes
    <3> QED
      BY <2>1, <3>1, <3>4, <3>5, <3>7, <3>8, <3>10, <3>11, <3>12, OpenerStep
  <2> QED
    BY <1>4, <2>2, <2>3 DEF SubmitOpenStart, SubmitThen
<1>5. CASE SubmitRefused(o) \/ StartCancelled(o)
  <2>1. PICK fallback \in {Raw("refused"), Cancelled} :
           /\ FailWith(o, fallback) /\ (fallback = Cancelled => Known)
           /\ UNCHANGED <<streams, holder, cb, ending>> /\ op[o].pc \in {"refused", "cancelled"}
    <3>1. CASE SubmitRefused(o)
      <4>1. /\ FailWith(o, Raw("refused")) /\ op[o].pc = "refused"
            /\ UNCHANGED <<streams, holder, cb, ending>>
        BY <3>1 DEF SubmitRefused
      <4>2. Raw("refused") # Cancelled
        BY DEF Raw, Cancelled, Internal, Term
      <4> QED
        BY <4>1, <4>2
    <3>2. CASE StartCancelled(o)
      BY <1>a, <3>2 DEF StartCancelled, PollFine, PollHas
    <3> QED
      BY <1>5, <3>1, <3>2
  <2>2. /\ conn' \in ConnSlot /\ (Known <=> Known') /\ CauseKnown' /\ StartFailureHasCause'
        /\ op' = [op EXCEPT ![o] = NoPoll]
    BY <1>a, <2>1, FailWithKeeps, GoodErrors
  <2>3. op'[o] = NoPoll /\ \A p \in Openers : op'[p].n = op[p].n
    BY <1>a, <1>c, <2>1, <2>2 DEF PollFine, PollHas, Shapes
  <2>4. Grows /\ \A n \in DOMAIN streams' : StreamFine(n)'
    BY <1>a, <2>1, <2>2, OtherStreams DEF Grows, Fine
  <2>5. Ownership' /\ streams' \in Seq(StreamRec) /\ holder' \in [Openers -> Nat]
    <3>1. \A p \in Openers : Taken'[p] = Taken[p]
      BY <2>3 DEF Taken
    <3>2. streams' = streams /\ holder' = holder
      BY <2>1
    <3>3. Exclusive(holder', "opener", streams')
      BY <1>a, <3>2 DEF Ownership
    <3>4. Exclusive(Taken', "poll", streams')
      BY <1>a, <3>1, <3>2 DEF Ownership, Exclusive
    <3>5. \A n \in DOMAIN streams' : streams'[n].closes = (IF streams'[n].owner = "none" THEN 1 ELSE 0)
      BY <1>a, <3>2 DEF Ownership
    <3> QED
      BY <1>a, <3>2, <3>3, <3>4, <3>5 DEF Ownership, Shapes
  <2>6. PollFine(o)'
    BY <2>3, NoPollFine
  <2> QED
    BY <1>c, <2>1, <2>2, <2>4, <2>5, <2>6, OpenerStep
<1>6. CASE DropOpener(o)
  <2> DEFINE q == [op[o] EXCEPT !.pc = "gone"]
  <2>1. /\ op[o].pc = "idle" /\ op[o].n = 0 /\ streams' = DropHeld(o) /\ holder' = [holder EXCEPT ![o] = 0]
        /\ UNCHANGED <<errs, conn, cb, ending, told>>
    BY <1>6, <1>a DEF DropOpener, PollFine, PollHas
  <2>2. q \in [pc : Pcs, n : Nat, val : Vals] /\ op' = [op EXCEPT ![o] = q] /\ q.pc = "gone" /\ q.n = 0
    BY <1>6, <1>a, <1>b, <2>1 DEF DropOpener, Shapes, Pcs
  <2>3. op'[o] = q /\ \A p \in Openers : op'[p].n = op[p].n
    BY <1>a, <2>1, <2>2 DEF Shapes
  <2>4. /\ streams' \in Seq(StreamRec) /\ holder' \in [Openers -> Nat]
        /\ holder'[o] = 0 /\ \A p \in Openers : p # o => holder'[p] = holder[p]
        /\ Ownership' /\ Grows /\ \A n \in DOMAIN streams' : StreamFine(n)'
    BY <1>a, <2>1, <2>3, ReleaseHeld DEF Known
  <2>5. PollFine(o)'
    BY <2>2, <2>3, <2>4 DEF PollFine, PollHas
  <2> HIDE DEF q
  <2>6. CauseKnown' /\ StartFailureHasCause' /\ conn' \in ConnSlot
    BY <1>a, <2>1 DEF CauseKnown, Known, StartFailureHasCause, NoReasonlessCancel, RemoteCauseSurfaced, Shapes
  <2> QED
    BY <2>1, <2>2, <2>4, <2>5, <2>6, OpenerStep
<1>7. CASE PollStart(o)
  <2>1. PICK n : n = holder[o]
    OBVIOUS
  <2>2. /\ op[o].pc = "start" /\ op[o].n = 0 /\ n # 0 /\ n \in DOMAIN streams /\ n \in Nat
        /\ streams[n].owner = "opener" /\ streams[n].closes = 0
        /\ UNCHANGED <<errs, conn, cb, ending, told>>
    BY <1>7, <1>a, <2>1 DEF PollStart, AwaitStart, PollFine, PollHas, Ownership, Exclusive, Shapes
  <2>3. streams[n] \in StreamRec /\ StreamFine(n)
    BY <1>a, <2>2 DEF Shapes, Fine
  <2>4. CauseKnown' /\ StartFailureHasCause' /\ conn' \in ConnSlot /\ (Known <=> Known')
    BY <1>a, <2>2 DEF CauseKnown, Known, StartFailureHasCause, NoReasonlessCancel, RemoteCauseSurfaced, Shapes
  <2>5. CASE /\ op' = [op EXCEPT ![o] = [pc |-> "classify", n |-> n, val |-> streams[n].val]]
             /\ streams' = [streams EXCEPT ![n].val = NoStart, ![n].owner = "poll"]
             /\ holder' = [holder EXCEPT ![o] = 0]
    <3> DEFINE q == [pc |-> "classify", n |-> n, val |-> streams[n].val]
               r == [streams[n] EXCEPT !.val = NoStart, !.owner = "poll"]
    <3>1. q \in [pc : Pcs, n : Nat, val : Vals] /\ q.pc = "classify" /\ q.n = n /\ q.val = streams[n].val
      BY <2>2, <2>3 DEF Pcs, StreamRec
    <3>2. op'[o] = q /\ \A p \in Openers : p # o => op'[p] = op[p]
      BY <1>a, <2>5 DEF Shapes
    <3>3. /\ holder' \in [Openers -> Nat] /\ holder'[o] = 0
          /\ \A p \in Openers : p # o => holder'[p] = holder[p]
      BY <1>a, <2>5 DEF Shapes
    <3>4. NoStart \in Vals
      BY DEF Vals
    <3>5. /\ r \in StreamRec /\ r.owner = "poll" /\ r.val = NoStart /\ r.ok = streams[n].ok
          /\ r.nat = streams[n].nat /\ r.closes = 0
      <4>1. [streams[n] EXCEPT !.val = NoStart] \in StreamRec
        BY <2>3, <3>4 DEF StreamRec
      <4> QED
        BY <2>2, <2>3, <4>1 DEF StreamRec
    <3>6. streams' = [streams EXCEPT ![n] = r]
      BY <1>a, <2>2, <2>3, <2>5 DEF Shapes
    <3> HIDE DEF r, q
    <3>7. /\ streams' \in Seq(StreamRec) /\ DOMAIN streams' = DOMAIN streams /\ streams'[n] = r
          /\ \A m \in DOMAIN streams : m # n => streams'[m] = streams[m]
      BY <1>a, <2>2, <3>5, <3>6, UpdateStream
    <3>8. StreamFine(n)'
      BY <2>3, <3>5, <3>7, AnswerFields DEF StreamFine, Honest
    <3>9. Grows /\ \A m \in DOMAIN streams' : StreamFine(m)'
      BY <1>a, <2>2, <2>4, <3>5, <3>6, <3>8, StreamStep
    <3>10. PollFine(o)'
      <4>1. Honest(n, streams[n].val)
        BY <2>3 DEF StreamFine
      <4>2. PICK v : v = streams[n].val
        OBVIOUS
      <4>3. Honest(n, v)'
        BY <2>2, <3>9, <4>1, <4>2, HonestStays
      <4> QED
        BY <2>2, <3>1, <3>2, <3>3, <4>2, <4>3 DEF PollFine, PollHas
    <3>11. Ownership'
      <4>1. Exclusive(holder, "opener", streams) /\ Exclusive(Taken, "poll", streams)
        BY <1>a DEF Ownership
      <4>2. Exclusive(holder', "opener", streams')
        <5>1. \A m \in DOMAIN streams : m # n => (streams'[m].owner = "opener" <=> streams[m].owner = "opener")
          BY <3>7
        <5>2. streams'[n].owner # "opener" /\ DOMAIN streams' = DOMAIN streams
          BY <3>5, <3>7
        <5> QED
          BY <2>1, <2>2, <3>3, <4>1, <5>1, <5>2 DEF Exclusive
      <4>3. Exclusive(Taken', "poll", streams')
        <5>1. Taken[o] = 0 /\ Taken'[o] = n /\ \A p \in Openers : p # o => Taken'[p] = Taken[p]
          BY <2>2, <3>1, <3>2 DEF Taken
        <5>2. \A m \in DOMAIN streams : m # n => (streams'[m].owner = "poll" <=> streams[m].owner = "poll")
          BY <3>7
        <5>3. streams'[n].owner = "poll" /\ DOMAIN streams' = DOMAIN streams
          BY <3>5, <3>7
        <5>4. \A p \in Openers : Taken[p] # n
          BY <2>2, <4>1 DEF Exclusive
        <5>5. \A p \in Openers : Taken'[p] # 0 => Taken'[p] \in DOMAIN streams' /\ streams'[Taken'[p]].owner = "poll"
          BY <2>2, <4>1, <5>1, <5>2, <5>3, <5>4 DEF Exclusive
        <5>6. \A p, z \in Openers : Taken'[p] = Taken'[z] /\ Taken'[p] # 0 => p = z
          BY <4>1, <5>1, <5>4 DEF Exclusive
        <5>7. \A m \in DOMAIN streams' : streams'[m].owner = "poll" => \E p \in Openers : Taken'[p] = m
          <6> SUFFICES ASSUME NEW m \in DOMAIN streams', streams'[m].owner = "poll", m # n
                       PROVE  \E p \in Openers : Taken'[p] = m
            BY <5>1
          <6>1. PICK p \in Openers : Taken[p] = m
            BY <4>1, <5>2, <5>3 DEF Exclusive
          <6>2. p # o
            BY <1>b, <5>1, <5>3, <6>1
          <6> QED
            BY <5>1, <6>1, <6>2
        <5> QED
          BY <5>5, <5>6, <5>7 DEF Exclusive
      <4>4. \A m \in DOMAIN streams' : streams'[m].closes = (IF streams'[m].owner = "none" THEN 1 ELSE 0)
        BY <1>a, <3>5, <3>7 DEF Ownership
      <4> QED
        BY <4>2, <4>3, <4>4 DEF Ownership
    <3>12. op' = [op EXCEPT ![o] = q]
      BY <2>5 DEF q
    <3> QED
      BY <2>2, <2>4, <3>1, <3>3, <3>7, <3>9, <3>10, <3>11, <3>12, OpenerStep
  <2>6. CASE streams' = [streams EXCEPT ![n].waker = "armed"] /\ GoTo(o, "idle") /\ UNCHANGED holder
    <3> DEFINE q == [op[o] EXCEPT !.pc = "idle"]
               r == [streams[n] EXCEPT !.waker = "armed"]
    <3>1. q \in [pc : Pcs, n : Nat, val : Vals] /\ op' = [op EXCEPT ![o] = q] /\ q.pc = "idle" /\ q.n = 0
      BY <1>a, <1>b, <2>2, <2>6 DEF GoTo, Shapes, Pcs
    <3>2. op'[o] = q /\ \A p \in Openers : op'[p].n = op[p].n
      BY <1>a, <2>2, <3>1 DEF Shapes
    <3>3. PollFine(o)'
      BY <3>1, <3>2 DEF PollFine, PollHas
    <3>4. /\ r \in StreamRec /\ r.owner = streams[n].owner /\ r.val = streams[n].val /\ r.ok = streams[n].ok
          /\ r.nat = streams[n].nat /\ r.closes = streams[n].closes /\ r.tx = streams[n].tx
      BY <2>3 DEF StreamRec
    <3>5. streams' = [streams EXCEPT ![n] = r]
      BY <1>a, <2>2, <2>6 DEF Shapes
    <3> HIDE DEF r, q
    <3>6. /\ streams' \in Seq(StreamRec) /\ DOMAIN streams' = DOMAIN streams /\ streams'[n] = r
          /\ \A m \in DOMAIN streams : m # n => streams'[m] = streams[m]
      BY <1>a, <2>2, <3>4, <3>5, UpdateStream
    <3>7. StreamFine(n)'
      BY <2>3, <2>4, <3>4, <3>6 DEF StreamFine, Honest
    <3>8. Grows /\ \A m \in DOMAIN streams' : StreamFine(m)'
      BY <1>a, <2>2, <2>4, <3>4, <3>5, <3>7, StreamStep
    <3>9. Ownership'
      <4>1. \A m \in DOMAIN streams : streams'[m].owner = streams[m].owner /\ streams'[m].closes = streams[m].closes
        BY <3>4, <3>6
      <4>2. \A p \in Openers : Taken'[p] = Taken[p] /\ holder'[p] = holder[p]
        BY <2>6, <3>2 DEF Taken
      <4> QED
        BY <1>a, <3>6, <4>1, <4>2 DEF Ownership, Exclusive
    <3>10. holder' \in [Openers -> Nat] /\ \A p \in Openers : p # o => holder'[p] = holder[p]
      BY <1>a, <2>6 DEF Shapes
    <3> QED
      BY <2>2, <2>4, <3>1, <3>3, <3>6, <3>8, <3>9, <3>10, OpenerStep
  <2>7. CASE /\ streams[n].val = NoStart /\ ~streams[n].tx /\ streams' = Closed(n)
             /\ holder' = [holder EXCEPT ![o] = 0] /\ GoTo(o, "cancelled")
    <3> DEFINE q == [op[o] EXCEPT !.pc = "cancelled"]
    <3>1. q \in [pc : Pcs, n : Nat, val : Vals] /\ op' = [op EXCEPT ![o] = q] /\ q.pc = "cancelled" /\ q.n = 0
      BY <1>a, <1>b, <2>2, <2>7 DEF GoTo, Shapes, Pcs
    <3>2. op'[o] = q /\ \A p \in Openers : op'[p].n = op[p].n
      BY <1>a, <2>2, <3>1 DEF Shapes
    <3>3. Known
      BY <2>2, <2>3, <2>7 DEF StreamFine
    <3>4. streams' = DropHeld(o)
      BY <2>1, <2>2, <2>7 DEF DropHeld
    <3>5. /\ streams' \in Seq(StreamRec) /\ holder' \in [Openers -> Nat]
          /\ holder'[o] = 0 /\ \A p \in Openers : p # o => holder'[p] = holder[p]
          /\ Ownership' /\ Grows /\ \A m \in DOMAIN streams' : StreamFine(m)'
      BY <1>a, <2>4, <2>7, <3>2, <3>4, ReleaseHeld
    <3>6. PollFine(o)'
      BY <2>4, <3>1, <3>2, <3>3, <3>5 DEF PollFine, PollHas
    <3> HIDE DEF q
    <3> QED
      BY <2>2, <2>4, <3>1, <3>5, <3>6, OpenerStep
  <2> QED
    BY <1>7, <2>1, <2>5, <2>6, <2>7 DEF PollStart, AwaitStart
<1>8. CASE ClassifyStartOutcome(o)
  <2>1. PICK n : n = op[o].n
    OBVIOUS
  <2>2. /\ op[o].pc = "classify" /\ n # 0 /\ op[o].val \in Vals /\ Honest(n, op[o].val)
        /\ UNCHANGED <<holder, cb, ending>>
    BY <1>8, <1>a, <1>b, <2>1 DEF ClassifyStartOutcome, PollFine, PollHas
  <2>3. n \in DOMAIN streams /\ streams[n].owner = "poll" /\ streams[n].closes = 0
    BY <1>a, <2>1, <2>2 DEF Ownership, Exclusive, Taken
  <2>4. streams[n] \in StreamRec
    BY <1>a, <2>3 DEF Shapes
  <2>5. ASSUME NEW r \in StreamRec, streams' = [streams EXCEPT ![n] = r], r.owner \in {"none", "h3"},
               r.closes = (IF r.owner = "none" THEN 1 ELSE 0), r.val = streams[n].val,
               r.ok = streams[n].ok, r.nat = streams[n].nat, r.owner = "h3" => r.ok,
               op' = [op EXCEPT ![o] = NoPoll], Known => Known', conn' \in ConnSlot,
               CauseKnown', StartFailureHasCause'
        PROVE  IInv'
    <3>1. op'[o] = NoPoll /\ \A p \in Openers : p # o => op'[p] = op[p]
      BY <1>a, <2>5 DEF Shapes
    <3>2. /\ streams' \in Seq(StreamRec) /\ Ownership' /\ Grows
          /\ \A m \in DOMAIN streams' : StreamFine(m)'
      BY <1>a, <1>c, <2>1, <2>2, <2>5, <3>1, ReleaseTaken
    <3>3. PollFine(o)'
      BY <3>1, NoPollFine
    <3>4. holder' \in [Openers -> Nat] /\ \A p \in Openers : p # o => holder'[p] = holder[p]
      BY <1>a, <2>2 DEF Shapes
    <3> QED
      BY <1>c, <2>2, <2>5, <3>2, <3>3, <3>4, OpenerStep
  <2> DEFINE c == [streams[n] EXCEPT !.owner = "none", !.closes = @ + 1]
  <2>6. Closed(n) = [streams EXCEPT ![n] = c] /\ c \in StreamRec
    BY <1>a, <2>3, ClosedIs
  <2>7. c.owner = "none" /\ c.closes = 1 /\ c.val = streams[n].val /\ c.ok = streams[n].ok /\ c.nat = streams[n].nat
    BY <2>3, <2>4 DEF StreamRec
  <2> HIDE DEF c
  <2>8. CASE op[o].val.res = "err" /\ FailWith(o, Raw(op[o].val.why)) /\ streams' = Closed(n)
    <3>1. Raw(op[o].val.why) \in Bad => Known
      <4>1. Raw(op[o].val.why) \in Bad => op[o].val.why \in Remotes
        BY DEF Bad, Raw, Cancelled, Internal, Term
      <4> QED
        BY <2>2, <4>1 DEF Honest
    <3>2. /\ conn' \in ConnSlot /\ (Known <=> Known') /\ CauseKnown' /\ StartFailureHasCause'
          /\ op' = [op EXCEPT ![o] = NoPoll]
      BY <1>a, <2>2, <2>8, <3>1, FailWithKeeps
    <3> QED
      BY <2>5, <2>6, <2>7, <2>8, <3>2
  <2>9. CASE /\ errs' = errs \cup {BadId} /\ Ready(o) /\ streams' = Closed(n)
             /\ UNCHANGED <<conn, told>>
    <3>1. CauseKnown' /\ conn' \in ConnSlot /\ (Known => Known') /\ op' = [op EXCEPT ![o] = NoPoll]
      BY <1>a, <2>2, <2>9 DEF CauseKnown, Known, Shapes, Ready
    <3>2. errs' \cap Bad = {}
      BY <1>a, <2>9, NoBad, GoodErrors
    <3>3. StartFailureHasCause'
      BY <3>2 DEF StartFailureHasCause, NoReasonlessCancel, RemoteCauseSurfaced, Bad
    <3> QED
      BY <2>5, <2>6, <2>7, <2>9, <3>1, <3>3
  <2>10. CASE /\ op[o].val.res = "id" /\ streams' = [streams EXCEPT ![n].owner = "h3"]
              /\ Ready(o) /\ UNCHANGED <<errs, conn, told>>
    <3> DEFINE r == [streams[n] EXCEPT !.owner = "h3"]
    <3>1. streams[n].ok
      BY <2>2, <2>10 DEF Honest
    <3>2. /\ r \in StreamRec /\ r.owner = "h3" /\ r.closes = 0 /\ r.val = streams[n].val
          /\ r.ok = streams[n].ok /\ r.nat = streams[n].nat
      BY <2>3, <2>4 DEF StreamRec
    <3>3. streams' = [streams EXCEPT ![n] = r]
      BY <1>a, <2>3, <2>10 DEF Shapes
    <3> HIDE DEF r
    <3>4. CauseKnown' /\ conn' \in ConnSlot /\ (Known => Known') /\ op' = [op EXCEPT ![o] = NoPoll]
      BY <1>a, <2>2, <2>10 DEF CauseKnown, Known, Shapes, Ready
    <3>5. StartFailureHasCause'
      BY <1>a, <2>10 DEF StartFailureHasCause, NoReasonlessCancel, RemoteCauseSurfaced
    <3> QED
      BY <2>5, <3>1, <3>2, <3>3, <3>4, <3>5
  <2> QED
    BY <1>8, <2>1, <2>8, <2>9, <2>10 DEF ClassifyStartOutcome
<1> QED
  BY <1>1, <1>3, <1>4, <1>5, <1>6, <1>7, <1>8 DEF PollStep

\* A step of one stream, by its callback, msquic or h3, that leaves the openers alone.
LEMMA StreamOnly ==
    ASSUME IInv, UNCHANGED <<op, holder, errs, ending>>, NEW n \in DOMAIN streams, NEW r \in StreamRec,
           streams' = [streams EXCEPT ![n] = r],
           r.owner = streams[n].owner \/ (streams[n].owner = "h3" /\ r.owner = "none"),
           r.closes = (IF r.owner = "none" THEN 1 ELSE 0), streams[n].ok => r.ok, StreamFine(n)',
           conn' \in ConnSlot, Known => Known',
           DOMAIN cb' = {"todo", "stream", "recovering"}, cb'.stream \in Nat, TodoShape', CauseKnown'
    PROVE  IInv'
<1>a. Shapes /\ Ownership /\ Fine /\ StartFailureHasCause
  BY DEF IInv
<1>1. /\ streams' \in Seq(StreamRec) /\ DOMAIN streams' = DOMAIN streams /\ streams'[n] = r
      /\ \A m \in DOMAIN streams : m # n => streams'[m] = streams[m]
  BY <1>a, UpdateStream
<1>2. Grows /\ \A m \in DOMAIN streams' : StreamFine(m)'
  BY <1>a, StreamStep
<1>3. \A p \in Openers : PollFine(p)'
  BY <1>a, <1>2, OtherPolls DEF Fine
<1>4. Ownership'
  <2>1. \A m \in DOMAIN streams : /\ streams'[m].owner = "opener" <=> streams[m].owner = "opener"
                                  /\ streams'[m].owner = "poll" <=> streams[m].owner = "poll"
    BY <1>1
  <2>2. \A p \in Openers : Taken'[p] = Taken[p] /\ holder'[p] = holder[p]
    BY DEF Taken
  <2>3. Exclusive(holder', "opener", streams')
    BY <1>a, <1>1, <2>1, <2>2 DEF Ownership, Exclusive
  <2>4. Exclusive(Taken', "poll", streams')
    BY <1>a, <1>1, <2>1, <2>2 DEF Ownership, Exclusive
  <2>5. \A m \in DOMAIN streams' : streams'[m].closes = (IF streams'[m].owner = "none" THEN 1 ELSE 0)
    BY <1>a, <1>1 DEF Ownership
  <2> QED
    BY <2>3, <2>4, <2>5 DEF Ownership
<1>5. Shapes'
  BY <1>a, <1>1 DEF Shapes
<1>6. StartFailureHasCause'
  BY <1>a DEF StartFailureHasCause, NoReasonlessCancel, RemoteCauseSurfaced
<1> QED
  BY <1>2, <1>3, <1>4, <1>5, <1>6 DEF IInv, Fine

\* A step that leaves the openers and the streams alone.
LEMMA SlotOnly ==
    ASSUME IInv, UNCHANGED <<streams, op, holder, errs>>, conn' \in ConnSlot, Known => Known',
           ending' \in [why : Whys, indicated : BOOLEAN],
           DOMAIN cb' = {"todo", "stream", "recovering"}, cb'.stream \in Nat, TodoShape', CauseKnown'
    PROVE  IInv'
<1>a. Shapes /\ Ownership /\ Fine /\ StartFailureHasCause
  BY DEF IInv
<1>1. Grows
  BY DEF Grows
<1>2. Fine'
  BY <1>a, <1>1, OtherPolls, OtherStreams DEF Fine
<1>3. Ownership'
  BY <1>a DEF Ownership, Exclusive, Taken
<1>4. Shapes'
  BY <1>a DEF Shapes
<1>5. StartFailureHasCause'
  BY <1>a DEF StartFailureHasCause, NoReasonlessCancel, RemoteCauseSurfaced
<1> QED
  BY <1>2, <1>3, <1>4, <1>5 DEF IInv

\* The effect lists, from the front.
LEMMA EffectLists ==
    /\ \A r : /\ OnStartComplete(r) # <<>> /\ Head(OnStartComplete(r)) = Effect("answer", r)
              /\ Tail(OnStartComplete(r)) = <<>>
    /\ \A w : /\ OnShutdownComplete(w) # <<>> /\ Tail(OnShutdownComplete(w)) = <<Effect("cancel", "")>>
              /\ Head(OnShutdownComplete(w)) =
                   Effect("record", ClassifyConnShutdown(w \in {"peer", "local"}, w = "peer", Status(w)))
    /\ Head(<<Effect("cancel", "")>>) = Effect("cancel", "") /\ Tail(<<Effect("cancel", "")>>) = <<>>
    /\ StreamRecover # <<>> /\ Head(StreamRecover) = Effect("answer", StartErr("panic"))
    /\ Tail(StreamRecover) = <<Effect("poison", "")>>
    /\ Head(<<Effect("poison", "")>>) = Effect("poison", "") /\ Tail(<<Effect("poison", "")>>) = <<>>
<1>1. \A a : <<a>> # <<>> /\ Head(<<a>>) = a /\ Tail(<<a>>) = <<>>
  OBVIOUS
<1>2. \A a, b : <<a, b>> # <<>> /\ Head(<<a, b>>) = a /\ Tail(<<a, b>>) = <<b>>
  OBVIOUS
<1> QED
  BY <1>1, <1>2 DEF OnStartComplete, OnShutdownComplete, StreamRecover

\* What a shutdown records is a cause.
LEMMA ShutdownCause ==
    \A w : ClassifyConnShutdown(w \in {"peer", "local"}, w = "peer", Status(w)) \in ConnectionTerminal
  BY DEF ClassifyConnShutdown, ClassifyTransport, ConnectionTerminal, SpecificCause

\* One effect of a stream callback.
LEMMA CallbackKeeps ==
    ASSUME IInv, CallbackStep PROVE IInv'
<1>a. Shapes /\ Ownership /\ Fine /\ TodoShape /\ CauseKnown
  BY DEF IInv
<1>1. PICK n, e : n = cb.stream /\ e = Head(cb.todo)
  OBVIOUS
<1>2. n \in DOMAIN streams /\ n \in Nat /\ cb.todo # <<>>
  BY <1>a, <1>1 DEF CallbackStep, TodoShape, Shapes
<1>3. streams[n] \in StreamRec /\ StreamFine(n) /\ streams[n].closes = (IF streams[n].owner = "none" THEN 1 ELSE 0)
  BY <1>a, <1>2 DEF Shapes, Fine, Ownership
<1>4. /\ DOMAIN cb' = {"todo", "stream", "recovering"} /\ cb'.stream = n /\ cb'.todo = Tail(cb.todo)
      /\ UNCHANGED <<op, holder, errs, ending, told>>
      /\ conn' = IF e.op = "record" THEN RecordConnTerminal(conn, e.x) ELSE conn
  BY <1>a, <1>1 DEF CallbackStep, Shapes, opVars
<1>t. e = Head(cb.todo) /\ cb'.todo = Tail(cb.todo)
  BY <1>1, <1>4
<1>5. ASSUME NEW tx \in BOOLEAN, NEW val \in Vals, NEW waker \in {"none", "armed", "fired"},
             NEW poisoned \in BOOLEAN,
             streams' = [streams EXCEPT ![n] = [streams[n] EXCEPT !.tx = tx, !.val = val,
                                                  !.waker = waker, !.poisoned = poisoned]],
             Known => Known', conn' \in ConnSlot, CauseKnown', Honest(n, val),
             ~tx /\ val = NoStart => Known \/ (~streams[n].tx /\ streams[n].val = NoStart),
             Grows /\ cb'.stream \in DOMAIN streams' => TodoShape'
      PROVE  IInv'
  <2> DEFINE r == [streams[n] EXCEPT !.tx = tx, !.val = val, !.waker = waker, !.poisoned = poisoned]
  <2>1. r \in StreamRec
    <3>1. [streams[n] EXCEPT !.tx = tx] \in StreamRec
      BY <1>3 DEF StreamRec
    <3>2. [streams[n] EXCEPT !.tx = tx, !.val = val] \in StreamRec
      BY <1>3, <3>1 DEF StreamRec
    <3>3. [streams[n] EXCEPT !.tx = tx, !.val = val, !.waker = waker] \in StreamRec
      BY <1>3, <3>2 DEF StreamRec
    <3> QED
      BY <1>3, <3>3 DEF StreamRec
  <2>2. /\ r.tx = tx /\ r.val = val /\ r.ok = streams[n].ok /\ r.owner = streams[n].owner
        /\ r.nat = streams[n].nat /\ r.closes = streams[n].closes
    BY <1>3 DEF StreamRec
  <2>3. streams' = [streams EXCEPT ![n] = r]
    BY <1>5
  <2> HIDE DEF r
  <2>4. /\ DOMAIN streams' = DOMAIN streams /\ streams'[n] = r
        /\ \A m \in DOMAIN streams : m # n => streams'[m] = streams[m]
    BY <1>2, <1>a, <2>1, <2>3, UpdateStream
  <2>5. Grows
    BY <1>5, <2>2, <2>4 DEF Grows
  <2>6. Honest(n, val)'
    BY <1>2, <1>5, <2>5, HonestStays
  <2>7. StreamFine(n)'
    BY <1>3, <1>5, <2>2, <2>4, <2>6 DEF StreamFine
  <2>8. TodoShape'
    BY <1>2, <1>4, <1>5, <2>4, <2>5
  <2>9. /\ r.owner = streams[n].owner \/ (streams[n].owner = "h3" /\ r.owner = "none")
        /\ r.closes = (IF r.owner = "none" THEN 1 ELSE 0) /\ (streams[n].ok => r.ok)
    BY <1>3, <2>2
  <2>10. cb'.stream \in Nat /\ DOMAIN cb' = {"todo", "stream", "recovering"}
         /\ UNCHANGED <<op, holder, errs, ending>>
    BY <1>2, <1>4
  <2> QED
    BY <1>2, <1>5, <2>1, <2>3, <2>7, <2>8, <2>9, <2>10, StreamOnly
<1>6. streams' = [streams EXCEPT ![n] =
           [streams[n] EXCEPT !.tx = streams[n].tx /\ e.op \notin {"answer", "cancel"},
                     !.val = IF e.op = "answer" /\ streams[n].tx THEN e.x ELSE streams[n].val,
                     !.waker = IF e.op \in {"answer", "cancel"} /\ streams[n].tx /\ streams[n].waker = "armed"
                               THEN "fired" ELSE streams[n].waker,
                     !.poisoned = streams[n].poisoned \/ e.op = "poison"]]
  <2>1. /\ "tx" \in DOMAIN streams[n] /\ "val" \in DOMAIN streams[n]
        /\ "waker" \in DOMAIN streams[n] /\ "poisoned" \in DOMAIN streams[n]
    BY <1>3 DEF StreamRec
  <2> QED
    BY <1>1, <2>1 DEF CallbackStep
<1>7. /\ (streams[n].tx /\ e.op \notin {"answer", "cancel"}) \in BOOLEAN
      /\ (streams[n].poisoned \/ e.op = "poison") \in BOOLEAN
      /\ (IF e.op \in {"answer", "cancel"} /\ streams[n].tx /\ streams[n].waker = "armed"
          THEN "fired" ELSE streams[n].waker) \in {"none", "armed", "fired"}
      /\ streams[n].val \in Vals /\ Honest(n, streams[n].val)
  BY <1>3 DEF StreamRec, StreamFine
<1>8. e.op # "record" => CauseKnown' /\ conn' \in ConnSlot /\ (Known <=> Known')
  BY <1>a, <1>4 DEF CauseKnown, Known, Shapes
<1>9. ASSUME NEW r \in Answers, e = Effect("answer", r), Honest(n, r),
             cb'.todo = <<>> \/ cb'.todo = <<Effect("poison", "")>>
      PROVE  IInv'
  <2>1. e.op = "answer" /\ e.x = r /\ r \in Vals /\ r # NoStart
    BY <1>9, AnswerFields DEF Effect, Vals
  <2>2. (IF e.op = "answer" /\ streams[n].tx THEN e.x ELSE streams[n].val) \in Vals
    BY <1>7, <2>1
  <2>3. Honest(n, IF e.op = "answer" /\ streams[n].tx THEN e.x ELSE streams[n].val)
    BY <1>7, <1>9, <2>1
  <2>4. cb'.stream \in DOMAIN streams' => TodoShape'
    BY <1>9 DEF TodoShape
  <2> QED
    BY <1>5, <1>6, <1>7, <1>8, <2>1, <2>2, <2>3, <2>4
<1>10. CASE \E r \in Answers : cb.todo = OnStartComplete(r) /\ Honest(cb.stream, r)
  <2>1. PICK r \in Answers : cb.todo = OnStartComplete(r) /\ Honest(n, r)
    BY <1>1, <1>10
  <2>2. e = Effect("answer", r) /\ cb'.todo = <<>>
    <3>1. Head(OnStartComplete(r)) = Effect("answer", r) /\ Tail(OnStartComplete(r)) = <<>>
      BY EffectLists
    <3>2. cb.todo = OnStartComplete(r)
      BY <2>1
    <3>3. e = Effect("answer", r)
      BY <1>t, <3>1, <3>2, Zenon
    <3> QED
      BY <1>t, <3>1, <3>2, <3>3, Zenon
  <2> QED
    BY <1>9, <2>1, <2>2
<1>11. CASE \E w \in Remotes \cup {"local"} : cb.todo = OnShutdownComplete(w)
  <2>1. PICK w \in Remotes \cup {"local"} : cb.todo = OnShutdownComplete(w)
    BY <1>11
  <2> DEFINE c == ClassifyConnShutdown(w \in {"peer", "local"}, w = "peer", Status(w))
  <2>2. c \in ConnectionTerminal
    BY ShutdownCause
  <2>3. e = Effect("record", c) /\ cb'.todo = <<Effect("cancel", "")>>
    <3>1. OnShutdownComplete(w) = <<Effect("record", c), Effect("cancel", "")>>
      BY DEF OnShutdownComplete
    <3> HIDE DEF c
    <3>2. \A a, b : Head(<<a, b>>) = a /\ Tail(<<a, b>>) = <<b>>
      OBVIOUS
    <3> QED
      BY <1>t, <2>1, <3>1, <3>2, Zenon
  <2> HIDE DEF c
  <2>4. e.op = "record" /\ e.x = c
    BY <2>3 DEF Effect
  <2>5. /\ conn' \in ConnSlot /\ Known' /\ conn'.observed = conn.observed
        /\ conn.observed => conn' = conn
    BY <1>a, <1>4, <2>2, <2>4, RecordKeeps
  <2>6. CauseKnown'
    BY <1>a, <1>4, <2>5 DEF CauseKnown
  <2>7. cb'.stream \in DOMAIN streams' => TodoShape'
    BY <2>3, <2>5 DEF TodoShape
  <2>8. streams[n].tx \in BOOLEAN
    BY <1>3 DEF StreamRec
  <2> QED
    BY <1>5, <1>6, <1>7, <2>4, <2>5, <2>6, <2>7, <2>8
<1>12. CASE cb.todo = <<Effect("cancel", "")>> /\ Known
  <2>1. e = Effect("cancel", "") /\ cb'.todo = <<>>
    BY <1>1, <1>4, <1>12, EffectLists
  <2>2. e.op = "cancel"
    BY <2>1 DEF Effect
  <2>3. TodoShape'
    BY <2>1 DEF TodoShape
  <2> QED
    BY <1>5, <1>6, <1>7, <1>8, <1>12, <2>2, <2>3
<1>13. CASE cb.todo = StreamRecover
  <2>1. StartErr("panic") \in Answers /\ Honest(n, StartErr("panic"))
    BY AnswerFields, StreamOpenAssumption DEF Answers, Honest
  <2> QED
    BY <1>1, <1>4, <1>9, <1>13, <2>1, EffectLists
<1>14. CASE cb.todo = <<Effect("poison", "")>>
  <2>1. e = Effect("poison", "") /\ cb'.todo = <<>>
    BY <1>1, <1>4, <1>14, EffectLists
  <2>2. e.op = "poison"
    BY <2>1 DEF Effect
  <2>3. TodoShape'
    BY <2>1 DEF TodoShape
  <2> QED
    BY <1>5, <1>6, <1>7, <1>8, <2>2, <2>3
<1> QED
  BY <1>a, <1>2, <1>10, <1>11, <1>12, <1>13, <1>14 DEF TodoShape

\* A panicking body leaves the recovery to run.
LEMMA PanicKeeps ==
    ASSUME IInv, CallbackPanic PROVE IInv'
<1>1. /\ DOMAIN cb' = {"todo", "stream", "recovering"} /\ cb'.stream = cb.stream /\ cb'.todo = StreamRecover
      /\ UNCHANGED <<streams, op, holder, errs, conn, ending, told>>
  BY DEF CallbackPanic, opVars, IInv, Shapes
<1>2. cb.stream \in DOMAIN streams /\ cb.stream \in Nat
  BY DEF CallbackPanic, IInv, TodoShape, Shapes
<1>3. TodoShape'
  BY <1>1, <1>2 DEF TodoShape
<1>4. CauseKnown' /\ (Known => Known') /\ conn' \in ConnSlot /\ ending' \in [why : Whys, indicated : BOOLEAN]
  BY <1>1 DEF IInv, CauseKnown, Known, Shapes
<1> QED
  BY <1>1, <1>2, <1>3, <1>4, SlotOnly

\* h3 drops a stream it was handed.
LEMMA DropKeeps ==
    ASSUME IInv, NEW n \in DOMAIN streams, DropOpened(n) PROVE IInv'
<1>a. Shapes /\ Ownership /\ Fine /\ TodoShape /\ CauseKnown
  BY DEF IInv
<1> DEFINE c == [streams[n] EXCEPT !.owner = "none", !.closes = @ + 1]
<1>1. streams[n] \in StreamRec /\ StreamFine(n) /\ streams[n].owner = "h3" /\ streams[n].closes = 0
  BY <1>a DEF DropOpened, Shapes, Fine, Ownership
<1>2. streams' = [streams EXCEPT ![n] = c] /\ c \in StreamRec
  BY <1>a, ClosedIs DEF DropOpened
<1>3. c.owner = "none" /\ c.closes = 1 /\ c.val = streams[n].val /\ c.ok = streams[n].ok /\ c.nat = streams[n].nat
  BY <1>1 DEF StreamRec
<1> HIDE DEF c
<1>4. UNCHANGED <<op, holder, errs, conn, cb, ending, told>>
  BY DEF DropOpened, opVars
<1>5. /\ DOMAIN streams' = DOMAIN streams /\ streams'[n] = c
      /\ \A m \in DOMAIN streams : m # n => streams'[m] = streams[m]
  BY <1>a, <1>2, UpdateStream
<1>6. StreamFine(n)'
  BY <1>1, <1>3, <1>4, <1>5 DEF StreamFine, Honest, Known
<1>7. CauseKnown' /\ (Known => Known') /\ conn' \in ConnSlot /\ cb'.stream \in Nat
      /\ DOMAIN cb' = {"todo", "stream", "recovering"}
  BY <1>a, <1>4 DEF CauseKnown, Known, Shapes
<1>8. TodoShape'
  <2>1. Grows
    BY <1>3, <1>5, <1>7 DEF Grows
  <2> QED
    BY <1>a, <1>4, <2>1, TodoStays
<1> QED
  BY <1>1, <1>2, <1>3, <1>4, <1>6, <1>7, <1>8, StreamOnly

\* msquic tells a stream's callback, which is not running.
LEMMA IndicateIs ==
    ASSUME NEW n, NEW effects, Indicate(n, effects)
    PROVE  /\ DOMAIN cb' = {"todo", "stream", "recovering"} /\ cb'.stream = n
           /\ cb'.todo = <<>> \/ cb'.todo = effects
BY DEF Indicate, NoCb

\* What msquic does to one stream.
LEMMA NativeKeeps ==
    ASSUME IInv, NEW n \in DOMAIN streams, StartCompletes(n) \/ ShutdownCompletes(n) PROVE IInv'
<1>a. Shapes /\ Ownership /\ Fine /\ TodoShape /\ CauseKnown
  BY DEF IInv
<1>b. n \in Nat /\ streams[n] \in StreamRec /\ StreamFine(n)
      /\ streams[n].closes = (IF streams[n].owner = "none" THEN 1 ELSE 0)
  BY <1>a DEF Shapes, Fine, Ownership
<1>c. UNCHANGED <<op, holder, errs, conn, ending, told>>
  BY DEF StartCompletes, ShutdownCompletes, NativeUnchanged, opVars
<1>d. CauseKnown' /\ (Known <=> Known') /\ conn' \in ConnSlot
  BY <1>a, <1>c DEF CauseKnown, Known, Shapes
<1>1. CASE StartCompletes(n)
  <2>1. PICK r : /\ r \in Answers /\ Indicate(n, OnStartComplete(r))
                 /\ r.res = "id" => r = Started(TRUE)
                 /\ r.why \in Remotes => Known
    <3>1. /\ Started(TRUE) \in Answers /\ Started(FALSE) \in Answers /\ StartErr("other") \in Answers
          /\ "other" \notin Remotes
      BY StreamOpenAssumption DEF Answers
    <3>2. ending.indicated => StartErr(ending.why) \in Answers /\ (ending.why \in Remotes => Known)
      BY <1>a DEF Answers, Shapes, CauseKnown
    <3> QED
      BY <1>1, <3>1, <3>2, AnswerFields DEF StartCompletes
  <2>2. PICK ok \in BOOLEAN : ok = (cb'.todo = OnStartComplete(Started(TRUE)))
    OBVIOUS
  <2>3. streams[n].nat = "starting" /\ streams' = [streams EXCEPT ![n].nat = "answered", ![n].ok = ok]
    BY <1>1, <2>2 DEF StartCompletes
  <2>4. ~streams[n].ok /\ streams[n].owner # "h3" /\ streams[n].val.res # "id"
    BY <1>b, <2>3 DEF StreamFine, Honest
  <2> DEFINE t == [streams[n] EXCEPT !.nat = "answered", !.ok = ok]
  <2>5. t \in StreamRec
    <3>1. [streams[n] EXCEPT !.nat = "answered"] \in StreamRec
      BY <1>b DEF StreamRec
    <3> QED
      BY <1>b, <3>1 DEF StreamRec
  <2>6. /\ t.nat = "answered" /\ t.ok = ok /\ t.owner = streams[n].owner /\ t.closes = streams[n].closes
        /\ t.val = streams[n].val /\ t.tx = streams[n].tx
    BY <1>b DEF StreamRec
  <2>7. streams' = [streams EXCEPT ![n] = t]
    BY <1>a, <1>b, <2>3 DEF Shapes
  <2> HIDE DEF t
  <2>8. /\ DOMAIN streams' = DOMAIN streams /\ streams'[n] = t
        /\ \A m \in DOMAIN streams : m # n => streams'[m] = streams[m]
    BY <1>a, <2>5, <2>7, UpdateStream
  <2>9. StreamFine(n)'
    BY <1>b, <1>d, <2>4, <2>6, <2>8 DEF StreamFine, Honest
  <2>10. DOMAIN cb' = {"todo", "stream", "recovering"} /\ cb'.stream = n
         /\ (cb'.todo = <<>> \/ cb'.todo = OnStartComplete(r))
    BY <2>1, IndicateIs
  <2>11. TodoShape'
    <3>1. CASE cb'.todo = <<>>
      BY <3>1 DEF TodoShape
    <3>2. CASE cb'.todo = OnStartComplete(r)
      <4>1. r.res = "id" => streams'[n].ok
        BY <2>1, <2>2, <2>6, <2>8, <3>2
      <4>2. Honest(n, r)'
        BY <1>d, <2>1, <4>1 DEF Honest
      <4> QED
        BY <2>1, <2>8, <2>10, <3>2, <4>2 DEF TodoShape
    <3> QED
      BY <2>10, <3>1, <3>2
  <2>12. /\ t.owner = streams[n].owner \/ (streams[n].owner = "h3" /\ t.owner = "none")
         /\ t.closes = (IF t.owner = "none" THEN 1 ELSE 0) /\ (streams[n].ok => t.ok)
    BY <1>b, <2>4, <2>6
  <2> QED
    BY <1>b, <1>c, <1>d, <2>5, <2>7, <2>9, <2>10, <2>11, <2>12, StreamOnly
<1>2. CASE ShutdownCompletes(n)
  <2>1. ending.indicated /\ Indicate(n, OnShutdownComplete(ending.why)) /\ streams' = [streams EXCEPT ![n].nat = "shut"]
    BY <1>2 DEF ShutdownCompletes
  <2> DEFINE t == [streams[n] EXCEPT !.nat = "shut"]
  <2>2. t \in StreamRec
    BY <1>b DEF StreamRec
  <2>3. /\ t.nat = "shut" /\ t.ok = streams[n].ok /\ t.owner = streams[n].owner /\ t.closes = streams[n].closes
        /\ t.val = streams[n].val /\ t.tx = streams[n].tx
    BY <1>b DEF StreamRec
  <2>4. streams' = [streams EXCEPT ![n] = t]
    BY <1>a, <1>b, <2>1 DEF Shapes
  <2> HIDE DEF t
  <2>5. /\ DOMAIN streams' = DOMAIN streams /\ streams'[n] = t
        /\ \A m \in DOMAIN streams : m # n => streams'[m] = streams[m]
    BY <1>a, <2>2, <2>4, UpdateStream
  <2>6. StreamFine(n)'
    BY <1>b, <1>d, <2>3, <2>5 DEF StreamFine, Honest
  <2>7. PICK w : w = ending.why
    OBVIOUS
  <2>8. w \in Remotes \cup {"local"}
    BY <1>a, <2>1, <2>7 DEF Shapes, CauseKnown, Whys
  <2>9. DOMAIN cb' = {"todo", "stream", "recovering"} /\ cb'.stream = n
        /\ (cb'.todo = <<>> \/ cb'.todo = OnShutdownComplete(w))
    BY <2>1, <2>7, IndicateIs
  <2>10. TodoShape'
    BY <2>5, <2>8, <2>9 DEF TodoShape
  <2>11. /\ t.owner = streams[n].owner \/ (streams[n].owner = "h3" /\ t.owner = "none")
         /\ t.closes = (IF t.owner = "none" THEN 1 ELSE 0) /\ (streams[n].ok => t.ok)
    BY <1>b, <2>3
  <2> QED
    BY <1>b, <1>c, <1>d, <2>2, <2>4, <2>6, <2>9, <2>10, <2>11, StreamOnly
<1> QED
  BY <1>1, <1>2

\* How the connection ends, and what is reported of it elsewhere.
LEMMA ConnectionKeeps ==
    ASSUME IInv, \/ \E why \in Remotes \cup {"local"} : ConnectionEnds(why)
                 \/ ShutdownInitiated \/ OpenerClose \/ OtherFrontend
    PROVE  IInv'
<1>a. Shapes /\ TodoShape /\ CauseKnown
  BY DEF IInv
<1>b. /\ UNCHANGED <<streams, op, holder, errs, cb>>
      /\ DOMAIN cb' = {"todo", "stream", "recovering"} /\ cb'.stream \in Nat
  BY <1>a DEF ConnectionEnds, ShutdownInitiated, OpenerClose, OtherFrontend, opVars, Shapes
<1>c. (Known => Known') => TodoShape'
  <2>1. (Known => Known') => Grows
    BY <1>b DEF Grows
  <2> QED
    BY <1>a, <1>b, <2>1, TodoStays
<1>1. CASE \E why \in Remotes \cup {"local"} : ConnectionEnds(why)
  <2>1. ending' \in [why : Whys, indicated : BOOLEAN] /\ ~ending'.indicated /\ UNCHANGED <<conn, told>>
    BY <1>1 DEF ConnectionEnds, Whys
  <2>2. CauseKnown' /\ (Known => Known') /\ conn' \in ConnSlot
    BY <1>a, <2>1 DEF CauseKnown, Known, Shapes
  <2> QED
    BY <1>b, <1>c, <2>1, <2>2, SlotOnly
<1>2. CASE ShutdownInitiated
  <2>1. /\ ending' \in [why : Whys, indicated : BOOLEAN] /\ ending'.why = ending.why /\ ending.why # "up"
        /\ told' = told
    BY <1>2, <1>a DEF ShutdownInitiated, Shapes
  <2>2. CASE ending.why = "local"
    <3>1. conn' = conn
      BY <1>2, <2>2 DEF ShutdownInitiated
    <3>2. CauseKnown' /\ (Known => Known') /\ conn' \in ConnSlot
      <4>1. "local" \notin Remotes
        BY StreamOpenAssumption
      <4> QED
        BY <1>a, <2>1, <2>2, <3>1, <4>1 DEF CauseKnown, Known, Shapes
    <3> QED
      BY <1>b, <1>c, <2>1, <3>2, SlotOnly
  <2>3. CASE ending.why # "local"
    <3>1. PICK c \in ConnectionTerminal : conn' = RecordConnTerminal(conn, c)
      <4>1. ClassifyTransport(Status(ending.why)) \in ConnectionTerminal /\ "PeerApplication" \in ConnectionTerminal
        BY DEF ClassifyTransport, ConnectionTerminal, SpecificCause
      <4>2. CASE ending.why = "peer"
        BY <1>2, <4>1, <4>2 DEF ShutdownInitiated
      <4>3. CASE ending.why # "peer"
        BY <1>2, <2>3, <4>1, <4>3 DEF ShutdownInitiated
      <4> QED
        BY <4>2, <4>3
    <3>2. /\ conn' \in ConnSlot /\ Known' /\ conn'.observed = conn.observed
          /\ conn.observed => conn' = conn
      BY <1>a, <3>1, RecordKeeps
    <3>3. CauseKnown'
      BY <1>a, <2>1, <3>2 DEF CauseKnown
    <3> QED
      BY <1>b, <1>c, <2>1, <3>2, <3>3, SlotOnly
  <2> QED
    BY <2>2, <2>3
<1>3. CASE OpenerClose
  <2>1. conn' = RecordConnTerminal(conn, "LocalClose") /\ UNCHANGED <<ending, told>>
    BY <1>3 DEF OpenerClose
  <2>2. /\ conn' \in ConnSlot /\ Known' /\ conn'.observed = conn.observed
        /\ conn.observed => conn' = conn
    BY <1>a, <2>1, RecordKeeps DEF ConnectionTerminal
  <2>3. CauseKnown' /\ ending' \in [why : Whys, indicated : BOOLEAN]
    BY <1>a, <2>1, <2>2 DEF CauseKnown, Shapes
  <2> QED
    BY <1>b, <1>c, <2>2, <2>3, SlotOnly
<1>4. CASE OtherFrontend
  <2>1. /\ conn.terminal # NoCause /\ conn' \in ConnSlot /\ conn'.terminal = conn.terminal /\ conn'.observed
        /\ told' = told \cup {conn.terminal} /\ ending' = ending
    BY <1>4, <1>a DEF OtherFrontend, CommitConn, ObserveConnWinner, Shapes, ConnSlot
  <2>2. CauseKnown' /\ (Known => Known') /\ ending' \in [why : Whys, indicated : BOOLEAN]
    BY <1>a, <2>1 DEF CauseKnown, Known, Shapes
  <2> QED
    BY <1>b, <1>c, <2>1, <2>2, SlotOnly
<1> QED
  BY <1>1, <1>2, <1>3, <1>4

\* Every step keeps the invariant.
LEMMA NextIInv == IInv /\ [Next]_vars => IInv'
<1> SUFFICES ASSUME IInv, [Next]_vars PROVE IInv'
  OBVIOUS
<1>1. CASE UNCHANGED vars
  <2>1. UNCHANGED <<streams, op, holder, errs, conn, cb, ending, told>>
    BY <1>1 DEF vars, opVars
  <2>2. TodoShape' /\ CauseKnown' /\ (Known => Known')
    BY <2>1 DEF IInv, TodoShape, Honest, CauseKnown, Known
  <2> QED
    BY <2>1, <2>2, SlotOnly DEF IInv, Shapes
<1>2. CASE Next
  BY <1>2, PollKeeps, DropKeeps, CallbackKeeps, PanicKeeps, NativeKeeps, ConnectionKeeps DEF Next, NativeStep
<1> QED
  BY <1>1, <1>2

\* The invariant holds of every reachable state.
LEMMA Invariance == Spec => []IInv
BY InitIInv, NextIInv, PTL DEF Spec

-----------------------------------------------------------------------------
(* What the openers promise.                                               *)

\* A stream that one opener at most has, counted.
LEMMA CountOwner ==
    ASSUME NEW f, NEW who, NEW s, Exclusive(f, who, s), 0 \notin DOMAIN s, NEW n \in DOMAIN s
    PROVE  Cardinality({o \in Openers : f[o] = n}) = (IF s[n].owner = who THEN 1 ELSE 0)
<1>1. CASE s[n].owner = who
  <2>1. PICK o \in Openers : f[o] = n
    BY <1>1 DEF Exclusive
  <2>2. {p \in Openers : f[p] = n} = {o}
    BY <2>1 DEF Exclusive
  <2> QED
    BY <1>1, <2>2, FS_Singleton
<1>2. CASE s[n].owner # who
  <2>1. {p \in Openers : f[p] = n} = {}
    BY <1>2 DEF Exclusive
  <2> QED
    BY <1>2, <2>1, FS_EmptySet
<1> QED
  BY <1>1, <1>2

\* However many openers race each other, the callbacks and the end of the connection,
\* a native stream has one owner at a time, is closed exactly once when it has none,
\* and reaches h3 only after its start succeeded (poll_open_inner, classify_start_outcome).
THEOREM StreamOwnedOnceAlways == Spec => []StreamOwnedOnce
<1>1. IInv => StreamOwnedOnce
  <2> SUFFICES ASSUME IInv PROVE StreamOwnedOnce
    OBVIOUS
  <2>1. OpenedMeansStarted
    BY DEF IInv, Fine, StreamFine, OpenedMeansStarted
  <2>2. 0 \notin DOMAIN streams
    BY DEF IInv, Shapes
  <2>3. ASSUME NEW n \in DOMAIN streams
        PROVE  /\ Cardinality({o \in Openers : holder[o] = n}) = (IF streams[n].owner = "opener" THEN 1 ELSE 0)
               /\ Cardinality({o \in Openers : op[o].n = n}) = (IF streams[n].owner = "poll" THEN 1 ELSE 0)
               /\ streams[n].closes = (IF streams[n].owner = "none" THEN 1 ELSE 0)
    <3>1. Cardinality({o \in Openers : holder[o] = n}) = (IF streams[n].owner = "opener" THEN 1 ELSE 0)
      BY <2>2, <2>3, CountOwner DEF IInv, Ownership
    <3>2. Cardinality({o \in Openers : Taken[o] = n}) = (IF streams[n].owner = "poll" THEN 1 ELSE 0)
      BY <2>2, <2>3, CountOwner DEF IInv, Ownership
    <3>3. {o \in Openers : Taken[o] = n} = {o \in Openers : op[o].n = n}
      BY DEF Taken
    <3> QED
      BY <2>3, <3>1, <3>2, <3>3 DEF IInv, Ownership
  <2> QED
    BY <2>1, <2>3 DEF StreamOwnedOnce
<1> QED
  BY <1>1, Invariance, PTL

\* No open fails without a cause because its start sender was dropped, and none reports
\* a remote end of the connection as a bare status (stream_open_conn_error and
\* classify_start_outcome against the order of the callback's steps).
THEOREM StartFailureHasCauseAlways == Spec => []StartFailureHasCause
BY Invariance, PTL DEF IInv

-----------------------------------------------------------------------------
(* The openers implement ConnCause.                                        *)

\* A record in the slot is a Record of the abstract cause, or changes nothing.
LEMMA RecordRefines ==
    ASSUME Shapes, CauseKnown, NEW c \in ConnectionTerminal,
           conn' = RecordConnTerminal(conn, c), told' = told
    PROVE  [Cause!Next]_Cause!vars
<1>1. CASE conn'.terminal = conn.terminal
  BY <1>1 DEF Cause!vars
<1>2. CASE conn'.terminal # conn.terminal
  <2>1. /\ ~conn.observed /\ conn'.terminal = c
        /\ conn.terminal = NoCause \/ (conn.terminal = "LocalClose" /\ c # "LocalClose")
    BY <1>2 DEF Shapes, ConnSlot, RecordConnTerminal, IsProvisional
  <2>2. told = {}
    BY <2>1 DEF CauseKnown
  <2>3. Cause!Record(c)
    BY <2>1, <2>2 DEF Cause!Record, NoCause, Cause!NoCause
  <2> QED
    BY <2>3 DEF Cause!Next, ConnectionTerminal, SpecificCause,
                Cause!ConnectionTerminal, Cause!SpecificCause
<1> QED
  BY <1>1, <1>2

\* A failing poll delivers the abstract cause, if there is one.
LEMMA FailWithRefines ==
    ASSUME Shapes, NEW o, NEW fallback, FailWith(o, fallback) PROVE [Cause!Next]_Cause!vars
<1>1. conn'.terminal = conn.terminal
  BY DEF FailWith, CommitConn, ObserveConnWinner, Shapes, ConnSlot
<1>2. CASE conn.terminal = NoCause
  BY <1>1, <1>2 DEF FailWith, Cause!vars
<1>3. CASE conn.terminal # NoCause
  BY <1>1, <1>3 DEF FailWith, Cause!Next, Cause!Deliver, NoCause, Cause!NoCause
<1> QED
  BY <1>2, <1>3

\* The openers, whose polls fail with and freeze the slot's cause, and the streams'
\* callbacks, which record one, keep ConnCause's promise: one cause reaches h3, and a
\* reported cause is final.
THEOREM CauseRefinement == Spec => CauseSpec
<1>1. Init => Cause!Init
  BY DEF Init, EmptySlot, Cause!Init, NoCause, Cause!NoCause
<1>2. IInv /\ [Next]_vars => [Cause!Next]_Cause!vars
  <2> SUFFICES ASSUME IInv, [Next]_vars PROVE [Cause!Next]_Cause!vars
    OBVIOUS
  <2>a. Shapes /\ CauseKnown /\ TodoShape
    BY DEF IInv
  <2>1. CASE UNCHANGED <<conn, told>>
    BY <2>1 DEF Cause!vars
  <2>2. ASSUME NEW o \in Openers, PollOpen(o) \/ PollStep(o) \/ DropOpener(o)
        PROVE  [Cause!Next]_Cause!vars
    <3>1. (\E fallback : FailWith(o, fallback)) \/ UNCHANGED <<conn, told>>
      BY <2>2 DEF PollOpen, PollStep, DropOpener, SubmitOpenStart, SubmitThen, SubmitRefused, PollStart,
                  AwaitStart, StartCancelled, ClassifyStartOutcome
    <3> QED
      BY <2>1, <2>a, <3>1, FailWithRefines
  <2>3. CASE CallbackStep
    <3>1. told' = told /\ conn' = IF Head(cb.todo).op = "record"
                                  THEN RecordConnTerminal(conn, Head(cb.todo).x) ELSE conn
      BY <2>3 DEF CallbackStep
    <3>2. Head(cb.todo).op = "record" => Head(cb.todo).x \in ConnectionTerminal
      <4>1. \A x, y : Effect(x, y).op = x /\ Effect(x, y).x = y
        BY DEF Effect
      <4>2. cb.todo # <<>>
        BY <2>3 DEF CallbackStep
      <4>3. CASE \E w \in Remotes \cup {"local"} : cb.todo = OnShutdownComplete(w)
        <5>1. PICK w \in Remotes \cup {"local"} : cb.todo = OnShutdownComplete(w)
          BY <4>3
        <5> DEFINE c == ClassifyConnShutdown(w \in {"peer", "local"}, w = "peer", Status(w))
        <5>2. c \in ConnectionTerminal
          BY ShutdownCause
        <5>3. OnShutdownComplete(w) = <<Effect("record", c), Effect("cancel", "")>>
          BY DEF OnShutdownComplete
        <5> HIDE DEF c
        <5>4. Head(cb.todo) = Effect("record", c)
          <6>1. \A a, b : Head(<<a, b>>) = a
            OBVIOUS
          <6> QED
            BY <5>1, <5>3, <6>1, Zenon
        <5> QED
          BY <4>1, <5>2, <5>4
      <4>4. CASE \E r \in Answers : cb.todo = OnStartComplete(r)
        <5>1. PICK r \in Answers : cb.todo = OnStartComplete(r)
          BY <4>4
        <5>2. Head(cb.todo) = Effect("answer", r)
          BY <5>1, EffectLists, Zenon
        <5> QED
          BY <4>1, <5>2
      <4>5. CASE cb.todo = <<Effect("cancel", "")>> \/ cb.todo = StreamRecover \/ cb.todo = <<Effect("poison", "")>>
        <5>1. Head(cb.todo).op \in {"cancel", "answer", "poison"}
          <6>1. \/ Head(cb.todo) = Effect("cancel", "") \/ Head(cb.todo) = Effect("poison", "")
                \/ Head(cb.todo) = Effect("answer", StartErr("panic"))
            BY <4>5, EffectLists, Zenon
          <6> QED
            BY <4>1, <6>1
        <5> QED
          BY <5>1
      <4> QED
        BY <2>a, <4>2, <4>3, <4>4, <4>5 DEF TodoShape
    <3> QED
      BY <2>1, <2>a, <3>1, <3>2, RecordRefines
  <2>4. CASE ShutdownInitiated
    <3>1. ClassifyTransport(Status(ending.why)) \in ConnectionTerminal /\ "PeerApplication" \in ConnectionTerminal
      BY DEF ClassifyTransport, ConnectionTerminal, SpecificCause
    <3>2. told' = told /\ (conn' = conn \/ \E c \in ConnectionTerminal : conn' = RecordConnTerminal(conn, c))
      BY <2>4, <3>1 DEF ShutdownInitiated
    <3> QED
      BY <2>1, <2>a, <3>2, RecordRefines
  <2>5. CASE OpenerClose
    BY <2>5, <2>a, RecordRefines DEF OpenerClose, ConnectionTerminal
  <2>6. CASE OtherFrontend
    <3>1. conn.terminal # NoCause /\ conn'.terminal = conn.terminal /\ told' = told \cup {conn.terminal}
      BY <2>6, <2>a DEF OtherFrontend, CommitConn, ObserveConnWinner, Shapes, ConnSlot
    <3> QED
      BY <3>1 DEF Cause!Next, Cause!Deliver, NoCause, Cause!NoCause
  <2>7. CASE \/ \E n \in DOMAIN streams : DropOpened(n) \/ StartCompletes(n) \/ ShutdownCompletes(n)
             \/ CallbackPanic \/ (\E why \in Remotes \cup {"local"} : ConnectionEnds(why)) \/ UNCHANGED vars
    BY <2>1, <2>7 DEF DropOpened, StartCompletes, ShutdownCompletes, NativeUnchanged, CallbackPanic,
                      ConnectionEnds, vars
  <2> QED
    BY <2>2, <2>3, <2>4, <2>5, <2>6, <2>7 DEF Next, NativeStep
<1> QED
  BY <1>1, <1>2, Invariance, PTL DEF Spec, CauseSpec, Cause!Spec
=============================================================================
