---------------------------- MODULE SendHalfProofs ----------------------------
(***************************************************************************)
(* Proofs about the send half, for any number of sends, any of the faults  *)
(* and any of the ways a connection ends.                                  *)
(***************************************************************************)
EXTENDS SendHalf, Integers, FiniteSetTheorems, TLAPS

-----------------------------------------------------------------------------
(* The inductive invariant.                                                *)

AfterFinish == Internal("poll_ready after finish")

\* The terminals the half can store or return: of the Internal ones only those of the
\* arms that can be reached.
PlainTerms == {NoTerm, Stopped, LocalReset, ProvisionalAbort, Aborted, NativeFailure}
ConnTerms == {Connection(c) : c \in ConnectionTerminal}
InternalTerms == {Internal(a) : a \in FinishArms \cup FaultArms \cup {"poll_ready after finish"}}
Terms == PlainTerms \cup ConnTerms \cup InternalTerms

Events == {Complete(b) : b \in BOOLEAN} \cup {FinishComplete(b) : b \in BOOLEAN} \cup {TerminalWake}
Readings == Events \cup {Pending, Closed}

Inputs == {"PollReady", "PollFinish", "SendRequested", "Reset", "SendSubmitted",
           "GracefulSubmitted", "ResetSubmitted", "FinishGuard"}

FeStates == [pc : {"idle", "poll", "load", "peek", "publish", "commit",
                   "SubmitSend", "SubmitGraceful", "SubmitReset"},
             m : Polls \cup {"none", "send_data", "reset"}, inp : Inputs \cup {"none"},
             poll : Readings, payload : Payloads, ok : BOOLEAN, t : Terms]
NatStates == [accepted : Nat, sends : Nat, fin : BOOLEAN, dir : {"open", "aborting", "closed", "shut", "gone"},
              graceful : BOOLEAN, conn : {"up", "local"} \cup Remotes]

Shapes ==
    /\ reducer \in SendState /\ fe \in FeStates /\ parked \in Polls \cup {"no"}
    /\ chan \in Seq(Events) /\ chanOpen \in BOOLEAN /\ waker \in {"none", "armed", "fired"}
    /\ send_terminal \in Terms /\ conn \in ConnSlot
    /\ poisoned \in BOOLEAN /\ fault \in Faults \cup {"none"}
    /\ boxes \in Int /\ nat \in NatStates /\ errs \subseteq Terms /\ told \subseteq ConnectionTerminal

\* The running call is about to give the reducer an input.
Feeding == fe.pc \in {"load", "peek"}

\* A reservation is held exactly while its submission runs, and a call is where its
\* frontend sends it.
Calls ==
    /\ reducer.send_submitting <=> fe.pc = "SubmitSend" \/ (Feeding /\ fe.inp = "SendSubmitted")
    /\ reducer.finish_submitting <=> fe.pc = "SubmitGraceful" \/ (Feeding /\ fe.inp = "GracefulSubmitted")
    /\ reducer.reset_submitting <=> fe.pc = "SubmitReset" \/ (Feeding /\ fe.inp = "ResetSubmitted")
    /\ reducer.finish_complete => reducer.finish_started
    /\ reducer.finish_started => ~reducer.finish_submitting
    /\ Feeding => fe.inp # "none"
    /\ Feeding /\ fe.inp = "PollReady" => fe.m = "poll_ready" /\ ~reducer.finish_started
    /\ Feeding /\ fe.inp = "FinishGuard" => fe.m = "poll_ready" /\ reducer.finish_started
    /\ Feeding /\ fe.inp \in {"PollFinish", "GracefulSubmitted"} => fe.m = "poll_finish"
    /\ Feeding /\ fe.inp \in {"SendRequested", "SendSubmitted"} => fe.m = "send_data"
    /\ Feeding /\ fe.inp \in {"Reset", "ResetSubmitted"} => fe.m = "reset"
    /\ fe.pc = "SubmitSend" => fe.m = "send_data" /\ ~reducer.finish_started
    /\ fe.pc = "SubmitGraceful" => fe.m = "poll_finish"
    /\ fe.pc = "SubmitReset" => fe.m = "reset"
    /\ fe.pc = "poll" => fe.m \in Polls
    /\ fe.pc \in {"poll", "publish"} /\ fe.m = "poll_ready" => ~reducer.finish_started
    /\ ~(Feeding /\ fe.inp \in {"PollReady", "PollFinish"}) => fe.poll = Pending
    /\ fe.pc = "peek" => NeedsPeek(fe.t)
    /\ fe.pc = "publish" => fe.t # NoTerm /\ fe.m # "none"
    /\ fe.pc = "commit" => fe.t.kind = "Connection"

\* The connection's cause is on record wherever the half speaks of it.
Known == conn.terminal # NoCause
CauseKnown ==
    /\ conn.observed => Known
    /\ told # {} => conn.observed
    /\ send_terminal.kind = "Connection" => Known
    /\ fe.t.kind = "Connection" => Known

\* The half's terminal is final; the terminal the running call will work with is.
Dead == Known \/ Definitive(send_terminal)
Seen == Known \/ Definitive(IF fe.pc = "peek" THEN fe.t ELSE send_terminal)

\* Where the completion of a send is when no callback has it.
InHand == Feeding /\ fe.poll.poll = "Complete"
InChan == \E i \in DOMAIN chan : chan[i].poll = "Complete"
Outside == nat.sends # 0 \/ InChan \/ InHand

\* The cancellation marker is in the slot or about to be.
Marked == send_terminal = ProvisionalAbort \/ (fe.pc = "publish" /\ fe.t = ProvisionalAbort)

\* A send in flight is one the reducer knows of, or one it gave up for an error that is
\* final, and keeps every other send and the finish away.
Held ==
    /\ reducer.send_inprogress \/ (Feeding /\ fe.inp = "SendSubmitted" /\ fe.ok) \/ Seen
    /\ fe.pc # "SubmitSend"
    /\ Feeding /\ fe.inp = "SendSubmitted" => fe.ok
    /\ ~reducer.finish_submitting /\ ~reducer.finish_started
Cancellation(cancelled) == IF cancelled THEN nat.dir # "open" ELSE ~Marked

Flight ==
    /\ Outside => Held
    /\ nat.sends <= 1
    /\ nat.sends # 0 => ~InChan /\ ~InHand /\ nat.dir \in {"open", "aborting"}
    /\ InChan => ~InHand
    /\ \A i, j \in DOMAIN chan : chan[i].poll = "Complete" /\ chan[j].poll = "Complete" => i = j
    /\ \A i \in DOMAIN chan : chan[i].poll = "Complete" => Cancellation(chan[i].flag)
    /\ InHand => Cancellation(fe.poll.flag)

Provisional ==
    /\ Marked => nat.dir # "open" /\ ~reducer.finish_submitting /\ ~reducer.finish_started
    /\ fe.pc = "peek" /\ send_terminal = ProvisionalAbort => fe.t = ProvisionalAbort
    /\ fe.pc = "peek" /\ fe.t = ProvisionalAbort => ~reducer.finish_started /\ ~reducer.finish_submitting

\* The finish event is ahead of the end of the channel, or was answered.
FinishAhead ==
    \/ \E i \in DOMAIN chan : chan[i].poll = "FinishComplete"
    \/ Feeding /\ fe.poll.poll = "FinishComplete"
    \/ fe.pc = "publish" /\ Definitive(fe.t)
Over == Dead \/ reducer.finish_complete \/ FinishAhead
Late == nat.dir \in {"shut", "gone"} \/ poisoned

\* The effect lists of stream_callback, and what is left of them.
Landing(c) == <<Effect("enqueue", Complete(c))>>
WakeOnly == <<Effect("enqueue", TerminalWake)>>
CloseOnly == <<Effect("close", NoTerm)>>
WakeClose == <<Effect("enqueue", TerminalWake), Effect("close", NoTerm)>>
Tell(c) == <<Effect("publish", Connection(c)), Effect("close", NoTerm)>>
RecordTell(c) == <<Effect("record", Connection(c)), Effect("publish", Connection(c)), Effect("close", NoTerm)>>

\* What the rest of the running callback relies on.
Todo ==
    \/ cb = <<>>
    \/ \E c \in BOOLEAN : (cb = OnSendComplete(c) \/ cb = Landing(c)) /\ ~Outside /\ Held /\ Cancellation(c)
    \/ cb = OnSendCompleteNull
    \/ cb = OnPeerReceiveAborted
    \/ cb = WakeOnly /\ Definitive(send_terminal)
    \/ \E g \in BOOLEAN : cb = OnSendShutdownComplete(g) /\ nat.dir = "closed" /\ ~poisoned /\ (g => nat.graceful)
    \/ \E c \in ConnectionTerminal : cb = RecordTell(c) /\ Late
    \/ \E c \in ConnectionTerminal : cb = Tell(c) /\ Late /\ Known
    \/ cb = CloseOnly /\ Late /\ Over
    \/ cb = StreamRecover /\ poisoned
    \/ cb = WakeClose /\ poisoned /\ Definitive(send_terminal)

\* A closed channel, and a direction that is over, have told the half why.
Ending ==
    /\ ~chanOpen => Over /\ Late
    /\ nat.dir \notin {"open", "aborting"} /\ ~poisoned => Over \/ \E g \in BOOLEAN : cb = OnSendShutdownComplete(g)
    /\ \A i \in DOMAIN chan : chan[i].poll = "TerminalWake" => Definitive(send_terminal)
    /\ Feeding /\ fe.poll \in {Closed, TerminalWake} => Seen \/ reducer.finish_complete

\* The finish event: it is graceful only if msquic said so, and it is not lost.
Asked == reducer.finish_started \/ (Feeding /\ fe.inp = "GracefulSubmitted" /\ fe.ok)
Finish ==
    /\ reducer.finish_complete => nat.graceful
    /\ nat.graceful => nat.dir \notin {"open", "aborting"}
    /\ \A i \in DOMAIN chan : chan[i] = FinishComplete(TRUE) => nat.graceful
    /\ fe.poll = FinishComplete(TRUE) => nat.graceful
    /\ nat.fin \/ nat.graceful => Asked
    /\ nat.graceful /\ ~reducer.finish_complete /\ ~poisoned =>
          \/ cb = OnSendShutdownComplete(TRUE)
          \/ \E i \in DOMAIN chan : chan[i] = FinishComplete(TRUE)
          \/ fe.m = "poll_finish" /\ fe.poll = FinishComplete(TRUE)

\* Every error surfaced is the one in the slot.
Sticky ==
    \A e \in errs : e = AfterFinish \/ (e = send_terminal /\ Definitive(e) /\ e.kind # "Connection")

\* Without a fault that skips the reclaim, the boxes are msquic's sends and the one
\* about to be taken back.
Boxed ==
    /\ poisoned => fault = "panic"
    /\ fault \notin {"panic", "null"} =>
          boxes = nat.sends + (IF cb # <<>> /\ Head(cb).op = "reclaim" THEN 1 ELSE 0)

IInv == Shapes /\ Calls /\ CauseKnown /\ Flight /\ Provisional /\ Todo /\ Ending /\ Finish /\ Sticky /\ Boxed

-----------------------------------------------------------------------------
(* The vocabulary.                                                         *)

\* The kinds of the terminals that carry nothing.
LEMMA PlainKinds ==
    /\ NoTerm.kind = "None" /\ ProvisionalAbort.kind = "ProvisionalAbort"
    /\ Stopped.kind = "Stopped" /\ LocalReset.kind = "LocalReset"
    /\ Aborted.kind = "Failed" /\ NativeFailure.kind = "Failed"
BY DEF NoTerm, Stopped, LocalReset, ProvisionalAbort, Aborted, NativeFailure, Term

\* A terminal is told by its kind.
LEMMA TermFacts ==
    ASSUME NEW t \in Terms
    PROVE  /\ t = NoTerm <=> t.kind = "None"
           /\ t = ProvisionalAbort <=> t.kind = "ProvisionalAbort"
           /\ Definitive(t) <=> t # NoTerm /\ t # ProvisionalAbort
           /\ t.kind = "Connection" => t.arg \in ConnectionTerminal
           /\ t.kind = "Internal" => t.arg \in FinishArms \cup FaultArms \cup {"poll_ready after finish"}
           /\ NeedsPeek(t) <=> ~Definitive(t) \/ t.kind = "Connection"
<1>1. CASE t \in PlainTerms
  <2>1. t.kind \notin {"Connection", "Internal"}
    BY <1>1, PlainKinds DEF PlainTerms
  <2>2. t = NoTerm \/ t = ProvisionalAbort \/ t.kind \notin {"None", "ProvisionalAbort"}
    BY <1>1, PlainKinds DEF PlainTerms
  <2> QED
    BY <2>1, <2>2, PlainKinds DEF Definitive, NeedsPeek
<1>2. CASE t \in ConnTerms
  <2>1. PICK c \in ConnectionTerminal : t = Connection(c)
    BY <1>2 DEF ConnTerms
  <2>2. t.kind = "Connection" /\ t.arg = c
    BY <2>1 DEF Connection, Term
  <2> QED
    BY <2>2, PlainKinds DEF Definitive, NeedsPeek
<1>3. CASE t \in InternalTerms
  <2>1. PICK c \in FinishArms \cup FaultArms \cup {"poll_ready after finish"} : t = Internal(c)
    BY <1>3 DEF InternalTerms
  <2>2. t.kind = "Internal" /\ t.arg = c
    BY <2>1 DEF Internal, Term
  <2> QED
    BY <2>2, PlainKinds DEF Definitive, NeedsPeek
<1> QED
  BY <1>1, <1>2, <1>3 DEF Terms

\* The terminals the code makes are final, all but the marker.
LEMMA TermsMade ==
    /\ NoTerm \in Terms /\ ~Definitive(NoTerm) /\ NoTerm.kind # "Connection"
    /\ ProvisionalAbort \in Terms /\ ~Definitive(ProvisionalAbort) /\ ProvisionalAbort.kind # "Connection"
    /\ NoTerm # ProvisionalAbort
    /\ \A t \in {Stopped, LocalReset, Aborted, NativeFailure} : t \in Terms /\ Definitive(t) /\ t.kind # "Connection"
    /\ \A a \in FinishArms \cup FaultArms \cup {"poll_ready after finish"} :
          Internal(a) \in Terms /\ Definitive(Internal(a)) /\ Internal(a).kind # "Connection"
    /\ \A c \in ConnectionTerminal :
          Connection(c) \in Terms /\ Definitive(Connection(c)) /\ Connection(c).kind = "Connection"
          /\ Connection(c).arg = c
<1>1. NoTerm \in Terms /\ ~Definitive(NoTerm) /\ NoTerm.kind # "Connection"
  BY DEF Terms, PlainTerms, NoTerm, Term, Definitive
<1>2. ProvisionalAbort \in Terms /\ ~Definitive(ProvisionalAbort) /\ ProvisionalAbort.kind # "Connection"
      /\ NoTerm # ProvisionalAbort
  BY DEF Terms, PlainTerms, ProvisionalAbort, NoTerm, Term, Definitive
<1>3. \A t \in {Stopped, LocalReset, Aborted, NativeFailure} : t \in Terms /\ Definitive(t) /\ t.kind # "Connection"
  <2>1. \A t \in {Stopped, LocalReset, Aborted, NativeFailure} : t \in Terms
    BY DEF Terms, PlainTerms
  <2> QED
    BY <2>1, PlainKinds DEF Definitive
<1>4. \A a \in FinishArms \cup FaultArms \cup {"poll_ready after finish"} :
          Internal(a) \in Terms /\ Definitive(Internal(a)) /\ Internal(a).kind # "Connection"
  BY DEF Terms, InternalTerms, Internal, Term, Definitive
<1>5. \A c \in ConnectionTerminal :
          Connection(c) \in Terms /\ Definitive(Connection(c)) /\ Connection(c).kind = "Connection"
          /\ Connection(c).arg = c
  BY DEF Terms, ConnTerms, Connection, Term, Definitive
<1> QED
  BY <1>1, <1>2, <1>3, <1>4, <1>5

\* An event is told by its name.
LEMMA ReadingFacts ==
    ASSUME NEW p \in Readings
    PROVE  /\ p = Pending <=> p.poll = "Pending"
           /\ p = Closed <=> p.poll = "Closed"
           /\ p = TerminalWake <=> p.poll = "TerminalWake"
           /\ p.poll = "Complete" => p.flag \in BOOLEAN /\ p = Complete(p.flag)
           /\ p.poll = "FinishComplete" => p.flag \in BOOLEAN /\ p = FinishComplete(p.flag)
           /\ p.poll \in {"Pending", "Closed", "TerminalWake", "Complete", "FinishComplete"}
BY DEF Readings, Events, Pending, Closed, TerminalWake, Complete, FinishComplete

\* publish_send: the first final writer stays.
LEMMA PublishFacts ==
    ASSUME NEW slot \in Terms, NEW c \in Terms, c # NoTerm
    PROVE  /\ PublishSend(slot, c) \in {slot, c} /\ PublishSend(slot, c) # NoTerm
           /\ Definitive(slot) => PublishSend(slot, c) = slot
           /\ Definitive(c) => Definitive(PublishSend(slot, c))
           /\ ~Definitive(slot) /\ Definitive(c) => PublishSend(slot, c) = c
<1>1. Definitive(slot) <=> slot # NoTerm /\ slot # ProvisionalAbort
  BY TermFacts
<1>2. Definitive(c) <=> c # NoTerm /\ c # ProvisionalAbort
  BY TermFacts
<1> QED
  BY <1>1, <1>2 DEF PublishSend, ProvisionalPending

\* record: the slot has a cause afterwards, and an observed one is left alone.
LEMMA RecordFacts ==
    ASSUME NEW slot \in ConnSlot, NEW c \in ConnectionTerminal, slot.observed => slot.terminal # NoCause
    PROVE  /\ RecordConnTerminal(slot, c) \in ConnSlot
           /\ RecordConnTerminal(slot, c).terminal # NoCause
           /\ RecordConnTerminal(slot, c).observed = slot.observed
BY DEF RecordConnTerminal, ConnSlot, ConnectionTerminal, SpecificCause, NoCause, IsProvisional

\* commit_conn freezes a slot that has a cause.
LEMMA CommitFacts ==
    ASSUME NEW slot \in ConnSlot
    PROVE  /\ CommitConn(slot) \in ConnSlot
           /\ CommitConn(slot).terminal = slot.terminal
           /\ CommitConn(slot).observed <=> (slot.observed \/ slot.terminal # NoCause)
BY DEF CommitConn, ObserveConnWinner, ConnSlot

-----------------------------------------------------------------------------
(* What the reducer answers.                                               *)

Ops == {"Pending", "Repoll", "SubmitSend", "SubmitGraceful", "SubmitReset", "PublishTerminal", "ReturnError",
        "ReturnSent", "ReturnReady", "ReturnFinished", "NoOp", "Misuse", "OversizedSend"}

\* The terminal resolve_terminal gives the reducer is final if the half's was when the
\* call loaded it, and then it is the half's or the connection's.
Resolved(t) ==
    /\ t \in Terms
    /\ Definitive(t) => Dead
    /\ Seen => Definitive(t)
    /\ t.kind = "Connection" => Known
    /\ Definitive(t) /\ t.kind # "Connection" => t = send_terminal
    /\ send_terminal = ProvisionalAbort => t = ProvisionalAbort \/ Definitive(t)
    /\ t = ProvisionalAbort => ~reducer.finish_started /\ ~reducer.finish_submitting

\* What every answer keeps, by the part of the invariant that needs it: z is the
\* reducer's next state, op the command and u the terminal in it.
AnswerShape(z, op, u) == z \in SendState /\ op \in Ops /\ u \in Terms
AnswerCalls(z, op, u) ==
    /\ z.send_submitting <=> op = "SubmitSend"
    /\ z.finish_submitting <=> op = "SubmitGraceful"
    /\ z.reset_submitting <=> op = "SubmitReset"
    /\ z.finish_complete => z.finish_started
    /\ z.finish_started => ~z.finish_submitting
    /\ op = "SubmitSend" => fe.m = "send_data" /\ ~z.finish_started
    /\ op = "SubmitGraceful" => fe.m = "poll_finish"
    /\ op = "SubmitReset" => fe.m = "reset"
    /\ op \in {"Pending", "Repoll"} => fe.m \in Polls
    /\ op = "PublishTerminal" => fe.m # "none"
    /\ op \in {"Repoll", "PublishTerminal"} /\ fe.m = "poll_ready" => ~z.finish_started
AnswerTerm(z, op, u) ==
    /\ op = "PublishTerminal" => u # NoTerm
    /\ u.kind = "Connection" => Known
    /\ op = "ReturnError" /\ u.kind # "Connection" => u = AfterFinish \/ (u = send_terminal /\ Definitive(u))
AnswerFlight(z, op, u) ==
    /\ Held /\ ~InHand =>
          (z.send_inprogress \/ Dead) /\ op # "SubmitSend" /\ ~z.finish_submitting /\ ~z.finish_started
    /\ op = "PublishTerminal" /\ u = ProvisionalAbort =>
          InHand /\ fe.poll.flag = TRUE /\ ~z.finish_submitting /\ ~z.finish_started
    /\ send_terminal = ProvisionalAbort => ~z.finish_submitting /\ ~z.finish_started
AnswerFinish(z, op, u) ==
    /\ reducer.finish_complete => z.finish_complete
    /\ z.finish_complete => nat.graceful
    /\ z.finish_started <=> Asked
    /\ fe.poll.poll = "FinishComplete" => Dead \/ z.finish_complete \/ (op = "PublishTerminal" /\ Definitive(u))
    /\ fe.m = "poll_finish" /\ fe.poll = FinishComplete(TRUE) /\ z.finish_started => z.finish_complete
Answer(z, op, u) ==
    AnswerShape(z, op, u) /\ AnswerCalls(z, op, u) /\ AnswerTerm(z, op, u) /\ AnswerFlight(z, op, u)
    /\ AnswerFinish(z, op, u)
Answers(r) == Answer(r.state, r.op, r.t)

\* A command is made of its parts.
LEMMA DoAnswers ==
    ASSUME NEW z, NEW op, NEW u, Answer(z, op, u)
    PROVE  Answers(Do(z, op, u))
<1>1. Do(z, op, u).state = z /\ Do(z, op, u).op = op /\ Do(z, op, u).t = u
  BY DEF Do
<1> QED
  BY <1>1 DEF Answers

\* The facts about the running call that the arms rely on.
LEMMA FeedingFacts ==
    ASSUME IInv, Feeding
    PROVE  /\ reducer \in SendState /\ fe.ok \in BOOLEAN /\ fe.poll \in Readings /\ fe.payload \in Payloads
           /\ fe.inp \in Inputs
           /\ reducer.send_submitting <=> fe.inp = "SendSubmitted"
           /\ reducer.finish_submitting <=> fe.inp = "GracefulSubmitted"
           /\ reducer.reset_submitting <=> fe.inp = "ResetSubmitted"
           /\ fe.inp \notin {"PollReady", "PollFinish"} => fe.poll.poll = "Pending"
           /\ reducer.finish_complete => reducer.finish_started /\ nat.graceful
           /\ reducer.finish_started => ~reducer.finish_submitting
<1>1. Shapes /\ Calls /\ Finish
  BY DEF IInv
<1>2. fe \in FeStates /\ reducer \in SendState
  BY <1>1 DEF Shapes
<1>3. fe.ok \in BOOLEAN /\ fe.poll \in Readings /\ fe.payload \in Payloads /\ fe.inp \in Inputs \cup {"none"}
  BY <1>2 DEF FeStates
<1>4. fe.pc \notin {"SubmitSend", "SubmitGraceful", "SubmitReset"}
  BY DEF Feeding
<1>5. fe.inp \notin {"PollReady", "PollFinish"} => fe.poll = Pending
  BY <1>1 DEF Calls
<1>6. Pending.poll = "Pending"
  BY DEF Pending
<1> QED
  BY <1>1, <1>2, <1>3, <1>4, <1>5, <1>6 DEF Calls, Finish

\* The result of StreamSend.
LEMMA AnswerSendSubmitted ==
    ASSUME IInv, Feeding, fe.inp = "SendSubmitted", NEW t, Resolved(t)
    PROVE  Answers(OnSendSubmitted(reducer, fe.ok, t))
<1>a. /\ reducer \in SendState /\ fe.ok \in BOOLEAN /\ reducer.send_submitting /\ ~reducer.finish_submitting
      /\ ~reducer.reset_submitting /\ fe.poll.poll = "Pending" /\ fe.m = "send_data"
      /\ reducer.finish_complete => reducer.finish_started /\ nat.graceful
  BY FeedingFacts DEF IInv, Calls
<1>b. ~InHand /\ fe.poll # FinishComplete(TRUE)
  BY <1>a DEF InHand, FinishComplete
<1>1. PICK z : z = [reducer EXCEPT !.send_submitting = FALSE]
  OBVIOUS
<1>2. /\ z \in SendState /\ ~z.send_submitting /\ ~z.finish_submitting /\ ~z.reset_submitting
      /\ z.finish_started = reducer.finish_started /\ z.finish_complete = reducer.finish_complete
  BY <1>1, <1>a DEF SendState
<1>3. PICK y : y = [z EXCEPT !.send_inprogress = TRUE]
  OBVIOUS
<1>4. /\ y \in SendState /\ ~y.send_submitting /\ ~y.finish_submitting /\ ~y.reset_submitting /\ y.send_inprogress
      /\ y.finish_started = reducer.finish_started /\ y.finish_complete = reducer.finish_complete
  BY <1>3, <1>2 DEF SendState
<1>5. CASE ~fe.ok
  <2>1. PICK u : u = DefinitiveOr(t, NativeFailure)
    OBVIOUS
  <2>2. u \in Terms /\ Definitive(u) /\ (u.kind = "Connection" => Known)
    BY <2>1, TermsMade DEF DefinitiveOr, Resolved
  <2>3. u # NoTerm /\ u # ProvisionalAbort
    BY <2>2, TermFacts
  <2>4. OnSendSubmitted(reducer, fe.ok, t) = Do(z, "PublishTerminal", u)
    BY <1>a, <1>1, <1>5, <2>1 DEF OnSendSubmitted, PublishTerminal
  <2>5. Held => FALSE
    BY <1>5, <1>a DEF Held
  <2>6. send_terminal = ProvisionalAbort => ~reducer.finish_started
    BY DEF IInv, Provisional, Marked
  <2>7. Answer(z, "PublishTerminal", u)
    BY <1>2, <1>a, <1>b, <2>2, <2>3, <2>5, <2>6
       DEF Answer, AnswerShape, AnswerCalls, AnswerTerm, AnswerFlight, AnswerFinish, Ops, Asked, Polls
  <2> QED
    BY <2>4, <2>7, DoAnswers
<1>6. CASE fe.ok
  <2>1. CASE Definitive(t)
    <3>1. OnSendSubmitted(reducer, fe.ok, t) = Do(y, "ReturnError", t)
      BY <1>a, <1>1, <1>3, <1>6, <2>1 DEF OnSendSubmitted, ReturnError
    <3>2. Answer(y, "ReturnError", t)
      BY <1>4, <1>a, <1>b, <2>1 DEF Answer, AnswerShape, AnswerCalls, AnswerTerm, AnswerFlight, AnswerFinish,
         Ops, Asked, Resolved, IInv, Provisional, Marked, Held
    <3> QED
      BY <3>1, <3>2, DoAnswers
  <2>2. CASE ~Definitive(t)
    <3>1. OnSendSubmitted(reducer, fe.ok, t) = Do(y, "ReturnSent", NoTerm)
      BY <1>a, <1>1, <1>3, <1>6, <2>2 DEF OnSendSubmitted, Emit
    <3>2. Answer(y, "ReturnSent", NoTerm)
      BY <1>4, <1>a, <1>b, TermsMade DEF Answer, AnswerShape, AnswerCalls, AnswerTerm, AnswerFlight, AnswerFinish,
         Ops, Asked, IInv, Provisional, Marked, Held
    <3> QED
      BY <3>1, <3>2, DoAnswers
  <2> QED
    BY <2>1, <2>2
<1> QED
  BY <1>5, <1>6

\* The result of the graceful StreamShutdown.
LEMMA AnswerGracefulSubmitted ==
    ASSUME IInv, Feeding, fe.inp = "GracefulSubmitted", NEW t, Resolved(t)
    PROVE  Answers(OnGracefulSubmitted(reducer, fe.ok, t))
<1>a. /\ reducer \in SendState /\ fe.ok \in BOOLEAN /\ ~reducer.send_submitting /\ reducer.finish_submitting
      /\ ~reducer.reset_submitting /\ fe.poll.poll = "Pending" /\ fe.m = "poll_finish"
      /\ ~reducer.finish_complete /\ ~reducer.finish_started
  BY FeedingFacts DEF IInv, Calls
<1>b. ~InHand /\ fe.poll # FinishComplete(TRUE)
  BY <1>a DEF InHand, FinishComplete
<1>c. send_terminal # ProvisionalAbort /\ ~Held
  BY <1>a DEF IInv, Provisional, Marked, Held
<1>1. PICK z : z = [reducer EXCEPT !.finish_submitting = FALSE]
  OBVIOUS
<1>2. /\ z \in SendState /\ ~z.send_submitting /\ ~z.finish_submitting /\ ~z.reset_submitting
      /\ ~z.finish_started /\ ~z.finish_complete
  BY <1>1, <1>a DEF SendState
<1>3. PICK y : y = [z EXCEPT !.finish_started = TRUE]
  OBVIOUS
<1>4. /\ y \in SendState /\ ~y.send_submitting /\ ~y.finish_submitting /\ ~y.reset_submitting
      /\ y.finish_started /\ ~y.finish_complete
  BY <1>3, <1>2 DEF SendState
<1>5. CASE ~fe.ok
  <2>1. PICK u : u = DefinitiveOr(t, NativeFailure)
    OBVIOUS
  <2>2. u \in Terms /\ Definitive(u) /\ (u.kind = "Connection" => Known)
    BY <2>1, TermsMade DEF DefinitiveOr, Resolved
  <2>3. u # NoTerm /\ u # ProvisionalAbort
    BY <2>2, TermFacts
  <2>4. OnGracefulSubmitted(reducer, fe.ok, t) = Do(z, "PublishTerminal", u)
    BY <1>a, <1>1, <1>5, <2>1 DEF OnGracefulSubmitted, PublishTerminal
  <2>5. Answer(z, "PublishTerminal", u)
    BY <1>2, <1>5, <1>a, <1>b, <1>c, <2>2, <2>3
       DEF Answer, Asked, AnswerShape, AnswerCalls, AnswerTerm, AnswerFlight, AnswerFinish, Ops
  <2> QED
    BY <2>4, <2>5, DoAnswers
<1>6. CASE fe.ok
  <2>1. OnGracefulSubmitted(reducer, fe.ok, t) = Do(y, "Repoll", NoTerm)
    BY <1>a, <1>1, <1>3, <1>6 DEF OnGracefulSubmitted, Emit
  <2>2. Answer(y, "Repoll", NoTerm)
    BY <1>4, <1>6, <1>a, <1>b, <1>c, TermsMade DEF Answer, AnswerShape, AnswerCalls, AnswerTerm, AnswerFlight,
       AnswerFinish, Ops, Asked, Polls
  <2> QED
    BY <2>1, <2>2, DoAnswers
<1> QED
  BY <1>5, <1>6, <1>a

\* The result of the aborting StreamShutdown.
LEMMA AnswerResetSubmitted ==
    ASSUME IInv, Feeding, fe.inp = "ResetSubmitted", NEW t, Resolved(t)
    PROVE  Answers(OnResetSubmitted(reducer, fe.ok, t))
<1>a. /\ reducer \in SendState /\ ~reducer.send_submitting /\ ~reducer.finish_submitting
      /\ reducer.reset_submitting /\ fe.poll.poll = "Pending" /\ fe.m = "reset"
      /\ reducer.finish_complete => reducer.finish_started /\ nat.graceful
  BY FeedingFacts DEF IInv, Calls
<1>b. ~InHand /\ fe.poll # FinishComplete(TRUE)
  BY <1>a DEF InHand, FinishComplete
<1>1. PICK z : z = [reducer EXCEPT !.reset_submitting = FALSE]
  OBVIOUS
<1>2. /\ z \in SendState /\ ~z.send_submitting /\ ~z.finish_submitting /\ ~z.reset_submitting
      /\ z.send_inprogress = reducer.send_inprogress
      /\ z.finish_started = reducer.finish_started /\ z.finish_complete = reducer.finish_complete
  BY <1>1, <1>a DEF SendState
<1>3. PICK u : u = DefinitiveOr(t, IF fe.ok THEN LocalReset ELSE NativeFailure)
  OBVIOUS
<1>4. u \in Terms /\ Definitive(u) /\ (u.kind = "Connection" => Known)
  BY <1>3, TermsMade DEF DefinitiveOr, Resolved
<1>5. u # NoTerm /\ u # ProvisionalAbort
  BY <1>4, TermFacts
<1>6. OnResetSubmitted(reducer, fe.ok, t) = Do(z, "PublishTerminal", u)
  BY <1>a, <1>1, <1>3 DEF OnResetSubmitted, PublishTerminal
<1>7. Held => reducer.send_inprogress \/ Dead
  BY <1>a DEF Held, Resolved
<1>8. Answer(z, "PublishTerminal", u)
  BY <1>2, <1>a, <1>b, <1>4, <1>5, <1>7 DEF Answer, AnswerShape, AnswerCalls, AnswerTerm, AnswerFlight,
     AnswerFinish, Ops, Asked, IInv, Provisional, Marked, Held
<1> QED
  BY <1>6, <1>8, DoAnswers

\* send_data, before it submits.
LEMMA AnswerSendRequested ==
    ASSUME IInv, Feeding, fe.inp = "SendRequested", NEW t, Resolved(t)
    PROVE  Answers(OnSendRequested(reducer, fe.payload, t))
<1>a. /\ reducer \in SendState /\ ~reducer.send_submitting /\ ~reducer.finish_submitting
      /\ ~reducer.reset_submitting /\ fe.poll.poll = "Pending" /\ fe.m = "send_data" /\ fe.payload \in Payloads
      /\ reducer.finish_complete => reducer.finish_started /\ nat.graceful
  BY FeedingFacts DEF IInv, Calls
<1>b. ~InHand /\ fe.poll # FinishComplete(TRUE)
  BY <1>a DEF InHand, FinishComplete
<1>c. Held => reducer.send_inprogress \/ Seen
  BY DEF Held
<1>d. Held => ~reducer.finish_started
  BY DEF Held
<1>e. send_terminal = ProvisionalAbort => ~reducer.finish_started
  BY DEF IInv, Provisional, Marked
<1>f. Held => reducer.send_inprogress \/ Dead
  BY <1>c DEF Resolved
<1>1. CASE Definitive(t)
  <2>1. OnSendRequested(reducer, fe.payload, t) = Do(reducer, "ReturnError", t)
    BY <1>1 DEF OnSendRequested, ReturnError
  <2>2. Answer(reducer, "ReturnError", t)
    BY <1>1, <1>a, <1>b, <1>d, <1>e, <1>f DEF Answer, AnswerShape, AnswerCalls, AnswerTerm, AnswerFlight, AnswerFinish,
       Ops, Asked, Resolved
  <2> QED
    BY <2>1, <2>2, DoAnswers
<1>2. ASSUME NEW op \in {"Misuse", "ReturnSent", "OversizedSend"} PROVE Answer(reducer, op, NoTerm)
  BY <1>2, <1>a, <1>b, <1>d, <1>e, <1>f, TermsMade DEF Answer, AnswerShape, AnswerCalls, AnswerTerm, AnswerFlight,
     AnswerFinish, Ops, Asked
<1>3. CASE ~Definitive(t) /\ Busy(reducer)
  <2>1. OnSendRequested(reducer, fe.payload, t) = Do(reducer, "Misuse", NoTerm)
    BY <1>3 DEF OnSendRequested, Emit
  <2> QED
    BY <1>2, <2>1, DoAnswers
<1>4. CASE ~Definitive(t) /\ ~Busy(reducer)
  <2>1. CASE fe.payload = "Empty"
    <3>1. OnSendRequested(reducer, fe.payload, t) = Do(reducer, "ReturnSent", NoTerm)
      BY <1>4, <2>1 DEF OnSendRequested, Emit
    <3> QED
      BY <1>2, <3>1, DoAnswers
  <2>2. CASE fe.payload = "Oversized"
    <3>1. OnSendRequested(reducer, fe.payload, t) = Do(reducer, "OversizedSend", NoTerm)
      BY <1>4, <2>2 DEF OnSendRequested, Emit
    <3> QED
      BY <1>2, <3>1, DoAnswers
  <2>3. CASE fe.payload = "NonEmpty"
    <3>1. PICK z : z = [reducer EXCEPT !.send_submitting = TRUE]
      OBVIOUS
    <3>2. /\ z \in SendState /\ z.send_submitting /\ ~z.finish_submitting /\ ~z.reset_submitting
          /\ ~z.finish_started /\ ~z.finish_complete
      BY <3>1, <1>4, <1>a DEF SendState, Busy
    <3>3. OnSendRequested(reducer, fe.payload, t) = Do(z, "SubmitSend", NoTerm)
      BY <1>4, <2>3, <3>1 DEF OnSendRequested, Emit
    <3>4. ~Held /\ ~reducer.finish_complete /\ ~reducer.finish_started
      BY <1>4, <1>c DEF Busy, Resolved
    <3>5. Answer(z, "SubmitSend", NoTerm)
      BY <1>a, <1>b, <3>2, <3>4, TermsMade DEF Answer, Asked, AnswerShape, AnswerCalls, AnswerTerm, AnswerFlight,
         AnswerFinish, Ops
    <3> QED
      BY <3>3, <3>5, DoAnswers
  <2> QED
    BY <1>a, <2>1, <2>2, <2>3 DEF Payloads
<1> QED
  BY <1>1, <1>3, <1>4

\* reset, before it submits: no reservation is held when a call begins.
LEMMA AnswerReset ==
    ASSUME IInv, Feeding, fe.inp = "Reset", NEW t, Resolved(t)
    PROVE  Answers(OnReset(reducer, t))
<1>a. /\ reducer \in SendState /\ ~reducer.send_submitting /\ ~reducer.finish_submitting
      /\ ~reducer.reset_submitting /\ fe.poll.poll = "Pending" /\ fe.m = "reset"
      /\ reducer.finish_complete => reducer.finish_started /\ nat.graceful
  BY FeedingFacts DEF IInv, Calls
<1>b. ~InHand /\ fe.poll # FinishComplete(TRUE)
  BY <1>a DEF InHand, FinishComplete
<1>c. Held => (reducer.send_inprogress \/ Dead) /\ ~reducer.finish_started
  BY DEF Held, Resolved
<1>d. send_terminal = ProvisionalAbort => ~reducer.finish_started
  BY DEF IInv, Provisional, Marked
<1>1. CASE reducer.finish_complete \/ Definitive(t)
  <2>1. OnReset(reducer, t) = Do(reducer, "NoOp", NoTerm)
    BY <1>1 DEF OnReset, Emit
  <2>2. Answer(reducer, "NoOp", NoTerm)
    BY <1>a, <1>b, <1>c, <1>d, TermsMade DEF Answer, AnswerShape, AnswerCalls, AnswerTerm, AnswerFlight,
       AnswerFinish, Ops, Asked
  <2> QED
    BY <2>1, <2>2, DoAnswers
<1>2. CASE ~(reducer.finish_complete \/ Definitive(t))
  <2>1. PICK z : z = [reducer EXCEPT !.reset_submitting = TRUE]
    OBVIOUS
  <2>2. /\ z \in SendState /\ ~z.send_submitting /\ ~z.finish_submitting /\ z.reset_submitting
        /\ z.send_inprogress = reducer.send_inprogress
        /\ z.finish_started = reducer.finish_started /\ z.finish_complete = reducer.finish_complete
    BY <2>1, <1>a DEF SendState
  <2>3. OnReset(reducer, t) = Do(z, "SubmitReset", NoTerm)
    BY <1>2, <1>a, <2>1 DEF OnReset, SubmissionReserved, Emit
  <2>4. Answer(z, "SubmitReset", NoTerm)
    BY <1>a, <1>b, <1>c, <1>d, <2>2, TermsMade DEF Answer, AnswerShape, AnswerCalls, AnswerTerm, AnswerFlight,
       AnswerFinish, Ops, Asked
  <2> QED
    BY <2>3, <2>4, DoAnswers
<1> QED
  BY <1>1, <1>2

\* The finish guard of poll_ready: the marker cannot be pending when a finish has started.
LEMMA AnswerFinishGuard ==
    ASSUME IInv, Feeding, fe.inp = "FinishGuard", NEW t, Resolved(t)
    PROVE  Answers(ReturnError(reducer, IF t = NoTerm THEN AfterFinish ELSE t))
<1>a. /\ reducer \in SendState /\ ~reducer.send_submitting /\ ~reducer.finish_submitting
      /\ ~reducer.reset_submitting /\ fe.poll.poll = "Pending" /\ fe.m = "poll_ready" /\ reducer.finish_started
      /\ reducer.finish_complete => reducer.finish_started /\ nat.graceful
  BY FeedingFacts DEF IInv, Calls
<1>b. ~InHand /\ fe.poll # FinishComplete(TRUE)
  BY <1>a DEF InHand, FinishComplete
<1>c. ~Held /\ send_terminal # ProvisionalAbort
  BY <1>a DEF Held, IInv, Provisional, Marked
<1>1. PICK u : u = IF t = NoTerm THEN AfterFinish ELSE t
  OBVIOUS
<1>2. t # NoTerm => Definitive(t)
  BY <1>a, TermFacts DEF Resolved
<1>3. u \in Terms /\ Definitive(u) /\ (u.kind = "Connection" => Known)
      /\ (u.kind # "Connection" => u = AfterFinish \/ u = send_terminal)
  BY <1>1, <1>2, TermsMade DEF Resolved, AfterFinish
<1>4. ReturnError(reducer, u) = Do(reducer, "ReturnError", u)
  BY DEF ReturnError
<1>5. Answer(reducer, "ReturnError", u)
  BY <1>a, <1>b, <1>c, <1>3 DEF Answer, AnswerShape, AnswerCalls, AnswerTerm, AnswerFlight, AnswerFinish, Ops, Asked
<1> QED
  BY <1>1, <1>4, <1>5, DoAnswers

\* The facts both polls rely on: what was read is backed by the half's state.
LEMMA PollingFacts ==
    ASSUME IInv, Feeding, fe.inp \in {"PollReady", "PollFinish"}, NEW t, Resolved(t)
    PROVE  /\ reducer \in SendState /\ ~reducer.send_submitting /\ ~reducer.finish_submitting
           /\ ~reducer.reset_submitting /\ fe.poll \in Readings
           /\ reducer.finish_complete => reducer.finish_started /\ nat.graceful
           /\ fe.poll = FinishComplete(TRUE) => nat.graceful
           /\ send_terminal = ProvisionalAbort => ~reducer.finish_started
           /\ Held => (reducer.send_inprogress \/ Dead) /\ ~reducer.finish_started
           /\ Held /\ ~Definitive(t) => reducer.send_inprogress
           /\ fe.poll \in {Closed, TerminalWake} => Definitive(t) \/ reducer.finish_complete
           /\ fe.poll.poll = "Complete" => InHand /\ Held /\ (~fe.poll.flag => send_terminal # ProvisionalAbort)
<1>1. /\ reducer \in SendState /\ ~reducer.send_submitting /\ ~reducer.finish_submitting
      /\ ~reducer.reset_submitting /\ fe.poll \in Readings
      /\ reducer.finish_complete => reducer.finish_started /\ nat.graceful
  BY FeedingFacts
<1>2. fe.poll = FinishComplete(TRUE) => nat.graceful
  BY DEF IInv, Finish
<1>3. send_terminal = ProvisionalAbort => ~reducer.finish_started
  BY DEF IInv, Provisional, Marked
<1>4. Held => (reducer.send_inprogress \/ Seen) /\ ~reducer.finish_started
  BY DEF Held
<1>5. fe.poll \in {Closed, TerminalWake} => Seen \/ reducer.finish_complete
  BY DEF IInv, Ending
<1>6. fe.poll.poll = "Complete" => InHand /\ Held /\ (~fe.poll.flag => send_terminal # ProvisionalAbort)
  BY <1>1, ReadingFacts DEF IInv, Flight, InHand, Outside, Cancellation, Marked
<1>7. Seen => Definitive(t) /\ Dead
  BY DEF Resolved
<1> QED
  BY <1>1, <1>2, <1>3, <1>4, <1>5, <1>6, <1>7

\* poll_ready.
LEMMA AnswerPollReady ==
    ASSUME IInv, Feeding, fe.inp = "PollReady", NEW t, Resolved(t)
    PROVE  Answers(OnPollReady(reducer, fe.poll, t))
<1>a. /\ reducer \in SendState /\ ~reducer.send_submitting /\ ~reducer.finish_submitting
      /\ ~reducer.reset_submitting /\ fe.poll \in Readings
      /\ Held => reducer.send_inprogress \/ Dead
      /\ Held /\ ~Definitive(t) => reducer.send_inprogress
      /\ fe.poll \in {Closed, TerminalWake} => Definitive(t) \/ reducer.finish_complete
      /\ fe.poll.poll = "Complete" => InHand /\ Held
  BY PollingFacts
<1>b. fe.m = "poll_ready" /\ ~reducer.finish_started /\ ~reducer.finish_complete
  BY FeedingFacts DEF IInv, Calls
<1>c. ~SubmissionReserved(reducer)
  BY <1>a DEF SubmissionReserved
<1>1. PICK z : z = [reducer EXCEPT !.send_inprogress = FALSE]
  OBVIOUS
<1>2. /\ z \in SendState /\ ~z.send_submitting /\ ~z.finish_submitting /\ ~z.reset_submitting
      /\ ~z.finish_started /\ ~z.finish_complete
  BY <1>1, <1>a, <1>b DEF SendState
<1>3. CASE Definitive(t)
  <2>1. OnPollReady(reducer, fe.poll, t) = Do(z, "ReturnError", t)
    BY <1>1, <1>3, <1>c DEF OnPollReady, ReturnError
  <2>2. Dead
    BY <1>3 DEF Resolved
  <2>3. Answer(z, "ReturnError", t)
    BY <1>2, <1>3, <1>b, <2>2 DEF Answer, Asked, AnswerShape, AnswerCalls, AnswerTerm, AnswerFlight, AnswerFinish,
       Ops, Resolved
  <2> QED
    BY <2>1, <2>3, DoAnswers
<1>4. CASE ~Definitive(t) /\ fe.poll.poll = "Complete"
  <2>1. /\ fe.poll # Closed /\ fe.poll # TerminalWake /\ fe.poll # Pending
        /\ reducer.send_inprogress /\ fe.poll.flag \in BOOLEAN /\ InHand
        /\ fe.poll.poll # "FinishComplete" /\ fe.poll # FinishComplete(TRUE)
    BY <1>4, <1>a, ReadingFacts DEF FinishComplete
  <2>2. CASE fe.poll.flag
    <3>1. OnPollReady(reducer, fe.poll, t) = Do(z, "PublishTerminal", ProvisionalAbort)
      BY <1>1, <1>4, <1>b, <1>c, <2>1, <2>2 DEF OnPollReady, PublishTerminal
    <3>2. Answer(z, "PublishTerminal", ProvisionalAbort)
      BY <1>2, <1>b, <2>1, <2>2, TermsMade DEF Answer, Asked, AnswerShape, AnswerCalls, AnswerTerm, AnswerFlight,
         AnswerFinish, Ops
    <3> QED
      BY <3>1, <3>2, DoAnswers
  <2>3. CASE ~fe.poll.flag
    <3>1. OnPollReady(reducer, fe.poll, t) = Do(z, "ReturnReady", NoTerm)
      BY <1>1, <1>4, <1>b, <1>c, <2>1, <2>3 DEF OnPollReady, Emit
    <3>2. Answer(z, "ReturnReady", NoTerm)
      BY <1>2, <1>b, <2>1, TermsMade DEF Answer, Asked, AnswerShape, AnswerCalls, AnswerTerm, AnswerFlight,
         AnswerFinish, Ops
    <3> QED
      BY <3>1, <3>2, DoAnswers
  <2> QED
    BY <2>2, <2>3
<1>5. CASE ~Definitive(t) /\ fe.poll.poll = "FinishComplete"
  <2>1. fe.poll # Closed /\ fe.poll # TerminalWake /\ fe.poll # Pending /\ fe.poll.poll # "Complete" /\ ~InHand
    BY <1>5, <1>a, ReadingFacts DEF InHand
  <2>2. PICK u : u = Internal("finish event observed on poll_ready")
    OBVIOUS
  <2>3. u \in Terms /\ Definitive(u) /\ u.kind # "Connection"
    BY <2>2, TermsMade DEF FinishArms
  <2>4. u # NoTerm /\ u # ProvisionalAbort
    BY <2>3, TermFacts
  <2>5. OnPollReady(reducer, fe.poll, t) = Do(reducer, "PublishTerminal", u)
    BY <1>5, <1>b, <1>c, <2>1, <2>2 DEF OnPollReady, PublishTerminal
  <2>6. Answer(reducer, "PublishTerminal", u)
    BY <1>a, <1>b, <2>1, <2>3, <2>4 DEF Answer, Asked, AnswerShape, AnswerCalls, AnswerTerm, AnswerFlight,
       AnswerFinish, Ops
  <2> QED
    BY <2>5, <2>6, DoAnswers
<1>6. CASE ~Definitive(t) /\ fe.poll.poll = "Pending"
  <2>1. fe.poll # Closed /\ fe.poll # TerminalWake /\ fe.poll = Pending /\ fe.poll # FinishComplete(TRUE)
    BY <1>6, <1>a, ReadingFacts DEF FinishComplete
  <2>2. PICK op \in {"Pending", "ReturnReady"} : OnPollReady(reducer, fe.poll, t) = Do(reducer, op, NoTerm)
    BY <1>6, <1>b, <1>c, <2>1 DEF OnPollReady, Emit
  <2>3. Answer(reducer, op, NoTerm)
    BY <1>6, <1>a, <1>b, <2>1, TermsMade DEF Answer, Asked, AnswerShape, AnswerCalls, AnswerTerm, AnswerFlight,
       AnswerFinish, Ops, Polls
  <2> QED
    BY <2>2, <2>3, DoAnswers
<1>7. fe.poll.poll \in {"Closed", "TerminalWake"} => Definitive(t)
  BY <1>a, <1>b, ReadingFacts
<1> QED
  BY <1>3, <1>4, <1>5, <1>6, <1>7, <1>a, ReadingFacts

\* poll_finish.
LEMMA AnswerPollFinish ==
    ASSUME IInv, Feeding, fe.inp = "PollFinish", NEW t, Resolved(t)
    PROVE  Answers(OnPollFinish(reducer, fe.poll, t))
<1>a. /\ reducer \in SendState /\ ~reducer.send_submitting /\ ~reducer.finish_submitting
      /\ ~reducer.reset_submitting /\ fe.poll \in Readings
      /\ reducer.finish_complete => reducer.finish_started /\ nat.graceful
      /\ fe.poll = FinishComplete(TRUE) => nat.graceful
      /\ send_terminal = ProvisionalAbort => ~reducer.finish_started
      /\ Held => (reducer.send_inprogress \/ Dead) /\ ~reducer.finish_started
      /\ Held /\ ~Definitive(t) => reducer.send_inprogress
      /\ fe.poll \in {Closed, TerminalWake} => Definitive(t) \/ reducer.finish_complete
      /\ fe.poll.poll = "Complete" => InHand /\ Held /\ (~fe.poll.flag => send_terminal # ProvisionalAbort)
  BY PollingFacts
<1>b. fe.m = "poll_finish"
  BY DEF IInv, Calls
<1>c. ~SubmissionReserved(reducer)
  BY <1>a DEF SubmissionReserved
<1>1. PICK z : z = [reducer EXCEPT !.send_inprogress = FALSE]
  OBVIOUS
<1>2. /\ z \in SendState /\ ~z.send_submitting /\ ~z.finish_submitting /\ ~z.reset_submitting
      /\ z.finish_started = reducer.finish_started /\ z.finish_complete = reducer.finish_complete
  BY <1>1, <1>a DEF SendState
<1>3. CASE reducer.finish_complete
  <2>1. OnPollFinish(reducer, fe.poll, t) = Do(reducer, "ReturnFinished", NoTerm)
    BY <1>3 DEF OnPollFinish, Emit
  <2>2. Answer(reducer, "ReturnFinished", NoTerm)
    BY <1>3, <1>a, TermsMade DEF Answer, AnswerShape, AnswerCalls, AnswerTerm, AnswerFlight, AnswerFinish,
       Ops, Asked
  <2> QED
    BY <2>1, <2>2, DoAnswers
<1>4. CASE ~reducer.finish_complete /\ fe.poll.poll = "FinishComplete"
  <2>1. ~InHand /\ fe.poll.flag \in BOOLEAN /\ fe.poll = FinishComplete(fe.poll.flag)
    BY <1>4, <1>a, ReadingFacts DEF InHand
  <2>2. OnPollFinish(reducer, fe.poll, t) = OnFinishComplete(reducer, fe.poll.flag, t)
    BY <1>4, <1>c DEF OnPollFinish
  <2>3. ASSUME NEW u \in Terms, Definitive(u), u.kind = "Connection" => Known,
               reducer.finish_started => fe.poll # FinishComplete(TRUE)
        PROVE  Answer(reducer, "PublishTerminal", u)
    <3>1. u # NoTerm /\ u # ProvisionalAbort
      BY <2>3, TermFacts
    <3> QED
      BY <1>4, <1>a, <1>b, <2>1, <2>3, <3>1 DEF Answer, AnswerShape, AnswerCalls, AnswerTerm, AnswerFlight,
         AnswerFinish, Ops, Asked
  <2>4. CASE ~reducer.finish_started
    <3>1. PICK u : u = Internal("finish complete without a started finish")
      OBVIOUS
    <3>2. u \in Terms /\ Definitive(u) /\ u.kind # "Connection"
      BY <3>1, TermsMade DEF FinishArms
    <3>3. OnFinishComplete(reducer, fe.poll.flag, t) = Do(reducer, "PublishTerminal", u)
      BY <2>4, <3>1 DEF OnFinishComplete, PublishTerminal
    <3> QED
      BY <2>2, <2>3, <2>4, <3>2, <3>3, DoAnswers
  <2>5. CASE reducer.finish_started /\ ~fe.poll.flag
    <3>1. PICK u : u = DefinitiveOr(t, Aborted)
      OBVIOUS
    <3>2. u \in Terms /\ Definitive(u) /\ (u.kind = "Connection" => Known)
      BY <3>1, TermsMade DEF DefinitiveOr, Resolved
    <3>3. OnFinishComplete(reducer, fe.poll.flag, t) = Do(reducer, "PublishTerminal", u)
      BY <2>5, <3>1 DEF OnFinishComplete, PublishTerminal
    <3>4. fe.poll # FinishComplete(TRUE)
      BY <2>5 DEF FinishComplete
    <3> QED
      BY <2>2, <2>3, <3>2, <3>3, <3>4, DoAnswers
  <2>6. CASE reducer.finish_started /\ fe.poll.flag
    <3>1. PICK y : y = [reducer EXCEPT !.finish_complete = TRUE]
      OBVIOUS
    <3>2. /\ y \in SendState /\ ~y.send_submitting /\ ~y.finish_submitting /\ ~y.reset_submitting
          /\ y.finish_started /\ y.finish_complete
      BY <3>1, <1>a, <2>6 DEF SendState
    <3>3. OnFinishComplete(reducer, fe.poll.flag, t) = Do(y, "ReturnFinished", NoTerm)
      BY <2>6, <3>1 DEF OnFinishComplete, Emit
    <3>4. nat.graceful
      BY <1>a, <2>1, <2>6
    <3>5. Answer(y, "ReturnFinished", NoTerm)
      BY <1>a, <2>6, <3>2, <3>4, TermsMade DEF Answer, AnswerShape, AnswerCalls, AnswerTerm, AnswerFlight,
         AnswerFinish, Ops, Asked
    <3> QED
      BY <2>2, <3>3, <3>5, DoAnswers
  <2> QED
    BY <2>1, <2>4, <2>5, <2>6
<1>5. CASE ~reducer.finish_complete /\ fe.poll.poll # "FinishComplete" /\ Definitive(t)
  <2>1. OnPollFinish(reducer, fe.poll, t) = Do(z, "ReturnError", t)
    BY <1>1, <1>5, <1>c DEF OnPollFinish, ReturnError
  <2>2. Dead /\ fe.poll # FinishComplete(TRUE)
    BY <1>5 DEF Resolved, FinishComplete
  <2>3. Answer(z, "ReturnError", t)
    BY <1>2, <1>5, <1>a, <1>b, <2>2 DEF Answer, AnswerShape, AnswerCalls, AnswerTerm, AnswerFlight, AnswerFinish,
       Ops, Asked, Resolved
  <2> QED
    BY <2>1, <2>3, DoAnswers
<1>6. CASE ~reducer.finish_complete /\ fe.poll.poll = "Complete" /\ ~Definitive(t)
  <2>1. /\ fe.poll # Closed /\ fe.poll # TerminalWake /\ fe.poll # Pending
        /\ reducer.send_inprogress /\ fe.poll.flag \in BOOLEAN /\ InHand
        /\ fe.poll.poll # "FinishComplete" /\ fe.poll # FinishComplete(TRUE) /\ ~reducer.finish_started
        /\ (~fe.poll.flag => send_terminal # ProvisionalAbort)
    BY <1>6, <1>a, ReadingFacts DEF FinishComplete
  <2>2. CASE fe.poll.flag
    <3>1. OnPollFinish(reducer, fe.poll, t) = Do(z, "PublishTerminal", ProvisionalAbort)
      BY <1>1, <1>6, <1>c, <2>1, <2>2 DEF OnPollFinish, PublishTerminal
    <3>2. Answer(z, "PublishTerminal", ProvisionalAbort)
      BY <1>2, <1>a, <1>b, <2>1, <2>2, TermsMade DEF Answer, Asked, AnswerShape, AnswerCalls, AnswerTerm, AnswerFlight,
         AnswerFinish, Ops
    <3> QED
      BY <3>1, <3>2, DoAnswers
  <2>3. CASE ~fe.poll.flag
    <3>1. PICK y : y = [z EXCEPT !.finish_submitting = TRUE]
      OBVIOUS
    <3>2. /\ y \in SendState /\ ~y.send_submitting /\ y.finish_submitting /\ ~y.reset_submitting
          /\ ~y.finish_started /\ ~y.finish_complete
      BY <3>1, <1>2, <1>6, <2>1 DEF SendState
    <3>3. OnPollFinish(reducer, fe.poll, t) = Do(y, "SubmitGraceful", NoTerm)
      BY <1>1, <1>6, <1>c, <2>1, <2>3, <3>1 DEF OnPollFinish, Emit
    <3>4. Answer(y, "SubmitGraceful", NoTerm)
      BY <1>6, <1>a, <1>b, <2>1, <2>3, <3>2, TermsMade
         DEF Answer, Asked, AnswerShape, AnswerCalls, AnswerTerm, AnswerFlight, AnswerFinish, Ops
    <3> QED
      BY <3>3, <3>4, DoAnswers
  <2> QED
    BY <2>2, <2>3
<1>7. CASE ~reducer.finish_complete /\ fe.poll.poll = "Pending" /\ ~Definitive(t)
  <2>1. fe.poll # Closed /\ fe.poll # TerminalWake /\ fe.poll = Pending /\ fe.poll # FinishComplete(TRUE)
        /\ fe.poll.poll # "FinishComplete" /\ fe.poll.poll # "Complete"
    BY <1>7, <1>a, ReadingFacts DEF FinishComplete
  <2>2. CASE reducer.finish_started \/ reducer.send_inprogress \/ ProvisionalPending(t)
    <3>1. OnPollFinish(reducer, fe.poll, t) = Do(reducer, "Pending", NoTerm)
      BY <1>7, <1>c, <2>1, <2>2 DEF OnPollFinish, Emit
    <3>2. Answer(reducer, "Pending", NoTerm)
      BY <1>7, <1>a, <1>b, <2>1, TermsMade DEF Answer, AnswerShape, AnswerCalls, AnswerTerm, AnswerFlight,
         AnswerFinish, Ops, Polls, Asked
    <3> QED
      BY <3>1, <3>2, DoAnswers
  <2>3. CASE ~(reducer.finish_started \/ reducer.send_inprogress \/ ProvisionalPending(t))
    <3>1. PICK y : y = [reducer EXCEPT !.finish_submitting = TRUE]
      OBVIOUS
    <3>2. /\ y \in SendState /\ ~y.send_submitting /\ y.finish_submitting /\ ~y.reset_submitting
          /\ ~y.finish_started /\ ~y.finish_complete
      BY <3>1, <1>a, <1>7, <2>3 DEF SendState
    <3>3. OnPollFinish(reducer, fe.poll, t) = Do(y, "SubmitGraceful", NoTerm)
      BY <1>7, <1>c, <2>1, <2>3, <3>1 DEF OnPollFinish, Emit
    <3>4. ~Held /\ send_terminal # ProvisionalAbort
      BY <1>7, <1>a, <2>3 DEF Resolved, ProvisionalPending
    <3>5. Answer(y, "SubmitGraceful", NoTerm)
      BY <1>7, <1>a, <1>b, <2>1, <2>3, <3>2, <3>4, TermsMade
         DEF Answer, Asked, AnswerShape, AnswerCalls, AnswerTerm, AnswerFlight, AnswerFinish, Ops
    <3> QED
      BY <3>3, <3>5, DoAnswers
  <2> QED
    BY <2>2, <2>3
<1>8. fe.poll.poll \in {"Closed", "TerminalWake"} => Definitive(t) \/ reducer.finish_complete
  BY <1>a, ReadingFacts
<1> QED
  BY <1>3, <1>4, <1>5, <1>6, <1>7, <1>8, <1>a, ReadingFacts

\* Whatever the call asks, the reducer's answer keeps what it must.
LEMMA FeedAnswers ==
    ASSUME IInv, Feeding, NEW t, Resolved(t)
    PROVE  Answers(Feed(t))
<1>1. fe.inp \in Inputs
  BY FeedingFacts
<1>2. CASE fe.inp = "PollReady"
  BY <1>2, AnswerPollReady DEF Feed
<1>3. CASE fe.inp = "PollFinish"
  BY <1>3, AnswerPollFinish DEF Feed
<1>4. CASE fe.inp = "SendRequested"
  BY <1>4, AnswerSendRequested DEF Feed
<1>5. CASE fe.inp = "Reset"
  BY <1>5, AnswerReset DEF Feed
<1>6. CASE fe.inp = "SendSubmitted"
  BY <1>6, AnswerSendSubmitted DEF Feed
<1>7. CASE fe.inp = "GracefulSubmitted"
  BY <1>7, AnswerGracefulSubmitted DEF Feed
<1>8. CASE fe.inp = "ResetSubmitted"
  BY <1>8, AnswerResetSubmitted DEF Feed
<1>9. CASE fe.inp = "FinishGuard"
  BY <1>9, AnswerFinishGuard DEF Feed, AfterFinish
<1> QED
  BY <1>1, <1>2, <1>3, <1>4, <1>5, <1>6, <1>7, <1>8, <1>9 DEF Inputs

-----------------------------------------------------------------------------
(* The steps of the frontends.                                             *)

\* msquic's side stays where it is, but for the beginning of an abort, a FIN asked for and
\* the end of the connection.
Softly ==
    /\ nat'.sends = nat.sends /\ nat'.graceful = nat.graceful
    /\ \/ nat'.dir = nat.dir
       \/ nat.dir = "open" /\ nat'.dir = "aborting"
       \/ nat.dir = "shut" /\ nat'.dir = "gone"

\* The rest of a callback stays right while it does not run, if the send it is about to
\* report stays in flight and nothing final is taken back.
LEMMA TodoKept ==
    ASSUME Todo, UNCHANGED <<cb, poisoned>>, Softly,
           Definitive(send_terminal) => Definitive(send_terminal'), Known => Known',
           ~Outside /\ Held => ~Outside' /\ Held',
           \A c \in BOOLEAN : ~Outside /\ Held /\ Cancellation(c) => Cancellation(c)',
           Over => Over'
    PROVE  Todo'
<1>1. (Late => Late') /\ (nat.dir = "closed" => nat'.dir = "closed") /\ nat'.graceful = nat.graceful
  BY DEF Late, Softly
<1>2. \A c \in BOOLEAN : (cb = OnSendComplete(c) \/ cb = Landing(c)) /\ ~Outside /\ Held /\ Cancellation(c)
         => (cb' = OnSendComplete(c) \/ cb' = Landing(c)) /\ ~Outside' /\ Held' /\ Cancellation(c)'
  OBVIOUS
<1> QED
  BY <1>1, <1>2 DEF Todo

\* Where the call stands after the reducer's answer.
LEMMA ContinueFe ==
    ASSUME fe \in FeStates, parked \in Polls \cup {"no"}, NEW r, Continue(r),
           r.op \in Ops, r.t \in Terms, r.op = "Pending" => fe.m \in Polls
    PROVE  /\ reducer' = r.state /\ fe' \in FeStates /\ parked' \in Polls \cup {"no"}
           /\ fe'.pc \in {"idle", "poll", "publish", "commit", "SubmitSend", "SubmitGraceful", "SubmitReset"}
           /\ fe'.pc # "idle" => fe'.m = fe.m
           /\ fe'.pc = "poll" => r.op = "Repoll"
           /\ \A op \in {"SubmitSend", "SubmitGraceful", "SubmitReset"} : fe'.pc = op <=> r.op = op
           /\ fe'.pc = "publish" <=> r.op = "PublishTerminal"
           /\ fe'.pc = "commit" => r.t.kind = "Connection"
           /\ fe'.t = IF fe'.pc \in {"publish", "commit"} THEN r.t ELSE NoTerm
           /\ fe'.poll = Pending
           /\ errs' = errs \/ (r.op = "ReturnError" /\ r.t.kind # "Connection" /\ errs' = errs \cup {r.t})
<1>a. fe.m \in Polls \cup {"none", "send_data", "reset"}
  BY DEF FeStates
<1>b. Idle \in FeStates /\ Idle.pc = "idle" /\ Idle.t = NoTerm /\ Idle.poll = Pending
  <2>1. Pending \in Readings /\ NoTerm \in Terms
    BY TermsMade DEF Readings
  <2> QED
    BY <2>1 DEF Idle, FeStates, Payloads
<1>c. reducer' = r.state
  BY DEF Continue
<1>1. CASE r.op = "Pending"
  <2>1. fe' = Idle /\ parked' = fe.m /\ errs' = errs
    BY <1>1 DEF Continue
  <2> QED
    BY <1>1, <1>a, <1>b, <1>c, <2>1
<1>2. CASE r.op = "Repoll"
  <2>1. fe' = [Idle EXCEPT !.pc = "poll", !.m = fe.m] /\ UNCHANGED <<parked, errs>>
    BY <1>2 DEF Continue
  <2>2. fe' \in FeStates /\ fe'.pc = "poll" /\ fe'.m = fe.m /\ fe'.t = NoTerm /\ fe'.poll = Pending
    BY <1>a, <1>b, <2>1 DEF FeStates
  <2> QED
    BY <1>2, <1>c, <2>1, <2>2
<1>3. CASE r.op \in {"SubmitSend", "SubmitGraceful", "SubmitReset"}
  <2>1. fe' = [Idle EXCEPT !.pc = r.op, !.m = fe.m] /\ UNCHANGED <<parked, errs>>
    BY <1>3 DEF Continue
  <2>2. fe' \in FeStates /\ fe'.pc = r.op /\ fe'.m = fe.m /\ fe'.t = NoTerm /\ fe'.poll = Pending
    BY <1>3, <1>a, <1>b, <2>1 DEF FeStates
  <2> QED
    BY <1>3, <1>c, <2>1, <2>2
<1>4. CASE r.op = "PublishTerminal"
  <2>1. fe' = [Idle EXCEPT !.pc = "publish", !.m = fe.m, !.t = r.t] /\ UNCHANGED <<parked, errs>>
    BY <1>4 DEF Continue
  <2>2. fe' \in FeStates /\ fe'.pc = "publish" /\ fe'.m = fe.m /\ fe'.t = r.t /\ fe'.poll = Pending
    BY <1>a, <1>b, <2>1 DEF FeStates
  <2> QED
    BY <1>4, <1>c, <2>1, <2>2
<1>5. CASE r.op = "ReturnError" /\ r.t.kind = "Connection"
  <2>1. fe' = [Idle EXCEPT !.pc = "commit", !.m = fe.m, !.t = r.t] /\ UNCHANGED <<parked, errs>>
    BY <1>5 DEF Continue
  <2>2. fe' \in FeStates /\ fe'.pc = "commit" /\ fe'.m = fe.m /\ fe'.t = r.t /\ fe'.poll = Pending
    BY <1>a, <1>b, <2>1 DEF FeStates
  <2> QED
    BY <1>5, <1>c, <2>1, <2>2
<1>6. CASE r.op = "ReturnError" /\ r.t.kind # "Connection"
  <2>1. fe' = Idle /\ parked' = "no" /\ errs' = errs \cup {r.t}
    BY <1>6 DEF Continue
  <2> QED
    BY <1>6, <1>b, <1>c, <2>1
<1>7. CASE r.op \in {"ReturnSent", "ReturnReady", "ReturnFinished", "NoOp", "Misuse", "OversizedSend"}
  <2>1. fe' = Idle /\ parked' = "no" /\ errs' = errs
    BY <1>7 DEF Continue
  <2> QED
    BY <1>7, <1>b, <1>c, <2>1
<1> QED
  BY <1>1, <1>2, <1>3, <1>4, <1>5, <1>6, <1>7, <1>a DEF Ops

\* An answer keeps the invariant.
LEMMA ContinueKeeps ==
    ASSUME IInv, Feeding, NEW r, Answers(r), Continue(r),
           UNCHANGED <<chanVars, slotVars, cbVars, boxes, nat, told>>
    PROVE  IInv'
<1>a. Shapes /\ Calls /\ CauseKnown /\ Flight /\ Provisional /\ Todo /\ Ending /\ Finish /\ Sticky /\ Boxed
  BY DEF IInv
<1>b. UNCHANGED <<chan, chanOpen, waker, send_terminal, conn, cb, poisoned, fault, boxes, nat, told>>
  BY DEF chanVars, slotVars, cbVars
<1>c. PICK z : z = r.state
  OBVIOUS
<1>d. PICK op : op = r.op
  OBVIOUS
<1>e. PICK u : u = r.t
  OBVIOUS
<1>f. AnswerShape(z, op, u) /\ AnswerCalls(z, op, u) /\ AnswerTerm(z, op, u) /\ AnswerFlight(z, op, u)
      /\ AnswerFinish(z, op, u)
  BY <1>c, <1>d, <1>e DEF Answers, Answer
<1>g. fe \in FeStates /\ parked \in Polls \cup {"no"} /\ op \in Ops /\ u \in Terms /\ (op = "Pending" => fe.m \in Polls)
  BY <1>a, <1>f DEF Shapes, AnswerShape, AnswerCalls
<1>1. /\ reducer' = z /\ fe' \in FeStates /\ parked' \in Polls \cup {"no"}
      /\ fe'.pc \in {"idle", "poll", "publish", "commit", "SubmitSend", "SubmitGraceful", "SubmitReset"}
      /\ fe'.pc # "idle" => fe'.m = fe.m
      /\ fe'.pc = "poll" => op = "Repoll"
      /\ fe'.pc = "SubmitSend" <=> op = "SubmitSend"
      /\ fe'.pc = "SubmitGraceful" <=> op = "SubmitGraceful"
      /\ fe'.pc = "SubmitReset" <=> op = "SubmitReset"
      /\ fe'.pc = "publish" <=> op = "PublishTerminal"
      /\ fe'.pc = "commit" => u.kind = "Connection"
      /\ fe'.t = IF fe'.pc \in {"publish", "commit"} THEN u ELSE NoTerm
      /\ fe'.poll = Pending
      /\ errs' = errs \/ (op = "ReturnError" /\ u.kind # "Connection" /\ errs' = errs \cup {u})
  BY <1>c, <1>d, <1>e, <1>g, ContinueFe
<1>2. ~Feeding' /\ ~InHand' /\ fe'.pc # "peek"
  BY <1>1 DEF Feeding, InHand
<1>3. Known' = Known /\ Dead' = Dead /\ Seen' = Dead /\ InChan' = InChan
  BY <1>b, <1>2 DEF Known, Dead, Seen, InChan
<1>4. Shapes'
  BY <1>1, <1>a, <1>b, <1>f DEF Shapes, AnswerShape
<1>5. Calls'
  BY <1>1, <1>2, <1>f DEF Calls, AnswerCalls, AnswerTerm
<1>6. CauseKnown'
  BY <1>1, <1>3, <1>a, <1>b, <1>f, TermsMade DEF CauseKnown, AnswerTerm
<1>7. Held /\ ~InHand => Held'
  BY <1>1, <1>2, <1>3, <1>f DEF Held, AnswerFlight
<1>8. Marked' => send_terminal = ProvisionalAbort \/ (op = "PublishTerminal" /\ u = ProvisionalAbort)
  BY <1>1, <1>b DEF Marked
<1>9. \A c \in BOOLEAN : Cancellation(c) /\ ~InHand => Cancellation(c)'
  BY <1>8, <1>b, <1>f DEF Cancellation, AnswerFlight, Marked
<1>10. Outside' => Outside /\ ~InHand
  BY <1>2, <1>3, <1>a, <1>b DEF Outside, Flight
<1>11. Flight'
  <2>1. Outside' => Held'
    BY <1>7, <1>10, <1>a DEF Flight
  <2>2. ASSUME NEW i \in DOMAIN chan, chan[i].poll = "Complete" PROVE Cancellation(chan[i].flag)'
    <3>1. chan[i] \in Readings /\ chan[i].flag \in BOOLEAN
      <4>1. chan[i] \in Events
        BY <1>a DEF Shapes
      <4> QED
        BY <2>2, <4>1, ReadingFacts DEF Readings
    <3>2. InChan /\ Cancellation(chan[i].flag)
      BY <1>a, <2>2 DEF InChan, Flight
    <3>3. ~InHand
      BY <1>a, <3>2 DEF Flight
    <3> QED
      BY <1>9, <1>b, <3>1, <3>2, <3>3
  <2> QED
    BY <1>2, <1>3, <1>a, <1>b, <2>1, <2>2 DEF Flight
<1>12. Provisional'
  <2>1. op = "PublishTerminal" /\ u = ProvisionalAbort => nat.dir # "open"
    BY <1>a, <1>f DEF AnswerFlight, Flight, Cancellation
  <2>2. send_terminal = ProvisionalAbort => nat.dir # "open"
    BY <1>a DEF Provisional, Marked
  <2> QED
    BY <1>1, <1>2, <1>8, <1>b, <1>f, <2>1, <2>2 DEF Provisional, AnswerFlight
<1>13. Over => Over'
  <2>1. FinishAhead => FinishAhead' \/ Dead \/ z.finish_complete
    BY <1>1, <1>b, <1>f DEF FinishAhead, AnswerFinish, Feeding
  <2> QED
    BY <1>1, <1>3, <1>f, <2>1 DEF Over, AnswerFinish
<1>14. Todo'
  <2>1. ~Outside /\ Held => ~Outside' /\ Held'
    BY <1>7, <1>10 DEF Outside
  <2>2. \A c \in BOOLEAN : ~Outside /\ Held /\ Cancellation(c) => Cancellation(c)'
    BY <1>9 DEF Outside
  <2> QED
    BY <1>3, <1>13, <1>a, <1>b, <2>1, <2>2, TodoKept DEF Softly
<1>15. Ending'
  BY <1>2, <1>13, <1>a, <1>b DEF Ending, Late
<1>16. Finish'
  <2>1. Pending # FinishComplete(TRUE)
    BY DEF Pending, FinishComplete
  <2>2. Asked' <=> z.finish_started
    BY <1>1, <1>2 DEF Asked
  <2>3. z.finish_started <=> Asked
    BY <1>f DEF AnswerFinish
  <2> QED
    BY <1>1, <1>a, <1>b, <1>f, <2>1, <2>2, <2>3 DEF Finish, AnswerFinish
<1>17. Sticky'
  BY <1>1, <1>a, <1>b, <1>f DEF Sticky, AnswerTerm
<1>18. Boxed'
  BY <1>a, <1>b DEF Boxed
<1> QED
  BY <1>4, <1>5, <1>6, <1>11, <1>12, <1>14, <1>15, <1>16, <1>17, <1>18 DEF IInv

\* A step that leaves the reducer and the events alone keeps what the two threads and
\* msquic rely on, if it takes nothing final back and loses no finish event.
LEMMA CoreKept ==
    ASSUME IInv, UNCHANGED <<reducer, chan>>, Softly, poisoned' \in BOOLEAN, poisoned => poisoned',
           ~chanOpen' => ~chanOpen \/ (Over /\ Late),
           \A g \in BOOLEAN : cb = OnSendShutdownComplete(g) => cb' = cb \/ poisoned',
           Known => Known', Definitive(send_terminal) => Definitive(send_terminal'),
           InHand' => InHand /\ fe'.poll = fe.poll, Held => Held', Marked' => Marked,
           FinishAhead => FinishAhead' \/ Dead',
           Feeding' /\ fe'.poll \in {Closed, TerminalWake} => Seen' \/ reducer.finish_complete,
           Asked => Asked', nat'.fin => nat.fin \/ Asked',
           fe'.poll = FinishComplete(TRUE) => fe.poll = FinishComplete(TRUE),
           fe.m = "poll_finish" /\ fe.poll = FinishComplete(TRUE) =>
               fe'.m = "poll_finish" /\ fe'.poll = FinishComplete(TRUE)
    PROVE  Flight' /\ Ending' /\ Finish' /\ (Outside' => Outside) /\ (Over => Over')
           /\ \A c : Cancellation(c) => Cancellation(c)'
<1>a. Shapes /\ Flight /\ Ending /\ Finish
  BY DEF IInv
<1>1. Dead => Dead'
  BY DEF Dead
<1>2. InChan' = InChan /\ (Outside' => Outside)
  BY DEF InChan, Outside, Softly
<1>3. \A c : Cancellation(c) => Cancellation(c)'
  BY DEF Cancellation, Softly
<1>4. Over => Over'
  BY <1>1 DEF Over
<1>5. Flight'
  <2>1. nat'.sends # 0 => nat'.dir \in {"open", "aborting"}
    BY <1>a DEF Flight, Softly
  <2>2. \A i \in DOMAIN chan : chan[i].poll = "Complete" => Cancellation(chan[i].flag)'
    BY <1>3, <1>a DEF Flight
  <2>3. InHand' => Cancellation(fe.poll.flag)'
    <3> SUFFICES ASSUME InHand' PROVE Cancellation(fe.poll.flag)'
      OBVIOUS
    <3>1. PICK f : f = fe.poll.flag
      OBVIOUS
    <3>2. Cancellation(f)
      BY <1>a, <3>1 DEF Flight
    <3>3. f = fe'.poll.flag
      BY <3>1
    <3> QED
      BY <1>3, <3>2, <3>3
  <2>4. nat'.sends <= 1 /\ (Outside' => Held')
    BY <1>2, <1>a DEF Flight, Softly
  <2>5. (nat'.sends # 0 => ~InChan' /\ ~InHand') /\ (InChan' => ~InHand')
    BY <1>2, <1>a DEF Flight, Softly
  <2> QED
    BY <1>a, <2>1, <2>2, <2>3, <2>4, <2>5 DEF Flight
<1>6. Ending'
  <2>1. Late => Late'
    BY DEF Late, Softly
  <2>2. nat'.dir \notin {"open", "aborting"} => nat.dir \notin {"open", "aborting"}
    BY DEF Softly
  <2>3. ~chanOpen' => Over' /\ Late'
    BY <1>4, <1>a, <2>1 DEF Ending
  <2>4. nat'.dir \notin {"open", "aborting"} /\ ~poisoned' => Over' \/ \E g \in BOOLEAN : cb' = OnSendShutdownComplete(g)
    BY <1>4, <1>a, <2>2 DEF Ending
  <2> QED
    BY <1>a, <2>3, <2>4 DEF Ending
<1>7. Finish'
  <2>1. nat'.graceful = nat.graceful /\ (nat.graceful => nat'.dir \notin {"open", "aborting"})
    BY <1>a DEF Softly, Finish
  <2>2. cb = OnSendShutdownComplete(TRUE) /\ ~poisoned' => cb' = OnSendShutdownComplete(TRUE)
    OBVIOUS
  <2> QED
    BY <1>a, <2>1, <2>2 DEF Finish
<1> QED
  BY <1>2, <1>3, <1>4, <1>5, <1>6, <1>7

\* Steps that leave the callback alone too keep its rest right.
LEMMA RestKept ==
    ASSUME IInv, UNCHANGED <<reducer, chan, chanOpen, cb, poisoned, boxes>>, Softly,
           fault' = fault \/ (fault = "none" /\ fault' = "connection"),
           Known => Known', Definitive(send_terminal) => Definitive(send_terminal'),
           InHand' => InHand /\ fe'.poll = fe.poll, Held => Held', Marked' => Marked,
           FinishAhead => FinishAhead' \/ Dead',
           Feeding' /\ fe'.poll \in {Closed, TerminalWake} => Seen' \/ reducer.finish_complete,
           Asked => Asked', nat'.fin => nat.fin \/ Asked',
           fe'.poll = FinishComplete(TRUE) => fe.poll = FinishComplete(TRUE),
           fe.m = "poll_finish" /\ fe.poll = FinishComplete(TRUE) =>
               fe'.m = "poll_finish" /\ fe'.poll = FinishComplete(TRUE)
    PROVE  Flight' /\ Todo' /\ Ending' /\ Finish' /\ Boxed'
<1>a. Todo /\ Boxed /\ poisoned' \in BOOLEAN
  BY DEF IInv, Shapes
<1>1. /\ Flight' /\ Ending' /\ Finish' /\ (Outside' => Outside) /\ (Over => Over')
      /\ \A c : Cancellation(c) => Cancellation(c)'
  BY <1>a, CoreKept
<1>2. Todo'
  BY <1>1, <1>a, TodoKept
<1>3. Boxed'
  BY <1>a DEF Boxed, Softly
<1> QED
  BY <1>1, <1>2, <1>3

\* load_winner.
LEMMA LoadWinnerKeeps ==
    ASSUME IInv, LoadWinner PROVE IInv'
<1>a. Shapes /\ Calls /\ CauseKnown /\ Provisional /\ Sticky /\ Ending
  BY DEF IInv
<1>b. fe \in FeStates /\ send_terminal \in Terms /\ fe.pc = "load" /\ Feeding
  BY <1>a DEF Shapes, LoadWinner, Feeding
<1>c. UNCHANGED <<chanVars, slotVars, cbVars, boxes, nat, told>>
  BY DEF LoadWinner
<1>1. CASE ~NeedsPeek(send_terminal) /\ Continue(Feed(send_terminal))
  <2>1. Definitive(send_terminal) /\ send_terminal.kind # "Connection" /\ send_terminal # ProvisionalAbort
    BY <1>1, <1>b, TermFacts
  <2>2. Resolved(send_terminal)
    BY <1>b, <2>1 DEF Resolved, Dead, Seen
  <2> QED
    BY <1>1, <1>b, <1>c, <2>2, FeedAnswers, ContinueKeeps
<1>2. CASE /\ NeedsPeek(send_terminal) /\ fe' = [fe EXCEPT !.pc = "peek", !.t = send_terminal]
           /\ UNCHANGED <<reducer, parked, errs>>
  <2>1. /\ fe' \in FeStates /\ fe'.pc = "peek" /\ fe'.t = send_terminal /\ fe'.m = fe.m /\ fe'.inp = fe.inp
        /\ fe'.poll = fe.poll /\ fe'.ok = fe.ok
    BY <1>2, <1>b DEF FeStates
  <2>2. UNCHANGED <<chan, chanOpen, waker, send_terminal, conn, cb, poisoned, fault, boxes, nat, told>>
    BY <1>c DEF chanVars, slotVars, cbVars
  <2>3. Feeding' /\ Known' = Known /\ Dead' = Dead /\ Seen' = Seen
    BY <1>b, <2>1, <2>2 DEF Feeding, Known, Dead, Seen
  <2>4. InHand' = InHand /\ (Marked' => Marked) /\ Asked' = Asked /\ (FinishAhead => FinishAhead')
    BY <1>2, <1>b, <2>1, <2>2, <2>3 DEF InHand, Marked, Asked, FinishAhead
  <2>5. Held => Held'
    BY <1>2, <1>b, <2>1, <2>2, <2>3 DEF Held
  <2>6. Softly
    BY <2>2 DEF Softly
  <2>7. Flight' /\ Todo' /\ Ending' /\ Finish' /\ Boxed'
    <3>1. Feeding' /\ fe'.poll \in {Closed, TerminalWake} => Seen' \/ reducer.finish_complete
      BY <1>a, <1>b, <2>1, <2>3 DEF Ending
    <3> QED
      BY <1>2, <2>1, <2>2, <2>3, <2>4, <2>5, <2>6, <3>1, RestKept
  <2>8. Shapes'
    BY <1>2, <1>a, <2>1, <2>2 DEF Shapes
  <2>9. Calls'
    BY <1>2, <1>a, <1>b, <2>1, <2>3 DEF Calls
  <2>10. CauseKnown'
    BY <1>a, <2>1, <2>2, <2>3 DEF CauseKnown
  <2>11. Provisional'
    BY <1>2, <1>a, <2>1, <2>2, <2>4 DEF Provisional, Marked
  <2>12. Sticky'
    BY <1>2, <1>a, <2>2 DEF Sticky
  <2> QED
    BY <2>7, <2>8, <2>9, <2>10, <2>11, <2>12 DEF IInv
<1> QED
  BY <1>1, <1>2 DEF LoadWinner

\* peek_conn_terminal.
LEMMA PeekConnKeeps ==
    ASSUME IInv, PeekConn PROVE IInv'
<1>a. Shapes /\ Calls /\ CauseKnown /\ Provisional
  BY DEF IInv
<1>b. fe \in FeStates /\ fe.t \in Terms /\ fe.pc = "peek" /\ Feeding /\ conn \in ConnSlot /\ NeedsPeek(fe.t)
  BY <1>a DEF Shapes, PeekConn, Feeding, FeStates, Calls
<1>c. conn.terminal \in ConnectionTerminal \cup {NoCause}
  BY <1>b DEF ConnSlot
<1>1. PICK t : t = ResolveTerminal(fe.t, conn.terminal)
  OBVIOUS
<1>2. Known => Resolved(t)
  <2> SUFFICES ASSUME Known PROVE Resolved(t)
    OBVIOUS
  <2>1. t = Connection(conn.terminal)
    BY <1>1, <1>b DEF ResolveTerminal, NeedsPeek, OrElse, Known
  <2>2. conn.terminal \in ConnectionTerminal
    BY <1>c DEF Known
  <2>3. t \in Terms /\ Definitive(t) /\ t.kind = "Connection"
    BY <2>1, <2>2, TermsMade
  <2>4. t # ProvisionalAbort
    BY <2>3, TermFacts
  <2> QED
    BY <2>3, <2>4 DEF Resolved, Dead
<1>3. ~Known => Resolved(t)
  <2> SUFFICES ASSUME ~Known PROVE Resolved(t)
    OBVIOUS
  <2>1. fe.t.kind # "Connection"
    BY <1>a DEF CauseKnown
  <2>2. t = fe.t
    BY <1>1, <1>b, <2>1 DEF ResolveTerminal, NeedsPeek, Known
  <2>3. ~Definitive(t)
    BY <1>b, <2>1, <2>2, TermFacts
  <2> QED
    BY <1>a, <1>b, <2>1, <2>2, <2>3 DEF Resolved, Seen, Provisional
<1>4. Resolved(t)
  BY <1>2, <1>3
<1>5. Continue(Feed(t)) /\ UNCHANGED <<chanVars, slotVars, cbVars, boxes, nat, told>>
  BY <1>1 DEF PeekConn
<1> QED
  BY <1>4, <1>5, <1>b, FeedAnswers, ContinueKeeps


\* publish_send on the frontend thread.
LEMMA PublishWinnerKeeps ==
    ASSUME IInv, PublishWinner PROVE IInv'
<1>a. Shapes /\ Calls /\ CauseKnown /\ Provisional /\ Sticky
  BY DEF IInv
<1>b. /\ fe \in FeStates /\ fe.t \in Terms /\ fe.pc = "publish" /\ ~Feeding /\ send_terminal \in Terms
      /\ parked \in Polls \cup {"no"} /\ fe.t # NoTerm
      /\ fe.m \in Polls \cup {"send_data", "reset"}
  BY <1>a DEF Shapes, PublishWinner, Feeding, FeStates, Calls
<1>c. UNCHANGED <<chan, chanOpen, waker, conn, cb, poisoned, fault, boxes, nat, told>>
  BY DEF PublishWinner, chanVars, cbVars
<1>1. PICK w : w = PublishSend(send_terminal, fe.t)
  OBVIOUS
<1>2. /\ send_terminal' = w /\ w \in {send_terminal, fe.t} /\ w \in Terms /\ w # NoTerm
      /\ Definitive(send_terminal) => w = send_terminal
      /\ Definitive(fe.t) => Definitive(w)
  BY <1>1, <1>b, PublishFacts DEF PublishWinner
<1>3. PICK r : r = OnTerminalPublished(reducer, fe.m, w)
  OBVIOUS
<1>4. Continue(r)
  BY <1>2, <1>3 DEF PublishWinner
<1>5. /\ r.state = reducer /\ r.op \in {"NoOp", "Repoll", "ReturnError"}
      /\ r.op = "Repoll" => fe.m \in Polls
      /\ r.op = "ReturnError" => r.t = w /\ w # ProvisionalAbort
      /\ r.t \in {w, NoTerm}
  <2>1. CASE w = ProvisionalAbort /\ fe.m \in {"send_data", "reset"}
    BY <1>3, <2>1 DEF OnTerminalPublished, ProvisionalPending, Emit, Do
  <2>2. CASE w = ProvisionalAbort /\ fe.m \notin {"send_data", "reset"}
    BY <1>3, <1>b, <2>2 DEF OnTerminalPublished, ProvisionalPending, Emit, Do
  <2>3. CASE w # ProvisionalAbort /\ fe.m = "reset"
    BY <1>3, <2>3 DEF OnTerminalPublished, ProvisionalPending, Emit, Do
  <2>4. CASE w # ProvisionalAbort /\ fe.m # "reset"
    BY <1>3, <2>4 DEF OnTerminalPublished, ProvisionalPending, ReturnError, Do
  <2> QED
    BY <2>1, <2>2, <2>3, <2>4
<1>6. r.op \in Ops /\ r.t \in Terms /\ (r.op = "Pending" => fe.m \in Polls)
  BY <1>2, <1>5, TermsMade DEF Ops
<1>7. /\ reducer' = reducer /\ fe' \in FeStates /\ parked' \in Polls \cup {"no"}
      /\ fe'.pc \in {"idle", "poll", "commit"}
      /\ fe'.pc # "idle" => fe'.m = fe.m
      /\ fe'.pc = "poll" => fe.m \in Polls
      /\ fe'.pc = "commit" => fe'.t.kind = "Connection"
      /\ fe'.t \in {w, NoTerm}
      /\ fe'.poll = Pending
      /\ errs' = errs \/ (w # ProvisionalAbort /\ w.kind # "Connection" /\ errs' = errs \cup {w})
  <2>1. PICK op : op = r.op
    OBVIOUS
  <2>2. PICK u : u = r.t
    OBVIOUS
  <2>3. /\ reducer' = reducer /\ fe' \in FeStates /\ parked' \in Polls \cup {"no"}
        /\ fe'.pc \in {"idle", "poll", "publish", "commit", "SubmitSend", "SubmitGraceful", "SubmitReset"}
        /\ fe'.pc # "idle" => fe'.m = fe.m
        /\ fe'.pc = "poll" => op = "Repoll"
        /\ fe'.pc = "SubmitSend" <=> op = "SubmitSend"
        /\ fe'.pc = "SubmitGraceful" <=> op = "SubmitGraceful"
        /\ fe'.pc = "SubmitReset" <=> op = "SubmitReset"
        /\ fe'.pc = "publish" <=> op = "PublishTerminal"
        /\ fe'.pc = "commit" => u.kind = "Connection"
        /\ fe'.t = IF fe'.pc \in {"publish", "commit"} THEN u ELSE NoTerm
        /\ fe'.poll = Pending
        /\ errs' = errs \/ (op = "ReturnError" /\ u.kind # "Connection" /\ errs' = errs \cup {u})
    BY <1>4, <1>5, <1>6, <1>b, <2>1, <2>2, ContinueFe
  <2> QED
    BY <1>5, <2>1, <2>2, <2>3
<1>8. ~Feeding' /\ ~InHand' /\ Known' = Known
  BY <1>7, <1>c DEF Feeding, InHand, Known
<1>9. Definitive(send_terminal) => Definitive(send_terminal')
  BY <1>2
<1>10. Seen => Seen'
  BY <1>7, <1>8, <1>9, <1>b DEF Seen
<1>11. Held => Held'
  BY <1>7, <1>8, <1>10, <1>b DEF Held
<1>12. Marked' => Marked
  BY <1>2, <1>7, <1>b DEF Marked
<1>13. FinishAhead => FinishAhead' \/ Dead'
  BY <1>2, <1>b, <1>c DEF FinishAhead, Dead
<1>14. fe.poll # FinishComplete(TRUE) /\ fe'.poll # FinishComplete(TRUE)
  BY <1>7, <1>a, <1>b DEF Calls, Pending, FinishComplete
<1>15. Flight' /\ Todo' /\ Ending' /\ Finish' /\ Boxed'
  <2>1. Asked => Asked'
    BY <1>7, <1>b DEF Asked
  <2> QED
    BY <1>7, <1>8, <1>9, <1>11, <1>12, <1>13, <1>14, <1>c, <2>1, RestKept DEF Softly
<1>16. Shapes'
  <2>1. errs' \subseteq Terms
    BY <1>2, <1>7, <1>a DEF Shapes
  <2> QED
    BY <1>2, <1>7, <1>a, <1>c, <2>1 DEF Shapes
<1>17. Calls'
  BY <1>7, <1>8, <1>a, <1>b DEF Calls
<1>18. CauseKnown'
  BY <1>2, <1>7, <1>8, <1>a, <1>c, TermsMade DEF CauseKnown
<1>19. Provisional'
  BY <1>7, <1>12, <1>a, <1>c DEF Provisional
<1>20. Sticky'
  <2>1. w # ProvisionalAbort => Definitive(w)
    BY <1>2, TermFacts
  <2> QED
    BY <1>2, <1>7, <1>a, <2>1 DEF Sticky
<1> QED
  BY <1>15, <1>16, <1>17, <1>18, <1>19, <1>20 DEF IInv

\* The idle call.
LEMMA IdleFacts ==
    /\ Idle \in FeStates /\ Idle.pc = "idle" /\ Idle.t = NoTerm /\ Idle.poll = Pending
    /\ Pending # FinishComplete(TRUE) /\ Pending.poll = "Pending"
    /\ Pending \notin {Closed, TerminalWake}
<1>1. Pending \in Readings /\ NoTerm \in Terms
  BY TermsMade DEF Readings
<1> QED
  BY <1>1 DEF Idle, FeStates, Payloads, Pending, FinishComplete, Closed, TerminalWake

\* commit_send_winner.
LEMMA CommitSendWinnerKeeps ==
    ASSUME IInv, CommitSendWinner PROVE IInv'
<1>a. Shapes /\ Calls /\ CauseKnown /\ Provisional /\ Sticky
  BY DEF IInv
<1>b. fe \in FeStates /\ fe.pc = "commit" /\ ~Feeding /\ conn \in ConnSlot /\ Known
  BY <1>a DEF Shapes, CommitSendWinner, Feeding, Calls, CauseKnown
<1>c. /\ UNCHANGED <<reducer, chan, chanOpen, waker, send_terminal, cb, poisoned, fault, boxes, nat, errs>>
      /\ fe' = Idle /\ parked' = "no"
  BY DEF CommitSendWinner, chanVars, cbVars
<1>1. conn' \in ConnSlot /\ conn'.terminal = conn.terminal /\ conn'.observed
  BY <1>b, CommitFacts DEF CommitSendWinner, Known
<1>2. told' \subseteq ConnectionTerminal
  <2>1. conn.terminal \in ConnectionTerminal
    BY <1>b DEF ConnSlot, Known
  <2>2. told' = told \cup {conn.terminal}
    BY <1>b DEF CommitSendWinner, OrElse, Known
  <2> QED
    BY <1>a, <2>1, <2>2 DEF Shapes
<1>3. ~Feeding' /\ ~InHand' /\ Known' = Known
  BY <1>1, <1>c, IdleFacts DEF Feeding, InHand, Known
<1>4. (Held => Held') /\ (Marked' => Marked) /\ (FinishAhead => FinishAhead') /\ (Asked => Asked')
  <2>1. Held => Held'
    BY <1>3, <1>b, <1>c, IdleFacts DEF Held, Seen
  <2>2. Marked' => Marked
    BY <1>c, IdleFacts DEF Marked
  <2>3. FinishAhead => FinishAhead'
    BY <1>b, <1>c DEF FinishAhead
  <2> QED
    BY <1>3, <1>b, <1>c, <2>1, <2>2, <2>3 DEF Asked
<1>5. fe.poll # FinishComplete(TRUE) /\ fe'.poll # FinishComplete(TRUE)
  BY <1>a, <1>b, <1>c, IdleFacts DEF Calls
<1>6. Flight' /\ Todo' /\ Ending' /\ Finish' /\ Boxed'
  BY <1>3, <1>4, <1>5, <1>c, RestKept DEF Softly
<1>7. Shapes'
  BY <1>1, <1>2, <1>a, <1>c, IdleFacts DEF Shapes
<1>8. Calls'
  BY <1>3, <1>a, <1>b, <1>c, IdleFacts DEF Calls
<1>9. CauseKnown'
  BY <1>1, <1>3, <1>a, <1>b, <1>c, IdleFacts, TermsMade DEF CauseKnown
<1>10. Provisional'
  BY <1>4, <1>a, <1>c, IdleFacts DEF Provisional
<1>11. Sticky'
  BY <1>a, <1>c DEF Sticky
<1> QED
  BY <1>6, <1>7, <1>8, <1>9, <1>10, <1>11 DEF IInv

\* The start of a call.
LEMMA BeginKeeps ==
    ASSUME IInv, NEW m, NEW inp, NEW pc, NEW payload \in Payloads, Begin(m, inp, pc, payload),
           \/ pc = "poll" /\ m \in Polls /\ inp \in {"PollReady", "PollFinish"}
              /\ (m = "poll_ready" => ~reducer.finish_started)
           \/ pc = "load" /\ inp = "FinishGuard" /\ m = "poll_ready" /\ reducer.finish_started
           \/ pc = "load" /\ inp = "SendRequested" /\ m = "send_data"
           \/ pc = "load" /\ inp = "Reset" /\ m = "reset"
    PROVE  IInv'
<1>a. Shapes /\ Calls /\ CauseKnown /\ Provisional /\ Sticky
  BY DEF IInv
<1>b. fe \in FeStates /\ fe.pc = "idle" /\ ~Feeding
  BY <1>a DEF Shapes, Begin, Feeding
<1>c. UNCHANGED <<reducer, parked, chan, chanOpen, waker, send_terminal, conn, cb, poisoned, fault, boxes, nat,
                  errs, told>>
  BY DEF Begin, chanVars, slotVars, cbVars
<1>1. /\ fe'.pc = pc /\ fe'.m = m /\ fe'.inp = inp /\ fe'.t = NoTerm /\ fe'.poll = Pending
      /\ fe' \in FeStates /\ pc \in {"poll", "load"}
  BY IdleFacts DEF Begin, FeStates, Inputs, Polls
<1>2. ~InHand' /\ Known' = Known
  BY <1>1, <1>c, IdleFacts DEF InHand, Known
<1>3. Seen' = Seen
  BY <1>1, <1>2, <1>b, <1>c DEF Seen
<1>4. (Held => Held') /\ (Marked' => Marked) /\ (FinishAhead => FinishAhead') /\ (Asked => Asked')
  <2>1. Held => Held'
    BY <1>1, <1>3, <1>b, <1>c DEF Held
  <2>2. Marked' => Marked
    BY <1>1, <1>c DEF Marked
  <2>3. FinishAhead => FinishAhead'
    BY <1>b, <1>c DEF FinishAhead
  <2>4. Asked => Asked'
    BY <1>1, <1>b, <1>c DEF Asked
  <2> QED
    BY <2>1, <2>2, <2>3, <2>4
<1>5. fe.poll # FinishComplete(TRUE) /\ fe'.poll # FinishComplete(TRUE) /\ fe'.poll \notin {Closed, TerminalWake}
  BY <1>1, <1>a, <1>b, IdleFacts DEF Calls
<1>6. Flight' /\ Todo' /\ Ending' /\ Finish' /\ Boxed'
  BY <1>2, <1>4, <1>5, <1>c, RestKept DEF Softly
<1>7. Shapes'
  BY <1>1, <1>a, <1>c DEF Shapes
<1>8. Calls'
  BY <1>1, <1>a, <1>b, <1>c DEF Calls, Feeding
<1>9. CauseKnown'
  BY <1>1, <1>2, <1>a, <1>c, TermsMade DEF CauseKnown
<1>10. Provisional'
  BY <1>1, <1>4, <1>a, <1>c DEF Provisional
<1>11. Sticky'
  BY <1>a, <1>c DEF Sticky
<1> QED
  BY <1>6, <1>7, <1>8, <1>9, <1>10, <1>11 DEF IInv

\* poll_ready, poll_finish, send_data and reset.
LEMMA CallKeeps ==
    ASSUME IInv, Call PROVE IInv'
<1>a. "Empty" \in Payloads
  BY DEF Payloads
<1>1. CASE PollReady
  <2>1. CASE reducer.finish_started
    <3>1. Begin("poll_ready", "FinishGuard", "load", "Empty")
      BY <1>1, <2>1 DEF PollReady
    <3> QED
      BY <1>a, <2>1, <3>1, BeginKeeps
  <2>2. CASE ~reducer.finish_started
    <3>1. Begin("poll_ready", "PollReady", "poll", "Empty")
      BY <1>1, <2>2 DEF PollReady
    <3> QED
      BY <1>a, <2>2, <3>1, BeginKeeps DEF Polls
  <2> QED
    BY <2>1, <2>2
<1>2. CASE PollFinish
  BY <1>2, <1>a, BeginKeeps DEF PollFinish, Polls
<1>3. CASE SendData
  <2>1. PICK payload \in Payloads : Begin("send_data", "SendRequested", "load", payload)
    BY <1>3 DEF SendData
  <2> QED
    BY <2>1, BeginKeeps
<1>4. CASE Reset
  BY <1>4, <1>a, BeginKeeps DEF Reset
<1> QED
  BY <1>1, <1>2, <1>3, <1>4 DEF Call


\* The return of a native call that left the send count alone.
LEMMA SubmittedKeeps ==
    ASSUME IInv, NEW inp, NEW ok \in BOOLEAN, Submitted(inp, ok),
           \/ fe.pc = "SubmitSend" /\ inp = "SendSubmitted" /\ ~ok
           \/ fe.pc = "SubmitGraceful" /\ inp = "GracefulSubmitted"
           \/ fe.pc = "SubmitReset" /\ inp = "ResetSubmitted",
           Softly, nat' \in NatStates, nat'.fin => nat.fin \/ (inp = "GracefulSubmitted" /\ ok),
           UNCHANGED <<reducer, parked, chanVars, slotVars, cbVars, boxes, errs, told>>
    PROVE  IInv'
<1>a. Shapes /\ Calls /\ CauseKnown /\ Provisional /\ Sticky
  BY DEF IInv
<1>b. fe \in FeStates /\ fe.pc \in {"SubmitSend", "SubmitGraceful", "SubmitReset"} /\ ~Feeding
  BY <1>a DEF Shapes, Feeding
<1>c. UNCHANGED <<reducer, parked, chan, chanOpen, waker, send_terminal, conn, cb, poisoned, fault, boxes, errs, told>>
  BY DEF chanVars, slotVars, cbVars
<1>1. /\ fe' \in FeStates /\ fe'.pc = "load" /\ fe'.inp = inp /\ fe'.ok = ok /\ fe'.m = fe.m /\ fe'.t = fe.t
      /\ fe'.poll = fe.poll /\ fe.poll = Pending
  <2>1. fe' = [fe EXCEPT !.pc = "load", !.inp = inp, !.ok = ok] /\ inp \in Inputs
    BY DEF Submitted, Inputs
  <2>2. fe.poll = Pending
    BY <1>a, <1>b DEF Calls
  <2> QED
    BY <1>b, <2>1, <2>2 DEF FeStates
<1>2. Feeding' /\ ~InHand' /\ Known' = Known
  BY <1>1, <1>c, IdleFacts DEF Feeding, InHand, Known
<1>3. Seen' = Seen
  BY <1>1, <1>2, <1>b, <1>c DEF Seen
<1>4. Held => Held'
  BY <1>1, <1>2, <1>3, <1>b, <1>c DEF Held
<1>5. (Marked' => Marked) /\ (FinishAhead => FinishAhead')
  BY <1>1, <1>b, <1>c DEF Marked, FinishAhead
<1>6. (Asked => Asked') /\ (nat'.fin => nat.fin \/ Asked')
  BY <1>1, <1>2, <1>b, <1>c DEF Asked
<1>7. fe.poll # FinishComplete(TRUE) /\ fe'.poll # FinishComplete(TRUE) /\ fe'.poll \notin {Closed, TerminalWake}
  BY <1>1, IdleFacts
<1>8. Flight' /\ Todo' /\ Ending' /\ Finish' /\ Boxed'
  BY <1>2, <1>4, <1>5, <1>6, <1>7, <1>c, RestKept
<1>9. Shapes'
  BY <1>1, <1>a, <1>c DEF Shapes
<1>10. Calls'
  BY <1>1, <1>2, <1>a, <1>b, <1>c DEF Calls
<1>11. CauseKnown'
  BY <1>1, <1>2, <1>a, <1>c DEF CauseKnown
<1>12. Provisional'
  BY <1>1, <1>5, <1>a, <1>c DEF Provisional, Softly
<1>13. Sticky'
  BY <1>a, <1>c DEF Sticky
<1> QED
  BY <1>8, <1>9, <1>10, <1>11, <1>12, <1>13 DEF IInv

\* The abort of the send direction is soft.
LEMMA AbortFacts ==
    ASSUME nat \in NatStates
    PROVE  /\ AbortSend(nat) \in NatStates /\ AbortSend(nat).sends = nat.sends
           /\ AbortSend(nat).graceful = nat.graceful /\ AbortSend(nat).fin = nat.fin
           /\ AbortSend(nat).dir = IF nat.dir = "open" THEN "aborting" ELSE nat.dir
           /\ \A why \in {"up", "local"} \cup Remotes :
                 /\ [AbortSend(nat) EXCEPT !.conn = why] \in NatStates
                 /\ [AbortSend(nat) EXCEPT !.conn = why].sends = nat.sends
                 /\ [AbortSend(nat) EXCEPT !.conn = why].graceful = nat.graceful
                 /\ [AbortSend(nat) EXCEPT !.conn = why].fin = nat.fin
                 /\ [AbortSend(nat) EXCEPT !.conn = why].dir = IF nat.dir = "open" THEN "aborting" ELSE nat.dir
BY DEF AbortSend, NatStates

\* The graceful StreamShutdown.
LEMMA SubmitGracefulKeeps ==
    ASSUME IInv, SubmitGraceful PROVE IInv'
<1>a. nat \in NatStates /\ fe.pc = "SubmitGraceful"
  BY DEF IInv, Shapes, SubmitGraceful
<1>b. UNCHANGED <<reducer, parked, chanVars, slotVars, cbVars, boxes, errs, told>>
  BY DEF SubmitGraceful
<1>1. CASE nat' = [nat EXCEPT !.fin = @ \/ nat.dir = "open"] /\ Submitted("GracefulSubmitted", TRUE)
  <2>1. nat' \in NatStates /\ Softly
    BY <1>1, <1>a DEF NatStates, Softly
  <2> QED
    BY <1>1, <1>a, <1>b, <2>1, SubmittedKeeps
<1>2. CASE UNCHANGED nat /\ Submitted("GracefulSubmitted", FALSE)
  BY <1>2, <1>a, <1>b, SubmittedKeeps DEF Softly
<1> QED
  BY <1>1, <1>2 DEF SubmitGraceful

\* The aborting StreamShutdown.
LEMMA SubmitResetKeeps ==
    ASSUME IInv, SubmitReset PROVE IInv'
<1>a. nat \in NatStates /\ fe.pc = "SubmitReset"
  BY DEF IInv, Shapes, SubmitReset
<1>b. UNCHANGED <<reducer, parked, chanVars, slotVars, cbVars, boxes, errs, told>>
  BY DEF SubmitReset
<1>1. CASE nat' = AbortSend(nat) /\ Submitted("ResetSubmitted", TRUE)
  <2>1. nat' \in NatStates /\ Softly /\ nat'.fin = nat.fin
    BY <1>1, <1>a, AbortFacts DEF Softly
  <2> QED
    BY <1>1, <1>a, <1>b, <2>1, SubmittedKeeps
<1>2. CASE UNCHANGED nat /\ Submitted("ResetSubmitted", FALSE)
  BY <1>2, <1>a, <1>b, SubmittedKeeps DEF Softly
<1> QED
  BY <1>1, <1>2 DEF SubmitReset

\* submit_owned_send.
LEMMA SubmitSendKeeps ==
    ASSUME IInv, SubmitSend PROVE IInv'
<1>a. Shapes /\ Calls /\ CauseKnown /\ Flight /\ Provisional /\ Todo /\ Ending /\ Finish /\ Sticky /\ Boxed
  BY DEF IInv
<1>b. nat \in NatStates /\ fe.pc = "SubmitSend" /\ fe \in FeStates /\ ~Feeding
  BY <1>a DEF Shapes, SubmitSend, Feeding
<1>c. UNCHANGED <<reducer, parked, chan, chanOpen, waker, send_terminal, conn, cb, poisoned, fault, errs, told>>
  BY DEF SubmitSend, chanVars, slotVars, cbVars
<1>1. CASE UNCHANGED <<nat, boxes>> /\ Submitted("SendSubmitted", FALSE)
  BY <1>1, <1>b, SubmittedKeeps DEF Softly, SubmitSend
<1>2. CASE /\ nat.dir \in {"open", "aborting"} /\ nat' = [nat EXCEPT !.accepted = @ + 1, !.sends = @ + 1]
           /\ boxes' = boxes + 1 /\ Submitted("SendSubmitted", TRUE)
  <2>1. /\ fe' \in FeStates /\ fe'.pc = "load" /\ fe'.inp = "SendSubmitted" /\ fe'.ok = TRUE /\ fe'.m = fe.m
        /\ fe'.t = fe.t /\ fe'.poll = fe.poll /\ fe.poll = Pending
    <3>1. fe' = [fe EXCEPT !.pc = "load", !.inp = "SendSubmitted", !.ok = TRUE]
      BY <1>2 DEF Submitted
    <3>2. fe.poll = Pending
      BY <1>a, <1>b DEF Calls
    <3> QED
      BY <1>b, <3>1, <3>2 DEF FeStates, Inputs
  <2>2. ~Held /\ ~Outside /\ nat.sends = 0 /\ ~InChan
    BY <1>a, <1>b DEF Held, Flight, Outside
  <2>3. /\ nat' \in NatStates /\ nat'.sends = 1 /\ nat'.dir = nat.dir /\ nat'.graceful = nat.graceful
        /\ nat'.fin = nat.fin
    <3>1. nat.accepted \in Nat /\ nat.accepted + 1 \in Nat /\ nat.sends + 1 = 1
      BY <1>b, <2>2 DEF NatStates
    <3>2. PICK a \in Nat : a = nat.accepted + 1
      BY <3>1
    <3>3. nat' = [nat EXCEPT !.accepted = a, !.sends = 1]
      BY <1>2, <3>1, <3>2
    <3>4. 1 \in Nat
      OBVIOUS
    <3> QED
      BY <1>b, <3>2, <3>3, <3>4 DEF NatStates
  <2>4. Feeding' /\ ~InHand' /\ ~InChan' /\ Known' = Known /\ Dead' = Dead
    BY <1>c, <2>1, <2>2, IdleFacts DEF Feeding, InHand, InChan, Known, Dead
  <2>5. Held'
    <3>1. ~reducer.finish_submitting /\ ~reducer.finish_started
      BY <1>a, <1>b DEF Calls, Feeding
    <3> QED
      BY <1>c, <2>1, <2>4, <3>1 DEF Held
  <2>6. Flight'
    BY <1>2, <1>a, <1>c, <2>3, <2>4, <2>5 DEF Flight, InChan
  <2>7. Marked' = Marked /\ Late' = Late /\ (Over => Over') /\ (Asked => Asked')
    <3>1. FinishAhead => FinishAhead'
      BY <1>b, <1>c, <2>1 DEF FinishAhead
    <3> QED
      BY <1>b, <1>c, <2>1, <2>3, <2>4, <3>1 DEF Marked, Late, Over, Asked
  <2>8. Todo'
    BY <1>a, <1>c, <2>2, <2>3, <2>4, <2>7 DEF Todo
  <2>9. Ending'
    BY <1>a, <1>c, <2>1, <2>3, <2>7, IdleFacts DEF Ending
  <2>10. Finish'
    BY <1>a, <1>c, <2>1, <2>3, <2>7, IdleFacts DEF Finish
  <2>11. Boxed'
    BY <1>2, <1>a, <1>c, <2>2, <2>3 DEF Boxed, Shapes
  <2>12. Shapes'
    BY <1>2, <1>a, <1>c, <2>1, <2>3 DEF Shapes
  <2>13. Calls'
    BY <1>a, <1>b, <1>c, <2>1, <2>4 DEF Calls
  <2>14. CauseKnown'
    BY <1>a, <1>c, <2>1, <2>4 DEF CauseKnown
  <2>15. Provisional'
    BY <1>a, <1>c, <2>1, <2>3, <2>7 DEF Provisional
  <2>16. Sticky'
    BY <1>a, <1>c DEF Sticky
  <2> QED
    BY <2>6, <2>8, <2>9, <2>10, <2>11, <2>12, <2>13, <2>14, <2>15, <2>16 DEF IInv
<1> QED
  BY <1>1, <1>2 DEF SubmitSend


\* poll_send_channel.
LEMMA PollSendChannelKeeps ==
    ASSUME IInv, PollSendChannel PROVE IInv'
<1>a. Shapes /\ Calls /\ CauseKnown /\ Flight /\ Provisional /\ Todo /\ Ending /\ Finish /\ Sticky /\ Boxed
  BY DEF IInv
<1>b. fe \in FeStates /\ fe.pc = "poll" /\ ~Feeding /\ fe.m \in Polls /\ chan \in Seq(Events)
      /\ (fe.m = "poll_ready" => ~reducer.finish_started) /\ fe.poll = Pending
  BY <1>a DEF Shapes, PollSendChannel, Feeding, Calls
<1>c. /\ UNCHANGED <<reducer, parked, chanOpen, send_terminal, conn, cb, poisoned, fault, boxes, nat, errs, told>>
      /\ waker' \in {waker, "armed"}
  BY DEF PollSendChannel, slotVars, cbVars
<1>1. PICK p : p = IF chan # <<>> THEN Head(chan) ELSE IF chanOpen THEN Pending ELSE Closed
  OBVIOUS
<1>2. PICK inp : inp = IF fe.m = "poll_ready" THEN "PollReady" ELSE "PollFinish"
  OBVIOUS
<1>d. fe' = [fe EXCEPT !.pc = "load", !.inp = inp, !.poll = p]
  BY <1>1, <1>2 DEF PollSendChannel
<1>3. p \in Readings /\ (chan # <<>> => p \in Events)
  BY <1>1, <1>b DEF Readings
<1>4. /\ fe' \in FeStates /\ fe'.pc = "load" /\ fe'.inp = inp /\ fe'.m = fe.m /\ fe'.t = fe.t /\ fe'.poll = p
      /\ inp \in {"PollReady", "PollFinish"}
  BY <1>2, <1>3, <1>b, <1>d DEF FeStates, Inputs
<1>5. Feeding' /\ Known' = Known /\ Dead' = Dead /\ Seen' = Seen /\ Seen = Dead
  BY <1>4, <1>b, <1>c DEF Feeding, Known, Dead, Seen
<1>6. (Held => Held') /\ Marked' = Marked /\ Asked' = Asked
  BY <1>4, <1>5, <1>b, <1>c DEF Held, Marked, Asked
<1>7. Calls'
  BY <1>2, <1>4, <1>5, <1>a, <1>b, <1>c DEF Calls, Polls
<1>8. CauseKnown'
  BY <1>4, <1>5, <1>a, <1>c DEF CauseKnown
<1>9. Provisional'
  BY <1>4, <1>6, <1>a, <1>c DEF Provisional
<1>10. Sticky' /\ Softly
  BY <1>a, <1>c DEF Sticky, Softly
<1>11. CASE chan = <<>>
  <2>1. chan' = chan /\ p \in {Pending, Closed} /\ (p = Closed => ~chanOpen)
    BY <1>1, <1>11, IdleFacts DEF PollSendChannel
  <2>2. p.poll \notin {"Complete", "FinishComplete", "TerminalWake"} /\ p # FinishComplete(TRUE) /\ p # TerminalWake
    BY <2>1 DEF Pending, Closed, FinishComplete, TerminalWake
  <2>3. ~InHand' /\ (FinishAhead => FinishAhead')
    BY <1>4, <1>b, <2>1, <2>2 DEF InHand, FinishAhead
  <2>4. p = Closed => Seen' \/ reducer.finish_complete
    <3>1. ~FinishAhead
      BY <1>11, <1>b DEF FinishAhead
    <3> QED
      BY <1>5, <1>a, <2>1, <3>1 DEF Ending, Over
  <2>5. fe.poll # FinishComplete(TRUE)
    BY <1>b, IdleFacts
  <2>6. Flight' /\ Todo' /\ Ending' /\ Finish' /\ Boxed'
    BY <1>4, <1>5, <1>6, <1>10, <1>c, <2>1, <2>2, <2>3, <2>4, <2>5, RestKept
  <2>7. Shapes'
    BY <1>4, <1>a, <1>c, <2>1 DEF Shapes
  <2> QED
    BY <1>7, <1>8, <1>9, <1>10, <2>6, <2>7 DEF IInv
<1>12. CASE chan # <<>>
  <2>1. p = Head(chan) /\ p \in Events /\ chan' = Tail(chan) /\ chan' \in Seq(Events)
    BY <1>1, <1>3, <1>12, <1>b DEF PollSendChannel
  <2>2. 1 \in DOMAIN chan /\ p = chan[1]
    BY <1>12, <1>b, <2>1
  <2>3. \A i \in DOMAIN chan' : i + 1 \in DOMAIN chan /\ chan'[i] = chan[i + 1] /\ i + 1 # 1 /\ i \in Int
    BY <1>12, <1>b, <2>1
  <2>4. \A j \in DOMAIN chan : j = 1 \/ \E i \in DOMAIN chan' : chan'[i] = chan[j]
    <3> SUFFICES ASSUME NEW j \in DOMAIN chan, j # 1 PROVE j - 1 \in DOMAIN chan' /\ chan'[j - 1] = chan[j]
      OBVIOUS
    <3> QED
      BY <1>12, <1>b, <2>1
  <2>5. Shapes'
    BY <1>4, <1>a, <1>c, <2>1 DEF Shapes
  <2>6. (InHand' => InChan) /\ (InChan' => InChan) /\ (InChan' => ~InHand')
    <3>1. InHand' => InChan
      BY <1>4, <2>2 DEF InHand, InChan
    <3>2. InChan' => InChan
      BY <2>3 DEF InChan
    <3>3. InChan' => ~InHand'
      BY <1>4, <1>a, <2>2, <2>3 DEF InHand, InChan, Flight
    <3> QED
      BY <3>1, <3>2, <3>3
  <2>7. Outside' => Outside
    BY <1>c, <2>6 DEF Outside
  <2>8. \A c : Cancellation(c) => Cancellation(c)'
    BY <1>6, <1>c DEF Cancellation
  <2>9. Flight'
    <3>1. ASSUME NEW i \in DOMAIN chan', NEW j \in DOMAIN chan', chan'[i].poll = "Complete", chan'[j].poll = "Complete"
          PROVE  i = j
      <4>1. i + 1 = j + 1
        BY <1>a, <2>3, <3>1 DEF Flight
      <4> QED
        BY <2>3, <4>1
    <3>2. ASSUME NEW i \in DOMAIN chan', chan'[i].poll = "Complete" PROVE Cancellation(chan[i].flag)'
      <4>1. PICK f : f = chan[i + 1].flag
        OBVIOUS
      <4>2. Cancellation(f)
        BY <1>a, <2>3, <3>2, <4>1 DEF Flight
      <4>3. f = chan'[i].flag
        BY <2>3, <4>1
      <4> QED
        BY <2>8, <4>2, <4>3
    <3>3. InHand' => Cancellation(fe.poll.flag)'
      <4> SUFFICES ASSUME InHand' PROVE Cancellation(fe.poll.flag)'
        OBVIOUS
      <4>1. Cancellation(p.flag) 
        BY <1>4, <1>a, <2>2 DEF InHand, Flight
      <4>2. fe'.poll.flag = p.flag
        BY <1>4
      <4> QED
        BY <2>8, <4>1, <4>2
    <3>4. nat'.sends # 0 => ~InChan' /\ ~InHand' /\ nat'.dir \in {"open", "aborting"}
      BY <1>a, <1>c, <2>6 DEF Flight
    <3>5. (Outside' => Held') /\ nat'.sends <= 1
      BY <1>6, <1>a, <1>c, <2>7 DEF Flight
    <3> QED
      BY <2>6, <3>1, <3>2, <3>3, <3>4, <3>5 DEF Flight
  <2>10. FinishAhead => FinishAhead'
    <3>1. FinishAhead => \E j \in DOMAIN chan : chan[j].poll = "FinishComplete"
      BY <1>b DEF FinishAhead
    <3> QED
      BY <1>4, <1>5, <2>2, <2>4, <3>1 DEF FinishAhead
  <2>11. Over => Over'
    BY <1>5, <1>c, <2>10 DEF Over
  <2>12. Todo'
    BY <1>5, <1>6, <1>10, <1>a, <1>c, <2>7, <2>8, <2>11, TodoKept
  <2>13. Ending'
    <3>1. \A i \in DOMAIN chan' : chan'[i].poll = "TerminalWake" => Definitive(send_terminal')
      BY <1>a, <1>c, <2>3 DEF Ending
    <3>2. p # Closed
      BY <2>1 DEF Events, Closed, Complete, FinishComplete, TerminalWake
    <3>3. p = TerminalWake => Seen'
      <4>1. p = TerminalWake => p.poll = "TerminalWake"
        BY DEF TerminalWake
      <4> QED
        BY <1>5, <1>a, <2>2, <4>1 DEF Ending, Dead
    <3> QED
      BY <1>4, <1>a, <1>c, <2>11, <3>1, <3>2, <3>3 DEF Ending, Late
  <2>14. Finish'
    <3>1. \A i \in DOMAIN chan' : chan'[i] = FinishComplete(TRUE) => nat'.graceful
      BY <1>a, <1>c, <2>3 DEF Finish
    <3>2. fe'.poll = FinishComplete(TRUE) => nat'.graceful
      BY <1>4, <1>a, <1>c, <2>2 DEF Finish
    <3>3. nat.graceful => fe.m = "poll_finish"
      BY <1>a, <1>b DEF Finish, Asked, Polls
    <3>4. ASSUME nat.graceful, \E j \in DOMAIN chan : chan[j] = FinishComplete(TRUE)
          PROVE  (\E i \in DOMAIN chan' : chan'[i] = FinishComplete(TRUE)) \/ fe'.poll = FinishComplete(TRUE)
      BY <1>4, <2>2, <2>4, <3>4
    <3>5. fe.poll # FinishComplete(TRUE)
      BY <1>b, IdleFacts
    <3> QED
      BY <1>4, <1>6, <1>a, <1>c, <3>1, <3>2, <3>3, <3>4, <3>5 DEF Finish
  <2>15. Boxed'
    BY <1>a, <1>c DEF Boxed
  <2> QED
    BY <1>7, <1>8, <1>9, <1>10, <2>5, <2>9, <2>12, <2>13, <2>14, <2>15 DEF IInv
<1> QED
  BY <1>11, <1>12

\* The steps of the frontends keep the invariant.
LEMMA FrontendKeeps ==
    ASSUME IInv, FrontendStep PROVE IInv'
BY PollSendChannelKeeps, LoadWinnerKeeps, PeekConnKeeps, PublishWinnerKeeps, CommitSendWinnerKeeps,
   SubmitSendKeeps, SubmitGracefulKeeps, SubmitResetKeeps DEF FrontendStep

-----------------------------------------------------------------------------
(* The rest of the connection.                                             *)

\* A step of the connection that takes no cause back.
LEMMA ConnKeeps ==
    ASSUME IInv, ConnUnchanged, conn' \in ConnSlot, Known => Known', conn'.observed => Known',
           told' \subseteq ConnectionTerminal, told' # {} => conn'.observed,
           nat' \in NatStates, Softly, nat'.fin = nat.fin,
           fault' = fault \/ (fault = "none" /\ fault' = "connection" /\ fault' \in Faults)
    PROVE  IInv'
<1>a. Shapes /\ Calls /\ CauseKnown /\ Provisional /\ Sticky
  BY DEF IInv
<1>c. UNCHANGED <<reducer, fe, parked, chan, chanOpen, waker, send_terminal, cb, poisoned, boxes, errs>>
  BY DEF ConnUnchanged, feVars, chanVars
<1>1. Feeding' = Feeding /\ InHand' = InHand /\ Marked' = Marked /\ Asked' = Asked /\ FinishAhead' = FinishAhead
  BY <1>c DEF Feeding, InHand, Marked, Asked, FinishAhead
<1>2. Seen => Seen'
  BY <1>c DEF Seen
<1>3. Held => Held'
  BY <1>1, <1>2, <1>c DEF Held
<1>4. Feeding' /\ fe'.poll \in {Closed, TerminalWake} => Seen' \/ reducer.finish_complete
  BY <1>1, <1>2, <1>c DEF IInv, Ending
<1>5. Flight' /\ Todo' /\ Ending' /\ Finish' /\ Boxed'
  BY <1>1, <1>3, <1>4, <1>c, RestKept
<1>6. Shapes'
  BY <1>a, <1>c DEF Shapes
<1>7. Calls'
  BY <1>1, <1>a, <1>c DEF Calls
<1>8. CauseKnown'
  BY <1>a, <1>c DEF CauseKnown
<1>9. Provisional'
  BY <1>1, <1>a, <1>c DEF Provisional, Softly
<1>10. Sticky'
  BY <1>a, <1>c DEF Sticky
<1> QED
  BY <1>5, <1>6, <1>7, <1>8, <1>9, <1>10 DEF IInv

\* The connection's callback, its opener and its other frontends keep the invariant.
LEMMA ConnStepKeeps ==
    ASSUME IInv, ConnStep PROVE IInv'
<1>a. nat \in NatStates /\ conn \in ConnSlot /\ told \subseteq ConnectionTerminal /\ CauseKnown
  BY DEF IInv, Shapes
<1>b. ASSUME NEW c \in ConnectionTerminal, conn' = RecordConnTerminal(conn, c), told' = told
      PROVE  /\ conn' \in ConnSlot /\ Known' /\ told' \subseteq ConnectionTerminal
             /\ told' # {} => conn'.observed
  BY <1>a, <1>b, RecordFacts DEF Known, CauseKnown
<1>c. {"PeerApplication", "Timeout", "Transport", "LocalClose", "Internal"} \subseteq ConnectionTerminal
  BY DEF ConnectionTerminal, SpecificCause
<1>1. ASSUME NEW why \in Remotes, ShutdownInitiated(why) PROVE IInv'
  <2>1. PICK c : c = IF why = "peer" THEN "PeerApplication" ELSE ClassifyTransport(Status(why))
    OBVIOUS
  <2>2. c \in ConnectionTerminal
    BY <1>c, <2>1 DEF ClassifyTransport
  <2>3. conn' = RecordConnTerminal(conn, c) /\ told' = told /\ fault' = fault /\ ConnUnchanged
    BY <1>1, <2>1 DEF ShutdownInitiated
  <2>4. nat' \in NatStates /\ Softly /\ nat'.fin = nat.fin
    BY <1>1, <1>a, AbortFacts DEF ShutdownInitiated, Softly
  <2> QED
    BY <1>b, <2>2, <2>3, <2>4, ConnKeeps
<1>2. CASE OpenerClose
  BY <1>2, <1>a, <1>b, <1>c, ConnKeeps DEF OpenerClose, Softly
<1>3. CASE LocalShutdown
  <2>1. nat' \in NatStates /\ Softly /\ nat'.fin = nat.fin
    BY <1>3, <1>a, AbortFacts DEF LocalShutdown, Softly
  <2>2. UNCHANGED <<conn, told, fault>> /\ ConnUnchanged
    BY <1>3 DEF LocalShutdown
  <2>3. Known' = Known
    BY <2>2 DEF Known
  <2> QED
    BY <1>a, <2>1, <2>2, <2>3, ConnKeeps DEF CauseKnown
<1>4. CASE ConnInternal
  BY <1>4, <1>a, <1>b, <1>c, ConnKeeps DEF ConnInternal, Faulty, Softly
<1>5. CASE ConnShutdownComplete
  <2>1. nat' \in NatStates /\ Softly /\ nat'.fin = nat.fin
    BY <1>5, <1>a DEF ConnShutdownComplete, Softly, NatStates
  <2> QED
    BY <1>5, <1>b, <1>c, <2>1, ConnKeeps DEF ConnShutdownComplete
<1>6. CASE OtherFrontend
  <2>1. conn' \in ConnSlot /\ conn'.terminal = conn.terminal /\ conn'.observed /\ Known
    BY <1>6, <1>a, CommitFacts DEF OtherFrontend, Known
  <2>2. Known' /\ told' \subseteq ConnectionTerminal
    BY <1>6, <1>a, <2>1 DEF OtherFrontend, Known, ConnSlot
  <2>3. UNCHANGED <<nat, fault>> /\ ConnUnchanged
    BY <1>6 DEF OtherFrontend
  <2> QED
    BY <1>a, <2>1, <2>2, <2>3, ConnKeeps DEF Softly
<1> QED
  BY <1>1, <1>2, <1>3, <1>4, <1>5, <1>6 DEF ConnStep


-----------------------------------------------------------------------------
(* msquic's indications.                                                   *)

\* What an indication leaves as it was.
LEMMA NativeSame ==
    ASSUME IInv, NativeUnchanged, nat' \in NatStates, fault' \in Faults \cup {"none"},
           nat.dir # "open" => nat'.dir # "open"
    PROVE  /\ Shapes' /\ Calls' /\ CauseKnown' /\ Provisional' /\ Sticky'
           /\ InHand' = InHand /\ InChan' = InChan /\ Held' = Held /\ Marked' = Marked /\ Asked' = Asked
           /\ Over' = Over /\ Feeding' = Feeding /\ Seen' = Seen
           /\ \A c : Cancellation(c) => Cancellation(c)'
<1>a. Shapes /\ Calls /\ CauseKnown /\ Provisional /\ Sticky
  BY DEF IInv
<1>c. UNCHANGED <<reducer, fe, parked, chan, chanOpen, waker, send_terminal, conn, poisoned, boxes, errs, told>>
  BY DEF NativeUnchanged, feVars, chanVars, slotVars
<1>1. Feeding' = Feeding /\ Known' = Known /\ Dead' = Dead /\ Seen' = Seen /\ Marked' = Marked
  BY <1>c DEF Feeding, Known, Dead, Seen, Marked
<1>2. InHand' = InHand /\ InChan' = InChan /\ Asked' = Asked /\ FinishAhead' = FinishAhead
  BY <1>1, <1>c DEF InHand, InChan, Asked, FinishAhead
<1>3. Held' = Held /\ Over' = Over
  BY <1>1, <1>2, <1>c DEF Held, Over
<1>4. \A c : Cancellation(c) => Cancellation(c)'
  BY <1>1 DEF Cancellation
<1>5. Shapes'
  BY <1>a, <1>c DEF Shapes
<1>6. Calls'
  BY <1>1, <1>a, <1>c DEF Calls
<1>7. CauseKnown'
  BY <1>1, <1>a, <1>c DEF CauseKnown
<1>8. Provisional' /\ Sticky'
  BY <1>1, <1>a, <1>c DEF Provisional, Sticky
<1> QED
  BY <1>1, <1>2, <1>3, <1>4, <1>5, <1>6, <1>7, <1>8

\* With no callback running and no event lost, an indication keeps the ledger of sends.
LEMMA FlightIndicated ==
    ASSUME IInv, NativeUnchanged, nat' \in NatStates, fault' \in Faults \cup {"none"},
           nat.dir # "open" => nat'.dir # "open",
           nat'.sends \in {0, nat.sends}, nat'.sends # 0 => nat'.dir \in {"open", "aborting"}
    PROVE  Flight'
<1>a. Flight
  BY DEF IInv
<1>b. UNCHANGED <<fe, chan>>
  BY DEF NativeUnchanged, feVars, chanVars
<1>1. /\ InHand' = InHand /\ InChan' = InChan /\ Held' = Held
      /\ \A c : Cancellation(c) => Cancellation(c)'
  BY NativeSame
<1>2. Outside' => Outside
  BY <1>1 DEF Outside
<1>3. \A i \in DOMAIN chan : chan[i].poll = "Complete" => Cancellation(chan[i].flag)'
  BY <1>1, <1>a, <1>b DEF Flight
<1>4. InHand' => Cancellation(fe.poll.flag)'
  BY <1>1, <1>a, <1>b DEF Flight
<1>5. nat'.sends <= 1 /\ (nat'.sends # 0 => ~InChan' /\ ~InHand')
  BY <1>1, <1>a DEF Flight
<1> QED
  BY <1>1, <1>2, <1>3, <1>4, <1>5, <1>a, <1>b DEF Flight

\* The first effect of each list, and the rest.
LEMMA CallbackLists ==
    /\ \A c : /\ OnSendComplete(c) # <<>> /\ Head(OnSendComplete(c)) = Effect("reclaim", NoTerm)
              /\ Tail(OnSendComplete(c)) = Landing(c)
    /\ \A c : Landing(c) # <<>> /\ Head(Landing(c)) = Effect("enqueue", Complete(c)) /\ Tail(Landing(c)) = <<>>
    /\ OnSendCompleteNull # <<>> /\ Tail(OnSendCompleteNull) = WakeOnly
    /\ Head(OnSendCompleteNull) = Effect("publish", Internal("SendComplete missing client context"))
    /\ OnPeerReceiveAborted # <<>> /\ Tail(OnPeerReceiveAborted) = WakeOnly
    /\ Head(OnPeerReceiveAborted) = Effect("publish", Stopped)
    /\ WakeOnly # <<>> /\ Head(WakeOnly) = Effect("enqueue", TerminalWake) /\ Tail(WakeOnly) = <<>>
    /\ \A g : /\ OnSendShutdownComplete(g) # <<>> /\ Tail(OnSendShutdownComplete(g)) = <<>>
              /\ Head(OnSendShutdownComplete(g)) = Effect("enqueue", FinishComplete(g))
    /\ \A c : /\ RecordTell(c) # <<>> /\ Head(RecordTell(c)) = Effect("record", Connection(c))
              /\ Tail(RecordTell(c)) = Tell(c)
    /\ \A c : /\ Tell(c) # <<>> /\ Head(Tell(c)) = Effect("publish", Connection(c)) /\ Tail(Tell(c)) = CloseOnly
    /\ CloseOnly # <<>> /\ Head(CloseOnly) = Effect("close", NoTerm) /\ Tail(CloseOnly) = <<>>
    /\ StreamRecover # <<>> /\ Tail(StreamRecover) = WakeClose
    /\ Head(StreamRecover) = Effect("publish", Internal("stream callback panicked"))
    /\ WakeClose # <<>> /\ Head(WakeClose) = Effect("enqueue", TerminalWake) /\ Tail(WakeClose) = CloseOnly
<1>1. ASSUME NEW a PROVE <<a>> # <<>> /\ Head(<<a>>) = a /\ Tail(<<a>>) = <<>>
  OBVIOUS
<1>2. ASSUME NEW a, NEW b PROVE <<a, b>> # <<>> /\ Head(<<a, b>>) = a /\ Tail(<<a, b>>) = <<b>>
  OBVIOUS
<1>3. ASSUME NEW a, NEW b, NEW c PROVE <<a, b, c>> # <<>> /\ Head(<<a, b, c>>) = a /\ Tail(<<a, b, c>>) = <<b, c>>
  OBVIOUS
<1>4. \A c : /\ OnSendComplete(c) # <<>> /\ Head(OnSendComplete(c)) = Effect("reclaim", NoTerm)
             /\ Tail(OnSendComplete(c)) = Landing(c)
  BY <1>2, Zenon DEF OnSendComplete, Landing
<1>5. \A c : Landing(c) # <<>> /\ Head(Landing(c)) = Effect("enqueue", Complete(c)) /\ Tail(Landing(c)) = <<>>
  BY <1>1, Zenon DEF Landing
<1>6. OnSendCompleteNull # <<>> /\ Tail(OnSendCompleteNull) = WakeOnly
      /\ Head(OnSendCompleteNull) = Effect("publish", Internal("SendComplete missing client context"))
  BY <1>2, Zenon DEF OnSendCompleteNull, WakeOnly
<1>7. OnPeerReceiveAborted # <<>> /\ Tail(OnPeerReceiveAborted) = WakeOnly
      /\ Head(OnPeerReceiveAborted) = Effect("publish", Stopped)
  BY <1>2, Zenon DEF OnPeerReceiveAborted, WakeOnly
<1>8. WakeOnly # <<>> /\ Head(WakeOnly) = Effect("enqueue", TerminalWake) /\ Tail(WakeOnly) = <<>>
  BY <1>1, Zenon DEF WakeOnly
<1>9. \A g : /\ OnSendShutdownComplete(g) # <<>> /\ Tail(OnSendShutdownComplete(g)) = <<>>
             /\ Head(OnSendShutdownComplete(g)) = Effect("enqueue", FinishComplete(g))
  BY <1>1, Zenon DEF OnSendShutdownComplete
<1>10. \A c : /\ RecordTell(c) # <<>> /\ Head(RecordTell(c)) = Effect("record", Connection(c))
              /\ Tail(RecordTell(c)) = Tell(c)
  BY <1>3, Zenon DEF RecordTell, Tell
<1>11. \A c : /\ Tell(c) # <<>> /\ Head(Tell(c)) = Effect("publish", Connection(c)) /\ Tail(Tell(c)) = CloseOnly
  BY <1>2, Zenon DEF Tell, CloseOnly
<1>12. CloseOnly # <<>> /\ Head(CloseOnly) = Effect("close", NoTerm) /\ Tail(CloseOnly) = <<>>
  BY <1>1, Zenon DEF CloseOnly
<1>13. StreamRecover # <<>> /\ Tail(StreamRecover) = WakeClose
       /\ Head(StreamRecover) = Effect("publish", Internal("stream callback panicked"))
  BY <1>3, Zenon DEF StreamRecover, WakeClose
<1>14. WakeClose # <<>> /\ Head(WakeClose) = Effect("enqueue", TerminalWake) /\ Tail(WakeClose) = CloseOnly
  BY <1>2, Zenon DEF WakeClose, CloseOnly
<1> QED
  BY <1>4, <1>5, <1>6, <1>7, <1>8, <1>9, <1>10, <1>11, <1>12, <1>13, <1>14, Zenon

\* Only the list of a SendComplete starts with the reclaim of a box.
LEMMA CallbackOps ==
    /\ \A op, x : Effect(op, x).op = op /\ Effect(op, x).x = x
    /\ \A c : Head(OnSendComplete(c)).op = "reclaim"
    /\ \A c : Head(Landing(c)).op # "reclaim" /\ Head(OnSendShutdownComplete(c)).op # "reclaim"
    /\ \A c : Head(RecordTell(c)).op # "reclaim" /\ Head(Tell(c)).op # "reclaim"
    /\ Head(OnSendCompleteNull).op # "reclaim" /\ Head(OnPeerReceiveAborted).op # "reclaim"
    /\ Head(WakeOnly).op # "reclaim" /\ Head(CloseOnly).op # "reclaim"
    /\ Head(StreamRecover).op # "reclaim" /\ Head(WakeClose).op # "reclaim"
<1>1. \A op, x : Effect(op, x).op = op /\ Effect(op, x).x = x
  BY DEF Effect
<1>2. "enqueue" # "reclaim" /\ "publish" # "reclaim" /\ "record" # "reclaim" /\ "close" # "reclaim"
  OBVIOUS
<1>3. \A c : Head(OnSendComplete(c)).op = "reclaim"
  BY <1>1, CallbackLists, Zenon
<1>4. \A c : Head(Landing(c)).op # "reclaim" /\ Head(OnSendShutdownComplete(c)).op # "reclaim"
  <2> SUFFICES ASSUME NEW c PROVE Head(Landing(c)).op # "reclaim" /\ Head(OnSendShutdownComplete(c)).op # "reclaim"
    OBVIOUS
  <2>1. Head(Landing(c)) = Effect("enqueue", Complete(c))
    BY CallbackLists, Zenon
  <2>2. Head(OnSendShutdownComplete(c)) = Effect("enqueue", FinishComplete(c))
    BY CallbackLists, Zenon
  <2> QED
    BY <1>1, <1>2, <2>1, <2>2, Zenon
<1>5. \A c : Head(RecordTell(c)).op # "reclaim" /\ Head(Tell(c)).op # "reclaim"
  <2> SUFFICES ASSUME NEW c PROVE Head(RecordTell(c)).op # "reclaim" /\ Head(Tell(c)).op # "reclaim"
    OBVIOUS
  <2>1. Head(RecordTell(c)) = Effect("record", Connection(c))
    BY CallbackLists, Zenon
  <2>2. Head(Tell(c)) = Effect("publish", Connection(c))
    BY CallbackLists, Zenon
  <2> QED
    BY <1>1, <1>2, <2>1, <2>2, Zenon
<1>6. Head(OnSendCompleteNull).op # "reclaim" /\ Head(OnPeerReceiveAborted).op # "reclaim"
  BY <1>1, <1>2, CallbackLists, Zenon
<1>7. Head(WakeOnly).op # "reclaim" /\ Head(CloseOnly).op # "reclaim"
  BY <1>1, <1>2, CallbackLists, Zenon
<1>8. Head(StreamRecover).op # "reclaim" /\ Head(WakeClose).op # "reclaim"
  BY <1>1, <1>2, CallbackLists, Zenon
<1> QED
  BY <1>1, <1>3, <1>4, <1>5, <1>6, <1>7, <1>8, Zenon

\* SendComplete, with its context or without.
LEMMA SendCompletesKeeps ==
    ASSUME IInv, SendCompletes \/ SendCompletesNull PROVE IInv'
<1>a. Shapes /\ Flight /\ Provisional /\ Ending /\ Finish /\ Boxed /\ nat \in NatStates
  BY DEF IInv, Shapes
<1>b. NativeUnchanged /\ cb = <<>> /\ nat.sends > 0 /\ nat' = [nat EXCEPT !.sends = @ - 1]
  BY DEF SendCompletes, SendCompletesNull, Indicate
<1>c. UNCHANGED <<reducer, fe, chan, chanOpen, send_terminal, poisoned, boxes>>
  BY <1>b DEF NativeUnchanged, feVars, chanVars, slotVars
<1>d. fault' \in Faults \cup {"none"} /\ (fault' = fault \/ (fault = "none" /\ fault' = "null"))
  BY <1>a DEF SendCompletes, SendCompletesNull, Shapes, Faulty
<1>1. nat.sends = 1 /\ nat.dir \in {"open", "aborting"} /\ Outside
  BY <1>a, <1>b DEF Flight, Outside, NatStates
<1>2. nat' \in NatStates /\ nat'.sends = 0 /\ nat'.dir = nat.dir /\ nat'.graceful = nat.graceful /\ nat'.fin = nat.fin
  <2>1. nat' = [nat EXCEPT !.sends = 0]
    BY <1>1, <1>b
  <2> QED
    BY <1>a, <2>1 DEF NatStates
<1>3. /\ Shapes' /\ Calls' /\ CauseKnown' /\ Provisional' /\ Sticky'
      /\ InHand' = InHand /\ InChan' = InChan /\ Held' = Held /\ Marked' = Marked /\ Asked' = Asked
      /\ Over' = Over /\ Feeding' = Feeding /\ Seen' = Seen
      /\ \A c : Cancellation(c) => Cancellation(c)'
  BY <1>2, <1>b, <1>d, NativeSame
<1>4. Flight'
  BY <1>2, <1>b, <1>d, FlightIndicated
<1>5. ~Outside' /\ Held'
  BY <1>1, <1>2, <1>3, <1>a DEF Outside, Flight
<1>6. \/ cb' = <<>> /\ poisoned
      \/ ~poisoned /\ cb' = OnSendComplete(nat.dir = "aborting") /\ fault' = fault
      \/ ~poisoned /\ cb' = OnSendCompleteNull /\ fault' = "null"
  BY <1>a DEF SendCompletes, SendCompletesNull, Indicate, Faulty, Shapes
<1>7. Todo'
  <2>1. PICK c \in BOOLEAN : c = (nat.dir = "aborting")
    OBVIOUS
  <2>2. Cancellation(c)
    BY <1>1, <1>a, <2>1 DEF Cancellation, Provisional
  <2>3. cb' = OnSendComplete(c) => Todo'
    BY <1>3, <1>5, <2>2 DEF Todo
  <2>4. cb' = <<>> \/ cb' = OnSendCompleteNull => Todo'
    BY DEF Todo
  <2> QED
    BY <1>6, <2>1, <2>3, <2>4
<1>8. Ending'
  BY <1>1, <1>2, <1>3, <1>a, <1>c DEF Ending, Late
<1>9. Finish'
  BY <1>1, <1>2, <1>3, <1>a, <1>c DEF Finish
<1>10. Boxed'
  <2>1. poisoned' => fault' = "panic"
    BY <1>6, <1>a, <1>c, <1>d DEF Boxed
  <2>2. CASE cb' = OnSendComplete(nat.dir = "aborting") /\ fault' = fault
    <3>1. cb' # <<>> /\ Head(cb').op = "reclaim"
      BY <2>2, CallbackLists, CallbackOps, Zenon
    <3>2. fault \notin {"panic", "null"} => boxes = 1
      BY <1>1, <1>a, <1>b DEF Boxed
    <3> QED
      BY <1>2, <1>c, <2>1, <2>2, <3>1, <3>2 DEF Boxed
  <2>3. CASE fault' \in {"panic", "null"}
    BY <2>1, <2>3 DEF Boxed
  <2> QED
    BY <1>6, <1>c, <2>1, <2>2, <2>3
<1> QED
  BY <1>3, <1>4, <1>7, <1>8, <1>9, <1>10 DEF IInv

\* PeerReceiveAborted.
LEMMA PeerStopsSendingKeeps ==
    ASSUME IInv, PeerStopsSending PROVE IInv'
<1>a. Shapes /\ Flight /\ Ending /\ Finish /\ Boxed /\ nat \in NatStates /\ fault \in Faults \cup {"none"}
  BY DEF IInv, Shapes
<1>b. NativeUnchanged /\ cb = <<>> /\ nat.dir = "open" /\ nat' = AbortSend(nat) /\ fault' = fault
  BY DEF PeerStopsSending, Indicate
<1>c. UNCHANGED <<reducer, fe, chan, chanOpen, send_terminal, poisoned, boxes>>
  BY <1>b DEF NativeUnchanged, feVars, chanVars, slotVars
<1>1. /\ nat' \in NatStates /\ nat'.sends = nat.sends /\ nat'.dir = "aborting" /\ nat'.graceful = nat.graceful
      /\ nat'.fin = nat.fin
  BY <1>a, <1>b, AbortFacts
<1>2. /\ Shapes' /\ Calls' /\ CauseKnown' /\ Provisional' /\ Sticky'
      /\ Asked' = Asked /\ Over' = Over /\ Feeding' = Feeding /\ Seen' = Seen
  BY <1>1, <1>a, <1>b, NativeSame
<1>3. Flight'
  BY <1>1, <1>a, <1>b, FlightIndicated
<1>4. cb' = <<>> \/ cb' = OnPeerReceiveAborted
  BY DEF PeerStopsSending, Indicate
<1>5. Todo'
  BY <1>4 DEF Todo
<1>6. Ending'
  BY <1>1, <1>2, <1>a, <1>b, <1>c DEF Ending, Late
<1>7. Finish'
  BY <1>1, <1>2, <1>a, <1>b, <1>c DEF Finish
<1>8. Boxed'
  <2>1. cb' = <<>> \/ Head(cb').op # "reclaim"
    BY <1>4, CallbackOps
  <2> QED
    BY <1>1, <1>a, <1>b, <1>c, <2>1 DEF Boxed
<1> QED
  BY <1>2, <1>3, <1>5, <1>6, <1>7, <1>8 DEF IInv

\* SendShutdownComplete.
LEMMA SendShutdownCompletesKeeps ==
    ASSUME IInv, SendShutdownCompletes PROVE IInv'
<1>a. Shapes /\ Flight /\ Ending /\ Finish /\ Boxed /\ nat \in NatStates /\ fault \in Faults \cup {"none"}
  BY DEF IInv, Shapes
<1>b. /\ NativeUnchanged /\ cb = <<>> /\ nat.sends = 0 /\ fault' = fault
      /\ nat.dir \in {"open", "aborting"} /\ (nat.dir = "open" => nat.fin)
      /\ nat' = [nat EXCEPT !.dir = "closed", !.graceful = (nat.dir = "open")]
  BY DEF SendShutdownCompletes, Indicate
<1>c. UNCHANGED <<reducer, fe, chan, chanOpen, send_terminal, poisoned, boxes>>
  BY <1>b DEF NativeUnchanged, feVars, chanVars, slotVars
<1>d. PICK g \in BOOLEAN : g = (nat.dir = "open")
  OBVIOUS
<1>1. /\ nat' \in NatStates /\ nat'.sends = 0 /\ nat'.dir = "closed" /\ nat'.graceful = g
      /\ nat'.fin = nat.fin
  <2>1. nat' = [nat EXCEPT !.dir = "closed", !.graceful = g]
    BY <1>b, <1>d
  <2> QED
    BY <1>a, <1>b, <2>1 DEF NatStates
<1>2. /\ Shapes' /\ Calls' /\ CauseKnown' /\ Provisional' /\ Sticky'
      /\ Asked' = Asked /\ Over' = Over /\ Feeding' = Feeding /\ Seen' = Seen
  BY <1>1, <1>a, <1>b, NativeSame
<1>3. Flight'
  BY <1>1, <1>a, <1>b, FlightIndicated
<1>4. IF poisoned THEN cb' = <<>> ELSE cb' = OnSendShutdownComplete(g)
  BY <1>d DEF SendShutdownCompletes, Indicate
<1>5. Todo'
  BY <1>1, <1>4, <1>c DEF Todo
<1>6. Ending'
  BY <1>1, <1>2, <1>4, <1>a, <1>b, <1>c DEF Ending, Late
<1>7. Finish'
  <2>1. ~nat.graceful /\ ~reducer.finish_complete
    BY <1>a, <1>b DEF Finish
  <2>2. nat'.graceful => nat.fin
    BY <1>1, <1>b, <1>d
  <2>3. nat'.graceful /\ ~poisoned => cb' = OnSendShutdownComplete(TRUE)
    BY <1>1, <1>4
  <2> QED
    BY <1>1, <1>2, <1>a, <1>c, <2>1, <2>2, <2>3 DEF Finish
<1>8. Boxed'
  <2>1. cb' = <<>> \/ Head(cb').op # "reclaim"
    BY <1>4, CallbackOps
  <2> QED
    BY <1>1, <1>a, <1>b, <1>c, <2>1 DEF Boxed
<1> QED
  BY <1>2, <1>3, <1>5, <1>6, <1>7, <1>8 DEF IInv

\* The stream's ShutdownComplete.
LEMMA ShutdownCompletesKeeps ==
    ASSUME IInv, ShutdownCompletes PROVE IInv'
<1>a. Shapes /\ Flight /\ Ending /\ Finish /\ Boxed /\ nat \in NatStates /\ fault \in Faults \cup {"none"}
  BY DEF IInv, Shapes
<1>b. NativeUnchanged /\ cb = <<>> /\ fault' = fault /\ nat.dir = "closed" /\ nat' = [nat EXCEPT !.dir = "shut"]
  BY DEF ShutdownCompletes, Indicate
<1>c. UNCHANGED <<reducer, fe, chan, chanOpen, send_terminal, poisoned, boxes>>
  BY <1>b DEF NativeUnchanged, feVars, chanVars, slotVars
<1>1. /\ nat' \in NatStates /\ nat'.sends = nat.sends /\ nat'.dir = "shut" /\ nat'.graceful = nat.graceful
      /\ nat'.fin = nat.fin /\ nat.sends = 0
  BY <1>a, <1>b DEF NatStates, Flight
<1>2. /\ Shapes' /\ Calls' /\ CauseKnown' /\ Provisional' /\ Sticky'
      /\ Asked' = Asked /\ Over' = Over /\ Feeding' = Feeding /\ Seen' = Seen
  BY <1>1, <1>a, <1>b, NativeSame
<1>3. Flight'
  BY <1>1, <1>a, <1>b, FlightIndicated
<1>4. ~poisoned => Over
  BY <1>a, <1>b, CallbackLists DEF Ending
<1>5. \/ cb' = <<>> /\ poisoned
      \/ ~poisoned /\ cb' = CloseOnly
      \/ ~poisoned /\ \E c \in ConnectionTerminal : cb' = RecordTell(c)
  <2>1. PICK c : c = ClassifyConnShutdown(nat.conn \in {"peer", "local"}, nat.conn = "peer", Status(nat.conn))
    OBVIOUS
  <2>2. c \in ConnectionTerminal
    BY <2>1 DEF ClassifyConnShutdown, ClassifyTransport, ConnectionTerminal, SpecificCause
  <2>3. cb' = IF poisoned THEN <<>> ELSE OnShutdownComplete(nat.conn)
    BY DEF ShutdownCompletes, Indicate
  <2>4. OnShutdownComplete(nat.conn) = IF nat.conn = "up" THEN CloseOnly ELSE RecordTell(c)
    BY <2>1, Zenon DEF OnShutdownComplete, CloseOnly, RecordTell
  <2> QED
    BY <1>a, <2>2, <2>3, <2>4 DEF Shapes
<1>6. Todo'
  BY <1>1, <1>2, <1>4, <1>5 DEF Todo, Late
<1>7. Ending'
  BY <1>1, <1>2, <1>4, <1>a, <1>c DEF Ending, Late
<1>8. Finish'
  <2>1. cb # OnSendShutdownComplete(TRUE)
    BY <1>b, CallbackLists
  <2> QED
    BY <1>1, <1>2, <1>a, <1>b, <1>c, <2>1 DEF Finish
<1>9. Boxed'
  <2>1. cb' = <<>> \/ Head(cb').op # "reclaim"
    BY <1>5, CallbackOps
  <2> QED
    BY <1>1, <1>a, <1>b, <1>c, <2>1 DEF Boxed
<1> QED
  BY <1>2, <1>3, <1>6, <1>7, <1>8, <1>9 DEF IInv


\* msquic's indications keep the invariant.
LEMMA NativeKeeps ==
    ASSUME IInv, NativeStep PROVE IInv'
BY SendCompletesKeeps, PeerStopsSendingKeeps, SendShutdownCompletesKeeps, ShutdownCompletesKeeps DEF NativeStep

-----------------------------------------------------------------------------
(* The steps of a callback.                                                *)

\* One effect of a callback.
LEMMA EffectStep ==
    ASSUME CallbackStep, NEW op, NEW x, Head(cb) = Effect(op, x)
    PROVE  /\ cb' = Tail(cb)
           /\ boxes' = IF op = "reclaim" THEN boxes - 1 ELSE boxes
           /\ send_terminal' = IF op = "publish" THEN PublishSend(send_terminal, x) ELSE send_terminal
           /\ conn' = IF op = "record" THEN RecordConnTerminal(conn, x.arg) ELSE conn
           /\ chan' = IF op = "enqueue" /\ chanOpen THEN Append(chan, x) ELSE chan
           /\ chanOpen' = (chanOpen /\ op # "close")
           /\ waker' \in {waker, Wake}
           /\ UNCHANGED <<reducer, fe, parked, poisoned, fault, nat, errs, told>>
<1>1. Head(cb).op = op /\ Head(cb).x = x
  BY DEF Effect
<1> QED
  BY <1>1 DEF CallbackStep, feVars

\* A callback's effect on the slots or on the end of the channel.
LEMMA CallbackSame ==
    ASSUME IInv, UNCHANGED <<reducer, fe, parked, chan, errs, told>>, Softly, nat' \in NatStates, nat'.fin = nat.fin,
           poisoned' \in BOOLEAN, poisoned => poisoned', fault' \in Faults \cup {"none"},
           boxes' \in Int, waker' \in {waker, Wake}, chanOpen' \in BOOLEAN,
           ~chanOpen' => ~chanOpen \/ (Over /\ Late),
           \A g \in BOOLEAN : cb = OnSendShutdownComplete(g) => cb' = cb \/ poisoned',
           conn' \in ConnSlot, Known => Known', conn'.observed = conn.observed,
           \/ send_terminal' = send_terminal
           \/ /\ send_terminal' \in Terms /\ Definitive(send_terminal') /\ ~Definitive(send_terminal)
              /\ send_terminal'.kind = "Connection" => Known'
    PROVE  /\ Shapes' /\ Calls' /\ CauseKnown' /\ Flight' /\ Provisional' /\ Ending' /\ Finish' /\ Sticky'
           /\ Held => Held'
           /\ Outside' => Outside
           /\ Over => Over'
           /\ \A c : Cancellation(c) => Cancellation(c)'
<1>a. Shapes /\ Calls /\ CauseKnown /\ Provisional /\ Ending /\ Sticky
  BY DEF IInv
<1>1. Definitive(send_terminal) => send_terminal' = send_terminal
  OBVIOUS
<1>2. send_terminal' = ProvisionalAbort => send_terminal = ProvisionalAbort
  BY TermsMade
<1>3. Feeding' = Feeding /\ InHand' = InHand /\ (Marked' => Marked) /\ Asked' = Asked
  BY <1>2 DEF Feeding, InHand, Marked, Asked
<1>4. (Seen => Seen') /\ (FinishAhead => FinishAhead')
  BY <1>1, <1>3 DEF Seen, FinishAhead
<1>5. Held => Held'
  BY <1>3, <1>4 DEF Held
<1>6. Feeding' /\ fe'.poll \in {Closed, TerminalWake} => Seen' \/ reducer.finish_complete
  BY <1>3, <1>4, <1>a DEF Ending
<1>7. /\ Flight' /\ Ending' /\ Finish' /\ (Outside' => Outside) /\ (Over => Over')
      /\ \A c : Cancellation(c) => Cancellation(c)'
  BY <1>1, <1>3, <1>4, <1>5, <1>6, CoreKept
<1>8. Shapes'
  <2>1. waker' \in {"none", "armed", "fired"} /\ send_terminal' \in Terms
    BY <1>a DEF Shapes, Wake
  <2> QED
    BY <1>a, <2>1 DEF Shapes
<1>9. Calls'
  BY <1>3, <1>a DEF Calls
<1>10. CauseKnown'
  BY <1>a DEF CauseKnown
<1>11. Provisional'
  BY <1>2, <1>3, <1>a DEF Provisional, Softly
<1>12. Sticky'
  BY <1>1, <1>a DEF Sticky
<1> QED
  BY <1>5, <1>7, <1>8, <1>9, <1>10, <1>11, <1>12

\* A callback's event on the channel.
LEMMA EnqueueKept ==
    ASSUME IInv, UNCHANGED <<reducer, fe, parked, nat, poisoned, fault, errs, told, send_terminal, conn, chanOpen, boxes>>,
           waker' \in {waker, Wake},
           NEW x \in Events, chan' = IF chanOpen THEN Append(chan, x) ELSE chan,
           x.poll = "Complete" => ~Outside /\ Held /\ Cancellation(x.flag),
           x.poll = "TerminalWake" => Definitive(send_terminal),
           x = FinishComplete(TRUE) => nat.graceful,
           \A g \in BOOLEAN : cb = OnSendShutdownComplete(g) => x = FinishComplete(g) /\ chanOpen
    PROVE  /\ Shapes' /\ Calls' /\ CauseKnown' /\ Flight' /\ Provisional' /\ Ending' /\ Finish' /\ Sticky'
           /\ Over => Over'
<1>a. Shapes /\ Calls /\ CauseKnown /\ Flight /\ Provisional /\ Ending /\ Finish /\ Sticky
  BY DEF IInv
<1>b. chan \in Seq(Events) /\ chanOpen \in BOOLEAN
  BY <1>a DEF Shapes
<1>1. chan' \in Seq(Events)
  BY <1>b
<1>2. \A i \in DOMAIN chan : i \in DOMAIN chan' /\ chan'[i] = chan[i]
  BY <1>b
<1>3. \A i \in DOMAIN chan' : (i \in DOMAIN chan /\ chan'[i] = chan[i]) \/ (i = Len(chan) + 1 /\ chan'[i] = x /\ chanOpen)
  BY <1>b
<1>4. chanOpen => Len(chan) + 1 \in DOMAIN chan' /\ chan'[Len(chan) + 1] = x
  BY <1>b
<1>5. Feeding' = Feeding /\ InHand' = InHand /\ Marked' = Marked /\ Asked' = Asked /\ Known' = Known
  BY DEF Feeding, InHand, Marked, Asked, Known
<1>6. Seen' = Seen /\ Dead' = Dead /\ Held' = Held /\ Late' = Late
  <2>1. Seen' = Seen /\ Dead' = Dead /\ Late' = Late
    BY <1>5 DEF Seen, Dead, Late
  <2> QED
    BY <1>5, <2>1 DEF Held
<1>7. \A c : Cancellation(c)' = Cancellation(c)
  BY <1>5 DEF Cancellation
<1>8. InChan' => InChan \/ x.poll = "Complete"
  BY <1>3 DEF InChan
<1>9. FinishAhead => FinishAhead'
  BY <1>2, <1>5 DEF FinishAhead
<1>10. Over => Over'
  BY <1>6, <1>9 DEF Over
<1>11. x.poll = "FinishComplete" /\ chanOpen => Over'
  BY <1>4 DEF Over, FinishAhead
<1>12. Flight'
  <2>1. Outside' => Held'
    BY <1>5, <1>6, <1>8, <1>a DEF Outside, Flight
  <2>2. nat'.sends # 0 => ~InChan' /\ ~InHand' /\ nat'.dir \in {"open", "aborting"}
    BY <1>5, <1>8, <1>a DEF Outside, Flight
  <2>3. InChan' => ~InHand'
    BY <1>5, <1>8, <1>a DEF Outside, Flight
  <2>4. ASSUME NEW i \in DOMAIN chan', NEW j \in DOMAIN chan', chan'[i].poll = "Complete", chan'[j].poll = "Complete"
        PROVE  i = j
    <3>1. x.poll = "Complete" => \A k \in DOMAIN chan : chan[k].poll # "Complete"
      BY DEF Outside, InChan
    <3> QED
      BY <1>3, <1>a, <2>4, <3>1 DEF Flight
  <2>5. ASSUME NEW i \in DOMAIN chan', chan'[i].poll = "Complete" PROVE Cancellation(chan[i].flag)'
    <3>1. PICK f : f = chan'[i].flag
      OBVIOUS
    <3>2. Cancellation(f)
      BY <1>3, <1>a, <2>5, <3>1 DEF Flight
    <3> QED
      BY <1>7, <3>1, <3>2
  <2>6. InHand' => Cancellation(fe.poll.flag)'
    <3>1. InHand' => Cancellation(fe.poll.flag)
      BY <1>5, <1>a DEF Flight
    <3> QED
      BY <1>7, <3>1
  <2>7. nat'.sends <= 1
    BY <1>a DEF Flight
  <2> QED
    BY <2>1, <2>2, <2>3, <2>4, <2>5, <2>6, <2>7 DEF Flight
<1>13. Ending'
  <2>1. nat'.dir \notin {"open", "aborting"} /\ ~poisoned' => Over'
    <3>1. \A g : FinishComplete(g).poll = "FinishComplete"
      BY DEF FinishComplete
    <3> QED
      BY <1>10, <1>11, <1>a, <3>1 DEF Ending
  <2>2. \A i \in DOMAIN chan' : chan'[i].poll = "TerminalWake" => Definitive(send_terminal')
    BY <1>3, <1>a DEF Ending
  <2>3. Feeding' /\ fe'.poll \in {Closed, TerminalWake} => Seen' \/ reducer'.finish_complete
    BY <1>5, <1>6, <1>a DEF Ending
  <2>4. ~chanOpen' => Over' /\ Late'
    BY <1>6, <1>10, <1>a DEF Ending
  <2> QED
    BY <2>1, <2>2, <2>3, <2>4 DEF Ending
<1>14. Finish'
  <2>1. \A i \in DOMAIN chan' : chan'[i] = FinishComplete(TRUE) => nat'.graceful
    BY <1>3, <1>a DEF Finish
  <2>2. cb = OnSendShutdownComplete(TRUE) => \E i \in DOMAIN chan' : chan'[i] = FinishComplete(TRUE)
    BY <1>4
  <2>3. (\E i \in DOMAIN chan : chan[i] = FinishComplete(TRUE)) => \E i \in DOMAIN chan' : chan'[i] = FinishComplete(TRUE)
    BY <1>2
  <2> QED
    BY <1>5, <1>a, <2>1, <2>2, <2>3 DEF Finish
<1>15. Shapes'
  <2>1. waker' \in {"none", "armed", "fired"}
    BY <1>a DEF Shapes, Wake
  <2> QED
    BY <1>1, <1>a, <2>1 DEF Shapes
<1>16. Calls' /\ CauseKnown' /\ Provisional' /\ Sticky'
  <2>1. Calls'
    BY <1>5, <1>a DEF Calls
  <2>2. CauseKnown'
    BY <1>5, <1>a DEF CauseKnown
  <2>3. Provisional' /\ Sticky'
    BY <1>5, <1>a DEF Provisional, Sticky
  <2> QED
    BY <2>1, <2>2, <2>3
<1> QED
  BY <1>10, <1>12, <1>13, <1>14, <1>15, <1>16


\* The list of SendShutdownComplete is told by its effect.
LEMMA FinishEffect ==
    ASSUME NEW op, NEW x, Head(cb) = Effect(op, x), NEW g, cb = OnSendShutdownComplete(g)
    PROVE  op = "enqueue" /\ x = FinishComplete(g)
<1>1. Effect(op, x) = Effect("enqueue", FinishComplete(g))
  BY CallbackLists, Zenon
<1>2. Effect(op, x).op = op /\ Effect(op, x).x = x
  BY CallbackOps, Zenon
<1>3. Effect("enqueue", FinishComplete(g)).op = "enqueue" /\ Effect("enqueue", FinishComplete(g)).x = FinishComplete(g)
  BY CallbackOps, Zenon
<1> QED
  BY <1>1, <1>2, <1>3, Zenon

\* The boxes stay accounted for when neither end of the step is a reclaim.
LEMMA BoxedKept ==
    ASSUME Boxed, UNCHANGED <<poisoned, fault, boxes, nat>>, Head(cb).op # "reclaim",
           cb' = <<>> \/ Head(cb').op # "reclaim"
    PROVE  Boxed'
BY DEF Boxed

\* A callback publishes a final terminal.
LEMMA PublishEffect ==
    ASSUME IInv, CallbackStep, NEW x \in Terms, Definitive(x), x.kind = "Connection" => Known,
           Head(cb) = Effect("publish", x), cb' = <<>> \/ Head(cb').op # "reclaim"
    PROVE  /\ Shapes' /\ Calls' /\ CauseKnown' /\ Flight' /\ Provisional' /\ Ending' /\ Finish' /\ Sticky' /\ Boxed'
           /\ Definitive(send_terminal') /\ Dead' /\ Known' = Known
           /\ UNCHANGED <<poisoned, nat>>
<1>a. Shapes /\ Boxed /\ conn \in ConnSlot /\ send_terminal \in Terms /\ nat \in NatStates /\ chanOpen \in BOOLEAN
      /\ boxes \in Int /\ poisoned \in BOOLEAN /\ fault \in Faults \cup {"none"}
  BY DEF IInv, Shapes
<1>1. /\ UNCHANGED <<boxes, conn, chan, chanOpen, reducer, fe, parked, poisoned, fault, nat, errs, told>>
      /\ send_terminal' = PublishSend(send_terminal, x) /\ waker' \in {waker, Wake}
  <2>1. "publish" \notin {"reclaim", "record", "enqueue", "close"}
    OBVIOUS
  <2> QED
    BY <1>a, <2>1, EffectStep
<1>2. x # NoTerm
  BY TermFacts
<1>3. /\ send_terminal' \in Terms /\ Definitive(send_terminal')
      /\ Definitive(send_terminal) => send_terminal' = send_terminal
      /\ ~Definitive(send_terminal) => send_terminal' = x
  BY <1>1, <1>2, <1>a, PublishFacts
<1>4. \A g \in BOOLEAN : cb # OnSendShutdownComplete(g)
  BY FinishEffect
<1>5. Known' = Known /\ Dead'
  BY <1>1, <1>3 DEF Known, Dead
<1>6. Shapes' /\ Calls' /\ CauseKnown' /\ Flight' /\ Provisional' /\ Ending' /\ Finish' /\ Sticky'
  BY <1>1, <1>3, <1>4, <1>5, <1>a, CallbackSame DEF Softly
<1>7. Head(cb).op # "reclaim"
  BY CallbackOps
<1>8. Boxed'
  BY <1>1, <1>7, <1>a, BoxedKept
<1> QED
  BY <1>1, <1>3, <1>5, <1>6, <1>8

\* A callback sends an event.
LEMMA EnqueueEffect ==
    ASSUME IInv, CallbackStep, NEW x \in Events, Head(cb) = Effect("enqueue", x),
           cb' = <<>> \/ Head(cb').op # "reclaim",
           x.poll = "Complete" => ~Outside /\ Held /\ Cancellation(x.flag),
           x.poll = "TerminalWake" => Definitive(send_terminal),
           x = FinishComplete(TRUE) => nat.graceful, x.poll = "FinishComplete" => chanOpen
    PROVE  /\ Shapes' /\ Calls' /\ CauseKnown' /\ Flight' /\ Provisional' /\ Ending' /\ Finish' /\ Sticky' /\ Boxed'
           /\ Over => Over'
           /\ UNCHANGED <<poisoned, nat>>
<1>a. Boxed /\ chanOpen \in BOOLEAN
  BY DEF IInv, Shapes
<1>1. /\ UNCHANGED <<boxes, conn, send_terminal, chanOpen, reducer, fe, parked, poisoned, fault, nat, errs, told>>
      /\ waker' \in {waker, Wake} /\ chan' = IF chanOpen THEN Append(chan, x) ELSE chan
  <2>1. "enqueue" \notin {"reclaim", "record", "publish", "close"}
    OBVIOUS
  <2> QED
    BY <1>a, <2>1, EffectStep
<1>2. \A g \in BOOLEAN : cb = OnSendShutdownComplete(g) => x = FinishComplete(g) /\ chanOpen
  <2>1. \A g : FinishComplete(g).poll = "FinishComplete"
    BY DEF FinishComplete
  <2> QED
    BY <2>1, FinishEffect
<1>3. /\ Shapes' /\ Calls' /\ CauseKnown' /\ Flight' /\ Provisional' /\ Ending' /\ Finish' /\ Sticky'
      /\ Over => Over'
  BY <1>1, <1>2, EnqueueKept
<1>4. Head(cb).op # "reclaim"
  BY CallbackOps
<1>5. Boxed'
  BY <1>1, <1>4, <1>a, BoxedKept
<1> QED
  BY <1>1, <1>3, <1>5

\* Every step of a callback keeps the invariant.
LEMMA CallbackStepKeeps ==
    ASSUME IInv, CallbackStep PROVE IInv'
<1>a. Shapes /\ Todo /\ Boxed /\ Ending /\ cb # <<>>
  BY DEF IInv, CallbackStep
<1>b. conn \in ConnSlot /\ nat \in NatStates /\ chanOpen \in BOOLEAN /\ boxes \in Int /\ poisoned \in BOOLEAN
      /\ fault \in Faults \cup {"none"} /\ CauseKnown
  BY <1>a DEF Shapes, IInv
<1>c. cb' = Tail(cb)
  BY DEF CallbackStep
<1>d. TerminalWake \in Events /\ TerminalWake.poll = "TerminalWake" /\ TerminalWake # FinishComplete(TRUE)
  BY DEF Events, TerminalWake, FinishComplete
<1>1. ASSUME NEW c \in BOOLEAN, cb = OnSendComplete(c), ~Outside, Held, Cancellation(c) PROVE IInv'
  <2>1. Head(cb) = Effect("reclaim", NoTerm) /\ cb' = Landing(c)
    BY <1>1, <1>c, CallbackLists, Zenon
  <2>2. /\ UNCHANGED <<conn, send_terminal, chan, chanOpen, reducer, fe, parked, poisoned, fault, nat, errs, told>>
        /\ waker' \in {waker, Wake} /\ boxes' = boxes - 1
    <3>1. "reclaim" \notin {"enqueue", "record", "publish", "close"}
      OBVIOUS
    <3> QED
      BY <1>b, <2>1, <3>1, EffectStep
  <2>3. \A g \in BOOLEAN : cb # OnSendShutdownComplete(g)
    BY <2>1, FinishEffect
  <2>4. /\ Shapes' /\ Calls' /\ CauseKnown' /\ Flight' /\ Provisional' /\ Ending' /\ Finish' /\ Sticky'
        /\ Held' /\ ~Outside' /\ Cancellation(c)'
    <3>1. Known' = Known
      BY <2>2 DEF Known
    <3> QED
      BY <1>1, <1>b, <2>2, <2>3, <3>1, CallbackSame DEF Softly
  <2>5. Todo'
    BY <2>1, <2>4 DEF Todo
  <2>6. Boxed'
    <3>1. Head(cb).op = "reclaim"
      BY <2>1, CallbackOps
    <3>2. Head(cb').op # "reclaim"
      BY <2>1, CallbackOps
    <3> QED
      BY <1>a, <1>b, <2>2, <3>1, <3>2 DEF Boxed, NatStates
  <2> QED
    BY <2>4, <2>5, <2>6 DEF IInv
<1>2. ASSUME NEW c \in BOOLEAN, cb = Landing(c), ~Outside, Held, Cancellation(c) PROVE IInv'
  <2>1. Head(cb) = Effect("enqueue", Complete(c)) /\ cb' = <<>>
    BY <1>2, <1>c, CallbackLists, Zenon
  <2>2. Complete(c) \in Events /\ Complete(c).poll = "Complete" /\ Complete(c).flag = c
        /\ Complete(c) # FinishComplete(TRUE)
    BY DEF Events, Complete, FinishComplete
  <2>3. Shapes' /\ Calls' /\ CauseKnown' /\ Flight' /\ Provisional' /\ Ending' /\ Finish' /\ Sticky' /\ Boxed'
    BY <1>2, <2>1, <2>2, EnqueueEffect
  <2> QED
    BY <2>1, <2>3 DEF IInv, Todo
<1>3. ASSUME NEW x \in Terms, Definitive(x), x.kind # "Connection", Head(cb) = Effect("publish", x), cb' = WakeOnly
      PROVE  IInv'
  <2>1. Head(cb').op # "reclaim"
    BY <1>3, CallbackOps
  <2>2. /\ Shapes' /\ Calls' /\ CauseKnown' /\ Flight' /\ Provisional' /\ Ending' /\ Finish' /\ Sticky' /\ Boxed'
        /\ Definitive(send_terminal')
    BY <1>3, <2>1, PublishEffect
  <2> QED
    BY <1>3, <2>2 DEF IInv, Todo
<1>4. CASE cb = OnSendCompleteNull
  <2>1. Head(cb) = Effect("publish", Internal("SendComplete missing client context")) /\ cb' = WakeOnly
    BY <1>4, <1>c, CallbackLists, Zenon
  <2> QED
    BY <1>3, <2>1, TermsMade DEF FaultArms
<1>5. CASE cb = OnPeerReceiveAborted
  <2>1. Head(cb) = Effect("publish", Stopped) /\ cb' = WakeOnly
    BY <1>5, <1>c, CallbackLists, Zenon
  <2> QED
    BY <1>3, <2>1, TermsMade
<1>6. CASE cb = WakeOnly /\ Definitive(send_terminal)
  <2>1. Head(cb) = Effect("enqueue", TerminalWake) /\ cb' = <<>>
    BY <1>6, <1>c, CallbackLists, Zenon
  <2>2. Shapes' /\ Calls' /\ CauseKnown' /\ Flight' /\ Provisional' /\ Ending' /\ Finish' /\ Sticky' /\ Boxed'
    BY <1>6, <1>d, <2>1, EnqueueEffect
  <2> QED
    BY <2>1, <2>2 DEF IInv, Todo
<1>7. ASSUME NEW g \in BOOLEAN, cb = OnSendShutdownComplete(g), nat.dir = "closed", ~poisoned, g => nat.graceful
      PROVE  IInv'
  <2>1. Head(cb) = Effect("enqueue", FinishComplete(g)) /\ cb' = <<>>
    BY <1>7, <1>c, CallbackLists, Zenon
  <2>2. FinishComplete(g) \in Events /\ FinishComplete(g).poll = "FinishComplete"
        /\ (FinishComplete(g) = FinishComplete(TRUE) => g)
    BY DEF Events, FinishComplete
  <2>3. chanOpen
    BY <1>7, <1>a DEF Ending, Late
  <2>4. Shapes' /\ Calls' /\ CauseKnown' /\ Flight' /\ Provisional' /\ Ending' /\ Finish' /\ Sticky' /\ Boxed'
    BY <1>7, <2>1, <2>2, <2>3, EnqueueEffect
  <2> QED
    BY <2>1, <2>4 DEF IInv, Todo
<1>8. ASSUME NEW c \in ConnectionTerminal, cb = RecordTell(c), Late PROVE IInv'
  <2>1. Head(cb) = Effect("record", Connection(c)) /\ cb' = Tell(c)
    BY <1>8, <1>c, CallbackLists, Zenon
  <2>2. /\ UNCHANGED <<boxes, send_terminal, chan, chanOpen, reducer, fe, parked, poisoned, fault, nat, errs, told>>
        /\ waker' \in {waker, Wake} /\ conn' = RecordConnTerminal(conn, c)
    <3>1. "record" \notin {"enqueue", "reclaim", "publish", "close"} /\ Connection(c).arg = c
      BY TermsMade
    <3> QED
      BY <1>b, <2>1, <3>1, EffectStep
  <2>3. conn' \in ConnSlot /\ Known' /\ conn'.observed = conn.observed
    BY <1>b, <2>2, RecordFacts DEF Known, CauseKnown
  <2>4. \A g \in BOOLEAN : cb # OnSendShutdownComplete(g)
    BY <2>1, FinishEffect
  <2>5. Shapes' /\ Calls' /\ CauseKnown' /\ Flight' /\ Provisional' /\ Ending' /\ Finish' /\ Sticky'
    BY <1>b, <2>2, <2>3, <2>4, CallbackSame DEF Softly
  <2>6. Todo'
    BY <1>8, <2>1, <2>2, <2>3 DEF Todo, Late
  <2>7. Boxed'
    <3>1. Head(cb).op # "reclaim" /\ Head(cb').op # "reclaim"
      BY <1>8, <2>1, CallbackOps
    <3> QED
      BY <1>a, <2>2, <3>1, BoxedKept
  <2> QED
    BY <2>5, <2>6, <2>7 DEF IInv
<1>9. ASSUME NEW c \in ConnectionTerminal, cb = Tell(c), Late, Known PROVE IInv'
  <2>1. Head(cb) = Effect("publish", Connection(c)) /\ cb' = CloseOnly
    BY <1>9, <1>c, CallbackLists, Zenon
  <2>2. Head(cb').op # "reclaim"
    BY <2>1, CallbackOps
  <2>3. Connection(c) \in Terms /\ Definitive(Connection(c))
    BY TermsMade
  <2>4. /\ Shapes' /\ Calls' /\ CauseKnown' /\ Flight' /\ Provisional' /\ Ending' /\ Finish' /\ Sticky' /\ Boxed'
        /\ Dead' /\ UNCHANGED <<poisoned, nat>>
    BY <1>9, <2>1, <2>2, <2>3, PublishEffect
  <2>5. Todo'
    BY <1>9, <2>1, <2>4 DEF Todo, Late, Over
  <2> QED
    BY <2>4, <2>5 DEF IInv
<1>10. CASE cb = CloseOnly /\ Late /\ Over
  <2>1. Head(cb) = Effect("close", NoTerm) /\ cb' = <<>>
    BY <1>10, <1>c, CallbackLists, Zenon
  <2>2. /\ UNCHANGED <<boxes, conn, send_terminal, chan, reducer, fe, parked, poisoned, fault, nat, errs, told>>
        /\ waker' \in {waker, Wake} /\ chanOpen' = FALSE
    <3>1. "close" \notin {"enqueue", "reclaim", "publish", "record"}
      OBVIOUS
    <3> QED
      BY <1>b, <2>1, <3>1, EffectStep
  <2>3. \A g \in BOOLEAN : cb # OnSendShutdownComplete(g)
    BY <2>1, FinishEffect
  <2>4. Shapes' /\ Calls' /\ CauseKnown' /\ Flight' /\ Provisional' /\ Ending' /\ Finish' /\ Sticky'
    <3>1. Known' = Known
      BY <2>2 DEF Known
    <3> QED
      BY <1>10, <1>b, <2>2, <2>3, <3>1, CallbackSame DEF Softly
  <2>5. Boxed'
    <3>1. Head(cb).op # "reclaim"
      BY <1>10, CallbackOps
    <3> QED
      BY <1>a, <2>1, <2>2, <3>1, BoxedKept
  <2> QED
    BY <2>1, <2>4, <2>5 DEF IInv, Todo
<1>11. CASE cb = StreamRecover /\ poisoned
  <2>1. Head(cb) = Effect("publish", Internal("stream callback panicked")) /\ cb' = WakeClose
    BY <1>11, <1>c, CallbackLists, Zenon
  <2>2. Head(cb').op # "reclaim"
    BY <2>1, CallbackOps
  <2>3. /\ Internal("stream callback panicked") \in Terms /\ Definitive(Internal("stream callback panicked"))
        /\ Internal("stream callback panicked").kind # "Connection"
    BY TermsMade DEF FaultArms
  <2>4. /\ Shapes' /\ Calls' /\ CauseKnown' /\ Flight' /\ Provisional' /\ Ending' /\ Finish' /\ Sticky' /\ Boxed'
        /\ Definitive(send_terminal') /\ UNCHANGED <<poisoned, nat>>
    BY <2>1, <2>2, <2>3, PublishEffect
  <2> QED
    BY <1>11, <2>1, <2>4 DEF IInv, Todo
<1>12. CASE cb = WakeClose /\ poisoned /\ Definitive(send_terminal)
  <2>1. Head(cb) = Effect("enqueue", TerminalWake) /\ cb' = CloseOnly
    BY <1>12, <1>c, CallbackLists, Zenon
  <2>2. Head(cb').op # "reclaim"
    BY <2>1, CallbackOps
  <2>3. /\ Shapes' /\ Calls' /\ CauseKnown' /\ Flight' /\ Provisional' /\ Ending' /\ Finish' /\ Sticky' /\ Boxed'
        /\ (Over => Over') /\ UNCHANGED <<poisoned, nat>>
    BY <1>12, <1>d, <2>1, <2>2, EnqueueEffect
  <2>4. Over
    BY <1>12 DEF Over, Dead
  <2>5. Todo'
    BY <1>12, <2>1, <2>3, <2>4 DEF Todo, Late
  <2> QED
    BY <2>3, <2>5 DEF IInv
<1> QED
  BY <1>1, <1>2, <1>4, <1>5, <1>6, <1>7, <1>8, <1>9, <1>10, <1>11, <1>12, <1>a DEF Todo

\* A contained panic keeps the invariant: stream_recover ends what the body had begun.
LEMMA CallbackPanicKeeps ==
    ASSUME IInv, CallbackPanic PROVE IInv'
<1>a. conn \in ConnSlot /\ nat \in NatStates /\ chanOpen \in BOOLEAN /\ boxes \in Int /\ poisoned \in BOOLEAN
  BY DEF IInv, Shapes
<1>b. /\ UNCHANGED <<reducer, fe, parked, chan, chanOpen, waker, send_terminal, conn, boxes, errs, told>>
      /\ cb' = StreamRecover /\ poisoned' = TRUE /\ fault' = "panic" /\ "panic" \in Faults /\ nat' = AbortSend(nat)
  BY DEF CallbackPanic, Faulty, feVars, chanVars, slotVars
<1>1. nat' \in NatStates /\ Softly /\ nat'.fin = nat.fin
  BY <1>a, <1>b, AbortFacts DEF Softly
<1>2. Known' = Known
  BY <1>b DEF Known
<1>3. Shapes' /\ Calls' /\ CauseKnown' /\ Flight' /\ Provisional' /\ Ending' /\ Finish' /\ Sticky'
  BY <1>1, <1>2, <1>a, <1>b, CallbackSame
<1>4. Todo' /\ Boxed'
  BY <1>b DEF Todo, Boxed
<1> QED
  BY <1>3, <1>4 DEF IInv


-----------------------------------------------------------------------------
(* The invariant.                                                          *)

\* A new half is idle, with nothing submitted, queued, published or reported.
LEMMA InitIInv == ASSUME Init PROVE IInv
<1>1. NoTerm.kind = "None" /\ NoTerm \in Terms /\ ~Definitive(NoTerm) /\ NoTerm # ProvisionalAbort
  BY PlainKinds, TermsMade
<1>2. fe \in FeStates /\ fe.pc = "idle" /\ fe.t = NoTerm /\ fe.poll = Pending /\ fe.inp = "none"
  BY IdleFacts DEF Init, Idle
<1>3. /\ ~reducer.send_submitting /\ ~reducer.finish_submitting /\ ~reducer.reset_submitting
      /\ ~reducer.finish_started /\ ~reducer.finish_complete /\ reducer \in SendState
  BY DEF Init, IdleSend, SendState
<1>4. /\ nat \in NatStates /\ nat.sends = 0 /\ nat.dir = "open" /\ ~nat.fin /\ ~nat.graceful
  BY DEF Init, NatStates
<1>5. conn \in ConnSlot /\ ~conn.observed
  BY DEF Init, EmptySlot, ConnSlot
<1>6. chan = <<>> /\ chan \in Seq(Events) /\ cb = <<>>
  BY DEF Init
<1>7. ~Feeding /\ ~InHand /\ ~InChan /\ ~Outside /\ ~Marked /\ ~Asked
  BY <1>1, <1>2, <1>3, <1>4, <1>6 DEF Feeding, InHand, InChan, Outside, Marked, Asked, Init
<1>8. Shapes
  <2>1. /\ parked = "no" /\ waker = "none" /\ chanOpen = TRUE /\ send_terminal = NoTerm /\ poisoned = FALSE
        /\ boxes = 0 /\ fault = "none" /\ errs = {} /\ told = {}
    BY DEF Init
  <2>2. 0 \in Int /\ boxes \in Int /\ errs \subseteq Terms /\ told \subseteq ConnectionTerminal
    BY <2>1
  <2>3. /\ parked \in Polls \cup {"no"} /\ waker \in {"none", "armed", "fired"} /\ chanOpen \in BOOLEAN
        /\ poisoned \in BOOLEAN /\ fault \in Faults \cup {"none"}
    BY <2>1
  <2> QED
    BY <1>1, <1>2, <1>3, <1>4, <1>5, <1>6, <2>1, <2>2, <2>3, Zenon DEF Shapes
<1>9. Calls
  BY <1>2, <1>3, <1>7 DEF Calls
<1>10. CauseKnown
  BY <1>1, <1>2, <1>5 DEF CauseKnown, Init
<1>11. Flight
  BY <1>4, <1>6, <1>7 DEF Flight
<1>12. Provisional /\ Todo
  BY <1>2, <1>6, <1>7 DEF Provisional, Todo
<1>13. Ending
  BY <1>4, <1>6, <1>7 DEF Ending, Init
<1>14. Finish
  <2>1. fe.poll # FinishComplete(TRUE)
    BY <1>2, IdleFacts
  <2>2. \A i \in DOMAIN chan : FALSE
    BY <1>6
  <2> QED
    BY <1>3, <1>4, <2>1, <2>2 DEF Finish
<1>15. Sticky /\ Boxed
  BY <1>4, <1>6 DEF Sticky, Boxed, Init
<1> QED
  BY <1>8, <1>9, <1>10, <1>11, <1>12, <1>13, <1>14, <1>15 DEF IInv

\* A step that leaves the state alone keeps it.
LEMMA StutterKeeps == ASSUME IInv, UNCHANGED vars PROVE IInv'
<1>1. UNCHANGED <<reducer, fe, parked, chan, chanOpen, waker, send_terminal, conn, cb, poisoned, fault, boxes, nat,
                  errs, told>>
  BY DEF vars, feVars, chanVars, slotVars, cbVars
<1>2. Shapes /\ Known' = Known /\ CauseKnown
  BY <1>1 DEF IInv, Known
<1> QED
  BY <1>1, <1>2, ConnKeeps DEF ConnUnchanged, feVars, chanVars, Softly, Shapes, CauseKnown

\* Every reachable state satisfies the invariant.
LEMMA Invariance == Spec => []IInv
<1>1. IInv /\ [Next]_vars => IInv'
  <2> SUFFICES ASSUME IInv, [Next]_vars PROVE IInv'
    OBVIOUS
  <2> QED
    BY CallKeeps, FrontendKeeps, CallbackStepKeeps, CallbackPanicKeeps, NativeKeeps, ConnStepKeeps, StutterKeeps
       DEF Next
<1> QED
  BY <1>1, InitIInv, PTL DEF Spec

-----------------------------------------------------------------------------
(* The properties.                                                         *)

\* The error the half surfaces is the one publish_send keeps, whatever arrives later and
\* however often h3 asks, and the cancellation marker never leaves the half.
THEOREM SendErrorStickyAlways == Spec => []SendErrorSticky
<1>1. IInv => SendErrorSticky
  <2> SUFFICES ASSUME IInv PROVE SendErrorSticky
    OBVIOUS
  <2>1. Sticky
    BY DEF IInv
  <2>2. ~Definitive(ProvisionalAbort) /\ Definitive(AfterFinish)
    BY TermsMade DEF AfterFinish
  <2> QED
    BY <2>1, <2>2 DEF SendErrorSticky, ProvisionalNeverSurfaced, Sticky, AfterFinish
<1> QED
  BY <1>1, Invariance, PTL

\* The arms of transition that are documented as impossible are, whichever fault happens:
\* no completion without a send, no wake or closed channel without a terminal, no call
\* during a reservation.
THEOREM NoImpossibleArmAlways == Spec => []NoImpossibleArm
<1>1. IInv => NoImpossibleArm
  <2> SUFFICES ASSUME IInv, NEW t \in {send_terminal} \cup errs, t.kind = "Internal"
               PROVE  t.arg \in FinishArms \cup FaultArms \cup {"poll_ready after finish"}
    BY DEF NoImpossibleArm
  <2>1. t \in Terms
    BY DEF IInv, Shapes
  <2> QED
    BY <2>1, TermFacts
<1> QED
  BY <1>1, Invariance, PTL

\* send_inprogress and the reservations keep msquic and the channel at one send.
THEOREM OneSendAtATimeAlways == Spec => []OneSendAtATime
<1>1. IInv => OneSendAtATime
  <2> SUFFICES ASSUME IInv PROVE OneSendAtATime
    OBVIOUS
  <2>1. Flight /\ nat.sends \in Nat
    BY DEF IInv, Shapes, NatStates
  <2> DEFINE S == {i \in DOMAIN chan : chan[i].poll = "Complete"}
  <2>2. CASE InChan
    <3>1. PICK i \in DOMAIN chan : chan[i].poll = "Complete"
      BY <2>2 DEF InChan
    <3>2. S = {i}
      BY <2>1, <3>1 DEF Flight
    <3>3. Cardinality(S) = 1
      BY <3>2, FS_Singleton
    <3> QED
      BY <2>1, <2>2, <3>3 DEF OneSendAtATime, Flight
  <2>3. CASE ~InChan
    <3>1. S = {}
      BY <2>3 DEF InChan
    <3>2. Cardinality(S) = 0
      BY <3>1, FS_EmptySet
    <3> QED
      BY <2>1, <3>2 DEF OneSendAtATime, Flight
  <2> QED
    BY <2>2, <2>3
<1> QED
  BY <1>1, Invariance, PTL

\* The finish event of a graceful finish stays on its way until poll_finish has seen it:
\* poll_ready's guard does not consume the channel.
THEOREM FinishEventNotLostAlways == Spec => []FinishEventNotLost
<1>1. IInv => FinishEventNotLost
  <2> SUFFICES ASSUME IInv PROVE FinishEventNotLost
    OBVIOUS
  <2>1. Finish
    BY DEF IInv
  <2>2. cb = OnSendShutdownComplete(TRUE) => \E i \in DOMAIN cb : cb[i].x = FinishComplete(TRUE)
    <3> SUFFICES ASSUME cb = OnSendShutdownComplete(TRUE) PROVE 1 \in DOMAIN cb /\ cb[1].x = FinishComplete(TRUE)
      OBVIOUS
    <3>1. cb = <<Effect("enqueue", FinishComplete(TRUE))>>
      BY DEF OnSendShutdownComplete
    <3>2. ASSUME NEW a PROVE 1 \in DOMAIN <<a>> /\ <<a>>[1] = a
      OBVIOUS
    <3>3. 1 \in DOMAIN cb /\ cb[1] = Effect("enqueue", FinishComplete(TRUE))
      BY <3>1, <3>2, Zenon
    <3>4. Effect("enqueue", FinishComplete(TRUE)).x = FinishComplete(TRUE)
      BY CallbackOps, Zenon
    <3> QED
      BY <3>3, <3>4, Zenon
  <2> QED
    BY <2>1, <2>2 DEF FinishEventNotLost, Finish
<1> QED
  BY <1>1, Invariance, PTL

\* poll_finish reports success only of a finish msquic completed gracefully.
THEOREM FinishedMeansGracefulAlways == Spec => []FinishedMeansGraceful
<1>1. IInv => FinishedMeansGraceful
  BY DEF IInv, Finish, FinishedMeansGraceful
<1> QED
  BY <1>1, Invariance, PTL

\* The reclaims a callback still has to do.
LEMMA ReclaimCount ==
    ASSUME IInv
    PROVE  Cardinality({i \in DOMAIN cb : cb[i].op = "reclaim"})
               = IF cb # <<>> /\ Head(cb).op = "reclaim" THEN 1 ELSE 0
<1> DEFINE S == {i \in DOMAIN cb : cb[i].op = "reclaim"}
<1>1. ASSUME NEW c, cb = OnSendComplete(c) PROVE Cardinality(S) = 1 /\ cb # <<>> /\ Head(cb).op = "reclaim"
  <2>1. cb = <<Effect("reclaim", NoTerm), Effect("enqueue", Complete(c))>>
    BY <1>1 DEF OnSendComplete
  <2>2. DOMAIN cb = {1, 2} /\ cb[1].op = "reclaim" /\ cb[2].op = "enqueue"
    BY <2>1 DEF Effect
  <2>3. S = {1}
    BY <2>2
  <2>4. cb # <<>> /\ Head(cb).op = "reclaim"
    BY <1>1, CallbackLists, CallbackOps, Zenon
  <2> QED
    BY <2>3, <2>4, FS_Singleton
<1>2. ASSUME \A i \in DOMAIN cb : cb[i].op # "reclaim", cb = <<>> \/ Head(cb).op # "reclaim"
      PROVE  Cardinality(S) = 0 /\ ~(cb # <<>> /\ Head(cb).op = "reclaim")
  <2>1. S = {}
    BY <1>2
  <2> QED
    BY <1>2, <2>1, FS_EmptySet
<1>3. \/ \E c \in BOOLEAN : cb = OnSendComplete(c)
      \/ (\A i \in DOMAIN cb : cb[i].op # "reclaim") /\ (cb = <<>> \/ Head(cb).op # "reclaim")
  <2>1. CASE cb = <<>>
    BY <2>1
  <2>2. ASSUME NEW c, cb = Landing(c) \/ cb = OnSendShutdownComplete(c)
        PROVE  (\A i \in DOMAIN cb : cb[i].op # "reclaim") /\ Head(cb).op # "reclaim"
    BY <2>2 DEF Landing, OnSendShutdownComplete, Effect
  <2>3. ASSUME NEW c, cb = RecordTell(c) \/ cb = Tell(c)
        PROVE  (\A i \in DOMAIN cb : cb[i].op # "reclaim") /\ Head(cb).op # "reclaim"
    BY <2>3 DEF RecordTell, Tell, Effect
  <2>4. CASE cb = OnSendCompleteNull \/ cb = OnPeerReceiveAborted \/ cb = WakeOnly \/ cb = CloseOnly
    <3>1. \A i \in DOMAIN cb : cb[i].op # "reclaim"
      <4>1. CASE cb = OnSendCompleteNull
        <5>1. PICK x : x = Internal("SendComplete missing client context")
          OBVIOUS
        <5>2. cb = <<Effect("publish", x), Effect("enqueue", TerminalWake)>>
          BY <4>1, <5>1 DEF OnSendCompleteNull
        <5> QED
          BY <5>2 DEF Effect
      <4>2. CASE cb = OnPeerReceiveAborted
        BY <4>2 DEF OnPeerReceiveAborted, Effect
      <4>3. CASE cb = WakeOnly
        BY <4>3 DEF WakeOnly, Effect
      <4>4. CASE cb = CloseOnly
        BY <4>4 DEF CloseOnly, Effect
      <4> QED
        BY <2>4, <4>1, <4>2, <4>3, <4>4
    <3> QED
      BY <2>4, <3>1, CallbackOps
  <2>5. CASE cb = StreamRecover \/ cb = WakeClose
    <3>1. \A i \in DOMAIN cb : cb[i].op # "reclaim"
      <4>1. CASE cb = StreamRecover
        <5>1. PICK x : x = Internal("stream callback panicked")
          OBVIOUS
        <5>2. cb = <<Effect("publish", x), Effect("enqueue", TerminalWake), Effect("close", NoTerm)>>
          BY <4>1, <5>1 DEF StreamRecover
        <5> QED
          BY <5>2 DEF Effect
      <4>2. CASE cb = WakeClose
        BY <4>2 DEF WakeClose, Effect
      <4> QED
        BY <2>5, <4>1, <4>2
    <3> QED
      BY <2>5, <3>1, CallbackOps
  <2>6. Todo
    BY DEF IInv
  <2> QED
    BY <2>1, <2>2, <2>3, <2>4, <2>5, <2>6 DEF Todo
<1> QED
  BY <1>1, <1>2, <1>3

\* submit_owned_send and the SendComplete arm account for every box, as long as neither a
\* contained panic nor a missing client context makes a callback skip the reclaim.
THEOREM BoxesAccountedAlways == Spec => [](fault \notin {"panic", "null"} => BoxesAccounted)
<1>1. IInv => (fault \notin {"panic", "null"} => BoxesAccounted)
  <2> SUFFICES ASSUME IInv, fault \notin {"panic", "null"} PROVE BoxesAccounted
    OBVIOUS
  <2>1. Boxed
    BY DEF IInv
  <2> QED
    BY <2>1, ReclaimCount DEF Boxed, BoxesAccounted
<1> QED
  BY <1>1, Invariance, PTL


-----------------------------------------------------------------------------
(* The send half implements ConnCause, and what follows from it.           *)

\* A record in the slot is a Record of the abstract cause, or changes nothing.
LEMMA RecordRefines ==
    ASSUME IInv, NEW c \in ConnectionTerminal, conn' = RecordConnTerminal(conn, c), told' = told
    PROVE  [Cause!Next]_Cause!vars
<1>a. conn \in ConnSlot /\ (told # {} => conn.observed)
  BY DEF IInv, Shapes, CauseKnown
<1>1. CASE conn'.terminal = conn.terminal
  BY <1>1 DEF Cause!vars
<1>2. CASE conn'.terminal # conn.terminal
  <2>1. /\ ~conn.observed
        /\ conn.terminal = NoCause \/ (conn.terminal = "LocalClose" /\ c # "LocalClose")
        /\ conn'.terminal = c
    BY <1>2, <1>a DEF ConnSlot, RecordConnTerminal, IsProvisional
  <2>2. Cause!Record(c)
    BY <1>a, <2>1 DEF Cause!Record, NoCause, Cause!NoCause
  <2> QED
    BY <2>2 DEF Cause!Next, ConnectionTerminal, SpecificCause, Cause!ConnectionTerminal, Cause!SpecificCause
<1> QED
  BY <1>1, <1>2

\* A frontend that reports the slot's cause delivers the abstract one.
LEMMA DeliverRefines ==
    ASSUME Known, conn'.terminal = conn.terminal, told' = told \cup {conn.terminal}
    PROVE  [Cause!Next]_Cause!vars
BY DEF Known, Cause!Next, Cause!Deliver, NoCause, Cause!NoCause

\* The only cause a callback records is the one it classified.
LEMMA CallbackRecords ==
    ASSUME IInv, CallbackStep
    PROVE  conn' = conn \/ \E c \in ConnectionTerminal : conn' = RecordConnTerminal(conn, c)
<1>1. ASSUME NEW op, NEW x, Head(cb) = Effect(op, x), op # "record" PROVE conn' = conn
  BY <1>1, EffectStep
<1>2. ASSUME NEW c \in ConnectionTerminal, cb = RecordTell(c) PROVE conn' = RecordConnTerminal(conn, c)
  <2>1. Head(cb) = Effect("record", Connection(c))
    BY <1>2, CallbackLists, Zenon
  <2>2. Connection(c).arg = c
    BY TermsMade
  <2> QED
    BY <2>1, <2>2, EffectStep
<1>3. "reclaim" # "record" /\ "enqueue" # "record" /\ "publish" # "record" /\ "close" # "record"
  OBVIOUS
<1>4. ASSUME NEW c, cb = OnSendComplete(c) \/ cb = Landing(c) \/ cb = OnSendShutdownComplete(c) PROVE conn' = conn
  <2>1. CASE cb = OnSendComplete(c)
    BY <1>1, <1>3, <2>1, CallbackLists, Zenon
  <2>2. CASE cb = Landing(c)
    BY <1>1, <1>3, <2>2, CallbackLists, Zenon
  <2>3. CASE cb = OnSendShutdownComplete(c)
    BY <1>1, <1>3, <2>3, CallbackLists, Zenon
  <2> QED
    BY <1>4, <2>1, <2>2, <2>3
<1>5. ASSUME NEW c, cb = Tell(c) PROVE conn' = conn
  BY <1>1, <1>3, <1>5, CallbackLists, Zenon
<1>6. CASE cb = OnSendCompleteNull
  BY <1>1, <1>3, <1>6, CallbackLists, Zenon
<1>7. CASE cb = OnPeerReceiveAborted
  BY <1>1, <1>3, <1>7, CallbackLists, Zenon
<1>8. CASE cb = WakeOnly
  BY <1>1, <1>3, <1>8, CallbackLists, Zenon
<1>9. CASE cb = CloseOnly
  BY <1>1, <1>3, <1>9, CallbackLists, Zenon
<1>10. CASE cb = StreamRecover
  BY <1>1, <1>3, <1>10, CallbackLists, Zenon
<1>11. CASE cb = WakeClose
  BY <1>1, <1>3, <1>11, CallbackLists, Zenon
<1>12. Todo /\ cb # <<>>
  BY DEF IInv, CallbackStep
<1> QED
  BY <1>2, <1>4, <1>5, <1>6, <1>7, <1>8, <1>9, <1>10, <1>11, <1>12 DEF Todo

\* The send half and its neighbours keep ConnCause's promise: one cause reaches h3, and a
\* cause that was reported is final (commit_send_winner freezes what it reports).
THEOREM CauseRefinement == Spec => CauseSpec
<1>1. Init => Cause!Init
  BY DEF Init, EmptySlot, Cause!Init, NoCause, Cause!NoCause
<1>2. IInv /\ [Next]_vars => [Cause!Next]_Cause!vars
  <2> SUFFICES ASSUME IInv, [Next]_vars PROVE [Cause!Next]_Cause!vars
    OBVIOUS
  <2>a. conn \in ConnSlot /\ CauseKnown /\ Calls
    BY DEF IInv, Shapes
  <2>b. {"PeerApplication", "Timeout", "Transport", "LocalClose", "Internal"} \subseteq ConnectionTerminal
    BY DEF ConnectionTerminal, SpecificCause
  <2>1. CASE CallbackStep
    <3>1. told' = told
      BY <2>1 DEF CallbackStep
    <3>2. CASE conn' = conn
      BY <3>1, <3>2 DEF Cause!vars
    <3> QED
      BY <2>1, <3>1, <3>2, CallbackRecords, RecordRefines
  <2>2. CASE CommitSendWinner
    <3>1. Known
      BY <2>2, <2>a DEF CommitSendWinner, Calls, CauseKnown
    <3>2. conn'.terminal = conn.terminal /\ told' = told \cup {conn.terminal}
      BY <2>2, <2>a, <3>1, CommitFacts DEF CommitSendWinner, OrElse, Known
    <3> QED
      BY <3>1, <3>2, DeliverRefines
  <2>3. CASE OtherFrontend
    <3>1. Known /\ conn'.terminal = conn.terminal /\ told' = told \cup {conn.terminal}
      BY <2>3, <2>a, CommitFacts DEF OtherFrontend, Known
    <3> QED
      BY <3>1, DeliverRefines
  <2>4. ASSUME NEW why \in Remotes, ShutdownInitiated(why) PROVE [Cause!Next]_Cause!vars
    <3>1. PICK c : c = IF why = "peer" THEN "PeerApplication" ELSE ClassifyTransport(Status(why))
      OBVIOUS
    <3>2. c \in ConnectionTerminal
      BY <2>b, <3>1 DEF ClassifyTransport
    <3>3. conn' = RecordConnTerminal(conn, c) /\ told' = told
      BY <2>4, <3>1 DEF ShutdownInitiated
    <3> QED
      BY <3>2, <3>3, RecordRefines
  <2>5. CASE OpenerClose \/ ConnShutdownComplete
    BY <2>5, <2>b, RecordRefines DEF OpenerClose, ConnShutdownComplete
  <2>6. CASE ConnInternal
    BY <2>6, <2>b, RecordRefines DEF ConnInternal
  <2>7. CASE UNCHANGED <<conn, told>>
    BY <2>7 DEF Cause!vars
  <2>8. CASE Call \/ FrontendStep \/ CallbackPanic \/ NativeStep \/ LocalShutdown \/ UNCHANGED vars
    <3>1. Call => UNCHANGED <<conn, told>>
      BY DEF Call, PollReady, PollFinish, SendData, Reset, Begin, slotVars
    <3>2. FrontendStep => UNCHANGED <<conn, told>> \/ CommitSendWinner
      BY DEF FrontendStep, PollSendChannel, LoadWinner, PeekConn, PublishWinner, SubmitSend, SubmitGraceful,
             SubmitReset, slotVars
    <3>3. NativeStep => UNCHANGED <<conn, told>>
      BY DEF NativeStep, SendCompletes, SendCompletesNull, PeerStopsSending, SendShutdownCompletes,
             ShutdownCompletes, NativeUnchanged, slotVars
    <3>4. CallbackPanic \/ LocalShutdown \/ UNCHANGED vars => UNCHANGED <<conn, told>>
      BY DEF CallbackPanic, LocalShutdown, vars, slotVars
    <3> QED
      BY <2>2, <2>7, <2>8, <3>1, <3>2, <3>3, <3>4
  <2> QED
    BY <2>1, <2>3, <2>4, <2>5, <2>6, <2>8 DEF Next, ConnStep
<1> QED
  BY <1>1, <1>2, Invariance, PTL DEF Spec, CauseSpec, Cause!Spec

\* What ConnCause promises of every state.
CauseTold == Cause!TypeOK /\ Cause!Agreement /\ (told # {} => conn.terminal # Cause!NoCause)

\* Record needs a cause nobody was told, so what is told is what is on record.
LEMMA CauseInvariance == CauseSpec => []CauseTold
<1>1. Cause!Init => CauseTold
  BY DEF Cause!Init, CauseTold, Cause!TypeOK, Cause!Agreement
<1>2. CauseTold /\ [Cause!Next]_Cause!vars => CauseTold'
  <2> SUFFICES ASSUME CauseTold, [Cause!Next]_Cause!vars PROVE CauseTold'
    OBVIOUS
  <2>1. ASSUME NEW c \in Cause!ConnectionTerminal, Cause!Record(c) PROVE CauseTold'
    BY <2>1 DEF CauseTold, Cause!TypeOK, Cause!Agreement, Cause!Record
  <2>2. CASE Cause!Deliver
    BY <2>2 DEF CauseTold, Cause!TypeOK, Cause!Agreement, Cause!Deliver
  <2>3. CASE UNCHANGED Cause!vars
    BY <2>3 DEF CauseTold, Cause!TypeOK, Cause!Agreement, Cause!vars
  <2> QED
    BY <2>1, <2>2, <2>3 DEF Cause!Next
<1> QED
  BY <1>1, <1>2, PTL DEF CauseSpec, Cause!Spec

\* Whatever implements ConnCause never reports two connection causes (commit-on-delivery
\* in terminal.rs).
THEOREM AgreementAlways == CauseSpec => []Cause!Agreement
<1>1. CauseTold => Cause!Agreement
  BY DEF CauseTold
<1> QED
  BY <1>1, CauseInvariance, PTL

\* Whatever implements ConnCause keeps the cause on record: it never disappears, and a
\* specific or a reported cause never changes (ConnTerminalState::record and the freeze of
\* observe and commit_conn).
THEOREM CauseStableAlways == CauseSpec => Cause!CauseStable
<1> DEFINE Stable == /\ conn.terminal # Cause!NoCause => (conn.terminal)' # Cause!NoCause
                     /\ conn.terminal \in Cause!SpecificCause => (conn.terminal)' = conn.terminal
                     /\ told # {} => (conn.terminal)' = conn.terminal
<1>1. CauseTold /\ [Cause!Next]_Cause!vars => [Stable]_Cause!vars
  <2> SUFFICES ASSUME CauseTold, Cause!Next PROVE Stable
    OBVIOUS
  <2>1. ASSUME NEW c \in Cause!ConnectionTerminal, Cause!Record(c) PROVE Stable
    BY <2>1 DEF CauseTold, Cause!TypeOK, Cause!Record, Cause!ConnectionTerminal, Cause!SpecificCause, Cause!NoCause
  <2>2. CASE Cause!Deliver
    BY <2>2 DEF Cause!Deliver
  <2> QED
    BY <2>1, <2>2 DEF Cause!Next
<1> QED
  BY <1>1, CauseInvariance, PTL DEF CauseSpec, Cause!Spec, Cause!CauseStable

\* No two of the connection's frontends report different causes, the send half's
\* resolve_terminal and commit_send_winner included, and the cause they report stays.
THEOREM OneCauseReported == Spec => []Cause!Agreement /\ Cause!CauseStable
BY CauseRefinement, AgreementAlways, CauseStableAlways, PTL
=============================================================================
