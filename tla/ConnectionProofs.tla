-------------------------- MODULE ConnectionProofs ---------------------------
(* What Connection's run checks of one connection, for any number of peer streams, *)
(* any faults, any remote ends and any use of openers and waiters.                *)
EXTENDS Connection, Integers, FiniteSetTheorems, SequenceTheorems, TLAPS

\* The effects of the connection callback.
Eff == [op : {"record", "resolve", "close", "own", "deliver", "notify", "force", "poison", "return"},
        x : ConnectionTerminal \cup Dirs
              \cup {"", "Ok", "Err", "ABORTED", "INTERNAL", "CONNECTION_IDLE", "OTHER"}]

\* The shape of every variable the properties look at.
Shapes ==
    /\ DOMAIN connected = {"tx", "val"}
    /\ shutdown \in [tx : BOOLEAN, sent : BOOLEAN]
    /\ senders \subseteq Dirs /\ incoming \in [Dirs -> Seq(Streams)] /\ receiver \in BOOLEAN
    /\ conn \in ConnSlot
    /\ DOMAIN cb = {"todo", "stream", "dir", "owned", "recovering"}
    /\ cb.stream \in Streams \cup {NoStream} /\ cb.dir \in Dirs
    /\ cb.owned \in BOOLEAN /\ cb.recovering \in BOOLEAN
    /\ acc \in [pc : {"idle", "channel", "observe"}, dir : Dirs]
    /\ DOMAIN errs = Dirs
    /\ streams \in [Streams -> [at : {"none", "callback", "h3", "closed"} \cup Dirs, closes : Nat]]
    /\ nat \in [conn : {"idle", "handshake", "connected", "ending", "complete"},
                asked : BOOLEAN, up : BOOLEAN]

Known == conn.terminal # NoCause

\* The slot: frozen only with a cause, and told as it is.
CauseKnown ==
    /\ conn.observed => Known
    /\ told \subseteq {conn.terminal}
    /\ told # {} => conn.observed

\* Effect op comes before effect i of a list.
Before(q, i, op) == \E j \in 1..(i - 1) : q[j].op = op

\* One effect a callback has still to do: it reports a success that happened, and an end
\* only after the cause is on record; it ends the wait for the shutdown only after one.
EffectFine(q, i) ==
    /\ q[i].op = "return" <=> i = Len(q)
    /\ q[i].op = "record" => q[i].x \in ConnectionTerminal
    /\ q[i].op = "resolve" /\ q[i].x = "Ok" => nat.up
    /\ q[i].op = "resolve" /\ q[i].x # "Ok" => Known \/ Before(q, i, "record")
    /\ q[i].op = "close" => Known \/ Before(q, i, "record")
    /\ q[i].op = "notify" =>
          \/ nat.conn = "complete"
          \/ fault = "panic" /\ (nat.asked \/ Before(q, i, "force"))

Todo == cb.todo \in Seq(Eff) /\ \A i \in DOMAIN cb.todo : EffectFine(cb.todo, i)

Hand == <<Effect("own", ""), Effect("deliver", ""), Return("Ok")>>
NoHand(q) == \A i \in DOMAIN q : q[i].op \notin {"own", "deliver"}
LastIs(q, status) == q # <<>> /\ q[Len(q)].x = status

\* Who has the stream the running callback was offered: msquic, if the callback will
\* refuse it; the callback, until it is delivered; or somebody else, if it will accept.
Refuses == LastIs(cb.todo, "Err") /\ streams[cb.stream].at = "callback" /\ ~cb.owned /\ NoHand(cb.todo)
Offers ==
    /\ streams[cb.stream].at = "callback"
    /\ \/ cb.todo = Hand /\ ~cb.owned
       \/ cb.todo = Tail(Hand) /\ cb.owned
HandedOver ==
    /\ LastIs(cb.todo, "Ok") /\ streams[cb.stream].at \notin {"none", "callback"} /\ NoHand(cb.todo)
    /\ cb.recovering \/ cb.todo[1].op = "return"

Offered ==
    cb.todo # <<>> =>
        /\ cb.stream = NoStream => ~cb.owned /\ NoHand(cb.todo)
        /\ cb.stream # NoStream => Refuses \/ Offers \/ HandedOver

\* A stream is closed at most once, held up by the running callback only, and in a queue
\* once exactly when it says so.
Places ==
    /\ \A s \in Streams : streams[s].closes = (IF streams[s].at = "closed" THEN 1 ELSE 0)
    /\ \A s \in Streams : streams[s].at = "callback" => cb.todo # <<>> /\ cb.stream = s
    /\ \A d \in Dirs : \A i \in DOMAIN incoming[d] : streams[incoming[d][i]].at = d
    /\ \A d \in Dirs : \A i, j \in DOMAIN incoming[d] : incoming[d][i] = incoming[d][j] => i = j
    /\ \A s \in Streams : \A d \in Dirs :
          streams[s].at = d => \E i \in DOMAIN incoming[d] : incoming[d][i] = s
    /\ ~receiver => \A s \in Streams : streams[s].at \notin Dirs

\* Nothing happened before the first poll of connect.
Untouched ==
    /\ handle = "none" /\ nat.conn = "idle" /\ cb.todo = <<>> /\ shutdown.tx /\ ~shutdown.sent
    /\ \A s \in Streams : streams[s].at = "none"

\* The handle, the receiver and the opener along the life of the future.
Life ==
    /\ handle \in {"none", "open", "closing", "closed"}
    /\ fut = "reserved" => Untouched
    /\ fut \in {"waiting", "ready"} => handle = "open" /\ nat.conn # "idle"
    /\ fut = "unwinding" => handle \in {"closing", "closed"}
    /\ fut = "failed" => handle # "open"
    /\ fut \in {"failed", "dropped"} => ~receiver
    /\ fut = "dropped" /\ opener \in {"none", "gone"} => handle # "open"
    /\ opener \in {"live", "closing"} => fut \in {"ready", "dropped"} /\ handle = "open"

Over == nat.conn = "complete" \/ (nat.asked /\ fault = "panic")

\* What connect and the waiter were told, and what is in their one-shots.
Answers ==
    /\ result = "Ok" \/ connected.val = "Ok" => nat.up
    /\ connected.val \notin {NoneYet, "Ok"} => Known
    /\ shutdown.sent \/ ~shutdown.tx => Over \/ nat.conn = "idle"
    /\ waiter \in {"waiting", "done"} => nat.conn # "idle"
    /\ waiter = "done" => Over

\* The accept polls: an end is reported with its cause, after the queue, unless it is
\* the adapter's own, which is final.
Accepting ==
    /\ acc.pc # "idle" => fut = "ready"
    /\ acc.pc = "observe" => acc.dir \notin senders /\ incoming[acc.dir] = <<>> /\ Known
    /\ \A d \in Dirs : d \notin senders => Known \/ handle = "closed"
    /\ \A d \in Dirs : errs[d] \notin {NoneYet, "Internal"} => d \notin senders /\ incoming[d] = <<>>
    /\ (\E d \in Dirs : errs[d] = "Internal") =>
          conn.terminal = "Internal" /\ conn.observed /\ acc.pc # "channel"

IInv ==
    /\ Shapes /\ CauseKnown /\ Todo /\ Offered /\ Places /\ Life /\ Answers /\ Accepting
    /\ NoReasonlessAccept

-----------------------------------------------------------------------------
(* Frames: what a part of the invariant needs of a step that is not about it. *)

\* What no step takes back.
Steady ==
    /\ Known => Known'
    /\ conn.observed => conn' = conn
    /\ nat.up => nat'.up
    /\ nat.asked => nat'.asked
    /\ nat.conn = "complete" => nat'.conn = "complete"
    /\ nat.conn # "idle" => nat'.conn # "idle"
    /\ fault = "panic" => fault' = "panic"
    /\ handle = "closed" => handle' = "closed"

\* The callback keeps the stream it holds, and no stream goes back to it or to msquic.
Onward ==
    \A s \in Streams :
        /\ streams[s].at = "callback" => streams'[s].at = "callback"
        /\ streams[s].at \notin {"none", "callback"} => streams'[s].at \notin {"none", "callback"}

\* A step that touches no stream is one.
LEMMA OnwardSame == UNCHANGED streams => Onward
BY DEF Onward

\* A callback that does not run keeps its list.
LEMMA TodoKept == ASSUME Todo, Steady, UNCHANGED cb PROVE Todo'
<1> SUFFICES ASSUME NEW i \in DOMAIN cb.todo PROVE EffectFine(cb.todo, i)'
  BY DEF Todo
<1>1. EffectFine(cb.todo, i)
  BY DEF Todo
<1> QED
  BY <1>1 DEF EffectFine, Before, Steady

\* The offered stream stays where it is, or goes from one owner to the next.
LEMMA OfferedKept ==
    ASSUME Shapes, Offered, UNCHANGED cb,
           Onward
    PROVE  Offered'
BY DEF Onward, Shapes, Offered, Refuses, Offers, HandedOver, Hand

\* Streams and queues left alone, the callback may go on or start.
LEMMA PlacesKept ==
    ASSUME Places, UNCHANGED <<streams, incoming, receiver>>,
           cb.todo # <<>> => cb'.todo # <<>> /\ cb'.stream = cb.stream
    PROVE  Places'
BY DEF Places

\* The life of the connection, by steps that are not about it.
LEMMA LifeKept ==
    ASSUME Life, UNCHANGED <<fut, handle, opener, receiver>>, nat.conn # "idle" => nat'.conn # "idle",
           Untouched => Untouched'
    PROVE  Life'
BY DEF Life

\* The answers, by steps that give none.
LEMMA AnswersKept ==
    ASSUME Shapes, Answers, Steady, UNCHANGED <<result, connected, shutdown, waiter>>,
           nat.conn = "idle" => nat'.conn = "idle" \/ (shutdown.tx /\ ~shutdown.sent)
    PROVE  Answers'
<1>1. Over => Over'
  BY DEF Steady, Over
<1> QED
  BY <1>1 DEF Answers, Steady

\* The accept polls, by steps of others: senders go only once there is a cause.
LEMMA AcceptingKept ==
    ASSUME Accepting, Steady, UNCHANGED <<acc, errs>>, acc.pc # "idle" => fut' = fut,
           senders' \subseteq senders,
           \A d \in Dirs : d \notin senders' => d \notin senders \/ Known' \/ handle' = "closed",
           \A d \in Dirs : d \notin senders /\ incoming[d] = <<>> => incoming'[d] = <<>>,
           Shapes
    PROVE  Accepting'
<1>1. acc.pc # "idle" => fut' = "ready"
  BY DEF Accepting
<1>2. acc.pc = "observe" => acc.dir \notin senders' /\ incoming'[acc.dir] = <<>> /\ Known'
  BY DEF Accepting, Steady, Shapes
<1>3. \A d \in Dirs : d \notin senders' => Known' \/ handle' = "closed"
  BY DEF Accepting, Steady
<1>4. \A d \in Dirs : errs[d] \notin {NoneYet, "Internal"} => d \notin senders' /\ incoming'[d] = <<>>
  BY DEF Accepting
<1>5. (\E d \in Dirs : errs[d] = "Internal") =>
          conn'.terminal = "Internal" /\ conn'.observed /\ acc.pc # "channel"
  BY DEF Accepting, Steady
<1> QED
  BY <1>1, <1>2, <1>3, <1>4, <1>5 DEF Accepting

\* Nobody is told anything.
LEMMA ErrsKept == ASSUME NoReasonlessAccept, UNCHANGED errs PROVE NoReasonlessAccept'
BY DEF NoReasonlessAccept

-----------------------------------------------------------------------------
(* The slot.                                                               *)

\* A record leaves a cause in the slot, and an observed slot alone.
LEMMA RecordKeeps ==
    ASSUME Shapes, CauseKnown, NEW c \in ConnectionTerminal, conn' = RecordConnTerminal(conn, c), told' = told
    PROVE  /\ conn' \in ConnSlot /\ Known' /\ CauseKnown' /\ (conn.observed => conn' = conn)
<1>1. conn.terminal \in ConnectionTerminal \cup {NoCause} /\ conn.observed \in BOOLEAN /\ c # NoCause
  BY DEF Shapes, ConnSlot, ConnectionTerminal, SpecificCause, NoCause
<1>2. CASE conn' = conn /\ Known
  BY <1>1, <1>2 DEF Shapes, Known, CauseKnown
<1>3. CASE conn' = [conn EXCEPT !.terminal = c] /\ ~conn.observed
  <2>1. conn' \in ConnSlot /\ conn'.terminal = c /\ ~conn'.observed
    BY <1>3 DEF Shapes, ConnSlot
  <2>2. told = {}
    BY <1>3 DEF CauseKnown
  <2> QED
    BY <1>1, <1>3, <2>1, <2>2 DEF CauseKnown, Known
<1>4. conn' = conn => Known
  BY <1>1 DEF RecordConnTerminal, CauseKnown, Known, IsProvisional, Shapes, ConnSlot
<1> QED
  BY <1>2, <1>3, <1>4 DEF RecordConnTerminal

\* A report freezes the cause it reports.
LEMMA ReportKeeps ==
    ASSUME Shapes, CauseKnown, Known, conn' = ObserveConnWinner(conn), told' = told \cup {conn.terminal}
    PROVE  /\ conn' \in ConnSlot /\ Known' /\ CauseKnown' /\ (conn.observed => conn' = conn)
           /\ conn'.terminal = conn.terminal /\ conn'.observed
<1>1. conn' \in ConnSlot /\ conn'.terminal = conn.terminal /\ conn'.observed
  BY DEF ObserveConnWinner, Shapes, ConnSlot
<1>2. conn.observed => conn' = conn
  BY DEF ObserveConnWinner, Shapes, ConnSlot
<1> QED
  BY <1>1, <1>2 DEF CauseKnown, Known

\* And without either.
LEMMA SlotKept ==
    ASSUME CauseKnown, Shapes, UNCHANGED <<conn, told>>
    PROVE  conn' \in ConnSlot /\ CauseKnown' /\ (Known <=> Known')
BY DEF CauseKnown, Shapes, Known

-----------------------------------------------------------------------------
(* The invariant.                                                          *)

\* It holds before the first poll, and of a handle that is attached.
LEMMA InitIInv == Init => IInv
<1> SUFFICES ASSUME Init PROVE IInv
  OBVIOUS
<1>1. cb.todo = <<>> /\ conn.terminal = NoCause /\ ~conn.observed /\ told = {}
  BY DEF Init, Quiet, EmptySlot
<1>2. Shapes
  <2>1. <<>> \in Seq(Streams)
    BY EmptySeq
  <2>2. incoming \in [Dirs -> Seq(Streams)] /\ DOMAIN errs = Dirs
    BY <2>1 DEF Init
  <2>3. conn \in ConnSlot /\ acc \in [pc : {"idle", "channel", "observe"}, dir : Dirs]
    BY DEF Init, EmptySlot, ConnSlot, NoPoll, Dirs
  <2>4. /\ DOMAIN cb = {"todo", "stream", "dir", "owned", "recovering"} /\ cb.stream = NoStream
        /\ cb.dir \in Dirs /\ cb.owned = FALSE /\ cb.recovering = FALSE
    BY DEF Init, Quiet, Dirs
  <2>5. streams \in [Streams -> [at : {"none", "callback", "h3", "closed"} \cup Dirs, closes : Nat]]
    BY DEF Init
  <2>6. nat \in [conn : {"idle", "handshake", "connected", "ending", "complete"}, asked : BOOLEAN, up : BOOLEAN]
    <3>1. PICK c \in {"idle", "handshake"} : nat = [conn |-> c, asked |-> FALSE, up |-> FALSE]
      BY DEF Init
    <3> QED
      BY <3>1
  <2>7. DOMAIN connected = {"tx", "val"} /\ shutdown \in [tx : BOOLEAN, sent : BOOLEAN]
        /\ senders \subseteq Dirs /\ receiver \in BOOLEAN
    BY DEF Init
  <2> QED
    BY <2>2, <2>3, <2>4, <2>5, <2>6, <2>7 DEF Shapes
<1>3. CauseKnown /\ Offered
  BY <1>1 DEF CauseKnown, Offered
<1>4. Todo
  BY <1>1, EmptySeq DEF Todo
<1>5. Places
  BY DEF Init, Places, Dirs
<1>6. Life
  BY <1>1 DEF Init, Life, Untouched
<1>7. Answers
  BY DEF Init, Answers, NoneYet
<1>8. Accepting /\ NoReasonlessAccept
  BY DEF Init, Accepting, NoPoll, NoReasonlessAccept, NoneYet, Reasonless
<1> QED
  BY <1>2, <1>3, <1>4, <1>5, <1>6, <1>7, <1>8 DEF IInv

\* A step that is neither the callback's nor an accept poll's keeps the invariant if it
\* keeps the parts it is about.
LEMMA OutsideStep ==
    ASSUME IInv, Steady, Shapes', CauseKnown', UNCHANGED <<cb, senders, errs, acc>>,
           acc.pc # "idle" => fut' = fut,
           \A d \in Dirs : incoming[d] = <<>> => incoming'[d] = <<>>,
           Onward,
           Places', Life', Answers'
    PROVE  IInv'
<1>1. Todo' /\ Offered'
  BY TodoKept, OfferedKept DEF IInv
<1>2. Accepting' /\ NoReasonlessAccept'
  <2>1. \A d \in Dirs : d \notin senders' => d \notin senders \/ Known' \/ handle' = "closed"
    OBVIOUS
  <2> QED
    BY <2>1, AcceptingKept, ErrsKept DEF IInv
<1> QED
  BY <1>1, <1>2 DEF IInv

\* Dropping the receiver closes what is queued, and nothing else.
LEMMA DropReceiverKeeps ==
    ASSUME Shapes, Places, DropReceiver, UNCHANGED cb
    PROVE  /\ incoming' \in [Dirs -> Seq(Streams)] /\ ~receiver' /\ receiver' \in BOOLEAN
           /\ streams' \in [Streams -> [at : {"none", "callback", "h3", "closed"} \cup Dirs, closes : Nat]]
           /\ \A d \in Dirs : incoming'[d] = <<>>
           /\ Onward
           /\ Places'
<1>1. <<>> \in Seq(Streams)
  BY EmptySeq
<1>2. incoming' \in [Dirs -> Seq(Streams)] /\ \A d \in Dirs : incoming'[d] = <<>>
  BY <1>1 DEF DropReceiver
<1>3. ASSUME NEW s \in Streams
      PROVE  /\ streams'[s] \in [at : {"none", "callback", "h3", "closed"} \cup Dirs, closes : Nat]
             /\ streams[s].at \in Dirs => streams'[s].at = "closed" /\ streams'[s].closes = streams[s].closes + 1
             /\ streams[s].at \notin Dirs => streams'[s] = streams[s]
  <2>1. streams[s] \in [at : {"none", "callback", "h3", "closed"} \cup Dirs, closes : Nat]
    BY DEF Shapes
  <2>2. streams'[s] = IF streams[s].at \in Dirs THEN [at |-> "closed", closes |-> streams[s].closes + 1]
                                                ELSE streams[s]
    BY DEF DropReceiver, CloseQueued
  <2> QED
    BY <2>1, <2>2
<1>4. streams' \in [Streams -> [at : {"none", "callback", "h3", "closed"} \cup Dirs, closes : Nat]]
  BY <1>3 DEF DropReceiver, CloseQueued
<1>5. "closed" \notin Dirs /\ "callback" \notin Dirs /\ "none" \notin Dirs
  BY DEF Dirs
<1>6. \A s \in Streams : streams'[s].closes = (IF streams'[s].at = "closed" THEN 1 ELSE 0)
  <2> SUFFICES ASSUME NEW s \in Streams PROVE streams'[s].closes = (IF streams'[s].at = "closed" THEN 1 ELSE 0)
    OBVIOUS
  <2>1. streams[s].closes = (IF streams[s].at = "closed" THEN 1 ELSE 0)
    BY DEF Places
  <2>2. CASE streams[s].at \in Dirs
    BY <1>3, <1>5, <2>1, <2>2
  <2>3. CASE streams[s].at \notin Dirs
    BY <1>3, <2>1, <2>3
  <2> QED
    BY <2>2, <2>3
<1>7. \A s \in Streams : streams'[s].at \notin Dirs /\ (streams'[s].at = "callback" => streams[s].at = "callback")
  BY <1>3, <1>5
<1>8. \A s \in Streams : streams'[s].at = "callback" => cb'.todo # <<>> /\ cb'.stream = s
  BY <1>7 DEF Places
<1>9. \A d \in Dirs : DOMAIN incoming'[d] = {}
  BY <1>2
<1>10. ~receiver' /\ receiver' \in BOOLEAN
  BY DEF DropReceiver
<1>11. Onward
  BY <1>3, <1>5 DEF Onward
<1>12. Places'
  BY <1>6, <1>7, <1>8, <1>9 DEF Places
<1> QED
  BY <1>2, <1>4, <1>10, <1>11, <1>12

\* connect: its first poll, its answer and its unwinding.
LEMMA ConnectKeeps ==
    ASSUME IInv, ConnectPoll \/ AwaitConnected \/ DropConnect \/ Unwound PROVE IInv'
<1>a. Shapes /\ CauseKnown /\ Places /\ Life /\ Answers /\ Accepting
  BY DEF IInv
<1>b. UNCHANGED <<conn, told, cb, fault, senders, errs, acc, connected, shutdown, waiter, opener>>
  BY DEF ConnectPoll, AwaitConnected, ConnectAnswered, DropConnect, Unwound, waitVars, chanVars, cbVars,
         accVars, futVars
<1>c. conn' \in ConnSlot /\ CauseKnown' /\ (Known <=> Known')
  BY <1>a, <1>b, SlotKept
<1>1. CASE ConnectPoll
  <2>1. fut = "reserved" /\ Untouched /\ UNCHANGED <<incoming, streams>> /\ opener \notin {"live", "closing"}
    BY <1>1, <1>a DEF ConnectPoll, Life
  <2>2. /\ nat'.conn \in {"idle", "handshake"} /\ receiver' \in BOOLEAN /\ nat.conn = "idle"
        /\ nat' \in [conn : {"idle", "handshake", "connected", "ending", "complete"}, asked : BOOLEAN, up : BOOLEAN]
        /\ nat'.up = nat.up /\ nat'.asked = nat.asked
        /\ result' # result => result' \in {"OPEN", "START"}
    <3>1. nat' = nat \/ nat' = [nat EXCEPT !.conn = "handshake"]
      BY <1>1 DEF ConnectPoll, natVars
    <3>2. nat.conn = "idle"
      BY <2>1 DEF Untouched
    <3> QED
      BY <1>1, <1>a, <3>1, <3>2 DEF ConnectPoll, Shapes
  <2>3. Steady
    BY <1>b, <2>1, <2>2 DEF Steady, Known, Untouched
  <2>4. Shapes'
    BY <1>a, <1>b, <2>1, <2>2 DEF Shapes
  <2>5. Places'
    <3>1. \A s \in Streams : streams[s].at \notin Dirs
      BY <2>1 DEF Untouched, Dirs
    <3> QED
      BY <1>a, <1>b, <2>1, <3>1 DEF Places
  <2>6. Life'
    <3>1. \/ fut' = "failed" /\ receiver' = FALSE /\ handle' = handle
          \/ fut' = "unwinding" /\ handle' = "closing"
          \/ fut' = "waiting" /\ handle' = "open" /\ nat'.conn = "handshake"
      BY <1>1, <1>a DEF ConnectPoll, natVars, Shapes
    <3> QED
      BY <1>b, <2>1, <3>1 DEF Life, Untouched
  <2>7. Answers'
    <3>1. Over => Over'
      BY <1>b, <2>2 DEF Over
    <3>2. shutdown.tx /\ ~shutdown.sent
      BY <2>1 DEF Untouched
    <3>3. waiter \notin {"waiting", "done"}
      BY <1>a, <2>2 DEF Answers
    <3> QED
      BY <1>a, <1>b, <1>c, <2>2, <3>1, <3>2, <3>3 DEF Answers
  <2>8. acc.pc = "idle"
    BY <1>a, <2>1 DEF Accepting
  <2> QED
    BY <1>b, <1>c, <2>1, <2>3, <2>4, <2>5, <2>6, <2>7, <2>8, OnwardSame, OutsideStep
<1>2. CASE AwaitConnected
  <2>1. fut = "waiting" /\ handle = "open" /\ UNCHANGED <<incoming, receiver, streams, nat>>
    BY <1>2, <1>a DEF AwaitConnected, ConnectAnswered, Life, chanVars
  <2>2. /\ fut' \in {"ready", "unwinding"} /\ (fut' = "ready" => handle' = handle)
        /\ fut' = "unwinding" => handle' = "closing"
        /\ result' = "Ok" => connected.val = "Ok"
    BY <1>2 DEF AwaitConnected, ConnectAnswered, NoneYet
  <2>3. Steady
    BY <1>b, <2>1 DEF Steady, Known
  <2>4. Shapes'
    BY <1>a, <1>b, <2>1 DEF Shapes
  <2>5. Places'
    BY <1>a, <1>b, <2>1, PlacesKept
  <2>6. Life'
    BY <1>a, <1>b, <2>1, <2>2 DEF Life
  <2>7. Answers'
    BY <1>a, <1>b, <1>c, <2>1, <2>2 DEF Answers, Over
  <2>8. acc.pc = "idle"
    BY <1>a, <2>1 DEF Accepting
  <2> QED
    BY <1>b, <1>c, <2>1, <2>3, <2>4, <2>5, <2>6, <2>7, <2>8, OnwardSame, OutsideStep
<1>3. CASE DropConnect
  <2>1. /\ fut \in {"reserved", "waiting"} /\ UNCHANGED <<incoming, streams, nat, result>>
        /\ \/ fut = "reserved" /\ fut' = "dropped" /\ receiver' = FALSE /\ handle' = handle
           \/ fut = "waiting" /\ fut' = "unwinding" /\ handle' = "closing" /\ receiver' = receiver
    BY <1>3 DEF DropConnect
  <2>2. Steady
    BY <1>a, <1>b, <2>1 DEF Steady, Known, Life
  <2>r. receiver' \in BOOLEAN
    BY <1>a, <2>1 DEF Shapes
  <2>3. Shapes'
    BY <1>a, <1>b, <2>1, <2>r DEF Shapes
  <2>4. Places'
    <3>1. fut = "reserved" => \A s \in Streams : streams[s].at \notin Dirs
      BY <1>a DEF Life, Untouched, Dirs
    <3> QED
      BY <1>a, <1>b, <2>1, <3>1 DEF Places
  <2>5. Life'
    BY <1>a, <1>b, <2>1 DEF Life, Untouched
  <2>6. Answers'
    BY <1>a, <1>b, <2>1, <2>2, AnswersKept
  <2>7. acc.pc = "idle"
    BY <1>a, <2>1 DEF Accepting
  <2> QED
    BY <1>b, <1>c, <2>1, <2>2, <2>3, <2>4, <2>5, <2>6, <2>7, OnwardSame, OutsideStep
<1>4. CASE Unwound
  <2>1. /\ fut = "unwinding" /\ fut' \in {"failed", "dropped"} /\ handle = "closed" /\ DropReceiver
        /\ UNCHANGED <<result, handle, nat>>
    BY <1>4 DEF Unwound, natVars
  <2>2. /\ incoming' \in [Dirs -> Seq(Streams)] /\ ~receiver' /\ receiver' \in BOOLEAN
        /\ streams' \in [Streams -> [at : {"none", "callback", "h3", "closed"} \cup Dirs, closes : Nat]]
        /\ \A d \in Dirs : incoming'[d] = <<>>
        /\ Onward
        /\ Places'
    BY <1>a, <1>b, <2>1, DropReceiverKeeps
  <2>3. Steady
    BY <1>b, <2>1 DEF Steady, Known
  <2>4. Shapes'
    BY <1>a, <1>b, <2>1, <2>2 DEF Shapes
  <2>5. Life'
    BY <1>a, <1>b, <2>1, <2>2 DEF Life
  <2>6. Answers'
    BY <1>a, <1>b, <2>1, <2>3, AnswersKept
  <2>7. acc.pc = "idle"
    BY <1>a, <2>1 DEF Accepting
  <2>8. \A d \in Dirs : incoming[d] = <<>> => incoming'[d] = <<>>
    BY <2>2
  <2>9. Places'
    BY <2>2
  <2>10. Onward
    BY <2>2
  <2> QED
    BY <1>b, <1>c, <2>3, <2>4, <2>5, <2>6, <2>7, <2>8, <2>9, <2>10, OutsideStep
<1> QED
  BY <1>1, <1>2, <1>3, <1>4

\* Closing a stream that is in no queue.
LEMMA CloseKeeps ==
    ASSUME Shapes, Places, NEW s \in Streams, streams[s].at \in {"callback", "h3"},
           streams' = CloseStream(streams, s), UNCHANGED <<incoming, receiver>>,
           \A t \in Streams : t # s /\ streams[t].at = "callback" => cb'.todo # <<>> /\ cb'.stream = t
    PROVE  /\ streams' \in [Streams -> [at : {"none", "callback", "h3", "closed"} \cup Dirs, closes : Nat]]
           /\ streams'[s].at = "closed" /\ \A t \in Streams : t # s => streams'[t] = streams[t]
           /\ Places'
<1>1. streams[s] \in [at : {"none", "callback", "h3", "closed"} \cup Dirs, closes : Nat] /\ streams[s].closes = 0
  BY DEF Shapes, Places
<1>2. PICK r : r = [at |-> "closed", closes |-> streams[s].closes + 1]
  OBVIOUS
<1>3. r \in [at : {"none", "callback", "h3", "closed"} \cup Dirs, closes : Nat] /\ r.at = "closed" /\ r.closes = 1
  BY <1>1, <1>2
<1>4. streams' = [streams EXCEPT ![s] = r]
  BY <1>2 DEF CloseStream
<1>5. /\ streams' \in [Streams -> [at : {"none", "callback", "h3", "closed"} \cup Dirs, closes : Nat]]
      /\ streams'[s] = r /\ \A t \in Streams : t # s => streams'[t] = streams[t]
  BY <1>3, <1>4 DEF Shapes
<1>6. "closed" \notin Dirs /\ "callback" \notin Dirs /\ "h3" \notin Dirs
  BY DEF Dirs
<1>7. Places'
  <2>1. \A t \in Streams : streams'[t].closes = (IF streams'[t].at = "closed" THEN 1 ELSE 0)
    BY <1>3, <1>5 DEF Places
  <2>2. \A t \in Streams : streams'[t].at = "callback" => cb'.todo # <<>> /\ cb'.stream = t
    BY <1>3, <1>5 DEF Places
  <2>3. \A t \in Streams : \A d \in Dirs : streams'[t].at = d <=> streams[t].at = d
    BY <1>3, <1>5, <1>6
  <2>4. \A d \in Dirs : \A i \in DOMAIN incoming[d] : incoming[d][i] \in Streams
    BY DEF Shapes
  <2>5. \A d \in Dirs : \A i \in DOMAIN incoming[d] : streams'[incoming[d][i]].at = d
    BY <2>3, <2>4 DEF Places
  <2>6. ~receiver' => \A t \in Streams : streams'[t].at \notin Dirs
    BY <2>3 DEF Places
  <2>7. \A t \in Streams : \A d \in Dirs : streams'[t].at = d => \E i \in DOMAIN incoming[d] : incoming[d][i] = t
    BY <2>3 DEF Places
  <2> QED
    BY <2>1, <2>2, <2>5, <2>6, <2>7 DEF Places
<1> QED
  BY <1>3, <1>5, <1>7

\* The Connection, its opener, its waiter and its accepted streams.
LEMMA HandlesKeep ==
    ASSUME IInv, \/ DropConnection \/ CloneOpener \/ DropOpener \/ OpenerClose
                 \/ GetShutdownWaiter \/ WaitDone \/ \E s \in Streams : DropAccepted(s)
    PROVE  IInv'
<1>a. Shapes /\ CauseKnown /\ Places /\ Life /\ Answers /\ Accepting
  BY DEF IInv
<1>b. UNCHANGED <<told, cb, fault, senders, errs, acc, connected, result, shutdown>>
  BY DEF DropConnection, CloneOpener, DropOpener, OpenerClose, GetShutdownWaiter, WaitDone, DropAccepted,
         waitVars, chanVars, cbVars, accVars, futVars
<1>c. UNCHANGED conn => conn' \in ConnSlot /\ CauseKnown' /\ (Known <=> Known')
  BY <1>a, <1>b, SlotKept
<1>1. CASE DropConnection
  <2>1. /\ fut = "ready" /\ fut' = "dropped" /\ handle = "open" /\ acc.pc = "idle" /\ DropReceiver
        /\ waiter' = (IF waiter = "held" THEN "gone" ELSE waiter)
        /\ handle' = (IF opener \in {"none", "gone"} THEN "closing" ELSE handle)
        /\ UNCHANGED <<conn, opener, nat>>
    BY <1>1, <1>a DEF DropConnection, Life, NoPoll
  <2>2. /\ incoming' \in [Dirs -> Seq(Streams)] /\ ~receiver' /\ receiver' \in BOOLEAN
        /\ streams' \in [Streams -> [at : {"none", "callback", "h3", "closed"} \cup Dirs, closes : Nat]]
        /\ \A d \in Dirs : incoming'[d] = <<>>
        /\ Onward /\ Places'
    BY <1>a, <1>b, <2>1, DropReceiverKeeps
  <2>3. Steady
    BY <1>b, <2>1 DEF Steady, Known
  <2>4. Shapes'
    BY <1>a, <1>b, <2>1, <2>2 DEF Shapes
  <2>5. Life'
    BY <1>a, <1>b, <2>1, <2>2 DEF Life
  <2>6. Answers'
    <3>1. waiter' \in {"waiting", "done"} => waiter' = waiter
      BY <2>1
    <3> QED
      BY <1>a, <1>b, <2>1, <3>1 DEF Answers, Known, Over
  <2>7. \A d \in Dirs : incoming[d] = <<>> => incoming'[d] = <<>>
    BY <2>2
  <2> QED
    BY <1>b, <1>c, <2>1, <2>2, <2>3, <2>4, <2>5, <2>6, <2>7, OutsideStep
<1>2. CASE CloneOpener \/ DropOpener
  <2>1. /\ UNCHANGED <<conn, streams, incoming, receiver, nat, fut, waiter>> /\ handle # "closed"
        /\ \/ fut = "ready" /\ opener' = "live" /\ handle' = handle
           \/ opener = "live" /\ opener' = "gone" /\ handle' = (IF fut = "dropped" THEN "closing" ELSE handle)
    BY <1>2, <1>a DEF CloneOpener, DropOpener, Life, futVars, waitVars, chanVars, natVars
  <2>2. Steady
    BY <1>b, <2>1 DEF Steady, Known
  <2>3. Shapes'
    BY <1>a, <1>b, <2>1 DEF Shapes
  <2>4. Places'
    BY <1>a, <1>b, <2>1, PlacesKept
  <2>5. Life'
    BY <1>a, <1>b, <2>1 DEF Life
  <2>6. Answers'
    BY <1>a, <1>b, <2>1, <2>2, AnswersKept
  <2> QED
    BY <1>b, <1>c, <2>1, <2>2, <2>3, <2>4, <2>5, <2>6, OnwardSame, OutsideStep
<1>3. CASE OpenerClose
  <2>1. /\ UNCHANGED <<streams, incoming, receiver, fut, waiter, handle>>
        /\ opener \in {"live", "closing"} /\ opener' \in {"live", "closing"}
        /\ \/ conn' = RecordConnTerminal(conn, "LocalClose") /\ nat' = nat
           \/ conn' = conn /\ nat' = [nat EXCEPT !.asked = TRUE]
    BY <1>3 DEF OpenerClose, futVars, waitVars, chanVars, natVars
  <2>2. conn' \in ConnSlot /\ CauseKnown' /\ (Known => Known') /\ (conn.observed => conn' = conn)
    BY <1>a, <1>b, <1>c, <2>1, RecordKeeps DEF ConnectionTerminal
  <2>3. /\ nat'.conn = nat.conn /\ nat'.up = nat.up /\ (nat.asked => nat'.asked)
        /\ nat' \in [conn : {"idle", "handshake", "connected", "ending", "complete"}, asked : BOOLEAN, up : BOOLEAN]
    BY <1>a, <2>1 DEF Shapes
  <2>4. Steady
    BY <1>b, <2>1, <2>2, <2>3 DEF Steady
  <2>5. Shapes'
    BY <1>a, <1>b, <2>1, <2>2, <2>3 DEF Shapes
  <2>6. Places'
    BY <1>a, <1>b, <2>1, PlacesKept
  <2>7. Life'
    BY <1>a, <1>b, <2>1, <2>3 DEF Life, Untouched
  <2>8. Answers'
    BY <1>a, <1>b, <2>1, <2>3, <2>4, AnswersKept
  <2> QED
    BY <1>b, <2>1, <2>2, <2>4, <2>5, <2>6, <2>7, <2>8, OnwardSame, OutsideStep
<1>4. CASE GetShutdownWaiter \/ WaitDone
  <2>1. /\ UNCHANGED <<conn, streams, incoming, receiver, fut, handle, nat, opener>>
        /\ \/ fut = "ready" /\ waiter' = (IF waiter = "held" THEN "waiting" ELSE waiter)
           \/ waiter = "waiting" /\ waiter' = "done" /\ (shutdown.sent \/ ~shutdown.tx)
    BY <1>4 DEF GetShutdownWaiter, WaitDone, futVars, waitVars, chanVars, natVars
  <2>2. Steady
    BY <1>b, <2>1 DEF Steady, Known
  <2>3. Shapes'
    BY <1>a, <1>b, <2>1 DEF Shapes
  <2>4. Places'
    BY <1>a, <1>b, <2>1, PlacesKept
  <2>5. Life'
    BY <1>a, <1>b, <2>1 DEF Life, Untouched
  <2>6. Answers'
    <3>1. fut = "ready" => nat.conn # "idle"
      BY <1>a DEF Life
    <3> QED
      BY <1>a, <1>b, <2>1, <3>1 DEF Answers, Known, Over
  <2> QED
    BY <1>b, <1>c, <2>1, <2>2, <2>3, <2>4, <2>5, <2>6, OnwardSame, OutsideStep
<1>5. ASSUME NEW s \in Streams, DropAccepted(s) PROVE IInv'
  <2>1. /\ streams[s].at = "h3" /\ streams' = CloseStream(streams, s)
        /\ UNCHANGED <<conn, incoming, receiver, fut, waiter, handle, nat, opener>>
    BY <1>5 DEF DropAccepted, futVars, waitVars, chanVars, natVars
  <2>2. \A t \in Streams : t # s /\ streams[t].at = "callback" => cb'.todo # <<>> /\ cb'.stream = t
    BY <1>a, <1>b DEF Places
  <2>3. /\ streams' \in [Streams -> [at : {"none", "callback", "h3", "closed"} \cup Dirs, closes : Nat]]
        /\ streams'[s].at = "closed" /\ \A t \in Streams : t # s => streams'[t] = streams[t]
        /\ Places'
    BY <1>a, <2>1, <2>2, CloseKeeps
  <2>4. Onward
    BY <2>1, <2>3 DEF Onward
  <2>5. Steady
    BY <1>b, <2>1 DEF Steady, Known
  <2>6. Shapes'
    BY <1>a, <1>b, <2>1, <2>3 DEF Shapes
  <2>7. Life'
    <3>1. ~Untouched
      BY <2>1 DEF Untouched
    <3> QED
      BY <1>a, <2>1, <3>1, LifeKept
  <2>8. Answers'
    BY <1>a, <1>b, <2>1, <2>5, AnswersKept
  <2> QED
    BY <1>b, <1>c, <2>1, <2>3, <2>4, <2>5, <2>6, <2>7, <2>8, OutsideStep
<1> QED
  BY <1>1, <1>2, <1>3, <1>4, <1>5

\* A step of an accept poll, which touches neither the callback nor the connection's life.
LEMMA AcceptPollStep ==
    ASSUME IInv, fut = "ready", Shapes', CauseKnown', conn.observed => conn' = conn, Known => Known',
           UNCHANGED <<cb, fault, nat, handle, fut, opener, receiver, result, connected, shutdown, waiter>>,
           Onward, Places', Accepting', NoReasonlessAccept'
    PROVE  IInv'
<1>1. Steady
  BY DEF Steady
<1>2. Todo' /\ Offered'
  BY <1>1, TodoKept, OfferedKept DEF IInv
<1>3. Life'
  <2>1. ~Untouched
    BY DEF IInv, Life, Untouched
  <2> QED
    BY <2>1, LifeKept DEF IInv
<1>4. Answers'
  BY <1>1, AnswersKept DEF IInv
<1> QED
  BY <1>2, <1>3, <1>4 DEF IInv

\* What is left of a queue.
LEMMA TailIndices ==
    ASSUME NEW S, NEW q \in Seq(S), q # <<>>
    PROVE  /\ Head(q) = q[1] /\ 1 \in DOMAIN q /\ Tail(q) \in Seq(S)
           /\ \A i \in DOMAIN Tail(q) : i + 1 \in DOMAIN q /\ i + 1 # 1 /\ Tail(q)[i] = q[i + 1]
           /\ \A i \in DOMAIN q : i # 1 => i - 1 \in DOMAIN Tail(q) /\ Tail(q)[i - 1] = q[i]
OBVIOUS

\* An acceptor hands the first stream of a queue to h3.
LEMMA TakeKeeps ==
    ASSUME Shapes, Places, NEW d \in Dirs, incoming[d] # <<>>,
           incoming' = [incoming EXCEPT ![d] = Tail(incoming[d])],
           streams' = [streams EXCEPT ![Head(incoming[d])].at = "h3"], UNCHANGED <<receiver, cb>>
    PROVE  /\ incoming' \in [Dirs -> Seq(Streams)]
           /\ streams' \in [Streams -> [at : {"none", "callback", "h3", "closed"} \cup Dirs, closes : Nat]]
           /\ \A e \in Dirs : incoming[e] = <<>> => incoming'[e] = <<>>
           /\ Onward /\ Places'
<1> DEFINE q == incoming[d]
           s == Head(q)
<1>1. q \in Seq(Streams) /\ q # <<>>
  BY DEF Shapes
<1> HIDE DEF q
<1>2. /\ s = q[1] /\ 1 \in DOMAIN q /\ Tail(q) \in Seq(Streams)
      /\ \A i \in DOMAIN Tail(q) : i + 1 \in DOMAIN q /\ i + 1 # 1 /\ Tail(q)[i] = q[i + 1]
      /\ \A i \in DOMAIN q : i # 1 => i - 1 \in DOMAIN Tail(q) /\ Tail(q)[i - 1] = q[i]
  BY <1>1, TailIndices
<1>3. s \in Streams /\ streams[s].at = d
  BY <1>1, <1>2 DEF Places, q
<1> HIDE DEF s
<1>4. "closed" \notin Dirs /\ "callback" \notin Dirs /\ "h3" \notin Dirs /\ "none" \notin Dirs
  BY DEF Dirs
<1>5. /\ streams' \in [Streams -> [at : {"none", "callback", "h3", "closed"} \cup Dirs, closes : Nat]]
      /\ streams'[s].at = "h3" /\ streams'[s].closes = streams[s].closes
      /\ \A t \in Streams : t # s => streams'[t] = streams[t]
  <2>1. streams[s] \in [at : {"none", "callback", "h3", "closed"} \cup Dirs, closes : Nat]
    BY <1>3 DEF Shapes
  <2>2. PICK r : r = [streams[s] EXCEPT !.at = "h3"]
    OBVIOUS
  <2>3. /\ r \in [at : {"none", "callback", "h3", "closed"} \cup Dirs, closes : Nat]
        /\ r.at = "h3" /\ r.closes = streams[s].closes
    BY <2>1, <2>2
  <2>4. streams' = [streams EXCEPT ![s] = r]
    BY <2>2 DEF s, q
  <2> QED
    BY <1>3, <2>3, <2>4 DEF Shapes
<1>6. /\ incoming' \in [Dirs -> Seq(Streams)] /\ incoming'[d] = Tail(q)
      /\ \A e \in Dirs : e # d => incoming'[e] = incoming[e]
  BY <1>2 DEF Shapes, q
<1>7. Onward
  BY <1>3, <1>4, <1>5 DEF Onward
<1>8. Places'
  <2>1. \A t \in Streams : streams'[t].closes = (IF streams'[t].at = "closed" THEN 1 ELSE 0)
    BY <1>3, <1>4, <1>5 DEF Places
  <2>2. \A t \in Streams : streams'[t].at = "callback" => cb'.todo # <<>> /\ cb'.stream = t
    BY <1>5 DEF Places
  <2>3. ASSUME NEW e \in Dirs, NEW i \in DOMAIN incoming'[e] PROVE streams'[incoming'[e][i]].at = e
    <3>1. CASE e = d
      <4>1. i + 1 \in DOMAIN q /\ i + 1 # 1 /\ incoming'[e][i] = q[i + 1]
        BY <1>2, <1>6, <2>3, <3>1
      <4>2. q[i + 1] # s /\ q[i + 1] \in Streams /\ streams[q[i + 1]].at = d
        BY <1>1, <1>2, <4>1 DEF Places, q
      <4> QED
        BY <1>5, <3>1, <4>1, <4>2
    <3>2. CASE e # d
      <4>1. incoming'[e] = incoming[e] /\ incoming[e][i] \in Streams /\ streams[incoming[e][i]].at = e
        BY <1>6, <2>3, <3>2 DEF Places, Shapes
      <4> QED
        BY <1>3, <1>5, <3>2, <4>1
    <3> QED
      BY <3>1, <3>2
  <2>4. ASSUME NEW e \in Dirs, NEW i \in DOMAIN incoming'[e], NEW j \in DOMAIN incoming'[e],
               incoming'[e][i] = incoming'[e][j]
        PROVE  i = j
    <3>1. CASE e = d
      <4>1. i \in Nat /\ j \in Nat
        BY <1>6, <2>4
      <4>2. i + 1 \in DOMAIN q /\ j + 1 \in DOMAIN q /\ q[i + 1] = q[j + 1]
        BY <1>2, <1>6, <2>4, <3>1
      <4>3. i + 1 = j + 1
        BY <4>2 DEF Places, q
      <4> QED
        BY <4>1, <4>3
    <3>2. CASE e # d
      BY <1>6, <2>4, <3>2 DEF Places
    <3> QED
      BY <3>1, <3>2
  <2>5. ASSUME NEW t \in Streams, NEW e \in Dirs, streams'[t].at = e
        PROVE  \E i \in DOMAIN incoming'[e] : incoming'[e][i] = t
    <3>1. t # s /\ streams[t].at = e
      BY <1>4, <1>5, <2>5
    <3>2. PICK i \in DOMAIN incoming[e] : incoming[e][i] = t
      BY <3>1 DEF Places
    <3>3. CASE e = d
      <4>1. i \in DOMAIN q /\ q[i] = t /\ i # 1
        BY <1>2, <3>1, <3>2, <3>3 DEF q
      <4> QED
        BY <1>2, <1>6, <3>3, <4>1
    <3>4. CASE e # d
      BY <1>6, <3>2, <3>4
    <3> QED
      BY <3>3, <3>4
  <2>6. ~receiver' => \A t \in Streams : streams'[t].at \notin Dirs
    BY <1>4, <1>5 DEF Places
  <2> QED
    BY <2>1, <2>2, <2>3, <2>4, <2>5, <2>6 DEF Places
<1>9. \A e \in Dirs : incoming[e] = <<>> => incoming'[e] = <<>>
  BY <1>1, <1>6 DEF q
<1> QED
  BY <1>5, <1>6, <1>7, <1>8, <1>9

\* The accept polls.
LEMMA AcceptKeeps ==
    ASSUME IInv, AcceptStep \/ \E d \in Dirs : PollAccept(d) PROVE IInv'
<1>a. Shapes /\ CauseKnown /\ Places /\ Life /\ Accepting /\ NoReasonlessAccept
  BY DEF IInv
<1>b. /\ fut = "ready" /\ handle = "open"
      /\ UNCHANGED <<cb, fault, nat, handle, fut, opener, receiver, senders, result, connected, shutdown, waiter>>
  <2>1. CASE AcceptStep
    BY <2>1, <1>a DEF AcceptStep, PollIncoming, ObserveTerminal, Accepting, Life, futVars, waitVars, chanVars,
                      cbVars, natVars
  <2>2. CASE \E d \in Dirs : PollAccept(d)
    BY <2>2, <1>a DEF PollAccept, BeginAccept, Life, futVars, waitVars, chanVars, cbVars, natVars
  <2> QED
    BY <2>1, <2>2
<1>c. NoPoll \in [pc : {"idle", "channel", "observe"}, dir : Dirs] /\ NoPoll.pc = "idle"
  BY DEF NoPoll, Dirs
<1>1. ASSUME NEW d \in Dirs, Known, conn' = ObserveConnWinner(conn), told' = told \cup {conn.terminal},
             AcceptFails(d, conn.terminal), UNCHANGED <<streams, incoming>>,
             conn.terminal = "Internal" \/ (d \notin senders /\ incoming[d] = <<>>)
      PROVE  IInv'
  <2>1. /\ conn' \in ConnSlot /\ Known' /\ CauseKnown' /\ (conn.observed => conn' = conn)
        /\ conn'.terminal = conn.terminal /\ conn'.observed
    BY <1>a, <1>1, ReportKeeps
  <2>2. /\ DOMAIN errs' = Dirs /\ errs'[d] = conn.terminal /\ acc' = NoPoll
        /\ \A e \in Dirs : e # d => errs'[e] = errs[e]
    BY <1>a, <1>1 DEF AcceptFails, Shapes
  <2>3. Shapes'
    BY <1>a, <1>b, <1>c, <1>1, <2>1, <2>2 DEF Shapes
  <2>4. Places'
    BY <1>a, <1>b, <1>1, PlacesKept
  <2>5. Accepting'
    <3>1. \A e \in Dirs : errs'[e] \notin {NoneYet, "Internal"} => e \notin senders' /\ incoming'[e] = <<>>
      BY <1>a, <1>b, <1>1, <2>2 DEF Accepting
    <3>2. (\E e \in Dirs : errs'[e] = "Internal") => conn'.terminal = "Internal"
      BY <1>a, <2>1, <2>2 DEF Accepting
    <3> QED
      BY <1>b, <1>c, <2>1, <2>2, <3>1, <3>2 DEF Accepting
  <2>6. NoReasonlessAccept'
    <3>1. conn.terminal # Reasonless
      BY <1>a, <1>1 DEF Shapes, ConnSlot, ConnectionTerminal, SpecificCause, Reasonless, NoCause
    <3> QED
      BY <1>a, <2>2, <3>1 DEF NoReasonlessAccept
  <2> QED
    BY <1>b, <1>1, <2>1, <2>3, <2>4, <2>5, <2>6, OnwardSame, AcceptPollStep
<1>2. ASSUME NEW d \in Dirs, PollAccept(d) PROVE IInv'
  <2>1. CASE conn.terminal = "Internal"
    <3>1. /\ conn' = ObserveConnWinner(conn) /\ told' = told \cup {conn.terminal}
          /\ AcceptFails(d, conn.terminal) /\ UNCHANGED <<streams, incoming>>
      BY <1>2, <2>1 DEF PollAccept, BeginAccept, chanVars
    <3>2. Known
      BY <2>1 DEF Known, NoCause
    <3> QED
      BY <1>1, <1>2, <2>1, <3>1, <3>2
  <2>2. CASE conn.terminal # "Internal"
    <3>1. acc' = [pc |-> "channel", dir |-> d] /\ UNCHANGED <<conn, told, errs, streams, incoming>>
      BY <1>2, <2>2 DEF PollAccept, BeginAccept, chanVars
    <3>2. acc' \in [pc : {"idle", "channel", "observe"}, dir : Dirs] /\ acc'.pc = "channel"
      BY <1>2, <3>1
    <3>3. conn' \in ConnSlot /\ CauseKnown' /\ (Known <=> Known')
      BY <1>a, <3>1, SlotKept
    <3>4. Shapes'
      BY <1>a, <1>b, <3>1, <3>2, <3>3 DEF Shapes
    <3>5. Places'
      BY <1>a, <1>b, <3>1, PlacesKept
    <3>6. Accepting'
      BY <1>a, <1>b, <2>2, <3>1, <3>2, <3>3 DEF Accepting
    <3>7. NoReasonlessAccept'
      BY <1>a, <3>1, ErrsKept
    <3> QED
      BY <1>b, <3>1, <3>3, <3>4, <3>5, <3>6, <3>7, OnwardSame, AcceptPollStep
  <2> QED
    BY <2>1, <2>2
<1>3. CASE ObserveTerminal
  <2>1. acc.pc = "observe" /\ Known /\ acc.dir \in Dirs /\ acc.dir \notin senders /\ incoming[acc.dir] = <<>>
    BY <1>3, <1>a DEF ObserveTerminal, Accepting, Shapes
  <2>2. /\ conn' = ObserveConnWinner(conn) /\ told' = told \cup {conn.terminal}
        /\ AcceptFails(acc.dir, conn.terminal) /\ UNCHANGED <<streams, incoming>>
    BY <1>3, <2>1 DEF ObserveTerminal, CommitConn, OrElse, Known, chanVars
  <2> QED
    BY <1>1, <2>1, <2>2
<1>4. CASE PollIncoming
  <2> DEFINE d == acc.dir
  <2>1. d \in Dirs /\ acc.pc = "channel" /\ UNCHANGED <<conn, errs, told>>
    BY <1>4, <1>a DEF PollIncoming, Shapes
  <2>2. conn' \in ConnSlot /\ CauseKnown' /\ (Known <=> Known')
    BY <1>a, <2>1, SlotKept
  <2>3. NoReasonlessAccept'
    BY <1>a, <2>1, ErrsKept
  <2>4. CASE /\ incoming[d] # <<>> /\ incoming' = [incoming EXCEPT ![d] = Tail(incoming[d])]
             /\ streams' = [streams EXCEPT ![Head(incoming[d])].at = "h3"] /\ acc' = NoPoll
    <3>1. /\ incoming' \in [Dirs -> Seq(Streams)]
          /\ streams' \in [Streams -> [at : {"none", "callback", "h3", "closed"} \cup Dirs, closes : Nat]]
          /\ \A e \in Dirs : incoming[e] = <<>> => incoming'[e] = <<>>
          /\ Onward /\ Places'
      BY <1>a, <1>b, <2>1, <2>4, TakeKeeps
    <3>2. Shapes'
      BY <1>a, <1>b, <1>c, <2>1, <2>2, <2>4, <3>1 DEF Shapes
    <3>3. Accepting'
      BY <1>a, <1>b, <1>c, <2>1, <2>2, <2>4, <3>1 DEF Accepting
    <3> QED
      BY <1>b, <2>1, <2>2, <2>3, <3>1, <3>2, <3>3, AcceptPollStep
  <2>5. CASE acc' = NoPoll /\ UNCHANGED <<incoming, streams>>
    <3>1. Shapes'
      BY <1>a, <1>b, <1>c, <2>1, <2>2, <2>5 DEF Shapes
    <3>2. Accepting'
      BY <1>a, <1>b, <1>c, <2>1, <2>2, <2>5 DEF Accepting
    <3>3. Places'
      BY <1>a, <1>b, <2>5, PlacesKept
    <3> QED
      BY <1>b, <2>1, <2>2, <2>3, <2>5, <3>1, <3>2, <3>3, OnwardSame, AcceptPollStep
  <2>6. CASE /\ incoming[d] = <<>> /\ d \notin senders /\ acc' = [acc EXCEPT !.pc = "observe"]
             /\ UNCHANGED <<incoming, streams>>
    <3>1. acc' \in [pc : {"idle", "channel", "observe"}, dir : Dirs] /\ acc'.pc = "observe" /\ acc'.dir = d
      BY <1>a, <2>6 DEF Shapes
    <3>2. Shapes'
      BY <1>a, <1>b, <2>1, <2>2, <2>6, <3>1 DEF Shapes
    <3>3. Known
      BY <1>a, <1>b, <2>1, <2>6 DEF Accepting
    <3>4. Accepting'
      BY <1>a, <1>b, <2>1, <2>2, <2>6, <3>1, <3>3 DEF Accepting
    <3>5. Places'
      BY <1>a, <1>b, <2>6, PlacesKept
    <3> QED
      BY <1>b, <2>1, <2>2, <2>3, <2>6, <3>2, <3>4, <3>5, OnwardSame, AcceptPollStep
  <2> QED
    BY <1>4, <2>4, <2>5, <2>6 DEF PollIncoming
<1> QED
  BY <1>2, <1>3, <1>4 DEF AcceptStep

\* Another frontend's report.
LEMMA OtherKeeps ==
    ASSUME IInv, OtherFrontend PROVE IInv'
<1>a. Shapes /\ CauseKnown /\ Places /\ Life /\ Answers /\ Accepting
  BY DEF IInv
<1>1. /\ Known /\ conn' = ObserveConnWinner(conn) /\ told' = told \cup {conn.terminal}
      /\ UNCHANGED <<cb, fault, senders, errs, acc, connected, result, shutdown, waiter, opener, fut,
                     incoming, receiver, streams, handle, nat>>
  BY DEF OtherFrontend, CommitConn, Known, futVars, waitVars, chanVars, cbVars, accVars, natVars
<1>2. conn' \in ConnSlot /\ Known' /\ CauseKnown' /\ (conn.observed => conn' = conn)
  BY <1>a, <1>1, ReportKeeps
<1>3. Steady
  BY <1>1, <1>2 DEF Steady
<1>4. Shapes'
  BY <1>a, <1>1, <1>2 DEF Shapes
<1>5. Places' /\ Answers'
  BY <1>a, <1>1, <1>3, PlacesKept, AnswersKept
<1>6. Life'
  BY <1>a, <1>1, LifeKept DEF Untouched
<1> QED
  BY <1>1, <1>2, <1>3, <1>4, <1>5, <1>6, OnwardSame, OutsideStep

-----------------------------------------------------------------------------
(* The effect lists.                                                       *)

\* Concatenations of short lists, in full: one and two effects, and so on.
LEMMA Cat12 ==
    ASSUME NEW a \in Eff, NEW b \in Eff, NEW c \in Eff
    PROVE  <<a>> \o <<b, c>> = <<a, b, c>>
<1>1. <<a>> \in Seq(Eff) /\ <<b, c>> \in Seq(Eff) /\ <<a, b, c>> \in Seq(Eff)
  OBVIOUS
<1>2. <<a>> \o <<b, c>> \in Seq(Eff) /\ Len(<<a>> \o <<b, c>>) = 3
  BY <1>1, ConcatProperties
<1>3. \A i \in 1..3 : (<<a>> \o <<b, c>>)[i] = <<a, b, c>>[i]
  BY <1>1, ConcatProperties
<1> QED
  BY <1>1, <1>2, <1>3, SeqEqual

\* Two and two.
LEMMA Cat22 ==
    ASSUME NEW a \in Eff, NEW b \in Eff, NEW c \in Eff, NEW d \in Eff
    PROVE  <<a, b>> \o <<c, d>> = <<a, b, c, d>>
<1>1. <<a, b>> \in Seq(Eff) /\ <<c, d>> \in Seq(Eff) /\ <<a, b, c, d>> \in Seq(Eff)
  OBVIOUS
<1>2. <<a, b>> \o <<c, d>> \in Seq(Eff) /\ Len(<<a, b>> \o <<c, d>>) = 4
  BY <1>1, ConcatProperties
<1>3. \A i \in 1..4 : (<<a, b>> \o <<c, d>>)[i] = <<a, b, c, d>>[i]
  BY <1>1, ConcatProperties
<1> QED
  BY <1>1, <1>2, <1>3, SeqEqual

\* Three and one.
LEMMA Cat31 ==
    ASSUME NEW a \in Eff, NEW b \in Eff, NEW c \in Eff, NEW d \in Eff
    PROVE  <<a, b, c>> \o <<d>> = <<a, b, c, d>>
<1>1. <<a, b, c>> \in Seq(Eff) /\ <<d>> \in Seq(Eff) /\ <<a, b, c, d>> \in Seq(Eff)
  OBVIOUS
<1>2. <<a, b, c>> \o <<d>> \in Seq(Eff) /\ Len(<<a, b, c>> \o <<d>>) = 4
  BY <1>1, ConcatProperties
<1>3. \A i \in 1..4 : (<<a, b, c>> \o <<d>>)[i] = <<a, b, c, d>>[i]
  BY <1>1, ConcatProperties
<1> QED
  BY <1>1, <1>2, <1>3, SeqEqual

\* Three and two.
LEMMA Cat32 ==
    ASSUME NEW a \in Eff, NEW b \in Eff, NEW c \in Eff, NEW d \in Eff, NEW e \in Eff
    PROVE  <<a, b, c>> \o <<d, e>> = <<a, b, c, d, e>>
<1>1. <<a, b, c>> \in Seq(Eff) /\ <<d, e>> \in Seq(Eff) /\ <<a, b, c, d, e>> \in Seq(Eff)
  OBVIOUS
<1>2. <<a, b, c>> \o <<d, e>> \in Seq(Eff) /\ Len(<<a, b, c>> \o <<d, e>>) = 5
  BY <1>1, ConcatProperties
<1>3. \A i \in 1..5 : (<<a, b, c>> \o <<d, e>>)[i] = <<a, b, c, d, e>>[i]
  BY <1>1, ConcatProperties
<1> QED
  BY <1>1, <1>2, <1>3, SeqEqual

\* Four and two.
LEMMA Cat42 ==
    ASSUME NEW a \in Eff, NEW b \in Eff, NEW c \in Eff, NEW d \in Eff, NEW e \in Eff, NEW f \in Eff
    PROVE  <<a, b, c, d>> \o <<e, f>> = <<a, b, c, d, e, f>>
<1>1. <<a, b, c, d>> \in Seq(Eff) /\ <<e, f>> \in Seq(Eff) /\ <<a, b, c, d, e, f>> \in Seq(Eff)
  OBVIOUS
<1>2. <<a, b, c, d>> \o <<e, f>> \in Seq(Eff) /\ Len(<<a, b, c, d>> \o <<e, f>>) = 6
  BY <1>1, ConcatProperties
<1>3. \A i \in 1..6 : (<<a, b, c, d>> \o <<e, f>>)[i] = <<a, b, c, d, e, f>>[i]
  BY <1>1, ConcatProperties
<1> QED
  BY <1>1, <1>2, <1>3, SeqEqual

\* Five and three.
LEMMA Cat53 ==
    ASSUME NEW a \in Eff, NEW b \in Eff, NEW c \in Eff, NEW d \in Eff, NEW e \in Eff, NEW f \in Eff, NEW g \in Eff, NEW h \in Eff
    PROVE  <<a, b, c, d, e>> \o <<f, g, h>> = <<a, b, c, d, e, f, g, h>>
<1>1. <<a, b, c, d, e>> \in Seq(Eff) /\ <<f, g, h>> \in Seq(Eff) /\ <<a, b, c, d, e, f, g, h>> \in Seq(Eff)
  OBVIOUS
<1>2. <<a, b, c, d, e>> \o <<f, g, h>> \in Seq(Eff) /\ Len(<<a, b, c, d, e>> \o <<f, g, h>>) = 8
  BY <1>1, ConcatProperties
<1>3. \A i \in 1..8 : (<<a, b, c, d, e>> \o <<f, g, h>>)[i] = <<a, b, c, d, e, f, g, h>>[i]
  BY <1>1, ConcatProperties
<1> QED
  BY <1>1, <1>2, <1>3, SeqEqual

\* The effects the lists are made of.
LEMMA EffectTypes ==
    /\ \A c \in ConnectionTerminal : Effect("record", c) \in Eff
    /\ \A x \in {"Ok", "ABORTED", "INTERNAL", "CONNECTION_IDLE", "OTHER"} : Effect("resolve", x) \in Eff
    /\ Effect("close", "uni") \in Eff /\ Effect("close", "bidi") \in Eff
    /\ \A op \in {"own", "deliver", "notify", "force", "poison"} : Effect(op, "") \in Eff
    /\ Return("Ok") \in Eff /\ Return("Err") \in Eff
BY DEF Eff, Effect, Return, Dirs

\* accept_stream_id's failure, in full.
LEMMA AcceptStreamIdIs ==
    AcceptStreamId = <<Effect("record", "Internal"), Effect("close", "uni"), Effect("close", "bidi"), Return("Err")>>
<1> DEFINE a == Effect("record", "Internal")
           b == Effect("close", "uni")
           c == Effect("close", "bidi")
           d == Return("Err")
<1>1. a \in Eff /\ b \in Eff /\ c \in Eff /\ d \in Eff
  BY EffectTypes DEF ConnectionTerminal, SpecificCause
<1>2. AcceptStreamId = <<a>> \o <<b, c>> \o <<d>>
  BY DEF AcceptStreamId, WakeAcceptors
<1> HIDE DEF a, b, c, d
<1>3. <<a>> \o <<b, c>> = <<a, b, c>>
  BY <1>1, Cat12
<1>4. <<a, b, c>> \o <<d>> = <<a, b, c, d>>
  BY <1>1, Cat31
<1>5. AcceptStreamId = <<a, b, c, d>>
  BY <1>2, <1>3, <1>4, Zenon
<1> QED
  BY <1>5 DEF a, b, c, d

\* The ShutdownComplete arm, in full.
LEMMA OnShutdownCompleteIs ==
    OnShutdownComplete =
        <<Effect("record", "LocalClose"), Effect("resolve", "ABORTED"), Effect("close", "uni"),
          Effect("close", "bidi"), Effect("notify", ""), Return("Ok")>>
<1> DEFINE a == Effect("record", "LocalClose")
           b == Effect("resolve", "ABORTED")
           c == Effect("close", "uni")
           d == Effect("close", "bidi")
           e == Effect("notify", "")
           f == Return("Ok")
<1>1. a \in Eff /\ b \in Eff /\ c \in Eff /\ d \in Eff /\ e \in Eff /\ f \in Eff
  BY EffectTypes DEF ConnectionTerminal
<1>2. OnShutdownComplete = <<a, b>> \o <<c, d>> \o <<e, f>>
  BY DEF OnShutdownComplete, WakeAcceptors
<1> HIDE DEF a, b, c, d, e, f
<1>3. <<a, b>> \o <<c, d>> = <<a, b, c, d>>
  BY <1>1, Cat22
<1>4. <<a, b, c, d>> \o <<e, f>> = <<a, b, c, d, e, f>>
  BY <1>1, Cat42
<1>5. OnShutdownComplete = <<a, b, c, d, e, f>>
  BY <1>2, <1>3, <1>4, Zenon
<1> QED
  BY <1>5 DEF a, b, c, d, e, f

\* connection_recover, in full.
LEMMA ConnectionRecoverIs ==
    ASSUME NEW owned
    PROVE  ConnectionRecover(owned) =
               <<Effect("force", ""), Effect("record", "Internal"), Effect("resolve", "INTERNAL"),
                 Effect("close", "uni"), Effect("close", "bidi"),
                 Effect("notify", ""), Effect("poison", ""), Return(IF owned THEN "Ok" ELSE "Err")>>
<1> DEFINE a == Effect("force", "")
           b == Effect("record", "Internal")
           c == Effect("resolve", "INTERNAL")
           d == Effect("close", "uni")
           e == Effect("close", "bidi")
           f == Effect("notify", "")
           g == Effect("poison", "")
           h == Return(IF owned THEN "Ok" ELSE "Err")
<1>1. a \in Eff /\ b \in Eff /\ c \in Eff /\ d \in Eff /\ e \in Eff /\ f \in Eff /\ g \in Eff
  BY EffectTypes DEF ConnectionTerminal, SpecificCause
<1>2. h \in Eff
  BY EffectTypes
<1>3. ConnectionRecover(owned) = <<a, b, c>> \o <<d, e>> \o <<f, g, h>>
  BY DEF ConnectionRecover, WakeAcceptors
<1> HIDE DEF a, b, c, d, e, f, g, h
<1>4. <<a, b, c>> \o <<d, e>> = <<a, b, c, d, e>>
  BY <1>1, Cat32
<1>5. <<a, b, c, d, e>> \o <<f, g, h>> = <<a, b, c, d, e, f, g, h>>
  BY <1>1, <1>2, Cat53
<1>6. ConnectionRecover(owned) = <<a, b, c, d, e, f, g, h>>
  BY <1>3, <1>4, <1>5, Zenon
<1> QED
  BY <1>6 DEF a, b, c, d, e, f, g, h

\* A list as a callback starts it: it ends with its status, and the ends it reports come
\* after a record.
Ordered(q) ==
    /\ q \in Seq(Eff) /\ q # <<>>
    /\ \A i \in DOMAIN q :
          /\ q[i].op = "return" <=> i = Len(q)
          /\ q[i].op = "record" => q[i].x \in ConnectionTerminal
          /\ q[i].op = "resolve" /\ q[i].x # "Ok" => Before(q, i, "record")
          /\ q[i].op = "close" => Before(q, i, "record")

NoOk(q) == \A i \in DOMAIN q : q[i].op = "resolve" => q[i].x # "Ok"
NoNotify(q) == \A i \in DOMAIN q : q[i].op # "notify"
ForcesFirst(q) == \A i \in DOMAIN q : q[i].op = "notify" => Before(q, i, "force")

\* The status a poisoned or refusing callback returns.
LEMMA ReturnList ==
    ASSUME NEW st \in {"Ok", "Err"}, NEW q, q = <<Return(st)>>
    PROVE  Ordered(q) /\ NoOk(q) /\ NoNotify(q) /\ NoHand(q) /\ LastIs(q, st) /\ q[1].op = "return"
<1> DEFINE e == Return(st)
<1>1. e \in Eff /\ e.op = "return" /\ e.x = st
  BY DEF Eff, Return, Effect
<1>2. q = <<e>>
  OBVIOUS
<1> HIDE DEF e
<1>3. q \in Seq(Eff) /\ Len(q) = 1 /\ DOMAIN q = {1} /\ q[1] = e /\ q # <<>>
  BY <1>1, <1>2
<1> QED
  BY <1>1, <1>3 DEF Ordered, NoOk, NoNotify, NoHand, LastIs

\* The Connected arm.
LEMMA ConnectedList ==
    ASSUME NEW q, q = OnConnected
    PROVE  Ordered(q) /\ NoNotify(q) /\ NoHand(q)
<1> DEFINE a == Effect("resolve", "Ok")
           b == Return("Ok")
<1>1. a \in Eff /\ b \in Eff /\ a.op = "resolve" /\ a.x = "Ok" /\ b.op = "return"
  BY DEF Eff, Return, Effect
<1>2. q = <<a, b>>
  BY DEF OnConnected
<1> HIDE DEF a, b
<1>3. q \in Seq(Eff) /\ Len(q) = 2 /\ DOMAIN q = {1, 2} /\ q[1] = a /\ q[2] = b /\ q # <<>>
  BY <1>1, <1>2
<1> QED
  BY <1>1, <1>3 DEF Ordered, NoNotify, NoHand

\* The two ShutdownInitiated arms.
LEMMA InitiatedList ==
    ASSUME NEW why, NEW q, q = OnShutdownInitiated(why)
    PROVE  Ordered(q) /\ NoOk(q) /\ NoNotify(q) /\ NoHand(q)
<1> DEFINE c == IF why = "peer" THEN "PeerApplication" ELSE ClassifyTransport(Status(why))
           x == IF why = "peer" THEN "ABORTED" ELSE Status(why)
           a == Effect("record", c)
           b == Effect("resolve", x)
           d == Return("Ok")
<1>1. c \in ConnectionTerminal /\ x \in {"ABORTED", "CONNECTION_IDLE", "OTHER"}
  BY DEF ClassifyTransport, Status, ConnectionTerminal, SpecificCause
<1>2. q = <<a, b, d>>
  BY DEF OnShutdownInitiated
<1> HIDE DEF c, x
<1>3. /\ a \in Eff /\ b \in Eff /\ d \in Eff /\ a.op = "record" /\ a.x = c
      /\ b.op = "resolve" /\ b.x = x /\ d.op = "return"
  BY <1>1 DEF Eff, Return, Effect
<1> HIDE DEF a, b, d
<1>4. /\ q \in Seq(Eff) /\ Len(q) = 3 /\ DOMAIN q = {1, 2, 3} /\ q # <<>>
      /\ q[1] = a /\ q[2] = b /\ q[3] = d
  BY <1>2, <1>3
<1>5. Before(q, 2, "record")
  <2>1. 1 \in 1..(2 - 1)
    OBVIOUS
  <2> QED
    BY <1>3, <1>4, <2>1 DEF Before
<1> QED
  BY <1>1, <1>3, <1>4, <1>5 DEF Ordered, NoOk, NoNotify, NoHand

\* The refusal of a stream id.
LEMMA RefusalList ==
    ASSUME NEW q, q = AcceptStreamId
    PROVE  Ordered(q) /\ NoOk(q) /\ NoNotify(q) /\ NoHand(q) /\ LastIs(q, "Err")
<1> DEFINE a == Effect("record", "Internal")
           b == Effect("close", "uni")
           c == Effect("close", "bidi")
           d == Return("Err")
<1>1. q = <<a, b, c, d>>
  BY AcceptStreamIdIs
<1>2. /\ a \in Eff /\ b \in Eff /\ c \in Eff /\ d \in Eff
      /\ a.op = "record" /\ a.x \in ConnectionTerminal /\ b.op = "close" /\ c.op = "close"
      /\ d.op = "return" /\ d.x = "Err"
  BY DEF Eff, Return, Effect, ConnectionTerminal, SpecificCause, Dirs
<1> HIDE DEF a, b, c, d
<1>3. /\ q \in Seq(Eff) /\ Len(q) = 4 /\ DOMAIN q = {1, 2, 3, 4} /\ q # <<>>
      /\ q[1] = a /\ q[2] = b /\ q[3] = c /\ q[4] = d
  BY <1>1, <1>2
<1>4. Before(q, 2, "record") /\ Before(q, 3, "record")
  <2>1. 1 \in 1..(2 - 1) /\ 1 \in 1..(3 - 1)
    OBVIOUS
  <2> QED
    BY <1>2, <1>3, <2>1 DEF Before
<1> QED
  BY <1>2, <1>3, <1>4 DEF Ordered, NoOk, NoNotify, NoHand, LastIs

\* The ShutdownComplete arm.
LEMMA CompleteList ==
    ASSUME NEW q, q = OnShutdownComplete
    PROVE  Ordered(q) /\ NoOk(q) /\ NoHand(q)
<1> DEFINE a == Effect("record", "LocalClose")
           b == Effect("resolve", "ABORTED")
           c == Effect("close", "uni")
           d == Effect("close", "bidi")
           e == Effect("notify", "")
           f == Return("Ok")
<1>1. q = <<a, b, c, d, e, f>>
  BY OnShutdownCompleteIs
<1>2. /\ a \in Eff /\ b \in Eff /\ c \in Eff /\ d \in Eff /\ e \in Eff /\ f \in Eff
      /\ a.op = "record" /\ a.x \in ConnectionTerminal /\ b.op = "resolve" /\ b.x = "ABORTED"
      /\ c.op = "close" /\ d.op = "close" /\ e.op = "notify" /\ f.op = "return"
  BY DEF Eff, Return, Effect, ConnectionTerminal, Dirs
<1> HIDE DEF a, b, c, d, e, f
<1>3. /\ q \in Seq(Eff) /\ Len(q) = 6 /\ DOMAIN q = {1, 2, 3, 4, 5, 6} /\ q # <<>>
      /\ q[1] = a /\ q[2] = b /\ q[3] = c /\ q[4] = d /\ q[5] = e /\ q[6] = f
  BY <1>1, <1>2
<1>4. Before(q, 2, "record") /\ Before(q, 3, "record") /\ Before(q, 4, "record")
  <2>1. 1 \in 1..(2 - 1) /\ 1 \in 1..(3 - 1) /\ 1 \in 1..(4 - 1)
    OBVIOUS
  <2> QED
    BY <1>2, <1>3, <2>1 DEF Before
<1> QED
  BY <1>2, <1>3, <1>4 DEF Ordered, NoOk, NoHand

\* The recovery.
LEMMA RecoverList ==
    ASSUME NEW owned \in BOOLEAN, NEW q, q = ConnectionRecover(owned)
    PROVE  /\ Ordered(q) /\ NoOk(q) /\ ForcesFirst(q) /\ NoHand(q)
           /\ LastIs(q, IF owned THEN "Ok" ELSE "Err")
<1> DEFINE st == IF owned THEN "Ok" ELSE "Err"
           a == Effect("force", "")
           b == Effect("record", "Internal")
           c == Effect("resolve", "INTERNAL")
           d == Effect("close", "uni")
           e == Effect("close", "bidi")
           f == Effect("notify", "")
           g == Effect("poison", "")
           h == Return(st)
<1>1. q = <<a, b, c, d, e, f, g, h>> /\ st \in {"Ok", "Err"}
  BY ConnectionRecoverIs
<1> HIDE DEF st
<1>2. /\ a \in Eff /\ b \in Eff /\ c \in Eff /\ d \in Eff /\ e \in Eff /\ f \in Eff /\ g \in Eff /\ h \in Eff
      /\ a.op = "force" /\ b.op = "record" /\ b.x \in ConnectionTerminal /\ c.op = "resolve" /\ c.x = "INTERNAL"
      /\ d.op = "close" /\ e.op = "close" /\ f.op = "notify" /\ g.op = "poison" /\ h.op = "return" /\ h.x = st
  BY <1>1 DEF Eff, Return, Effect, ConnectionTerminal, SpecificCause, Dirs
<1> HIDE DEF a, b, c, d, e, f, g, h
<1>3. /\ q \in Seq(Eff) /\ Len(q) = 8 /\ DOMAIN q = {1, 2, 3, 4, 5, 6, 7, 8} /\ q # <<>>
      /\ q[1] = a /\ q[2] = b /\ q[3] = c /\ q[4] = d /\ q[5] = e /\ q[6] = f /\ q[7] = g /\ q[8] = h
  BY <1>1, <1>2
<1>4. Before(q, 3, "record") /\ Before(q, 4, "record") /\ Before(q, 5, "record") /\ Before(q, 6, "force")
  <2>1. 2 \in 1..(3 - 1) /\ 2 \in 1..(4 - 1) /\ 2 \in 1..(5 - 1) /\ 1 \in 1..(6 - 1)
    OBVIOUS
  <2> QED
    BY <1>2, <1>3, <2>1 DEF Before
<1>5. Ordered(q)
  BY <1>2, <1>3, <1>4 DEF Ordered
<1>6. NoOk(q) /\ ForcesFirst(q) /\ NoHand(q)
  BY <1>2, <1>3, <1>4 DEF NoOk, ForcesFirst, NoHand
<1>7. LastIs(q, st)
  BY <1>2, <1>3 DEF LastIs
<1> QED
  BY <1>5, <1>6, <1>7 DEF st

\* The acceptance of a stream.
LEMMA HandList ==
    ASSUME NEW q, q = Hand
    PROVE  /\ Ordered(q) /\ NoOk(q) /\ NoNotify(q)
           /\ Head(q).op = "own" /\ Head(Tail(q)).op = "deliver" /\ Tail(q) # <<>>
           /\ Tail(Tail(q)) = <<Return("Ok")>>
<1> DEFINE a == Effect("own", "")
           b == Effect("deliver", "")
           c == Return("Ok")
<1>1. q = <<a, b, c>>
  BY DEF Hand
<1>2. /\ a \in Eff /\ b \in Eff /\ c \in Eff /\ a.op = "own" /\ b.op = "deliver" /\ c.op = "return"
  BY DEF Eff, Return, Effect
<1> HIDE DEF a, b, c
<1>3. /\ q \in Seq(Eff) /\ Len(q) = 3 /\ DOMAIN q = {1, 2, 3} /\ q # <<>>
      /\ q[1] = a /\ q[2] = b /\ q[3] = c
  BY <1>1, <1>2
<1>4. Head(q) = a /\ Tail(q) = <<b, c>>
  BY <1>1
<1>5. Head(<<b, c>>) = b /\ Tail(<<b, c>>) = <<c>> /\ <<b, c>> # <<>>
  OBVIOUS
<1>6. Head(Tail(q)) = b /\ Tail(Tail(q)) = <<c>> /\ Tail(q) # <<>>
  BY <1>4, <1>5, Zenon
<1>7. Ordered(q) /\ NoOk(q) /\ NoNotify(q)
  BY <1>2, <1>3 DEF Ordered, NoOk, NoNotify
<1>8. <<c>> = <<Return("Ok")>>
  BY DEF c
<1> QED
  BY <1>2, <1>4, <1>6, <1>7, <1>8

-----------------------------------------------------------------------------
(* msquic.                                                                 *)

\* A callback starts on a list whose success and shutdown did happen.
LEMMA StartTodo ==
    ASSUME NEW q, Ordered(q), cb'.todo = q, NoOk(q) \/ nat'.up,
           NoNotify(q) \/ nat'.conn = "complete" \/ (fault' = "panic" /\ ForcesFirst(q))
    PROVE  Todo'
<1> SUFFICES ASSUME NEW i \in DOMAIN q PROVE EffectFine(q, i)'
  BY DEF Todo, Ordered
<1> QED
  BY DEF EffectFine, Ordered, NoOk, NoNotify, ForcesFirst, Before

\* What guard_callback is called with.
LEMMA IndicateIs ==
    ASSUME NEW ev, NEW effects, NEW s, NEW d, Indicate(ev, effects, s, d)
    PROVE  /\ cb.todo = <<>> /\ DOMAIN cb' = {"todo", "stream", "dir", "owned", "recovering"}
           /\ cb'.stream = s /\ cb'.dir = d /\ cb'.owned = FALSE /\ cb'.recovering = FALSE
           /\ cb'.todo = effects \/ cb'.todo = ConnPoisonDisp(ev)
BY DEF Indicate, Quiet

\* An event without a stream.
LEMMA EventKeeps ==
    ASSUME IInv, NEW ev, NEW effects, Indicate(ev, effects, NoStream, "bidi"),
           Ordered(effects), NoHand(effects), NoOk(effects) \/ nat'.up,
           NoNotify(effects) \/ nat'.conn = "complete",
           nat.conn \notin {"idle", "complete"}, nat'.conn # "idle", nat.up => nat'.up, nat.asked => nat'.asked,
           nat' \in [conn : {"idle", "handshake", "connected", "ending", "complete"}, asked : BOOLEAN, up : BOOLEAN],
           UNCHANGED <<fault, streams, handle>>, NativeUnchanged
    PROVE  IInv'
<1>a. Shapes /\ CauseKnown /\ Offered /\ Places /\ Life /\ Answers /\ Accepting /\ NoReasonlessAccept
  BY DEF IInv
<1>b. UNCHANGED <<fut, result, connected, shutdown, waiter, senders, incoming, receiver, conn, acc, errs, opener, told>>
  BY DEF NativeUnchanged, futVars, waitVars, chanVars, accVars
<1>1. /\ cb.todo = <<>> /\ DOMAIN cb' = {"todo", "stream", "dir", "owned", "recovering"}
      /\ cb'.stream = NoStream /\ cb'.dir = "bidi" /\ cb'.owned = FALSE /\ cb'.recovering = FALSE
      /\ (cb'.todo = effects \/ cb'.todo = ConnPoisonDisp(ev))
  BY IndicateIs
<1>2. PICK q : /\ cb'.todo = q /\ Ordered(q) /\ NoHand(q) /\ (NoOk(q) \/ nat'.up)
               /\ (NoNotify(q) \/ nat'.conn = "complete")
  <2>1. CASE cb'.todo = effects
    BY <2>1
  <2>2. CASE cb'.todo = ConnPoisonDisp(ev)
    <3>1. PICK st \in {"Ok", "Err"} : cb'.todo = <<Return(st)>>
      BY <2>2 DEF ConnPoisonDisp
    <3> QED
      BY <3>1, ReturnList
  <2> QED
    BY <1>1, <2>1, <2>2
<1>3. Todo'
  BY <1>2, StartTodo
<1>4. Offered'
  BY <1>1, <1>2 DEF Offered
<1>5. conn' \in ConnSlot /\ CauseKnown' /\ (Known <=> Known')
  BY <1>a, <1>b, SlotKept
<1>6. Steady
  BY <1>b, <1>5 DEF Steady
<1>7. Shapes'
  <2>1. "bidi" \in Dirs
    BY DEF Dirs
  <2> QED
    BY <1>a, <1>b, <1>1, <2>1 DEF Shapes
<1>8. Places'
  BY <1>a, <1>b, <1>1, PlacesKept
<1>9. Life'
  BY <1>a, <1>b, LifeKept DEF Untouched
<1>10. Answers'
  BY <1>a, <1>b, <1>6, AnswersKept
<1>11. Accepting' /\ NoReasonlessAccept'
  <2>1. /\ senders' \subseteq senders /\ \A d \in Dirs : d \notin senders' => d \notin senders \/ Known' \/ handle' = "closed"
        /\ \A d \in Dirs : d \notin senders /\ incoming[d] = <<>> => incoming'[d] = <<>>
    BY <1>b
  <2> QED
    BY <1>a, <1>b, <1>6, <2>1, AcceptingKept, ErrsKept
<1> QED
  BY <1>3, <1>4, <1>5, <1>7, <1>8, <1>9, <1>10, <1>11 DEF IInv

\* The peer starts a stream.
LEMMA PeerStreamKeeps ==
    ASSUME IInv, NEW s \in Streams, NEW d \in Dirs, PeerStreamStarted(s, d) PROVE IInv'
<1>a. Shapes /\ CauseKnown /\ Offered /\ Places /\ Life /\ Answers /\ Accepting /\ NoReasonlessAccept
  BY DEF IInv
<1>b. UNCHANGED <<fut, result, connected, shutdown, waiter, senders, incoming, receiver, conn, acc, errs, opener,
                  told, handle, nat>>
  BY DEF PeerStreamStarted, NativeUnchanged, futVars, waitVars, chanVars, accVars, natVars
<1>1. PICK effects \in {Hand, AcceptStreamId} : Indicate("PeerStreamStarted", effects, s, d)
  BY DEF PeerStreamStarted, OnPeerStreamStarted, Hand
<1>2. /\ cb.todo = <<>> /\ DOMAIN cb' = {"todo", "stream", "dir", "owned", "recovering"}
      /\ cb'.stream = s /\ cb'.dir = d /\ cb'.owned = FALSE /\ cb'.recovering = FALSE
      /\ (cb'.todo = effects \/ cb'.todo = <<Return("Err")>>)
  <2>1. ConnPoisonDisp("PeerStreamStarted") = <<Return("Err")>>
    BY DEF ConnPoisonDisp
  <2> QED
    BY <1>1, <2>1, IndicateIs
<1>3. /\ streams[s].at = "none" /\ streams' = [streams EXCEPT ![s].at = "callback"] /\ nat.conn = "connected"
      /\ fault = "panic" => fault' = "panic"
  BY DEF PeerStreamStarted, Faulty
<1>4. /\ streams' \in [Streams -> [at : {"none", "callback", "h3", "closed"} \cup Dirs, closes : Nat]]
      /\ streams'[s].at = "callback" /\ streams'[s].closes = streams[s].closes
      /\ \A t \in Streams : t # s => streams'[t] = streams[t]
  <2>1. streams[s] \in [at : {"none", "callback", "h3", "closed"} \cup Dirs, closes : Nat]
    BY <1>a DEF Shapes
  <2>2. PICK r : r = [streams[s] EXCEPT !.at = "callback"]
    OBVIOUS
  <2>3. /\ r \in [at : {"none", "callback", "h3", "closed"} \cup Dirs, closes : Nat]
        /\ r.at = "callback" /\ r.closes = streams[s].closes
    BY <2>1, <2>2
  <2>4. streams' = [streams EXCEPT ![s] = r]
    BY <1>3, <2>2
  <2> QED
    BY <1>a, <2>3, <2>4 DEF Shapes
<1>5. conn' \in ConnSlot /\ CauseKnown' /\ (Known <=> Known')
  BY <1>a, <1>b, SlotKept
<1>6. Steady
  BY <1>b, <1>3, <1>5 DEF Steady
<1>7. Shapes'
  BY <1>a, <1>b, <1>2, <1>4 DEF Shapes
<1>8. s # NoStream
  BY ConnectionAssumption
<1>9. Todo' /\ Offered'
  <2>1. CASE cb'.todo = Hand
    <3>1. PICK q : q = Hand
      OBVIOUS
    <3>2. Todo'
      BY <2>1, <3>1, HandList, StartTodo
    <3> QED
      BY <1>2, <1>4, <1>8, <2>1, <3>2 DEF Offered, Offers, Hand
  <2>2. ASSUME NEW q, cb'.todo = q, Ordered(q), NoOk(q), NoNotify(q), NoHand(q), LastIs(q, "Err")
        PROVE  Todo' /\ Offered'
    <3>1. Todo'
      BY <2>2, StartTodo
    <3>2. Refuses'
      BY <1>2, <1>4, <2>2 DEF Refuses, LastIs, NoHand
    <3> QED
      BY <1>2, <1>8, <3>1, <3>2 DEF Offered
  <2>3. CASE cb'.todo = AcceptStreamId
    BY <2>2, <2>3, RefusalList
  <2>4. CASE cb'.todo = <<Return("Err")>>
    BY <2>2, <2>4, ReturnList
  <2> QED
    BY <1>1, <1>2, <2>1, <2>3, <2>4
<1>10. Places'
  <2>1. "callback" \notin Dirs /\ "none" \notin Dirs
    BY DEF Dirs
  <2>2. cb'.todo # <<>>
    BY <1>9, <1>1, <1>2, HandList, RefusalList, ReturnList DEF Ordered
  <2>3. \A t \in Streams : streams'[t].closes = (IF streams'[t].at = "closed" THEN 1 ELSE 0)
    BY <1>a, <1>3, <1>4 DEF Places
  <2>4. \A t \in Streams : streams'[t].at = "callback" => cb'.todo # <<>> /\ cb'.stream = t
    BY <1>a, <1>2, <1>4, <2>2 DEF Places
  <2>5. \A t \in Streams : \A e \in Dirs : streams'[t].at = e <=> streams[t].at = e
    BY <1>3, <1>4, <2>1
  <2>6. \A e \in Dirs : \A i \in DOMAIN incoming[e] : incoming[e][i] \in Streams
    BY <1>a DEF Shapes
  <2>7. \A e \in Dirs : \A i \in DOMAIN incoming[e] : streams'[incoming[e][i]].at = e
    BY <1>a, <2>5, <2>6 DEF Places
  <2>8. ~receiver' => \A t \in Streams : streams'[t].at \notin Dirs
    BY <1>a, <1>b, <2>5 DEF Places
  <2>9. \A t \in Streams : \A e \in Dirs : streams'[t].at = e => \E i \in DOMAIN incoming[e] : incoming[e][i] = t
    BY <1>a, <2>5 DEF Places
  <2> QED
    BY <1>a, <1>b, <2>3, <2>4, <2>7, <2>8, <2>9 DEF Places
<1>11. Life'
  BY <1>a, <1>b, <1>3, LifeKept DEF Untouched
<1>12. Answers'
  BY <1>a, <1>b, <1>6, AnswersKept
<1>13. Accepting' /\ NoReasonlessAccept'
  <2>1. /\ senders' \subseteq senders /\ \A e \in Dirs : e \notin senders' => e \notin senders \/ Known' \/ handle' = "closed"
        /\ \A e \in Dirs : e \notin senders /\ incoming[e] = <<>> => incoming'[e] = <<>>
    BY <1>b
  <2> QED
    BY <1>a, <1>b, <1>6, <2>1, AcceptingKept, ErrsKept
<1> QED
  BY <1>5, <1>7, <1>9, <1>10, <1>11, <1>12, <1>13 DEF IInv

\* The other steps of msquic.
LEMMA NativeKeeps ==
    ASSUME IInv, NativeStep PROVE IInv'
<1>a. Shapes /\ CauseKnown /\ Todo /\ Offered /\ Places /\ Life /\ Answers /\ Accepting /\ NoReasonlessAccept
  BY DEF IInv
<1>1. CASE HandshakeDone
  <2>1. /\ nat.conn = "handshake" /\ Indicate("Connected", OnConnected, NoStream, "bidi")
        /\ nat' = [nat EXCEPT !.conn = "connected", !.up = TRUE]
        /\ UNCHANGED <<fault, streams, handle>> /\ NativeUnchanged
    BY <1>1 DEF HandshakeDone
  <2>2. /\ nat'.conn = "connected" /\ nat'.up /\ nat'.asked = nat.asked
        /\ nat' \in [conn : {"idle", "handshake", "connected", "ending", "complete"}, asked : BOOLEAN, up : BOOLEAN]
    BY <1>a, <2>1 DEF Shapes
  <2>3. Ordered(OnConnected) /\ NoNotify(OnConnected) /\ NoHand(OnConnected)
    BY ConnectedList
  <2> QED
    BY <2>1, <2>2, <2>3, EventKeeps
<1>2. ASSUME NEW why \in Remotes, ShutdownInitiated(why) PROVE IInv'
  <2>1. /\ nat.conn \in {"handshake", "connected"}
        /\ Indicate("ShutdownInitiated", OnShutdownInitiated(why), NoStream, "bidi")
        /\ nat' = [nat EXCEPT !.conn = "ending"]
        /\ UNCHANGED <<fault, streams, handle>> /\ NativeUnchanged
    BY <1>2 DEF ShutdownInitiated
  <2>2. /\ nat'.conn = "ending" /\ nat'.up = nat.up /\ nat'.asked = nat.asked
        /\ nat' \in [conn : {"idle", "handshake", "connected", "ending", "complete"}, asked : BOOLEAN, up : BOOLEAN]
    BY <1>a, <2>1 DEF Shapes
  <2>3. PICK q : q = OnShutdownInitiated(why)
    OBVIOUS
  <2>4. Ordered(q) /\ NoOk(q) /\ NoNotify(q) /\ NoHand(q)
    BY <2>3, InitiatedList
  <2> QED
    BY <2>1, <2>2, <2>3, <2>4, EventKeeps
<1>3. CASE ShutdownCompletes
  <2>1. /\ nat.conn \in {"handshake", "connected", "ending"}
        /\ Indicate("ShutdownComplete", OnShutdownComplete, NoStream, "bidi")
        /\ nat' = [nat EXCEPT !.conn = "complete"]
        /\ UNCHANGED <<fault, streams, handle>> /\ NativeUnchanged
    BY <1>3 DEF ShutdownCompletes
  <2>2. /\ nat'.conn = "complete" /\ nat'.up = nat.up /\ nat'.asked = nat.asked
        /\ nat' \in [conn : {"idle", "handshake", "connected", "ending", "complete"}, asked : BOOLEAN, up : BOOLEAN]
    BY <1>a, <2>1 DEF Shapes
  <2>3. Ordered(OnShutdownComplete) /\ NoOk(OnShutdownComplete) /\ NoHand(OnShutdownComplete)
    BY CompleteList
  <2> QED
    BY <2>1, <2>2, <2>3, EventKeeps
<1>4. CASE LocalShutdown
  <2>1. /\ nat.conn \in {"handshake", "connected"} /\ nat' = [nat EXCEPT !.conn = "ending"]
        /\ UNCHANGED <<cb, fault, streams, handle, fut, result, connected, shutdown, waiter, senders, incoming,
                       receiver, conn, acc, errs, opener, told>>
    BY <1>4 DEF LocalShutdown, NativeUnchanged, futVars, waitVars, chanVars, accVars
  <2>2. /\ nat'.conn = "ending" /\ nat'.up = nat.up /\ nat'.asked = nat.asked
        /\ nat' \in [conn : {"idle", "handshake", "connected", "ending", "complete"}, asked : BOOLEAN, up : BOOLEAN]
    BY <1>a, <2>1 DEF Shapes
  <2>3. conn' \in ConnSlot /\ CauseKnown' /\ (Known <=> Known')
    BY <1>a, <2>1, SlotKept
  <2>4. Steady
    BY <2>1, <2>2, <2>3 DEF Steady
  <2>5. Shapes'
    BY <1>a, <2>1, <2>2 DEF Shapes
  <2>6. Places' /\ Answers'
    BY <1>a, <2>1, <2>4, PlacesKept, AnswersKept
  <2>7. Life'
    BY <1>a, <2>1, <2>2, LifeKept DEF Untouched
  <2> QED
    BY <2>1, <2>3, <2>4, <2>5, <2>6, <2>7, OnwardSame, OutsideStep
<1>5. CASE HandleClosed
  <2>1. /\ handle = "closing" /\ handle' = "closed" /\ nat.conn \in {"idle", "complete"} /\ senders' = {}
        /\ connected' = [connected EXCEPT !.tx = FALSE] /\ shutdown' = [shutdown EXCEPT !.tx = FALSE]
        /\ UNCHANGED <<cb, fault, streams, fut, result, waiter, incoming, receiver, conn, acc, errs, opener, told, nat>>
    BY <1>5 DEF HandleClosed, cbVars, accVars
  <2>2. /\ DOMAIN connected' = {"tx", "val"} /\ connected'.val = connected.val
        /\ shutdown' \in [tx : BOOLEAN, sent : BOOLEAN] /\ shutdown'.sent = shutdown.sent
    BY <1>a, <2>1 DEF Shapes
  <2>3. conn' \in ConnSlot /\ CauseKnown' /\ (Known <=> Known')
    BY <1>a, <2>1, SlotKept
  <2>4. Steady
    BY <2>1, <2>3 DEF Steady
  <2>5. Shapes'
    BY <1>a, <2>1, <2>2 DEF Shapes
  <2>6. Todo' /\ Offered' /\ Places'
    BY <1>a, <2>1, <2>4, OnwardSame, TodoKept, OfferedKept, PlacesKept
  <2>7. Life'
    BY <1>a, <2>1 DEF Life, Untouched
  <2>8. Answers'
    BY <1>a, <2>1, <2>2, <2>3 DEF Answers, Over
  <2>9. Accepting' /\ NoReasonlessAccept'
    BY <1>a, <2>1, <2>4, AcceptingKept, ErrsKept
  <2> QED
    BY <2>3, <2>5, <2>6, <2>7, <2>8, <2>9 DEF IInv
<1> QED
  BY <1>1, <1>2, <1>3, <1>4, <1>5, PeerStreamKeeps DEF NativeStep

-----------------------------------------------------------------------------
(* The running callback.                                                   *)

\* What is left of a callback's list once its first effect is done.
LEMMA TodoTail ==
    ASSUME Todo, cb.todo # <<>>, Steady, cb'.todo = Tail(cb.todo), Head(cb.todo).op # "return",
           Head(cb.todo).op = "record" => Known',
           Head(cb.todo).op = "force" => nat'.asked
    PROVE  Todo' /\ cb'.todo # <<>>
<1>1. PICK q : q = cb.todo
  OBVIOUS
<1>2. q \in Seq(Eff) /\ q # <<>> /\ \A i \in DOMAIN q : EffectFine(q, i)
  BY <1>1 DEF Todo
<1>3. PICK t : t = Tail(q)
  OBVIOUS
<1>4. /\ Head(q) = q[1] /\ 1 \in DOMAIN q /\ t \in Seq(Eff) /\ Len(t) = Len(q) - 1 /\ Len(q) \in Nat
      /\ \A i \in DOMAIN t : i \in Nat /\ i + 1 \in DOMAIN q /\ t[i] = q[i + 1]
  BY <1>2, <1>3
<1>5. t # <<>>
  <2>1. 1 # Len(q)
    BY <1>1, <1>2, <1>4 DEF EffectFine
  <2> QED
    BY <1>4, <2>1
<1>6. ASSUME NEW i \in DOMAIN t, NEW op, Before(q, i + 1, op) PROVE q[1].op = op \/ Before(t, i, op)
  <2>1. PICK j \in 1..i : q[j].op = op
    BY <1>4, <1>6 DEF Before
  <2>2. CASE j = 1
    BY <2>1, <2>2
  <2>3. CASE j # 1
    <3>1. j - 1 \in 1..(i - 1) /\ j - 1 \in DOMAIN t /\ (j - 1) + 1 = j
      BY <1>4, <2>3
    <3>2. t[j - 1].op = op
      BY <1>4, <2>1, <3>1
    <3> QED
      BY <3>1, <3>2 DEF Before
  <2> QED
    BY <2>2, <2>3
<1>7. ASSUME NEW i \in DOMAIN t PROVE EffectFine(t, i)'
  <2>1. EffectFine(q, i + 1) /\ t[i] = q[i + 1] /\ i \in Nat
    BY <1>2, <1>4
  <2>2. t[i].op = "return" <=> i = Len(t)
    BY <1>4, <2>1 DEF EffectFine
  <2>3. t[i].op = "record" => t[i].x \in ConnectionTerminal
    BY <2>1 DEF EffectFine
  <2>4. t[i].op = "resolve" /\ t[i].x = "Ok" => nat'.up
    BY <2>1 DEF EffectFine, Steady
  <2>5. (t[i].op = "resolve" /\ t[i].x # "Ok") \/ t[i].op = "close" => Known' \/ Before(t, i, "record")
    <3>1. (t[i].op = "resolve" /\ t[i].x # "Ok") \/ t[i].op = "close" => Known \/ Before(q, i + 1, "record")
      BY <2>1 DEF EffectFine
    <3> QED
      BY <1>1, <1>4, <1>6, <3>1 DEF Steady
  <2>6. t[i].op = "notify" =>
          nat'.conn = "complete" \/ (fault' = "panic" /\ (nat'.asked \/ Before(t, i, "force")))
    <3>1. t[i].op = "notify" =>
            nat.conn = "complete" \/ (fault = "panic" /\ (nat.asked \/ Before(q, i + 1, "force")))
      BY <2>1 DEF EffectFine
    <3> QED
      BY <1>1, <1>4, <1>6, <3>1 DEF Steady
  <2> QED
    BY <2>2, <2>3, <2>4, <2>5, <2>6 DEF EffectFine, Before
<1>8. cb'.todo = t
  BY <1>1, <1>3
<1> QED
  BY <1>4, <1>5, <1>7, <1>8 DEF Todo

\* The stream a callback was offered, when it does an effect that is not about it.
LEMMA OfferedTail ==
    ASSUME Shapes, Todo, Offered, cb.todo # <<>>, Head(cb.todo).op \notin {"own", "deliver", "return"},
           cb' = [cb EXCEPT !.todo = Tail(cb.todo)], UNCHANGED streams
    PROVE  Offered'
<1>1. PICK q : q = cb.todo
  OBVIOUS
<1>2. q \in Seq(Eff) /\ q # <<>> /\ \A i \in DOMAIN q : EffectFine(q, i)
  BY <1>1 DEF Todo
<1>3. PICK t : t = Tail(q)
  OBVIOUS
<1>4. /\ Head(q) = q[1] /\ 1 \in DOMAIN q /\ t \in Seq(Eff) /\ Len(t) = Len(q) - 1 /\ Len(q) \in Nat
      /\ \A i \in DOMAIN t : i \in Nat /\ i + 1 \in DOMAIN q /\ t[i] = q[i + 1]
  BY <1>2, <1>3
<1>5. Len(q) # 1
  BY <1>1, <1>2, <1>4 DEF EffectFine
<1>6. t # <<>> /\ Len(t) \in DOMAIN t /\ t[Len(t)] = q[Len(q)]
  BY <1>4, <1>5
<1>7. cb'.todo = t /\ cb'.stream = cb.stream /\ cb'.owned = cb.owned /\ cb'.recovering = cb.recovering
  BY <1>1, <1>3 DEF Shapes
<1>8. /\ NoHand(q) => NoHand(t)
      /\ \A st : LastIs(q, st) => LastIs(t, st)
  BY <1>4, <1>6 DEF NoHand, LastIs
<1>9. ~Offers
  <2>1. Hand # <<>> /\ Head(Hand).op = "own" /\ Head(Tail(Hand)).op = "deliver"
    BY HandList
  <2> QED
    BY <2>1 DEF Offers
<1>10. CASE cb.stream = NoStream
  BY <1>1, <1>2, <1>7, <1>8, <1>10 DEF Offered, NoHand
<1>11. CASE Refuses
  <2>1. Refuses'
    BY <1>1, <1>7, <1>8, <1>11 DEF Refuses, LastIs, NoHand
  <2>2. cb.stream = NoStream => ~cb.owned /\ NoHand(t)
    BY <1>1, <1>8, <1>11 DEF Refuses
  <2> QED
    BY <1>7, <2>1, <2>2 DEF Offered, NoHand
<1>12. CASE HandedOver /\ cb.stream # NoStream
  <2>1. cb.recovering
    BY <1>1, <1>4, <1>12 DEF HandedOver
  <2>2. HandedOver'
    BY <1>1, <1>7, <1>8, <1>12, <2>1 DEF HandedOver, LastIs, NoHand
  <2> QED
    BY <1>7, <1>12, <2>2 DEF Offered
<1> QED
  BY <1>9, <1>10, <1>11, <1>12 DEF Offered

\* A step of the callback keeps the invariant if it keeps the parts it is about: no
\* callback runs before connect's first poll.
LEMMA CallbackFrame ==
    ASSUME IInv, cb.todo # <<>>, UNCHANGED <<fut, handle, opener, receiver, result, waiter, acc, errs>>,
           Steady, nat'.conn = nat.conn, Shapes', CauseKnown', Todo', Offered', Places', Answers',
           senders' \subseteq senders, \A d \in Dirs : d \notin senders' => d \notin senders \/ Known',
           \A d \in Dirs : d \notin senders /\ incoming[d] = <<>> => incoming'[d] = <<>>
    PROVE  IInv'
<1>1. Life'
  BY DEF IInv, Life, Untouched
<1>2. Accepting' /\ NoReasonlessAccept'
  <2>1. Shapes /\ Accepting /\ NoReasonlessAccept
    BY DEF IInv
  <2>2. \A d \in Dirs : d \notin senders' => d \notin senders \/ Known' \/ handle' = "closed"
    OBVIOUS
  <2>3. Accepting'
    BY <2>1, <2>2, AcceptingKept
  <2> QED
    BY <2>1, <2>3, ErrsKept
<1> QED
  BY <1>1, <1>2 DEF IInv

\* An effect on the slot, a one-shot, a sender or msquic.
LEMMA EffectKeeps ==
    ASSUME IInv, CallbackStep PROVE IInv'
<1>a. Shapes /\ CauseKnown /\ Todo /\ Offered /\ Places /\ Life /\ Answers /\ Accepting
  BY DEF IInv
<1>1. PICK e : e = Head(cb.todo)
  OBVIOUS
<1>2. /\ cb.todo # <<>> /\ e.op \notin {"own", "deliver", "return"} /\ cb' = [cb EXCEPT !.todo = Tail(cb.todo)]
      /\ conn' = (IF e.op = "record" THEN RecordConnTerminal(conn, e.x) ELSE conn)
      /\ connected' = (IF e.op = "resolve" /\ connected.tx THEN [tx |-> FALSE, val |-> e.x] ELSE connected)
      /\ senders' = (IF e.op = "close" THEN senders \ {e.x} ELSE senders)
      /\ shutdown' = (IF e.op = "notify" /\ shutdown.tx THEN [tx |-> FALSE, sent |-> TRUE] ELSE shutdown)
      /\ nat' = (IF e.op = "force" THEN [nat EXCEPT !.asked = TRUE] ELSE nat)
      /\ UNCHANGED <<fut, result, waiter, incoming, receiver, fault, acc, errs, opener, streams, handle, told>>
  BY <1>1 DEF CallbackStep
<1>3. EffectFine(cb.todo, 1) /\ cb.todo[1] = e
  BY <1>a, <1>1, <1>2 DEF Todo
<1>4. /\ e.op = "record" => e.x \in ConnectionTerminal
      /\ e.op = "resolve" /\ e.x = "Ok" => nat.up
      /\ (e.op = "resolve" /\ e.x # "Ok") \/ e.op = "close" => Known
      /\ e.op = "notify" => Over
  <2>1. \A op : ~Before(cb.todo, 1, op)
    BY DEF Before
  <2> QED
    BY <1>3, <2>1 DEF EffectFine, Over
<1>5. /\ conn' \in ConnSlot /\ CauseKnown' /\ (Known => Known') /\ (conn.observed => conn' = conn)
      /\ e.op = "record" => Known'
  <2>1. CASE e.op = "record"
    BY <1>a, <1>2, <1>4, <2>1, RecordKeeps
  <2>2. CASE e.op # "record"
    BY <1>a, <1>2, <2>2, SlotKept
  <2> QED
    BY <2>1, <2>2
<1>6. /\ nat'.conn = nat.conn /\ nat'.up = nat.up /\ (nat.asked => nat'.asked) /\ (e.op = "force" => nat'.asked)
      /\ nat' \in [conn : {"idle", "handshake", "connected", "ending", "complete"}, asked : BOOLEAN, up : BOOLEAN]
  BY <1>a, <1>2 DEF Shapes
<1>7. Steady
  BY <1>2, <1>5, <1>6 DEF Steady
<1>8. Todo' /\ cb'.todo # <<>>
  <2>1. cb'.todo = Tail(cb.todo)
    BY <1>a, <1>2 DEF Shapes
  <2> QED
    BY <1>a, <1>1, <1>2, <1>5, <1>6, <1>7, <2>1, TodoTail
<1>9. Offered'
  BY <1>a, <1>1, <1>2, OfferedTail
<1>10. /\ DOMAIN cb' = {"todo", "stream", "dir", "owned", "recovering"}
       /\ cb'.stream = cb.stream /\ cb'.dir = cb.dir /\ cb'.owned = cb.owned /\ cb'.recovering = cb.recovering
  BY <1>a, <1>2 DEF Shapes
<1>11. /\ DOMAIN connected' = {"tx", "val"}
       /\ connected'.val = connected.val \/ (e.op = "resolve" /\ connected'.val = e.x)
  BY <1>a, <1>2 DEF Shapes
<1>12. /\ shutdown' \in [tx : BOOLEAN, sent : BOOLEAN]
       /\ shutdown' = shutdown \/ e.op = "notify"
  BY <1>a, <1>2 DEF Shapes
<1>13. Shapes'
  BY <1>a, <1>2, <1>5, <1>6, <1>10, <1>11, <1>12 DEF Shapes
<1>14. Places'
  BY <1>a, <1>2, <1>8, <1>10, PlacesKept
<1>15. Answers'
  <2>1. Over => Over'
    BY <1>2, <1>6 DEF Over
  <2>2. result' = "Ok" \/ connected'.val = "Ok" => nat'.up
    BY <1>a, <1>2, <1>4, <1>6, <1>11 DEF Answers
  <2>3. connected'.val \notin {NoneYet, "Ok"} => Known'
    BY <1>a, <1>4, <1>5, <1>11 DEF Answers
  <2>4. shutdown'.sent \/ ~shutdown'.tx => Over' \/ nat'.conn = "idle"
    BY <1>a, <1>4, <1>6, <1>12, <2>1 DEF Answers
  <2> QED
    BY <1>a, <1>2, <1>6, <2>1, <2>2, <2>3, <2>4 DEF Answers
<1>16. /\ senders' \subseteq senders /\ \A d \in Dirs : d \notin senders' => d \notin senders \/ Known'
       /\ \A d \in Dirs : d \notin senders /\ incoming[d] = <<>> => incoming'[d] = <<>>
  BY <1>2, <1>4, <1>5
<1> QED
  BY <1>2, <1>5, <1>6, <1>7, <1>8, <1>9, <1>13, <1>14, <1>15, <1>16, CallbackFrame

\* A step of the callback on the stream it was offered: nothing else is touched.
LEMMA StreamStepFrame ==
    ASSUME IInv, cb.todo # <<>>, Todo', Offered', Places',
           UNCHANGED <<fut, handle, opener, receiver, result, waiter, acc, errs, conn, told, nat, fault,
                       connected, shutdown, senders>>,
           incoming' \in [Dirs -> Seq(Streams)],
           \A d \in Dirs : d \notin senders /\ incoming[d] = <<>> => incoming'[d] = <<>>,
           streams' \in [Streams -> [at : {"none", "callback", "h3", "closed"} \cup Dirs, closes : Nat]],
           DOMAIN cb' = {"todo", "stream", "dir", "owned", "recovering"},
           cb'.stream \in Streams \cup {NoStream}, cb'.dir \in Dirs, cb'.owned \in BOOLEAN,
           cb'.recovering \in BOOLEAN
    PROVE  IInv'
<1>a. Shapes /\ CauseKnown /\ Answers
  BY DEF IInv
<1>1. conn' \in ConnSlot /\ CauseKnown' /\ (Known <=> Known')
  BY <1>a, SlotKept
<1>2. Steady
  BY <1>1 DEF Steady
<1>3. Shapes'
  BY <1>a DEF Shapes
<1>4. Answers'
  BY <1>a, <1>2, AnswersKept
<1> QED
  BY <1>1, <1>2, <1>3, <1>4, CallbackFrame

\* from_raw.
LEMMA OwnKeeps ==
    ASSUME IInv, OwnStream PROVE IInv'
<1>a. Shapes /\ Todo /\ Offered /\ Places
  BY DEF IInv
<1>1. /\ cb.todo # <<>> /\ Head(cb.todo).op = "own" /\ cb' = [cb EXCEPT !.todo = Tail(cb.todo), !.owned = TRUE]
      /\ UNCHANGED <<fut, handle, opener, receiver, result, waiter, acc, errs, conn, told, nat, fault,
                     connected, shutdown, senders, incoming, streams>>
  BY DEF OwnStream, futVars, waitVars, chanVars, accVars, natVars
<1>2. PICK r : r = [cb EXCEPT !.todo = Tail(cb.todo)]
  OBVIOUS
<1>3. /\ DOMAIN r = {"todo", "stream", "dir", "owned", "recovering"} /\ r.todo = Tail(cb.todo)
      /\ r.stream = cb.stream /\ r.dir = cb.dir /\ r.recovering = cb.recovering
  BY <1>a, <1>2 DEF Shapes
<1>4. cb' = [r EXCEPT !.owned = TRUE]
  BY <1>1, <1>2
<1>5. /\ DOMAIN cb' = {"todo", "stream", "dir", "owned", "recovering"} /\ cb'.todo = Tail(cb.todo)
      /\ cb'.stream = cb.stream /\ cb'.dir = cb.dir /\ cb'.recovering = cb.recovering /\ cb'.owned = TRUE
  BY <1>3, <1>4
<1>6. Steady
  BY <1>1 DEF Steady, Known
<1>7. Todo' /\ cb'.todo # <<>>
  BY <1>a, <1>1, <1>5, <1>6, TodoTail
<1>8. cb.stream # NoStream /\ Offers /\ cb.todo = Hand
  <2>1. ~NoHand(cb.todo)
    <3>1. Head(cb.todo) = cb.todo[1] /\ 1 \in DOMAIN cb.todo
      BY <1>a, <1>1 DEF Todo
    <3> QED
      BY <1>1, <3>1 DEF NoHand
  <2>2. cb.stream # NoStream /\ Offers
    BY <1>a, <1>1, <2>1 DEF Offered, Refuses, HandedOver
  <2>3. Head(Tail(Hand)).op = "deliver"
    BY HandList
  <2> QED
    BY <1>1, <2>2, <2>3 DEF Offers
<1>9. Offered'
  <2>1. cb'.todo = Tail(Hand)
    BY <1>5, <1>8
  <2>2. Offers'
    BY <1>1, <1>5, <1>8, <2>1 DEF Offers, Hand, Effect, Return
  <2> QED
    BY <1>5, <1>8, <2>2 DEF Offered
<1>10. Places'
  BY <1>a, <1>1, <1>5, <1>7, PlacesKept
<1> QED
  <2>1. /\ incoming' \in [Dirs -> Seq(Streams)]
        /\ streams' \in [Streams -> [at : {"none", "callback", "h3", "closed"} \cup Dirs, closes : Nat]]
        /\ cb'.stream \in Streams \cup {NoStream} /\ cb'.dir \in Dirs /\ cb'.recovering \in BOOLEAN
    BY <1>a, <1>1, <1>5 DEF Shapes
  <2> QED
    BY <1>1, <1>5, <1>7, <1>9, <1>10, <2>1, StreamStepFrame

\* attach and unbounded_send: the stream is queued once, in its direction.
LEMMA QueueKeeps ==
    ASSUME Shapes, Places, receiver, receiver' = receiver,
           NEW s \in Streams, NEW d \in Dirs, streams[s].at = "callback", cb.stream = s,
           incoming' = [incoming EXCEPT ![d] = Append(incoming[d], s)],
           streams' = [streams EXCEPT ![s].at = d]
    PROVE  /\ incoming' \in [Dirs -> Seq(Streams)]
           /\ \A e \in Dirs : e # d => incoming'[e] = incoming[e]
           /\ streams' \in [Streams -> [at : {"none", "callback", "h3", "closed"} \cup Dirs, closes : Nat]]
           /\ streams'[s].at = d
           /\ Places'
<1>1. PICK q : q = incoming[d]
  OBVIOUS
<1>2. PICK p : p = Append(q, s)
  OBVIOUS
<1>3. q \in Seq(Streams)
  BY <1>1 DEF Shapes
<1>4. /\ p \in Seq(Streams) /\ Len(q) \in Nat /\ DOMAIN q = 1..Len(q) /\ DOMAIN p = 1..(Len(q) + 1)
      /\ p[Len(q) + 1] = s /\ \A i \in DOMAIN q : p[i] = q[i]
  BY <1>2, <1>3
<1>5. /\ incoming' \in [Dirs -> Seq(Streams)] /\ incoming'[d] = p
      /\ \A e \in Dirs : e # d => incoming'[e] = incoming[e]
  BY <1>1, <1>2, <1>4 DEF Shapes
<1>6. /\ streams' \in [Streams -> [at : {"none", "callback", "h3", "closed"} \cup Dirs, closes : Nat]]
      /\ streams'[s].at = d /\ streams'[s].closes = streams[s].closes
      /\ \A t \in Streams : t # s => streams'[t] = streams[t]
  <2>1. streams[s] \in [at : {"none", "callback", "h3", "closed"} \cup Dirs, closes : Nat]
    BY DEF Shapes
  <2>2. PICK r : r = [streams[s] EXCEPT !.at = d]
    OBVIOUS
  <2>3. r \in [at : {"none", "callback", "h3", "closed"} \cup Dirs, closes : Nat] /\ r.at = d /\ r.closes = streams[s].closes
    BY <2>1, <2>2
  <2>4. streams' = [streams EXCEPT ![s] = r]
    BY <2>2
  <2>5. streams \in [Streams -> [at : {"none", "callback", "h3", "closed"} \cup Dirs, closes : Nat]]
    BY DEF Shapes
  <2>6. streams'[s] = r /\ \A t \in Streams : t # s => streams'[t] = streams[t]
    BY <2>4, <2>5
  <2>7. streams' \in [Streams -> [at : {"none", "callback", "h3", "closed"} \cup Dirs, closes : Nat]]
    BY <2>3, <2>4, <2>5
  <2> QED
    BY <2>3, <2>6, <2>7
<1>7. d # "closed" /\ d # "callback" /\ "callback" \notin Dirs
  BY DEF Dirs
<1>8. \A e \in Dirs : \A i \in DOMAIN incoming[e] : incoming[e][i] \in Streams /\ incoming[e][i] # s
  BY <1>7 DEF Places, Shapes
<1>9. \A t \in Streams : streams'[t].closes = (IF streams'[t].at = "closed" THEN 1 ELSE 0)
  <2>1. streams[s].closes = 0
    BY DEF Places
  <2> QED
    BY <1>6, <1>7, <2>1 DEF Places
<1>10. \A t \in Streams : streams'[t].at # "callback"
  BY <1>6, <1>7 DEF Places
<1>11. \A e \in Dirs : \A i \in DOMAIN incoming'[e] : streams'[incoming'[e][i]].at = e
  <2>1. ASSUME NEW e \in Dirs, e # d, NEW i \in DOMAIN incoming'[e] PROVE streams'[incoming'[e][i]].at = e
    BY <1>5, <1>6, <1>8, <2>1 DEF Places
  <2>2. ASSUME NEW i \in DOMAIN p PROVE streams'[p[i]].at = d
    <3>1. CASE i = Len(q) + 1
      BY <1>4, <1>6, <3>1
    <3>2. CASE i # Len(q) + 1
      <4>1. i \in DOMAIN q /\ p[i] = q[i]
        BY <1>4, <2>2, <3>2
      <4>2. q[i] \in Streams /\ q[i] # s /\ streams[q[i]].at = d
        BY <1>1, <1>8, <4>1 DEF Places
      <4> QED
        BY <1>6, <4>1, <4>2
    <3> QED
      BY <3>1, <3>2
  <2> QED
    BY <1>5, <2>1, <2>2
<1>12. \A e \in Dirs : \A i, j \in DOMAIN incoming'[e] : incoming'[e][i] = incoming'[e][j] => i = j
  <2>1. ASSUME NEW i \in DOMAIN p, NEW j \in DOMAIN p, p[i] = p[j] PROVE i = j
    <3>1. \A k \in DOMAIN p : k # Len(q) + 1 => k \in DOMAIN q /\ p[k] = q[k] /\ q[k] # s
      BY <1>1, <1>4, <1>8
    <3>2. \A k, l \in DOMAIN q : q[k] = q[l] => k = l
      BY <1>1 DEF Places
    <3> QED
      BY <1>4, <2>1, <3>1, <3>2
  <2> QED
    BY <1>5, <2>1 DEF Places
<1>13. \A t \in Streams : \A e \in Dirs : streams'[t].at = e => \E i \in DOMAIN incoming'[e] : incoming'[e][i] = t
  <2> SUFFICES ASSUME NEW t \in Streams, NEW e \in Dirs, streams'[t].at = e
               PROVE  \E i \in DOMAIN incoming'[e] : incoming'[e][i] = t
    OBVIOUS
  <2>1. CASE t = s
    <3>1. e = d /\ Len(q) + 1 \in DOMAIN p
      BY <1>4, <1>6, <2>1
    <3> QED
      BY <1>4, <1>5, <2>1, <3>1
  <2>2. CASE t # s
    <3>1. PICK i \in DOMAIN incoming[e] : incoming[e][i] = t
      BY <1>6, <2>2 DEF Places
    <3>2. CASE e = d
      <4>1. i \in DOMAIN p /\ p[i] = t
        BY <1>1, <1>4, <3>1, <3>2
      <4> QED
        BY <1>5, <3>2, <4>1
    <3>3. CASE e # d
      BY <1>5, <3>1, <3>3
    <3> QED
      BY <3>2, <3>3
  <2> QED
    BY <2>1, <2>2
<1>14. Places'
  BY <1>9, <1>10, <1>11, <1>12, <1>13 DEF Places
<1> QED
  BY <1>5, <1>6, <1>14

\* The delivery of an owned stream, to the queue or to its Drop.
LEMMA DeliverKeeps ==
    ASSUME IInv, DeliverStream PROVE IInv'
<1>a. Shapes /\ Todo /\ Offered /\ Places
  BY DEF IInv
<1> DEFINE s == cb.stream
           d == cb.dir
<1>1. /\ cb.todo # <<>> /\ Head(cb.todo).op = "deliver" /\ cb' = [cb EXCEPT !.todo = Tail(cb.todo)]
      /\ UNCHANGED <<fut, handle, opener, receiver, result, waiter, acc, errs, conn, told, nat, fault,
                     connected, shutdown, senders>>
  BY DEF DeliverStream, Deliver, futVars, waitVars, natVars
<1>2. \/ /\ d \in senders /\ receiver
         /\ incoming' = [incoming EXCEPT ![d] = Append(incoming[d], s)]
         /\ streams' = [streams EXCEPT ![s].at = d]
      \/ streams' = CloseStream(streams, s) /\ incoming' = incoming
  BY DEF DeliverStream, Deliver
<1>3. /\ DOMAIN cb' = {"todo", "stream", "dir", "owned", "recovering"} /\ cb'.todo = Tail(cb.todo)
      /\ cb'.stream = s /\ cb'.dir = d /\ cb'.recovering = cb.recovering /\ cb'.owned = cb.owned
      /\ d \in Dirs
  BY <1>a, <1>1 DEF Shapes
<1>4. Steady
  BY <1>1 DEF Steady, Known
<1>5. Todo' /\ cb'.todo # <<>>
  BY <1>a, <1>1, <1>3, <1>4, TodoTail
<1>6. s # NoStream /\ Offers /\ cb.todo = Tail(Hand) /\ s \in Streams
  <2>1. ~NoHand(cb.todo)
    <3>1. Head(cb.todo) = cb.todo[1] /\ 1 \in DOMAIN cb.todo
      BY <1>a, <1>1 DEF Todo
    <3> QED
      BY <1>1, <3>1 DEF NoHand
  <2>2. s # NoStream /\ Offers
    BY <1>a, <1>1, <2>1 DEF Offered, Refuses, HandedOver
  <2>3. Head(Hand).op = "own"
    BY HandList
  <2> QED
    BY <1>a, <1>1, <2>2, <2>3 DEF Offers, Shapes
<1>7. cb'.todo = <<Return("Ok")>>
  <2>1. Tail(Tail(Hand)) = <<Return("Ok")>>
    BY HandList
  <2> QED
    BY <1>3, <1>6, <2>1, Zenon
<1>8. streams[s].at = "callback"
  BY <1>6 DEF Offers
<1>9. /\ incoming' \in [Dirs -> Seq(Streams)]
      /\ \A e \in Dirs : e \notin senders /\ incoming[e] = <<>> => incoming'[e] = <<>>
      /\ streams' \in [Streams -> [at : {"none", "callback", "h3", "closed"} \cup Dirs, closes : Nat]]
      /\ streams'[s].at \in Dirs \cup {"closed"}
      /\ Places'
  <2>1. CASE /\ d \in senders /\ receiver
             /\ incoming' = [incoming EXCEPT ![d] = Append(incoming[d], s)]
             /\ streams' = [streams EXCEPT ![s].at = d]
    <3>1. /\ incoming' \in [Dirs -> Seq(Streams)]
          /\ \A e \in Dirs : e # d => incoming'[e] = incoming[e]
          /\ streams' \in [Streams -> [at : {"none", "callback", "h3", "closed"} \cup Dirs, closes : Nat]]
          /\ streams'[s].at = d
          /\ Places'
      BY <1>a, <1>1, <1>3, <1>6, <1>8, <2>1, QueueKeeps
    <3> QED
      BY <1>3, <2>1, <3>1
  <2>2. CASE streams' = CloseStream(streams, s) /\ incoming' = incoming
    <3>1. \A t \in Streams : t # s => streams[t].at # "callback"
      BY <1>a DEF Places
    <3>2. /\ streams' \in [Streams -> [at : {"none", "callback", "h3", "closed"} \cup Dirs, closes : Nat]]
          /\ streams'[s].at = "closed" /\ Places'
      BY <1>a, <1>1, <1>6, <1>8, <2>2, <3>1, CloseKeeps
    <3> QED
      BY <1>a, <2>2, <3>2 DEF Shapes
  <2> QED
    BY <1>2, <2>1, <2>2
<1>10. Offered'
  <2>1. PICK q : q = <<Return("Ok")>>
    OBVIOUS
  <2>2. LastIs(q, "Ok") /\ NoHand(q) /\ q[1].op = "return"
    BY <2>1, ReturnList
  <2>3. streams'[s].at \notin {"none", "callback"}
    BY <1>9 DEF Dirs
  <2>4. cb'.todo = q
    BY <1>7, <2>1
  <2>5. HandedOver'
    BY <1>3, <2>2, <2>3, <2>4 DEF HandedOver, LastIs, NoHand
  <2> QED
    BY <1>3, <1>6, <2>5 DEF Offered
<1> QED
  <2>1. cb'.stream \in Streams \cup {NoStream} /\ cb'.owned \in BOOLEAN /\ cb'.recovering \in BOOLEAN
    BY <1>a, <1>3 DEF Shapes
  <2> QED
    BY <1>1, <1>3, <1>5, <1>9, <1>10, <2>1, StreamStepFrame

\* msquic reads the status, and closes a stream the callback refused.
LEMMA ReturnKeeps ==
    ASSUME IInv, CallbackReturns PROVE IInv'
<1>a. Shapes /\ Todo /\ Offered /\ Places
  BY DEF IInv
<1> DEFINE s == cb.stream
<1>1. /\ cb.todo # <<>> /\ Head(cb.todo).op = "return" /\ cb' = Quiet
      /\ streams' = (IF Head(cb.todo).x = "Err" /\ s # NoStream THEN CloseStream(streams, s) ELSE streams)
      /\ UNCHANGED <<fut, handle, opener, receiver, result, waiter, acc, errs, conn, told, nat, fault,
                     connected, shutdown, senders, incoming>>
  BY DEF CallbackReturns, futVars, waitVars, chanVars, accVars, natVars
<1>2. /\ DOMAIN cb' = {"todo", "stream", "dir", "owned", "recovering"} /\ cb'.todo = <<>>
      /\ cb'.stream = NoStream /\ cb'.dir \in Dirs /\ cb'.recovering = FALSE /\ cb'.owned = FALSE
  BY <1>1 DEF Quiet, Dirs
<1>3. Todo' /\ Offered'
  BY <1>2, EmptySeq DEF Todo, Offered
<1>4. Head(cb.todo) = cb.todo[1] /\ Len(cb.todo) = 1
  <2>1. cb.todo \in Seq(Eff) /\ 1 \in DOMAIN cb.todo /\ Head(cb.todo) = cb.todo[1]
    BY <1>a, <1>1 DEF Todo
  <2>2. EffectFine(cb.todo, 1)
    BY <1>a, <2>1 DEF Todo
  <2> QED
    BY <1>1, <2>1, <2>2 DEF EffectFine
<1>5. ~Offers
  <2>1. Head(Hand).op = "own" /\ Head(Tail(Hand)).op = "deliver"
    BY HandList
  <2> QED
    BY <1>1, <2>1 DEF Offers
<1>6. \A t \in Streams : t # s => streams[t].at # "callback"
  BY <1>a DEF Places
<1>7. /\ streams' \in [Streams -> [at : {"none", "callback", "h3", "closed"} \cup Dirs, closes : Nat]]
      /\ Places'
  <2>1. CASE Head(cb.todo).x = "Err" /\ s # NoStream
    <3>1. Refuses /\ s \in Streams
      BY <1>a, <1>1, <1>4, <1>5, <2>1 DEF Offered, HandedOver, LastIs, Shapes
    <3>2. streams[s].at = "callback"
      BY <3>1 DEF Refuses
    <3> QED
      BY <1>a, <1>1, <1>6, <2>1, <3>1, <3>2, CloseKeeps
  <2>2. CASE ~(Head(cb.todo).x = "Err" /\ s # NoStream)
    <3>1. streams' = streams
      BY <1>1, <2>2
    <3>2. s \in Streams => streams[s].at # "callback"
      BY <1>a, <1>1, <1>4, <1>5, <2>2, ConnectionAssumption DEF Offered, Refuses, HandedOver, LastIs
    <3>3. \A t \in Streams : streams[t].at # "callback"
      BY <1>6, <3>2
    <3> QED
      BY <1>a, <1>1, <3>1, <3>3 DEF Places, Shapes
  <2> QED
    BY <2>1, <2>2
<1> QED
  <2>1. /\ incoming' \in [Dirs -> Seq(Streams)]
        /\ \A d \in Dirs : d \notin senders /\ incoming[d] = <<>> => incoming'[d] = <<>>
    BY <1>a, <1>1 DEF Shapes
  <2> QED
    BY <1>1, <1>2, <1>3, <1>7, <2>1, StreamStepFrame

\* A panic in the callback, whatever it was about to do: an owned stream drops, and
\* connection_recover takes over.
LEMMA PanicKeeps ==
    ASSUME IInv, CallbackPanic PROVE IInv'
<1>a. Shapes /\ CauseKnown /\ Todo /\ Offered /\ Places /\ Answers
  BY DEF IInv
<1> DEFINE s == cb.stream
<1>1. /\ cb.todo # <<>> /\ Head(cb.todo).op # "return" /\ ~cb.recovering /\ fault' = "panic"
      /\ streams' = (IF cb.owned THEN CloseStream(streams, s) ELSE streams)
      /\ cb' = [cb EXCEPT !.todo = ConnectionRecover(cb.owned), !.recovering = TRUE]
      /\ UNCHANGED <<fut, handle, opener, receiver, result, waiter, acc, errs, conn, told, nat,
                     connected, shutdown, senders, incoming>>
  BY DEF CallbackPanic, Faulty, futVars, waitVars, chanVars, accVars, natVars
<1>2. PICK q : q = ConnectionRecover(cb.owned)
  OBVIOUS
<1>3. /\ DOMAIN cb' = {"todo", "stream", "dir", "owned", "recovering"} /\ cb'.todo = q
      /\ cb'.stream = s /\ cb'.dir = cb.dir /\ cb'.recovering = TRUE /\ cb'.owned = cb.owned
  <2>1. PICK r : r = [cb EXCEPT !.todo = q]
    OBVIOUS
  <2>2. /\ DOMAIN r = {"todo", "stream", "dir", "owned", "recovering"} /\ r.todo = q
        /\ r.stream = s /\ r.dir = cb.dir /\ r.owned = cb.owned
    BY <1>a, <2>1 DEF Shapes
  <2>3. cb' = [r EXCEPT !.recovering = TRUE]
    BY <1>1, <1>2, <2>1
  <2> QED
    BY <2>2, <2>3
<1>4. /\ Ordered(q) /\ NoOk(q) /\ ForcesFirst(q) /\ NoHand(q)
      /\ LastIs(q, IF cb.owned THEN "Ok" ELSE "Err")
  BY <1>a, <1>2, RecoverList DEF Shapes
<1>5. Todo' /\ cb'.todo # <<>>
  BY <1>1, <1>3, <1>4, StartTodo DEF Ordered
<1>6. ~HandedOver
  <2>1. Head(cb.todo) = cb.todo[1]
    BY <1>a, <1>1 DEF Todo
  <2> QED
    BY <1>1, <2>1 DEF HandedOver
<1>7. /\ streams' \in [Streams -> [at : {"none", "callback", "h3", "closed"} \cup Dirs, closes : Nat]]
      /\ Places' /\ Offered'
  <2>1. CASE cb.owned
    <3>1. s # NoStream /\ s \in Streams /\ streams[s].at = "callback"
      BY <1>a, <1>1, <1>6, <2>1 DEF Offered, Refuses, Offers, Shapes
    <3>2. \A t \in Streams : t # s => streams[t].at # "callback"
      BY <1>a DEF Places
    <3>3. /\ streams' \in [Streams -> [at : {"none", "callback", "h3", "closed"} \cup Dirs, closes : Nat]]
          /\ streams'[s].at = "closed" /\ Places'
      BY <1>a, <1>1, <2>1, <3>1, <3>2, CloseKeeps
    <3>4. HandedOver'
      BY <1>3, <1>4, <2>1, <3>3 DEF HandedOver, LastIs, NoHand
    <3> QED
      BY <1>3, <3>1, <3>3, <3>4 DEF Offered
  <2>2. CASE ~cb.owned
    <3>1. streams' = streams
      BY <1>1, <2>2
    <3>2. Places'
      BY <1>a, <1>1, <1>3, <1>5, <3>1, PlacesKept
    <3>3. CASE s = NoStream
      BY <1>a, <1>3, <1>4, <2>2, <3>1, <3>2, <3>3 DEF Offered, NoHand, Shapes
    <3>4. CASE s # NoStream
      <4>1. streams[s].at = "callback"
        BY <1>a, <1>1, <1>6, <3>4 DEF Offered, Refuses, Offers
      <4>2. Refuses'
        BY <1>3, <1>4, <2>2, <3>1, <4>1 DEF Refuses, LastIs, NoHand
      <4> QED
        BY <1>a, <1>3, <3>1, <3>2, <3>4, <4>2 DEF Offered, Shapes
    <3> QED
      BY <3>3, <3>4
  <2> QED
    BY <2>1, <2>2
<1>8. conn' \in ConnSlot /\ CauseKnown' /\ (Known <=> Known')
  BY <1>a, <1>1, SlotKept
<1>9. Steady
  BY <1>1, <1>8 DEF Steady
<1>10. Shapes'
  BY <1>a, <1>1, <1>3, <1>7, <1>8 DEF Shapes
<1>11. Answers'
  BY <1>a, <1>1, <1>9, AnswersKept
<1>12. /\ senders' \subseteq senders /\ \A d \in Dirs : d \notin senders' => d \notin senders \/ Known'
       /\ \A d \in Dirs : d \notin senders /\ incoming[d] = <<>> => incoming'[d] = <<>>
  BY <1>1
<1> QED
  BY <1>1, <1>5, <1>7, <1>8, <1>9, <1>10, <1>11, <1>12, CallbackFrame

\* Every step keeps the invariant.
LEMMA NextIInv == IInv /\ [Next]_vars => IInv'
<1> SUFFICES ASSUME IInv, [Next]_vars PROVE IInv'
  OBVIOUS
<1>1. CASE UNCHANGED vars
  <2>1. UNCHANGED <<fut, result, connected, shutdown, waiter, senders, incoming, receiver, conn, cb, fault, acc,
                    errs, opener, streams, handle, nat, told>>
    BY <1>1 DEF vars, futVars, waitVars, chanVars, cbVars, accVars, natVars
  <2>2. Shapes /\ CauseKnown /\ Places /\ Life /\ Answers
    BY DEF IInv
  <2>3. Shapes' /\ CauseKnown' /\ Life'
    BY <2>1, <2>2 DEF Shapes, CauseKnown, Known, Life, Untouched
  <2>4. Steady
    BY <2>1 DEF Steady, Known
  <2>5. Places' /\ Answers'
    BY <2>1, <2>2, <2>4, PlacesKept, AnswersKept
  <2> QED
    BY <2>1, <2>3, <2>4, <2>5, OnwardSame, OutsideStep
<1>2. CASE Lifetime
  BY <1>2, ConnectKeeps, HandlesKeep DEF Lifetime
<1>3. CASE AcceptStep \/ \E d \in Dirs : PollAccept(d)
  BY <1>3, AcceptKeeps
<1>4. CASE CallbackRuns
  BY <1>4, EffectKeeps, OwnKeeps, DeliverKeeps, ReturnKeeps DEF CallbackRuns
<1>5. CASE CallbackPanic
  BY <1>5, PanicKeeps
<1>6. CASE NativeStep
  BY <1>6, NativeKeeps
<1>7. CASE OtherFrontend
  BY <1>7, OtherKeeps
<1> QED
  BY <1>1, <1>2, <1>3, <1>4, <1>5, <1>6, <1>7 DEF Next

\* The invariant of the connection: every list a running callback has still to do names
\* the cause before it closes a sender or fails connect, and the stream it was offered
\* has one owner whatever the callback does next, a panic included.
THEOREM Invariance == Spec => []IInv
BY InitIInv, NextIInv, PTL DEF Spec

-----------------------------------------------------------------------------
(* The properties of the run.                                              *)

\* A peer stream is closed at most once, by its Drop or by msquic's rejection, and after
\* its callback it is closed, with h3 or once in one queue (PeerStreamStarted,
\* connection_recover and the ownership token).
THEOREM PeerStreamClosedOnceAlways == Spec => []PeerStreamClosedOnce
<1>1. IInv => PeerStreamClosedOnce
  <2> SUFFICES ASSUME IInv, NEW s \in Streams
               PROVE  /\ cb.todo = <<>> => streams[s].at # "callback"
                      /\ streams[s].closes = (IF streams[s].at = "closed" THEN 1 ELSE 0)
                      /\ \A d \in Dirs :
                            Cardinality({i \in DOMAIN incoming[d] : incoming[d][i] = s})
                              = (IF streams[s].at = d THEN 1 ELSE 0)
    BY DEF PeerStreamClosedOnce
  <2>1. Places
    BY DEF IInv
  <2>2. ASSUME NEW d \in Dirs
        PROVE  Cardinality({i \in DOMAIN incoming[d] : incoming[d][i] = s}) = (IF streams[s].at = d THEN 1 ELSE 0)
    <3> DEFINE H == {i \in DOMAIN incoming[d] : incoming[d][i] = s}
    <3>1. CASE streams[s].at = d
      <4>1. PICK i \in DOMAIN incoming[d] : incoming[d][i] = s
        BY <2>1, <3>1 DEF Places
      <4>2. \A j \in H : j = i
        BY <2>1, <4>1 DEF Places
      <4>3. H = {i}
        BY <4>1, <4>2
      <4>4. Cardinality({i}) = 1
        BY FS_Singleton
      <4> QED
        BY <3>1, <4>3, <4>4
    <3>2. CASE streams[s].at # d
      <4>1. H = {}
        BY <2>1, <3>2 DEF Places
      <4>2. Cardinality({}) = 0
        BY FS_EmptySet
      <4> QED
        BY <3>2, <4>1, <4>2
    <3> QED
      BY <3>1, <3>2
  <2> QED
    BY <2>1, <2>2 DEF Places
<1> QED
  BY <1>1, Invariance, PTL

\* connect succeeds only on a connection that was up and fails with a cause on record,
\* and the shutdown waiter resolves only after the end of the connection or a panic
\* that forced it (conn_ctx_channel's one-shots against the order of the effects).
THEOREM AnswersTrueAlways == Spec => []AnswersTrue
<1>1. IInv => AnswersTrue
  BY DEF IInv, Answers, AnswersTrue, ConnectTellsTruth, WaiterAfterShutdown, Known, Over
<1> QED
  BY <1>1, Invariance, PTL

\* A connect that failed, or a connection nobody holds any more, leaves no open handle
\* and no stream in a queue (connect_with_config's unwinding, Drop of the last Arc).
THEOREM NothingLeftBehindAlways == Spec => []NothingLeftBehind
<1>1. IInv => NothingLeftBehind
  <2> SUFFICES ASSUME IInv, fut \in {"failed", "dropped"}, opener \in {"none", "gone"}
               PROVE  /\ handle \in {"none", "closing", "closed"}
                      /\ ~receiver /\ \A s \in Streams : streams[s].at \notin Dirs
    BY DEF NothingLeftBehind
  <2>1. Life /\ Places
    BY DEF IInv
  <2>2. handle \in {"none", "closing", "closed"} /\ ~receiver
    BY <2>1 DEF Life
  <2> QED
    BY <2>1, <2>2 DEF Places
<1> QED
  BY <1>1, Invariance, PTL

\* No acceptor is told that the connection ended without a reason (every arm and the
\* recovery record before they drop the senders).
THEOREM NoReasonlessAcceptAlways == Spec => []NoReasonlessAccept
<1>1. IInv => NoReasonlessAccept
  BY DEF IInv
<1> QED
  BY <1>1, Invariance, PTL

\* An acceptor reports an ordinary end only after every queued stream, and after the
\* adapter's own failure hands out none (fail_fast_terminal and poll_incoming).
THEOREM AcceptOrderAlways == Spec => AcceptOrder
<1>1. IInv /\ IInv' /\ [Next]_vars => [QueueBeforeTerminal' /\ NothingAfterInternal]_vars
  <2> SUFFICES ASSUME IInv, IInv', [Next]_vars PROVE QueueBeforeTerminal' /\ NothingAfterInternal
    OBVIOUS
  <2>1. QueueBeforeTerminal'
    BY DEF IInv, Accepting, QueueBeforeTerminal
  <2>2. NothingAfterInternal
    <3> SUFFICES ASSUME \E d \in Dirs : errs[d] = "Internal", NEW s \in Streams, streams'[s].at = "h3"
                 PROVE  streams[s].at = "h3"
      BY DEF NothingAfterInternal
    <3>1. Shapes /\ acc.pc # "channel"
      BY DEF IInv, Accepting
    <3>2. streams \in [Streams -> [at : {"none", "callback", "h3", "closed"} \cup Dirs, closes : Nat]]
      BY <3>1 DEF Shapes
    <3>3. CASE UNCHANGED streams
      BY <3>3
    <3>4. ASSUME NEW t, streams' = CloseStream(streams, t) PROVE streams[s].at = "h3"
      BY <3>2, <3>4 DEF CloseStream
    <3>5. CASE DropReceiver
      BY <3>5 DEF DropReceiver, CloseQueued
    <3>6. CASE DeliverStream
      <4>1. CASE streams' = [streams EXCEPT ![cb.stream].at = cb.dir]
        <5>1. cb.dir # "h3"
          BY <3>1 DEF Shapes, Dirs
        <5> QED
          BY <3>2, <4>1, <5>1
      <4>2. CASE streams' = CloseStream(streams, cb.stream)
        BY <3>4, <4>2
      <4> QED
        BY <3>6, <4>1, <4>2 DEF DeliverStream, Deliver
    <3>7. ASSUME NEW t \in Streams, NEW d \in Dirs, PeerStreamStarted(t, d) PROVE streams[s].at = "h3"
      BY <3>2, <3>7 DEF PeerStreamStarted
    <3>8. CASE NativeStep
      BY <3>3, <3>7, <3>8 DEF NativeStep, HandshakeDone, ShutdownInitiated, LocalShutdown, ShutdownCompletes, HandleClosed
    <3>9. CASE Lifetime
      <4>1. UNCHANGED streams \/ DropReceiver \/ \E t \in Streams : streams' = CloseStream(streams, t)
        BY <3>9 DEF Lifetime, ConnectPoll, AwaitConnected, ConnectAnswered, DropConnect, Unwound, CloneOpener,
                    DropConnection, DropOpener, OpenerClose, GetShutdownWaiter, WaitDone, DropAccepted
      <4> QED
        BY <3>3, <3>4, <3>5, <4>1
    <3>10. CASE CallbackRuns \/ CallbackPanic
      <4>1. UNCHANGED streams \/ DeliverStream \/ streams' = CloseStream(streams, cb.stream)
        BY <3>10 DEF CallbackRuns, CallbackStep, OwnStream, CallbackReturns, CallbackPanic
      <4> QED
        BY <3>3, <3>4, <3>6, <4>1
    <3>11. CASE AcceptStep \/ (\E d \in Dirs : PollAccept(d)) \/ OtherFrontend \/ UNCHANGED vars
      <4>1. UNCHANGED streams
        BY <3>1, <3>11 DEF AcceptStep, PollIncoming, ObserveTerminal, PollAccept, BeginAccept, OtherFrontend, vars
      <4> QED
        BY <3>3, <4>1
    <3> QED
      BY <3>8, <3>9, <3>10, <3>11 DEF Next
  <2> QED
    BY <2>1, <2>2
<1> QED
  BY <1>1, Invariance, PTL DEF Spec, AcceptOrder

-----------------------------------------------------------------------------
(* The connection implements ConnCause.                                    *)

\* A record in the slot is a Record of the abstract cause, or changes nothing.
LEMMA RecordRefines ==
    ASSUME Shapes, CauseKnown, NEW c \in ConnectionTerminal,
           conn' = RecordConnTerminal(conn, c), told' = told
    PROVE  [Cause!Next]_Cause!vars
<1>1. CASE conn'.terminal = conn.terminal
  BY <1>1 DEF Cause!vars
<1>2. CASE conn'.terminal # conn.terminal
  <2>1. /\ ~conn.observed /\ conn'.terminal = c
        /\ conn.terminal = NoCause \/ (conn.terminal = "LocalClose" /\ c # "LocalClose")
    BY <1>2 DEF Shapes, ConnSlot, RecordConnTerminal, IsProvisional
  <2>2. told = {}
    BY <2>1 DEF CauseKnown
  <2>3. Cause!Record(c)
    BY <2>1, <2>2 DEF Cause!Record, NoCause, Cause!NoCause
  <2> QED
    BY <2>3 DEF Cause!Next, ConnectionTerminal, SpecificCause,
                Cause!ConnectionTerminal, Cause!SpecificCause
<1> QED
  BY <1>1, <1>2

\* A report of the slot's cause is a delivery of the abstract one.
LEMMA ReportRefines ==
    ASSUME Shapes, Known, conn' = ObserveConnWinner(conn), told' = told \cup {conn.terminal}
    PROVE  [Cause!Next]_Cause!vars
<1>1. conn'.terminal = conn.terminal
  BY DEF ObserveConnWinner, Shapes, ConnSlot
<1> QED
  BY <1>1 DEF Known, Cause!Next, Cause!Deliver, NoCause, Cause!NoCause

\* The connection callback and the opener's close, which record a cause, and the accept
\* frontends, which report and freeze it, keep ConnCause's promise: one cause reaches
\* h3, and a reported cause is final.
THEOREM CauseRefinement == Spec => CauseSpec
<1>1. Init => Cause!Init
  BY DEF Init, EmptySlot, Cause!Init, NoCause, Cause!NoCause
<1>2. IInv /\ [Next]_vars => [Cause!Next]_Cause!vars
  <2> SUFFICES ASSUME IInv, [Next]_vars PROVE [Cause!Next]_Cause!vars
    OBVIOUS
  <2>a. Shapes /\ CauseKnown /\ Todo
    BY DEF IInv
  <2>1. CASE UNCHANGED <<conn, told>>
    BY <2>1 DEF Cause!vars
  <2>2. CASE AcceptStep \/ (\E d \in Dirs : PollAccept(d)) \/ OtherFrontend
    <3>1. \/ UNCHANGED <<conn, told>>
          \/ Known /\ conn' = ObserveConnWinner(conn) /\ told' = told \cup {conn.terminal}
      <4>1. CASE AcceptStep
        BY <4>1 DEF AcceptStep, PollIncoming, ObserveTerminal, CommitConn, Known
      <4>2. CASE \E d \in Dirs : PollAccept(d)
        BY <4>2 DEF PollAccept, BeginAccept, Known, NoCause
      <4>3. CASE OtherFrontend
        BY <4>3 DEF OtherFrontend, CommitConn, Known
      <4> QED
        BY <2>2, <4>1, <4>2, <4>3
    <3> QED
      BY <2>1, <2>a, <3>1, ReportRefines
  <2>3. CASE CallbackStep
    <3>1. PICK e : e = Head(cb.todo)
      OBVIOUS
    <3>2. told' = told /\ conn' = (IF e.op = "record" THEN RecordConnTerminal(conn, e.x) ELSE conn)
      BY <2>3, <3>1 DEF CallbackStep
    <3>3. e.op = "record" => e.x \in ConnectionTerminal
      <4>1. cb.todo # <<>> /\ cb.todo \in Seq(Eff)
        BY <2>3, <2>a DEF CallbackStep, Todo
      <4>2. 1 \in DOMAIN cb.todo /\ e = cb.todo[1]
        BY <3>1, <4>1
      <4> QED
        BY <2>a, <4>2 DEF Todo, EffectFine
    <3> QED
      BY <2>1, <2>a, <3>2, <3>3, RecordRefines
  <2>4. CASE OpenerClose
    <3>1. told' = told /\ (conn' = conn \/ conn' = RecordConnTerminal(conn, "LocalClose"))
      BY <2>4 DEF OpenerClose
    <3> QED
      BY <2>1, <2>a, <3>1, RecordRefines DEF ConnectionTerminal
  <2>5. CASE Lifetime
    BY <2>1, <2>4, <2>5 DEF Lifetime, ConnectPoll, AwaitConnected, ConnectAnswered, DropConnect, Unwound,
              CloneOpener, DropConnection, DropOpener, GetShutdownWaiter, WaitDone, DropAccepted
  <2>6. CASE CallbackRuns \/ CallbackPanic
    BY <2>1, <2>3, <2>6 DEF CallbackRuns, OwnStream, DeliverStream, Deliver, CallbackReturns, CallbackPanic
  <2>7. CASE NativeStep \/ UNCHANGED vars
    BY <2>1, <2>7 DEF NativeStep, HandshakeDone, ShutdownInitiated, PeerStreamStarted, LocalShutdown,
              ShutdownCompletes, HandleClosed, NativeUnchanged, vars
  <2> QED
    BY <2>2, <2>5, <2>6, <2>7 DEF Next
<1> QED
  BY <1>1, <1>2, Invariance, PTL DEF Spec, CauseSpec, Cause!Spec
=============================================================================
