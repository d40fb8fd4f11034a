--------------------------- MODULE ListenerProofs ----------------------------
(* What Listener's run checks of its callbacks and of accept, for any number of *)
(* offered connections, shutdown callers and panics.                           *)
EXTENDS Listener, Integers, FiniteSetTheorems, SequenceTheorems, TLAPS

\* Where an invocation is between its panic and the status it returns.
Recovery == {"none sent", "release", "poison"}
Pcs == {"none", "configure", "deliver", "returned"} \cup Recovery
Places == {"none", "callback", "queue", "app", "closed"}

\* The shape of every variable the properties look at.
Shapes ==
    /\ inv \in [Invocations -> [pc : Pcs, owned : BOOLEAN]]
    /\ conns \in [Conns -> [at : Places, closes : Nat]]
    /\ queue \in Seq(Invocations)
    /\ accepts \in [ended : BOOLEAN, late : BOOLEAN]
    /\ panics \in Nat

\* Who has a connection at every point of its callback: the token says whether the
\* callback owns it, a panic closes what was owned, and a close is counted once.
TokenFor(c) ==
    /\ conns[c].closes = (IF conns[c].at = "closed" THEN 1 ELSE 0)
    /\ inv[c].pc = "none" => conns[c].at = "none" /\ ~inv[c].owned
    /\ inv[c].pc = "configure" => conns[c].at = "callback" /\ ~inv[c].owned
    /\ inv[c].pc = "deliver" => conns[c].at = "callback" /\ inv[c].owned
    /\ inv[c].pc \in Recovery => conns[c].at = (IF inv[c].owned THEN "closed" ELSE "callback")
    /\ inv[c].pc = "returned" => conns[c].at \in {"queue", "app", "closed"}

TokenTrue == \A c \in Conns : TokenFor(c)

\* The channel holds exactly the connections that are at it, each one once.
QueueTrue ==
    /\ \A i \in DOMAIN queue : queue[i] # Stop => conns[queue[i]].at = "queue"
    /\ \A i, j \in DOMAIN queue : queue[i] = queue[j] /\ queue[i] # Stop => i = j
    /\ \A c \in Conns : conns[c].at = "queue" => \E i \in DOMAIN queue : queue[i] = c

\* While nothing has panicked: StopComplete comes after every callback, so its None
\* is the last entry of the channel, and the channel is empty once it was taken.
NoneIsLast ==
    panics = 0 =>
        /\ \A c \in Conns : inv[c].pc \notin Recovery
        /\ inv[Stop].pc # "none" => native # "open" /\ \A c \in Conns : inv[c].pc \in {"none", "returned"}
        /\ inv[Stop].pc \in {"none", "none sent"} => ~accepts.ended /\ \A i \in DOMAIN queue : queue[i] # Stop
        /\ \A i \in DOMAIN queue : queue[i] = Stop => i = Len(queue)
        /\ accepts.ended => queue = <<>>
        /\ ~accepts.late

StopShape == inv[Stop].pc \in {"none", "none sent", "release", "returned"}

IInv == Shapes /\ TokenTrue /\ QueueTrue /\ StopShape /\ NoneIsLast

-----------------------------------------------------------------------------
(* The operators.                                                          *)

\* An invocation moves alone.
LEMMA GoToKeeps ==
    ASSUME Shapes, NEW i \in Invocations, NEW pc \in Pcs, GoTo(i, pc)
    PROVE  /\ inv' \in [Invocations -> [pc : Pcs, owned : BOOLEAN]]
           /\ inv'[i].pc = pc /\ inv'[i].owned = inv[i].owned
           /\ \A j \in Invocations : j # i => inv'[j] = inv[j]
  BY DEF Shapes, GoTo

\* A close counts for its connection alone.
LEMMA CloseConnKeeps ==
    ASSUME Shapes, NEW c \in Conns, conns' = CloseConn(c)
    PROVE  /\ conns' \in [Conns -> [at : Places, closes : Nat]]
           /\ conns'[c].at = "closed" /\ conns'[c].closes = conns[c].closes + 1
           /\ \A d \in Conns : d # c => conns'[d] = conns[d]
  BY DEF Shapes, CloseConn, Places

\* So does a move that closes nothing.
LEMMA MoveConnKeeps ==
    ASSUME Shapes, NEW c \in Conns, NEW at \in Places, conns' = [conns EXCEPT ![c].at = at]
    PROVE  /\ conns' \in [Conns -> [at : Places, closes : Nat]]
           /\ conns'[c].at = at /\ conns'[c].closes = conns[c].closes
           /\ \A d \in Conns : d # c => conns'[d] = conns[d]
  BY DEF Shapes

\* The indices of a channel after a send.
LEMMA AppendIndices ==
    ASSUME NEW S, NEW q \in Seq(S), NEW x \in S
    PROVE  /\ Append(q, x) \in Seq(S) /\ DOMAIN Append(q, x) = DOMAIN q \cup {Len(q) + 1}
           /\ Len(Append(q, x)) = Len(q) + 1 /\ Append(q, x)[Len(q) + 1] = x
           /\ \A i \in DOMAIN q : Append(q, x)[i] = q[i] /\ i \in Nat /\ i <= Len(q)
           /\ Len(q) \in Nat
  OBVIOUS

\* And after a receive.
LEMMA TailIndices ==
    ASSUME NEW S, NEW q \in Seq(S), q # <<>>
    PROVE  /\ Tail(q) \in Seq(S) /\ Len(Tail(q)) = Len(q) - 1 /\ Head(q) = q[1] /\ 1 \in DOMAIN q
           /\ \A i \in DOMAIN Tail(q) : i \in Nat /\ i + 1 \in DOMAIN q /\ Tail(q)[i] = q[i + 1]
           /\ \A i \in DOMAIN q : i \in Nat /\ (i # 1 => i - 1 \in DOMAIN Tail(q) /\ Tail(q)[i - 1] = q[i])
           /\ Len(q) \in Nat
  OBVIOUS

\* Receiving the only entry empties the channel.
LEMMA TailOfOne == ASSUME NEW S, NEW q \in Seq(S), q # <<>>, Len(q) = 1 PROVE Tail(q) = <<>>
<1>1. Tail(q) \in Seq(S) /\ Len(Tail(q)) = Len(q) - 1
  OBVIOUS
<1>2. Len(Tail(q)) = 0
  BY <1>1
<1> QED
  BY <1>1, <1>2, EmptySeq

\* A connection that is in nobody's hands but its callback's is not in the channel.
LEMMA QueuedOnlyOnce ==
    ASSUME QueueTrue, NEW c \in Conns, conns[c].at # "queue", Stop \notin Conns
    PROVE  \A i \in DOMAIN queue : queue[i] # c
  BY DEF QueueTrue

\* A step of one connection leaves the others' tokens true.
LEMMA OneToken ==
    ASSUME TokenTrue, NEW c, \A d \in Conns : d # c => inv'[d] = inv[d] /\ conns'[d] = conns[d],
           c \in Conns => TokenFor(c)'
    PROVE  TokenTrue'
  BY DEF TokenTrue, TokenFor

\* A step that leaves the channel alone and puts nothing into or out of it.
LEMMA SameQueue ==
    ASSUME Shapes, QueueTrue, Stop \notin Conns, queue' = queue,
           \A c \in Conns : (conns'[c].at = "queue") <=> (conns[c].at = "queue")
    PROVE  QueueTrue'
<1>1. \A i \in DOMAIN queue : queue[i] # Stop => queue[i] \in Conns
  BY DEF Shapes, Invocations
<1> QED
  BY <1>1 DEF QueueTrue

-----------------------------------------------------------------------------
(* The invariant.                                                          *)

\* It holds when the listener has just been started.
LEMMA InitIInv == Init => IInv
<1> SUFFICES ASSUME Init PROVE IInv
  OBVIOUS
<1>1. Shapes
  <2>1. inv \in [Invocations -> [pc : Pcs, owned : BOOLEAN]]
    BY DEF Init, Pcs
  <2>2. conns \in [Conns -> [at : Places, closes : Nat]]
    BY DEF Init, Places
  <2> QED
    BY <2>1, <2>2 DEF Init, Shapes
<1>2. TokenTrue
  BY DEF Init, TokenTrue, TokenFor, Invocations, Recovery
<1>3. QueueTrue
  BY DEF Init, QueueTrue
<1>4. StopShape /\ NoneIsLast
  <2>1. \A i \in Invocations : inv[i].pc = "none"
    BY DEF Init
  <2>2. queue = <<>> /\ ~accepts.ended /\ ~accepts.late /\ DOMAIN queue = {}
    BY DEF Init
  <2> QED
    BY <2>1, <2>2 DEF StopShape, NoneIsLast, Invocations, Recovery
<1> QED
  BY <1>1, <1>2, <1>3, <1>4 DEF IInv

\* Every callback step, call and native step keeps it.
LEMMA NextIInv == IInv /\ [Next]_vars => IInv'
<1> SUFFICES ASSUME IInv, [Next]_vars PROVE IInv'
  OBVIOUS
<1> USE ListenerAssumption
<1>a. Shapes /\ TokenTrue /\ QueueTrue /\ StopShape /\ NoneIsLast
  BY DEF IInv
<1>b. Stop \in Invocations /\ \A c \in Conns : c \in Invocations /\ c # Stop
  BY DEF Invocations
<1>1. ASSUME NEW c \in Conns, NewConnection(c) PROVE IInv'
  <2>1. PICK pc \in {"configure", "returned"} :
           /\ GoTo(c, pc)
           /\ IF pc = "configure" THEN conns' = [conns EXCEPT ![c].at = "callback"] ELSE conns' = CloseConn(c)
    BY <1>1 DEF NewConnection
  <2>2. /\ inv' \in [Invocations -> [pc : Pcs, owned : BOOLEAN]]
        /\ inv'[c].pc = pc /\ inv'[c].owned = inv[c].owned
        /\ \A j \in Invocations : j # c => inv'[j] = inv[j]
    BY <1>a, <1>b, <2>1, GoToKeeps DEF Pcs
  <2>3. /\ conns' \in [Conns -> [at : Places, closes : Nat]]
        /\ conns'[c].at = (IF pc = "configure" THEN "callback" ELSE "closed")
        /\ conns'[c].closes = conns[c].closes + (IF pc = "configure" THEN 0 ELSE 1)
        /\ \A d \in Conns : d # c => conns'[d] = conns[d]
    <3>1. CASE pc = "configure"
      BY <1>a, <2>1, <3>1, MoveConnKeeps DEF Places, Shapes
    <3>2. CASE pc = "returned"
      BY <1>a, <2>1, <3>2, CloseConnKeeps
    <3> QED
      BY <3>1, <3>2
  <2>4. inv[c].pc = "none" /\ native = "open" /\ conns[c].at = "none" /\ conns[c].closes = 0 /\ ~inv[c].owned
    BY <1>1, <1>a DEF NewConnection, TokenTrue, TokenFor
  <2>5. UNCHANGED <<queue, accepts, panics, native>>
    BY <1>1 DEF NewConnection, accVars, natVars
  <2>6. Shapes' /\ StopShape'
    BY <1>a, <1>b, <2>2, <2>3, <2>5 DEF Shapes, StopShape
  <2>7. TokenTrue'
    <3>1. TokenFor(c)'
      <4>1. CASE pc = "configure"
        BY <2>2, <2>3, <2>4, <4>1 DEF TokenFor, Recovery
      <4>2. CASE pc = "returned"
        BY <2>2, <2>3, <2>4, <4>2 DEF TokenFor, Recovery
      <4> QED
        BY <4>1, <4>2
    <3> QED
      BY <1>a, <1>b, <2>2, <2>3, <3>1, OneToken
  <2>8. QueueTrue'
    BY <1>a, <2>3, <2>4, <2>5, SameQueue
  <2>9. NoneIsLast'
    BY <1>a, <1>b, <2>2, <2>4, <2>5 DEF NoneIsLast, Recovery
  <2> QED
    BY <2>6, <2>7, <2>8, <2>9 DEF IInv
<1>2. ASSUME NEW c \in Conns, SetConfiguration(c) PROVE IInv'
  <2>1. inv[c].pc = "configure" /\ conns[c].at = "callback" /\ conns[c].closes = 0 /\ ~inv[c].owned
    BY <1>2, <1>a DEF SetConfiguration, TokenTrue, TokenFor
  <2>2. UNCHANGED <<queue, accepts, panics, native>>
    BY <1>2 DEF SetConfiguration, accVars, natVars
  <2>3. CASE inv' = [inv EXCEPT ![c] = [pc |-> "deliver", owned |-> TRUE]] /\ UNCHANGED conns
    <3>1. /\ inv' \in [Invocations -> [pc : Pcs, owned : BOOLEAN]]
          /\ inv'[c].pc = "deliver" /\ inv'[c].owned
          /\ \A j \in Invocations : j # c => inv'[j] = inv[j]
      BY <1>a, <1>b, <2>3 DEF Shapes, Pcs
    <3>2. Shapes' /\ StopShape'
      BY <1>a, <1>b, <2>2, <2>3, <3>1 DEF Shapes, StopShape
    <3>3. TokenTrue'
      <4>1. TokenFor(c)'
        BY <2>1, <2>3, <3>1 DEF TokenFor, Recovery
      <4> QED
        BY <1>a, <1>b, <2>3, <3>1, <4>1, OneToken
    <3>4. QueueTrue'
      BY <1>a, <2>2, <2>3, SameQueue
    <3>5. NoneIsLast'
      BY <1>a, <1>b, <2>1, <2>2, <3>1 DEF NoneIsLast, Recovery
    <3> QED
      BY <3>2, <3>3, <3>4, <3>5 DEF IInv
  <2>4. CASE GoTo(c, "returned") /\ conns' = CloseConn(c)
    <3>1. /\ inv' \in [Invocations -> [pc : Pcs, owned : BOOLEAN]]
          /\ inv'[c].pc = "returned" /\ inv'[c].owned = inv[c].owned
          /\ \A j \in Invocations : j # c => inv'[j] = inv[j]
      BY <1>a, <1>b, <2>4, GoToKeeps DEF Pcs
    <3>2. /\ conns' \in [Conns -> [at : Places, closes : Nat]]
          /\ conns'[c].at = "closed" /\ conns'[c].closes = conns[c].closes + 1
          /\ \A d \in Conns : d # c => conns'[d] = conns[d]
      BY <1>a, <2>4, CloseConnKeeps
    <3>3. Shapes' /\ StopShape'
      BY <1>a, <1>b, <2>2, <3>1, <3>2 DEF Shapes, StopShape
    <3>4. TokenTrue'
      <4>1. TokenFor(c)'
        BY <2>1, <3>1, <3>2 DEF TokenFor, Recovery
      <4> QED
        BY <1>a, <1>b, <3>1, <3>2, <4>1, OneToken
    <3>5. QueueTrue'
      BY <1>a, <2>1, <2>2, <3>2, SameQueue
    <3>6. NoneIsLast'
      BY <1>a, <1>b, <2>1, <2>2, <3>1 DEF NoneIsLast, Recovery
    <3> QED
      BY <3>3, <3>4, <3>5, <3>6 DEF IInv
  <2> QED
    BY <1>2, <2>3, <2>4 DEF SetConfiguration
<1>3. ASSUME NEW c \in Conns, DeliverConn(c) PROVE IInv'
  <2>1. inv[c].pc = "deliver" /\ conns[c].at = "callback" /\ conns[c].closes = 0
    BY <1>3, <1>a DEF DeliverConn, TokenTrue, TokenFor
  <2>2. UNCHANGED <<accepts, panics, native>>
    BY <1>3 DEF DeliverConn, natVars
  <2>3. /\ inv' \in [Invocations -> [pc : Pcs, owned : BOOLEAN]]
        /\ inv'[c].pc = "returned" /\ inv'[c].owned = inv[c].owned
        /\ \A j \in Invocations : j # c => inv'[j] = inv[j]
    BY <1>3, <1>a, <1>b, GoToKeeps DEF DeliverConn, Pcs
  <2>4. CASE Received
    <3>1. queue' = Append(queue, c) /\ queue \in Seq(Invocations)
      BY <1>3, <1>a, <2>4 DEF DeliverConn, Enqueue, Shapes
    <3>2. /\ conns' \in [Conns -> [at : Places, closes : Nat]]
          /\ conns'[c].at = "queue" /\ conns'[c].closes = conns[c].closes
          /\ \A d \in Conns : d # c => conns'[d] = conns[d]
      BY <1>3, <1>a, <2>4, MoveConnKeeps DEF DeliverConn, Places
    <3>3. Shapes' /\ StopShape'
      BY <1>a, <1>b, <2>2, <2>3, <3>1, <3>2, AppendIndices DEF Shapes, StopShape
    <3>4. TokenTrue'
      <4>1. TokenFor(c)'
        BY <2>1, <2>3, <3>2 DEF TokenFor, Recovery
      <4> QED
        BY <1>a, <1>b, <2>3, <3>2, <4>1, OneToken
    <3>5. /\ DOMAIN queue' = DOMAIN queue \cup {Len(queue) + 1} /\ Len(queue') = Len(queue) + 1
          /\ queue'[Len(queue) + 1] = c
          /\ \A i \in DOMAIN queue : queue'[i] = queue[i] /\ i \in Nat /\ i <= Len(queue)
          /\ Len(queue) \in Nat
      BY <1>b, <3>1, AppendIndices
    <3>6. \A i \in DOMAIN queue : queue[i] # c /\ queue[i] \in Invocations
      BY <1>a, <2>1, QueuedOnlyOnce DEF Shapes
    <3>7. QueueTrue'
      <4>1. \A i \in DOMAIN queue' : queue'[i] # Stop => conns'[queue'[i]].at = "queue"
        BY <1>a, <3>2, <3>5, <3>6 DEF QueueTrue, Invocations
      <4>2. \A i, j \in DOMAIN queue' : queue'[i] = queue'[j] /\ queue'[i] # Stop => i = j
        BY <1>a, <3>5, <3>6 DEF QueueTrue
      <4>3. \A d \in Conns : conns'[d].at = "queue" => \E i \in DOMAIN queue' : queue'[i] = d
        BY <1>a, <3>2, <3>5 DEF QueueTrue
      <4> QED
        BY <4>1, <4>2, <4>3 DEF QueueTrue
    <3>8. NoneIsLast'
      <4>1. panics = 0 => inv[Stop].pc = "none"
        BY <1>a, <2>1 DEF NoneIsLast
      <4> QED
        BY <1>a, <1>b, <2>1, <2>2, <2>3, <3>5, <4>1 DEF NoneIsLast, Recovery
    <3> QED
      BY <3>3, <3>4, <3>7, <3>8 DEF IInv
  <2>5. CASE ~Received
    <3>1. queue' = queue /\ conns' = CloseConn(c)
      BY <1>3, <2>5 DEF DeliverConn, Enqueue
    <3>2. /\ conns' \in [Conns -> [at : Places, closes : Nat]]
          /\ conns'[c].at = "closed" /\ conns'[c].closes = conns[c].closes + 1
          /\ \A d \in Conns : d # c => conns'[d] = conns[d]
      BY <1>a, <3>1, CloseConnKeeps
    <3>3. Shapes' /\ StopShape'
      BY <1>a, <1>b, <2>2, <2>3, <3>1, <3>2 DEF Shapes, StopShape
    <3>4. TokenTrue'
      <4>1. TokenFor(c)'
        BY <2>1, <2>3, <3>2 DEF TokenFor, Recovery
      <4> QED
        BY <1>a, <1>b, <2>3, <3>2, <4>1, OneToken
    <3>5. QueueTrue'
      BY <1>a, <2>1, <3>1, <3>2, SameQueue
    <3>6. NoneIsLast'
      BY <1>a, <1>b, <2>1, <2>2, <2>3, <3>1 DEF NoneIsLast, Recovery
    <3> QED
      BY <3>3, <3>4, <3>5, <3>6 DEF IInv
  <2> QED
    BY <2>4, <2>5
<1>4. CASE StopComplete
  <2>1. PICK pc \in {"returned", "none sent"} : GoTo(Stop, pc)
    BY <1>4 DEF StopComplete
  <2>2. /\ inv' \in [Invocations -> [pc : Pcs, owned : BOOLEAN]] /\ inv'[Stop].pc = pc
        /\ \A j \in Invocations : j # Stop => inv'[j] = inv[j]
    BY <1>a, <1>b, <2>1, GoToKeeps DEF Pcs, Recovery
  <2>3. UNCHANGED <<conns, queue, accepts, panics, native>>
    BY <1>4 DEF StopComplete, accVars, natVars
  <2>4. Shapes' /\ StopShape'
    BY <1>a, <2>2, <2>3 DEF Shapes, StopShape
  <2>5. TokenTrue'
    BY <1>a, <1>b, <2>2, <2>3, OneToken
  <2>6. QueueTrue'
    BY <1>a, <2>3, SameQueue
  <2>7. NoneIsLast'
    <3>1. native # "open" /\ inv[Stop].pc = "none" /\ \A c \in Conns : inv[c].pc \in {"none", "returned"}
      BY <1>4, <1>b DEF StopComplete
    <3> QED
      BY <1>a, <1>b, <2>2, <2>3, <3>1 DEF NoneIsLast
  <2> QED
    BY <2>4, <2>5, <2>6, <2>7 DEF IInv
<1>5. ASSUME NEW i \in Invocations, SendNone(i) PROVE IInv'
  <2>1. inv[i].pc = "none sent" /\ UNCHANGED <<conns, accepts, panics, native>>
    BY <1>5 DEF SendNone, natVars
  <2>2. /\ inv' \in [Invocations -> [pc : Pcs, owned : BOOLEAN]]
        /\ inv'[i].pc = "release" /\ inv'[i].owned = inv[i].owned
        /\ \A j \in Invocations : j # i => inv'[j] = inv[j]
    BY <1>5, <1>a, GoToKeeps DEF SendNone, Pcs, Recovery
  <2>3. TokenTrue'
    <3>1. i \in Conns => TokenFor(i)'
      BY <1>a, <2>1, <2>2 DEF TokenTrue, TokenFor, Recovery
    <3> QED
      BY <1>a, <1>b, <2>1, <2>2, <3>1, OneToken
  <2>4. panics = 0 => i = Stop
    BY <1>a, <2>1 DEF NoneIsLast, Recovery, Invocations
  <2>5. CASE Received
    <3>1. queue' = Append(queue, Stop) /\ queue \in Seq(Invocations)
      BY <1>5, <1>a, <2>5 DEF SendNone, Enqueue, Shapes
    <3>2. /\ DOMAIN queue' = DOMAIN queue \cup {Len(queue) + 1} /\ Len(queue') = Len(queue) + 1
          /\ queue'[Len(queue) + 1] = Stop
          /\ \A j \in DOMAIN queue : queue'[j] = queue[j] /\ j \in Nat /\ j <= Len(queue)
          /\ Len(queue) \in Nat
      BY <1>b, <3>1, AppendIndices
    <3>3. Shapes' /\ StopShape'
      BY <1>a, <1>b, <2>1, <2>2, <3>1, AppendIndices DEF Shapes, StopShape
    <3>4. QueueTrue'
      BY <1>a, <2>1, <3>2 DEF QueueTrue
    <3>5. NoneIsLast'
      BY <1>a, <1>b, <2>1, <2>2, <2>4, <3>2 DEF NoneIsLast
    <3> QED
      BY <2>3, <3>3, <3>4, <3>5 DEF IInv
  <2>6. CASE ~Received
    <3>1. queue' = queue
      BY <1>5, <2>6 DEF SendNone, Enqueue
    <3>2. Shapes' /\ StopShape'
      BY <1>a, <1>b, <2>1, <2>2, <3>1 DEF Shapes, StopShape
    <3>3. QueueTrue'
      BY <1>a, <2>1, <3>1, SameQueue
    <3>4. NoneIsLast'
      BY <1>a, <1>b, <2>1, <2>2, <2>4, <3>1 DEF NoneIsLast
    <3> QED
      BY <2>3, <3>2, <3>3, <3>4 DEF IInv
  <2> QED
    BY <2>5, <2>6
<1>6. ASSUME NEW i \in Invocations, ReleaseShutdown(i) PROVE IInv'
  <2>1. inv[i].pc = "release" /\ UNCHANGED <<conns, queue, accepts, panics, native>>
    BY <1>6 DEF ReleaseShutdown, natVars, accVars
  <2>2. /\ inv' \in [Invocations -> [pc : Pcs, owned : BOOLEAN]]
        /\ inv'[i].pc = (IF i = Stop THEN "returned" ELSE "poison") /\ inv'[i].owned = inv[i].owned
        /\ \A j \in Invocations : j # i => inv'[j] = inv[j]
    BY <1>6, <1>a, GoToKeeps DEF ReleaseShutdown, Pcs, Recovery
  <2>3. TokenTrue'
    <3>1. i \in Conns => TokenFor(i)'
      BY <1>a, <1>b, <2>1, <2>2 DEF TokenTrue, TokenFor, Recovery
    <3> QED
      BY <1>a, <1>b, <2>1, <2>2, <3>1, OneToken
  <2>4. Shapes' /\ StopShape'
    BY <1>a, <1>b, <2>1, <2>2 DEF Shapes, StopShape
  <2>5. QueueTrue'
    BY <1>a, <2>1, SameQueue
  <2>6. NoneIsLast'
    <3>1. panics = 0 => i = Stop
      BY <1>a, <2>1 DEF NoneIsLast, Recovery, Invocations
    <3> QED
      BY <1>a, <1>b, <2>1, <2>2, <3>1 DEF NoneIsLast
  <2> QED
    BY <2>3, <2>4, <2>5, <2>6 DEF IInv
<1>7. ASSUME NEW c \in Conns, CallbackPanic(c) PROVE IInv'
  <2>1. /\ inv[c].pc \in {"configure", "deliver"} /\ panics' = panics + 1
        /\ UNCHANGED <<queue, accepts, native>>
    BY <1>7 DEF CallbackPanic, PanicThen, accVars, natVars
  <2>2. /\ inv' \in [Invocations -> [pc : Pcs, owned : BOOLEAN]]
        /\ inv'[c].pc = "none sent" /\ inv'[c].owned = inv[c].owned
        /\ \A j \in Invocations : j # c => inv'[j] = inv[j]
    BY <1>7, <1>a, <1>b, GoToKeeps DEF CallbackPanic, PanicThen, Pcs, Recovery
  <2>3. conns[c].at = "callback" /\ conns[c].closes = 0 /\ inv[c].owned \in BOOLEAN
    BY <1>a, <1>b, <2>1 DEF TokenTrue, TokenFor, Shapes
  <2>4. /\ conns' \in [Conns -> [at : Places, closes : Nat]]
        /\ conns'[c].at = (IF inv[c].owned THEN "closed" ELSE "callback")
        /\ conns'[c].closes = (IF inv[c].owned THEN 1 ELSE 0)
        /\ \A d \in Conns : d # c => conns'[d] = conns[d]
    <3>1. CASE inv[c].owned
      <4>1. conns' = CloseConn(c)
        BY <1>7, <3>1 DEF CallbackPanic, PanicThen
      <4> QED
        BY <1>a, <2>3, <3>1, <4>1, CloseConnKeeps
    <3>2. CASE ~inv[c].owned
      BY <1>7, <1>a, <2>3, <3>2 DEF CallbackPanic, PanicThen, Shapes
    <3> QED
      BY <3>1, <3>2
  <2>5. Shapes' /\ StopShape' /\ panics' # 0
    <3>1. panics' \in Nat /\ panics' # 0
      BY <1>a, <2>1 DEF Shapes
    <3> QED
      BY <1>a, <1>b, <2>1, <2>2, <2>4, <3>1 DEF Shapes, StopShape
  <2>6. TokenTrue'
    <3>1. TokenFor(c)'
      <4>1. CASE inv[c].owned
        BY <2>2, <2>4, <4>1 DEF TokenFor, Recovery
      <4>2. CASE ~inv[c].owned
        BY <2>2, <2>4, <4>2 DEF TokenFor, Recovery
      <4> QED
        BY <4>1, <4>2
    <3> QED
      BY <1>a, <1>b, <2>2, <2>4, <3>1, OneToken
  <2>7. QueueTrue'
    BY <1>a, <2>1, <2>3, <2>4, SameQueue
  <2>8. NoneIsLast'
    BY <2>5 DEF NoneIsLast
  <2> QED
    BY <2>5, <2>6, <2>7, <2>8 DEF IInv
<1>8. ASSUME NEW c \in Conns, ListenerRecover(c) PROVE IInv'
  <2>1. inv[c].pc = "poison" /\ UNCHANGED <<queue, accepts, panics, native>>
    BY <1>8 DEF ListenerRecover, RecoverReturning, accVars, natVars
  <2>2. /\ inv' \in [Invocations -> [pc : Pcs, owned : BOOLEAN]]
        /\ inv'[c].pc = "returned" /\ inv'[c].owned = inv[c].owned
        /\ \A j \in Invocations : j # c => inv'[j] = inv[j]
    BY <1>8, <1>a, <1>b, GoToKeeps DEF ListenerRecover, RecoverReturning, Pcs
  <2>3. /\ conns[c].at = (IF inv[c].owned THEN "closed" ELSE "callback")
        /\ conns[c].closes = (IF conns[c].at = "closed" THEN 1 ELSE 0)
    BY <1>a, <2>1 DEF TokenTrue, TokenFor, Recovery
  <2>4. /\ conns' \in [Conns -> [at : Places, closes : Nat]]
        /\ conns'[c].at = "closed" /\ conns'[c].closes = 1
        /\ \A d \in Conns : d # c => conns'[d] = conns[d]
    <3>1. CASE inv[c].owned
      BY <1>8, <1>a, <2>3, <3>1 DEF ListenerRecover, RecoverReturning, Shapes
    <3>2. CASE ~inv[c].owned
      BY <1>8, <1>a, <2>3, <3>2, CloseConnKeeps DEF ListenerRecover, RecoverReturning
    <3> QED
      BY <3>1, <3>2
  <2>5. Shapes' /\ StopShape'
    BY <1>a, <1>b, <2>1, <2>2, <2>4 DEF Shapes, StopShape
  <2>6. TokenTrue'
    <3>1. TokenFor(c)'
      BY <2>2, <2>4 DEF TokenFor, Recovery
    <3> QED
      BY <1>a, <1>b, <2>2, <2>4, <3>1, OneToken
  <2>7. QueueTrue'
    BY <1>a, <2>1, <2>3, <2>4, SameQueue
  <2>8. NoneIsLast'
    BY <1>a, <1>b, <2>1, <2>2 DEF NoneIsLast, Recovery
  <2> QED
    BY <2>5, <2>6, <2>7, <2>8 DEF IInv
<1>9. CASE PollAccept
  <2>1. UNCHANGED <<inv, panics, native>>
    BY <1>9 DEF PollAccept, cbVars, natVars
  <2>2. CASE queue # <<>> /\ queue' = Tail(queue) /\ Head(queue) = Stop
    <3>1. accepts' \in [ended : {TRUE}, late : {accepts.late}] /\ UNCHANGED conns
      BY <1>9, <1>a, <2>2 DEF PollAccept, Shapes
    <3>2. queue \in Seq(Invocations)
      BY <1>a DEF Shapes
    <3>3. /\ queue' \in Seq(Invocations) /\ Len(queue') = Len(queue) - 1 /\ queue[1] = Stop /\ 1 \in DOMAIN queue
          /\ \A i \in DOMAIN queue' : i \in Nat /\ i + 1 \in DOMAIN queue /\ queue'[i] = queue[i + 1]
          /\ \A i \in DOMAIN queue : i \in Nat /\ (i # 1 => i - 1 \in DOMAIN queue' /\ queue'[i - 1] = queue[i])
          /\ Len(queue) \in Nat
      BY <2>2, <3>2, TailIndices
    <3>4. Shapes' /\ StopShape' /\ TokenTrue'
      BY <1>a, <2>1, <3>1, <3>3 DEF Shapes, StopShape, TokenTrue, TokenFor
    <3>5. QueueTrue'
      <4>1. \A i, j \in DOMAIN queue' : queue'[i] = queue'[j] /\ queue'[i] # Stop => i = j
        <5> SUFFICES ASSUME NEW i \in DOMAIN queue', NEW j \in DOMAIN queue', queue'[i] = queue'[j], queue'[i] # Stop
                     PROVE  i = j
          OBVIOUS
        <5>1. i + 1 = j + 1
          BY <1>a, <3>3 DEF QueueTrue
        <5> QED
          BY <3>3, <5>1
      <4>2. \A i \in DOMAIN queue' : queue'[i] # Stop => conns'[queue'[i]].at = "queue"
        BY <1>a, <3>1, <3>3 DEF QueueTrue
      <4>3. \A d \in Conns : conns'[d].at = "queue" => \E i \in DOMAIN queue' : queue'[i] = d
        <5> SUFFICES ASSUME NEW d \in Conns, conns'[d].at = "queue" PROVE \E i \in DOMAIN queue' : queue'[i] = d
          OBVIOUS
        <5>1. PICK i \in DOMAIN queue : queue[i] = d
          BY <1>a, <3>1 DEF QueueTrue
        <5> QED
          BY <1>b, <3>3, <5>1
      <4> QED
        BY <4>1, <4>2, <4>3 DEF QueueTrue
    <3>6. NoneIsLast'
      <4> SUFFICES ASSUME panics = 0 PROVE NoneIsLast'
        BY <2>1 DEF NoneIsLast
      <4>1. Len(queue) = 1 /\ inv[Stop].pc \notin {"none", "none sent"} /\ ~accepts.late
        BY <1>a, <3>3 DEF NoneIsLast
      <4>2. queue' = <<>> /\ DOMAIN queue' = {}
        <5>1. queue' = <<>>
          BY <2>2, <3>2, <4>1, TailOfOne
        <5> QED
          BY <5>1
      <4> QED
        BY <1>a, <2>1, <3>1, <4>1, <4>2 DEF NoneIsLast
    <3> QED
      BY <3>4, <3>5, <3>6 DEF IInv
  <2>3. CASE queue # <<>> /\ queue' = Tail(queue) /\ Head(queue) # Stop
    <3> DEFINE c == Head(queue)
    <3>1. queue \in Seq(Invocations)
      BY <1>a DEF Shapes
    <3>2. /\ queue' \in Seq(Invocations) /\ Len(queue') = Len(queue) - 1 /\ queue[1] = c /\ 1 \in DOMAIN queue
          /\ \A i \in DOMAIN queue' : i \in Nat /\ i + 1 \in DOMAIN queue /\ queue'[i] = queue[i + 1]
          /\ \A i \in DOMAIN queue : i \in Nat /\ (i # 1 => i - 1 \in DOMAIN queue' /\ queue'[i - 1] = queue[i])
          /\ Len(queue) \in Nat
      BY <2>3, <3>1, TailIndices
    <3>3. c \in Conns /\ conns[c].at = "queue"
      BY <1>a, <2>3, <3>1, <3>2 DEF QueueTrue, Invocations
    <3>4. conns[c].closes = 0 /\ inv[c].pc = "returned"
      BY <1>a, <1>b, <3>3 DEF TokenTrue, TokenFor, Shapes, Pcs, Recovery
    <3>5. /\ accepts' = [accepts EXCEPT !.late = @ \/ accepts.ended]
          /\ conns' = [conns EXCEPT ![c].at = "app"]
      BY <1>9, <2>3 DEF PollAccept
    <3> HIDE DEF c
    <3>6. /\ conns' \in [Conns -> [at : Places, closes : Nat]]
          /\ conns'[c].at = "app" /\ conns'[c].closes = conns[c].closes
          /\ \A d \in Conns : d # c => conns'[d] = conns[d]
      BY <1>a, <3>3, <3>5, MoveConnKeeps DEF Places
    <3>7. /\ accepts' \in [ended : {accepts.ended}, late : BOOLEAN]
          /\ accepts'.late <=> (accepts.late \/ accepts.ended)
      BY <1>a, <3>5 DEF Shapes
    <3>8. Shapes' /\ StopShape'
      BY <1>a, <2>1, <3>2, <3>6, <3>7 DEF Shapes, StopShape
    <3>9. TokenTrue'
      <4>1. PICK d : d = c
        OBVIOUS
      <4>2. TokenFor(d)'
        BY <2>1, <3>4, <3>6, <4>1 DEF TokenFor, Recovery
      <4> QED
        BY <1>a, <2>1, <3>6, <4>1, <4>2, OneToken
    <3>10. QueueTrue'
      <4>1. \A i \in DOMAIN queue' : queue'[i] # c /\ queue'[i] \in Invocations
        <5> SUFFICES ASSUME NEW i \in DOMAIN queue' PROVE queue'[i] # c /\ queue'[i] \in Invocations
          OBVIOUS
        <5>1. i + 1 \in DOMAIN queue /\ queue'[i] = queue[i + 1] /\ i + 1 # 1
          BY <3>1, <3>2
        <5> QED
          BY <1>a, <2>3, <3>1, <3>2, <5>1 DEF QueueTrue, c
      <4>2. \A i \in DOMAIN queue' : queue'[i] # Stop => conns'[queue'[i]].at = "queue"
        BY <1>a, <3>2, <3>6, <4>1 DEF QueueTrue, Invocations
      <4>3. \A i, j \in DOMAIN queue' : queue'[i] = queue'[j] /\ queue'[i] # Stop => i = j
        <5> SUFFICES ASSUME NEW i \in DOMAIN queue', NEW j \in DOMAIN queue', queue'[i] = queue'[j], queue'[i] # Stop
                     PROVE  i = j
          OBVIOUS
        <5>1. i + 1 = j + 1
          BY <1>a, <3>2 DEF QueueTrue
        <5> QED
          BY <3>2, <5>1
      <4>4. \A d \in Conns : conns'[d].at = "queue" => \E i \in DOMAIN queue' : queue'[i] = d
        <5> SUFFICES ASSUME NEW d \in Conns, conns'[d].at = "queue" PROVE \E i \in DOMAIN queue' : queue'[i] = d
          OBVIOUS
        <5>1. d # c /\ conns[d].at = "queue"
          BY <3>6
        <5>2. PICK i \in DOMAIN queue : queue[i] = d
          BY <1>a, <5>1 DEF QueueTrue
        <5> QED
          BY <3>2, <5>1, <5>2
      <4> QED
        BY <4>2, <4>3, <4>4 DEF QueueTrue
    <3>11. NoneIsLast'
      <4> SUFFICES ASSUME panics = 0 PROVE NoneIsLast'
        BY <2>1 DEF NoneIsLast
      <4>1. ~accepts.ended /\ ~accepts.late
        BY <1>a, <2>3 DEF NoneIsLast
      <4>2. \A i \in DOMAIN queue' : queue'[i] = Stop => i = Len(queue')
        <5> SUFFICES ASSUME NEW i \in DOMAIN queue', queue'[i] = Stop PROVE i = Len(queue')
          OBVIOUS
        <5>1. i + 1 = Len(queue)
          BY <1>a, <3>2 DEF NoneIsLast
        <5> QED
          BY <3>2, <5>1
      <4>3. inv[Stop].pc \in {"none", "none sent"} => \A i \in DOMAIN queue' : queue'[i] # Stop
        <5> SUFFICES ASSUME inv[Stop].pc \in {"none", "none sent"}, NEW i \in DOMAIN queue' PROVE queue'[i] # Stop
          OBVIOUS
        <5>1. i + 1 \in DOMAIN queue /\ queue'[i] = queue[i + 1]
          BY <3>2
        <5> QED
          BY <1>a, <5>1 DEF NoneIsLast
      <4>4. ~accepts'.ended /\ ~accepts'.late
        BY <3>7, <4>1
      <4> QED
        BY <1>a, <2>1, <4>2, <4>3, <4>4 DEF NoneIsLast
    <3> QED
      BY <3>8, <3>9, <3>10, <3>11 DEF IInv
  <2>4. CASE UNCHANGED <<queue, accepts, conns>>
    BY <1>a, <2>1, <2>4, SameQueue DEF IInv, Shapes, StopShape, TokenTrue, TokenFor, NoneIsLast
  <2> QED
    BY <1>9, <2>2, <2>3, <2>4 DEF PollAccept
<1>10. ASSUME NEW c \in Conns, DropAccepted(c) PROVE IInv'
  <2>1. conns[c].at = "app" /\ UNCHANGED <<inv, queue, accepts, panics, native>>
    BY <1>10 DEF DropAccepted, cbVars, accVars, natVars
  <2>2. conns[c].closes = 0 /\ inv[c].pc = "returned"
    BY <1>a, <1>b, <2>1 DEF TokenTrue, TokenFor, Shapes, Pcs, Recovery
  <2>3. /\ conns' \in [Conns -> [at : Places, closes : Nat]]
        /\ conns'[c].at = "closed" /\ conns'[c].closes = conns[c].closes + 1
        /\ \A d \in Conns : d # c => conns'[d] = conns[d]
    BY <1>10, <1>a, CloseConnKeeps DEF DropAccepted
  <2>4. Shapes' /\ StopShape' /\ NoneIsLast'
    BY <1>a, <2>1, <2>3 DEF Shapes, StopShape, NoneIsLast
  <2>5. TokenTrue'
    <3>1. TokenFor(c)'
      BY <2>1, <2>2, <2>3 DEF TokenFor, Recovery
    <3> QED
      BY <1>a, <2>1, <2>3, <3>1, OneToken
  <2>6. QueueTrue'
    BY <1>a, <2>1, <2>3, SameQueue
  <2> QED
    BY <2>4, <2>5, <2>6 DEF IInv
<1>11. CASE DropReceiver
  <2>1. queue' = <<>> /\ DOMAIN queue' = {} /\ UNCHANGED <<inv, accepts, panics, native>>
    BY <1>11 DEF DropReceiver, cbVars, accVars
  <2>2. conns' = [c \in Conns |-> IF conns[c].at = "queue"
                               THEN [at |-> "closed", closes |-> conns[c].closes + 1] ELSE conns[c]]
    BY <1>11 DEF DropReceiver
  <2>3. /\ conns' \in [Conns -> [at : Places, closes : Nat]]
        /\ \A c \in Conns : conns'[c].at # "queue"
    BY <1>a, <2>2 DEF Shapes, Places
  <2>4. Shapes' /\ StopShape'
    <3>1. queue' \in Seq(Invocations)
      BY <2>1, EmptySeq
    <3> QED
      BY <1>a, <2>1, <2>3, <3>1 DEF Shapes, StopShape
  <2>5. TokenTrue'
    <3> SUFFICES ASSUME NEW c \in Conns PROVE TokenFor(c)'
      BY DEF TokenTrue
    <3>1. CASE conns[c].at = "queue"
      <4>1. conns[c].closes = 0 /\ inv[c].pc = "returned"
        BY <1>a, <1>b, <3>1 DEF TokenTrue, TokenFor, Shapes, Pcs, Recovery
      <4>2. conns'[c].at = "closed" /\ conns'[c].closes = 1 /\ inv'[c].pc = "returned"
        BY <2>1, <2>2, <3>1, <4>1
      <4> QED
        BY <4>2 DEF TokenFor, Recovery
    <3>2. CASE conns[c].at # "queue"
      <4>1. conns'[c] = conns[c] /\ inv'[c] = inv[c]
        BY <2>1, <2>2, <3>2
      <4> QED
        BY <1>a, <4>1 DEF TokenTrue, TokenFor
    <3> QED
      BY <3>1, <3>2
  <2>6. QueueTrue' /\ NoneIsLast'
    BY <1>a, <2>1, <2>3 DEF QueueTrue, NoneIsLast
  <2> QED
    BY <2>4, <2>5, <2>6 DEF IInv
<1>12. ASSUME UNCHANGED <<inv, conns, queue, accepts, panics>>, native # "open" => native' # "open"
       PROVE  IInv'
  BY <1>a, <1>12, SameQueue DEF IInv, Shapes, StopShape, TokenTrue, TokenFor, NoneIsLast
<1>13. CASE Stopped \/ DropListener \/ \E k \in Callers : TakeShutdown(k) \/ ShutdownCall(k) \/ CancelShutdown(k)
  BY <1>12, <1>13 DEF Stopped, DropListener, TakeShutdown, ShutdownCall, StopListener, AwaitStop,
     CancelShutdown, cbVars, accVars, natVars
<1>14. CASE UNCHANGED vars
  BY <1>12, <1>14 DEF vars, cbVars, accVars, natVars
<1> QED
  BY <1>b, <1>1, <1>2, <1>3, <1>4, <1>5, <1>6, <1>7, <1>8, <1>9, <1>10, <1>11, <1>13, <1>14
     DEF Next, CallbackStep, StopStep

\* Hence it holds of every reachable state.
LEMMA Invariance == Spec => []IInv
BY InitIInv, NextIInv, PTL DEF Spec

-----------------------------------------------------------------------------
\* For any number of parallel callbacks and panics, every offered connection has one
\* owner once its callback returned, and is closed once.
THEOREM ConnSettledOnceAlways == Spec => []ConnSettledOnce
<1>1. IInv => ConnSettledOnce
  <2> SUFFICES ASSUME IInv, NEW c \in Conns
               PROVE  /\ inv[c].pc = "returned" => conns[c].at # "callback"
                      /\ conns[c].closes = (IF conns[c].at = "closed" THEN 1 ELSE 0)
                      /\ Cardinality({i \in DOMAIN queue : queue[i] = c})
                            = (IF conns[c].at = "queue" THEN 1 ELSE 0)
    BY DEF ConnSettledOnce
  <2> DEFINE entries == {i \in DOMAIN queue : queue[i] = c}
  <2>1. TokenFor(c) /\ c # Stop
    BY ListenerAssumption DEF IInv, TokenTrue
  <2>2. CASE conns[c].at = "queue"
    <3>1. PICK i \in DOMAIN queue : queue[i] = c
      BY <2>2 DEF IInv, QueueTrue
    <3>2. entries = {i}
      BY <2>1, <3>1 DEF IInv, QueueTrue
    <3> QED
      BY <2>1, <2>2, <3>2, FS_Singleton DEF TokenFor
  <2>3. CASE conns[c].at # "queue"
    <3>1. entries = {}
      BY <2>3, ListenerAssumption, QueuedOnlyOnce DEF IInv
    <3> QED
      BY <2>1, <2>3, <3>1, FS_EmptySet DEF TokenFor
  <2> QED
    BY <2>2, <2>3
<1> QED
  BY <1>1, Invariance, PTL

\* Without a panic, accept returns no connection after None, however the deliveries,
\* the stop and the accepts interleave.
THEOREM EndIsFinalAlways == Spec => []EndIsFinalWithoutPanic
<1>1. IInv => EndIsFinalWithoutPanic
  BY DEF IInv, NoneIsLast, EndIsFinalWithoutPanic, EndIsFinal
<1> QED
  BY <1>1, Invariance, PTL
=============================================================================
