# msquic-h3 in TLA+

`msquic-h3` (under `msquic-h3/src`) adapts msquic, a callback-driven QUIC library in C, to
the poll-driven traits of the `h3` crate. msquic worker threads run the adapter's callbacks;
async tasks run its frontends. Nearly everything that can go wrong is in the hand-over between
the two: which error h3 hears, whether a parked task is woken, whether msquic is told to
continue, whether memory and handles outlive their users. This project models that hand-over,
checks it with TLC on small instances and proves the central parts with TLAPS.

## 1. Inventory

| Component | State | Operations | Hard behaviour | What makes it correct |
|---|---|---|---|---|
| Terminal slots (`terminal.rs`) | connection slot (cause, observed), one send slot per stream, each behind a mutex | `record`, `observe`, `commit_conn`, `publish_send` | writers on callbacks, on `close` and on frontends; readers that freeze | one cause reaches h3; a reported error never changes |
| Send reducer (`error.rs transition`) | six flags | one arm per `SendInput` | long call sequences | the arms it calls impossible are |
| Send half (`stream.rs`) | reducer, ordered event channel, slots, boxed buffers | `poll_ready`, `send_data`, `poll_finish`, `reset`; send arms of `stream_callback` | every frontend call is several locked sections | sticky errors, no lost wake-up or finish event, each buffer freed once |
| Receive half (`stream.rs`) | `RecvBudget`, event channel, cached terminal | `poll_data`, `stop_sending`; receive arms of `stream_callback` | `admit` races `on_drained`; `receive_complete` races the callback's `PENDING` | exact accounting, msquic resumed exactly once, data before the end |
| Panic containment (`callback.rs`) | poison flag per context | `guard_callback`, `*_recover` | a panic between two effects | waiters hear of it, native state is shut down |
| Connection (`connection.rs`) | slot, accept channels, connect and shutdown waiters, `ConnHandle` | callback, `connect`, `poll_accept_*`, `get_shutdown_waiter` | events before and after the waiter is gone; a stream's ownership around a panic | every waiter resolves with the recorded cause; a peer stream is closed once; queued streams come before an ordinary end |
| Opener and stream start (`opener.rs`, `stream.rs`) | two holders of an opening stream, its one-shot | `poll_open_*`, `close`, `StartComplete`, drop | start fails because of a later terminal | the error is the connection's when there is one; a native stream has one owner |
| Listener (`listener.rs`) | accept channel, waiter, poison flag | `listener_callback` on several workers, `accept`, `shutdown` | several callbacks at once, one of them panicking | each connection is settled once; `accept` and `shutdown` are released |
| Registration rundown (`registration.rs`) | atomic count, waker table | `RundownGuard` new / drop, `WaitIdle` poll / drop, `shutdown` | decrement, drain and wake are separate steps; registration races them | `wait_idle` resolves, and only when nothing is open |
| Configuration and buffers (`config.rs`, `buffer.rs`) | builder, two copies per connection, caps per stream | builder, `validate`, `classify_send_len` | boundaries; two carriers | every stream has its connection's caps; a length fits its u32 |
| Error conversion (`error.rs`) | none of its own | `clamp_application_code`, `convert_conn`, `convert_send`, `convert_recv` | who did what first | codes are encodable and attributed to who sent them |

Interactions: a connection's callbacks (its own and its streams') are serialized by msquic on
one worker; frontends run on any thread, one call at a time per half (`&mut self`). The
connection slot is shared by all streams, the acceptors and the opener. A `ConnHandle` and a
`Listener` hold a `RundownGuard` declared after the native handle, so the native close runs
first.

## 2. Modules

* `Terminals`: vocabulary and slots. Each locked section of `terminal.rs` is one operator. One
  value per enum variant; codes, statuses and texts are dropped, except that a `Failed` knows
  whether it is `QUIC_STATUS_ABORTED` and an `Internal` knows which arm made it.
* `SendReducer`: `transition`, one operator per `SendInput`, returning the state and one command.
* `SendHalf`: the frontends as a program counter `fe.pc` over the shared accesses they make
  (`poll` channel, `load` and `peek` slots, `publish`, `commit`, the three native submits);
  `stream_callback`'s send arms as the list `cb` of effects still to do, in source order;
  `CallbackPanic` replaces what is left of the list by `stream_recover`'s. `nat` is msquic's
  side. The other actors of the connection appear as their effect on the shared slot
  (`ShutdownInitiated`, `OpenerClose`, `LocalShutdown`, `ConnInternal`,
  `ConnShutdownComplete`, `OtherFrontend`).
* `RecvHalf`: `admit` is two steps with the mutex held in between (`locked`), so that what the
  drain sees is visible; `on_drained`, `receive_complete` and the return of the Receive event
  are steps of their own. Bytes are stream offsets, so order and loss are visible.
* `Rundown`: one step per atomic operation or locked section of `RundownGuard::drop` and
  `WaitIdle::poll`; each handle goes through reserve, open, close, decrement, drain, wake.
* `Connection`: one connection from `connect` (or `attach`) to the drop of its last handle.
  `fut` is the connect future and then the `Connection`; `cb` lists the effects the running
  callback still has to do, in source order, with the per-invocation token `owned`; a panic
  replaces the list by `connection_recover`'s. `acc` is where an accept poll stands: the
  fail-fast lock, the channel poll and the terminal's lock are separate steps. `streams` says
  who has each peer stream and how often it was closed.
* `StreamOpen`: `poll_open_inner` per holder, its steps separated where it touches the slot,
  msquic or the start one-shot, against the `StartComplete` and `ShutdownComplete` arms, a
  contained panic and the end of the connection.
* `Listener`: one callback invocation per offered connection, all in parallel, plus
  `StopComplete`; `accept`, several `shutdown` calls, and the drop of the listener.
* `Config`: the way of the three caps from the builder to the streams and to the length of a
  native buffer. `u32::MAX` is a parameter.
* `ErrorCodes`: one stream and its connection with the codes the other modules abstract from,
  each callback one step; what h3 is told is the set `told`, what msquic is asked the set `wire`.
* `ConnCause`: the abstract specification of the connection slot. `SendHalf`, `RecvHalf`,
  `Connection` and `StreamOpen` are each checked to implement it (`CauseSpec`, with
  `cause <- conn.terminal`).

How they compose: the connection slot is the one piece of state all of a connection's parts
share, and each module that has a part of it contains the others as their effects on it
(`OtherFrontend`, `OpenerClose`, `ShutdownInitiated`, ...). `Rundown` takes over the guards of
`Connection` and `Listener`; `RecvHalf`'s assumption that its limits are positive is `Config`'s
`BudgetsUsable`.
* `MC*`: instances for TLC. `*Proofs`: theorems.

Definitions named in a comment "Mutant of X" are plausible bugs; substituting one for X must
make its property fail. They show that each property depends on the code it is about, and no
specification uses them.

### What is assumed of msquic and of the libraries

* Callbacks of one connection are serialized. A close by the peer or the transport is reported
  on the connection before its streams end; a local close (`opener.close`,
  `Registration::shutdown`) is not, and the streams see `SendComplete{cancelled}`, then
  `SendShutdownComplete{graceful: false}`, then `ShutdownComplete{connection_shutdown}`.
* Each accepted send completes exactly once, before `SendShutdownComplete`. A send fails once
  the direction is closed and may fail at any time.
* `receive_complete` may be called before the callback has returned `PENDING`; msquic then does
  not pause. After an abort there is no further Receive.
* `ListenerClose` waits for running listener callbacks, and msquic closes a connection whose
  callback returned an error. `StopComplete` comes after every `NewConnection` callback has
  returned. (So the delivery failure that `listener_callback` handles, a receiver gone while a
  callback runs, cannot happen: `Listener` drops `inner` before `conn`. Its branch is not an
  action.)
* msquic closes a peer stream whose `PeerStreamStarted` callback returned an error.
  `ConnectionClose` waits for the connection's callbacks.
* A stream whose start was accepted gets one `StartComplete`, or none when the connection ends
  first; `ShutdownComplete` is its last event.
* A poll of a `futures` channel is atomic; a send or the drop of the sender wakes the receiver.
* A panic cannot come before the reclaim of a completed buffer (nothing precedes it in the arm)
  nor inside `admit`.
* Memory order: all writes of `active` are read-modify-writes. A plain load may return an older
  non-zero value: always for the first load of `poll`, and for the re-check as long as the
  guard that reached zero has not been through the waiters mutex (`StaleLoad`). A stale zero
  would need a reservation that does not happen before the poll; that `wait_idle` answers as if
  it had run before the reservation, and is not modelled.

## 3. Runs

| Run | Checks | Bounds |
|---|---|---|
| `SendHalf` | errors sticky and never provisional, one send at a time, finish event kept, success means graceful, boxes accounted, implements `ConnCause` | 2 sends, all three remote endings and the local one |
| `SendHalfFaults` | `ParkedResolves`: a parked poll is answered; `NoImpossibleArm`: the arms `transition` calls impossible are | 1 send; one panic, one null context or one connection fault |
| `RecvHalf` | pend exact, limits, accounting, owed, completed once in full, `ReaderSeesStream` (order, data before the end, an end with a reason), implements `ConnCause`, `ReaderProgresses`: everything or an end arrives | limits 4 bytes and 3 units, indications of 0 to 3 bytes, 7 bytes in all |
| `Rundown` | count, cover, no lost wake-up, `wait_idle` sound, `WaitersResolve` | 1 connection, 1 listener, 1 offered connection, 2 futures |
| `Connection` | peer streams closed once, `AnswersTrue` (`connect`, the shutdown waiter), nothing left by a failed or dropped `connect`, `AcceptOrder` (an ordinary end after the queue, nothing after an internal fault) and never without a reason, `WaitersReleased`, implements `ConnCause` | 1 peer stream, one panic or one unusable id, peer close and local close, one of opener clone and shutdown waiter |
| `StreamOpen` | one owner per stream and only of started ones, a failed or cancelled start has its cause, `OpenersReleased`, implements `ConnCause` | 1 holder, 2 streams one after the other, one panic or one invalid id, idle timeout and peer close |
| `Listener` | connections settled once, `WaitersReleased` (`accept`, `shutdown`), the end final without a panic | 2 connections and a stop at once, 2 shutdown calls, 2 panics |
| `Config` | lengths exact, caps threaded | u32::MAX = 7, 2 connections, caps and lengths on both sides of every boundary |
| `ErrorCodes` | `CodesFaithful` (encodable, attributed to who sent them), clean end true, one story of the connection | codes on both sides of the varint bound, one panic |
| `SendHalfInternal`, `SendHalfLeak`, `RundownDecrement` | violated; see Findings | as above; two outgoing connections |

A property with parts (`ReaderSeesStream`, `AnswersTrue`, `AcceptOrder`, ...) is the conjunction of
definitions that each carry their own comment.

Why the bounds are enough. The send half has at most one send in flight, so the second send
already meets every residue of the first (a late completion, a sticky error). The receive
limits are chosen so that both limits can be hit first, a pend happens at least twice and an
indication may exceed the room left; what holds there is proved for all limits. The rundown
needs guards that reach zero one after the other (the connection's, the listener's, the offered
connection's) and two futures that register in between; its safety is proved for all sets. A
connection's streams meet only in the two queues, and each of its properties is about one stream
or about a queue being empty, so one stream, in either queue, is the case to look at. Holders
meet only in the slot, whose other users `OtherFrontend` stands for; one holder opens twice, so
what the first open leaves behind is seen. Two parallel listener callbacks and `StopComplete` let
one panic before, between and after the others. Symmetry is used only in `Config`, which has no
temporal property. `Rundown` may stop when all handles are gone and all futures resolved, so
deadlock is not checked there, nor in `Connection`, `StreamOpen` and `Listener`, which end when
everything is closed; the others never stop.

Fairness. A frontend call that has begun, a callback that has begun and a guard drop that has
begun run to their end (threads are scheduled). h3 polls again after its waker fired (the
executor's contract); a reader polls whenever it is not parked. msquic completes accepted
sends and ends what it has begun to end; it does not promise a stream ends by itself, so
`ParkedResolves` relies on `ShutdownCompletes` only once the connection is closing, and on
sends and the finish being answered. The peer keeps sending while msquic accepts
(strong fairness over non-empty indications, as empty ones may come in between). The reader gets
the budget's lock although callbacks take it again and again (strong fairness of the frontend
in `RecvHalf`): it never waits on a mutex for ever. Handles are
dropped eventually; for the listener this is strong fairness, because the close waits for
callbacks that come and go. In `Connection` the polls of the two directions exclude each other
(`&mut self`), so each woken one polls again under strong fairness; connect and the waiter are
tasks of their own. Once a shutdown was asked for or has begun, msquic completes it, and a
handshake ends one way or the other. No fairness is assumed of the peer's streams, of
`close`, of drops or of faults. The listener's `AcceptReleased` is about the first `None`: an accept that asks
again after the end waits until the listener is dropped.

## 4. Proofs

No proof module has an unproved step. They rest only on the named assumptions of the modules:
`RundownAssumption` (finite, disjoint handle sets), `RecvAssumption` (positive limits, which
`ConfigProofs` shows of every configuration that validates; any indication length and any total),
`ConfigAssumption` (defaults in range), `ListenerAssumption` (the `StopComplete` invocation is
not a connection; any number of panics), and those of `SendHalf`, `Connection`, `StreamOpen` and
`ErrorCodes`, which only give their parameters their kinds.

* `RundownProofs`. The inductive invariant adds to the properties `LifeCycle` (who owns a
  guard and who is open, by program counter; a connection in a listener callback keeps its
  listener open) and `Registered` (a future between registration and re-check is in the table
  or a drain has already taken it). Counting is by the cardinality lemmas: reserving adds a
  new element, a drop removes one. Soundness of `wait_idle` then follows: zero is no guard, no
  guard is nothing open.
* `SendHalfProofs`. For any number of sends, all faults and all ways a connection ends. The frontends
  reach the slots, the channel and the reducer one access at a time, so `Calls` ties each reservation
  to the program counter that holds it. `Flight` is the heart: a send in msquic's hands, in the channel
  or in the running poll is one the reducer knows of, or one it gave up for an error that is final,
  and it keeps every other send and the finish away. `Provisional` does the same for the cancellation
  marker, `Todo` says what the rest of the callback relies on, `Ending` that a closed channel and an
  ended direction have told the half why (hence no impossible arm), `Finish` where a finish event is,
  `Sticky` and `Boxed` are the properties, strengthened. The `Answer` lemmas say what the reducer may
  return for each input in such a state; each step then has a lemma of its own. Two conjuncts were
  found by failing proofs: msquic has a FIN only if the reducer asked for one, and no send is submitted
  once a finish has started. `BoxesAccounted` is proved as long as neither a panic nor a null client
  context has happened; `SendHalfLeak` shows that it fails after a panic.
  The module also holds the promise of the abstract cause, for any implementation of it: agreement
  and stability (`AgreementAlways`, `CauseStableAlways`). That `SendHalf`, `RecvHalf`, `Connection`
  and `StreamOpen` implement it is proved in their modules (`CauseRefinement`), each from its
  `CauseKnown`: wherever the end of the connection is on its way to h3 the cause is on record, which
  is why the unconditional freeze of `observe_conn_winner` never freezes an empty slot.
* `RecvHalfProofs`, in two layers. The first, `IInv`, is about the budget and msquic. `PendExact`
  and the limits follow from `Settled`, kept by `Charge` and `OnDrained` (lemmas about the two
  operators), with `Snapshot` for the rollback. The conversation with msquic needs `Pause`: which
  handler is active, what a pend on record says about the indication, and that a decided pend is
  owed a completion unless it was completed early. The second, `Flow`, is about what is in the
  channel, and is inductive relative to the first: `Ends` (nothing is admitted behind a terminal,
  and a direction that is over has its terminal in the channel, with the reader or on its way),
  `Terminated` (where it is), `Tip` (the channel ends where `admit` will go on) and `Counted` (the
  units by the length of the channel). `BudgetExact` and `ReaderSeesStream` follow.
* `ConnectionProofs`. The difficulty is the effect list `cb`, whose rest must be safe at every
  point a panic can replace it. `Todo` says that every rest names the cause before it closes a
  sender or fails `connect`; `Offered` says who owns the offered stream whatever the callback does
  next (the token `owned`, msquic's rejection, or a queue). `Places` gives each stream one place,
  `Life` relates the handle to its holders, `Answers` and `Accepting` relate what h3 was or is
  about to be told to the slot. `AcceptOrder` is an action property and follows from the same
  invariant.
* `StreamOpenProofs`. `Ownership` ties the owner of each native stream to the program counter of
  the holder that opened it, `TodoShape` and `CauseKnown` say what the rest of the callback will
  still record, so that a cancelled start finds its reason.
* `ListenerProofs`. Where each connection is, by the program counter of its callback, its place in
  the channel and the listener's life, for any number of parallel callbacks; `EndIsFinal` needs in
  addition what precedes the end in the channel and that a poison flag means a panic.
* `ErrorCodesProofs`. The invariant traces every stored code to who produced it: a code in a slot,
  a channel or in h3's hands is one the peer sent or one h3 gave and the clamp let through.
* `ConfigProofs`. For every `u32::MAX`, default, set of connections and of lengths. The invariant
  adds to the properties `CarriersAgree` (both copies are what the connection was constructed
  with, and in range) and `StreamsConstructed` (only a constructed connection has streams);
  a ceiling below `u32::MAX` then makes the cast of a payload's length the identity.

`ConfigProofs` also proves `CeilingExact` and `BudgetsUsable`, and the three `TypeCorrect`
theorems the type invariants of `Rundown`, `RecvHalf` and `Config`; no run repeats these.

Every invariant and every action property of the passing runs is thus a theorem. Only model-checked:
the liveness properties (the provers have no rule for fairness and `ENABLED`).

## 5. Findings

1. `SendHalfInternal`: after a shutdown that records nothing first (`Registration::shutdown`), the
   ungraceful `SendShutdownComplete` polled before the stream's `ShutdownComplete` makes
   `transition` publish a sticky `Internal`, reported as `InternalError`;
   `docs/error-model.md` promises the recorded error, otherwise `Unknown`.
2. `SendHalfLeak`: `guard_callback` skips the body for a poisoned context, so a `SendComplete`
   after a contained panic does not reclaim its `Box<SendBuffer>`; `docs/receive-and-send.md`
   promises it is freed exactly once.
3. `RundownDecrement`: when `set_configuration` fails the guard is dropped before msquic closes
   the connection; `docs/registration-lifecycle.md` says close-before-decrement on the error
   path. `wait_idle` stays sound because the listener's guard covers the connection.

Also observed while modelling, in states the models reach; no run is kept for them:

* A panic on one listener worker queues `None` for `accept` while another worker, already past
  the poison check, still delivers its connection: `accept` returns the end and then, asked
  again, a connection (`EndIsFinal` fails once `panics > 0`). `listener.rs:252` and the README's
  accept loop take `None` as the end of connections; the late connection is closed with the
  listener (`ConnSettledOnce`).
* A connection cause that the send half reports is not kept in its slot. After `close` a poll
  reports the local close; a `STOP_SENDING` that still arrives makes the next one report
  `StreamTerminated`. `docs/error-model.md:62` says the first send-side reason wins.

## 6. Not modelled, and the plan

Left out for good: byte copies and pointer layout of `SendBuffer`, log texts, `lock_recover`
(a poisoned mutex is a plain mutex), the tests, attestation code and benchmarks; msquic itself.

Next: `Adapter`, two streams, the acceptors and the opener over one slot in one state space,
refining `ConnCause`; today each part has the others as their effects.
