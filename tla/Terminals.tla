------------------------------ MODULE Terminals ------------------------------
(***************************************************************************)
(* The adapter's terminal vocabulary (error.rs) and the two shared slots   *)
(* that carry a terminal from a msquic callback to a later poll            *)
(* (terminal.rs).  Pure operators only: every locked section of the code   *)
(* is one operator here, and one step of the modules that use it.          *)
(*                                                                         *)
(* Application codes, statuses and messages are abstracted: one value per  *)
(* enum variant is enough to tell the causes apart, except that a Failed   *)
(* status remembers whether it is QUIC_STATUS_ABORTED and an Internal      *)
(* terminal remembers which arm of the code minted it.                     *)
(***************************************************************************)
EXTENDS Naturals

NoCause == "NoCause"

(* error.rs ConnectionTerminal.  LocalClose is the only provisional one.   *)
SpecificCause == {"PeerApplication", "Timeout", "Transport", "Internal"}
ConnectionTerminal == SpecificCause \cup {"LocalClose"}
IsProvisional(c) == c = "LocalClose"

-----------------------------------------------------------------------------
(* The connection slot: ConnTerminalState behind one mutex.                *)

ConnSlot == [terminal : ConnectionTerminal \cup {NoCause}, observed : BOOLEAN]
EmptySlot == [terminal |-> NoCause, observed |-> FALSE]

\* Mutant of RecordConnTerminal: until it is observed, the last writer wins.
RecordLastWins(slot, c) == IF slot.observed THEN slot ELSE [slot EXCEPT !.terminal = c]

\* First writer wins, a provisional cause may be refined, an observed slot is frozen.
RecordConnTerminal(slot, c) ==
    IF /\ ~slot.observed
       /\ \/ slot.terminal = NoCause
          \/ IsProvisional(slot.terminal) /\ ~IsProvisional(c)
    THEN [slot EXCEPT !.terminal = c]
    ELSE slot

\* Unconditional freeze; the caller reads slot.terminal in the same locked section.
ObserveConnWinner(slot) == [slot EXCEPT !.observed = TRUE]

\* Mutant of CommitConn: the delivery reads the slot but forgets to freeze it.
CommitWithoutFreeze(slot) == slot

\* Freeze on delivery, and only when there is a cause to deliver.
CommitConn(slot) == IF slot.terminal = NoCause THEN slot ELSE ObserveConnWinner(slot)

\* Option::unwrap_or on a cause.
OrElse(c, fallback) == IF c = NoCause THEN fallback ELSE c

ClassifyTransport(status) ==
    IF status \in {"CONNECTION_TIMEOUT", "CONNECTION_IDLE"} THEN "Timeout" ELSE "Transport"

ClassifyConnShutdown(byApp, remote, status) ==
    CASE byApp /\ remote  -> "PeerApplication"
      [] byApp /\ ~remote -> "LocalClose"
      [] ~byApp           -> ClassifyTransport(status)

-----------------------------------------------------------------------------
(* Send terminals: error.rs SendTerminal, as a kind and its payload.       *)

Term(k, a) == [kind |-> k, arg |-> a]
NoTerm == Term("None", "")
Stopped == Term("Stopped", "")
LocalReset == Term("LocalReset", "")
ProvisionalAbort == Term("ProvisionalAbort", "")
Aborted == Term("Failed", "ABORTED")
NativeFailure == Term("Failed", "OTHER")
Connection(c) == Term("Connection", c)
Internal(arm) == Term("Internal", arm)

\* error.rs definitive / provisional_pending.
Definitive(t) == t.kind \notin {"None", "ProvisionalAbort"}
DefinitiveOr(t, default) == IF Definitive(t) THEN t ELSE default
ProvisionalPending(t) == t = ProvisionalAbort

\* Mutant of PublishSend: the last definitive writer wins.
PublishSendLastWins(slot, candidate) == IF Definitive(candidate) THEN candidate ELSE slot

\* terminal.rs publish_send: the value the slot holds, and the caller is handed, afterwards.
PublishSend(slot, candidate) ==
    IF slot = NoTerm \/ (ProvisionalPending(slot) /\ Definitive(candidate))
    THEN candidate
    ELSE slot

\* stream.rs resolve_terminal, once load_winner returned w and peek_conn_terminal c.
NeedsPeek(w) == w.kind \in {"None", "ProvisionalAbort", "Connection"}
ResolveTerminal(w, c) ==
    CASE w.kind = "Connection"                 -> Connection(OrElse(c, w.arg))
      [] w.kind \in {"None", "ProvisionalAbort"} -> IF c = NoCause THEN w ELSE Connection(c)
      [] OTHER                                   -> w
=============================================================================
