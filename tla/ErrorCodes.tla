----------------------------- MODULE ErrorCodes ------------------------------
(***************************************************************************)
(* The application error codes and what h3 makes of them: from the calls   *)
(* and events of one stream and its connection, through the slots, to the  *)
(* errors convert_conn, convert_send and convert_recv mint (error.rs), and *)
(* the codes clamp_application_code hands to msquic.                       *)
(*                                                                         *)
(* SendHalf, RecvHalf and Connection interleave the same code in detail    *)
(* with one value per cause; here a callback is one step and the causes    *)
(* carry their codes, which ride beside Terminals' slots.                  *)
(***************************************************************************)
EXTENDS Terminals, Integers, Sequences, FiniteSets

CONSTANTS
    MaxVarint,  \* MAX_QUIC_VARINT
    PeerCodes,  \* the codes the peer sends
    LocalCodes, \* the codes h3 passes in: any u64
    MayPanic    \* whether a stream callback may panic

ASSUME ErrorCodesAssumption ==
    /\ MaxVarint \in Nat /\ LocalCodes \subseteq Nat
    /\ PeerCodes \subseteq 0..MaxVarint
    /\ MayPanic \in BOOLEAN

NoCode == -1

VARIABLES
    conn, connCode,     \* the connection slot, and the code of its terminal
    send, sendCode,     \* the send slot, and the code of its terminal
    recv,       \* the receive half: open while the stream's context takes events, its
                \* terminal event, the frontend's sticky terminal, receive_closed
    resetting,  \* the code of a reset between its native call and its publication
    wire,       \* what msquic was asked: the call, the code h3 gave, the code passed on
    peer,       \* what the peer did: its codes, and whether it finished
    ended,      \* how msquic ended the connection, or "no"
    told        \* everything h3 was told

connVars == <<conn, connCode>>
sendVars == <<send, sendCode, resetting>>
vars == <<connVars, sendVars, recv, wire, peer, ended, told>>

NoEvent == [kind |-> "none", code |-> NoCode]
Event(k, code) == [kind |-> k, code |-> code]

Init ==
    /\ conn = EmptySlot /\ connCode = NoCode
    /\ send = NoTerm /\ sendCode = NoCode
    /\ recv = [open |-> TRUE, event |-> NoEvent, sticky |-> NoEvent, closed |-> FALSE]
    /\ resetting = NoCode
    /\ wire = {}
    /\ peer = [stop |-> NoCode, reset |-> NoCode, close |-> NoCode, fin |-> FALSE]
    /\ ended = "no"
    /\ told = {}

-----------------------------------------------------------------------------
(* Slots with codes.                                                       *)

\* record_conn_terminal: the code comes and stays with its terminal.
Record(c, code) ==
    /\ conn' = RecordConnTerminal(conn, c)
    /\ connCode' = IF conn' # conn THEN code ELSE connCode

\* publish_send, likewise.
Publish(t, code) ==
    /\ send' = PublishSend(send, t)
    /\ sendCode' = IF send' # send THEN code ELSE sendCode

\* publish_recv_terminal: the first one wins, and needs an open channel.
PublishRecv(e) == IF recv.open /\ recv.event = NoEvent THEN [recv EXCEPT !.event = e] ELSE recv

ClampApplicationCode(code) == IF code > MaxVarint THEN MaxVarint ELSE code

Call(op, code) == wire' = wire \cup {[op |-> op, asked |-> code, code |-> ClampApplicationCode(code)]}

-----------------------------------------------------------------------------
(* Conversions.                                                            *)

\* An error for h3: who reports it, its scope, its class and what it carries.
H3Error(half, scope, class, inner, code) ==
    [half |-> half, scope |-> scope, class |-> class, inner |-> inner, code |-> code]

ConvertConn(half, c, code) ==
    CASE c = "PeerApplication" -> H3Error(half, "connection", "ApplicationClose", "", code)
      [] c = "Timeout"    -> H3Error(half, "connection", "Timeout", "", NoCode)
      [] c = "Transport"  -> H3Error(half, "connection", "Undefined", "MsQuicTransportError", code)
      [] c = "LocalClose" -> H3Error(half, "connection", "Undefined", "LocalConnectionClose", NoCode)
      [] c = "Internal"   -> H3Error(half, "connection", "InternalError", "", NoCode)

InternalError(half) == H3Error(half, "stream", "InternalError", "", NoCode)

\* Mutant of ConvertSend: a local reset looks like the peer's.
ConvertSendPeerLike(t, code) ==
    CASE t.kind \in {"Stopped", "LocalReset"} -> H3Error("send", "stream", "StreamTerminated", "", code)
      [] t.kind \in {"Failed", "ProvisionalAbort"} -> H3Error("send", "stream", "Unknown", "Status", NoCode)
      [] t.kind = "Connection" -> ConvertConn("send", t.arg, code)
      [] t.kind = "Internal"   -> InternalError("send")

ConvertSend(t, code) ==
    CASE t.kind = "Stopped"    -> H3Error("send", "stream", "StreamTerminated", "", code)
      [] t.kind = "LocalReset" -> H3Error("send", "stream", "Unknown", "LocalStreamReset", code)
      [] t.kind \in {"Failed", "ProvisionalAbort"} -> H3Error("send", "stream", "Unknown", "Status", NoCode)
      [] t.kind = "Connection" -> ConvertConn("send", t.arg, code)
      [] t.kind = "Internal"   -> InternalError("send")

\* Fin is Ok(None), everything else an error.
ConvertRecv(e) ==
    CASE e.kind = "Fin"      -> H3Error("recv", "stream", "Ok(None)", "", NoCode)
      [] e.kind = "Reset"    -> H3Error("recv", "stream", "StreamTerminated", "", e.code)
      [] e.kind = "Internal" -> InternalError("recv")
      [] OTHER               -> ConvertConn("recv", e.kind, e.code)

Tell(e) == told' = told \cup {e}

-----------------------------------------------------------------------------
(* Callbacks.                                                              *)

\* PeerReceiveAborted.  The peer's frames count until msquic ends the connection.
PeerStops(code) ==
    /\ ended = "no" /\ recv.open /\ peer.stop = NoCode
    /\ peer' = [peer EXCEPT !.stop = code]
    /\ Publish(Stopped, code)
    /\ UNCHANGED <<connVars, resetting, recv, wire, ended, told>>

\* PeerSendAborted, PeerSendShutdown: the peer ends its own half, once.
PeerResets(code) ==
    /\ ended = "no" /\ recv.open /\ peer.reset = NoCode /\ ~peer.fin
    /\ peer' = [peer EXCEPT !.reset = code]
    /\ recv' = PublishRecv(Event("Reset", code))
    /\ UNCHANGED <<connVars, sendVars, wire, ended, told>>

PeerFinishes ==
    /\ ended = "no" /\ recv.open /\ peer.reset = NoCode /\ ~peer.fin
    /\ peer' = [peer EXCEPT !.fin = TRUE]
    /\ recv' = PublishRecv(Event("Fin", NoCode))
    /\ UNCHANGED <<connVars, sendVars, wire, ended, told>>

\* ShutdownInitiatedByPeer, and ByTransport with its diagnostic code.
ConnectionEnds(how, code) ==
    /\ ended = "no"
    /\ ended' = how
    /\ peer' = IF how = "peer" THEN [peer EXCEPT !.close = code] ELSE peer
    /\ CASE how = "peer"  -> Record("PeerApplication", code)
         [] how = "local" -> UNCHANGED connVars
         [] OTHER         -> Record(ClassifyTransport(IF how = "idle" THEN "CONNECTION_IDLE" ELSE "OTHER"), code)
    /\ UNCHANGED <<sendVars, recv, wire, told>>

\* The stream's ShutdownComplete: the connection's cause for both halves, and
\* every channel closes; a stream-local one only closes them.
StreamShutdown ==
    /\ recv.open
    /\ IF ended = "no"
       THEN recv' = [recv EXCEPT !.open = FALSE] /\ UNCHANGED <<connVars, send, sendCode>>
       ELSE LET c == ClassifyConnShutdown(ended \in {"peer", "local"}, ended = "peer",
                                          IF ended = "idle" THEN "CONNECTION_IDLE" ELSE "OTHER")
                code == IF ended = "peer" THEN peer.close ELSE connCode
            IN  /\ Record(c, code)
                /\ Publish(Connection(c), code)
                /\ recv' = [PublishRecv(Event(c, code)) EXCEPT !.open = FALSE]
    /\ UNCHANGED <<resetting, wire, peer, ended, told>>

\* stream_recover: both halves get an internal terminal of their own.
StreamPanics ==
    /\ MayPanic /\ recv.open
    /\ Publish(Internal("panic"), NoCode)
    /\ recv' = [PublishRecv(Event("Internal", NoCode)) EXCEPT !.open = FALSE]
    /\ UNCHANGED <<connVars, resetting, wire, peer, ended, told>>

-----------------------------------------------------------------------------
(* Frontends.                                                              *)

\* reset: nothing when there is a terminal, else the native call, and then
\* the publication, which a peer's terminal may have overtaken.
Reset(code) ==
    /\ resetting = NoCode
    /\ ~Definitive(ResolveTerminal(send, conn.terminal))
    /\ resetting' = ClampApplicationCode(code)
    /\ Call("reset", code)
    /\ UNCHANGED <<connVars, send, sendCode, recv, peer, ended, told>>

ResetPublished ==
    /\ resetting # NoCode
    /\ LET t == ResolveTerminal(send, conn.terminal)
       IN  IF Definitive(t) THEN Publish(t, IF t.kind = "Connection" THEN connCode ELSE sendCode)
                            ELSE Publish(LocalReset, resetting)
    /\ resetting' = NoCode
    /\ UNCHANGED <<connVars, recv, wire, peer, ended, told>>

\* A cancelled completion is polled with no reason known.
SendCancelled ==
    /\ resetting = NoCode
    /\ ~Definitive(ResolveTerminal(send, conn.terminal))
    /\ Publish(ProvisionalAbort, NoCode)
    /\ UNCHANGED <<connVars, resetting, recv, wire, peer, ended, told>>

\* The closed channel of a send half without a terminal.
SendClosed ==
    /\ resetting = NoCode /\ ~recv.open
    /\ ~Definitive(ResolveTerminal(send, conn.terminal))
    /\ Publish(IF ProvisionalPending(send) THEN Aborted ELSE Internal("closed"), NoCode)
    /\ UNCHANGED <<connVars, resetting, recv, wire, peer, ended, told>>

\* A send frontend delivers its terminal; a connection's is committed.
PollSend ==
    /\ resetting = NoCode
    /\ LET t == ResolveTerminal(send, conn.terminal)
       IN  /\ Definitive(t)
           /\ conn' = IF t.kind = "Connection" THEN CommitConn(conn) ELSE conn
           /\ Tell(ConvertSend(t, IF t.kind = "Connection" THEN connCode ELSE sendCode))
    /\ UNCHANGED <<connCode, sendVars, recv, wire, peer, ended>>

\* The terminal a receive channel ends with, once its data is drained.
Delivered(e) ==
    /\ conn' = IF e.kind \in ConnectionTerminal \ {"Internal"} THEN ObserveConnWinner(conn) ELSE conn
    /\ LET t == IF e.kind \in ConnectionTerminal \ {"Internal"} /\ conn.terminal # NoCause
                THEN Event(conn.terminal, connCode) ELSE e
       IN  recv' = [recv EXCEPT !.sticky = t] /\ Tell(ConvertRecv(t))

\* Mutant of PollRecv: a channel that closed without a terminal reads as its end.
PollRecvLenient ==
    /\ ~recv.closed /\ recv.sticky = NoEvent
    /\ recv.event # NoEvent \/ ~recv.open
    /\ Delivered(IF recv.event = NoEvent THEN Event("Fin", NoCode) ELSE recv.event)
    /\ UNCHANGED <<connCode, sendVars, wire, peer, ended>>

\* poll_event: a local stop ends it, the sticky terminal is replayed, the channel's
\* is stored; a channel closed without one is an internal fault.
PollRecv ==
    /\ \/ /\ recv.closed
          /\ Tell(ConvertRecv(Event("Fin", NoCode)))
          /\ UNCHANGED <<conn, recv>>
       \/ /\ ~recv.closed /\ recv.sticky # NoEvent
          /\ Tell(ConvertRecv(recv.sticky))
          /\ UNCHANGED <<conn, recv>>
       \/ /\ ~recv.closed /\ recv.sticky = NoEvent
          /\ recv.event # NoEvent \/ ~recv.open
          /\ Delivered(IF recv.event = NoEvent THEN Event("Internal", NoCode) ELSE recv.event)
    /\ UNCHANGED <<connCode, sendVars, wire, peer, ended>>

StopSending(code) ==
    /\ Call("stop_sending", code)
    /\ recv' = [recv EXCEPT !.closed = TRUE]
    /\ UNCHANGED <<connVars, sendVars, peer, ended, told>>

\* OpenStreams::close.
Close(code) ==
    /\ Record("LocalClose", NoCode)
    /\ Call("close", code)
    /\ UNCHANGED <<sendVars, recv, peer, ended, told>>

\* An accept or open frontend delivers the connection's cause.
PollConn ==
    /\ conn.terminal # NoCause
    /\ conn' = CommitConn(conn)
    /\ Tell(ConvertConn("connection", conn.terminal, connCode))
    /\ UNCHANGED <<connCode, sendVars, recv, wire, peer, ended>>

-----------------------------------------------------------------------------
Next ==
    \/ \E code \in PeerCodes :
          \/ PeerStops(code) \/ PeerResets(code)
          \/ \E how \in {"peer", "transport"} : ConnectionEnds(how, code)
    \/ PeerFinishes \/ \E how \in {"idle", "local"} : ConnectionEnds(how, NoCode)
    \/ StreamShutdown \/ StreamPanics
    \/ \E code \in LocalCodes : Reset(code) \/ StopSending(code) \/ Close(code)
    \/ ResetPublished \/ SendCancelled \/ SendClosed
    \/ PollSend \/ PollRecv \/ PollConn

Spec == Init /\ [][Next]_vars

-----------------------------------------------------------------------------
\* Every code that crosses into msquic fits a QUIC varint, and one that fits is
\* passed on unchanged (clamp_application_code at each of the three calls).
WireEncodable ==
    \A w \in wire : w.code \in 0..MaxVarint /\ (w.asked <= MaxVarint => w.code = w.asked)

\* h3 is told that the peer ended a stream or the connection with a code only if
\* the peer did, on that half and with that code; a local reset or close is never
\* dressed up as the peer's, whichever of the two came first.
PeerCodesOnly ==
    \A e \in told :
        /\ e.class = "StreamTerminated" => e.code # NoCode /\ e.code = (IF e.half = "send" THEN peer.stop ELSE peer.reset)
        /\ e.class = "ApplicationClose" => e.code # NoCode /\ e.code = peer.close

\* A reset h3 is told of as its own carries the code that went to msquic.
LocalResetExact ==
    \A e \in told : e.inner = "LocalStreamReset" => \E w \in wire : w.op = "reset" /\ w.code = e.code

\* The codes h3 and the peer see are the ones that were sent: across the three calls
\* into msquic, the three events out of it and the terminals in between.
CodesFaithful == WireEncodable /\ PeerCodesOnly /\ LocalResetExact

\* A clean end of the stream is told only if the peer finished or h3 itself stopped
\* reading: no failure reads as the end of the data (poll_event, convert_recv).
CleanEndIsTrue ==
    (\E e \in told : e.class = "Ok(None)") => peer.fin \/ recv.closed

\* All frontends tell the same story of the connection, code included: what one
\* half or an acceptor was told is what every other one is told.
ConnectionVerdict ==
    \A e, f \in told : e.scope = "connection" /\ f.scope = "connection" =>
        e.class = f.class /\ e.inner = f.inner /\ e.code = f.code
=============================================================================
