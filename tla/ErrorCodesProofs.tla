-------------------------- MODULE ErrorCodesProofs ---------------------------
(* What ErrorCodes' run checks, for every varint bound and every set of peer and *)
(* local codes: the codes and the verdicts h3 is told are the ones that happened. *)
EXTENDS ErrorCodes, TLAPS

\* The causes this stream's connection can end with: none of its callbacks records
\* an internal fault here.
ConnKinds == ConnectionTerminal \ {"Internal"}

SendTerms ==
    {NoTerm, Stopped, LocalReset, ProvisionalAbort, Aborted, Internal("panic"), Internal("closed")}
        \cup {Connection(c) : c \in ConnKinds}

RecvEvents == {NoEvent} \cup [kind : {"Fin", "Reset", "Internal"} \cup ConnKinds, code : Int]

Calls == [op : {"reset", "stop_sending", "close"}, asked : Nat, code : Int]

\* The shape of every variable.
Shapes ==
    /\ conn \in [terminal : ConnKinds \cup {NoCause}, observed : BOOLEAN] /\ connCode \in Int
    /\ send \in SendTerms /\ sendCode \in Int /\ resetting \in Int
    /\ recv \in [open : BOOLEAN, event : RecvEvents, sticky : RecvEvents, closed : BOOLEAN]
    /\ wire \subseteq Calls
    /\ peer \in [stop : Int, reset : Int, close : Int, fin : BOOLEAN]
    /\ ended \in {"no", "peer", "transport", "idle", "local"}

\* Whatever names the connection as its reason came after the cause was recorded,
\* and a sticky one is the frozen cause itself.
CauseKnown ==
    /\ conn.observed => conn.terminal # NoCause
    /\ send.kind = "Connection" => conn.terminal # NoCause
    /\ recv.event.kind \in ConnKinds => conn.terminal # NoCause
    /\ recv.sticky.kind \in ConnKinds => conn.observed /\ recv.sticky = Event(conn.terminal, connCode)

\* What the peer ended is recorded with the peer's code, which is never replaced.
PeerCodesKept ==
    /\ send = Stopped => sendCode = peer.stop /\ peer.stop # NoCode
    /\ \A e \in {recv.event, recv.sticky} :
          /\ e.kind = "Reset" => e.code = peer.reset /\ peer.reset # NoCode
          /\ e.kind = "Fin" => peer.fin
    /\ conn.terminal = "PeerApplication" => ended = "peer" /\ connCode = peer.close
    /\ IF ended = "peer" THEN peer.close # NoCode ELSE peer.close = NoCode

ResetOnWire(code) == \E w \in wire : w.op = "reset" /\ w.code = code

\* A local reset is recorded with the code that went to msquic, before and after it
\* is published.
ResetCodesKept ==
    /\ send = LocalReset => ResetOnWire(sendCode)
    /\ resetting # NoCode => ResetOnWire(resetting)

\* What is true of each error h3 was told, from then on: a connection error is the
\* conversion of the frozen cause, a code is the peer's or went to msquic, and a
\* clean end happened.
ToldFine(e) ==
    /\ e.scope = "connection" => conn.observed /\ e = ConvertConn(e.half, conn.terminal, connCode)
    /\ e.class = "StreamTerminated" =>
          e.code # NoCode /\ e.code = (IF e.half = "send" THEN peer.stop ELSE peer.reset)
    /\ e.class = "ApplicationClose" => e.code # NoCode /\ e.code = peer.close
    /\ e.inner = "LocalStreamReset" => ResetOnWire(e.code)
    /\ e.class = "Ok(None)" => peer.fin \/ recv.closed

Slots == Shapes /\ CauseKnown /\ PeerCodesKept /\ ResetCodesKept /\ WireEncodable

IInv == Slots /\ \A e \in told : ToldFine(e)

-----------------------------------------------------------------------------
(* The slots.                                                              *)

\* A record never touches an observed slot, and leaves a cause with its own code.
LEMMA RecordKeeps ==
    ASSUME Shapes, CauseKnown, NEW c \in ConnKinds, NEW code \in Int, Record(c, code)
    PROVE  /\ conn' \in [terminal : ConnKinds, observed : {conn.observed}] /\ connCode' \in Int
           /\ conn.observed => UNCHANGED connVars
           /\ UNCHANGED connVars \/ (conn'.terminal = c /\ connCode' = code)
<1>1. conn.terminal \in ConnKinds \cup {NoCause} /\ conn.observed \in BOOLEAN
  BY DEF Shapes
<1>2. CASE conn' = conn
  BY <1>1, <1>2 DEF Record, RecordConnTerminal, IsProvisional, Shapes, CauseKnown, connVars
<1>3. CASE conn' = [conn EXCEPT !.terminal = c] /\ ~conn.observed
  BY <1>1, <1>3 DEF Record, Shapes, connVars
<1> QED
  BY <1>2, <1>3 DEF Record, RecordConnTerminal

\* A publication leaves the slot alone or fills it with the candidate and its code.
LEMMA PublishKeeps ==
    ASSUME Shapes, NEW t \in SendTerms, NEW code \in Int, Publish(t, code)
    PROVE  /\ send' \in SendTerms /\ sendCode' \in Int
           /\ UNCHANGED <<send, sendCode>> \/ (send' = t /\ sendCode' = code)
  BY DEF Publish, PublishSend, Shapes

\* A receive terminal is published at most once, and touches nothing else.
LEMMA PublishRecvKeeps ==
    ASSUME Shapes, NEW e \in RecvEvents
    PROVE  /\ PublishRecv(e) \in [open : {recv.open}, event : {recv.event, e},
                                  sticky : {recv.sticky}, closed : {recv.closed}]
           /\ PublishRecv(e).event \in RecvEvents
  BY DEF PublishRecv, Shapes

\* What a stream without a local terminal resolves to: the connection's cause as
\* recorded, when there is one.
LEMMA ResolveKeeps ==
    ASSUME Shapes, CauseKnown
    PROVE  LET t == ResolveTerminal(send, conn.terminal)
           IN  /\ t \in SendTerms
               /\ \/ t = Connection(conn.terminal) /\ conn.terminal \in ConnKinds
                  \/ t = send /\ send.kind # "Connection"
<1>1. conn.terminal \in ConnKinds \cup {NoCause} /\ NoCause \notin ConnKinds
  BY DEF Shapes, ConnKinds, ConnectionTerminal, SpecificCause, NoCause
<1>2. send \in SendTerms /\ \A c \in ConnKinds : Connection(c) \in SendTerms
  BY DEF Shapes, SendTerms
<1>3. CASE send.kind = "Connection"
  <2>1. OrElse(conn.terminal, send.arg) = conn.terminal
    BY <1>3 DEF CauseKnown, OrElse
  <2>2. ResolveTerminal(send, conn.terminal) = Connection(conn.terminal)
    BY <1>3, <2>1 DEF ResolveTerminal
  <2> QED
    BY <1>1, <1>2, <1>3, <2>2 DEF CauseKnown
<1>4. CASE send.kind \in {"None", "ProvisionalAbort"}
  BY <1>1, <1>2, <1>4 DEF ResolveTerminal
<1>5. CASE send.kind \notin {"None", "ProvisionalAbort", "Connection"}
  BY <1>2, <1>5 DEF ResolveTerminal
<1> QED
  BY <1>3, <1>4, <1>5

\* A clamped code fits a varint, and a code that fits is not changed.
LEMMA CallKeeps ==
    ASSUME Shapes, WireEncodable, NEW op \in {"reset", "stop_sending", "close"},
           NEW code \in LocalCodes, Call(op, code)
    PROVE  /\ wire' \subseteq Calls /\ wire \subseteq wire' /\ WireEncodable'
           /\ [op |-> op, asked |-> code, code |-> ClampApplicationCode(code)] \in wire'
           /\ ClampApplicationCode(code) \in Nat
<1>1. code \in Nat /\ MaxVarint \in Nat
  BY ErrorCodesAssumption
<1>2. ClampApplicationCode(code) \in 0..MaxVarint /\ (code <= MaxVarint => ClampApplicationCode(code) = code)
  BY <1>1 DEF ClampApplicationCode
<1> QED
  BY <1>1, <1>2 DEF Call, Calls, Shapes, WireEncodable

-----------------------------------------------------------------------------
(* What h3 was told.                                                       *)

\* No step takes back what an earlier report rests on.
Kept ==
    /\ conn.observed => conn'.observed /\ conn'.terminal = conn.terminal /\ connCode' = connCode
    /\ peer.stop # NoCode => peer'.stop = peer.stop
    /\ peer.reset # NoCode => peer'.reset = peer.reset
    /\ peer.close # NoCode => peer'.close = peer.close
    /\ peer.fin => peer'.fin
    /\ wire \subseteq wire'
    /\ recv.closed => recv'.closed

\* What was fine to tell stays fine.
LEMMA ToldStays == ASSUME Kept, NEW e, ToldFine(e) PROVE ToldFine(e)'
  BY DEF Kept, ToldFine, ResetOnWire

\* A conversion of the recorded cause is a fine thing to tell once it is frozen.
LEMMA ConvertConnFine ==
    ASSUME conn'.observed, conn'.terminal \in ConnKinds, PeerCodesKept', NEW half,
           NEW e, e = ConvertConn(half, conn'.terminal, connCode')
    PROVE  ToldFine(e)'
  BY DEF ToldFine, ConvertConn, H3Error, ConnKinds, ConnectionTerminal, SpecificCause, PeerCodesKept, NoCode

\* What convert_send makes of each terminal.
LEMMA ConvertSendValues ==
    ASSUME NEW code
    PROVE  /\ ConvertSend(Stopped, code) = H3Error("send", "stream", "StreamTerminated", "", code)
           /\ ConvertSend(LocalReset, code) = H3Error("send", "stream", "Unknown", "LocalStreamReset", code)
           /\ ConvertSend(Aborted, code) = H3Error("send", "stream", "Unknown", "Status", NoCode)
           /\ ConvertSend(Internal("panic"), code) = InternalError("send")
           /\ ConvertSend(Internal("closed"), code) = InternalError("send")
           /\ \A c \in ConnKinds : ConvertSend(Connection(c), code) = ConvertConn("send", c, code)
<1>1. /\ Stopped.kind = "Stopped" /\ LocalReset.kind = "LocalReset" /\ Aborted.kind = "Failed"
      /\ Internal("panic").kind = "Internal" /\ Internal("closed").kind = "Internal"
      /\ \A c \in ConnKinds : Connection(c).kind = "Connection" /\ Connection(c).arg = c
  BY DEF Stopped, LocalReset, Aborted, Internal, Connection, Term
<1> QED
  BY <1>1 DEF ConvertSend

\* The definitive terminals of a slot that does not hold the connection's.
LEMMA LocalTerms ==
    ASSUME NEW t \in SendTerms, Definitive(t), t.kind # "Connection"
    PROVE  t \in {Stopped, LocalReset, Aborted, Internal("panic"), Internal("closed")}
<1>1. /\ NoTerm.kind = "None" /\ ProvisionalAbort.kind = "ProvisionalAbort"
      /\ \A c \in ConnKinds : Connection(c).kind = "Connection"
  BY DEF NoTerm, ProvisionalAbort, Connection, Term
<1> QED
  BY <1>1 DEF SendTerms, Definitive

\* A send terminal is converted from the slot and the code beside it, or from the
\* connection's.
LEMMA ConvertSendFine ==
    ASSUME Slots, Slots', NEW t, t = ResolveTerminal(send, conn.terminal), Definitive(t),
           t.kind = "Connection" => conn'.observed, conn'.terminal = conn.terminal,
           UNCHANGED <<connCode, send, sendCode, peer, wire>>
    PROVE  ToldFine(ConvertSend(t, IF t.kind = "Connection" THEN connCode ELSE sendCode))'
<1>1. CASE t = Connection(conn.terminal) /\ conn.terminal \in ConnKinds
  <2>1. t.kind = "Connection"
    BY <1>1 DEF Connection, Term
  <2>2. ConvertSend(t, connCode) = ConvertConn("send", conn.terminal, connCode)
    BY <1>1, ConvertSendValues
  <2>3. ToldFine(ConvertConn("send", conn.terminal, connCode))'
    BY <1>1, <2>1, ConvertConnFine DEF Slots
  <2> QED
    BY <2>1, <2>2, <2>3
<1>2. CASE t = send /\ send.kind # "Connection"
  <2>1. t \in {Stopped, LocalReset, Aborted, Internal("panic"), Internal("closed")}
    BY <1>2, LocalTerms DEF Slots, Shapes
  <2>2. CASE t = Stopped
    <3>1. sendCode = peer'.stop /\ peer'.stop # NoCode
      BY <1>2, <2>2 DEF Slots, PeerCodesKept
    <3>2. ToldFine(H3Error("send", "stream", "StreamTerminated", "", sendCode))'
      BY <3>1 DEF ToldFine, H3Error, NoCode
    <3> QED
      BY <1>2, <2>2, <3>2, ConvertSendValues
  <2>3. CASE t = LocalReset
    <3>1. ResetOnWire(sendCode)'
      BY <1>2, <2>3 DEF Slots, ResetCodesKept, ResetOnWire
    <3>2. ToldFine(H3Error("send", "stream", "Unknown", "LocalStreamReset", sendCode))'
      BY <3>1 DEF ToldFine, H3Error, ResetOnWire
    <3> QED
      BY <1>2, <2>3, <3>2, ConvertSendValues
  <2>4. CASE t \in {Aborted, Internal("panic"), Internal("closed")}
    <3>1. /\ ToldFine(H3Error("send", "stream", "Unknown", "Status", NoCode))'
          /\ ToldFine(InternalError("send"))'
      BY DEF ToldFine, H3Error, InternalError
    <3> QED
      BY <1>2, <2>4, <3>1, ConvertSendValues
  <2> QED
    BY <2>1, <2>2, <2>3, <2>4
<1> QED
  BY <1>1, <1>2, ResolveKeeps DEF Slots

\* A receive terminal is converted from the event, which only the peer's own end of
\* the data or h3's own stop makes a clean end.
LEMMA ConvertRecvFine ==
    ASSUME Slots', NEW t \in RecvEvents, t # NoEvent,
           t \in {recv'.event, recv'.sticky} \/ t.kind = "Internal" \/ (t.kind = "Fin" /\ recv'.closed),
           t.kind \in ConnKinds => conn'.observed /\ t = Event(conn'.terminal, connCode'),
           NEW e, e = ConvertRecv(t)
    PROVE  ToldFine(e)'
<1>1. CASE t.kind = "Fin"
  BY <1>1 DEF ConvertRecv, ToldFine, H3Error, Slots, PeerCodesKept
<1>2. CASE t.kind = "Reset"
  BY <1>2 DEF ConvertRecv, ToldFine, H3Error, Slots, PeerCodesKept
<1>3. CASE t.kind = "Internal"
  BY <1>3 DEF ConvertRecv, InternalError, ToldFine, H3Error
<1>4. CASE t.kind \in ConnKinds
  <2>1. e = ConvertConn("recv", conn'.terminal, connCode') /\ conn'.terminal \in ConnKinds
    <3>1. t.kind = conn'.terminal /\ t.code = connCode' /\ t.kind \notin {"Fin", "Reset", "Internal"}
      BY <1>4 DEF Event, ConnKinds, ConnectionTerminal, SpecificCause
    <3> QED
      BY <1>4, <3>1 DEF ConvertRecv
  <2> QED
    BY <1>4, <2>1, ConvertConnFine DEF Slots
<1> QED
  BY <1>1, <1>2, <1>3, <1>4 DEF RecvEvents

-----------------------------------------------------------------------------
(* The invariant.                                                          *)

\* The invariant holds of a stream that has just been opened.
LEMMA InitIInv == Init => IInv
<1> SUFFICES ASSUME Init PROVE IInv
  OBVIOUS
<1>1. Shapes
  BY DEF Init, Shapes, EmptySlot, NoCode, NoEvent, SendTerms, RecvEvents
<1>2. CauseKnown
  BY DEF Init, CauseKnown, EmptySlot, NoEvent, NoTerm, Term, ConnKinds, ConnectionTerminal, SpecificCause
<1>3. PeerCodesKept
  <2>1. send # Stopped
    BY DEF Init, NoTerm, Stopped, Term
  <2> QED
    BY <2>1 DEF Init, PeerCodesKept, EmptySlot, NoEvent, NoCause
<1>4. ResetCodesKept
  BY DEF Init, ResetCodesKept, NoTerm, LocalReset, Term
<1> QED
  BY <1>1, <1>2, <1>3, <1>4 DEF Init, IInv, Slots, WireEncodable

\* A step that tells nothing new and takes nothing back keeps the invariant.
LEMMA SilentStep == ASSUME IInv, Slots', Kept, told' = told PROVE IInv'
  BY ToldStays DEF IInv

\* So does one that tells something fine.
LEMMA TellStep ==
    ASSUME IInv, Slots', Kept, NEW e, Tell(e), ToldFine(e)' PROVE IInv'
  BY ToldStays DEF IInv, Tell

\* Every callback and every frontend call keeps it.
LEMMA NextIInv == IInv /\ [Next]_vars => IInv'
<1> SUFFICES ASSUME IInv, [Next]_vars PROVE IInv'
  OBVIOUS
<1> USE DEF Slots
<1>a. Slots /\ PeerCodes \subseteq Nat /\ LocalCodes \subseteq Nat /\ NoCode \in Int /\ NoCode \notin Nat
  BY ErrorCodesAssumption DEF IInv, NoCode
<1>1. ASSUME NEW code \in PeerCodes, PeerStops(code) PROVE IInv'
  <2>1. Stopped \in SendTerms /\ code \in Int /\ code # NoCode
    BY <1>a DEF SendTerms
  <2>2. /\ send' \in SendTerms /\ sendCode' \in Int
        /\ UNCHANGED <<send, sendCode>> \/ (send' = Stopped /\ sendCode' = code)
    BY <1>1, <1>a, <2>1, PublishKeeps DEF PeerStops
  <2>3. Stopped.kind # "Connection" /\ Stopped # LocalReset
    BY DEF Stopped, LocalReset, Term
  <2>4. peer.stop = NoCode /\ peer'.stop = code /\ peer'.reset = peer.reset /\ peer'.close = peer.close
        /\ peer'.fin = peer.fin /\ peer' \in [stop : Int, reset : Int, close : Int, fin : BOOLEAN]
    BY <1>1, <1>a, <2>1 DEF PeerStops, Shapes
  <2>5. Shapes'
    BY <1>1, <1>a, <2>2, <2>4 DEF PeerStops, connVars, Shapes
  <2>6. CauseKnown'
    BY <1>1, <1>a, <2>2, <2>3 DEF PeerStops, connVars, CauseKnown
  <2>7. PeerCodesKept'
    BY <1>1, <1>a, <2>1, <2>2, <2>4 DEF PeerStops, connVars, PeerCodesKept, NoCode
  <2>8. ResetCodesKept' /\ WireEncodable'
    BY <1>1, <1>a, <2>2, <2>3 DEF PeerStops, ResetCodesKept, ResetOnWire, WireEncodable, NoCode
  <2>9. Kept
    BY <1>1, <2>4 DEF PeerStops, connVars, Kept
  <2> QED
    BY <1>1, <2>5, <2>6, <2>7, <2>8, <2>9, SilentStep DEF PeerStops
<1>2. ASSUME NEW code \in PeerCodes, PeerResets(code) PROVE IInv'
  <2> DEFINE e == Event("Reset", code)
  <2>1. e \in RecvEvents /\ code \in Int /\ code # NoCode /\ e.kind = "Reset" /\ e.code = code
    BY <1>a DEF RecvEvents, Event
  <2>2. e.kind \notin ConnKinds
    BY <2>1 DEF ConnKinds, ConnectionTerminal, SpecificCause
  <2> HIDE DEF e
  <2>3. /\ recv' \in [open : {recv.open}, event : {recv.event, e}, sticky : {recv.sticky}, closed : {recv.closed}]
        /\ recv'.event \in RecvEvents
    BY <1>2, <1>a, <2>1, PublishRecvKeeps DEF PeerResets, e
  <2>4. /\ peer.reset = NoCode /\ peer'.reset = code /\ peer'.stop = peer.stop /\ peer'.close = peer.close
        /\ peer'.fin = peer.fin /\ peer' \in [stop : Int, reset : Int, close : Int, fin : BOOLEAN]
    BY <1>2, <1>a, <2>1 DEF PeerResets, Shapes
  <2>5. Shapes'
    BY <1>2, <1>a, <2>3, <2>4 DEF PeerResets, connVars, sendVars, Shapes
  <2>6. CauseKnown'
    BY <1>2, <1>a, <2>2, <2>3 DEF PeerResets, connVars, sendVars, CauseKnown
  <2>7. PeerCodesKept'
    BY <1>2, <1>a, <2>1, <2>3, <2>4 DEF PeerResets, connVars, sendVars, PeerCodesKept, NoCode
  <2>8. ResetCodesKept' /\ WireEncodable'
    BY <1>2, <1>a DEF PeerResets, sendVars, ResetCodesKept, ResetOnWire, WireEncodable, NoCode
  <2>9. Kept
    BY <1>2, <2>3, <2>4 DEF PeerResets, connVars, Kept
  <2> QED
    BY <1>2, <2>5, <2>6, <2>7, <2>8, <2>9, SilentStep DEF PeerResets
<1>3. CASE PeerFinishes
  <2> DEFINE e == Event("Fin", NoCode)
  <2>1. e \in RecvEvents /\ e.kind = "Fin"
    BY <1>a DEF RecvEvents, Event
  <2>2. e.kind \notin ConnKinds
    BY <2>1 DEF ConnKinds, ConnectionTerminal, SpecificCause
  <2> HIDE DEF e
  <2>3. /\ recv' \in [open : {recv.open}, event : {recv.event, e}, sticky : {recv.sticky}, closed : {recv.closed}]
        /\ recv'.event \in RecvEvents
    BY <1>3, <1>a, <2>1, PublishRecvKeeps DEF PeerFinishes, e
  <2>4. /\ peer'.reset = peer.reset /\ peer'.stop = peer.stop /\ peer'.close = peer.close
        /\ peer'.fin /\ peer' \in [stop : Int, reset : Int, close : Int, fin : BOOLEAN]
    BY <1>3, <1>a DEF PeerFinishes, Shapes
  <2>5. Shapes'
    BY <1>3, <1>a, <2>3, <2>4 DEF PeerFinishes, connVars, sendVars, Shapes
  <2>6. CauseKnown'
    BY <1>3, <1>a, <2>2, <2>3 DEF PeerFinishes, connVars, sendVars, CauseKnown
  <2>7. PeerCodesKept'
    BY <1>3, <1>a, <2>1, <2>3, <2>4 DEF PeerFinishes, connVars, sendVars, PeerCodesKept, NoCode
  <2>8. ResetCodesKept' /\ WireEncodable'
    BY <1>3, <1>a DEF PeerFinishes, sendVars, ResetCodesKept, ResetOnWire, WireEncodable, NoCode
  <2>9. Kept
    BY <1>3, <2>3, <2>4 DEF PeerFinishes, connVars, Kept
  <2> QED
    BY <1>3, <2>5, <2>6, <2>7, <2>8, <2>9, SilentStep DEF PeerFinishes
<1>4. ASSUME NEW how \in {"peer", "transport", "idle", "local"}, NEW code \in Int,
             how = "peer" => code # NoCode, ConnectionEnds(how, code)
      PROVE  IInv'
  <2>1. peer.close = NoCode /\ conn.terminal # "PeerApplication"
    BY <1>4, <1>a DEF ConnectionEnds, PeerCodesKept
  <2>2. /\ peer'.reset = peer.reset /\ peer'.stop = peer.stop /\ peer'.fin = peer.fin
        /\ peer'.close = (IF how = "peer" THEN code ELSE NoCode)
        /\ peer' \in [stop : Int, reset : Int, close : Int, fin : BOOLEAN]
    BY <1>4, <1>a, <2>1 DEF ConnectionEnds, Shapes
  <2>3. /\ conn' \in [terminal : ConnKinds \cup {NoCause}, observed : {conn.observed}] /\ connCode' \in Int
        /\ conn.observed => UNCHANGED connVars
        /\ conn.terminal # NoCause => conn'.terminal # NoCause
        /\ conn'.terminal = "PeerApplication" => how = "peer" /\ connCode' = code
    <3>1. "PeerApplication" \in ConnKinds /\ NoCause \notin ConnKinds
      BY DEF ConnKinds, ConnectionTerminal, SpecificCause, NoCause
    <3>2. CASE how = "peer"
      <4>1. Record("PeerApplication", code)
        BY <1>4, <3>2 DEF ConnectionEnds
      <4> QED
        BY <4>1, <3>1, <3>2, <2>1, <1>a, RecordKeeps DEF connVars
    <3>3. CASE how = "local"
      BY <1>4, <1>a, <2>1, <3>3 DEF ConnectionEnds, connVars, Shapes
    <3>4. CASE how \in {"transport", "idle"}
      <4>1. PICK c \in {"Timeout", "Transport"} : Record(c, code)
        BY <1>4, <3>4 DEF ConnectionEnds, ClassifyTransport
      <4>2. c \in ConnKinds /\ c # "PeerApplication"
        BY DEF ConnKinds, ConnectionTerminal, SpecificCause
      <4> QED
        BY <4>1, <4>2, <3>1, <2>1, <1>a, RecordKeeps DEF connVars
    <3> QED
      BY <3>2, <3>3, <3>4
  <2>4. Shapes'
    BY <1>4, <1>a, <2>2, <2>3 DEF ConnectionEnds, sendVars, Shapes
  <2>5. CauseKnown'
    BY <1>4, <1>a, <2>3 DEF ConnectionEnds, connVars, sendVars, CauseKnown
  <2>6. PeerCodesKept'
    BY <1>4, <1>a, <2>2, <2>3 DEF ConnectionEnds, sendVars, PeerCodesKept, NoCode
  <2>7. ResetCodesKept' /\ WireEncodable'
    BY <1>4, <1>a DEF ConnectionEnds, sendVars, ResetCodesKept, ResetOnWire, WireEncodable, NoCode
  <2>8. Kept
    BY <1>4, <2>1, <2>2, <2>3 DEF ConnectionEnds, connVars, Kept
  <2> QED
    BY <1>4, <2>4, <2>5, <2>6, <2>7, <2>8, SilentStep DEF ConnectionEnds
<1>5. CASE StreamShutdown
  <2>1. CASE ended = "no"
    <3>1. /\ recv' \in [open : {FALSE}, event : {recv.event}, sticky : {recv.sticky}, closed : {recv.closed}]
          /\ UNCHANGED <<connVars, sendVars, wire, peer, ended, told>>
      BY <1>5, <1>a, <2>1 DEF StreamShutdown, Shapes, connVars, sendVars
    <3>2. Shapes'
      BY <3>1, <1>a DEF Shapes, connVars, sendVars
    <3>3. CauseKnown' /\ PeerCodesKept'
      BY <3>1, <1>a DEF CauseKnown, PeerCodesKept, connVars, sendVars, NoCode
    <3>4. ResetCodesKept' /\ WireEncodable' /\ Kept
      BY <3>1, <1>a DEF ResetCodesKept, ResetOnWire, WireEncodable, Kept, connVars, sendVars, NoCode
    <3> QED
      BY <3>1, <3>2, <3>3, <3>4, SilentStep
  <2>2. CASE ended # "no"
    <3>1. PICK c \in ConnKinds, code \in Int :
             /\ Record(c, code) /\ Publish(Connection(c), code)
             /\ recv' = [PublishRecv(Event(c, code)) EXCEPT !.open = FALSE]
             /\ c = "PeerApplication" => ended = "peer" /\ code = peer.close
      <4> DEFINE c == ClassifyConnShutdown(ended \in {"peer", "local"}, ended = "peer",
                                          IF ended = "idle" THEN "CONNECTION_IDLE" ELSE "OTHER")
                 code == IF ended = "peer" THEN peer.close ELSE connCode
      <4>1. c \in ConnKinds /\ (c = "PeerApplication" => ended = "peer")
        BY DEF ClassifyConnShutdown, ClassifyTransport, ConnKinds, ConnectionTerminal, SpecificCause
      <4>2. code \in Int
        BY <1>a DEF Shapes
      <4>3. /\ Record(c, code) /\ Publish(Connection(c), code)
            /\ recv' = [PublishRecv(Event(c, code)) EXCEPT !.open = FALSE]
        BY <1>5, <2>2 DEF StreamShutdown
      <4> QED
        BY <4>1, <4>2, <4>3
    <3>2. /\ conn' \in [terminal : ConnKinds, observed : {conn.observed}] /\ connCode' \in Int
          /\ conn.observed => UNCHANGED connVars
          /\ UNCHANGED connVars \/ (conn'.terminal = c /\ connCode' = code)
      BY <3>1, <1>a, RecordKeeps
    <3>3. Connection(c) \in SendTerms /\ Connection(c) # Stopped /\ Connection(c) # LocalReset
      BY DEF SendTerms, Connection, Stopped, LocalReset, Term
    <3>4. /\ send' \in SendTerms /\ sendCode' \in Int
          /\ UNCHANGED <<send, sendCode>> \/ (send' = Connection(c) /\ sendCode' = code)
      BY <3>1, <3>3, <1>a, PublishKeeps
    <3> DEFINE e == Event(c, code)
    <3>5. e \in RecvEvents /\ e.kind \in ConnKinds /\ e.kind \notin {"Reset", "Fin"}
      BY DEF RecvEvents, Event, ConnKinds, ConnectionTerminal, SpecificCause
    <3> HIDE DEF e
    <3>6. /\ recv' \in [open : {FALSE}, event : {recv.event, e}, sticky : {recv.sticky}, closed : {recv.closed}]
          /\ recv'.event \in RecvEvents
      BY <3>1, <3>5, <1>a, PublishRecvKeeps DEF e
    <3>7. NoCause \notin ConnKinds
      BY DEF ConnKinds, ConnectionTerminal, SpecificCause, NoCause
    <3>8. UNCHANGED <<resetting, wire, peer, ended, told>>
      BY <1>5 DEF StreamShutdown
    <3>9. Shapes'
      BY <3>2, <3>4, <3>6, <3>8, <1>a DEF Shapes
    <3>10. CauseKnown'
      BY <3>2, <3>6, <3>7, <1>a DEF CauseKnown, connVars
    <3>11. PeerCodesKept'
      BY <3>1, <3>2, <3>3, <3>4, <3>5, <3>6, <3>8, <1>a DEF PeerCodesKept, connVars, NoCode
    <3>12. ResetCodesKept' /\ WireEncodable'
      BY <3>3, <3>4, <3>8, <1>a DEF ResetCodesKept, ResetOnWire, WireEncodable, NoCode
    <3>13. Kept
      BY <3>2, <3>6, <3>8 DEF Kept, connVars
    <3> QED
      BY <3>8, <3>9, <3>10, <3>11, <3>12, <3>13, SilentStep
  <2> QED
    BY <2>1, <2>2
<1>6. CASE StreamPanics
  <2> DEFINE e == Event("Internal", NoCode)
  <2>1. e \in RecvEvents /\ e.kind = "Internal" /\ e.kind \notin ConnKinds
    BY <1>a DEF RecvEvents, Event, ConnKinds, ConnectionTerminal, SpecificCause
  <2> HIDE DEF e
  <2>2. /\ recv' \in [open : {FALSE}, event : {recv.event, e}, sticky : {recv.sticky}, closed : {recv.closed}]
        /\ recv'.event \in RecvEvents
    BY <1>6, <1>a, <2>1, PublishRecvKeeps DEF StreamPanics, e
  <2>3. /\ Internal("panic") \in SendTerms /\ Internal("panic") # Stopped /\ Internal("panic") # LocalReset
        /\ Internal("panic").kind # "Connection"
    BY DEF SendTerms, Internal, Stopped, LocalReset, Term
  <2>4. /\ send' \in SendTerms /\ sendCode' \in Int
        /\ UNCHANGED <<send, sendCode>> \/ (send' = Internal("panic") /\ sendCode' = NoCode)
    BY <1>6, <1>a, <2>3, PublishKeeps DEF StreamPanics
  <2>5. Shapes'
    BY <1>6, <1>a, <2>2, <2>4 DEF StreamPanics, connVars, Shapes
  <2>6. CauseKnown'
    BY <1>6, <1>a, <2>1, <2>2, <2>3, <2>4 DEF StreamPanics, connVars, CauseKnown
  <2>7. PeerCodesKept'
    BY <1>6, <1>a, <2>1, <2>2, <2>3, <2>4 DEF StreamPanics, connVars, PeerCodesKept, NoCode
  <2>8. ResetCodesKept' /\ WireEncodable'
    BY <1>6, <1>a, <2>3, <2>4 DEF StreamPanics, ResetCodesKept, ResetOnWire, WireEncodable, NoCode
  <2>9. Kept
    BY <1>6, <2>2 DEF StreamPanics, connVars, Kept
  <2> QED
    BY <1>6, <2>5, <2>6, <2>7, <2>8, <2>9, SilentStep DEF StreamPanics
<1>7. ASSUME NEW code \in LocalCodes, Reset(code) PROVE IInv'
  <2>1. /\ wire' \subseteq Calls /\ wire \subseteq wire' /\ WireEncodable'
        /\ [op |-> "reset", asked |-> code, code |-> ClampApplicationCode(code)] \in wire'
        /\ ClampApplicationCode(code) \in Nat
    BY <1>7, <1>a, CallKeeps DEF Reset
  <2>2. Shapes'
    BY <1>7, <1>a, <2>1 DEF Reset, connVars, Shapes
  <2>3. CauseKnown' /\ PeerCodesKept'
    BY <1>7, <1>a DEF Reset, connVars, CauseKnown, PeerCodesKept, NoCode
  <2>4. ResetCodesKept'
    BY <1>7, <1>a, <2>1 DEF Reset, ResetCodesKept, ResetOnWire, NoCode
  <2>5. Kept
    BY <1>7, <2>1 DEF Reset, connVars, Kept
  <2> QED
    BY <1>7, <2>1, <2>2, <2>3, <2>4, <2>5, SilentStep DEF Reset
<1>8. ASSUME NEW code \in LocalCodes, StopSending(code) PROVE IInv'
  <2>1. wire' \subseteq Calls /\ wire \subseteq wire' /\ WireEncodable'
    BY <1>8, <1>a, CallKeeps DEF StopSending
  <2>2. recv' \in [open : {recv.open}, event : {recv.event}, sticky : {recv.sticky}, closed : {TRUE}]
    BY <1>8, <1>a DEF StopSending, Shapes
  <2>3. Shapes'
    BY <1>8, <1>a, <2>1, <2>2 DEF StopSending, connVars, sendVars, Shapes
  <2>4. CauseKnown' /\ PeerCodesKept'
    BY <1>8, <1>a, <2>2 DEF StopSending, connVars, sendVars, CauseKnown, PeerCodesKept, NoCode
  <2>5. ResetCodesKept'
    BY <1>8, <1>a, <2>1 DEF StopSending, sendVars, ResetCodesKept, ResetOnWire, NoCode
  <2>6. Kept
    BY <1>8, <2>1, <2>2 DEF StopSending, connVars, Kept
  <2> QED
    BY <1>8, <2>1, <2>3, <2>4, <2>5, <2>6, SilentStep DEF StopSending
<1>9. ASSUME NEW code \in LocalCodes, Close(code) PROVE IInv'
  <2>1. wire' \subseteq Calls /\ wire \subseteq wire' /\ WireEncodable'
    BY <1>9, <1>a, CallKeeps DEF Close
  <2>2. "LocalClose" \in ConnKinds /\ NoCause \notin ConnKinds
    BY DEF ConnKinds, ConnectionTerminal, SpecificCause, NoCause
  <2>3. /\ conn' \in [terminal : ConnKinds, observed : {conn.observed}] /\ connCode' \in Int
        /\ conn.observed => UNCHANGED connVars
        /\ UNCHANGED connVars \/ (conn'.terminal = "LocalClose" /\ connCode' = NoCode)
    BY <1>9, <1>a, <2>2, RecordKeeps DEF Close
  <2>4. Shapes'
    BY <1>9, <1>a, <2>1, <2>3 DEF Close, sendVars, Shapes
  <2>5. CauseKnown'
    BY <1>9, <1>a, <2>2, <2>3 DEF Close, connVars, sendVars, CauseKnown
  <2>6. PeerCodesKept'
    BY <1>9, <1>a, <2>3 DEF Close, connVars, sendVars, PeerCodesKept, NoCode
  <2>7. ResetCodesKept'
    BY <1>9, <1>a, <2>1 DEF Close, sendVars, ResetCodesKept, ResetOnWire, NoCode
  <2>8. Kept
    BY <1>9, <2>1, <2>3 DEF Close, connVars, Kept
  <2> QED
    BY <1>9, <2>1, <2>4, <2>5, <2>6, <2>7, <2>8, SilentStep DEF Close
<1>10. CASE ResetPublished
  <2> DEFINE t == ResolveTerminal(send, conn.terminal)
  <2>1. PICK w \in SendTerms, code \in Int :
           /\ Publish(w, code)
           /\ \/ w = Connection(conn.terminal) /\ conn.terminal \in ConnKinds
              \/ w = send /\ code = sendCode
              \/ w = LocalReset /\ code = resetting
    <3>1. /\ t \in SendTerms
          /\ \/ t = Connection(conn.terminal) /\ conn.terminal \in ConnKinds
             \/ t = send /\ send.kind # "Connection"
      BY <1>a, ResolveKeeps
    <3>2. LocalReset \in SendTerms /\ Connection(conn.terminal).kind = "Connection"
      BY DEF SendTerms, Connection, Term
    <3>3. /\ Definitive(t) => Publish(t, IF t.kind = "Connection" THEN connCode ELSE sendCode)
          /\ ~Definitive(t) => Publish(LocalReset, resetting)
      BY <1>10 DEF ResetPublished
    <3> HIDE DEF t
    <3>4. connCode \in Int /\ sendCode \in Int /\ resetting \in Int
      BY <1>a DEF Shapes
    <3>5. CASE Definitive(t) /\ t.kind = "Connection"
      BY <3>1, <3>3, <3>4, <3>5
    <3>6. CASE Definitive(t) /\ t.kind # "Connection"
      BY <3>1, <3>2, <3>3, <3>4, <3>6
    <3>7. CASE ~Definitive(t)
      BY <3>2, <3>3, <3>4, <3>7
    <3> QED
      BY <3>5, <3>6, <3>7
  <2>2. /\ send' \in SendTerms /\ sendCode' \in Int
        /\ UNCHANGED <<send, sendCode>> \/ (send' = w /\ sendCode' = code)
    BY <2>1, <1>a, PublishKeeps
  <2>3. /\ Connection(conn.terminal) \notin {Stopped, LocalReset} /\ LocalReset # Stopped
        /\ LocalReset.kind # "Connection" /\ NoCause \notin ConnKinds
    BY DEF Connection, Stopped, LocalReset, Term, ConnKinds, ConnectionTerminal, SpecificCause, NoCause
  <2>4. resetting # NoCode /\ resetting' = NoCode /\ UNCHANGED <<connVars, recv, wire, peer, ended, told>>
    BY <1>10 DEF ResetPublished
  <2>5. Shapes'
    BY <1>a, <2>2, <2>4 DEF connVars, Shapes
  <2>6. CauseKnown'
    BY <1>a, <2>1, <2>2, <2>3, <2>4 DEF connVars, CauseKnown
  <2>7. PeerCodesKept'
    BY <1>a, <2>1, <2>2, <2>3, <2>4 DEF connVars, PeerCodesKept, NoCode
  <2>8. ResetCodesKept' /\ WireEncodable'
    BY <1>a, <2>1, <2>2, <2>3, <2>4 DEF ResetCodesKept, ResetOnWire, WireEncodable, NoCode
  <2>9. Kept
    BY <2>4 DEF connVars, Kept
  <2> QED
    BY <2>4, <2>5, <2>6, <2>7, <2>8, <2>9, SilentStep
<1>11. CASE SendCancelled \/ SendClosed
  <2>1. PICK w \in {ProvisionalAbort, Aborted, Internal("closed")} : Publish(w, NoCode)
    BY <1>11 DEF SendCancelled, SendClosed
  <2>2. w \in SendTerms /\ w.kind # "Connection" /\ w # Stopped /\ w # LocalReset
    <3>1. /\ ProvisionalAbort.kind = "ProvisionalAbort" /\ Aborted.kind = "Failed"
          /\ Internal("closed").kind = "Internal" /\ Stopped.kind = "Stopped" /\ LocalReset.kind = "LocalReset"
      BY DEF ProvisionalAbort, Aborted, Internal, Stopped, LocalReset, Term
    <3> QED
      BY <2>1, <3>1 DEF SendTerms
  <2>3. /\ send' \in SendTerms /\ sendCode' \in Int
        /\ UNCHANGED <<send, sendCode>> \/ (send' = w /\ sendCode' = NoCode)
    BY <2>1, <2>2, <1>a, PublishKeeps
  <2>4. UNCHANGED <<connVars, resetting, recv, wire, peer, ended, told>>
    BY <1>11 DEF SendCancelled, SendClosed
  <2>5. Shapes'
    BY <1>a, <2>3, <2>4 DEF connVars, Shapes
  <2>6. CauseKnown'
    BY <1>a, <2>2, <2>3, <2>4 DEF connVars, CauseKnown
  <2>7. PeerCodesKept'
    BY <1>a, <2>2, <2>3, <2>4 DEF connVars, PeerCodesKept, NoCode
  <2>8. ResetCodesKept' /\ WireEncodable' /\ Kept
    BY <1>a, <2>2, <2>3, <2>4 DEF ResetCodesKept, ResetOnWire, WireEncodable, Kept, connVars, NoCode
  <2> QED
    BY <2>4, <2>5, <2>6, <2>7, <2>8, SilentStep
<1>12. CASE PollSend
  <2> DEFINE t == ResolveTerminal(send, conn.terminal)
             e == ConvertSend(t, IF t.kind = "Connection" THEN connCode ELSE sendCode)
  <2>1. /\ Definitive(t) /\ Tell(e)
        /\ conn' = IF t.kind = "Connection" THEN CommitConn(conn) ELSE conn
        /\ UNCHANGED <<connCode, sendVars, recv, wire, peer, ended>>
    BY <1>12 DEF PollSend
  <2>2. t.kind = "Connection" => conn.terminal # NoCause
    <3>1. NoCause \notin ConnKinds
      BY DEF ConnKinds, ConnectionTerminal, SpecificCause, NoCause
    <3> QED
      BY <1>a, <3>1, ResolveKeeps
  <2>3. /\ conn' \in [terminal : {conn.terminal}, observed : BOOLEAN]
        /\ conn'.observed <=> (conn.observed \/ t.kind = "Connection")
    BY <2>1, <2>2, <1>a DEF CommitConn, ObserveConnWinner, Shapes
  <2>4. Slots'
    <3>1. Shapes'
      BY <1>a, <2>1, <2>3 DEF sendVars, Shapes
    <3>2. CauseKnown'
      BY <1>a, <2>1, <2>2, <2>3 DEF sendVars, CauseKnown
    <3>3. PeerCodesKept' /\ ResetCodesKept' /\ WireEncodable'
      BY <1>a, <2>1, <2>3 DEF sendVars, PeerCodesKept, ResetCodesKept, ResetOnWire, WireEncodable, NoCode
    <3> QED
      BY <3>1, <3>2, <3>3
  <2>5. Kept
    BY <2>1, <2>3 DEF Kept
  <2>6. PICK u, f : u = t /\ f = e
    OBVIOUS
  <2>7. ToldFine(f)'
    <3>1. f = ConvertSend(u, IF u.kind = "Connection" THEN connCode ELSE sendCode)
      BY <2>6
    <3>2. ToldFine(ConvertSend(u, IF u.kind = "Connection" THEN connCode ELSE sendCode))'
      BY <1>a, <2>1, <2>3, <2>4, <2>6, ConvertSendFine DEF sendVars
    <3> QED
      BY <2>1, <3>1, <3>2 DEF sendVars
  <2> QED
    BY <2>1, <2>4, <2>5, <2>6, <2>7, TellStep
<1>13. CASE PollConn
  <2>1. conn.terminal \in ConnKinds
    BY <1>13, <1>a DEF PollConn, Shapes
  <2>2. conn' \in [terminal : {conn.terminal}, observed : {TRUE}]
    BY <1>13, <1>a DEF PollConn, CommitConn, ObserveConnWinner, Shapes
  <2>3. Slots'
    <3>1. Shapes'
      BY <1>13, <1>a, <2>2 DEF PollConn, sendVars, Shapes
    <3>2. CauseKnown'
      BY <1>13, <1>a, <2>2 DEF PollConn, sendVars, CauseKnown
    <3>3. PeerCodesKept' /\ ResetCodesKept' /\ WireEncodable'
      BY <1>13, <1>a, <2>2 DEF PollConn, sendVars, PeerCodesKept, ResetCodesKept, ResetOnWire, WireEncodable, NoCode
    <3> QED
      BY <3>1, <3>2, <3>3
  <2>4. Kept
    BY <1>13, <2>2 DEF PollConn, Kept
  <2>5. PICK e : e = ConvertConn("connection", conn.terminal, connCode) /\ Tell(e) /\ UNCHANGED connCode
    BY <1>13 DEF PollConn
  <2>6. ToldFine(e)'
    BY <2>1, <2>2, <2>3, <2>5, ConvertConnFine
  <2> QED
    BY <2>3, <2>4, <2>5, <2>6, TellStep
<1>14. CASE PollRecv
  <2>1. UNCHANGED <<connCode, sendVars, wire, peer, ended>>
    BY <1>14 DEF PollRecv
  <2>2. ASSUME UNCHANGED <<conn, recv>>,
               \/ recv.closed /\ Tell(ConvertRecv(Event("Fin", NoCode)))
               \/ recv.sticky # NoEvent /\ Tell(ConvertRecv(recv.sticky))
        PROVE  IInv'
    <3>1. Slots' /\ Kept
      BY <1>a, <2>1, <2>2 DEF sendVars, Shapes, CauseKnown, PeerCodesKept, ResetCodesKept,
         ResetOnWire, WireEncodable, Kept, NoCode
    <3>2. CASE recv.closed /\ Tell(ConvertRecv(Event("Fin", NoCode)))
      <4>1. PICK t : t = Event("Fin", NoCode)
        OBVIOUS
      <4>2. t \in RecvEvents /\ t # NoEvent /\ t.kind = "Fin" /\ t.kind \notin ConnKinds
        BY <1>a, <4>1 DEF RecvEvents, NoEvent, Event, ConnKinds, ConnectionTerminal, SpecificCause
      <4>3. ToldFine(ConvertRecv(t))'
        BY <2>2, <3>1, <3>2, <4>2, ConvertRecvFine
      <4> QED
        BY <3>1, <3>2, <4>1, <4>3, TellStep
    <3>3. CASE recv.sticky # NoEvent /\ Tell(ConvertRecv(recv.sticky))
      <4>1. PICK t : t = recv.sticky
        OBVIOUS
      <4>2. t \in RecvEvents
        BY <1>a, <4>1 DEF Shapes
      <4>3. ToldFine(ConvertRecv(t))'
        BY <1>a, <2>1, <2>2, <3>1, <3>3, <4>1, <4>2, ConvertRecvFine DEF CauseKnown
      <4> QED
        BY <3>1, <3>3, <4>1, <4>3, TellStep
    <3> QED
      BY <2>2, <3>2, <3>3
  <2>3. ASSUME NEW e \in RecvEvents, e # NoEvent, e = recv.event \/ e.kind = "Internal", Delivered(e)
        PROVE  IInv'
    <3>1. e.kind \in ConnKinds => conn.terminal \in ConnKinds
      BY <1>a, <2>3 DEF CauseKnown, Shapes, ConnKinds
    <3>2. NoCause \notin ConnKinds
      BY DEF ConnKinds, ConnectionTerminal, SpecificCause, NoCause
    <3>3. PICK t : /\ t = (IF e.kind \in ConnKinds THEN Event(conn.terminal, connCode) ELSE e)
                   /\ recv' = [recv EXCEPT !.sticky = t] /\ Tell(ConvertRecv(t))
                   /\ conn' = IF e.kind \in ConnKinds THEN ObserveConnWinner(conn) ELSE conn
      BY <2>3, <3>1, <3>2 DEF Delivered, ConnKinds
    <3>4. /\ t \in RecvEvents /\ t # NoEvent
          /\ t.kind \in ConnKinds => e.kind \in ConnKinds /\ t = Event(conn.terminal, connCode)
          /\ t.kind \notin ConnKinds => t = e
      <4>1. CASE e.kind \in ConnKinds
        BY <1>a, <3>1, <3>3, <4>1 DEF Event, RecvEvents, NoEvent, Shapes, ConnKinds, ConnectionTerminal, SpecificCause
      <4>2. CASE e.kind \notin ConnKinds
        BY <2>3, <3>3, <4>2
      <4> QED
        BY <4>1, <4>2
    <3>5. recv' \in [open : {recv.open}, event : {recv.event}, sticky : {t}, closed : {recv.closed}]
      BY <1>a, <3>3 DEF Shapes
    <3>6. /\ conn' \in [terminal : {conn.terminal}, observed : BOOLEAN]
          /\ conn'.observed <=> (conn.observed \/ e.kind \in ConnKinds)
      BY <1>a, <3>3 DEF ObserveConnWinner, Shapes
    <3>7. Shapes'
      BY <1>a, <2>1, <3>4, <3>5, <3>6 DEF sendVars, Shapes
    <3>8. CauseKnown'
      BY <1>a, <2>1, <3>1, <3>2, <3>4, <3>5, <3>6 DEF sendVars, CauseKnown
    <3>9. PeerCodesKept'
      <4>1. t.kind \in {"Reset", "Fin"} => t = recv.event
        BY <2>3, <3>4 DEF ConnKinds, ConnectionTerminal, SpecificCause
      <4> QED
        BY <1>a, <2>1, <3>5, <3>6, <4>1 DEF sendVars, PeerCodesKept, NoCode
    <3>10. ResetCodesKept' /\ WireEncodable' /\ Kept
      BY <1>a, <2>1, <3>5, <3>6 DEF sendVars, ResetCodesKept, ResetOnWire, WireEncodable, Kept, NoCode
    <3>11. ToldFine(ConvertRecv(t))'
      BY <2>1, <3>4, <3>5, <3>6, <3>7, <3>8, <3>9, <3>10, ConvertRecvFine
    <3> QED
      BY <3>3, <3>7, <3>8, <3>9, <3>10, <3>11, TellStep
  <2>4. Event("Internal", NoCode) \in RecvEvents /\ Event("Internal", NoCode) # NoEvent
        /\ Event("Internal", NoCode).kind = "Internal" /\ recv.event \in RecvEvents
    BY <1>a DEF RecvEvents, Event, NoEvent, Shapes
  <2> QED
    BY <1>14, <2>2, <2>3, <2>4 DEF PollRecv
<1>15. CASE UNCHANGED vars
  <2>1. Slots' /\ Kept
    BY <1>a, <1>15 DEF vars, connVars, sendVars, Shapes, CauseKnown, PeerCodesKept, ResetCodesKept,
       ResetOnWire, WireEncodable, Kept, NoCode
  <2> QED
    BY <2>1, <1>15, SilentStep DEF vars
<1>16. \A code \in PeerCodes : code \in Int /\ code # NoCode
  BY <1>a
<1> QED
  BY <1>a, <1>1, <1>2, <1>3, <1>4, <1>5, <1>6, <1>7, <1>8, <1>9, <1>10, <1>11, <1>12, <1>13, <1>14,
     <1>15, <1>16 DEF Next

\* Hence it holds of every reachable state.
LEMMA Invariance == Spec => []IInv
BY InitIInv, NextIInv, PTL DEF Spec

-----------------------------------------------------------------------------
\* For every varint bound and every code: the codes msquic is given fit and are h3's,
\* the codes h3 is told are the peer's or its own, whatever raced.
THEOREM CodesFaithfulAlways == Spec => []CodesFaithful
<1>1. IInv => CodesFaithful
  BY DEF IInv, Slots, ToldFine, CodesFaithful, PeerCodesOnly, LocalResetExact, ResetOnWire
<1> QED
  BY <1>1, Invariance, PTL

\* No failure of the stream, of the connection or of a callback reads as a clean end.
THEOREM CleanEndIsTrueAlways == Spec => []CleanEndIsTrue
<1>1. IInv => CleanEndIsTrue
  BY DEF IInv, ToldFine, CleanEndIsTrue
<1> QED
  BY <1>1, Invariance, PTL

\* The two halves and the acceptors are told one and the same end of the connection.
THEOREM ConnectionVerdictAlways == Spec => []ConnectionVerdict
<1>1. IInv => ConnectionVerdict
  <2> SUFFICES ASSUME IInv, NEW e \in told, NEW f \in told, e.scope = "connection", f.scope = "connection"
               PROVE  e.class = f.class /\ e.inner = f.inner /\ e.code = f.code
    BY DEF ConnectionVerdict
  <2>1. /\ e = ConvertConn(e.half, conn.terminal, connCode)
        /\ f = ConvertConn(f.half, conn.terminal, connCode)
        /\ conn.terminal \in ConnKinds
    BY DEF IInv, ToldFine, Slots, CauseKnown, Shapes
  <2>2. \A g, h : LET a == ConvertConn(g, conn.terminal, connCode)
                      b == ConvertConn(h, conn.terminal, connCode)
                  IN  a.class = b.class /\ a.inner = b.inner /\ a.code = b.code
    <3> TAKE g, h
    <3>1. CASE conn.terminal = "PeerApplication"
      BY <3>1 DEF ConvertConn, H3Error
    <3>2. CASE conn.terminal = "Timeout"
      BY <3>2 DEF ConvertConn, H3Error
    <3>3. CASE conn.terminal = "Transport"
      BY <3>3 DEF ConvertConn, H3Error
    <3>4. CASE conn.terminal = "LocalClose"
      BY <3>4 DEF ConvertConn, H3Error
    <3> QED
      BY <2>1, <3>1, <3>2, <3>3, <3>4 DEF ConnKinds, ConnectionTerminal, SpecificCause
  <2> QED
    BY <2>1, <2>2
<1> QED
  BY <1>1, Invariance, PTL
=============================================================================
