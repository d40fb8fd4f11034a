------------------------------- MODULE Config --------------------------------
(***************************************************************************)
(* The memory budgets (config.rs) from the builder to the wire: how a      *)
(* validated H3Config reaches the two carriers of a connection (ConnHandle *)
(* for the streams it opens, ConnCtxSender for those it accepts), from     *)
(* there every stream, and decides what send_data copies into a buffer     *)
(* whose length msquic reads as a u32 (buffer.rs).                         *)
(*                                                                         *)
(* u32::MAX is a parameter, so a small one shows the same wrap-around.     *)
(***************************************************************************)
EXTENDS Naturals, Sequences

CONSTANTS
    U32Max,         \* u32::MAX
    DefaultCaps,    \* MAX_ADAPTER_SEND, MAX_RECV_BUFFER, DEFAULT_MAX_RECV_UNITS
    SendCaps,       \* the values the application tries for max_send_bytes,
    ByteCaps,       \* max_recv_bytes
    UnitCaps,       \* and max_recv_units
    Lens,           \* the payload lengths it sends
    Conns,          \* its connections
    MaxStreams      \* bound: streams of a connection

Caps == [send : Nat, bytes : Nat, units : Nat]

InRange(caps) ==
    /\ caps.send # 0 /\ caps.send < U32Max
    /\ caps.bytes # 0
    /\ caps.units # 0

ASSUME ConfigAssumption ==
    /\ U32Max \in Nat /\ MaxStreams \in Nat
    /\ SendCaps \subseteq Nat /\ ByteCaps \subseteq Nat /\ UnitCaps \subseteq Nat
    /\ Lens \subseteq Nat
    /\ DefaultCaps \in Caps /\ InRange(DefaultCaps)

VARIABLES
    builder,    \* the H3ConfigBuilder
    config,     \* what the last build or try_new returned
    asked,      \* what every connection was constructed with, or NoConfig
    carrier,    \* the two copies every connection keeps
    streams,    \* every connection's streams: their caps
    sent        \* the last send_data: its connection, length, class and native length

connVars == <<asked, carrier>>
vars == <<builder, config, connVars, streams, sent>>

Ok(caps) == [status |-> "Ok", caps |-> caps]
Err(e) == [status |-> e, caps |-> DefaultCaps]
NoConfig == Err("none")
NothingSent == [class |-> "none"]

Init ==
    /\ builder = DefaultCaps
    /\ config = Ok(DefaultCaps)
    /\ asked = [c \in Conns |-> NoConfig]
    /\ carrier = [c \in Conns |-> [handle |-> DefaultCaps, ctx |-> DefaultCaps]]
    /\ streams = [c \in Conns |-> <<>>]
    /\ sent = NothingSent

-----------------------------------------------------------------------------
(* The builder.                                                            *)

WithMaxSendBytes(v) == builder' = [builder EXCEPT !.send = v]
WithMaxRecvBytes(v) == builder' = [builder EXCEPT !.bytes = v]
WithMaxRecvUnits(v) == builder' = [builder EXCEPT !.units = v]

\* One with_* call.
Override ==
    /\ \/ \E v \in SendCaps : WithMaxSendBytes(v)
       \/ \E v \in ByteCaps : WithMaxRecvBytes(v)
       \/ \E v \in UnitCaps : WithMaxRecvUnits(v)
    /\ UNCHANGED <<config, connVars, streams, sent>>

\* Mutant of Validate: a ceiling the u32 length cannot carry is let through.
ValidateUnbounded(caps) ==
    CASE caps.send = 0 -> Err("SendSize")
      [] caps.send # 0 /\ caps.bytes = 0 -> Err("RecvBytes")
      [] caps.send # 0 /\ caps.bytes # 0 /\ caps.units = 0 -> Err("RecvUnits")
      [] OTHER -> Ok(caps)

\* The first cap out of range is the error.
Validate(caps) ==
    IF caps.send = 0 \/ caps.send >= U32Max THEN Err("SendSize")
    ELSE IF caps.bytes = 0 THEN Err("RecvBytes")
    ELSE IF caps.units = 0 THEN Err("RecvUnits")
    ELSE Ok(caps)

\* build consumes the builder.
Build ==
    /\ config' = Validate(builder)
    /\ builder' = DefaultCaps
    /\ UNCHANGED <<connVars, streams, sent>>

TryNew(s, b, u) ==
    /\ config' = Validate([send |-> s, bytes |-> b, units |-> u])
    /\ UNCHANGED <<builder, connVars, streams, sent>>

-----------------------------------------------------------------------------
(* Connections and their streams.                                          *)

\* connect_with_config, or attach for a listener's with_config: the context and
\* the handle each get a copy.
ConstructWith(c, caps) ==
    /\ asked[c] = NoConfig
    /\ asked' = [asked EXCEPT ![c] = Ok(caps)]
    /\ carrier' = [carrier EXCEPT ![c] = [handle |-> caps, ctx |-> caps]]
    /\ UNCHANGED <<builder, config, streams, sent>>

\* connect and Listener::new use the default; the others what build returned.
Construct(c) ==
    \/ ConstructWith(c, DefaultCaps)
    \/ config.status = "Ok" /\ ConstructWith(c, config.caps)

\* stream_ctx_channel_pre_id: the receive budget and the send ceiling of a stream.
StreamCtx(caps) == [ceiling |-> caps.send, budget |-> [bytes |-> caps.bytes, units |-> caps.units]]

NewStream(c, caps) ==
    /\ asked[c] # NoConfig
    /\ Len(streams[c]) < MaxStreams
    /\ streams' = [streams EXCEPT ![c] = Append(@, StreamCtx(caps))]
    /\ UNCHANGED <<builder, config, connVars, sent>>

\* open_and_start reads the handle's copy.
OpenStream(c) == NewStream(c, carrier[c].handle)

\* Mutant of AcceptStream: peer-started streams get the default budgets.
AcceptStreamDefault(c) == NewStream(c, DefaultCaps)

\* PeerStreamStarted reads the callback context's copy.
AcceptStream(c) == NewStream(c, carrier[c].ctx)

\* Before any allocation.
ClassifySendLen(len, ceiling) ==
    IF len = 0 THEN "Empty" ELSE IF len > ceiling THEN "Oversized" ELSE "NonEmpty"

\* BufferRef's length: usize as u32.
AsU32(len) == len % (U32Max + 1)

\* An idle stream's send_data: classify, and copy what is within the ceiling.
SendData(c, i, len) ==
    LET s == streams[c][i]
        class == ClassifySendLen(len, s.ceiling)
    IN  /\ sent' = [class |-> class, conn |-> c, len |-> len,
                    native |-> IF class = "NonEmpty" THEN AsU32(len) ELSE 0]
        /\ UNCHANGED <<builder, config, connVars, streams>>

-----------------------------------------------------------------------------
Next ==
    \/ Override \/ Build
    \/ \E s \in SendCaps, b \in ByteCaps, u \in UnitCaps : TryNew(s, b, u)
    \/ \E c \in Conns :
          \/ Construct(c) \/ OpenStream(c) \/ AcceptStream(c)
          \/ \E i \in DOMAIN streams[c], len \in Lens : SendData(c, i, len)

Spec == Init /\ [][Next]_vars

-----------------------------------------------------------------------------
\* Every variable keeps its type; whatever build or try_new lets through is in range.
TypeOK ==
    /\ builder \in Caps
    /\ config \in [status : {"Ok", "SendSize", "RecvBytes", "RecvUnits"}, caps : Caps]
    /\ asked \in [Conns -> [status : {"Ok", "none"}, caps : Caps]]
    /\ carrier \in [Conns -> [handle : Caps, ctx : Caps]]
    /\ streams \in [Conns -> Seq([ceiling : Nat, budget : [bytes : Nat, units : Nat]])]
    /\ config.status = "Ok" => InRange(config.caps)

\* The buffer msquic is handed has the payload's length: no accepted configuration
\* lets a payload through whose length wraps around in the u32 of a BufferRef
\* (validate, classify_send_len and SendBuffer::new agree).
LengthExact == sent.class = "NonEmpty" => sent.native = sent.len /\ sent.native # 0

\* Every stream, opened or accepted, has the budgets its own connection was
\* constructed with, whatever the builder and other connections did since.
CapsThreaded ==
    \A c \in Conns : \A i \in DOMAIN streams[c] : streams[c][i] = StreamCtx(asked[c].caps)

\* A payload is refused exactly when it is longer than the ceiling its
\* connection was constructed with.
CeilingExact ==
    sent.class # "none" =>
        (sent.class = "Oversized") <=> (sent.len > asked[sent.conn].caps.send)

\* No stream starts out paused: a budget of zero bytes or units would pend the
\* first indication with nothing to drain (RecvHalf's assumption on its limits).
BudgetsUsable ==
    \A c \in Conns : \A i \in DOMAIN streams[c] :
        streams[c][i].budget.bytes > 0 /\ streams[c][i].budget.units > 0
=============================================================================
