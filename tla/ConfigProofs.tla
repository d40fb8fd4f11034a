---------------------------- MODULE ConfigProofs -----------------------------
(* What Config's runs check, for every u32::MAX, every default in range and any *)
(* number of connections and streams.                                          *)
EXTENDS Config, TLAPS

StreamCaps == [ceiling : Nat, budget : [bytes : Nat, units : Nat]]

\* What the send and the stream invariants rest on: a connection was constructed
\* with caps in range, both its carriers hold exactly those, and the last send was
\* classified against them.
CarriersAgree ==
    \A c \in Conns :
        asked[c] # NoConfig => /\ InRange(asked[c].caps)
                               /\ carrier[c].handle = asked[c].caps
                               /\ carrier[c].ctx = asked[c].caps

StreamsConstructed == \A c \in Conns : streams[c] # <<>> => asked[c] # NoConfig

SentShape ==
    sent.class # "none" =>
        /\ sent.conn \in Conns /\ sent.len \in Nat
        /\ asked[sent.conn] # NoConfig
        /\ sent.class = ClassifySendLen(sent.len, asked[sent.conn].caps.send)
        /\ sent.native = (IF sent.class = "NonEmpty" THEN AsU32(sent.len) ELSE 0)

IInv == TypeOK /\ CarriersAgree /\ StreamsConstructed /\ CapsThreaded /\ SentShape

\* An H3Config is only ever built from caps in range (config.rs validate).
LEMMA ValidateSound ==
    ASSUME NEW caps \in Caps
    PROVE  /\ Validate(caps) \in [status : {"Ok", "SendSize", "RecvBytes", "RecvUnits"}, caps : Caps]
           /\ Validate(caps).status = "Ok" => InRange(Validate(caps).caps)
  BY ConfigAssumption DEF Validate, Ok, Err, InRange, Caps

\* A stream's context has the type of its caps (stream_ctx_channel_pre_id).
LEMMA StreamCtxType == ASSUME NEW caps \in Caps PROVE StreamCtx(caps) \in StreamCaps
  BY DEF StreamCtx, StreamCaps, Caps

\* A length below u32::MAX survives the cast to u32 (BufferRef::from).
LEMMA NoTruncation == ASSUME NEW len \in Nat, len < U32Max PROVE AsU32(len) = len
  BY ConfigAssumption, SMT DEF AsU32

\* The invariant holds when nothing has been configured yet.
LEMMA InitInvariant == Init => IInv
  BY ConfigAssumption DEF Init, IInv, TypeOK, CarriersAgree, StreamsConstructed, CapsThreaded,
     SentShape, Ok, Err, NoConfig, NothingSent, InRange, Caps

\* Every operation of the builder, of a connection and of a stream keeps it.
LEMMA NextInvariant == IInv /\ [Next]_vars => IInv'
<1> SUFFICES ASSUME IInv, [Next]_vars PROVE IInv'
  OBVIOUS
<1> USE ConfigAssumption DEF IInv
<1>1. CASE Override
  BY <1>1 DEF Override, WithMaxSendBytes, WithMaxRecvBytes, WithMaxRecvUnits, TypeOK,
     CarriersAgree, StreamsConstructed, CapsThreaded, SentShape, connVars, Caps
<1>2. CASE Build
  BY <1>2, ValidateSound DEF Build, TypeOK, CarriersAgree, StreamsConstructed, CapsThreaded,
     SentShape, connVars
<1>3. ASSUME NEW s \in SendCaps, NEW b \in ByteCaps, NEW u \in UnitCaps, TryNew(s, b, u)
      PROVE  IInv'
  <2>1. [send |-> s, bytes |-> b, units |-> u] \in Caps
    BY DEF Caps
  <2> QED
    BY <1>3, <2>1, ValidateSound DEF TryNew, TypeOK, CarriersAgree, StreamsConstructed,
       CapsThreaded, SentShape, connVars
<1>4. ASSUME NEW c \in Conns, Construct(c) PROVE IInv'
  <2>1. PICK caps \in Caps : InRange(caps) /\ ConstructWith(c, caps)
    BY <1>4 DEF Construct, TypeOK
  <2>2. streams[c] = <<>> /\ asked[c] = NoConfig
    BY <2>1 DEF ConstructWith, StreamsConstructed
  <2>3. asked'[c] = Ok(caps) /\ Ok(caps) # NoConfig
    BY <2>1 DEF ConstructWith, TypeOK, Ok, Err, NoConfig
  <2>4. TypeOK'
    BY <2>1 DEF ConstructWith, TypeOK, Ok
  <2>5. CarriersAgree'
    BY <2>1 DEF ConstructWith, CarriersAgree, TypeOK, Ok
  <2>6. StreamsConstructed' /\ CapsThreaded'
    BY <2>1, <2>2 DEF ConstructWith, StreamsConstructed, CapsThreaded, TypeOK
  <2>7. SentShape'
    BY <2>1, <2>2 DEF ConstructWith, SentShape, TypeOK
  <2> QED
    BY <2>4, <2>5, <2>6, <2>7
<1>5. ASSUME NEW c \in Conns, OpenStream(c) \/ AcceptStream(c) PROVE IInv'
  <2> DEFINE caps == asked[c].caps
  <2>1. caps \in Caps /\ NewStream(c, caps)
    BY <1>5 DEF OpenStream, AcceptStream, NewStream, CarriersAgree, TypeOK
  <2>2. StreamCtx(caps) \in StreamCaps
    BY <2>1, StreamCtxType
  <2>3. streams[c] \in Seq(StreamCaps)
    BY DEF TypeOK, StreamCaps
  <2> HIDE DEF caps
  <2>4. TypeOK'
    BY <2>1, <2>2, <2>3 DEF NewStream, TypeOK, StreamCaps, connVars
  <2>5. CarriersAgree' /\ StreamsConstructed' /\ SentShape'
    BY <2>1 DEF NewStream, CarriersAgree, StreamsConstructed, SentShape, TypeOK, connVars
  <2>6. CapsThreaded'
    <3> SUFFICES ASSUME NEW d \in Conns, NEW i \in DOMAIN streams'[d]
                 PROVE  streams'[d][i] = StreamCtx(asked[d].caps)
      BY <2>1 DEF CapsThreaded, NewStream, connVars
    <3>1. CASE d # c
      BY <2>1, <3>1 DEF NewStream, CapsThreaded, TypeOK
    <3>2. CASE d = c
      <4>1. streams'[c] = Append(streams[c], StreamCtx(caps))
        BY <2>1 DEF NewStream, TypeOK
      <4>2. i \in 1..Len(streams[c]) + 1
        BY <4>1, <3>2, <2>2, <2>3
      <4>3. CASE i = Len(streams[c]) + 1
        BY <4>1, <4>3, <3>2, <2>2, <2>3 DEF caps
      <4>4. CASE i \in 1..Len(streams[c])
        BY <4>1, <4>4, <3>2, <2>2, <2>3 DEF CapsThreaded
      <4> QED
        BY <4>2, <4>3, <4>4, <2>3
    <3> QED
      BY <3>1, <3>2
  <2> QED
    BY <2>4, <2>5, <2>6
<1>6. ASSUME NEW c \in Conns, NEW i \in DOMAIN streams[c], NEW len \in Lens, SendData(c, i, len)
      PROVE  IInv'
  <2>1. streams[c][i] = StreamCtx(asked[c].caps) /\ asked[c] # NoConfig
    BY DEF CapsThreaded, StreamsConstructed, TypeOK
  <2>2. streams[c][i].ceiling = asked[c].caps.send
    BY <2>1 DEF StreamCtx
  <2>3. SentShape'
    BY <1>6, <2>1, <2>2 DEF SendData, SentShape, connVars
  <2> QED
    BY <1>6, <2>3 DEF SendData, TypeOK, CarriersAgree, StreamsConstructed, CapsThreaded, connVars
<1>7. CASE UNCHANGED vars
  BY <1>7 DEF vars, connVars, TypeOK, CarriersAgree, StreamsConstructed, CapsThreaded, SentShape
<1> QED
  BY <1>1, <1>2, <1>3, <1>4, <1>5, <1>6, <1>7 DEF Next

\* Every behaviour of the module keeps the invariant.
LEMMA Invariant == Spec => []IInv
  BY InitInvariant, NextInvariant, PTL DEF Spec

\* Whatever the application configures, build and try_new only return caps in range
\* and every variable keeps its type.
THEOREM TypeCorrect == Spec => []TypeOK
  BY Invariant, PTL DEF IInv

\* No accepted configuration lets a payload through whose length the u32 of a
\* BufferRef cannot carry, for every width of that length.
THEOREM LengthExactAlways == Spec => []LengthExact
<1>1. IInv => LengthExact
  <2> SUFFICES ASSUME IInv, sent.class = "NonEmpty" PROVE sent.native = sent.len /\ sent.native # 0
    BY DEF LengthExact
  <2> DEFINE ceiling == asked[sent.conn].caps.send
  <2>1. /\ sent.len \in Nat /\ sent.native = AsU32(sent.len)
        /\ ClassifySendLen(sent.len, ceiling) = "NonEmpty"
    BY DEF IInv, SentShape
  <2>2. ceiling \in Nat /\ ceiling < U32Max
    BY DEF IInv, SentShape, CarriersAgree, InRange, TypeOK, Caps
  <2>3. sent.len # 0 /\ sent.len < U32Max
    BY <2>1, <2>2, ConfigAssumption DEF ClassifySendLen
  <2> QED
    BY <2>1, <2>3, NoTruncation
<1> QED
  BY <1>1, Invariant, PTL

\* Every stream works with the budgets its own connection was constructed with.
THEOREM CapsThreadedAlways == Spec => []CapsThreaded
  BY Invariant, PTL DEF IInv

\* A payload is refused exactly when it exceeds its connection's ceiling.
THEOREM CeilingExactAlways == Spec => []CeilingExact
<1>1. IInv => CeilingExact
  <2> SUFFICES ASSUME IInv, sent.class # "none"
               PROVE  (sent.class = "Oversized") <=> (sent.len > asked[sent.conn].caps.send)
    BY DEF CeilingExact
  <2> DEFINE ceiling == asked[sent.conn].caps.send
  <2>1. sent.len \in Nat /\ sent.class = ClassifySendLen(sent.len, ceiling)
    BY DEF IInv, SentShape
  <2>2. ceiling \in Nat
    BY DEF IInv, SentShape, TypeOK, Caps
  <2> HIDE DEF ceiling
  <2>3. (sent.class = "Oversized") <=> (sent.len > ceiling)
    BY <2>1, <2>2 DEF ClassifySendLen
  <2> QED
    BY <2>3 DEF ceiling
<1> QED
  BY <1>1, Invariant, PTL

\* No stream starts out with a budget that can never be drained.
THEOREM BudgetsUsableAlways == Spec => []BudgetsUsable
<1>1. IInv => BudgetsUsable
  <2> SUFFICES ASSUME IInv, NEW c \in Conns, NEW i \in DOMAIN streams[c]
               PROVE  streams[c][i].budget.bytes > 0 /\ streams[c][i].budget.units > 0
    BY DEF BudgetsUsable
  <2>1. streams[c][i] = StreamCtx(asked[c].caps) /\ asked[c] # NoConfig
    BY DEF IInv, CapsThreaded, StreamsConstructed, TypeOK
  <2>2. InRange(asked[c].caps) /\ asked[c].caps \in Caps
    BY <2>1 DEF IInv, CarriersAgree, TypeOK
  <2> QED
    BY <2>1, <2>2 DEF StreamCtx, InRange, Caps
<1> QED
  BY <1>1, Invariant, PTL
=============================================================================
