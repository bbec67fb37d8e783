-------------------------- MODULE ExnovaFeedProofs --------------------------
(***************************************************************************)
(* Theorems about ExnovaFeed for any number of windows and of pushes for   *)
(* each, any wire, handshake, cap and overflow, and any number of lost     *)
(* connections.                                                            *)
(***************************************************************************)
EXTENDS ExnovaFeed, FiniteSetTheorems, TLAPS

-----------------------------------------------------------------------------
(* Connections. *)

\* A connection is opened only where none is held: after the first login, and
\* after the disconnect of a reconnect.
SocketInv ==
    /\ transport \in BOOLEAN
    /\ NoOrphanSocket
    /\ pc \in {"LOGIN", "OPEN"} => ~transport

\* disconnect leaves no transport and no socket, whatever the flag said.
LEMMA DisconnectCloses ==
    ASSUME SocketInv, disconnect
    PROVE  transport' = FALSE /\ sockets' = 0
<1>1. CASE transport
  <2>1. sockets = 1 /\ sockets' = sockets - 1
    BY <1>1, Zenon DEF SocketInv, NoOrphanSocket, disconnect
  <2> QED BY <2>1 DEF disconnect
<1>2. CASE ~transport
  BY <1>2, Zenon DEF SocketInv, NoOrphanSocket, disconnect
<1> QED BY <1>1, <1>2

\* An exception that leaves the generator keeps the sockets: the `finally' closes the one there is.
LEMMA SocketsRaise ==
    ASSUME SocketInv, NEW error, Raise(error) \/ RaiseOnRead(error)
    PROVE  SocketInv'
<1>1. disconnect \/ UNCHANGED <<transport, sockets>>
  BY DEF Raise, RaiseOnRead, linkVars
<1>2. transport' \in BOOLEAN /\ NoOrphanSocket'
  <2>1. CASE disconnect
    BY <2>1, DisconnectCloses, Zenon DEF NoOrphanSocket
  <2>2. CASE UNCHANGED <<transport, sockets>>
    BY <2>2 DEF SocketInv, NoOrphanSocket
  <2> QED BY <1>1, <2>1, <2>2
<1>3. pc' = "ENDED"
  BY DEF Raise, RaiseOnRead, Unwound
<1> QED BY <1>2, <1>3 DEF SocketInv

\* A socket is opened only where there is none.
LEMMA SocketOpens ==
    ASSUME SocketInv, pc = "OPEN", OpenSocket
    PROVE  transport' \in BOOLEAN /\ NoOrphanSocket'
<1>1. sockets = 0
  BY Zenon DEF SocketInv, NoOrphanSocket
<1>2. transport' = TRUE /\ sockets' = 1
  BY <1>1 DEF OpenSocket
<1> QED BY <1>2, Zenon DEF NoOrphanSocket

\* The server opens and closes nothing.
LEMMA SocketsServer ==
    ASSUME SocketInv, ServerStep
    PROVE  SocketInv'
<1>1. UNCHANGED <<transport, sockets>>
  BY DEF ServerStep, Server, Advance, Stall, SendNoise, AnswerAuthenticate, Cut
<1> QED BY <1>1 DEF SocketInv, NoOrphanSocket, ServerStep, clientVars

\* The first connect keeps the sockets, with every way it can fail,
LEMMA SocketsConnect ==
    ASSUME SocketInv, Connect
    PROVE  SocketInv'
<1>1. CASE Login
  BY <1>1 DEF Login, SocketInv, NoOrphanSocket, linkVars
<1>2. CASE LoginFails
  BY <1>2, SocketsRaise DEF LoginFails
<1>3. CASE OpenTransport
  <2>1. pc = "OPEN" /\ pc' = "AUTH" /\ OpenSocket
    BY <1>3 DEF OpenTransport
  <2> QED BY <2>1, SocketOpens DEF SocketInv
<1>4. CASE OpenFails
  <2>1. pc' = "ENDED" /\ pc = "OPEN"
    BY <1>4 DEF OpenFails, Unwound
  <2>2. CASE OpenSocket
    BY <2>1, <2>2, SocketOpens DEF SocketInv
  <2>3. CASE UNCHANGED linkVars
    BY <2>1, <2>3 DEF SocketInv, NoOrphanSocket, linkVars
  <2> QED BY <1>4, <2>2, <2>3 DEF OpenFails
<1>5. CASE Authenticated
  BY <1>5 DEF Authenticated, Received, SocketInv, NoOrphanSocket
<1>6. CASE SkipMessage
  BY <1>6 DEF SkipMessage, Received, SocketInv, NoOrphanSocket
<1>7. CASE AuthenticationFails
  BY <1>7, SocketsRaise DEF AuthenticationFails
<1>8. CASE HandshakeLost
  BY <1>8 DEF HandshakeLost, Lost, Unwound, SocketInv, NoOrphanSocket
<1> QED
  BY <1>1, <1>2, <1>3, <1>4, <1>5, <1>6, <1>7, <1>8 DEF Connect

\* and so does the stream, with every way its reconnect can fail.
LEMMA SocketsStream ==
    ASSUME SocketInv, Stream
    PROVE  SocketInv'
<1>1. CASE SubscribeCandles
  BY <1>1 DEF SubscribeCandles, Subscribed, SocketInv, NoOrphanSocket
<1>2. CASE SubscribeFails \/ BackoffOverflows \/ SessionRaises
  BY <1>2, SocketsRaise DEF SubscribeFails, BackoffOverflows, SessionRaises
<1>3. CASE ReceiveCandle
  BY <1>3 DEF ReceiveCandle, Buffer, Received, SocketInv, NoOrphanSocket
<1>4. CASE ReceiveTimeSync
  BY <1>4 DEF ReceiveTimeSync, Received, SocketInv, NoOrphanSocket
<1>5. CASE ReceiveOther
  BY <1>5 DEF ReceiveOther, Received, clientVars, SocketInv, NoOrphanSocket
<1>6. CASE ReceiveMalformed
  BY <1>6, SocketsRaise DEF ReceiveMalformed
<1>7. CASE ReceiveLost
  BY <1>7 DEF ReceiveLost, Lost, AnnounceGap, SocketInv, NoOrphanSocket
<1>8. CASE Reconnect
  <2>1. disconnect /\ pc' = "LOGIN"
    BY <1>8 DEF Reconnect
  <2> QED BY <2>1, DisconnectCloses, Zenon DEF SocketInv, NoOrphanSocket
<1>9. CASE Resume
  BY <1>9 DEF Resume, linkVars, SocketInv, NoOrphanSocket
<1> QED
  BY <1>1, <1>2, <1>3, <1>4, <1>5, <1>6, <1>7, <1>8, <1>9 DEF Stream

\* The invariant behind the theorem that follows and the type of `sockets':
\* connect, disconnect and every exception keep _transport and connections in step.
THEOREM SocketInvariance == Spec => []SocketInv
<1>1. Init => SocketInv
  BY DEF Init, LinkInit, SocketInv, NoOrphanSocket
<1>2. SocketInv /\ [Next]_vars => SocketInv'
  <2> SUFFICES ASSUME SocketInv, [Next]_vars PROVE SocketInv'
    OBVIOUS
  <2>1. CASE Client
    BY <2>1, SocketsConnect, SocketsStream DEF Client
  <2>2. CASE Interrupt
    BY <2>2, SocketsRaise DEF Interrupt
  <2>3. CASE ServerStep
    BY <2>3, SocketsServer
  <2>4. CASE UNCHANGED vars
    BY <2>4 DEF vars, linkVars, clientVars, SocketInv, NoOrphanSocket
  <2> QED BY <2>1, <2>2, <2>3, <2>4 DEF Next
<1> QED BY <1>1, <1>2, PTL DEF Spec

\* The client never holds a connection it no longer refers to: however its
\* handshakes and reconnects fail, and wherever it is interrupted, it has one
\* connection open if _transport names one, and none otherwise.
THEOREM NeverOrphanSocket == Spec => []NoOrphanSocket
<1>1. SocketInv => NoOrphanSocket
  BY DEF SocketInv
<1> QED BY <1>1, SocketInvariance, PTL

-----------------------------------------------------------------------------
(* Overflow. *)

Items == CandleItems \cup {Gap}

\* The stream ends with a gap for each attempt counted.
AttemptInv ==
    /\ stream \in Seq(Items)
    /\ pending \in CandleItems \cup {None}
    /\ attempt \in 0..Len(stream)
    /\ \A i \in Len(stream) - attempt + 1..Len(stream) : stream[i] = Gap
    /\ pc # "ENDED" => exit = None
    /\ OverflowNeedsSilence

\* No exception yet is not an overflow.
LEMMA NoneIsNoError == None # "OverflowError"
BY FeedConstants DEF Exits

\* A step that touches neither attempts nor stream and raises nothing.
LEMMA AttemptsGoOn ==
    ASSUME AttemptInv, UNCHANGED <<attempt, pending, stream, exit>>, pc # "ENDED"
    PROVE  AttemptInv'
<1>1. exit = None
  BY DEF AttemptInv
<1> QED BY <1>1, NoneIsNoError DEF AttemptInv, OverflowNeedsSilence

\* Any exception but that of the overflow.
LEMMA AttemptsEnd ==
    ASSUME AttemptInv, Unwound, exit' # "OverflowError"
    PROVE  AttemptInv'
BY DEF AttemptInv, OverflowNeedsSilence, Unwound

\* The overflow itself: the counter has reached FloatBits, and the stream ends with as many gaps.
LEMMA AttemptsOverflow ==
    ASSUME AttemptInv, BackoffOverflows
    PROVE  AttemptInv'
<1>1. attempt >= FloatBits /\ Unwound
  BY DEF BackoffOverflows, Overflows, Raise
<1>2. FloatBits \in Nat
  BY BackoffConstants
<1>3. /\ Len(stream) >= FloatBits
      /\ \A i \in Len(stream) - FloatBits + 1..Len(stream) : stream[i] = Gap
  BY <1>1, <1>2 DEF AttemptInv
<1> QED BY <1>1, <1>3 DEF AttemptInv, OverflowNeedsSilence, Unwound

\* A candle that is yielded resets the counter, so no gap need follow it yet.
LEMMA AttemptsReceive ==
    ASSUME AttemptInv, ReceiveCandle
    PROVE  AttemptInv'
<1>1. PICK m \in Messages : m.kind = "candle" /\ Buffer(m)
  BY DEF ReceiveCandle
<1>2. m \in CandleItems
  BY <1>1, LinkConstants DEF Messages, CandleItems
<1>3. attempt' = 0 /\ exit' = exit /\ pc = "RECEIVE"
  BY DEF ReceiveCandle, Heard
<1>4. stream' \in Seq(Items) /\ pending' \in CandleItems
  BY <1>1, <1>2 DEF Buffer, AttemptInv, Items
<1>5. exit = None
  BY <1>3 DEF AttemptInv
<1> QED BY <1>3, <1>4, <1>5, NoneIsNoError DEF AttemptInv, OverflowNeedsSilence

\* A lost connection adds one to the counter and one gap to the stream.
LEMMA AttemptsLost ==
    ASSUME AttemptInv, ReceiveLost
    PROVE  AttemptInv'
<1>1. attempt' = attempt + 1 /\ pending' = None /\ stream' = Append(stream, Gap)
  BY DEF ReceiveLost, AnnounceGap
<1>2. exit = None /\ exit' = exit
  BY DEF ReceiveLost, AttemptInv
<1>3. /\ stream' \in Seq(Items)
      /\ Len(stream') = Len(stream) + 1
      /\ \A i \in 1..Len(stream) : stream'[i] = stream[i]
      /\ stream'[Len(stream) + 1] = Gap
  BY <1>1 DEF AttemptInv, Items
<1>4. \A i \in Len(stream') - attempt' + 1..Len(stream') : stream'[i] = Gap
  BY <1>1, <1>3 DEF AttemptInv
<1> QED BY <1>1, <1>2, <1>3, <1>4, NoneIsNoError DEF AttemptInv, OverflowNeedsSilence

\* The first connect counts nothing,
LEMMA AttemptsConnect ==
    ASSUME AttemptInv, Connect
    PROVE  AttemptInv'
<1>1. CASE Login \/ OpenTransport \/ Authenticated \/ SkipMessage
  BY <1>1, AttemptsGoOn DEF Login, OpenTransport, Authenticated, SkipMessage
<1>2. CASE LoginFails \/ OpenFails \/ AuthenticationFails \/ HandshakeLost
  BY <1>2, AttemptsEnd DEF LoginFails, OpenFails, AuthenticationFails, HandshakeLost,
                           Raise, RaiseOnRead
<1> QED BY <1>1, <1>2 DEF Connect

\* and every step of the stream keeps the counter at most the gaps the stream ends with.
LEMMA AttemptsStream ==
    ASSUME AttemptInv, Stream
    PROVE  AttemptInv'
<1>1. CASE SubscribeCandles \/ Reconnect \/ Resume
  BY <1>1, AttemptsGoOn DEF SubscribeCandles, Reconnect, Resume
<1>2. CASE SubscribeFails \/ ReceiveMalformed \/ SessionRaises
  BY <1>2, AttemptsEnd DEF SubscribeFails, ReceiveMalformed, SessionRaises, Raise, RaiseOnRead
<1>3. CASE ReceiveTimeSync
  <2>1. attempt' = 0 /\ exit = None /\ UNCHANGED <<pending, stream, exit>>
    BY <1>3 DEF ReceiveTimeSync, Heard, AttemptInv
  <2> QED BY <2>1, NoneIsNoError DEF AttemptInv, OverflowNeedsSilence
<1>4. CASE ReceiveOther
  BY <1>4, AttemptsGoOn DEF ReceiveOther, clientVars
<1> QED
  BY <1>1, <1>2, <1>3, <1>4, AttemptsReceive, AttemptsLost, AttemptsOverflow DEF Stream

\* The stream ends with an OverflowError only after FloatBits lost connections
\* in a row, whatever else was received before them.
THEOREM OverflowOnlyAfterSilence == Spec => []OverflowNeedsSilence
<1>1. Init => AttemptInv
  BY NoneIsNoError DEF Init, AttemptInv, OverflowNeedsSilence
<1>2. AttemptInv /\ [Next]_vars => AttemptInv'
  <2> SUFFICES ASSUME AttemptInv, [Next]_vars PROVE AttemptInv'
    OBVIOUS
  <2>1. CASE Client
    BY <2>1, AttemptsConnect, AttemptsStream DEF Client
  <2>2. CASE Interrupt
    BY <2>2, AttemptsEnd DEF Interrupt, Raise
  <2>3. CASE ServerStep \/ UNCHANGED vars
    <3>1. UNCHANGED clientVars
      BY <2>3 DEF ServerStep, vars
    <3> QED BY <3>1 DEF clientVars, AttemptInv, OverflowNeedsSilence
  <2> QED BY <2>1, <2>2, <2>3 DEF Next
<1>3. AttemptInv => OverflowNeedsSilence
  BY DEF AttemptInv
<1> QED BY <1>1, <1>2, <1>3, PTL DEF Spec

-----------------------------------------------------------------------------
(* Types. *)

\* The powers the backoff takes before its cap.
LEMMA Powers ==
    \A n \in 0..30 : 2^n \in Nat \ {0} /\ 2^(n + 1) = 2 * 2^n
<1> DEFINE P(x) == 2^x
<1>1. /\ P(0) = 1 /\ P(1) = 2 /\ P(2) = 4
      /\ P(3) = 8 /\ P(4) = 16 /\ P(5) = 32
      /\ P(6) = 64 /\ P(7) = 128 /\ P(8) = 256
      /\ P(9) = 512 /\ P(10) = 1024 /\ P(11) = 2048
      /\ P(12) = 4096 /\ P(13) = 8192 /\ P(14) = 16384
      /\ P(15) = 32768 /\ P(16) = 65536 /\ P(17) = 131072
      /\ P(18) = 262144 /\ P(19) = 524288 /\ P(20) = 1048576
      /\ P(21) = 2097152 /\ P(22) = 4194304 /\ P(23) = 8388608
      /\ P(24) = 16777216 /\ P(25) = 33554432 /\ P(26) = 67108864
      /\ P(27) = 134217728 /\ P(28) = 268435456 /\ P(29) = 536870912
      /\ P(30) = 1073741824 /\ P(31) = 2147483648
  BY SMT
<1> HIDE DEF P
<1>2. \A n \in 0..30 : P(n) \in Nat \ {0} /\ P(n + 1) = 2 * P(n)
  BY <1>1, SMT
<1> QED BY <1>2 DEF P

\* The delay is bounded by a positive number of seconds, up to the cap.
LEMMA UpperType == ASSUME NEW n \in Nat PROVE backoff_upper(n) \in 1..CapS
<1>1. CASE n > 30
  BY <1>1, BackoffConstants DEF backoff_upper
<1>2. CASE n \in 0..30
  <2>1. 2^n \in Nat \ {0}
    BY <1>2, Powers
  <2> QED BY <1>2, <2>1, BackoffConstants DEF backoff_upper
<1> QED BY <1>1, <1>2

\* Only a GapMarker counts as a gap.
LEMMA GapsCounted ==
    ASSUME stream \in Seq(Items), NEW item \in Items, stream' = Append(stream, item)
    PROVE  Gaps \in Nat /\ Gaps' = IF item = Gap THEN Gaps + 1 ELSE Gaps
<1> DEFINE S == {i \in DOMAIN stream : stream[i] = Gap}
           n == Len(stream) + 1
<1>1. IsFiniteSet(S)
  <2>1. IsFiniteSet(1..Len(stream))
    BY FS_Interval
  <2> QED BY <2>1, FS_Subset
<1>2. {i \in DOMAIN stream' : stream'[i] = Gap} = IF item = Gap THEN S \cup {n} ELSE S
  OBVIOUS
<1>3. n \notin S
  OBVIOUS
<1> HIDE DEF S, n
<1>4. Gaps' = Cardinality(IF item = Gap THEN S \cup {n} ELSE S) /\ Gaps = Cardinality(S)
  BY <1>2 DEF Gaps, S
<1> QED BY <1>1, <1>3, <1>4, FS_AddElement, FS_CardinalityType

\* The next push slot: the next one of this window, or the first of the next.
LEMMA LaterIs ==
    ASSUME LinkTypeOK, TimeLeft
    PROVE  /\ Later \in [window: 0..LastWindow, tick: 1..Ticks]
           /\ Later.window \in {now.window, now.window + 1}
           /\ Later.window = now.window + 1 <=> Later.tick = 1
<1>1. now \in [window: 0..LastWindow, tick: 1..Ticks]
  BY DEF LinkTypeOK
<1>2. CASE now.tick < Ticks
  <2>1. Later = [now EXCEPT !.tick = now.tick + 1]
    BY <1>2 DEF Later
  <2>2. Later.window = now.window /\ Later.tick = now.tick + 1
    BY <1>1, <2>1
  <2>3. now.tick + 1 \in 1..Ticks /\ now.tick + 1 # 1
    BY <1>1, <1>2, LinkConstants
  <2> QED BY <1>1, <2>1, <2>2, <2>3
<1>3. CASE ~(now.tick < Ticks)
  <2>1. Later = [window |-> now.window + 1, tick |-> 1]
    BY <1>3 DEF Later
  <2>2. now.window + 1 \in 0..LastWindow /\ 1 \in 1..Ticks
    BY <1>1, <1>3, LinkConstants DEF TimeLeft
  <2> QED BY <1>1, <2>1, <2>2
<1> QED BY <1>2, <1>3

\* What one step does to the link.
LEMMA LinkTypes ==
    ASSUME LinkTypeOK, sockets' \in Nat,
           \/ OpenSocket \/ disconnect \/ Subscribed \/ Lost \/ UNCHANGED linkVars
           \/ (\E m \in Messages : Received(m))
           \/ (wire # << >> /\ wire' = Tail(wire)
               /\ UNCHANGED <<serverTime, peer, transport, sockets>>)
           \/ Server
    PROVE  LinkTypeOK'
<1>1. ASSUME wire # << >>, wire' = Tail(wire) PROVE wire' \in Seq(Messages) /\ Len(wire') <= MaxWire
  BY <1>1, LinkConstants DEF LinkTypeOK
<1>2. NoPush \in [0..LastWindow -> 0..Ticks] /\ << >> \in Seq(Messages) /\ Len(<< >>) <= MaxWire
  BY LinkConstants DEF NoPush
<1>3. CASE OpenSocket
  BY <1>2, <1>3 DEF OpenSocket, LinkTypeOK, serverTime
<1>4. CASE disconnect
  BY <1>2, <1>4 DEF disconnect, LinkTypeOK
<1>5. CASE Subscribed
  BY <1>5 DEF Subscribed, LinkTypeOK, serverTime
<1>6. CASE Lost
  BY <1>2, <1>6 DEF Lost, LinkTypeOK
<1>7. CASE UNCHANGED linkVars
  BY <1>7 DEF LinkTypeOK, linkVars, serverTime
<1>8. CASE \E m \in Messages : Received(m)
  BY <1>1, <1>8 DEF Received, LinkTypeOK, serverTime
<1>9. CASE wire # << >> /\ wire' = Tail(wire)
           /\ UNCHANGED <<serverTime, peer, transport, sockets>>
  BY <1>1, <1>9 DEF LinkTypeOK, serverTime
<1>10. CASE Server
  <2>1. ASSUME NEW m \in Messages, Send(m)
        PROVE  wire' \in Seq(Messages) /\ Len(wire') <= MaxWire
    BY <2>1, LinkConstants DEF Send, LinkTypeOK
  <2>2. ASSUME TimeLeft PROVE Later \in [window: 0..LastWindow, tick: 1..Ticks]
    BY <2>2, LaterIs
  <2>3. CASE Advance
    <3>1. Later \in [window: 0..LastWindow, tick: 1..Ticks]
      BY <2>2, <2>3 DEF Advance
    <3>2. [kind |-> "candle", window |-> Later.window, tick |-> Later.tick] \in Messages
      BY <3>1 DEF Messages
    <3>3. /\ wire' \in Seq(Messages) /\ Len(wire') <= MaxWire
          /\ lastPush' \in [0..LastWindow -> 0..Ticks]
      BY <2>1, <2>3, <3>1, <3>2 DEF Advance, LinkTypeOK
    <3>4. now' = Later /\ silent' \subseteq silent /\ UNCHANGED <<peer, transport, sockets>>
      BY <2>3 DEF Advance
    <3> QED BY <3>1, <3>3, <3>4 DEF LinkTypeOK
  <2>4. CASE Stall
    BY <2>2, <2>4 DEF Stall, LinkTypeOK
  <2>5. CASE SendNoise
    <3>1. \A kind \in Noise : [kind |-> kind] \in Messages
      BY DEF Messages
    <3> QED BY <2>1, <2>5, <3>1 DEF SendNoise, LinkTypeOK, serverTime
  <2>6. CASE AnswerAuthenticate
    <3>1. \A kind \in {"authenticated", "rejected"} : [kind |-> kind] \in Messages
      BY DEF Messages
    <3> QED BY <2>1, <2>6, <3>1 DEF AnswerAuthenticate, LinkTypeOK, serverTime
  <2>7. CASE Cut
    <3>1. \A n \in 0..Len(wire) : /\ SubSeq(wire, 1, n) \in Seq(Messages)
                                  /\ Len(SubSeq(wire, 1, n)) <= MaxWire
      BY LinkConstants DEF LinkTypeOK
    <3> QED BY <2>7, <3>1 DEF Cut, LinkTypeOK, serverTime
  <2> QED BY <1>10, <2>3, <2>4, <2>5, <2>6, <2>7 DEF Server
<1> QED BY <1>3, <1>4, <1>5, <1>6, <1>7, <1>8, <1>9, <1>10

\* A connection lost while streaming is one more GapMarker in the stream, and
\* one more attempt at most.
CountsInv == attempt <= Gaps /\ Gaps \in 0..MaxGaps

TypeInv == TypeOK /\ CountsInv

\* The client's part of TypeOK.
ClientTypeOK ==
    /\ pc \in {"LOGIN", "OPEN", "AUTH", "SUBSCRIBE", "RECEIVE", "YIELDED", "GAP", "ENDED"}
    /\ connected \in BOOLEAN /\ inStream \in BOOLEAN /\ heard \in BOOLEAN
    /\ authReads \in 0..MAX_AUTH_SKIP
    /\ attempt \in 0..MaxGaps
    /\ pending \in CandleItems \cup {None}
    /\ stream \in Seq(Items)
    /\ upper \in 0..CapS
    /\ exit \in Exits \cup {None}

\* The type invariant in two halves, the link's and the client's.
LEMMA TypeParts == TypeOK <=> LinkTypeOK /\ ClientTypeOK
BY DEF TypeOK, ClientTypeOK, Items

\* The number of sockets is a natural number; the theorem about them says which.
LEMMA SocketsCounted == ASSUME SocketInv PROVE sockets \in Nat
BY DEF SocketInv, NoOrphanSocket

\* Leaving the generator keeps the client's types.
LEMMA TypesUnwind ==
    ASSUME TypeInv, Unwound, exit' \in Exits
    PROVE  ClientTypeOK' /\ CountsInv'
<1>1. Gaps' = Gaps /\ Gaps \in 0..MaxGaps
  BY DEF Unwound, Gaps, TypeInv, CountsInv
<1>2. ClientTypeOK
  BY TypeParts DEF TypeInv
<1>3. CapS \in Nat /\ MAX_AUTH_SKIP \in Nat /\ MaxGaps \in Nat
  BY BackoffConstants, FeedConstants, SMT
<1>4. /\ pc' = "ENDED" /\ connected' = FALSE /\ heard' = FALSE
      /\ authReads' = 0 /\ attempt' = 0 /\ upper' = 0 /\ pending' = None
      /\ inStream' = inStream /\ stream' = stream
  BY DEF Unwound
<1>5. connected' \in BOOLEAN /\ heard' \in BOOLEAN /\ inStream' \in BOOLEAN
  BY <1>2, <1>4, Zenon DEF ClientTypeOK
<1>6. authReads' \in 0..MAX_AUTH_SKIP /\ attempt' \in 0..MaxGaps /\ upper' \in 0..CapS
  BY <1>3, <1>4
<1>7. ClientTypeOK'
  BY <1>2, <1>4, <1>5, <1>6 DEF ClientTypeOK
<1>8. CountsInv'
  BY <1>1, <1>4 DEF CountsInv
<1> QED BY <1>7, <1>8

\* An exception keeps the types, with what is left of the link.
LEMMA TypesRaise ==
    ASSUME TypeInv, NEW error \in Exits, Raise(error) \/ (wire # << >> /\ RaiseOnRead(error)),
           sockets' \in Nat
    PROVE  TypeInv'
<1>1. Unwound /\ exit' \in Exits
  BY DEF Raise, RaiseOnRead
<1>2. LinkTypeOK'
  <2>1. \/ disconnect \/ UNCHANGED linkVars
        \/ (wire # << >> /\ wire' = Tail(wire)
            /\ UNCHANGED <<serverTime, peer, transport, sockets>>)
    BY DEF Raise, RaiseOnRead
  <2> QED BY <2>1, LinkTypes, TypeParts DEF TypeInv
<1>3. ClientTypeOK' /\ CountsInv'
  BY <1>1, TypesUnwind
<1> QED BY <1>2, <1>3 DEF TypeInv, TypeOK, ClientTypeOK, Items

\* The server's pushes, noise, silence and death keep the types,
LEMMA TypesServer ==
    ASSUME TypeInv, ServerStep, sockets' \in Nat
    PROVE  TypeInv'
<1>1. LinkTypeOK'
  BY LinkTypes, TypeParts DEF ServerStep, TypeInv
<1>2. ClientTypeOK' /\ CountsInv'
  BY TypeParts DEF ServerStep, clientVars, TypeInv, ClientTypeOK, CountsInv, Gaps
<1> QED BY <1>1, <1>2 DEF TypeInv, TypeOK, ClientTypeOK, Items

\* so does the first connect,
LEMMA TypesConnect ==
    ASSUME TypeInv, Connect, sockets' \in Nat
    PROVE  TypeInv'
<1> USE DEF ClientTypeOK, CountsInv
<1>1. LinkTypeOK /\ ClientTypeOK /\ CountsInv
  BY TypeParts DEF TypeInv
<1>2. MAX_AUTH_SKIP \in Nat
  BY FeedConstants
<1>3. CASE Login
  BY <1>1, <1>3, LinkTypes DEF Login, Gaps, TypeInv, TypeOK, Items
<1>4. CASE LoginFails \/ AuthenticationFails
  <2>1. "LoginError" \in Exits /\ "AuthenticationError" \in Exits
    BY DEF Exits
  <2> QED BY <1>4, <2>1, TypesRaise DEF LoginFails, AuthenticationFails
<1>5. CASE OpenTransport
  <2>1. LinkTypeOK'
    BY <1>1, <1>5, LinkTypes DEF OpenTransport
  <2> QED BY <1>1, <1>2, <1>5, <2>1 DEF OpenTransport, Gaps, TypeInv, TypeOK, Items
<1>6. CASE OpenFails \/ HandshakeLost
  <2>1. Unwound /\ exit' \in Exits /\ (OpenSocket \/ Lost \/ UNCHANGED linkVars)
    BY <1>6 DEF OpenFails, HandshakeLost, Exits
  <2>2. LinkTypeOK'
    BY <1>1, <2>1, LinkTypes
  <2> QED BY <2>1, <2>2, TypesUnwind DEF TypeInv, TypeOK, Items
<1>7. CASE Authenticated
  <2>1. LinkTypeOK'
    BY <1>1, <1>7, LinkTypes DEF Authenticated
  <2> QED BY <1>1, <1>7, <2>1 DEF Authenticated, Gaps, TypeInv, TypeOK, Items
<1>8. CASE SkipMessage
  <2>1. LinkTypeOK'
    BY <1>1, <1>8, LinkTypes DEF SkipMessage
  <2> QED BY <1>1, <1>2, <1>8, <2>1 DEF SkipMessage, Gaps, TypeInv, TypeOK, Items
<1> QED BY <1>3, <1>4, <1>5, <1>6, <1>7, <1>8 DEF Connect

\* A window is closed, or not, by a push.
LEMMA TypesCandle ==
    ASSUME TypeInv, ReceiveCandle, sockets' \in Nat
    PROVE  TypeInv'
<1> USE DEF ClientTypeOK, CountsInv
<1>1. LinkTypeOK /\ ClientTypeOK /\ CountsInv
  BY TypeParts DEF TypeInv
<1>2. PICK m \in Messages : m.kind = "candle" /\ Received(m) /\ Buffer(m)
  BY DEF ReceiveCandle
<1>3. LinkTypeOK'
  BY <1>1, <1>2, LinkTypes
<1>4. m \in CandleItems
  BY <1>2, LinkConstants DEF Messages, CandleItems
<1>5. attempt' = 0 /\ heard' = TRUE /\ UNCHANGED <<connected, inStream, authReads, upper, exit>>
  BY DEF ReceiveCandle, Heard
<1>6. /\ pending' = m
      /\ \/ stream' = stream /\ pc' = pc
         \/ pending # None /\ stream' = Append(stream, pending) /\ pc' = "YIELDED"
  BY <1>2 DEF Buffer
<1>7. stream' \in Seq(Items) /\ Gaps' = Gaps
  <2>1. CASE stream' = stream
    BY <1>1, <2>1 DEF Gaps
  <2>2. CASE pending # None /\ stream' = Append(stream, pending)
    <3>1. pending \in Items /\ pending # Gap
      BY <1>1, <2>2 DEF Items, CandleItems, Gap
    <3> QED BY <1>1, <2>2, <3>1, GapsCounted
  <2> QED BY <1>6, <2>1, <2>2
<1>8. ClientTypeOK' /\ CountsInv'
  <2>1. MaxGaps \in Nat
    BY FeedConstants
  <2> QED BY <1>1, <1>4, <1>5, <1>6, <1>7, <2>1
<1> QED BY <1>3, <1>8 DEF TypeInv, TypeOK, Items

\* a read that fails,
LEMMA TypesLost ==
    ASSUME TypeInv, ReceiveLost, sockets' \in Nat
    PROVE  TypeInv'
<1> USE DEF ClientTypeOK, CountsInv
<1>1. LinkTypeOK /\ ClientTypeOK /\ CountsInv
  BY TypeParts DEF TypeInv
<1>2. LinkTypeOK'
  BY <1>1, LinkTypes DEF ReceiveLost
<1>3. /\ attempt' = attempt + 1 /\ pending' = None /\ stream' = Append(stream, Gap) /\ pc' = "GAP"
      /\ Gaps < MaxGaps
      /\ UNCHANGED <<connected, inStream, authReads, upper, heard, exit>>
  BY DEF ReceiveLost, AnnounceGap
<1>4. stream' \in Seq(Items) /\ Gaps' = Gaps + 1
  BY <1>1, <1>3, GapsCounted DEF Items
<1>5. MaxGaps \in Nat
  BY FeedConstants
<1>6. attempt' \in 0..MaxGaps /\ attempt' <= Gaps' /\ Gaps' \in 0..MaxGaps
  BY <1>1, <1>3, <1>4, <1>5
<1> QED BY <1>1, <1>2, <1>3, <1>4, <1>6 DEF TypeInv, TypeOK, Items

\* and every step of the stream.
LEMMA TypesStream ==
    ASSUME TypeInv, Stream, sockets' \in Nat
    PROVE  TypeInv'
<1> USE DEF ClientTypeOK, CountsInv
<1>1. LinkTypeOK /\ ClientTypeOK /\ CountsInv
  BY TypeParts DEF TypeInv
<1>2. CASE SubscribeCandles
  <2>1. LinkTypeOK'
    BY <1>1, <1>2, LinkTypes DEF SubscribeCandles
  <2> QED BY <1>1, <1>2, <2>1 DEF SubscribeCandles, Gaps, TypeInv, TypeOK, Items
<1>3. CASE SubscribeFails \/ BackoffOverflows \/ SessionRaises \/ ReceiveMalformed
  <2>1. {"TransportError", "OverflowError", "SessionError", "MappingError"} \subseteq Exits
    BY DEF Exits
  <2> QED
    BY <1>3, <2>1, TypesRaise
       DEF SubscribeFails, BackoffOverflows, SessionRaises, ReceiveMalformed
<1>4. CASE ReceiveTimeSync
  <2>1. LinkTypeOK'
    BY <1>1, <1>4, LinkTypes DEF ReceiveTimeSync
  <2>2. MaxGaps \in Nat
    BY FeedConstants
  <2> QED BY <1>1, <1>4, <2>1, <2>2 DEF ReceiveTimeSync, Heard, Gaps, TypeInv, TypeOK, Items
<1>5. CASE ReceiveOther
  <2>1. LinkTypeOK'
    BY <1>1, <1>5, LinkTypes DEF ReceiveOther
  <2> QED BY <1>1, <1>5, <2>1 DEF ReceiveOther, clientVars, Gaps, TypeInv, TypeOK, Items
<1>6. CASE Reconnect
  <2>1. LinkTypeOK'
    BY <1>1, <1>6, LinkTypes DEF Reconnect
  <2>2. upper' \in 0..CapS
    <3>1. attempt \in Nat
      BY <1>1
    <3>2. backoff_upper(attempt) \in 1..CapS
      BY <3>1, UpperType
    <3> QED BY <1>6, <3>2 DEF Reconnect
  <2> QED BY <1>1, <1>6, <2>1, <2>2 DEF Reconnect, Gaps, TypeInv, TypeOK, Items
<1>7. CASE Resume
  <2>1. LinkTypeOK'
    BY <1>1, <1>7, LinkTypes DEF Resume
  <2> QED BY <1>1, <1>7, <2>1 DEF Resume, Gaps, TypeInv, TypeOK, Items
<1> QED
  BY <1>2, <1>3, <1>4, <1>5, <1>6, <1>7, TypesCandle, TypesLost DEF Stream

\* The invariant behind the theorem that follows, and what it needs of a step.
THEOREM FeedInvariance == Spec => [](SocketInv /\ TypeInv)
<1>1. Init => TypeInv
  <2> SUFFICES ASSUME Init PROVE TypeInv
    OBVIOUS
  <2>1. LinkTypeOK
    BY LinkConstants DEF Init, LinkInit, LinkTypeOK, NoPush
  <2>2. Gaps = 0
    <3>1. {i \in DOMAIN stream : stream[i] = Gap} = {}
      BY DEF Init
    <3> QED BY <3>1, FS_EmptySet DEF Gaps
  <2>3. CapS \in Nat /\ MAX_AUTH_SKIP \in Nat /\ MaxGaps \in Nat
    BY BackoffConstants, FeedConstants, SMT
  <2>4. ClientTypeOK
    <3>1. /\ pc = "LOGIN" /\ connected = FALSE /\ inStream = FALSE /\ heard = FALSE
          /\ authReads = 0 /\ attempt = 0 /\ upper = 0 /\ pending = None
          /\ stream = << >> /\ exit = None
      BY DEF Init
    <3>2. connected \in BOOLEAN /\ heard \in BOOLEAN /\ inStream \in BOOLEAN
      BY <3>1, Zenon
    <3>3. authReads \in 0..MAX_AUTH_SKIP /\ attempt \in 0..MaxGaps /\ upper \in 0..CapS
      BY <2>3, <3>1
    <3>4. stream \in Seq(Items)
      BY <3>1
    <3> QED BY <3>1, <3>2, <3>3, <3>4 DEF ClientTypeOK
  <2>5. CountsInv
    BY <2>2, <2>3 DEF Init, CountsInv
  <2> QED BY <2>1, <2>4, <2>5, TypeParts DEF TypeInv
<1>2. TypeInv /\ SocketInv' /\ [Next]_vars => TypeInv'
  <2> SUFFICES ASSUME TypeInv, SocketInv', [Next]_vars PROVE TypeInv'
    OBVIOUS
  <2>1. sockets' \in Nat
    BY DEF SocketInv, NoOrphanSocket
  <2>2. CASE Client
    BY <2>1, <2>2, TypesConnect, TypesStream DEF Client
  <2>3. CASE Interrupt
    <3>1. "KeyboardInterrupt" \in Exits
      BY DEF Exits
    <3> QED BY <2>1, <2>3, <3>1, TypesRaise DEF Interrupt
  <2>4. CASE ServerStep
    BY <2>1, <2>4, TypesServer
  <2>5. CASE UNCHANGED vars
    BY <2>5 DEF vars, linkVars, serverTime, clientVars, TypeInv, TypeOK, LinkTypeOK,
                CountsInv, Gaps
  <2> QED BY <2>2, <2>3, <2>4, <2>5 DEF Next
<1> QED BY <1>1, <1>2, SocketInvariance, PTL DEF Spec

\* Client, connection and server stay in the states the model gives them, with
\* no more attempts than lost connections and no wait above the cap.
THEOREM FeedTypeCorrect == Spec => []TypeOK
<1>1. TypeInv => TypeOK
  BY DEF TypeInv
<1> QED BY <1>1, FeedInvariance, PTL

-----------------------------------------------------------------------------
(* The delays. *)

\* Before a lost connection is counted; in the handler of the loss, attempt is
\* one ahead.
Waits == IF pc = "GAP" THEN attempt - 1 ELSE attempt

\* Nothing was waited for since the server was heard, or the last delay was that
\* of the attempts so far.
DelayInv ==
    IF heard \/ upper = 0 THEN Waits = 0
    ELSE Waits >= 1 /\ upper = backoff_upper(Waits)

\* Doubling a delay, up to the cap, is the delay of one more attempt.
LEMMA UpperDoubles ==
    ASSUME NEW n \in Nat, n >= 1
    PROVE  backoff_upper(n + 1) = AtMostCap(2 * backoff_upper(n))
<1>1. CapS \in Nat \ {0} /\ CapS <= 2^30
  BY BackoffConstants, SMT
<1>2. CASE n > 30
  BY <1>1, <1>2 DEF backoff_upper, AtMostCap
<1>3. CASE n = 30
  <2>1. backoff_upper(n + 1) = CapS
    BY <1>3 DEF backoff_upper
  <2>2. backoff_upper(30) = CapS
    <3>1. 2^30 \in Nat
      BY Powers
    <3> QED BY <1>1, <3>1 DEF backoff_upper
  <2> QED BY <1>1, <1>3, <2>1, <2>2 DEF AtMostCap
<1>4. CASE n < 30
  <2>1. 2^n \in Nat \ {0} /\ 2^(n + 1) = 2 * 2^n
    <3>1. n \in 0..30
      BY <1>4
    <3> QED BY <3>1, Powers
  <2>2. ~(n > 30) /\ ~(n + 1 > 30)
    BY <1>4
  <2> DEFINE a == 2^n
             b == 2^(n + 1)
  <2>3. backoff_upper(n) = IF a > CapS THEN CapS ELSE a
    BY <2>2 DEF backoff_upper
  <2>4. backoff_upper(n + 1) = IF b > CapS THEN CapS ELSE b
    BY <2>2 DEF backoff_upper
  <2>5. a \in Nat \ {0} /\ b = 2 * a
    BY <2>1
  <2> HIDE DEF a, b
  <2> QED BY <1>1, <2>3, <2>4, <2>5 DEF AtMostCap
<1> QED BY <1>2, <1>3, <1>4

\* What _reconnect waits, told by what it waited before.
LEMMA NextDelay ==
    ASSUME TypeInv, DelayInv, Reconnect
    PROVE  upper' = AtMostCap(IF heard \/ upper = 0 THEN 2 ELSE 2 * upper)
<1>1. attempt \in Nat /\ pc = "GAP" /\ upper' = backoff_upper(attempt)
  BY FeedConstants DEF Reconnect, TypeInv, TypeOK
<1>2. CASE heard \/ upper = 0
  <2>1. attempt = 1
    BY <1>1, <1>2 DEF DelayInv, Waits
  <2>2. 2^1 = 2
    OBVIOUS
  <2> QED BY <1>1, <1>2, <2>1, <2>2 DEF backoff_upper, AtMostCap
<1>3. CASE ~(heard \/ upper = 0)
  <2>1. attempt - 1 >= 1 /\ upper = backoff_upper(attempt - 1)
    BY <1>1, <1>3 DEF DelayInv, Waits
  <2>2. backoff_upper(attempt) = AtMostCap(2 * upper)
    <3>1. PICK n \in Nat : n = attempt - 1 /\ n >= 1 /\ n + 1 = attempt
      BY <1>1, <2>1
    <3> QED BY <2>1, <3>1, UpperDoubles
  <2> QED BY <1>1, <1>3, <2>2
<1> QED BY <1>2, <1>3

\* While the client goes on without a loss the bound and what was heard agree as before.
LEMMA DelaysGoOn ==
    ASSUME DelayInv, UNCHANGED <<attempt, upper, heard>>, pc # "GAP", pc' # "GAP"
    PROVE  DelayInv'
BY DEF DelayInv, Waits

\* Once the generator is left there is no delay to speak of.
LEMMA DelaysEnd ==
    ASSUME Unwound
    PROVE  DelayInv'
BY DEF DelayInv, Waits, Unwound

\* Every step keeps the relation of the bound to the number of losses in a row.
LEMMA DelaysStep ==
    ASSUME TypeInv, DelayInv, [Next]_vars
    PROVE  DelayInv'
<1>1. CASE Login \/ OpenTransport \/ Authenticated \/ SkipMessage \/ SubscribeCandles \/ Resume
  BY <1>1, DelaysGoOn
     DEF Login, OpenTransport, Authenticated, SkipMessage, SubscribeCandles, Resume
<1>2. CASE \/ LoginFails \/ OpenFails \/ AuthenticationFails \/ HandshakeLost
           \/ SubscribeFails \/ BackoffOverflows \/ SessionRaises \/ ReceiveMalformed
           \/ Interrupt
  BY <1>2, DelaysEnd
     DEF LoginFails, OpenFails, AuthenticationFails, HandshakeLost, SubscribeFails,
         BackoffOverflows, SessionRaises, ReceiveMalformed, Interrupt, Raise, RaiseOnRead
<1>3. CASE ReceiveCandle \/ ReceiveTimeSync
  <2>1. attempt' = 0 /\ heard' = TRUE /\ pc' # "GAP"
    BY <1>3 DEF ReceiveCandle, ReceiveTimeSync, Heard, Buffer
  <2> QED BY <2>1 DEF DelayInv, Waits
<1>4. CASE ReceiveOther \/ ServerStep \/ UNCHANGED vars
  BY <1>4 DEF ReceiveOther, ServerStep, vars, clientVars, DelayInv, Waits
<1>5. CASE ReceiveLost
  <2>1. /\ pc = "RECEIVE" /\ pc' = "GAP" /\ attempt' = attempt + 1
        /\ UNCHANGED <<upper, heard>> /\ attempt \in Nat
    BY <1>5, FeedConstants DEF ReceiveLost, AnnounceGap, TypeInv, TypeOK
  <2>2. Waits' = Waits
    BY <2>1 DEF Waits
  <2> QED BY <2>1, <2>2 DEF DelayInv
<1>6. CASE Reconnect
  <2>1. /\ pc = "GAP" /\ pc' = "LOGIN" /\ attempt' = attempt /\ heard' = FALSE
        /\ upper' = backoff_upper(attempt) /\ attempt \in Nat
    BY <1>6, FeedConstants DEF Reconnect, TypeInv, TypeOK
  <2>2. upper' \in 1..CapS
    BY <2>1, UpperType
  <2>3. attempt >= 1
    BY <2>1 DEF DelayInv, Waits
  <2> QED BY <2>1, <2>2, <2>3 DEF DelayInv, Waits
<1> QED BY <1>1, <1>2, <1>3, <1>4, <1>5, <1>6 DEF Next, Client, Connect, Stream

\* The bound of each wait is 2 seconds after the server was heard, and twice the
\* one before while it stays silent, up to the cap (_reconnect, backoff_delay).
THEOREM BackoffAlwaysGrows == Spec => BackoffGrowsWhileSilent
<1> DEFINE Grows == pc = "GAP" /\ pc' = "LOGIN" =>
                      upper' = AtMostCap(IF heard \/ upper = 0 THEN 2 ELSE 2 * upper)
<1>1. Init => DelayInv
  BY DEF Init, DelayInv, Waits
<1>2. TypeInv /\ DelayInv /\ [Next]_vars => DelayInv'
  BY DelaysStep
<1>3. TypeInv /\ DelayInv /\ [Next]_vars => [Grows]_vars
  <2> SUFFICES ASSUME TypeInv, DelayInv, [Next]_vars, pc = "GAP", pc' = "LOGIN"
               PROVE  upper' = AtMostCap(IF heard \/ upper = 0 THEN 2 ELSE 2 * upper)
    OBVIOUS
  <2>1. Reconnect
    BY DEF Next, Client, Connect, Stream, Login, LoginFails, OpenTransport, OpenFails,
           Authenticated, SkipMessage, AuthenticationFails, HandshakeLost, SubscribeCandles,
           SubscribeFails, ReceiveCandle, ReceiveTimeSync, ReceiveOther, ReceiveMalformed,
           ReceiveLost, BackoffOverflows, Resume, SessionRaises, Interrupt, ServerStep,
           Raise, Unwound, vars, clientVars
  <2> QED BY <2>1, NextDelay
<1> QED BY <1>1, <1>2, <1>3, FeedInvariance, PTL DEF Spec, BackoffGrowsWhileSilent

-----------------------------------------------------------------------------
(* What is under way.  Of a window being built p and messages q to come:   *)
(* the items are p, at 0, and the candle pushes of q at their places.      *)

Item(p, q, i) == IF i = 0 THEN p ELSE q[i]

Pushes(p, q) == {i \in 0..Len(q) : Item(p, q, i) \in CandleItems}

\* A push of window w lies between the i-th and the j-th.
Between(p, q, w, i, j) == \E k \in Pushes(p, q) : i < k /\ k < j /\ Item(p, q, k).window = w

\* Up to the j-th, which is of window v, nothing is missing after the i-th:
\* neither the last push of its window nor, in silence apart, a later window.
Told(p, q, lp, sl, i, j, v) ==
    LET w == Item(p, q, i).window
    IN /\ v # w => Item(p, q, i).tick = lp[w] \/ Between(p, q, w, i, j)
       /\ \A u \in w + 1..v - 1 : u \in sl \/ Between(p, q, u, i, j)

InOrder(p, q, lp, sl) ==
    \A i, j \in Pushes(p, q) :
        i < j => /\ Item(p, q, i).window <= Item(p, q, j).window
                 /\ Told(p, q, lp, sl, i, j, Item(p, q, j).window)

\* ... and a push of a window after v, sent now, would be the next.
UpToDate(p, q, lp, sl, v) ==
    \A i \in Pushes(p, q) : Told(p, q, lp, sl, i, Len(q) + 1, v + 1)

\* No item is later than v, and all are later than u.
Within(p, q, u, v) ==
    \A i \in Pushes(p, q) : u < Item(p, q, i).window /\ Item(p, q, i).window <= v

\* No pending window is not a push.
LEMMA NoneIsNoPush == None \notin CandleItems
<1>1. CandleItems \subseteq Messages
  BY LinkConstants DEF CandleItems, Messages
<1> QED BY <1>1, FeedConstants

\* With no push in flight nothing has to be in order.
LEMMA NothingUnderWay ==
    ASSUME NEW p, NEW q, Pushes(p, q) = {}
    PROVE  /\ \A lp, sl : InOrder(p, q, lp, sl)
           /\ \A u, v : Within(p, q, u, v)
           /\ \A lp, sl, v : UpToDate(p, q, lp, sl, v)
BY DEF InOrder, Within, UpToDate

\* Items that keep their order, none of them lost from between two others.
LEMMA Reindexed ==
    ASSUME NEW p, NEW q, Len(q) \in Nat, NEW p2, NEW q2, Len(q2) \in Nat,
           NEW f \in [0..Len(q2) + 1 -> 0..Len(q) + 1],
           \A a, b \in 0..Len(q2) + 1 : a < b <=> f[a] < f[b],
           f[Len(q2) + 1] = Len(q) + 1,
           \A i \in Pushes(p2, q2) : f[i] \in Pushes(p, q) /\ Item(p2, q2, i) = Item(p, q, f[i]),
           \A i \in Pushes(p2, q2) : \A k \in Pushes(p, q) :
               f[i] < k => \E n \in Pushes(p2, q2) : k = f[n]
    PROVE  /\ \A lp, sl : InOrder(p, q, lp, sl) => InOrder(p2, q2, lp, sl)
           /\ \A u, v : Within(p, q, u, v) => Within(p2, q2, u, v)
           /\ \A lp, sl, v : UpToDate(p, q, lp, sl, v) => UpToDate(p2, q2, lp, sl, v)
<1>1. Pushes(p2, q2) \subseteq 0..Len(q2) + 1 /\ Pushes(p, q) \subseteq 0..Len(q) + 1
  BY DEF Pushes
<1>2. ASSUME NEW i \in Pushes(p2, q2), NEW j \in 0..Len(q2) + 1, NEW w,
             Between(p, q, w, f[i], f[j])
      PROVE  Between(p2, q2, w, i, j)
  <2>1. PICK k \in Pushes(p, q) : f[i] < k /\ k < f[j] /\ Item(p, q, k).window = w
    BY <1>2 DEF Between
  <2>2. PICK n \in Pushes(p2, q2) : k = f[n]
    BY <2>1
  <2>3. i < n /\ n < j /\ Item(p2, q2, n).window = w
    BY <1>1, <2>1, <2>2
  <2> QED BY <2>3 DEF Between
<1>3. ASSUME NEW lp, NEW sl, NEW v, NEW i \in Pushes(p2, q2), NEW j \in 0..Len(q2) + 1,
             Told(p, q, lp, sl, f[i], f[j], v)
      PROVE  Told(p2, q2, lp, sl, i, j, v)
  BY <1>2, <1>3 DEF Told
<1>4. ASSUME NEW lp, NEW sl, InOrder(p, q, lp, sl) PROVE InOrder(p2, q2, lp, sl)
  <2> SUFFICES ASSUME NEW i \in Pushes(p2, q2), NEW j \in Pushes(p2, q2), i < j
               PROVE  /\ Item(p2, q2, i).window <= Item(p2, q2, j).window
                      /\ Told(p2, q2, lp, sl, i, j, Item(p2, q2, j).window)
    BY DEF InOrder
  <2>1. f[i] \in Pushes(p, q) /\ f[j] \in Pushes(p, q) /\ f[i] < f[j]
    BY <1>1
  <2>2. /\ Item(p, q, f[i]).window <= Item(p, q, f[j]).window
        /\ Told(p, q, lp, sl, f[i], f[j], Item(p, q, f[j]).window)
    BY <1>4, <2>1 DEF InOrder
  <2> QED BY <1>1, <1>3, <2>2
<1>5. ASSUME NEW u, NEW v, Within(p, q, u, v) PROVE Within(p2, q2, u, v)
  BY <1>5 DEF Within
<1>6. ASSUME NEW lp, NEW sl, NEW v, UpToDate(p, q, lp, sl, v) PROVE UpToDate(p2, q2, lp, sl, v)
  <2> SUFFICES ASSUME NEW i \in Pushes(p2, q2)
               PROVE  Told(p2, q2, lp, sl, i, Len(q2) + 1, v + 1)
    BY DEF UpToDate
  <2>1. Told(p, q, lp, sl, f[i], Len(q) + 1, v + 1)
    BY <1>6 DEF UpToDate
  <2>2. Len(q2) + 1 \in 0..Len(q2) + 1
    OBVIOUS
  <2> QED BY <1>3, <2>1, <2>2
<1> QED BY <1>4, <1>5, <1>6

\* Reading the first message leaves the others in order, whether it becomes the
\* window being built, leaves it, or none is being built.
LEMMA ReadKeepsOrder ==
    ASSUME NEW q \in Seq(Messages), q # << >>, NEW p, NEW p2,
           p2 \in {None, q[1]} \/ (p2 = p /\ q[1] \notin CandleItems)
    PROVE  /\ \A lp, sl : InOrder(p, q, lp, sl) => InOrder(p2, Tail(q), lp, sl)
           /\ \A u, v : Within(p, q, u, v) => Within(p2, Tail(q), u, v)
           /\ \A lp, sl, v : UpToDate(p, q, lp, sl, v) => UpToDate(p2, Tail(q), lp, sl, v)
<1> DEFINE q2 == Tail(q)
           f  == [i \in 0..Len(q2) + 1 |-> IF i = 0 /\ p2 \notin {None, q[1]} THEN 0 ELSE i + 1]
<1>1. /\ Len(q) \in Nat /\ Len(q2) \in Nat /\ Len(q) = Len(q2) + 1
      /\ \A i \in 1..Len(q2) : q2[i] = q[i + 1]
  OBVIOUS
<1> HIDE DEF q2
<1>2. /\ f \in [0..Len(q2) + 1 -> 0..Len(q) + 1]
      /\ \A a, b \in 0..Len(q2) + 1 : a < b <=> f[a] < f[b]
      /\ f[Len(q2) + 1] = Len(q) + 1
  BY <1>1
<1>3. \A i \in Pushes(p2, q2) : f[i] \in Pushes(p, q) /\ Item(p2, q2, i) = Item(p, q, f[i])
  <2> SUFFICES ASSUME NEW i \in Pushes(p2, q2)
               PROVE  f[i] \in 0..Len(q) /\ Item(p2, q2, i) = Item(p, q, f[i])
    BY DEF Pushes
  <2>1. i \in 0..Len(q2) /\ Item(p2, q2, i) \in CandleItems
    BY DEF Pushes
  <2>2. CASE i = 0
    BY <1>1, <2>1, <2>2, NoneIsNoPush DEF Item
  <2>3. CASE i # 0
    BY <1>1, <2>1, <2>3 DEF Item
  <2> QED BY <2>2, <2>3
<1>4. \A i \in Pushes(p2, q2) : \A k \in Pushes(p, q) :
        f[i] < k => \E n \in Pushes(p2, q2) : k = f[n]
  <2> SUFFICES ASSUME NEW i \in Pushes(p2, q2), NEW k \in Pushes(p, q), f[i] < k
               PROVE  k - 1 \in Pushes(p2, q2) /\ k = f[k - 1]
    OBVIOUS
  <2>1. i \in 0..Len(q2) /\ k \in 0..Len(q) /\ Item(p, q, k) \in CandleItems
    BY DEF Pushes
  <2>2. k > 1
    <3>1. k # 1 \/ p2 \in {None, q[1]}
      BY <2>1 DEF Item
    <3> QED BY <1>1, <2>1, <3>1
  <2>3. k - 1 \in 0..Len(q2) /\ Item(p2, q2, k - 1) = Item(p, q, k)
    BY <1>1, <2>1, <2>2 DEF Item
  <2>4. k = f[k - 1]
    BY <1>1, <2>1, <2>2
  <2> QED BY <2>1, <2>3, <2>4 DEF Pushes
<1> HIDE DEF f
<1>5. /\ \A lp, sl : InOrder(p, q, lp, sl) => InOrder(p2, q2, lp, sl)
      /\ \A u, v : Within(p, q, u, v) => Within(p2, q2, u, v)
      /\ \A lp, sl, v : UpToDate(p, q, lp, sl, v) => UpToDate(p2, q2, lp, sl, v)
  BY <1>1, <1>2, <1>3, <1>4, Reindexed
<1> QED BY <1>5 DEF q2

\* A message of another kind changes nothing for the pushes.
LEMMA OtherKeepsOrder ==
    ASSUME NEW q \in Seq(Messages), NEW p, NEW m, m \notin CandleItems
    PROVE  /\ Pushes(p, Append(q, m)) = Pushes(p, q)
           /\ \A lp, sl : InOrder(p, q, lp, sl) => InOrder(p, Append(q, m), lp, sl)
           /\ \A u, v : Within(p, q, u, v) => Within(p, Append(q, m), u, v)
           /\ \A lp, sl, v : UpToDate(p, q, lp, sl, v) => UpToDate(p, Append(q, m), lp, sl, v)
<1> DEFINE q2 == Append(q, m)
<1>1. /\ Len(q) \in Nat /\ Len(q2) = Len(q) + 1
      /\ \A i \in 1..Len(q) : q2[i] = q[i]
      /\ q2[Len(q) + 1] = m
  OBVIOUS
<1> HIDE DEF q2
<1>2. Pushes(p, q2) = Pushes(p, q)
  BY <1>1 DEF Pushes, Item
<1>3. \A i \in Pushes(p, q) : Item(p, q2, i) = Item(p, q, i) /\ i \in 0..Len(q)
  BY <1>1 DEF Pushes, Item
<1>4. \A w, i, j : Between(p, q, w, i, j) => Between(p, q2, w, i, j)
  BY <1>2, <1>3 DEF Between
<1>5. \A lp, sl, v : \A i \in Pushes(p, q) : \A j :
         Told(p, q, lp, sl, i, j, v) => Told(p, q2, lp, sl, i, j, v)
  BY <1>3, <1>4 DEF Told
<1>6. \A lp, sl : InOrder(p, q, lp, sl) => InOrder(p, q2, lp, sl)
  BY <1>2, <1>3, <1>5 DEF InOrder
<1>7. \A u, v : Within(p, q, u, v) => Within(p, q2, u, v)
  BY <1>2, <1>3 DEF Within
<1>8. ASSUME NEW lp, NEW sl, NEW v, UpToDate(p, q, lp, sl, v) PROVE UpToDate(p, q2, lp, sl, v)
  <2> SUFFICES ASSUME NEW i \in Pushes(p, q)
               PROVE  Told(p, q2, lp, sl, i, Len(q2) + 1, v + 1)
    BY <1>2 DEF UpToDate
  <2>1. Told(p, q, lp, sl, i, Len(q) + 1, v + 1)
    BY <1>8 DEF UpToDate
  <2>2. ASSUME NEW w, Between(p, q, w, i, Len(q) + 1) PROVE Between(p, q2, w, i, Len(q2) + 1)
    <3>1. PICK k \in Pushes(p, q) : i < k /\ k < Len(q) + 1 /\ Item(p, q, k).window = w
      BY <2>2 DEF Between
    <3>2. i < k /\ k < Len(q2) + 1 /\ Item(p, q2, k).window = w
      BY <1>1, <1>3, <3>1
    <3> QED BY <1>2, <3>2 DEF Between
  <2> QED BY <1>3, <2>1, <2>2 DEF Told
<1> QED BY <1>2, <1>6, <1>7, <1>8 DEF q2

\* Losing the last messages leaves the others in order.
LEMMA CutKeepsOrder ==
    ASSUME NEW q \in Seq(Messages), NEW n \in 0..Len(q), NEW p
    PROVE  /\ \A lp, sl : InOrder(p, q, lp, sl) => InOrder(p, SubSeq(q, 1, n), lp, sl)
           /\ \A u, v : Within(p, q, u, v) => Within(p, SubSeq(q, 1, n), u, v)
<1> DEFINE q2 == SubSeq(q, 1, n)
<1>1. /\ Len(q) \in Nat /\ Len(q2) = n
      /\ \A i \in 1..n : q2[i] = q[i]
  OBVIOUS
<1> HIDE DEF q2
<1>2. Pushes(p, q2) = {i \in Pushes(p, q) : i <= n}
  BY <1>1 DEF Pushes, Item
<1>3. \A i \in Pushes(p, q2) : Item(p, q2, i) = Item(p, q, i) /\ i \in 0..n
  BY <1>1 DEF Pushes, Item
<1>4. ASSUME NEW w, NEW i, NEW j \in 0..n, Between(p, q, w, i, j) PROVE Between(p, q2, w, i, j)
  <2>1. PICK k \in Pushes(p, q) : i < k /\ k < j /\ Item(p, q, k).window = w
    BY <1>4 DEF Between
  <2>2. k \in Pushes(p, q2)
    BY <1>2, <2>1 DEF Pushes
  <2> QED BY <1>3, <2>1, <2>2 DEF Between
<1>5. ASSUME NEW lp, NEW sl, InOrder(p, q, lp, sl) PROVE InOrder(p, q2, lp, sl)
  <2> SUFFICES ASSUME NEW i \in Pushes(p, q2), NEW j \in Pushes(p, q2), i < j
               PROVE  /\ Item(p, q2, i).window <= Item(p, q2, j).window
                      /\ Told(p, q2, lp, sl, i, j, Item(p, q2, j).window)
    BY DEF InOrder
  <2>1. /\ Item(p, q, i).window <= Item(p, q, j).window
        /\ Told(p, q, lp, sl, i, j, Item(p, q, j).window)
    BY <1>2, <1>5 DEF InOrder
  <2> QED BY <1>3, <1>4, <2>1 DEF Told
<1>6. \A u, v : Within(p, q, u, v) => Within(p, q2, u, v)
  BY <1>2, <1>3 DEF Within
<1> QED BY <1>5, <1>6 DEF q2

\* Time moving on to a slot of the current window w or of the next one, which
\* is no longer silent, changes nothing for what was pushed before.
LEMMA TimeKeepsOrder ==
    ASSUME NEW p, NEW q, NEW u \in Int, NEW w \in Nat, NEW v \in Nat, w <= v,
           Within(p, q, u, w), NEW lp, NEW sl, NEW sl2, sl \ {v} \subseteq sl2,
           InOrder(p, q, lp, sl)
    PROVE  InOrder(p, q, lp, sl2) /\ Within(p, q, u, v)
<1>1. \A i \in Pushes(p, q) : Item(p, q, i).window \in Nat /\ Item(p, q, i).window <= w
  BY DEF Pushes, CandleItems, Within
<1>2. ASSUME NEW i \in Pushes(p, q), NEW j \in Pushes(p, q), i < j,
             NEW s \in Item(p, q, i).window + 1..Item(p, q, j).window - 1
      PROVE  s \in sl => s \in sl2
  BY <1>1
<1>3. InOrder(p, q, lp, sl2)
  BY <1>2 DEF InOrder, Told
<1> QED BY <1>1, <1>3 DEF Within

\* A slot that passes in silence is known to be silent.
LEMMA StallKeepsUpToDate ==
    ASSUME NEW p, NEW q, NEW u, NEW w \in Nat, NEW v \in {w, w + 1}, Within(p, q, u, w),
           NEW lp, NEW sl, NEW sl2, sl \subseteq sl2, v # w => v \in sl2,
           UpToDate(p, q, lp, sl, w)
    PROVE  UpToDate(p, q, lp, sl2, v)
<1> SUFFICES ASSUME NEW i \in Pushes(p, q)
             PROVE  Told(p, q, lp, sl2, i, Len(q) + 1, v + 1)
  BY DEF UpToDate
<1>1. Told(p, q, lp, sl, i, Len(q) + 1, w + 1)
  BY DEF UpToDate
<1>2. Item(p, q, i).window \in Nat /\ Item(p, q, i).window <= w
  BY DEF Pushes, CandleItems, Within
<1> QED BY <1>1, <1>2 DEF Told

\* The next push comes after the others, and is itself the last of its window.
LEMMA PushKeepsOrder ==
    ASSUME NEW p, NEW q \in Seq(Messages), NEW u \in Int, NEW w \in Nat, NEW c \in CandleItems,
           c.window \in {w, w + 1}, u < w, Within(p, q, u, w),
           NEW lp \in [0..LastWindow -> Int], NEW sl,
           InOrder(p, q, lp, sl), UpToDate(p, q, lp, sl, w)
    PROVE  LET lp2 == [lp EXCEPT ![c.window] = c.tick]
               sl2 == sl \ {c.window}
           IN /\ InOrder(p, Append(q, c), lp2, sl2)
              /\ Within(p, Append(q, c), u, c.window)
              /\ UpToDate(p, Append(q, c), lp2, sl2, c.window)
<1> DEFINE q2  == Append(q, c)
           v   == c.window
           lp2 == [lp EXCEPT ![c.window] = c.tick]
           sl2 == sl \ {c.window}
           n   == Len(q) + 1
<1>1. /\ n \in Nat /\ Len(q) = n - 1 /\ Len(q2) = n
      /\ \A i \in 1..n - 1 : q2[i] = q[i]
      /\ q2[n] = c
  OBVIOUS
<1>2. /\ v \in Nat /\ v \in 0..LastWindow /\ lp2[v] = c.tick
      /\ \A x \in 0..LastWindow : x # v => lp2[x] = lp[x]
      /\ \A x : x \in sl /\ x # v => x \in sl2
      /\ w <= v /\ v <= w + 1
  BY DEF CandleItems
<1> HIDE DEF q2, n, lp2, sl2
<1>3. Pushes(p, q2) = Pushes(p, q) \cup {n} /\ n \notin Pushes(p, q) /\ n > 0
  BY <1>1 DEF Pushes, Item, n
<1>4. \A i \in Pushes(p, q) : /\ Item(p, q2, i) = Item(p, q, i) /\ i \in 0..n - 1
                              /\ Item(p, q, i).window \in 0..LastWindow
                              /\ Item(p, q, i).window <= w
                              /\ u < Item(p, q, i).window
  BY <1>1 DEF Pushes, Item, Within, CandleItems
<1>5. Item(p, q2, n) = c
  BY <1>1, <1>3 DEF Item
<1>6. \A x, i, j : Between(p, q, x, i, j) => Between(p, q2, x, i, j)
  BY <1>3, <1>4 DEF Between
<1>7. \A x : \A i \in Pushes(p, q) : Between(p, q, x, i, n) => Between(p, q2, x, i, n + 1)
  <2> SUFFICES ASSUME NEW x, NEW i \in Pushes(p, q), Between(p, q, x, i, n)
               PROVE  Between(p, q2, x, i, n + 1)
    OBVIOUS
  <2>1. PICK k \in Pushes(p, q) : i < k /\ k < n /\ Item(p, q, k).window = x
    BY DEF Between
  <2>2. k \in Pushes(p, q2) /\ i < k /\ k < n + 1 /\ Item(p, q2, k).window = x
    BY <1>1, <1>3, <1>4, <2>1
  <2> QED BY <2>2 DEF Between
<1>8. \A i \in Pushes(p, q) : Between(p, q2, v, i, n + 1)
  <2> SUFFICES ASSUME NEW i \in Pushes(p, q) PROVE i < n /\ n < n + 1
    BY <1>3, <1>5 DEF Between
  <2> QED BY <1>1, <1>4
<1>9. ASSUME NEW i \in Pushes(p, q)
      PROVE  LET x == Item(p, q, i).window
             IN /\ Item(p, q, i).tick = lp[x] \/ Between(p, q, x, i, n)
                /\ \A s \in x + 1..w : s \in sl \/ Between(p, q, s, i, n)
  <2>1. Told(p, q, lp, sl, i, Len(q) + 1, w + 1)
    BY DEF UpToDate
  <2>2. Len(q) + 1 = n
    BY DEF n
  <2>3. w + 1 # Item(p, q, i).window /\ (w + 1) - 1 = w
    BY <1>4
  <2> QED BY <2>1, <2>2, <2>3 DEF Told
<1>10. InOrder(p, q2, lp2, sl2)
  <2> SUFFICES ASSUME NEW i \in Pushes(p, q2), NEW j \in Pushes(p, q2), i < j
               PROVE  /\ Item(p, q2, i).window <= Item(p, q2, j).window
                      /\ Told(p, q2, lp2, sl2, i, j, Item(p, q2, j).window)
    BY DEF InOrder
  <2>1. i \in Pushes(p, q)
    BY <1>1, <1>3, <1>4
  <2>2. CASE j \in Pushes(p, q)
    <3>1. /\ Item(p, q, i).window <= Item(p, q, j).window
          /\ Told(p, q, lp, sl, i, j, Item(p, q, j).window)
      BY <2>1, <2>2 DEF InOrder
    <3>2. Item(p, q, j).window <= v
      BY <1>2, <1>4, <2>2
    <3> DEFINE x == Item(p, q, i).window
               y == Item(p, q, j).window
    <3>3. x \in 0..LastWindow /\ y \in Int /\ x <= y /\ y <= v
      BY <1>4, <2>1, <2>2, <3>1, <3>2
    <3>4. y # x => lp2[x] = lp[x]
      BY <1>2, <3>3
    <3>5. \A s \in x + 1..y - 1 : s \in sl => s \in sl2
      BY <1>2, <3>3
    <3>6. Told(p, q2, lp2, sl2, i, j, y)
      BY <1>4, <1>6, <2>1, <3>1, <3>4, <3>5 DEF Told
    <3> QED BY <1>4, <2>1, <2>2, <3>1, <3>6
  <2>3. CASE j = n
    <3>1. Item(p, q2, i).window <= v
      BY <1>2, <1>4, <2>1
    <3>2. Told(p, q2, lp2, sl2, i, n, v)
      BY <1>2, <1>4, <1>6, <1>9, <2>1 DEF Told
    <3> QED BY <1>5, <2>3, <3>1, <3>2
  <2> QED BY <1>3, <2>2, <2>3
<1>11. Within(p, q2, u, v)
  <2> SUFFICES ASSUME NEW i \in Pushes(p, q2)
               PROVE  u < Item(p, q2, i).window /\ Item(p, q2, i).window <= v
    BY DEF Within
  <2>1. CASE i \in Pushes(p, q)
    BY <1>2, <1>4, <2>1
  <2>2. CASE i = n
    BY <1>2, <1>5, <2>2
  <2> QED BY <1>3, <2>1, <2>2
<1>12. UpToDate(p, q2, lp2, sl2, v)
  <2> SUFFICES ASSUME NEW i \in Pushes(p, q2)
               PROVE  Told(p, q2, lp2, sl2, i, n + 1, v + 1)
    BY <1>1 DEF UpToDate
  <2>1. CASE i \in Pushes(p, q)
    <3>1. \A s \in Item(p, q, i).window + 1..v : s \in sl2 \/ Between(p, q2, s, i, n + 1)
      BY <1>2, <1>4, <1>7, <1>8, <1>9, <2>1
    <3>2. Item(p, q, i).tick = lp2[Item(p, q, i).window]
             \/ Between(p, q2, Item(p, q, i).window, i, n + 1)
      BY <1>2, <1>4, <1>7, <1>8, <1>9, <2>1
    <3>3. (v + 1) - 1 = v
      BY <1>2
    <3> QED BY <1>4, <2>1, <3>1, <3>2, <3>3 DEF Told
  <2>2. CASE i = n
    BY <1>2, <1>5, <2>2 DEF Told
  <2> QED BY <1>3, <2>1, <2>2
<1> QED BY <1>10, <1>11, <1>12 DEF q2, lp2, sl2

-----------------------------------------------------------------------------
(* What is yielded. *)

Yielded(s) == {i \in DOMAIN s : s[i].kind = "candle"}

LastWindowOf(s) == IF Yielded(s) = {} THEN -1 ELSE s[Max(Yielded(s))].window

\* One of the candles yielded is the last.
HasLast(s) == Yielded(s) = {} \/ \E m \in Yielded(s) : \A k \in Yielded(s) : k <= m

\* The window of the last candle yielded, with the stream as a parameter.
LEMMA LastWindowIs == LastCandleWindow = LastWindowOf(stream)
BY DEF LastCandleWindow, LastWindowOf, Yielded, IsCandle

\* The maximum of a set is the member that bounds it.
LEMMA MaxIs ==
    ASSUME NEW S \in SUBSET Int, NEW m \in S, \A k \in S : k <= m
    PROVE  Max(S) = m
<1> DEFINE P(x) == x \in S /\ \A y \in S : x >= y
<1>1. P(m)
  OBVIOUS
<1>2. Max(S) = CHOOSE x : P(x)
  BY DEF Max
<1>3. P(Max(S))
  <2> HIDE DEF P
  <2> QED BY <1>1, <1>2
<1>4. PICK x : x = Max(S)
  OBVIOUS
<1>5. x \in Int /\ m \in Int /\ x >= m /\ x <= m
  BY <1>3, <1>4
<1> QED BY <1>4, <1>5

\* A candle that is yielded is the last one,
LEMMA CandleYielded ==
    ASSUME NEW s \in Seq(Items), NEW c \in CandleItems
    PROVE  LastWindowOf(Append(s, c)) = c.window /\ HasLast(Append(s, c))
<1> DEFINE t == Append(s, c)
           n == Len(s) + 1
<1>1. DOMAIN t = 1..n /\ t[n] = c /\ c.kind = "candle" /\ n \in Nat /\ n > 0
  BY DEF CandleItems
<1> HIDE DEF t, n
<1>2. n \in Yielded(t) /\ Yielded(t) \in SUBSET Int /\ \A k \in Yielded(t) : k <= n
  BY <1>1 DEF Yielded
<1>3. Max(Yielded(t)) = n
  BY <1>2, MaxIs
<1>4. LastWindowOf(t) = c.window
  BY <1>1, <1>2, <1>3 DEF LastWindowOf
<1>5. HasLast(t)
  BY <1>2 DEF HasLast
<1> QED BY <1>4, <1>5 DEF t

\* and a gap leaves the last one as it is.
LEMMA GapYielded ==
    ASSUME NEW s \in Seq(Items), HasLast(s)
    PROVE  LastWindowOf(Append(s, Gap)) = LastWindowOf(s) /\ HasLast(Append(s, Gap))
<1> DEFINE t == Append(s, Gap)
<1>1. /\ DOMAIN t = 1..Len(s) + 1 /\ DOMAIN s = 1..Len(s) /\ Len(s) \in Nat
      /\ t[Len(s) + 1].kind = "gap"
      /\ \A i \in DOMAIN s : t[i] = s[i]
  BY DEF Gap
<1> HIDE DEF t
<1>2. Yielded(t) = Yielded(s) /\ Yielded(s) \in SUBSET Int
  BY <1>1 DEF Yielded
<1>3. CASE Yielded(s) = {}
  BY <1>2, <1>3 DEF LastWindowOf, HasLast, t
<1>4. CASE Yielded(s) # {}
  <2>1. PICK m \in Yielded(s) : \A k \in Yielded(s) : k <= m
    BY <1>4 DEF HasLast
  <2>2. Max(Yielded(s)) = m /\ t[m] = s[m]
    BY <1>1, <1>2, <2>1, MaxIs DEF Yielded
  <2> QED BY <1>2, <2>1, <2>2 DEF LastWindowOf, HasLast, t
<1> QED BY <1>3, <1>4

\* Of what is under way, on a connection that stands or is dead.
FlowInv ==
    pc # "ENDED" =>
        /\ InOrder(pending, wire, lastPush, silent)
        /\ Within(pending, wire, LastCandleWindow, now.window)
        /\ peer = "SUBSCRIBED" => UpToDate(pending, wire, lastPush, silent, now.window)
        /\ peer \in {"HELLO", "READY"} => Pushes(pending, wire) = {}
        /\ pc = "GAP" => wire = << >> /\ peer = "CUT"
        /\ pc \notin {"RECEIVE", "YIELDED"} => pending = None

Unbroken == stream # << >> /\ Last(stream) # Gap

\* Of what was yielded: after a candle, and until the next gap, the window being
\* built is a later one, after nothing but silence.
YieldInv ==
    /\ HasLast(stream)
    /\ LastCandleWindow \in -1..now.window - 1
    /\ Unbroken => Last(stream).window = LastCandleWindow
    /\ Unbroken /\ pc # "ENDED" =>
         /\ pending # None
         /\ LastCandleWindow < pending.window
         /\ \A u \in LastCandleWindow + 1..pending.window - 1 : u \in silent
    /\ pc = "YIELDED" => Unbroken
    /\ YieldedCandlesAreClosed

PortInv == FlowInv /\ YieldInv

\* The types this part needs, apart from the others.
LEMMA FlowTypes ==
    ASSUME TypeInv
    PROVE  /\ wire \in Seq(Messages)
           /\ now.window \in Nat
           /\ lastPush \in [0..LastWindow -> 0..Ticks]
           /\ pending \in CandleItems \cup {None}
           /\ stream \in Seq(Items)
BY LinkConstants DEF TypeInv, TypeOK, LinkTypeOK, Items

\* The exception ends it.
LEMMA PortEnds ==
    ASSUME PortInv, Unwound, UNCHANGED <<now, silent>>
    PROVE  PortInv'
<1>1. LastCandleWindow' = LastCandleWindow /\ Unbroken' = Unbroken /\ pc' = "ENDED"
      /\ stream' = stream
  BY LastWindowIs DEF Unwound, LastCandleWindow, IsCandle, Unbroken
<1> QED BY <1>1 DEF PortInv, FlowInv, YieldInv, YieldedCandlesAreClosed

\* Nothing is under way: a new or a lost connection.
LEMMA PortEmpties ==
    ASSUME TypeInv, PortInv, pc # "ENDED", wire' = << >>, pending' = None, UNCHANGED <<now, silent>>,
           (stream' = stream /\ pending = None) \/ stream' = Append(stream, Gap),
           pc' \notin {"YIELDED", "ENDED"}, pc' = "GAP" => peer' = "CUT"
    PROVE  PortInv'
<1>1. Pushes(pending', wire') = {}
  BY NoneIsNoPush DEF Pushes, Item
<1>2. FlowInv'
  BY <1>1, NothingUnderWay DEF FlowInv
<1>3. LastWindowOf(stream') = LastWindowOf(stream) /\ HasLast(stream') /\ ~Unbroken'
  <2>1. CASE stream' = stream /\ pending = None
    BY <2>1 DEF PortInv, YieldInv, Unbroken
  <2>2. CASE stream' = Append(stream, Gap)
    <3>1. stream \in Seq(Items) /\ HasLast(stream)
      BY FlowTypes DEF PortInv, YieldInv
    <3>2. Last(stream') = Gap
      BY <2>2, <3>1 DEF Last
    <3> QED BY <2>2, <3>1, <3>2, GapYielded DEF Unbroken
  <2> QED BY <2>1, <2>2
<1>4. LastCandleWindow' = LastCandleWindow
  BY <1>3 DEF LastCandleWindow, LastWindowOf, IsCandle, Yielded
<1>5. YieldInv'
  BY <1>3, <1>4 DEF PortInv, YieldInv, YieldedCandlesAreClosed
<1> QED BY <1>2, <1>5 DEF PortInv

\* YieldInv when nothing is yielded: time may pass, and the window being built
\* may be given more pushes.
LEMMA YieldsGoOn ==
    ASSUME TypeInv, PortInv, pc # "ENDED", stream' = stream,
           pending' = pending \/ (pending # None /\ pending' \in CandleItems
                                    /\ pending'.window = pending.window)
                              \/ (pending = None /\ pending' \in CandleItems),
           now'.window \in Nat, now.window <= now'.window,
           \A u \in silent : u <= now.window - 1 => u \in silent',
           pc' = "YIELDED" => pc = "YIELDED",
           pc = "YIELDED" => \A u \in 0..now.window - 1 : lastPush'[u] = lastPush[u]
    PROVE  YieldInv' /\ LastCandleWindow' = LastCandleWindow
<1>1. LastCandleWindow' = LastCandleWindow /\ Unbroken' = Unbroken
  BY DEF LastCandleWindow, IsCandle, Unbroken
<1>2. HasLast(stream') /\ LastCandleWindow \in -1..now.window - 1 /\ now.window \in Nat
  BY FlowTypes DEF PortInv, YieldInv
<1>3. ASSUME Unbroken
      PROVE  /\ pending' # None
             /\ LastCandleWindow < pending'.window
             /\ \A u \in LastCandleWindow + 1..pending'.window - 1 : u \in silent'
  <2>1. /\ pending # None
        /\ LastCandleWindow < pending.window
        /\ \A u \in LastCandleWindow + 1..pending.window - 1 : u \in silent
    BY <1>3 DEF PortInv, YieldInv
  <2>2. pending' # None /\ pending'.window = pending.window
    BY <2>1, NoneIsNoPush
  <2>3. pending.window \in Nat /\ pending.window <= now.window
    <3>1. 0 \in Pushes(pending, wire) /\ Item(pending, wire, 0) = pending
      BY <2>1, FlowTypes DEF Pushes, Item
    <3> QED BY <2>1, <3>1, FlowTypes DEF PortInv, FlowInv, Within, CandleItems
  <2> QED BY <1>2, <2>1, <2>2, <2>3
<1>4. ASSUME pc' = "YIELDED" PROVE Last(stream).tick = lastPush'[Last(stream).window]
  <2>1. Unbroken /\ Last(stream).tick = lastPush[Last(stream).window]
    BY <1>4 DEF PortInv, YieldInv, YieldedCandlesAreClosed
  <2>2. Last(stream) \in CandleItems
    <3>1. Last(stream) \in Items
      BY <2>1, FlowTypes DEF Last, Unbroken
    <3> QED BY <2>1, <3>1 DEF Unbroken, Items
  <2>3. Last(stream).window \in 0..now.window - 1
    BY <1>2, <2>1, <2>2 DEF PortInv, YieldInv, CandleItems
  <2> QED BY <1>4, <2>1, <2>3
<1>5. YieldInv'
  <2>1. LastCandleWindow' \in -1..now'.window - 1
    BY <1>1, <1>2
  <2>2. YieldedCandlesAreClosed'
    BY <1>4 DEF YieldedCandlesAreClosed
  <2> QED BY <1>1, <1>2, <1>3, <2>1, <2>2 DEF PortInv, YieldInv
<1> QED BY <1>1, <1>5

\* A step that neither reads nor sends.
LEMMA PortGoesOn ==
    ASSUME TypeInv, PortInv, Login \/ SubscribeCandles \/ Resume
    PROVE  PortInv'
<1>1. /\ pc # "ENDED" /\ pc' \notin {"GAP", "YIELDED", "ENDED"}
      /\ UNCHANGED <<now, lastPush, silent, wire, pending, stream>>
      /\ pc' \notin {"RECEIVE", "YIELDED"} => pc \notin {"RECEIVE", "YIELDED"}
      /\ peer' = peer \/ (peer = "READY" /\ peer' = "SUBSCRIBED")
  BY DEF Login, SubscribeCandles, Resume, Subscribed, linkVars, serverTime
<1>2. YieldInv' /\ LastCandleWindow' = LastCandleWindow
  <2>1. now.window \in Nat /\ now' = now
    BY <1>1, FlowTypes
  <2> QED BY <1>1, <2>1, YieldsGoOn
<1>3. peer = "READY" => UpToDate(pending, wire, lastPush, silent, now.window)
  BY <1>1, NothingUnderWay DEF PortInv, FlowInv
<1>4. FlowInv'
  BY <1>1, <1>2, <1>3 DEF PortInv, FlowInv
<1> QED BY <1>2, <1>4 DEF PortInv

\* A message is read that is no push, or while no window may be built.
LEMMA PortReads ==
    ASSUME TypeInv, PortInv, NEW m \in Messages, Received(m), pc # "ENDED",
           pending' = pending, stream' = stream,
           pc' \notin {"GAP", "YIELDED", "ENDED"},
           pc' \notin {"RECEIVE", "YIELDED"} => pc \notin {"RECEIVE", "YIELDED"},
           pending = None \/ m \notin CandleItems
    PROVE  PortInv'
<1>1. /\ wire # << >> /\ m = wire[1] /\ wire' = Tail(wire)
      /\ UNCHANGED <<now, lastPush, silent, peer>>
  BY FlowTypes DEF Received, serverTime
<1>2. YieldInv' /\ LastCandleWindow' = LastCandleWindow
  <2>1. now.window \in Nat /\ now' = now
    BY <1>1, FlowTypes
  <2> QED BY <1>1, <2>1, YieldsGoOn
<1>3. /\ InOrder(pending', wire', lastPush, silent)
      /\ Within(pending', wire', LastCandleWindow, now.window)
      /\ peer = "SUBSCRIBED" => UpToDate(pending', wire', lastPush, silent, now.window)
  <2>1. wire \in Seq(Messages)
    BY FlowTypes
  <2>2. pending' \in {None, wire[1]} \/ (pending' = pending /\ wire[1] \notin CandleItems)
    BY <1>1
  <2> QED BY <1>1, <2>1, <2>2, ReadKeepsOrder DEF PortInv, FlowInv
<1>4. ASSUME peer \in {"HELLO", "READY"} PROVE Pushes(pending', wire') = {}
  <2>1. Pushes(pending, wire) = {}
    BY <1>4 DEF PortInv, FlowInv
  <2>2. \A i \in 1..Len(wire') : wire'[i] = wire[i + 1] /\ i + 1 \in 0..Len(wire) /\ i + 1 # 0
    BY <1>1, FlowTypes
  <2>3. 0 \in 0..Len(wire)
    BY FlowTypes
  <2>4. pending \notin CandleItems
    BY <2>1, <2>3 DEF Pushes, Item
  <2> QED BY <2>1, <2>2, <2>4 DEF Pushes, Item
<1>5. FlowInv'
  BY <1>1, <1>2, <1>3, <1>4 DEF PortInv, FlowInv
<1> QED BY <1>2, <1>5 DEF PortInv

\* The push of a later window closes the one being built: it was told to the end,
\* and the slots between the two were silent.
LEMMA Closes ==
    ASSUME TypeInv, PortInv, pc # "ENDED", pending # None,
           wire # << >>, wire[1] \in CandleItems, wire[1].window # pending.window
    PROVE  /\ pending.window < wire[1].window
           /\ wire[1].window <= now.window
           /\ pending.tick = lastPush[pending.window]
           /\ \A u \in pending.window + 1..wire[1].window - 1 : u \in silent
<1> DEFINE P == Pushes(pending, wire)
<1>1. /\ 0 \in P /\ Item(pending, wire, 0) = pending
      /\ 1 \in P /\ Item(pending, wire, 1) = wire[1]
  BY FlowTypes DEF Pushes, Item
<1>2. /\ pending.window <= wire[1].window
      /\ Told(pending, wire, lastPush, silent, 0, 1, wire[1].window)
  <2>1. 0 < 1
    OBVIOUS
  <2> QED BY <1>1, <2>1 DEF PortInv, FlowInv, InOrder
<1>3. \A w : ~Between(pending, wire, w, 0, 1)
  BY DEF Between, Pushes
<1>4. wire[1].window <= now.window
  BY <1>1 DEF PortInv, FlowInv, Within
<1>5. /\ pending.tick = lastPush[pending.window]
      /\ \A u \in pending.window + 1..wire[1].window - 1 : u \in silent
  BY <1>1, <1>2, <1>3 DEF Told
<1>6. pending.window \in Int /\ wire[1].window \in Int
  BY FlowTypes DEF CandleItems
<1> QED BY <1>2, <1>4, <1>5, <1>6

\* A push that is read keeps the relation to the contract: it is pending, or the one before it is
\* yielded, with a gap if a slot was skipped.
LEMMA PortCandle ==
    ASSUME TypeInv, PortInv, ReceiveCandle
    PROVE  PortInv'
<1>1. PICK m \in Messages : m.kind = "candle" /\ Received(m) /\ Buffer(m)
  BY DEF ReceiveCandle
<1>2. /\ wire # << >> /\ m = wire[1] /\ wire' = Tail(wire) /\ pending' = m /\ m \in CandleItems
      /\ UNCHANGED <<now, lastPush, silent, peer>>
      /\ pc = "RECEIVE"
  BY <1>1, FlowTypes, LinkConstants
     DEF Received, serverTime, Buffer, ReceiveCandle, Messages, CandleItems
<1>3. /\ InOrder(m, wire', lastPush, silent)
      /\ Within(m, wire', LastCandleWindow, now.window)
      /\ peer = "SUBSCRIBED" => UpToDate(m, wire', lastPush, silent, now.window)
  <2>1. wire \in Seq(Messages)
    BY FlowTypes
  <2>2. m \in {None, wire[1]}
    BY <1>2
  <2> QED BY <1>2, <2>1, <2>2, ReadKeepsOrder DEF PortInv, FlowInv
<1>4. peer \notin {"HELLO", "READY"}
  <2>1. 1 \in Pushes(pending, wire)
    BY <1>2, FlowTypes DEF Pushes, Item
  <2> QED BY <1>2, <2>1 DEF PortInv, FlowInv
<1>5. CASE pending # None /\ m.window # pending.window
  <2>1. /\ stream' = Append(stream, pending) /\ pc' = "YIELDED"
        /\ pending \in CandleItems /\ stream \in Seq(Items)
    BY <1>1, <1>5, FlowTypes DEF Buffer
  <2>2. /\ pending.window < m.window /\ m.window <= now.window
        /\ pending.tick = lastPush[pending.window]
        /\ \A u \in pending.window + 1..m.window - 1 : u \in silent
    BY <1>2, <1>5, Closes
  <2>3. LastWindowOf(stream') = pending.window /\ HasLast(stream')
    BY <2>1, CandleYielded
  <2>4. LastCandleWindow' = pending.window
    BY <2>3 DEF LastCandleWindow, LastWindowOf, IsCandle, Yielded
  <2>5. Last(stream') = pending /\ stream' # << >> /\ pending # Gap
    BY <2>1 DEF Last, CandleItems, Gap
  <2>6. m # None /\ pending.window \in Nat /\ m.window \in Nat /\ now.window \in Nat
    BY <1>2, <2>1, FlowTypes, NoneIsNoPush DEF CandleItems
  <2>7. Within(m, wire', pending.window, now.window)
    <3> SUFFICES ASSUME NEW i \in Pushes(m, wire')
                 PROVE  /\ pending.window < Item(m, wire', i).window
                        /\ Item(m, wire', i).window <= now.window
      BY DEF Within
    <3>1. Item(m, wire', i).window <= now.window /\ Item(m, wire', i).window \in Int
      BY <1>3 DEF Within, Pushes, CandleItems
    <3>2. m.window <= Item(m, wire', i).window
      <4>1. CASE i = 0
        BY <2>6, <4>1 DEF Item
      <4>2. CASE i # 0
        <5>1. 0 \in Pushes(m, wire') /\ Item(m, wire', 0) = m /\ 0 < i
          BY <1>2, <4>2, FlowTypes DEF Pushes, Item
        <5> QED BY <1>3, <5>1 DEF InOrder
      <4> QED BY <4>1, <4>2
    <3> QED BY <2>2, <2>6, <3>1, <3>2
  <2>8. FlowInv'
    BY <1>2, <1>3, <1>4, <2>1, <2>4, <2>7 DEF FlowInv
  <2>9. pending.window \in -1..now.window - 1
    BY <2>2, <2>6
  <2>10. YieldInv'
    BY <1>2, <2>1, <2>2, <2>3, <2>4, <2>5, <2>6, <2>9
       DEF YieldInv, Unbroken, YieldedCandlesAreClosed
  <2> QED BY <2>8, <2>10 DEF PortInv
<1>6. CASE pending = None \/ m.window = pending.window
  <2>1. stream' = stream /\ pc' = pc
    BY <1>1, <1>6 DEF Buffer
  <2>2. YieldInv' /\ LastCandleWindow' = LastCandleWindow
    <3>1. now.window \in Nat /\ now' = now
      BY <1>2, FlowTypes
    <3> QED BY <1>2, <1>6, <2>1, <3>1, YieldsGoOn
  <2>3. FlowInv'
    BY <1>2, <1>3, <1>4, <2>1, <2>2 DEF FlowInv
  <2> QED BY <2>2, <2>3 DEF PortInv
<1> QED BY <1>5, <1>6

\* Time passes, and nothing is pushed: nobody subscribed, or the feed stalls.
LEMMA PortTime ==
    ASSUME TypeInv, PortInv, pc # "ENDED", TimeLeft, now' = Later,
           UNCHANGED <<wire, lastPush, peer, pending, stream, pc>>,
           silent \ {Later.window} \subseteq silent',
           peer = "SUBSCRIBED" =>
               silent \subseteq silent' /\ (Later.window # now.window => Later.window \in silent')
    PROVE  PortInv'
<1>1. /\ Later.window \in {now.window, now.window + 1} /\ now.window \in Nat
      /\ Later.window \in Nat /\ now.window <= Later.window
  BY LaterIs, FlowTypes DEF TypeInv, TypeOK
<1>2. LastCandleWindow \in Int
  BY <1>1 DEF PortInv, YieldInv
<1>3. YieldInv' /\ LastCandleWindow' = LastCandleWindow
  BY <1>1, YieldsGoOn
<1>4. InOrder(pending, wire, lastPush, silent')
      /\ Within(pending, wire, LastCandleWindow, Later.window)
  BY <1>1, <1>2, TimeKeepsOrder DEF PortInv, FlowInv
<1>5. peer = "SUBSCRIBED" => UpToDate(pending, wire, lastPush, silent', Later.window)
  BY <1>1, StallKeepsUpToDate DEF PortInv, FlowInv
<1>6. FlowInv'
  BY <1>3, <1>4, <1>5 DEF PortInv, FlowInv
<1> QED BY <1>3, <1>6 DEF PortInv

\* Time passes, and a subscriber is pushed the slot.
LEMMA PortPush ==
    ASSUME TypeInv, PortInv, pc # "ENDED", Advance, peer = "SUBSCRIBED",
           UNCHANGED <<pending, stream, pc>>
    PROVE  PortInv'
<1> DEFINE c == [kind |-> "candle", window |-> Later.window, tick |-> Later.tick]
<1>1. /\ TimeLeft /\ now' = Later /\ peer' = peer
      /\ wire' = Append(wire, c)
      /\ lastPush' = [lastPush EXCEPT ![Later.window] = Later.tick]
      /\ silent' = silent \ {Later.window}
  BY DEF Advance, Send
<1>2. /\ Later \in [window: 0..LastWindow, tick: 1..Ticks]
      /\ Later.window \in {now.window, now.window + 1} /\ now.window \in Nat
      /\ Later.window \in Nat /\ now.window <= Later.window
  BY <1>1, LaterIs, FlowTypes DEF TypeInv, TypeOK
<1>3. c \in CandleItems /\ c.window = Later.window /\ c.tick = Later.tick
  BY <1>2 DEF CandleItems
<1> HIDE DEF c
<1>4. LastCandleWindow \in Int /\ LastCandleWindow < now.window
  BY <1>2 DEF PortInv, YieldInv
<1>5. YieldInv' /\ LastCandleWindow' = LastCandleWindow
  <2>1. \A u \in silent : u <= now.window - 1 => u \in silent'
    BY <1>1, <1>2
  <2>2. \A u \in 0..now.window - 1 : lastPush'[u] = lastPush[u]
    BY <1>1, <1>2, FlowTypes
  <2> QED BY <1>1, <1>2, <2>1, <2>2, YieldsGoOn
<1>6. /\ InOrder(pending, wire', lastPush', silent')
      /\ Within(pending, wire', LastCandleWindow, Later.window)
      /\ UpToDate(pending, wire', lastPush', silent', Later.window)
  <2>1. /\ InOrder(pending, wire, lastPush, silent)
        /\ Within(pending, wire, LastCandleWindow, now.window)
        /\ UpToDate(pending, wire, lastPush, silent, now.window)
    BY DEF PortInv, FlowInv
  <2>2. wire \in Seq(Messages) /\ lastPush \in [0..LastWindow -> Int]
    BY FlowTypes, LinkConstants
  <2>3. c.window \in {now.window, now.window + 1}
    BY <1>2, <1>3
  <2>4. LET lp2 == [lastPush EXCEPT ![c.window] = c.tick]
            sl2 == silent \ {c.window}
        IN /\ InOrder(pending, Append(wire, c), lp2, sl2)
           /\ Within(pending, Append(wire, c), LastCandleWindow, c.window)
           /\ UpToDate(pending, Append(wire, c), lp2, sl2, c.window)
    BY <1>2, <1>3, <1>4, <2>1, <2>2, <2>3, PushKeepsOrder
  <2> QED BY <1>1, <1>3, <2>4
<1>7. FlowInv'
  <2>1. pc # "GAP"
    BY DEF PortInv, FlowInv
  <2> QED BY <1>1, <1>5, <1>6, <2>1 DEF PortInv, FlowInv
<1> QED BY <1>5, <1>7 DEF PortInv

\* The server sends another message, or the connection dies.
LEMMA PortTalk ==
    ASSUME TypeInv, PortInv, pc # "ENDED", SendNoise \/ AnswerAuthenticate \/ Cut,
           UNCHANGED <<pending, stream, pc>>
    PROVE  PortInv'
<1>1. UNCHANGED <<now, lastPush, silent>> /\ pc # "GAP"
  BY DEF SendNoise, AnswerAuthenticate, Cut, Send, IsUp, serverTime, PortInv, FlowInv
<1>2. YieldInv' /\ LastCandleWindow' = LastCandleWindow
  <2>1. now.window \in Nat /\ now' = now
    BY <1>1, FlowTypes
  <2> QED BY <1>1, <2>1, YieldsGoOn
<1>3. wire \in Seq(Messages)
  BY FlowTypes
<1>4. ASSUME NEW kind \in Noise \cup {"authenticated", "rejected"}
      PROVE  [kind |-> kind] \notin CandleItems
  <2>1. kind # "candle"
    BY LinkConstants
  <2> QED BY <2>1 DEF CandleItems
<1>5. CASE SendNoise \/ AnswerAuthenticate
  <2>1. PICK kind \in Noise \cup {"authenticated", "rejected"} :
           wire' = Append(wire, [kind |-> kind])
    BY <1>5 DEF SendNoise, AnswerAuthenticate, Send
  <2>2. peer' = peer \/ (peer = "HELLO" /\ peer' = "READY")
    BY <1>5 DEF SendNoise, AnswerAuthenticate
  <2> DEFINE m == [kind |-> kind]
  <2>3. m \notin CandleItems
    BY <1>4
  <2> HIDE DEF m
  <2>4. wire' = Append(wire, m)
    BY <2>1 DEF m
  <2>5. /\ Pushes(pending, wire') = Pushes(pending, wire)
        /\ InOrder(pending, wire', lastPush, silent)
        /\ Within(pending, wire', LastCandleWindow, now.window)
        /\ peer = "SUBSCRIBED" => UpToDate(pending, wire', lastPush, silent, now.window)
    BY <1>3, <2>3, <2>4, OtherKeepsOrder DEF PortInv, FlowInv
  <2>6. FlowInv'
    BY <1>1, <1>2, <2>2, <2>5 DEF PortInv, FlowInv
  <2> QED BY <1>2, <2>6 DEF PortInv
<1>6. CASE Cut
  <2>1. PICK n \in 0..Len(wire) : wire' = SubSeq(wire, 1, n)
    BY <1>6 DEF Cut
  <2>2. /\ InOrder(pending, wire', lastPush, silent)
        /\ Within(pending, wire', LastCandleWindow, now.window)
    BY <1>3, <2>1, CutKeepsOrder DEF PortInv, FlowInv
  <2>3. peer' = "CUT"
    BY <1>6 DEF Cut
  <2>4. FlowInv'
    BY <1>1, <1>2, <2>2, <2>3 DEF PortInv, FlowInv
  <2> QED BY <1>2, <2>4 DEF PortInv
<1> QED BY <1>5, <1>6

\* The server keeps it: what it does to the connection the client learns of later.
LEMMA PortServer ==
    ASSUME TypeInv, PortInv, ServerStep
    PROVE  PortInv'
<1>1. pc # "ENDED" /\ UNCHANGED <<pending, stream, pc>> /\ Server
  BY DEF ServerStep, clientVars
<1>2. CASE Advance /\ peer # "SUBSCRIBED"
  <2>1. /\ TimeLeft /\ now' = Later /\ UNCHANGED <<wire, lastPush, peer>>
        /\ silent' = silent \ {Later.window}
    BY <1>2 DEF Advance
  <2> QED BY <1>1, <1>2, <2>1, PortTime
<1>3. CASE Advance /\ peer = "SUBSCRIBED"
  BY <1>1, <1>3, PortPush
<1>4. CASE Stall
  <2>1. /\ TimeLeft /\ now' = Later /\ UNCHANGED <<wire, lastPush, peer>>
        /\ silent' = IF Later.tick = 1 THEN silent \cup {Later.window} ELSE silent
    BY <1>4 DEF Stall
  <2>2. Later.window # now.window => Later.tick = 1
    BY <2>1, LaterIs DEF TypeInv, TypeOK
  <2> QED BY <1>1, <2>1, <2>2, PortTime
<1> QED BY <1>1, <1>2, <1>3, <1>4, PortTalk DEF Server

\* How a step ends the stream, or takes it through a new or a lost connection.
LEMMA PortUnwinds ==
    ASSUME \/ LoginFails \/ OpenFails \/ AuthenticationFails \/ HandshakeLost
           \/ SubscribeFails \/ BackoffOverflows \/ SessionRaises \/ ReceiveMalformed
           \/ Interrupt
    PROVE  Unwound /\ UNCHANGED <<now, silent>>
BY DEF LoginFails, OpenFails, AuthenticationFails, HandshakeLost, SubscribeFails,
       BackoffOverflows, SessionRaises, ReceiveMalformed, Interrupt, Raise, RaiseOnRead,
       disconnect, OpenSocket, Lost, linkVars, serverTime

\* A lost connection keeps it, as does one that is opened again, from whichever window it pushes,
LEMMA PortReopens ==
    ASSUME TypeInv, PortInv, OpenTransport \/ Reconnect \/ ReceiveLost
    PROVE  PortInv'
<1>1. /\ pc # "ENDED" /\ wire' = << >> /\ pending' = None /\ UNCHANGED <<now, silent>>
      /\ (stream' = stream /\ pending = None) \/ stream' = Append(stream, Gap)
      /\ pc' \notin {"YIELDED", "ENDED"}
      /\ pc' = "GAP" => peer' = "CUT"
  <2>1. pc \notin {"RECEIVE", "YIELDED", "ENDED"} => pending = None
    BY DEF PortInv, FlowInv
  <2>2. pc = "GAP" => wire = << >>
    BY DEF PortInv, FlowInv
  <2> QED
    BY <2>1, <2>2
       DEF OpenTransport, OpenSocket, Reconnect, disconnect, ReceiveLost, Lost, AnnounceGap,
           serverTime
<1> QED BY <1>1, PortEmpties

\* and so does every other step.
LEMMA PortStep ==
    ASSUME TypeInv, PortInv, [Next]_vars
    PROVE  PortInv'
<1>1. CASE Login \/ SubscribeCandles \/ Resume
  BY <1>1, PortGoesOn
<1>2. CASE \/ LoginFails \/ OpenFails \/ AuthenticationFails \/ HandshakeLost
           \/ SubscribeFails \/ BackoffOverflows \/ SessionRaises \/ ReceiveMalformed
           \/ Interrupt
  BY <1>2, PortUnwinds, PortEnds
<1>3. CASE OpenTransport \/ Reconnect \/ ReceiveLost
  BY <1>3, PortReopens
<1>4. CASE Authenticated \/ SkipMessage
  <2>1. PICK m \in Messages : Received(m)
    BY <1>4 DEF Authenticated, SkipMessage
  <2>2. /\ pc = "AUTH" /\ pending' = pending /\ stream' = stream
        /\ pc' \in {"AUTH", "SUBSCRIBE"}
    BY <1>4 DEF Authenticated, SkipMessage
  <2>3. pending = None
    BY <2>2 DEF PortInv, FlowInv
  <2> QED BY <2>1, <2>2, <2>3, PortReads
<1>5. CASE ReceiveTimeSync \/ ReceiveOther
  <2>1. PICK m \in Messages : Received(m) /\ m \notin CandleItems
    BY <1>5 DEF ReceiveTimeSync, ReceiveOther, CandleItems
  <2>2. pc = "RECEIVE" /\ UNCHANGED <<pc, pending, stream>>
    BY <1>5 DEF ReceiveTimeSync, ReceiveOther, clientVars
  <2> QED BY <2>1, <2>2, PortReads
<1>6. CASE UNCHANGED vars
  BY <1>6 DEF vars, linkVars, serverTime, clientVars, PortInv, FlowInv, YieldInv,
              LastCandleWindow, IsCandle, Unbroken, YieldedCandlesAreClosed
<1> QED
  BY <1>1, <1>2, <1>3, <1>4, <1>5, <1>6, PortCandle, PortServer
     DEF Next, Client, Connect, Stream

\* The invariant behind the two theorems that follow: pushes are read in the order
\* in which they were sent, so that what is missing is silent or announced.
THEOREM PortInvariance == Spec => [](TypeInv /\ PortInv)
<1>1. Init => PortInv
  <2> SUFFICES ASSUME Init PROVE PortInv
    OBVIOUS
  <2>1. Pushes(pending, wire) = {}
    BY NoneIsNoPush DEF Init, LinkInit, Pushes, Item
  <2>2. FlowInv
    BY <2>1, NothingUnderWay DEF Init, FlowInv
  <2>3. LastCandleWindow = -1 /\ HasLast(stream)
    BY DEF Init, LastCandleWindow, HasLast, Yielded
  <2>4. YieldInv
    BY <2>3 DEF Init, LinkInit, YieldInv, Unbroken, YieldedCandlesAreClosed
  <2> QED BY <2>2, <2>4 DEF PortInv
<1>2. TypeInv /\ PortInv /\ [Next]_vars => PortInv'
  BY PortStep
<1> QED BY <1>1, <1>2, FeedInvariance, PTL DEF Spec

\* A candle is yielded with the last push its window was given, never with a
\* state it had while it was being built or when a connection died.
THEOREM YieldedAlwaysClosed == Spec => []YieldedCandlesAreClosed
<1>1. PortInv => YieldedCandlesAreClosed
  BY DEF PortInv, YieldInv
<1> QED BY <1>1, PortInvariance, PTL

-----------------------------------------------------------------------------
(* CandleStream. *)

SilentPast == {w \in silent : w < now.window}

\* A step in which nothing is yielded and the stream goes on.
LEMMA PortWaits ==
    ASSUME stream' = stream, pc' = "ENDED" <=> pc = "ENDED", SilentPast \subseteq SilentPast'
    PROVE  Port!Next
<1>1. LastCandleWindow' = LastCandleWindow
  BY DEF LastCandleWindow, IsCandle
<1> QED BY <1>1 DEF Port!Next, Port!PassInSilence, SilentPast

\* Windows that passed in silence stay so.
LEMMA PortTimePasses ==
    ASSUME TypeInv, ServerStep
    PROVE  SilentPast \subseteq SilentPast'
<1>1. now.window \in Nat
  BY FlowTypes
<1>2. CASE Advance \/ Stall
  <2>1. TimeLeft /\ now' = Later /\ silent \ {Later.window} \subseteq silent'
    BY <1>2 DEF Advance, Stall
  <2>2. Later.window \in {now.window, now.window + 1}
    BY <2>1, LaterIs DEF TypeInv, TypeOK
  <2>3. silent \subseteq 0..LastWindow
    BY DEF TypeInv, TypeOK, LinkTypeOK
  <2> SUFFICES ASSUME NEW w \in silent, w < now.window
               PROVE  w \in silent' /\ w < Later.window
    BY <2>1 DEF SilentPast
  <2>4. w \in Int
    BY <2>3, LinkConstants
  <2> QED BY <1>1, <2>1, <2>2, <2>4
<1>3. CASE SendNoise \/ AnswerAuthenticate \/ Cut
  BY <1>3 DEF SendNoise, AnswerAuthenticate, Cut, serverTime, SilentPast
<1> QED BY <1>2, <1>3 DEF ServerStep, Server

\* What a push yields is a step of the contract.
LEMMA PortDelivers ==
    ASSUME TypeInv, PortInv, ReceiveCandle
    PROVE  Port!Next
<1>1. PICK m \in Messages : m.kind = "candle" /\ Received(m) /\ Buffer(m)
  BY DEF ReceiveCandle
<1>2. /\ wire # << >> /\ m = wire[1] /\ m \in CandleItems
      /\ UNCHANGED <<now, silent>>
      /\ pc = "RECEIVE"
  BY <1>1, FlowTypes, LinkConstants
     DEF Received, serverTime, Buffer, ReceiveCandle, Messages, CandleItems
<1>3. CASE pending # None /\ m.window # pending.window
  <2>1. /\ stream' = Append(stream, pending) /\ pc' = "YIELDED"
        /\ pending \in CandleItems /\ stream \in Seq(Items)
    BY <1>1, <1>3, FlowTypes DEF Buffer
  <2>2. LastWindowOf(stream') = pending.window
    BY <2>1, CandleYielded
  <2>3. LastCandleWindow' = pending.window
    BY <2>2 DEF LastCandleWindow, LastWindowOf, IsCandle, Yielded
  <2>4. stream' # << >> /\ Last(stream') # Gap
    BY <2>1 DEF Last, CandleItems, Gap
  <2>5. pending.window \in Nat /\ pending.window < now.window /\ LastCandleWindow < pending.window
    <3>1. pending.window < m.window /\ m.window <= now.window
      BY <1>2, <1>3, Closes
    <3>2. 0 \in Pushes(pending, wire) /\ Item(pending, wire, 0) = pending
      BY <2>1, FlowTypes DEF Pushes, Item
    <3> QED
      BY <1>2, <2>1, <3>1, <3>2, FlowTypes DEF PortInv, FlowInv, Within, CandleItems
  <2>6. Unbroken => \A u \in LastCandleWindow + 1..pending.window - 1 : u \in SilentPast
    <3>1. Unbroken => \A u \in LastCandleWindow + 1..pending.window - 1 : u \in silent
      BY <1>2 DEF PortInv, YieldInv
    <3>2. LastCandleWindow \in Int /\ now.window \in Nat
      BY FlowTypes DEF PortInv, YieldInv
    <3> QED BY <2>5, <3>1, <3>2 DEF SilentPast
  <2>7. SilentPast' = SilentPast
    BY <1>2 DEF SilentPast
  <2>8. Port!Deliver
    BY <1>2, <2>1, <2>3, <2>4, <2>5, <2>6, <2>7 DEF Port!Deliver, SilentPast, Unbroken
  <2> QED BY <2>8 DEF Port!Next
<1>4. CASE pending = None \/ m.window = pending.window
  <2>1. stream' = stream /\ pc' = pc
    BY <1>1, <1>4 DEF Buffer
  <2>2. SilentPast' = SilentPast
    BY <1>2 DEF SilentPast
  <2> QED BY <2>1, <2>2, PortWaits
<1> QED BY <1>3, <1>4

\* The adapter keeps the promise of its port: candles in order, none twice, and
\* no slot skipped without a GapMarker but in silence, whatever the connections do.
THEOREM FeedImplementsCandleStream == Spec => ImplementsCandleStream
<1>1. Init => Port!Init
  <2> SUFFICES ASSUME Init PROVE Port!Init
    OBVIOUS
  <2>1. LastCandleWindow = -1
    BY DEF Init, LastCandleWindow
  <2>2. silent = {} /\ stream = << >> /\ pc = "LOGIN"
    BY DEF Init, LinkInit
  <2> QED BY <2>1, <2>2 DEF Port!Init
<1>2. TypeInv /\ PortInv /\ [Next]_vars => [Port!Next]_(Port!streamVars)
  <2> SUFFICES ASSUME TypeInv, PortInv, [Next]_vars PROVE Port!Next
    OBVIOUS
  <2>1. CASE \/ Login \/ SubscribeCandles \/ Resume \/ OpenTransport \/ Reconnect
             \/ Authenticated \/ SkipMessage \/ ReceiveTimeSync \/ ReceiveOther
             \/ UNCHANGED vars
    <3>1. stream' = stream /\ UNCHANGED <<now, silent>> /\ (pc' = "ENDED" <=> pc = "ENDED")
      BY <2>1 DEF Login, SubscribeCandles, Resume, OpenTransport, Reconnect, Authenticated,
                  SkipMessage, ReceiveTimeSync, ReceiveOther, vars, linkVars, serverTime,
                  clientVars, Subscribed, OpenSocket, disconnect, Received
    <3>2. SilentPast' = SilentPast
      BY <3>1 DEF SilentPast
    <3> QED BY <3>1, <3>2, PortWaits
  <2>2. CASE \/ LoginFails \/ OpenFails \/ AuthenticationFails \/ HandshakeLost
             \/ SubscribeFails \/ BackoffOverflows \/ SessionRaises \/ ReceiveMalformed
             \/ Interrupt
    <3>1. pc' = "ENDED" /\ stream' = stream /\ UNCHANGED <<now, silent>>
      BY <2>2, PortUnwinds DEF Unwound
    <3> QED BY <3>1 DEF Port!Next, Port!End, LastCandleWindow, IsCandle
  <2>3. CASE ReceiveLost
    <3>1. /\ pc = "RECEIVE" /\ pc' = "GAP" /\ stream' = Append(stream, Gap)
          /\ UNCHANGED <<now, silent>>
      BY <2>3 DEF ReceiveLost, AnnounceGap, Lost
    <3>2. stream \in Seq(Items) /\ HasLast(stream)
      BY FlowTypes DEF PortInv, YieldInv
    <3>3. LastWindowOf(stream') = LastWindowOf(stream)
      BY <3>1, <3>2, GapYielded
    <3>4. LastCandleWindow' = LastCandleWindow
      BY <3>3 DEF LastCandleWindow, LastWindowOf, IsCandle, Yielded
    <3>5. Last(stream') = Gap
      BY <3>1, <3>2 DEF Last
    <3> QED BY <3>1, <3>4, <3>5 DEF Port!Next, Port!Break
  <2>4. CASE ServerStep
    <3>1. stream' = stream /\ pc' = pc
      BY <2>4 DEF ServerStep, clientVars
    <3> QED BY <2>4, <3>1, PortTimePasses, PortWaits
  <2> QED
    BY <2>1, <2>2, <2>3, <2>4, PortDelivers DEF Next, Client, Connect, Stream
<1> QED BY <1>1, <1>2, PortInvariance, PTL DEF Spec, ImplementsCandleStream, Port!Spec
=============================================================================
