----------------------------- MODULE ExnovaFeed -----------------------------
(***************************************************************************)
(* adapters/exnova/market_data.py: the ExnovaMarketDataAdapter and its     *)
(* generator stream_closed_candles, as run_session (cli/run.py) drives it: *)
(* connect, then the stream, then a `finally' that disconnects.            *)
(*                                                                         *)
(* `pc' is where the client is.  Every blocking call is a step of its own, *)
(* because the server moves on meanwhile.                                  *)
(***************************************************************************)
EXTENDS WsLink, Backoff

CONSTANTS
    MAX_AUTH_SKIP,  \* _MAX_AUTH_SKIP
    MaxGaps,        \* bound: connections lost while streaming
    None

Exits == {"LoginError", "AuthenticationError", "WsConnectionLost", "TransportError",
          "MappingError", "OverflowError", "SessionError", "KeyboardInterrupt"}

ASSUME FeedConstants ==
    /\ MAX_AUTH_SKIP \in Nat \ {0}
    /\ MaxGaps \in Nat
    /\ None \notin Messages \cup Exits

VARIABLES
    pc,          \* where the client is
    connected,   \* _connected
    inStream,    \* run_session is past connect and inside its try
    authReads,   \* messages read by the authenticate handshake
    attempt,     \* attempt
    pending,     \* pending_candle
    stream,      \* everything the generator has yielded
    upper,       \* upper bound of the last backoff delay, 0 before the first
    heard,       \* attempt was reset since that delay
    exit         \* the exception that ended run_session, or None

clientVars == <<pc, connected, inStream, authReads, attempt, pending, stream, upper, heard, exit>>
vars == <<linkVars, clientVars>>

CandleItems == [kind: {"candle"}, window: 0..LastWindow, tick: 1..Ticks]
Gap == [kind |-> "gap"]
Gaps == Cardinality({i \in DOMAIN stream : stream[i] = Gap})

TypeOK ==
    /\ LinkTypeOK
    /\ pc \in {"LOGIN", "OPEN", "AUTH", "SUBSCRIBE", "RECEIVE", "YIELDED", "GAP", "ENDED"}
    /\ connected \in BOOLEAN /\ inStream \in BOOLEAN /\ heard \in BOOLEAN
    /\ authReads \in 0..MAX_AUTH_SKIP
    /\ attempt \in 0..MaxGaps
    /\ pending \in CandleItems \cup {None}
    /\ stream \in Seq(CandleItems \cup {Gap})
    /\ upper \in 0..CapS
    /\ exit \in Exits \cup {None}

Init ==
    /\ LinkInit
    /\ pc = "LOGIN"
    /\ connected = FALSE /\ inStream = FALSE
    /\ authReads = 0 /\ attempt = 0
    /\ pending = None
    /\ stream = << >>
    /\ upper = 0 /\ heard = FALSE
    /\ exit = None

-----------------------------------------------------------------------------
\* The locals of the generator and of the handshake are gone with it.
Unwound ==
    /\ pc' = "ENDED"
    /\ connected' = FALSE
    /\ authReads' = 0 /\ attempt' = 0
    /\ pending' = None
    /\ upper' = 0 /\ heard' = FALSE
    /\ UNCHANGED <<inStream, stream>>

\* An exception leaves the generator and run_session.  Its `finally' calls
\* the adapter's disconnect, which does nothing unless _connected; connect is
\* called before the `try'.
Raise(error) ==
    /\ Unwound
    /\ exit' = error
    /\ IF inStream /\ connected THEN disconnect ELSE UNCHANGED linkVars

\* An exception raised by a read: the message is gone, then as above.
RaiseOnRead(error) ==
    /\ Unwound
    /\ exit' = error
    /\ IF inStream /\ connected THEN disconnect
       ELSE /\ wire' = Tail(wire)
            /\ UNCHANGED <<serverTime, peer, transport, sockets>>

(* connect *)

Login ==
    /\ pc = "LOGIN"
    /\ pc' = "OPEN"
    /\ UNCHANGED <<linkVars, connected, inStream, authReads, attempt, pending, stream,
                   upper, heard, exit>>

LoginFails == pc = "LOGIN" /\ Raise("LoginError")

\* The transport opens and `authenticate' is sent.
OpenTransport ==
    /\ pc = "OPEN"
    /\ OpenSocket
    /\ pc' = "AUTH"
    /\ authReads' = 0
    /\ UNCHANGED <<connected, inStream, attempt, pending, stream, upper, heard, exit>>

\* The transport does not open, or opens and fails to send.
OpenFails ==
    /\ pc = "OPEN"
    /\ Unwound
    /\ exit' = "TransportError"
    /\ OpenSocket \/ UNCHANGED linkVars

Authenticated ==
    /\ pc = "AUTH"
    /\ \E m \in Messages : m.kind = "authenticated" /\ Received(m)
    /\ pc' = "SUBSCRIBE"
    /\ connected' = TRUE /\ inStream' = TRUE
    /\ UNCHANGED <<authReads, attempt, pending, stream, upper, heard, exit>>

IsNoise(m) == m.kind \in {"timeSync", "front", "malformed", "candle"}

\* Mutant: the handshake skips other messages for ever.
SkipsForEver ==
    /\ pc = "AUTH"
    /\ \E m \in Messages : IsNoise(m) /\ Received(m)
    /\ UNCHANGED clientVars

\* Another message before the confirmation, and reads are left.
SkipMessage ==
    /\ pc = "AUTH"
    /\ authReads + 1 < MAX_AUTH_SKIP
    /\ \E m \in Messages : IsNoise(m) /\ Received(m)
    /\ authReads' = authReads + 1
    /\ UNCHANGED <<pc, connected, inStream, attempt, pending, stream, upper, heard, exit>>

\* A rejection, or the last read spent on another message.
AuthenticationFails ==
    /\ pc = "AUTH"
    /\ wire # << >>
    /\ \/ Head(wire).kind = "rejected"
       \/ IsNoise(Head(wire)) /\ authReads + 1 = MAX_AUTH_SKIP
    /\ RaiseOnRead("AuthenticationError")

\* The connection is lost during the handshake; connect does not catch it.
HandshakeLost ==
    /\ pc = "AUTH"
    /\ Lost
    /\ Unwound
    /\ exit' = "WsConnectionLost"

(* stream_closed_candles *)

SubscribeCandles ==
    /\ pc = "SUBSCRIBE"
    /\ Subscribed
    /\ pc' = "RECEIVE"
    /\ UNCHANGED <<connected, inStream, authReads, attempt, pending, stream, upper, heard, exit>>

SubscribeFails ==
    /\ pc = "SUBSCRIBE"
    /\ peer = "CUT"
    /\ Raise("TransportError")

\* Mutant: a push of another window is dropped.
IgnoresRollover(m) ==
    /\ pending' = IF pending # None THEN pending ELSE m
    /\ UNCHANGED <<stream, pc>>

\* Another state of the window being built replaces it; a push of another
\* window closes it: it is yielded, and the new window is being built.
Buffer(m) ==
    /\ pending' = m
    /\ IF pending # None /\ m.window # pending.window
       THEN stream' = Append(stream, pending) /\ pc' = "YIELDED"
       ELSE UNCHANGED <<stream, pc>>

\* Mutant: only the loss of a connection touches the attempts.
CountsEveryLoss == heard' = TRUE /\ UNCHANGED attempt

\* The server has been heard: the next loss counts as the first.
Heard == attempt' = 0 /\ heard' = TRUE

ReceiveCandle ==
    /\ pc = "RECEIVE"
    /\ \E m \in Messages : /\ m.kind = "candle"
                           /\ Received(m)
                           /\ Buffer(m)
    /\ Heard
    /\ UNCHANGED <<connected, inStream, authReads, upper, exit>>

ReceiveTimeSync ==
    /\ pc = "RECEIVE"
    /\ \E m \in Messages : m.kind = "timeSync" /\ Received(m)
    /\ Heard
    /\ UNCHANGED <<pc, connected, inStream, authReads, pending, stream, upper, exit>>

\* A push of another kind, or of another active_id.
ReceiveOther ==
    /\ pc = "RECEIVE"
    /\ \E m \in Messages : m.kind = "front" /\ Received(m)
    /\ UNCHANGED clientVars

\* A candle push that mapping.to_candle refuses.
ReceiveMalformed ==
    /\ pc = "RECEIVE"
    /\ wire # << >> /\ Head(wire).kind = "malformed"
    /\ RaiseOnRead("MappingError")

\* Mutant: the window being built survives the lost connection.
KeepsPending ==
    /\ attempt' = attempt + 1
    /\ stream' = Append(stream, Gap)
    /\ pc' = "GAP"
    /\ UNCHANGED pending
\* Mutant: only the first of several lost connections is announced.
AnnouncesOnce ==
    /\ attempt' = attempt + 1
    /\ pending' = None
    /\ stream' = IF Gaps = 0 THEN Append(stream, Gap) ELSE stream
    /\ pc' = "GAP"

\* The handler of WsConnectionLost up to its yield.
AnnounceGap ==
    /\ attempt' = attempt + 1
    /\ pending' = None
    /\ stream' = Append(stream, Gap)
    /\ pc' = "GAP"

ReceiveLost ==
    /\ pc = "RECEIVE"
    /\ Gaps < MaxGaps
    /\ Lost
    /\ AnnounceGap
    /\ UNCHANGED <<connected, inStream, authReads, upper, heard, exit>>

\* _reconnect up to connect: sleep, drop the connection, _connected = False.
Reconnect ==
    /\ pc = "GAP"
    /\ ~Overflows(attempt)
    /\ upper' = backoff_upper(attempt)
    /\ heard' = FALSE
    /\ disconnect
    /\ connected' = FALSE
    /\ pc' = "LOGIN"
    /\ UNCHANGED <<inStream, authReads, attempt, pending, stream, exit>>

BackoffOverflows ==
    /\ pc = "GAP"
    /\ Overflows(attempt)
    /\ Raise("OverflowError")

(* The consumer: run_session's loop body. *)

Resume ==
    /\ pc = "YIELDED"
    /\ pc' = "RECEIVE"
    /\ UNCHANGED <<linkVars, connected, inStream, authReads, attempt, pending, stream,
                   upper, heard, exit>>

SessionRaises == pc = "YIELDED" /\ Raise("SessionError")

\* Ctrl-C, in any call that blocks or in the loop body.
Interrupt == pc # "ENDED" /\ Raise("KeyboardInterrupt")

Connect == \/ Login \/ LoginFails \/ OpenTransport \/ OpenFails
           \/ Authenticated \/ SkipMessage \/ AuthenticationFails \/ HandshakeLost
Stream  == \/ SubscribeCandles \/ SubscribeFails
           \/ ReceiveCandle \/ ReceiveTimeSync \/ ReceiveOther \/ ReceiveMalformed
           \/ ReceiveLost \/ Reconnect \/ BackoffOverflows
           \/ Resume \/ SessionRaises
Client  == Connect \/ Stream

\* The server, which stays sound once the bound on lost connections is used
\* up, and does not matter any more once the client has ended.
ServerStep ==
    /\ Server
    /\ pc # "ENDED"
    /\ Gaps = MaxGaps => /\ peer' # "CUT"
                         /\ \A i \in DOMAIN wire' : wire'[i].kind # "garbage"
    /\ UNCHANGED clientVars

Next == Client \/ Interrupt \/ ServerStep

Spec == Init /\ [][Next]_vars

\* The client's thread runs on: a recv returns or times out.  The server's
\* clock runs on, whatever else it sends.
FairSpec == Spec /\ WF_vars(Client) /\ SF_vars(Advance /\ UNCHANGED clientVars)

-----------------------------------------------------------------------------
IsCandle(i) == stream[i].kind = "candle"

\* A yielded candle is the closed window: it carries the last push of its
\* window, never a state it had while it was being built or when a connection
\* died, whatever pushes the server leaves out (market_data.py:175, 192).
YieldedCandlesAreClosed ==
    pc = "YIELDED" => Last(stream).tick = lastPush[Last(stream).window]

\* The adapter implements the MarketDataPort: CandleStream, told by the last
\* candle it yielded.  Candles come in order, none twice, and no slot is
\* skipped without a GapMarker but those in which a live connection brought
\* nothing: a connection that stalls is not announced (market_data.py:192).
LastCandleWindow ==
    LET yielded == {i \in DOMAIN stream : IsCandle(i)}
    IN IF yielded = {} THEN -1 ELSE stream[Max(yielded)].window
Port == INSTANCE CandleStream WITH
    last     <- LastCandleWindow,
    unbroken <- stream # << >> /\ Last(stream) # Gap,
    over     <- pc = "ENDED",
    silent   <- {w \in silent : w < now.window}
ImplementsCandleStream == Port!Spec

\* The client never holds a connection it no longer refers to, through any
\* number of failed handshakes and reconnects.
NoOrphanSocket == sockets = IF transport THEN 1 ELSE 0

\* What the documentation says of a lost connection, and the code does not do.
\*
\* run.py:31: "via a `finally`, so a mid-stream exception still disconnects".
ExceptionStillDisconnects == pc = "ENDED" /\ inStream => ~transport

\* README.md:159: "On a feed gap or dropped connection, the adapter
\* automatically reconnects (exponential backoff with full jitter)": a
\* reconnect that fails is not the end of the stream.
DropsAreRetried ==
    pc = "ENDED" /\ Gaps > 0 =>
        exit \notin {"LoginError", "AuthenticationError", "WsConnectionLost", "TransportError"}

\* The first wait after the server was heard is bounded by 2 seconds, since the
\* attempt is counted before it is used (market_data.py:170); while the server
\* stays silent, each wait is bounded by twice the bound of the one before, up
\* to the cap.
AtMostCap(bound) == IF bound > CapS THEN CapS ELSE bound
BackoffGrowsWhileSilent ==
    [][pc = "GAP" /\ pc' = "LOGIN" =>
         upper' = AtMostCap(IF heard \/ upper = 0 THEN 2 ELSE 2 * upper)]_vars

\* The delay overflows only after as many lost connections in a row as a float
\* has binary exponents, with no candle between them (reconnect.py:52).
OverflowNeedsSilence ==
    exit = "OverflowError" =>
        /\ Len(stream) >= FloatBits
        /\ \A i \in Len(stream) - FloatBits + 1..Len(stream) : stream[i] = Gap

\* A lost connection is either resumed or ends the stream with an exception:
\* the client never hangs in a reconnect, even with a server that answers the
\* handshake with anything but its result.
LossIsResolved == pc = "GAP" ~> pc \in {"RECEIVE", "ENDED"}

\* A window is never held back for ever: infinitely often the client waits for
\* none, or for the last one there is, or has ended.  Windows only move on, so
\* each one is yielded, or given up with its connection.
EveryWindowCloses == []<>(pc = "ENDED" \/ pending = None \/ pending.window = LastWindow)
=============================================================================
