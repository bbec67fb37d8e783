------------------------------- MODULE WsLink -------------------------------
(***************************************************************************)
(* One WebSocket connection at a time between adapters/exnova/ws_client.py *)
(* and the Exnova server.  The server is external: what it may send is     *)
(* what docs/spike-report.md recorded and what the client guards against.  *)
(*                                                                         *)
(* A candle window is built of Ticks pushes, the last of which carries its *)
(* closing state.  Messages arrive in order and none is lost while the     *)
(* connection stands; a connection that dies loses any tail of them.       *)
(***************************************************************************)
EXTENDS Integers, Sequences, SequencesExt

CONSTANTS
    Ticks,       \* pushes per window
    LastWindow,  \* bound: the last window the server opens
    MaxWire,     \* bound: messages in flight
    Noise        \* kinds of other messages the server sends

ASSUME LinkConstants ==
    /\ Ticks \in Nat \ {0}
    /\ LastWindow \in Nat
    /\ MaxWire \in Nat \ {0}
    /\ Noise \subseteq {"timeSync", "front", "garbage", "malformed"}

VARIABLES
    now,        \* the server's current window and the pushes it is built of
    peer,       \* the server's end of the connection
    wire,       \* messages sent and not yet received
    transport,  \* _transport is not None
    sockets,    \* connections the client has opened and not closed
    lastPush,   \* history: the last push of each window on this connection, or 0
    silent      \* history: the windows a subscriber has been told nothing of

serverTime == <<now, lastPush, silent>>
linkVars == <<serverTime, peer, wire, transport, sockets>>

Messages == [kind: {"authenticated", "rejected"} \cup Noise]
            \cup [kind: {"candle"}, window: 0..LastWindow, tick: 1..Ticks]

LinkTypeOK ==
    /\ now \in [window: 0..LastWindow, tick: 1..Ticks]
    /\ peer \in {"NONE", "HELLO", "READY", "SUBSCRIBED", "CUT"}
    /\ wire \in Seq(Messages) /\ Len(wire) <= MaxWire
    /\ transport \in BOOLEAN
    /\ sockets \in Nat
    /\ lastPush \in [0..LastWindow -> 0..Ticks]
    /\ silent \subseteq 0..LastWindow

NoPush == [w \in 0..LastWindow |-> 0]

LinkInit ==
    /\ now = [window |-> 0, tick |-> 1]
    /\ peer = "NONE"
    /\ wire = << >>
    /\ transport = FALSE
    /\ sockets = 0
    /\ lastPush = NoPush
    /\ silent = {}

-----------------------------------------------------------------------------
(* The server. *)

IsUp == peer \in {"HELLO", "READY", "SUBSCRIBED"}

Send(m) == IsUp /\ Len(wire) < MaxWire /\ wire' = Append(wire, m)

Later == IF now.tick < Ticks THEN [now EXCEPT !.tick = @ + 1]
         ELSE [window |-> now.window + 1, tick |-> 1]

TimeLeft == now.tick < Ticks \/ now.window < LastWindow

\* Time moves to the next push slot; a subscriber gets the push.
Advance ==
    /\ TimeLeft
    /\ now' = Later
    /\ IF peer = "SUBSCRIBED"
       THEN /\ Send([kind |-> "candle", window |-> Later.window, tick |-> Later.tick])
            /\ lastPush' = [lastPush EXCEPT ![Later.window] = Later.tick]
       ELSE UNCHANGED <<wire, lastPush>>
    /\ silent' = silent \ {Later.window}
    /\ UNCHANGED <<peer, transport, sockets>>

\* Time moves on and a subscriber gets nothing, for any number of slots, but
\* not for ever: the last window is pushed.
Stall ==
    /\ TimeLeft /\ Later.window < LastWindow
    /\ peer = "SUBSCRIBED"
    /\ now' = Later
    /\ silent' = IF Later.tick = 1 THEN silent \cup {Later.window} ELSE silent
    /\ UNCHANGED <<peer, wire, transport, sockets, lastPush>>

\* Any other message; bound: one of them in flight.
SendNoise ==
    /\ \A i \in DOMAIN wire : wire[i].kind \notin Noise
    /\ \E kind \in Noise : Send([kind |-> kind])
    /\ UNCHANGED <<serverTime, peer, transport, sockets>>

AnswerAuthenticate ==
    /\ peer = "HELLO"
    /\ peer' = "READY"
    /\ \E kind \in {"authenticated", "rejected"} : Send([kind |-> kind])
    /\ UNCHANGED <<serverTime, transport, sockets>>

\* The connection dies under way.
Cut ==
    /\ IsUp
    /\ peer' = "CUT"
    /\ \E n \in 0..Len(wire) : wire' = SubSeq(wire, 1, n)
    /\ UNCHANGED <<serverTime, transport, sockets>>

Server == Advance \/ Stall \/ SendNoise \/ AnswerAuthenticate \/ Cut

-----------------------------------------------------------------------------
(* ExnovaWsClient.  Each names what one call does to the link. *)

\* connect: the new transport replaces whatever _transport held.
OpenSocket ==
    /\ transport' = TRUE
    /\ sockets' = sockets + 1
    /\ peer' = "HELLO"
    /\ wire' = << >>
    /\ UNCHANGED serverTime

\* Mutant: the transport is dropped without being closed.
ForgetSocket ==
    /\ transport' = FALSE
    /\ UNCHANGED <<serverTime, peer, wire, sockets>>

\* disconnect: closes the transport if there is one.
disconnect ==
    /\ transport' = FALSE
    /\ sockets' = IF transport THEN sockets - 1 ELSE sockets
    /\ peer' = IF transport THEN "NONE" ELSE peer
    /\ wire' = IF transport THEN << >> ELSE wire
    /\ lastPush' = NoPush
    /\ UNCHANGED <<now, silent>>

\* subscribe: the request reaches the server unless the connection is dead.
Subscribed ==
    /\ peer' = IF peer = "READY" THEN "SUBSCRIBED" ELSE peer
    /\ UNCHANGED <<serverTime, wire, transport, sockets>>

\* _recv returns m: a message, in JSON.
Received(m) ==
    /\ wire # << >>
    /\ m = Head(wire) /\ m.kind # "garbage"
    /\ wire' = Tail(wire)
    /\ UNCHANGED <<serverTime, peer, transport, sockets>>

\* _recv raises WsConnectionLost: nothing came in time, the connection is
\* dead, or what came is not JSON.  Nobody reads this connection any more.
Lost ==
    /\ wire # << >> => Head(wire).kind = "garbage"
    /\ wire' = << >>
    /\ peer' = "CUT"
    /\ lastPush' = NoPush
    /\ UNCHANGED <<now, silent, transport, sockets>>
=============================================================================
