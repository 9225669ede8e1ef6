------------------------------ MODULE FeedServer ------------------------------
(***************************************************************************)
(* The two WebSocket servers that stand in for an exchange:                *)
(* scripts/exploit-ws.py, which fires a burst of a given length at each    *)
(* client and reports how much of it was sent, and scripts/mock-ticker.py, *)
(* which sends for as long as the client stays.  Both send in batches and  *)
(* sleep in between; a handler task per client interleaves with the others *)
(* at every send and every sleep.                                          *)
(*                                                                         *)
(* The payloads are in Wire; here a payload is its sequence number, and of *)
(* the mock ticker's, which go on for ever, only the place in the batch is *)
(* kept.                                                                   *)
(*                                                                         *)
(* An operator placed directly above a definition, with the same           *)
(* parameters and no comment, is a way to get that definition wrong.       *)
(***************************************************************************)
EXTENDS Naturals, Sequences

CONSTANTS
  Clients,   \* engines that connect, each at most once
  Count,     \* --count
  BatchMax,  \* 200 in exploit-ws, 500 in mock-ticker
  Unknown    \* nothing reported yet

\* What is assumed of the constants: main refuses a count of zero.
FeedServerAssumption ==
  Count \in Nat \ {0} /\ BatchMax \in Nat \ {0} /\ Unknown \notin Nat

VARIABLES
  script,    \* "exploit-ws" or "mock-ticker"
  once,      \* --once
  stream,    \* where _stream is: none, sending, sleeping or over
  connected, \* clients whose connection is open
  sent, i,   \* the local variables of _stream
  received,  \* history: the sequence numbers handed to each connection
  reported,  \* the number printed at the end
  stop,      \* the stop event
  server     \* where _serve is: up, closing or down

streamVars == <<stream, sent, i, received, reported>>
config == <<script, once>>
vars == <<config, streamVars, connected, stop, server>>

Init ==
  /\ script \in {"exploit-ws", "mock-ticker"}
  /\ once \in {FALSE, script = "exploit-ws"}
  /\ stream = [c \in Clients |-> "none"]
  /\ connected = {}
  /\ sent = [c \in Clients |-> 0] /\ i = [c \in Clients |-> 0]
  /\ received = [c \in Clients |-> << >>]
  /\ reported = [c \in Clients |-> Unknown]
  /\ stop = FALSE /\ server = "up"

Bounded == script = "exploit-ws"

Batch == IF Bounded /\ Count < BatchMax THEN Count ELSE BatchMax

WholeBatch(c) == Batch
\* How many are sent before the next sleep.
Chunk(c) == IF Bounded /\ Count - sent[c] < Batch THEN Count - sent[c] ELSE Batch

\* The handler's finally: with --once the first handler to end stops the server.
Ended(c) ==
  /\ stream' = [stream EXCEPT ![c] = "over"]
  /\ reported' = [reported EXCEPT ![c] = IF Bounded THEN sent[c] ELSE Unknown]
  /\ stop' = (stop \/ once)

Connect(c) ==
  /\ server = "up" /\ stream[c] = "none"
  /\ connected' = connected \cup {c}
  /\ stream' = [stream EXCEPT ![c] = "sending"]
  /\ UNCHANGED <<config, sent, i, received, reported, stop, server>>

\* ws.send returns.  After the last of the chunk, sent is updated and the task
\* sleeps.
Send(c) ==
  /\ stream[c] = "sending" /\ c \in connected
  /\ received' = IF Bounded THEN [received EXCEPT ![c] = Append(@, sent[c] + i[c])]
                            ELSE received
  /\ IF i[c] + 1 < Chunk(c)
     THEN i' = [i EXCEPT ![c] = @ + 1] /\ UNCHANGED <<sent, stream>>
     ELSE /\ i' = [i EXCEPT ![c] = 0]
          /\ sent' = IF Bounded THEN [sent EXCEPT ![c] = @ + Chunk(c)] ELSE sent
          /\ stream' = [stream EXCEPT ![c] = "sleeping"]
  /\ UNCHANGED <<config, reported, connected, stop, server>>

\* ws.send raises ConnectionClosed.
SendFails(c) ==
  /\ stream[c] = "sending" /\ c \notin connected
  /\ Ended(c)
  /\ UNCHANGED <<config, sent, i, received, connected, server>>

\* The sleep is over: on with the next chunk, or the burst has been sent.
Wake(c) ==
  /\ stream[c] = "sleeping"
  /\ ~Bounded \/ sent[c] < Count
  /\ stream' = [stream EXCEPT ![c] = "sending"]
  /\ UNCHANGED <<config, sent, i, received, reported, connected, stop, server>>

Drained(c) ==
  /\ stream[c] = "sleeping"
  /\ Bounded /\ sent[c] >= Count
  /\ Ended(c)
  /\ UNCHANGED <<config, sent, i, received, connected, server>>

\* The client goes away, or the server closes the connection: when its handler
\* has returned, or when the server stops.
Close(c) ==
  /\ c \in connected
  /\ connected' = connected \ {c}
  /\ UNCHANGED <<config, streamVars, stop, server>>

\* SIGINT or SIGTERM.
Signal ==
  /\ server = "up" /\ ~stop
  /\ stop' = TRUE
  /\ UNCHANGED <<config, streamVars, connected, server>>

\* stop.wait() returns, and the async with closes the server.
StopServing ==
  /\ server = "up" /\ stop
  /\ server' = "closing"
  /\ UNCHANGED <<config, streamVars, connected, stop>>

\* Every handler has returned.
Exit ==
  /\ server = "closing"
  /\ connected = {} /\ \A c \in Clients : stream[c] \in {"none", "over"}
  /\ server' = "down"
  /\ UNCHANGED <<config, streamVars, connected, stop>>

Terminated == server = "down" /\ UNCHANGED vars

Next ==
  \/ \E c \in Clients : \/ Connect(c) \/ Send(c) \/ SendFails(c) \/ Wake(c)
                        \/ Drained(c) \/ Close(c)
  \/ Signal \/ StopServing \/ Exit \/ Terminated

-----------------------------------------------------------------------------
(* Properties *)

TypeOK ==
  /\ stream \in [Clients -> {"none", "sending", "sleeping", "over"}]
  /\ connected \subseteq Clients
  /\ sent \in [Clients -> 0 .. Count] /\ i \in [Clients -> 0 .. BatchMax - 1]
  /\ reported \in [Clients -> 0 .. Count \cup {Unknown}]
  /\ stop \in BOOLEAN /\ server \in {"up", "closing", "down"}

(***************************************************************************)
(* Every client gets the burst from its beginning, without a gap and       *)
(* without a repetition, over every chunk and however the clients'         *)
(* handlers take turns, and never more than --count of it.  The number     *)
(* reported never exceeds what was sent and falls short of it by less than *)
(* a batch; it is --count exactly when the whole burst was sent.           *)
(***************************************************************************)
BurstInOrder ==
  \A c \in Clients :
    LET n == Len(received[c]) IN
    /\ n <= Count
    /\ \A k \in 1 .. n : received[c][k] = k - 1
    /\ reported[c] # Unknown =>
         /\ reported[c] <= n /\ n < reported[c] + Batch
         /\ reported[c] = Count <=> n = Count
=============================================================================
