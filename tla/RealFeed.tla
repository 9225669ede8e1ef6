------------------------------ MODULE RealFeed ------------------------------
(***************************************************************************)
(* The realfeed adapter (services/realfeed/realfeed.py): one asyncio task  *)
(* keeps a Coinbase subscription and broadcasts every match to the local   *)
(* WebSocket clients, one handler task per client registers it, and main   *)
(* waits for a signal or for the upstream task to end.                     *)
(*                                                                         *)
(* Tasks interleave only where the code awaits: an action is what one task *)
(* does between two awaits.  Payloads are abstracted away, except for who  *)
(* got the current one.                                                    *)
(*                                                                         *)
(* An operator placed directly above a definition, with the same           *)
(* parameters and no comment, is a way to get that definition wrong.       *)
(***************************************************************************)
EXTENDS Naturals, FiniteSets

CONSTANTS
  Clients,     \* local peers, each connecting at most once
  Nobody,      \* no client
  MaxBackoff   \* 30 s

\* What is assumed of them.
RealFeedAssumption == Nobody \notin Clients /\ MaxBackoff \in Nat \ {0}

VARIABLES
  clients,    \* _clients
  handler,    \* _handler of each client: out, waiting or done
  open,       \* clients whose connection is open
  upstream,   \* where _upstream_loop is
  target,     \* the client _broadcast is sending to
  size,       \* size of _clients when the iteration began
  visited, dead, \* clients the iteration has reached; those found closed
  got,        \* history: clients the current payload was sent to
  changed,    \* history: _clients was modified during this broadcast
  backoff,    \* backoff_s
  stop,       \* the stop event
  main        \* where _serve is

broadcastVars == <<target, size, visited, dead, got>>
vars == <<clients, handler, open, upstream, broadcastVars, changed, backoff, stop, main>>

Init ==
  /\ clients = {} /\ open = {}
  /\ handler = [c \in Clients |-> "out"]
  /\ upstream = "connecting"
  /\ target = Nobody /\ size = 0 /\ visited = {} /\ dead = {} /\ got = {}
  /\ changed = FALSE
  /\ backoff = 1
  /\ stop = FALSE
  /\ main = "waiting"

-----------------------------------------------------------------------------
(* The upstream task *)

Upstream(from, to) == upstream = from /\ upstream' = to

\* websockets.connect and the subscription succeed.
Connect ==
  /\ Upstream("connecting", "listening")
  /\ backoff' = 1
  /\ UNCHANGED <<clients, handler, open, broadcastVars, changed, stop, main>>

\* ConnectionClosed or an OSError, while connecting or while listening.
Drop ==
  /\ \E from \in {"connecting", "listening"} : Upstream(from, "sleeping")
  /\ UNCHANGED <<clients, handler, open, broadcastVars, changed, backoff, stop, main>>

\* The exchange ends the stream normally: the loop connects again at once.
EndOfStream ==
  /\ Upstream("listening", "connecting")
  /\ UNCHANGED <<clients, handler, open, broadcastVars, changed, backoff, stop, main>>

\* The exchange answers the handshake with an HTTP error, or sends JSON that is
\* not an object: an exception the loop does not catch.
Reject ==
  /\ \E from \in {"connecting", "listening"} : Upstream(from, "failed")
  /\ UNCHANGED <<clients, handler, open, broadcastVars, changed, backoff, stop, main>>

\* The backoff after one of s seconds.
Doubled(s) == IF 2 * s < MaxBackoff THEN 2 * s ELSE MaxBackoff

Wake ==
  /\ Upstream("sleeping", "connecting")
  /\ backoff' = Doubled(backoff)
  /\ UNCHANGED <<clients, handler, open, broadcastVars, changed, stop, main>>

\* A match arrives and there is a client: the iteration over _clients begins
\* and suspends in the first send.
Match ==
  /\ Upstream("listening", "sending")
  /\ target' \in clients
  /\ size' = Cardinality(clients)
  /\ visited' = {target'} /\ dead' = {} /\ got' = {}
  /\ changed' = FALSE
  /\ UNCHANGED <<clients, handler, open, backoff, stop, main>>

NoneAfterDead == IF dead' = {} THEN clients \ visited ELSE {}
\* What is left of the iteration.  A set modified under its iterator may come
\* in any order, some members twice.
Remaining == IF changed THEN clients ELSE clients \ visited

\* The send to target is over.  Python looks at the size of a set before each
\* step of an iteration.
Advance ==
  \/ /\ Cardinality(clients) # size
     /\ upstream' = "failed"
     /\ target' = Nobody
     /\ UNCHANGED <<clients, visited>>
  \/ /\ Cardinality(clients) = size
     /\ target' \in Remaining
     /\ visited' = visited \cup {target'}
     /\ UNCHANGED <<clients, upstream>>
  \/ /\ Cardinality(clients) = size
     /\ Remaining = {} \/ changed
     /\ clients' = clients \ dead'
     /\ upstream' = "listening"
     /\ target' = Nobody
     /\ UNCHANGED visited

\* send() returns.
Sent ==
  /\ upstream = "sending" /\ target \in open
  /\ got' = got \cup {target}
  /\ dead' = dead
  /\ Advance
  /\ UNCHANGED <<handler, open, size, changed, backoff, stop, main>>

\* send() raises ConnectionClosed.
FoundDead ==
  /\ upstream = "sending" /\ target \notin open
  /\ dead' = dead \cup {target}
  /\ got' = got
  /\ Advance
  /\ UNCHANGED <<handler, open, size, changed, backoff, stop, main>>

-----------------------------------------------------------------------------
(* The handler tasks and their peers *)

Touched == IF upstream = "sending" THEN TRUE ELSE changed

Join(c) ==
  /\ main = "waiting"
  /\ handler[c] = "out"
  /\ handler' = [handler EXCEPT ![c] = "waiting"]
  /\ open' = open \cup {c}
  /\ clients' = clients \cup {c}
  /\ changed' = Touched
  /\ UNCHANGED <<upstream, broadcastVars, backoff, stop, main>>

\* The peer goes away, or the keepalive ping finds it gone.
Hangup(c) ==
  /\ c \in open
  /\ open' = open \ {c}
  /\ UNCHANGED <<clients, handler, upstream, broadcastVars, changed, backoff, stop, main>>

LeftBehind(c) == clients
\* _clients after the handler's finally.
Unregistered(c) == clients \ {c}

\* wait_closed returns, and the finally clause runs.
HandlerEnds(c) ==
  /\ handler[c] = "waiting" /\ c \notin open
  /\ handler' = [handler EXCEPT ![c] = "done"]
  /\ clients' = Unregistered(c)
  /\ changed' = IF c \in clients THEN Touched ELSE changed
  /\ UNCHANGED <<open, upstream, broadcastVars, backoff, stop, main>>

-----------------------------------------------------------------------------
(* main *)

Signal ==
  /\ main = "waiting"
  /\ stop' = TRUE
  /\ UNCHANGED <<clients, handler, open, upstream, broadcastVars, changed, backoff, main>>

AllCompleted == stop /\ upstream = "failed"
\* asyncio.wait(..., FIRST_COMPLETED) has something to return.
FirstCompleted == stop \/ upstream = "failed"

\* The other task is cancelled and the server is told to close.
Shutdown ==
  /\ main = "waiting"
  /\ FirstCompleted
  /\ main' = "closing"
  /\ upstream' = IF upstream = "failed" THEN "failed" ELSE "cancelled"
  /\ UNCHANGED <<clients, handler, open, broadcastVars, changed, backoff, stop>>

\* server.close() closes a connection.
CloseConnection(c) == main = "closing" /\ Hangup(c)

\* server.wait_closed() returns when every handler has ended.
Exit ==
  /\ main = "closing"
  /\ \A c \in Clients : handler[c] # "waiting"
  /\ main' = "exited"
  /\ UNCHANGED <<clients, handler, open, upstream, broadcastVars, changed, backoff, stop>>

Terminated == main = "exited" /\ UNCHANGED vars

-----------------------------------------------------------------------------

UpstreamTask ==
  Connect \/ Drop \/ EndOfStream \/ Reject \/ Wake \/ Match \/ Sent \/ FoundDead

Next ==
  \/ UpstreamTask
  \/ \E c \in Clients : Join(c) \/ Hangup(c) \/ HandlerEnds(c)
  \/ Signal \/ Shutdown \/ Exit \/ Terminated

Spec == Init /\ [][Next]_vars

\* The event loop runs every task that is ready, and closing a connection takes
\* a bounded time (close_timeout).
Fairness ==
  /\ WF_vars(Wake)
  /\ WF_vars(Sent \/ FoundDead)
  /\ WF_vars(Shutdown \/ Exit)
  /\ \A c \in Clients : WF_vars(HandlerEnds(c)) /\ WF_vars(CloseConnection(c))

FairSpec == Spec /\ Fairness

-----------------------------------------------------------------------------
(* Properties *)

TypeOK ==
  /\ clients \subseteq Clients /\ open \subseteq Clients
  /\ handler \in [Clients -> {"out", "waiting", "done"}]
  /\ upstream \in {"connecting", "listening", "sleeping", "sending", "failed", "cancelled"}
  /\ target \in Clients \cup {Nobody}
  /\ size \in 0 .. Cardinality(Clients)
  /\ visited \subseteq Clients /\ dead \subseteq Clients /\ got \subseteq Clients
  /\ changed \in BOOLEAN /\ stop \in BOOLEAN
  /\ backoff \in 1 .. MaxBackoff
  /\ main \in {"waiting", "closing", "exited"}

\* No broadcast goes to a client whose handler is over: two tasks unregister
\* clients, in either order, and none is left behind or comes back.
OnlyServedClients == \A c \in clients : handler[c] = "waiting"

\* A client found dead does not keep a payload from the others: once a broadcast
\* during which nobody came or went is over, every client still registered got
\* it.
BroadcastReachesAll ==
  [][(upstream = "sending" /\ upstream' = "listening" /\ ~changed) =>
       clients' \subseteq got']_vars

\* The service never lingers without its feed: when the upstream task has
\* failed, or on a signal, it exits and can be restarted.
ExitsWhenFeedIsLost == upstream = "failed" \/ stop ~> main = "exited"

\* realfeed.py:94, "Maintains a persistent Coinbase subscription with
\* reconnect": with an exchange that neither refuses the handshake nor sends
\* malformed JSON, the upstream task goes on.
KindExchange == Init /\ [][Next /\ ~Reject]_vars
Persistent == upstream # "failed"
=============================================================================
