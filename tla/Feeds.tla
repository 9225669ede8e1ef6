-------------------------------- MODULE Feeds --------------------------------
(***************************************************************************)
(* The WebSocket servers the engine may be connected to, each a process of *)
(* its own: the realfeed adapter, and the two scripts that stand in for an *)
(* exchange.                                                               *)
(***************************************************************************)
CONSTANTS Clients, Nobody, MaxBackoff

VARIABLES
  clients, handler, open, upstream, target, setSize, visited, dead, got, changed,
  backoff, stop, main

realfeedVars ==
  <<clients, handler, open, upstream, target, setSize, visited, dead, got, changed,
    backoff, stop, main>>

Realfeed == INSTANCE RealFeed WITH size <- setSize

CONSTANTS Count, BatchMax, Unknown

VARIABLES script, once, stream, connected, sent, place, received, reported, halt, server

scriptVars == <<script, once, stream, connected, sent, place, received, reported, halt, server>>

Feed == INSTANCE FeedServer WITH i <- place, stop <- halt

ASSUME FeedsAssumption == Realfeed!RealFeedAssumption /\ Feed!FeedServerAssumption

\* RealFeed!OnlyServedClients: no broadcast goes to a client whose handler is over.
OnlyServedClients == Realfeed!OnlyServedClients

\* RealFeed!BroadcastReachesAll: a dead client keeps no payload from the others.
BroadcastReachesAll == Realfeed!BroadcastReachesAll

\* RealFeed!ExitsWhenFeedIsLost: the service does not linger without its feed.
ExitsWhenFeedIsLost == Realfeed!ExitsWhenFeedIsLost

\* FeedServer!BurstInOrder: the burst each client gets, and what is reported.
BurstInOrder == Feed!BurstInOrder
=============================================================================
