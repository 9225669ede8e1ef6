--------------------------- MODULE TickPathProofs ---------------------------
(***************************************************************************)
(* A tick's way into a feature frame, as far as it does not depend on the  *)
(* engine's threads, for every value of the constants: the realfeed        *)
(* adapter's clients and broadcasts (RealFeed), the bursts of the scripts  *)
(* (FeedServer), the messages and their parser (Wire), the buckets of the  *)
(* order-flow imbalance (OfiWindow) and the case ids (CaseIds).            *)
(***************************************************************************)
EXTENDS TickPath, Feeds, Sequences, Arithmetic, FiniteSetTheorems

-----------------------------------------------------------------------------
(* The realfeed adapter *)

\* Who is registered has a handler, and a handler that is over left nobody
\* registered.
Registered ==
  /\ clients \subseteq Clients
  /\ handler \in [Clients -> {"out", "waiting", "done"}]
  /\ Realfeed!OnlyServedClients

\* Everyone the iteration has passed got the payload or was found dead.
Passed ==
  upstream = "sending" => target \in visited /\ visited \ {target} \subseteq got \cup dead

LEMMA RegisteredInit == Realfeed!Init => Registered /\ Passed
BY DEF Realfeed!Init, Registered, Passed, Realfeed!OnlyServedClients

LEMMA RegisteredStep == Registered /\ [Realfeed!Next]_(Realfeed!vars) => Registered'
<1> SUFFICES ASSUME Registered, [Realfeed!Next]_(Realfeed!vars) PROVE Registered'
  OBVIOUS
<1> USE DEF Registered, Realfeed!OnlyServedClients
<1>1. ASSUME clients' \subseteq clients, handler' = handler PROVE Registered' BY <1>1
<1>2. CASE UNCHANGED Realfeed!vars \/ Realfeed!Terminated
  BY <1>1, <1>2 DEF Realfeed!vars, Realfeed!Terminated
<1>3. CASE Realfeed!UpstreamTask
  <2>1. clients' \subseteq clients /\ handler' = handler
    BY <1>3
    DEF Realfeed!UpstreamTask, Realfeed!Connect, Realfeed!Drop, Realfeed!EndOfStream,
        Realfeed!Reject, Realfeed!Wake, Realfeed!Match, Realfeed!Sent, Realfeed!FoundDead,
        Realfeed!Advance
  <2> QED BY <1>1, <2>1
<1>4. ASSUME NEW c \in Clients, Realfeed!Join(c) PROVE Registered'
  BY <1>4 DEF Realfeed!Join
<1>5. ASSUME NEW c \in Clients, Realfeed!Hangup(c) PROVE Registered'
  BY <1>1, <1>5 DEF Realfeed!Hangup
<1>6. ASSUME NEW c \in Clients, Realfeed!HandlerEnds(c) PROVE Registered'
  BY <1>6 DEF Realfeed!HandlerEnds, Realfeed!Unregistered
<1>7. CASE Realfeed!Signal \/ Realfeed!Shutdown \/ Realfeed!Exit
  BY <1>1, <1>7 DEF Realfeed!Signal, Realfeed!Shutdown, Realfeed!Exit
<1> QED BY <1>2, <1>3, <1>4, <1>5, <1>6, <1>7 DEF Realfeed!Next

\* A broadcast goes on, or ends, with the send in hand behind it.
LEMMA SendStep ==
  ASSUME Passed, Realfeed!Sent \/ Realfeed!FoundDead
  PROVE  /\ Passed'
         /\ upstream' = "listening" /\ ~changed => clients' \subseteq got'
<1> USE DEF Passed
<1>1. /\ upstream = "sending" /\ Realfeed!Advance
      /\ visited \subseteq got' \cup dead' /\ got \subseteq got' /\ dead \subseteq dead'
      /\ visited \ dead' \subseteq got'
  BY DEF Realfeed!Sent, Realfeed!FoundDead
<1>2. CASE upstream' = "failed" BY <1>1, <1>2
<1>3. CASE target' \in Realfeed!Remaining /\ visited' = visited \cup {target'}
           /\ UNCHANGED <<clients, upstream>>
  BY <1>1, <1>3
<1>4. CASE (Realfeed!Remaining = {} \/ changed) /\ clients' = clients \ dead'
           /\ upstream' = "listening"
  BY <1>1, <1>4 DEF Realfeed!Remaining
<1> QED BY <1>1, <1>2, <1>3, <1>4 DEF Realfeed!Advance

LEMMA PassedStep == Passed /\ [Realfeed!Next]_(Realfeed!vars) => Passed'
<1> SUFFICES ASSUME Passed, [Realfeed!Next]_(Realfeed!vars) PROVE Passed'
  OBVIOUS
<1> USE DEF Passed, Realfeed!broadcastVars
<1>1. CASE UNCHANGED Realfeed!vars \/ Realfeed!Terminated
  BY <1>1 DEF Realfeed!vars, Realfeed!Terminated
<1>2. CASE Realfeed!Connect \/ Realfeed!Drop \/ Realfeed!EndOfStream \/ Realfeed!Reject
           \/ Realfeed!Wake
  BY <1>2 DEF Realfeed!Connect, Realfeed!Drop, Realfeed!EndOfStream, Realfeed!Reject,
              Realfeed!Wake, Realfeed!Upstream
<1>3. CASE Realfeed!Match BY <1>3 DEF Realfeed!Match
<1>4. CASE Realfeed!Sent \/ Realfeed!FoundDead BY <1>4, SendStep
<1>5. ASSUME NEW c \in Clients, Realfeed!Join(c) \/ Realfeed!Hangup(c) \/ Realfeed!HandlerEnds(c)
      PROVE  Passed'
  BY <1>5 DEF Realfeed!Join, Realfeed!Hangup, Realfeed!HandlerEnds
<1>6. CASE Realfeed!Signal \/ Realfeed!Shutdown \/ Realfeed!Exit
  BY <1>6 DEF Realfeed!Signal, Realfeed!Shutdown, Realfeed!Exit
<1> QED BY <1>1, <1>2, <1>3, <1>4, <1>5, <1>6 DEF Realfeed!Next, Realfeed!UpstreamTask

\* No broadcast goes to a client whose handler is over.
THEOREM ServedClients == Realfeed!Spec => []OnlyServedClients
<1>1. Registered => OnlyServedClients BY DEF Registered, OnlyServedClients
<1> QED BY <1>1, RegisteredInit, RegisteredStep, PTL DEF Realfeed!Spec

\* A broadcast during which nobody came or went reaches every client that is
\* still registered.
THEOREM BroadcastsReachAll == Realfeed!Spec => BroadcastReachesAll
<1>1. ASSUME Passed, [Realfeed!Next]_(Realfeed!vars), upstream = "sending",
             upstream' = "listening", ~changed
      PROVE  clients' \subseteq got'
  <2>1. Realfeed!Sent \/ Realfeed!FoundDead
    BY <1>1
    DEF Realfeed!Next, Realfeed!vars, Realfeed!Terminated, Realfeed!UpstreamTask,
        Realfeed!Connect, Realfeed!Drop, Realfeed!EndOfStream, Realfeed!Reject, Realfeed!Wake,
        Realfeed!Upstream, Realfeed!Match, Realfeed!Join, Realfeed!Hangup,
        Realfeed!HandlerEnds, Realfeed!Signal, Realfeed!Shutdown, Realfeed!Exit
  <2> QED BY <1>1, <2>1, SendStep
<1>2. Passed /\ [Realfeed!Next]_(Realfeed!vars)
        => [(upstream = "sending" /\ upstream' = "listening" /\ ~changed)
              => clients' \subseteq got']_(Realfeed!vars)
  BY <1>1
<1> QED
  BY <1>2, RegisteredInit, PassedStep, PTL
  DEF Realfeed!Spec, BroadcastReachesAll, Realfeed!BroadcastReachesAll

-----------------------------------------------------------------------------
(* The scripts: each client is sent 0, 1, 2, ... up to sent + i. *)

FeedType ==
  /\ script \in {"exploit-ws", "mock-ticker"}
  /\ stream \in [Clients -> {"none", "sending", "sleeping", "over"}]
  /\ sent \in [Clients -> Nat] /\ place \in [Clients -> Nat]
  /\ received \in [Clients -> Seq(Nat)]
  /\ reported \in [Clients -> Nat \cup {Unknown}]

\* What one handler has handed out of the burst, and whether the place in the
\* chunk is still below its end.
BurstOf(c) ==
  /\ Len(received[c]) = sent[c] + place[c] /\ sent[c] <= Count
  /\ \A k \in 1 .. Len(received[c]) : received[c][k] = k - 1
  /\ place[c] = 0 \/ place[c] < Feed!Chunk(c)
  /\ stream[c] = "sending" => sent[c] < Count
  /\ stream[c] = "sleeping" => place[c] = 0
  /\ stream[c] = "none" => place[c] = 0 /\ sent[c] = 0
  /\ reported[c] = IF stream[c] = "over" THEN sent[c] ELSE Unknown

NothingKept(c) == received[c] = << >> /\ reported[c] = Unknown

FeedInv ==
  /\ FeedType
  /\ \A c \in Clients : IF Feed!Bounded THEN BurstOf(c) ELSE NothingKept(c)

LEMMA ChunkFacts ==
  ASSUME Feed!FeedServerAssumption, FeedType, NEW c \in Clients
  PROVE  /\ Count \in Nat \ {0} /\ Unknown \notin Nat
         /\ Feed!Batch \in Nat \ {0}
         /\ Feed!Bounded => /\ Feed!Chunk(c) \in Int
                            /\ Feed!Chunk(c) <= Count - sent[c] /\ Feed!Chunk(c) <= Feed!Batch
                            /\ Feed!Chunk(c) = Count - sent[c] \/ Feed!Chunk(c) = Feed!Batch
BY DEF Feed!FeedServerAssumption, FeedType, Feed!Batch, Feed!Chunk, Feed!Bounded

LEMMA FeedInitInv == Feed!FeedServerAssumption /\ Feed!Init => FeedInv
<1> SUFFICES ASSUME Feed!FeedServerAssumption, Feed!Init PROVE FeedInv
  OBVIOUS
<1>1. FeedType BY DEF Feed!Init, FeedType
<1>2. ASSUME NEW c \in Clients PROVE IF Feed!Bounded THEN BurstOf(c) ELSE NothingKept(c)
  BY <1>1, ChunkFacts DEF Feed!Init, BurstOf, NothingKept
<1> QED BY <1>1, <1>2 DEF FeedInv

\* A step of one handler leaves the others' bursts alone.
LEMMA OthersUntouched ==
  ASSUME FeedInv, NEW c \in Clients, script' = script,
         \A d \in Clients \ {c} : /\ stream'[d] = stream[d] /\ sent'[d] = sent[d]
                                  /\ place'[d] = place[d] /\ received'[d] = received[d]
                                  /\ reported'[d] = reported[d],
         FeedType', IF Feed!Bounded THEN BurstOf(c)' ELSE NothingKept(c)'
  PROVE  FeedInv'
<1>1. ASSUME NEW d \in Clients \ {c}
      PROVE  (IF Feed!Bounded THEN BurstOf(d) ELSE NothingKept(d))'
  BY <1>1 DEF FeedInv, BurstOf, NothingKept, Feed!Bounded, Feed!Chunk, Feed!Batch
<1> QED BY <1>1 DEF FeedInv, Feed!Bounded

LEMMA SendBurst ==
  ASSUME Feed!FeedServerAssumption, FeedInv, NEW c \in Clients, Feed!Send(c)
  PROVE  FeedInv'
<1> USE DEF FeedType, Feed!config
<1>0. FeedType BY DEF FeedInv
<1> DEFINE n == sent[c] + place[c]
<1>1. CASE Feed!Bounded
  <2> USE <1>1
  <2>1. /\ received' = [received EXCEPT ![c] = Append(@, n)] /\ n \in Nat
        /\ UNCHANGED <<script, reported>>
    BY <1>0 DEF Feed!Send
  <2>2. BurstOf(c) /\ stream[c] = "sending" BY DEF FeedInv, Feed!Send
  <2>3. /\ received[c] \in Seq(Nat) /\ received'[c] = Append(received[c], n)
        /\ received' \in [Clients -> Seq(Nat)]
        /\ \A d \in Clients \ {c} : received'[d] = received[d]
    BY <2>1, <1>0
  <2>4. /\ Len(received'[c]) = n + 1
        /\ \A k \in 1 .. Len(received'[c]) : received'[c][k] = k - 1
    BY <2>2, <2>3 DEF BurstOf
  <2>5. /\ Count \in Nat /\ Feed!Batch \in Nat \ {0} /\ Feed!Chunk(c) \in Int
        /\ Feed!Chunk(c) <= Count - sent[c] /\ Feed!Chunk(c) <= Feed!Batch
        /\ Feed!Chunk(c) = Count - sent[c] \/ Feed!Chunk(c) = Feed!Batch
    BY <1>0, ChunkFacts
  <2>6. CASE place[c] + 1 < Feed!Chunk(c)
    <3>1. /\ place' = [place EXCEPT ![c] = @ + 1] /\ UNCHANGED <<sent, stream>>
      BY <2>6 DEF Feed!Send
    <3>2. FeedType' BY <3>1, <2>1, <2>3, <1>0
    <3>3. Feed!Chunk(c)' = Feed!Chunk(c)
      BY <3>1, <2>1 DEF Feed!Chunk, Feed!Bounded, Feed!Batch
    <3>4. BurstOf(c)' BY <3>1, <3>3, <2>1, <2>2, <2>4, <2>6, <1>0 DEF BurstOf
    <3>5. \A d \in Clients \ {c} : place'[d] = place[d] BY <3>1, <1>0
    <3> HIDE DEF FeedType
    <3> QED BY <3>1, <3>2, <3>4, <3>5, <2>1, <2>3, OthersUntouched
  <2>7. CASE ~(place[c] + 1 < Feed!Chunk(c))
    <3>1. /\ place' = [place EXCEPT ![c] = 0]
          /\ sent' = [sent EXCEPT ![c] = @ + Feed!Chunk(c)]
          /\ stream' = [stream EXCEPT ![c] = "sleeping"]
      BY <2>7 DEF Feed!Send
    <3>2. Feed!Chunk(c) = place[c] + 1
      BY <2>2, <2>5, <2>7, <1>0 DEF BurstOf
    <3>3. FeedType' BY <3>1, <3>2, <2>1, <2>3, <1>0
    <3>4. /\ place'[c] = 0 /\ sent'[c] = sent[c] + place[c] + 1 /\ stream'[c] = "sleeping"
          /\ sent'[c] <= Count /\ reported'[c] = reported[c]
      BY <3>1, <3>2, <2>1, <2>5, <1>0
    <3>6. BurstOf(c)' BY <3>4, <2>2, <2>4 DEF BurstOf
    <3>5. \A d \in Clients \ {c} :
            place'[d] = place[d] /\ sent'[d] = sent[d] /\ stream'[d] = stream[d]
      BY <3>1, <1>0
    <3> HIDE DEF FeedType
    <3> QED BY <3>1, <3>3, <3>5, <3>6, <2>1, <2>3, OthersUntouched
  <2> QED BY <2>6, <2>7
<1>2. CASE ~Feed!Bounded
  <2>1. UNCHANGED <<script, received, reported, sent>> BY <1>2 DEF Feed!Send
  <2>2. stream' \in [Clients -> {"none", "sending", "sleeping", "over"}]
        /\ place' \in [Clients -> Nat]
    <3>1. /\ place' = [place EXCEPT ![c] = @ + 1] \/ place' = [place EXCEPT ![c] = 0]
          /\ stream' = stream \/ stream' = [stream EXCEPT ![c] = "sleeping"]
      BY DEF Feed!Send
    <3>2. place \in [Clients -> Nat] /\ place[c] + 1 \in Nat /\ 0 \in Nat BY <1>0
    <3>3. place' \in [Clients -> Nat]
      <4>1. CASE place' = [place EXCEPT ![c] = @ + 1] BY <4>1, <3>2
      <4>2. CASE place' = [place EXCEPT ![c] = 0] BY <4>2, <3>2
      <4> QED BY <3>1, <4>1, <4>2
    <3>4. stream' \in [Clients -> {"none", "sending", "sleeping", "over"}] BY <3>1, <1>0
    <3> QED BY <3>3, <3>4
  <2> QED BY <1>0, <1>2, <2>1, <2>2 DEF FeedInv, NothingKept, Feed!Bounded
<1> QED BY <1>1, <1>2

LEMMA FeedStep ==
  Feed!FeedServerAssumption /\ FeedInv /\ [Feed!Next]_(Feed!vars) => FeedInv'
<1> SUFFICES ASSUME Feed!FeedServerAssumption, FeedInv, [Feed!Next]_(Feed!vars) PROVE FeedInv'
  OBVIOUS
<1>0. FeedType BY DEF FeedInv
<1>1. ASSUME UNCHANGED <<script, stream, sent, place, received, reported>> PROVE FeedInv'
  BY <1>1 DEF FeedInv, FeedType, BurstOf, NothingKept, Feed!Bounded, Feed!Chunk, Feed!Batch
<1>2. CASE UNCHANGED Feed!vars \/ Feed!Terminated
  BY <1>1, <1>2 DEF Feed!vars, Feed!config, Feed!streamVars, Feed!Terminated
<1>3. CASE Feed!Signal \/ Feed!StopServing \/ Feed!Exit
  BY <1>1, <1>3 DEF Feed!config, Feed!streamVars, Feed!Signal, Feed!StopServing, Feed!Exit
<1>4. ASSUME NEW c \in Clients, Feed!Close(c) PROVE FeedInv'
  BY <1>1, <1>4 DEF Feed!config, Feed!streamVars, Feed!Close
<1>5. ASSUME NEW c \in Clients, Feed!Send(c) PROVE FeedInv' BY <1>5, SendBurst
<1>6. ASSUME NEW c \in Clients, Feed!Connect(c) \/ Feed!Wake(c) PROVE FeedInv'
  <2>1. /\ stream' = [stream EXCEPT ![c] = "sending"]
        /\ UNCHANGED <<script, sent, place, received, reported>>
        /\ stream[c] = "none" \/ (stream[c] = "sleeping" /\ (Feed!Bounded => sent[c] < Count))
    BY <1>6 DEF Feed!Connect, Feed!Wake, Feed!config
  <2>2. FeedType' BY <2>1, <1>0 DEF FeedType
  <2>3. \A d \in Clients \ {c} : stream'[d] = stream[d] BY <2>1, <1>0 DEF FeedType
  <2>4. Count > 0 /\ stream'[c] = "sending" /\ Feed!Chunk(c)' = Feed!Chunk(c)
    BY <2>1, <1>0, ChunkFacts DEF FeedType, Feed!Chunk, Feed!Bounded, Feed!Batch
  <2>5. IF Feed!Bounded THEN BurstOf(c)' ELSE NothingKept(c)'
    BY <2>1, <2>4, <1>0 DEF FeedInv, BurstOf, NothingKept
  <2> QED BY <2>1, <2>2, <2>3, <2>5, OthersUntouched
<1>7. ASSUME NEW c \in Clients, Feed!SendFails(c) \/ Feed!Drained(c) PROVE FeedInv'
  <2>1. /\ stream' = [stream EXCEPT ![c] = "over"]
        /\ reported' = [reported EXCEPT ![c] = IF Feed!Bounded THEN sent[c] ELSE Unknown]
        /\ UNCHANGED <<script, sent, place, received>>
    BY <1>7 DEF Feed!SendFails, Feed!Drained, Feed!Ended, Feed!config
  <2>2. FeedType' BY <2>1, <1>0 DEF FeedType
  <2>3. \A d \in Clients \ {c} : stream'[d] = stream[d] /\ reported'[d] = reported[d]
    BY <2>1, <1>0 DEF FeedType
  <2>4. /\ stream'[c] = "over" /\ Feed!Chunk(c)' = Feed!Chunk(c)
        /\ reported'[c] = IF Feed!Bounded THEN sent[c] ELSE Unknown
    BY <2>1, <1>0 DEF FeedType, Feed!Chunk, Feed!Bounded, Feed!Batch
  <2>5. IF Feed!Bounded THEN BurstOf(c)' ELSE NothingKept(c)'
    BY <2>1, <2>4, <1>0 DEF FeedInv, BurstOf, NothingKept
  <2> QED BY <2>1, <2>2, <2>3, <2>5, OthersUntouched
<1> QED BY <1>2, <1>3, <1>4, <1>5, <1>6, <1>7 DEF Feed!Next

\* Every client gets the burst in order, and the number reported is right.
THEOREM BurstsInOrder == Feed!Init /\ [][Feed!Next]_(Feed!vars) => []BurstInOrder
<1> Feed!FeedServerAssumption BY FeedsAssumption
<1>1. ASSUME FeedInv PROVE Feed!BurstInOrder
  <2> SUFFICES ASSUME NEW c \in Clients
               PROVE  LET n == Len(received[c]) IN
                      /\ n <= Count
                      /\ \A k \in 1 .. n : received[c][k] = k - 1
                      /\ reported[c] # Unknown =>
                           /\ reported[c] <= n /\ n < reported[c] + Feed!Batch
                           /\ reported[c] = Count <=> n = Count
    BY DEF Feed!BurstInOrder
  <2>1. FeedType BY <1>1 DEF FeedInv
  <2>2. CASE Feed!Bounded
    <3> DEFINE n == Len(received[c])
    <3>1. BurstOf(c) BY <1>1, <2>2 DEF FeedInv
    <3>2. /\ Count \in Nat /\ Unknown \notin Nat /\ Feed!Batch \in Nat \ {0}
          /\ Feed!Chunk(c) \in Int
          /\ Feed!Chunk(c) <= Count - sent[c] /\ Feed!Chunk(c) <= Feed!Batch
      BY <2>1, <2>2, ChunkFacts
    <3>3. /\ n = sent[c] + place[c] /\ n <= Count /\ n < sent[c] + Feed!Batch
          /\ sent[c] \in Nat /\ sent[c] <= n /\ (sent[c] = Count <=> n = Count)
      BY <2>1, <3>1, <3>2 DEF BurstOf, FeedType
    <3>4. reported[c] # Unknown => reported[c] = sent[c] BY <3>1 DEF BurstOf
    <3>5. \A k \in 1 .. n : received[c][k] = k - 1 BY <3>1 DEF BurstOf
    <3> QED BY <3>3, <3>4, <3>5
  <2>3. CASE ~Feed!Bounded
    BY <1>1, <2>1, <2>3, ChunkFacts DEF FeedInv, NothingKept
  <2> QED BY <2>2, <2>3
<1>2. Feed!Init => FeedInv BY FeedInitInv
<1>3. FeedInv /\ [Feed!Next]_(Feed!vars) => FeedInv' BY FeedStep
<1>4. FeedInv => BurstInOrder BY <1>1 DEF BurstInOrder
<1> QED BY <1>2, <1>3, <1>4, PTL

-----------------------------------------------------------------------------
(* Messages and ticks *)

\* The markers of the model are none of the values they are told from.
MarkersApart ==
  /\ Malformed \notin Wire!Trades
  /\ WrongType \notin Nat \cup {"ts_ns", "price"}
  /\ \A s \in Symbols : WrongType # Wire!Cut(s)
  /\ \A sym, n, side : Truncated # Wire!Quote(sym, n, side)
  /\ \A sym, n, side : Rejected # [symbol |-> sym, size |-> n, side |-> side]

\* A message on the socket was sent for the trade, a tick was parsed from one.
Follows ==
  /\ stage = "socket" =>
       \/ trade = Malformed /\ message \in Wire!MalformedMessages
       \/ trade \in Wire!Trades /\ message \in Wire!Adapted(trade)
  /\ Wire!TradeArrives

LEMMA SymbolFacts ==
  ASSUME Wire!WireAssumption, NEW s \in Symbols
  PROVE  /\ Wire!Cut(s) \in Seq(UNION {Wire!Range(t) : t \in Symbols})
         /\ Wire!Cut(Wire!Cut(s)) = Wire!Cut(s)
         /\ Len(Wire!Cut(s)) \in 1 .. SymbolMax
         /\ \A i \in 1 .. Len(Wire!Cut(s)) : Wire!Cut(s)[i] # Nul
<1> DEFINE S == UNION {Wire!Range(t) : t \in Symbols}
           n == IF Len(s) < SymbolMax THEN Len(s) ELSE SymbolMax
<1>1. s \in Seq(S) /\ s # << >> /\ Nul \notin Wire!Range(s) /\ SymbolMax \in Nat \ {0}
  BY DEF Wire!WireAssumption
<1> HIDE DEF S
<1>2. Len(s) \in Nat \ {0} /\ n \in 1 .. Len(s) /\ n \in 1 .. SymbolMax
      /\ \A i \in 1 .. Len(s) : s[i] \in S /\ s[i] # Nul
  <2>1. \A i \in 1 .. Len(s) : s[i] # Nul BY <1>1 DEF Wire!Range
  <2> QED BY <1>1, <2>1
<1>3. \A m \in 1 .. Len(s) :
        /\ SubSeq(s, 1, m) \in Seq(S) /\ Len(SubSeq(s, 1, m)) = m
        /\ \A i \in 1 .. m : SubSeq(s, 1, m)[i] = s[i]
  BY <1>1, <1>2
<1>4. Wire!Cut(s) = SubSeq(s, 1, n) BY DEF Wire!Cut
<1> HIDE DEF n
<1>5. /\ Wire!Cut(s) \in Seq(S) /\ Len(Wire!Cut(s)) = n
      /\ \A i \in 1 .. n : Wire!Cut(s)[i] = s[i]
  BY <1>2, <1>3, <1>4
<1>6. Wire!Cut(Wire!Cut(s)) = Wire!Cut(s)
  <2> DEFINE t == Wire!Cut(s)
  <2> HIDE DEF t
  <2>1. t \in Seq(S) /\ Len(t) = n /\ n <= SymbolMax BY <1>2, <1>5 DEF t
  <2>2. Wire!Cut(t) = SubSeq(t, 1, n) BY <2>1, <1>2, <1>1 DEF Wire!Cut
  <2>3. SubSeq(t, 1, n) = t BY <2>1, <1>2
  <2> QED BY <2>2, <2>3 DEF t
<1> QED BY <1>2, <1>5, <1>6 DEF S

\* Stripping undoes padding.
LEMMA StripPad ==
  ASSUME SymbolMax \in Nat \ {0}, NEW S, NEW s \in Seq(S), Len(s) \in 1 .. SymbolMax,
         \A i \in 1 .. Len(s) : s[i] # Nul
  PROVE  Wire!Stripped(Wire!Padded(s)) = s
<1> DEFINE p == Wire!Padded(s)
           kept == {i \in DOMAIN p : p[i] # Nul}
           n == Len(s)
<1>1. /\ p = [i \in 1 .. SymbolMax |-> IF i <= n THEN s[i] ELSE Nul]
      /\ n \in 1 .. SymbolMax
  BY DEF Wire!Padded
<1>2. kept = 1 .. n BY <1>1
<1>3. \A m \in 1 .. n : n >= m BY <1>1
<1>4. Wire!Max(kept) = n
  <2>1. \A x \in 1 .. n : (\A y \in 1 .. n : x >= y) => x = n BY <1>1
  <2>2. n \in 1 .. n BY <1>1
  <2> QED BY <1>2, <1>3, <2>1, <2>2 DEF Wire!Max
<1>5. Wire!Stripped(p) = SubSeq(p, 1, n)
  <2>1. Wire!Stripped(p) = SubSeq(p, 1, IF kept = {} THEN 0 ELSE Wire!Max(kept))
    BY DEF Wire!Stripped
  <2>2. n \in 1 .. n BY <1>1
  <2> HIDE DEF kept
  <2>3. kept # {} BY <2>2, <1>2
  <2> QED BY <2>1, <2>3, <1>4
<1>6. p \in Seq(S \cup {Nul}) /\ Len(p) = SymbolMax /\ \A i \in 1 .. n : p[i] = s[i]
  BY <1>1
<1> HIDE DEF p
<1>7. /\ SubSeq(p, 1, n) \in Seq(S \cup {Nul}) /\ Len(SubSeq(p, 1, n)) = n
      /\ \A i \in 1 .. n : SubSeq(p, 1, n)[i] = p[i]
  BY <1>1, <1>6
<1> DEFINE q == SubSeq(p, 1, n)
<1> HIDE DEF q
<1>8. q \in Seq(S \cup {Nul}) /\ s \in Seq(S \cup {Nul}) /\ Len(q) = Len(s)
      /\ \A i \in 1 .. Len(s) : q[i] = s[i]
  BY <1>6, <1>7 DEF q
<1>9. q = s BY <1>8
<1> QED BY <1>5, <1>9 DEF q, p

\* A message made from a trade is accepted, and says what the trade was.
LEMMA TradeIsParsed ==
  ASSUME Wire!WireAssumption, MarkersApart, NEW t \in Wire!Trades,
         NEW m \in Wire!Adapted(t)
  PROVE  /\ Wire!Accepted(m)
         /\ Wire!Stripped(Wire!Padded(m.sym)) = Wire!Cut(t.symbol)
         /\ Wire!ParsedSide(m) = (IF t.side = "buy" THEN "Buy" ELSE "Sell")
         /\ t.amount \div 10 < SizeRange =>
              /\ Wire!Narrowed(m.s) > 0
              /\ Wire!Narrowed(m.s) - t.amount \div 10 \in -1 .. 1
<1> DEFINE q == t.amount \div 10
           sym == Wire!Cut(t.symbol)
<1>1. t.symbol \in Symbols /\ t.amount \in Nat /\ t.side \in {"buy", "sell"}
  BY DEF Wire!Trades, Wire!Sides, Wire!WireAssumption
<1>2. PICK h \in Wire!Hundredths(t.amount) :
        m = Wire!Quote(sym, Wire!AtLeastOne(h), IF t.side = "buy" THEN "B" ELSE "S")
  BY DEF Wire!Adapted
<1> DEFINE n == Wire!AtLeastOne(h)
<1>3. q \in Nat /\ (t.amount % 10 = 0 /\ t.amount > 0 => q >= 1) BY <1>1
<1>4. h = q \/ (q >= 1 /\ h = q - 1) BY <1>3 DEF Wire!Hundredths
<1>5. n \in Nat /\ n >= 1 /\ n - q \in -1 .. 1 /\ (n <= q \/ n = 1)
  BY <1>3, <1>4 DEF Wire!AtLeastOne
<1>6. /\ m.sym = sym /\ m.t = "ts_ns" /\ m.p = "price" /\ m.s = n
      /\ m.side = (IF t.side = "buy" THEN "B" ELSE "S")
      /\ DOMAIN m = {"sym", "t", "p", "s", "side"}
  BY <1>2 DEF Wire!Quote
<1>7. Wire!Accepted(m)
  <2>1. m # Truncated BY <1>2 DEF MarkersApart
  <2>2. ASSUME NEW k \in Wire!RequiredKeys PROVE m[k] # WrongType
    <3>1. m.sym # WrongType BY <1>1, <1>6 DEF MarkersApart
    <3>2. m.s # WrongType BY <1>5, <1>6 DEF MarkersApart
    <3>3. m.t # WrongType /\ m.p # WrongType BY <1>6 DEF MarkersApart
    <3> QED BY <3>1, <3>2, <3>3 DEF Wire!RequiredKeys
  <2>3. Wire!RequiredKeys \subseteq DOMAIN m BY <1>6 DEF Wire!RequiredKeys
  <2> QED BY <2>1, <2>2, <2>3 DEF Wire!Accepted
<1>8. Wire!Stripped(Wire!Padded(m.sym)) = sym
  <2>1. SymbolMax \in Nat \ {0} BY DEF Wire!WireAssumption
  <2> QED BY <2>1, <1>1, <1>6, SymbolFacts, StripPad
<1>9. Wire!ParsedSide(m) = (IF t.side = "buy" THEN "Buy" ELSE "Sell")
  BY <1>1, <1>6 DEF Wire!ParsedSide
<1>10. ASSUME q < SizeRange PROVE Wire!Narrowed(m.s) = n
  <2>1. SizeRange \in Nat \ {0, 1} BY DEF Wire!WireAssumption
  <2>2. n \in 0 .. SizeRange - 1 BY <1>3, <1>5, <1>10, <2>1
  <2> QED BY <2>1, <2>2, <1>6, ModSmall DEF Wire!Narrowed
<1> QED BY <1>3, <1>5, <1>7, <1>8, <1>9, <1>10

LEMMA MalformedIsRejected ==
  ASSUME NEW m \in Wire!MalformedMessages
  PROVE  ~Wire!Accepted(m)
<1> DEFINE good == Wire!Quote(<<"A">>, 100, "B")
<1>1. CASE m = Truncated BY <1>1 DEF Wire!Accepted
<1>2. CASE m = [good EXCEPT !.t = WrongType]
  <2>1. m.t = WrongType BY <1>2 DEF Wire!Quote
  <2> QED BY <2>1 DEF Wire!Accepted, Wire!RequiredKeys
<1>3. CASE m = [sym |-> good.sym, p |-> good.p, s |-> good.s]
  <2>1. DOMAIN m = {"sym", "p", "s"} BY <1>3
  <2> QED BY <2>1 DEF Wire!Accepted, Wire!RequiredKeys
<1> QED BY <1>1, <1>2, <1>3 DEF Wire!MalformedMessages

LEMMA FollowsStep ==
  Wire!WireAssumption /\ MarkersApart /\ Follows /\ [Wire!Next]_(Wire!vars) => Follows'
<1> SUFFICES ASSUME Wire!WireAssumption, MarkersApart, Follows, [Wire!Next]_(Wire!vars)
             PROVE  Follows'
  OBVIOUS
<1>1. CASE UNCHANGED Wire!vars BY <1>1 DEF Wire!vars, Follows, Wire!TradeArrives
<1>2. ASSUME NEW t \in Wire!Trades, Wire!SendTrade(t) PROVE Follows'
  BY <1>2 DEF Wire!SendTrade, Follows, Wire!TradeArrives, Wire!Trades, Wire!Adapted
<1>3. CASE Wire!SendMalformed
  BY <1>3 DEF Wire!SendMalformed, Follows, Wire!TradeArrives
<1>4. CASE Wire!Parse
  <2>1. /\ stage = "socket" /\ stage' = "engine" /\ UNCHANGED <<trade, message>>
        /\ tick' = IF Wire!Accepted(message)
                   THEN [symbol |-> Wire!Padded(message.sym),
                         size |-> Wire!Narrowed(message.s), side |-> Wire!ParsedSide(message)]
                   ELSE Rejected
    BY <1>4 DEF Wire!Parse
  <2>2. CASE trade = Malformed /\ message \in Wire!MalformedMessages
    BY <2>1, <2>2, MalformedIsRejected DEF Follows, Wire!TradeArrives
  <2>3. CASE trade \in Wire!Trades /\ message \in Wire!Adapted(trade)
    <3>1. Wire!Accepted(message) BY <2>3, TradeIsParsed
    <3>2. tick' = [symbol |-> Wire!Padded(message.sym), size |-> Wire!Narrowed(message.s),
                   side |-> Wire!ParsedSide(message)]
      BY <2>1, <3>1
    <3>3. tick' # Rejected /\ trade' # Malformed BY <2>1, <2>3, <3>2 DEF MarkersApart
    <3>4. /\ Wire!Stripped(tick'.symbol) = Wire!Cut(trade.symbol)
          /\ tick'.side = (IF trade.side = "buy" THEN "Buy" ELSE "Sell")
          /\ trade.amount \div 10 < SizeRange =>
               /\ tick'.size > 0
               /\ tick'.size - trade.amount \div 10 \in -1 .. 1
      BY <2>3, <3>2, TradeIsParsed
    <3> QED BY <2>1, <3>3, <3>4 DEF Follows, Wire!TradeArrives
  <2> QED BY <2>1, <2>2, <2>3 DEF Follows
<1>5. CASE Wire!Build \/ Wire!FromBytes \/ \E s \in Symbols : Wire!Inject(s)
  BY <1>5 DEF Wire!Build, Wire!FromBytes, Wire!Inject, Follows, Wire!TradeArrives
<1> QED BY <1>1, <1>2, <1>3, <1>4, <1>5 DEF Wire!Next

\* A tick in the engine is a trade some feed saw.
THEOREM TradesArrive ==
  ASSUME MarkersApart
  PROVE  Wire!Spec => []TradeArrives
<1> Wire!WireAssumption BY FormatsAssumption
<1>1. Wire!Init => Follows BY DEF Wire!Init, Follows, Wire!TradeArrives
<1>2. Follows /\ [Wire!Next]_(Wire!vars) => Follows' BY FollowsStep
<1>3. Follows => TradeArrives BY DEF Follows, TradeArrives
<1> QED BY <1>1, <1>2, <1>3, PTL DEF Wire!Spec

-----------------------------------------------------------------------------
(* Feature frames *)

\* The instance has the sum of the library too.
LEMMA WireSum ==
  ASSUME NEW f, NEW S
  PROVE  Wire!SumFunctionOnSet(f, S) = SumFunctionOnSet(f, S)
BY DEF Wire!SumFunctionOnSet, Wire!FoldFunctionOnSet, Wire!MapThenFoldSet,
       SumFunctionOnSet, FoldFunctionOnSet, MapThenFoldSet

\* The layout both languages write down: 2, 2, 4 and then always 8 bytes.
WidthOf(k) == IF k <= 2 THEN 2 ELSE IF k = 3 THEN 4 ELSE 8
StartOf(k) == IF k = 1 THEN 0 ELSE IF k = 2 THEN 2 ELSE IF k = 3 THEN 4 ELSE 8 * (k - 3)

LEMMA Layout ==
  /\ DOMAIN Wire!StructWidths = 1 .. 12 /\ Len(Wire!StructWidths) = 12
  /\ \A k \in 1 .. 12 : Wire!StructWidths[k] = WidthOf(k)
  /\ Wire!EngineWidths = Wire!StructWidths
  /\ Wire!EngineFields = Wire!UnpackedFields
<1>1. /\ DOMAIN Wire!StructWidths = 1 .. 12 /\ Len(Wire!StructWidths) = 12
      /\ \A k \in 1 .. 12 : Wire!StructWidths[k] = WidthOf(k)
  BY DEF Wire!StructWidths, WidthOf
<1>2. DOMAIN Wire!EngineLayout = 1 .. 12 BY DEF Wire!EngineLayout
<1>3. Wire!EngineWidths = Wire!StructWidths
  <2>1. \A k \in 1 .. 12 : Wire!EngineLayout[k][2] = Wire!StructWidths[k]
    BY DEF Wire!EngineLayout, Wire!StructWidths
  <2>2. Wire!StructWidths = [k \in 1 .. 12 |-> Wire!StructWidths[k]] BY DEF Wire!StructWidths
  <2> QED BY <1>2, <2>1, <2>2 DEF Wire!EngineWidths
<1>4. Wire!EngineFields = Wire!UnpackedFields
  <2>1. \A k \in 1 .. 12 : Wire!EngineLayout[k][1] = Wire!UnpackedFields[k]
    BY DEF Wire!EngineLayout, Wire!UnpackedFields
  <2>2. Wire!UnpackedFields = [k \in 1 .. 12 |-> Wire!UnpackedFields[k]] BY DEF Wire!UnpackedFields
  <2> QED BY <1>2, <2>1, <2>2 DEF Wire!EngineFields
<1> QED BY <1>1, <1>3, <1>4

\* So the fields start at these offsets.
LEMMA StartsAre ==
  /\ DOMAIN Wire!Starts(Wire!StructWidths) = 1 .. 13
  /\ \A k \in 1 .. 13 : Wire!Starts(Wire!StructWidths)[k] = StartOf(k)
<1> DEFINE w == Wire!StructWidths
           sum(k) == SumFunctionOnSet(w, 1 .. k - 1)
<1>1. Len(w) = 12 /\ \A k \in 1 .. 12 : w[k] = WidthOf(k) /\ WidthOf(k) \in Int
  BY Layout DEF WidthOf
<1>2. Wire!Starts(w) = [k \in 1 .. 13 |-> sum(k)]
  BY <1>1, WireSum DEF Wire!Starts
<1> HIDE DEF w
<1>3. sum(1) = 0
  <2>1. 1 .. 0 = {} /\ IsFiniteSet({}) BY FS_EmptySet
  <2> QED BY <2>1, SumStep
<1>4. \A k \in 1 .. 12 : sum(k + 1) = WidthOf(k) + sum(k)
  <2> TAKE k \in 1 .. 12
  <2>1. 1 .. (k + 1) - 1 = (1 .. k - 1) \cup {k} /\ k \notin 1 .. k - 1 OBVIOUS
  <2>2. IsFiniteSet(1 .. k - 1) BY FS_Interval
  <2>3. \A y \in (1 .. k - 1) \cup {k} : w[y] \in Int BY <1>1
  <2>4. SumFunctionOnSet(w, (1 .. k - 1) \cup {k}) = w[k] + SumFunctionOnSet(w, 1 .. k - 1)
    BY <2>1, <2>2, <2>3, SumAdd
  <2> QED BY <1>1, <2>1, <2>4
<1> HIDE DEF sum
<1>5. sum(2) = 2 BY <1>3, <1>4 DEF WidthOf
<1>6. sum(3) = 4 BY <1>5, <1>4 DEF WidthOf
<1>7. sum(4) = 8 BY <1>6, <1>4 DEF WidthOf
<1>8. \A k \in 4 .. 12 : sum(k) = StartOf(k) => sum(k + 1) = StartOf(k + 1)
  BY <1>4 DEF WidthOf, StartOf
<1>9. sum(4) = StartOf(4) BY <1>7 DEF StartOf
<1>10. sum(5) = StartOf(5) BY <1>8, <1>9
<1>11. sum(6) = StartOf(6) BY <1>8, <1>10
<1>12. sum(7) = StartOf(7) BY <1>8, <1>11
<1>13. sum(8) = StartOf(8) BY <1>8, <1>12
<1>14. sum(9) = StartOf(9) BY <1>8, <1>13
<1>15. sum(10) = StartOf(10) BY <1>8, <1>14
<1>16. sum(11) = StartOf(11) BY <1>8, <1>15
<1>17. sum(12) = StartOf(12) BY <1>8, <1>16
<1>18. sum(13) = StartOf(13) BY <1>8, <1>17
<1>19. \A k \in 1 .. 13 : sum(k) = StartOf(k)
  <2> TAKE k \in 1 .. 13
  <2>1. CASE k \in 1 .. 3 BY <2>1, <1>3, <1>5, <1>6 DEF StartOf
  <2>2. CASE k \in 4 .. 8 BY <2>2, <1>9, <1>10, <1>11, <1>12, <1>13
  <2>3. CASE k \in 9 .. 13 BY <2>3, <1>14, <1>15, <1>16, <1>17, <1>18
  <2> QED BY <2>1, <2>2, <2>3
<1> QED BY <1>2, <1>19 DEF w

\* Every byte belongs to one value, and each value has its bytes back.
LEMMA PackedBytes ==
  ASSUME NEW values, NEW symbol
  PROVE  LET p == Wire!Packed(values, Wire!StructWidths, symbol)
         IN  /\ DOMAIN p = 1 .. 80 /\ Len(p) = 80
             /\ \A k \in 1 .. 12 : \A i \in 1 .. WidthOf(k) :
                  p[StartOf(k) + i] = Wire!BytesOf(values[k], WidthOf(k), symbol)[i]
<1> DEFINE p == Wire!Packed(values, Wire!StructWidths, symbol)
           owner(b) == CHOOSE k \in 1 .. 12 : b \in StartOf(k) + 1 .. StartOf(k + 1)
<1>1. \A k \in 1 .. 12 : StartOf(k + 1) = StartOf(k) + WidthOf(k) /\ StartOf(k) \in Nat
  BY DEF StartOf, WidthOf
<1>2. StartOf(13) = 80 BY DEF StartOf
<1>3. p = [b \in 1 .. 80 |-> Wire!BytesOf(values[owner(b)], WidthOf(owner(b)), symbol)[b - StartOf(owner(b))]]
  <2> DEFINE w == Wire!StructWidths
             start == Wire!Starts(w)
  <2>1. DOMAIN w = 1 .. 12 /\ Len(w) = 12 /\ \A k \in 1 .. 12 : w[k] = WidthOf(k) BY Layout
  <2>2. \A k \in 1 .. 13 : start[k] = StartOf(k) BY StartsAre
  <2>3. start[Len(w) + 1] = 80 BY <1>2, <2>1, <2>2
  <2>4. \A b \in 1 .. 80 : owner(b) \in 1 .. 12
    <3> TAKE b \in 1 .. 80
    <3> DEFINE j == IF b <= 2 THEN 1 ELSE IF b <= 4 THEN 2 ELSE IF b <= 8 THEN 3
                    ELSE 4 + ((b - 9) \div 8)
    <3>1. j \in 1 .. 12 /\ b \in StartOf(j) + 1 .. StartOf(j + 1) BY DEF StartOf
    <3> QED BY <3>1
  <2> DEFINE found(b) == CHOOSE k \in DOMAIN w : b \in start[k] + 1 .. start[k + 1]
  <2>5. \A b \in 1 .. 80 : found(b) = owner(b)
    <3> TAKE b \in 1 .. 80
    <3>1. \A k \in 1 .. 12 : start[k] = StartOf(k) /\ start[k + 1] = StartOf(k + 1) BY <2>2
    <3> HIDE DEF start, w
    <3> QED BY <2>1, <3>1
  <2>6. p = [b \in 1 .. start[Len(w) + 1] |->
               Wire!BytesOf(values[found(b)], w[found(b)], symbol)[b - start[found(b)]]]
    BY DEF Wire!Packed
  <2> HIDE DEF start, w, p, owner, found
  <2>7. \A b \in 1 .. 80 : start[owner(b)] = StartOf(owner(b)) /\ w[owner(b)] = WidthOf(owner(b))
    BY <2>1, <2>2, <2>4
  <2> QED BY <2>3, <2>5, <2>6, <2>7
<1>4. ASSUME NEW k \in 1 .. 12, NEW i \in 1 .. WidthOf(k)
      PROVE  StartOf(k) + i \in 1 .. 80 /\ owner(StartOf(k) + i) = k
  <2>1. i \in Nat \ {0} /\ i <= WidthOf(k) BY DEF WidthOf
  <2>2. StartOf(k) + i \in 1 .. 80 BY <2>1 DEF StartOf, WidthOf
  <2>3. StartOf(k) + i \in StartOf(k) + 1 .. StartOf(k + 1) BY <1>1, <2>1 DEF WidthOf
  <2>4. \A j \in 1 .. 12 : StartOf(k) + i \in StartOf(j) + 1 .. StartOf(j + 1) => j = k
    BY <2>1 DEF StartOf, WidthOf
  <2> QED BY <2>2, <2>3, <2>4
<1> HIDE DEF owner, p
<1>5. DOMAIN p = 1 .. 80 /\ Len(p) = 80 BY <1>3
<1>6. \A k \in 1 .. 12 : \A i \in 1 .. WidthOf(k) :
        p[StartOf(k) + i] = Wire!BytesOf(values[k], WidthOf(k), symbol)[i]
  <2> TAKE k \in 1 .. 12
  <2> TAKE i \in 1 .. WidthOf(k)
  <2>1. StartOf(k) + i \in 1 .. 80 /\ owner(StartOf(k) + i) = k BY <1>4
  <2>2. StartOf(k) \in Nat /\ i \in Nat BY <1>1 DEF WidthOf
  <2>3. (StartOf(k) + i) - StartOf(k) = i BY <2>2
  <2> QED BY <1>3, <2>1, <2>3
<1> QED BY <1>5, <1>6 DEF p

\* The symbol field of a frame: a symbol cut and padded to its eight bytes.
Framed(x) == \E s \in Symbols : x = Wire!Padded(Wire!Cut(s))

\* The values of a frame: the symbol in the fifth place and nowhere else.
Fields(values) ==
  /\ values = [k \in 1 .. 12 |-> values[k]]
  /\ \A k \in 1 .. 12 : values[k] = "symbol" <=> k = 5

LEMMA FieldsOfBoth == Fields(Wire!UnpackedFields) /\ Fields(Wire!InjectedFields)
BY DEF Fields, Wire!UnpackedFields, Wire!InjectedFields

\* What is read in each place is what was written there.
LEMMA ReadBack ==
  ASSUME SymbolMax = 8, NEW values, Fields(values), NEW symbol, Framed(symbol),
         bytes = Wire!Packed(values, Wire!StructWidths, symbol)
  PROVE  /\ \A k \in 1 .. 12 : k # 5 => Wire!ValueAt(k) = values[k]
         /\ Wire!ValueAt(5) = Wire!Stripped(symbol)
<1>1. \A k \in 1 .. 12 : Wire!Slice(k) =
        [i \in 1 .. WidthOf(k) |-> Wire!BytesOf(values[k], WidthOf(k), symbol)[i]]
  <2> TAKE k \in 1 .. 12
  <2>1. Wire!StructWidths[k] = WidthOf(k) BY Layout
  <2>2. Wire!Starts(Wire!StructWidths)[k] = StartOf(k) BY StartsAre
  <2>3. Wire!Slice(k) = [i \in 1 .. WidthOf(k) |-> bytes[StartOf(k) + i]]
    BY <2>1, <2>2 DEF Wire!Slice
  <2>4. \A i \in 1 .. WidthOf(k) : bytes[StartOf(k) + i] = Wire!BytesOf(values[k], WidthOf(k), symbol)[i]
    BY PackedBytes
  <2> QED BY <2>3, <2>4
<1>2. \A k \in 1 .. 12 : Wire!UnpackedFields[k] = "symbol" <=> k = 5
  BY FieldsOfBoth DEF Fields
<1>3. ASSUME NEW k \in 1 .. 12, k # 5 PROVE Wire!ValueAt(k) = values[k]
  <2> DEFINE v == values[k]
             n == WidthOf(k)
             c == [i \in 1 .. n |-> <<v, i>>]
  <2>1. v # "symbol" /\ n \in Nat /\ n >= 1 BY <1>3 DEF Fields, WidthOf
  <2>2. \A x : Wire!BytesOf(v, n, x) = c BY <2>1 DEF Wire!BytesOf
  <2>3. Wire!StructWidths[k] = n BY Layout
  <2> HIDE DEF v, n
  <2>4. Wire!Slice(k) = c
    <3>1. Wire!Slice(k) = [i \in 1 .. n |-> Wire!BytesOf(v, n, symbol)[i]] BY <1>1 DEF v, n
    <3>2. \A i \in 1 .. n : c[i] = Wire!BytesOf(v, n, symbol)[i] BY <2>2
    <3> QED BY <3>1, <3>2
  <2>5. Wire!Slice(k)[1][1] = v BY <2>1, <2>4
  <2> HIDE DEF c
  <2>6. Wire!ValueAt(k) = v BY <1>2, <1>3, <2>2, <2>3, <2>4, <2>5 DEF Wire!ValueAt
  <2> QED BY <2>6 DEF v
<1>4. Wire!Slice(5) = symbol
  <2> DEFINE n == WidthOf(5)
             c == Wire!BytesOf(values[5], n, symbol)
  <2>1. n = 8 BY DEF WidthOf
  <2>2. c = symbol BY DEF Fields, Wire!BytesOf
  <2>3. symbol = [i \in 1 .. 8 |-> symbol[i]] BY DEF Framed, Wire!Padded
  <2>4. Wire!Slice(5) = [i \in 1 .. n |-> c[i]] BY <1>1
  <2> HIDE DEF n, c
  <2> QED BY <2>1, <2>2, <2>3, <2>4
<1> QED BY <1>2, <1>3, <1>4 DEF Wire!ValueAt

\* What a frame was made of: a tick, or by the injector.
Written ==
  \/ /\ Framed(tick.symbol)
     /\ bytes = Wire!Packed(Wire!UnpackedFields, Wire!StructWidths, tick.symbol)
  \/ /\ tick = Nothing
     /\ \E symbol : /\ Framed(symbol)
                    /\ bytes = Wire!Packed(Wire!InjectedFields, Wire!StructWidths, symbol)

\* The way of a frame.
Conveyed ==
  /\ Follows
  /\ stage = "engine" => tick = Rejected \/ Framed(tick.symbol)
  /\ stage \in {"topic", "classifier"} => Written
  /\ stage = "classifier" =>
       record = [f \in Wire!Range(Wire!UnpackedFields) |->
                   Wire!ValueAt(CHOOSE k \in DOMAIN Wire!UnpackedFields : Wire!UnpackedFields[k] = f)]

LEMMA ConveyedStep ==
  Wire!WireAssumption /\ MarkersApart /\ Conveyed /\ [Wire!Next]_(Wire!vars) => Conveyed'
<1> SUFFICES ASSUME Wire!WireAssumption, MarkersApart, Conveyed, [Wire!Next]_(Wire!vars)
             PROVE  Conveyed'
  OBVIOUS
<1>0. Follows' BY FollowsStep DEF Conveyed
<1>1. CASE UNCHANGED Wire!vars
  <2>1. UNCHANGED <<stage, tick, bytes, record>> BY <1>1 DEF Wire!vars
  <2>2. Written => Written' BY <2>1 DEF Written
  <2>3. \A k : Wire!ValueAt(k)' = Wire!ValueAt(k) BY <2>1 DEF Wire!ValueAt, Wire!Slice
  <2> QED BY <1>0, <2>1, <2>2, <2>3 DEF Conveyed
<1>2. ASSUME NEW t \in Wire!Trades, Wire!SendTrade(t) PROVE Conveyed'
  BY <1>0, <1>2 DEF Wire!SendTrade, Conveyed
<1>3. CASE Wire!SendMalformed BY <1>0, <1>3 DEF Wire!SendMalformed, Conveyed
<1>4. CASE Wire!Parse
  <2>1. /\ stage = "socket" /\ stage' = "engine"
        /\ tick' = IF Wire!Accepted(message)
                   THEN [symbol |-> Wire!Padded(message.sym),
                         size |-> Wire!Narrowed(message.s), side |-> Wire!ParsedSide(message)]
                   ELSE Rejected
    BY <1>4 DEF Wire!Parse
  <2>2. Wire!Accepted(message) => \E s \in Symbols : message.sym = Wire!Cut(s)
    <3>1. CASE trade = Malformed /\ message \in Wire!MalformedMessages
      BY <3>1, MalformedIsRejected
    <3>2. CASE trade \in Wire!Trades /\ message \in Wire!Adapted(trade)
      BY <3>2 DEF Wire!Adapted, Wire!Quote, Wire!Trades
    <3> QED BY <2>1, <3>1, <3>2 DEF Conveyed, Follows
  <2>3. tick' = Rejected \/ Framed(tick'.symbol)
    <3>1. CASE Wire!Accepted(message)
      <4>1. tick'.symbol = Wire!Padded(message.sym) BY <2>1, <3>1
      <4> QED BY <2>2, <3>1, <4>1 DEF Framed
    <3>2. CASE ~Wire!Accepted(message) BY <2>1, <3>2
    <3> QED BY <3>1, <3>2
  <2> QED BY <1>0, <2>1, <2>3 DEF Conveyed, Framed
<1>5. CASE Wire!Build
  <2>1. /\ stage = "engine" /\ tick # Rejected /\ stage' = "topic" /\ tick' = tick
        /\ bytes' = Wire!Packed(Wire!UnpackedFields, Wire!StructWidths, tick.symbol)
    BY <1>5, Layout DEF Wire!Build
  <2>2. Framed(tick.symbol) BY <2>1 DEF Conveyed
  <2>3. Written' BY <2>1, <2>2 DEF Written, Framed
  <2> QED BY <1>0, <2>1, <2>3 DEF Conveyed
<1>6. CASE Wire!FromBytes
  <2>1. /\ stage = "topic" /\ stage' = "classifier" /\ UNCHANGED <<tick, bytes>>
        /\ record' = [f \in Wire!Range(Wire!UnpackedFields) |->
                        Wire!ValueAt(CHOOSE k \in DOMAIN Wire!UnpackedFields : Wire!UnpackedFields[k] = f)]
    BY <1>6 DEF Wire!FromBytes
  <2>2. Written' BY <2>1 DEF Conveyed, Written
  <2> QED BY <1>0, <2>1, <2>2 DEF Conveyed, Wire!ValueAt, Wire!Slice
<1>7. ASSUME NEW s \in Symbols, Wire!Inject(s) PROVE Conveyed'
  <2>1. /\ stage' = "topic" /\ tick' = Nothing
        /\ bytes' = Wire!Packed(Wire!InjectedFields, Wire!StructWidths, Wire!Padded(Wire!Cut(s)))
    BY <1>7 DEF Wire!Inject
  <2>2. Framed(Wire!Padded(Wire!Cut(s))) BY DEF Framed
  <2>3. Written' BY <2>1, <2>2 DEF Written, Framed
  <2> QED BY <1>0, <2>1, <2>3 DEF Conveyed
<1> QED BY <1>1, <1>2, <1>3, <1>4, <1>5, <1>6, <1>7 DEF Wire!Next

\* Every field has one place.
LEMMA FieldPlaces ==
  /\ DOMAIN Wire!UnpackedFields = 1 .. 12
  /\ \A k \in 1 .. 12 :
       /\ Wire!UnpackedFields[k] \in Wire!Range(Wire!UnpackedFields)
       /\ (CHOOSE j \in DOMAIN Wire!UnpackedFields :
             Wire!UnpackedFields[j] = Wire!UnpackedFields[k]) = k
<1> DEFINE u == Wire!UnpackedFields
<1>1. DOMAIN u = 1 .. 12 BY DEF Wire!UnpackedFields
<1>2. \A j, k \in 1 .. 12 : u[j] = u[k] => j = k BY DEF Wire!UnpackedFields
<1> HIDE DEF u
<1>3. \A k \in 1 .. 12 : u[k] \in Wire!Range(u) BY <1>1 DEF Wire!Range
<1>4. \A k \in 1 .. 12 : (CHOOSE j \in DOMAIN u : u[j] = u[k]) = k BY <1>1, <1>2
<1> QED BY <1>1, <1>3, <1>4 DEF u

\* The record of a frame.
LEMMA RecordIs ==
  ASSUME SymbolMax = 8, NEW values, Fields(values), NEW symbol, Framed(symbol),
         bytes = Wire!Packed(values, Wire!StructWidths, symbol),
         record = [f \in Wire!Range(Wire!UnpackedFields) |->
                     Wire!ValueAt(CHOOSE k \in DOMAIN Wire!UnpackedFields : Wire!UnpackedFields[k] = f)]
  PROVE  /\ \A k \in 1 .. 12 : k # 5 => record[Wire!UnpackedFields[k]] = values[k]
         /\ record["symbol"] = Wire!Stripped(symbol)
<1>1. ASSUME NEW k \in 1 .. 12 PROVE record[Wire!UnpackedFields[k]] = Wire!ValueAt(k)
  <2> DEFINE u == Wire!UnpackedFields
             spot(f) == CHOOSE j \in DOMAIN u : u[j] = f
  <2>1. u[k] \in Wire!Range(u) /\ spot(u[k]) = k BY FieldPlaces
  <2>2. record = [f \in Wire!Range(u) |-> Wire!ValueAt(spot(f))] OBVIOUS
  <2> HIDE DEF u, spot
  <2>3. record[u[k]] = Wire!ValueAt(spot(u[k])) BY <2>1, <2>2
  <2>4. record[u[k]] = Wire!ValueAt(k) BY <2>1, <2>3
  <2> QED BY <2>4 DEF u
<1>2. Wire!UnpackedFields[5] = "symbol" BY DEF Wire!UnpackedFields
<1> QED BY <1>1, <1>2, ReadBack

\* Written again, a record is the same bytes.
LEMMA WrittenAgain ==
  ASSUME Wire!WireAssumption, SymbolMax = 8, NEW values, Fields(values), NEW symbol, Framed(symbol),
         \A k \in 1 .. 12 : k # 5 => record[Wire!UnpackedFields[k]] = values[k],
         record["symbol"] = Wire!Stripped(symbol)
  PROVE  Wire!ToBytes = Wire!Packed(values, Wire!StructWidths, symbol)
<1> DEFINE again == [k \in DOMAIN Wire!UnpackedFields |->
                       IF Wire!UnpackedFields[k] = "symbol" THEN "symbol"
                       ELSE record[Wire!UnpackedFields[k]]]
<1>1. DOMAIN Wire!UnpackedFields = 1 .. 12 BY FieldPlaces
<1>2. \A k \in 1 .. 12 : Wire!UnpackedFields[k] = "symbol" <=> k = 5 BY FieldsOfBoth DEF Fields
<1>3. again = [k \in 1 .. 12 |-> again[k]] /\ \A k \in 1 .. 12 : again[k] = values[k]
  BY <1>1, <1>2 DEF Fields
<1> HIDE DEF again
<1>4. again = [k \in 1 .. 12 |-> values[k]] BY <1>3
<1>5. PICK s \in Symbols : symbol = Wire!Padded(Wire!Cut(s)) BY DEF Framed
<1>6. Wire!Stripped(symbol) = Wire!Cut(s)
  <2>1. SymbolMax \in Nat \ {0} OBVIOUS
  <2> QED BY <2>1, <1>5, SymbolFacts, StripPad
<1>7. Wire!Padded(Wire!Cut(record["symbol"])) = symbol BY <1>5, <1>6, SymbolFacts
<1>8. Wire!ToBytes = Wire!Packed(again, Wire!StructWidths, symbol) BY <1>7 DEF Wire!ToBytes, again
<1>9. values = [k \in 1 .. 12 |-> values[k]] BY DEF Fields
<1> HIDE DEF Fields
<1>10. again = values BY <1>4, <1>9
<1> QED BY <1>8, <1>10

\* A column of feature_log holds the field of its name.
LEMMA ColumnsAre ==
  /\ Wire!Logged("ofi") = record["ofi"]
         /\ Wire!Logged("realized_vol") = record["realized_vol"]
         /\ Wire!Logged("mid_price") = record["mid_price"]
         /\ Wire!Logged("total_volume") = record["total_volume"]
         /\ Wire!Logged("window_count") = record["window_count"]
         /\ Wire!Logged("case_id") = record["case_id"]
         /\ Wire!Logged("wire_ts_ns") = record["wire_ts_ns"]
         /\ Wire!Logged("compute_ts_ns") = record["compute_ts_ns"]
<1> DEFINE c == Wire!LoggedColumns
           spot(f) == CHOOSE k \in DOMAIN c : c[k] = f
<1>1. DOMAIN c = 1 .. 11 BY DEF Wire!LoggedColumns
<1>2. \A j, k \in 1 .. 11 : c[j] = c[k] => j = k BY DEF Wire!LoggedColumns
<1>3. /\ c[3] = "ofi" /\ c[4] = "realized_vol" /\ c[5] = "mid_price" /\ c[6] = "total_volume"
      /\ c[7] = "window_count" /\ c[9] = "case_id" /\ c[10] = "wire_ts_ns"
      /\ c[11] = "compute_ts_ns"
  BY DEF Wire!LoggedColumns
<1> DEFINE v == Wire!LoggedValues
<1>4. /\ v[3] = record["ofi"] /\ v[4] = record["realized_vol"] /\ v[5] = record["mid_price"]
      /\ v[6] = record["total_volume"] /\ v[7] = record["window_count"]
      /\ v[9] = record["case_id"] /\ v[10] = record["wire_ts_ns"]
      /\ v[11] = record["compute_ts_ns"]
  BY DEF Wire!LoggedValues
<1>5. \A f : Wire!Logged(f) = v[spot(f)] BY DEF Wire!Logged
<1> HIDE DEF c, v
<1>6. \A k \in 1 .. 11 : spot(c[k]) = k BY <1>1, <1>2
<1> HIDE DEF spot
<1>7. /\ spot("ofi") = 3 /\ spot("realized_vol") = 4 /\ spot("mid_price") = 5
      /\ spot("total_volume") = 6 /\ spot("window_count") = 7 /\ spot("case_id") = 9
      /\ spot("wire_ts_ns") = 10 /\ spot("compute_ts_ns") = 11
  BY <1>3, <1>6
<1> QED BY <1>4, <1>5, <1>7

\* A frame that came this way is understood.
LEMMA FrameUnderstood ==
  ASSUME Wire!WireAssumption, SymbolMax = 8, Conveyed
  PROVE  FrameIsUnderstood
<1> SUFFICES ASSUME stage = "classifier"
    PROVE  /\ \A f \in Wire!Range(Wire!FeatureNames) \cup {"version", "ts_ns", "case_id"} : record[f] = f
           /\ record["wire_ts_ns"] \in {"wire_ts_ns", "ts_ns"}
           /\ record["compute_ts_ns"] \in {"compute_ts_ns", "ts_ns"}
           /\ tick # Nothing => record["symbol"] = Wire!Stripped(tick.symbol)
           /\ Wire!ScoredVector = Wire!FeatureNames
           /\ Wire!TrainedVector = Wire!FeatureNames
           /\ Wire!SearchVector = Wire!FeatureNames
           /\ Wire!ToBytes = bytes
           /\ \A c \in {"case_id", "wire_ts_ns", "compute_ts_ns"} : Wire!Logged(c) = record[c]
  BY DEF FrameIsUnderstood, Wire!FrameIsUnderstood
<1>1. \E values \in {Wire!UnpackedFields, Wire!InjectedFields} : \E symbol :
        /\ Framed(symbol) /\ bytes = Wire!Packed(values, Wire!StructWidths, symbol)
        /\ tick # Nothing => symbol = tick.symbol
  BY DEF Conveyed, Written
<1> PICK values \in {Wire!UnpackedFields, Wire!InjectedFields} :
      \E symbol :
        /\ Framed(symbol) /\ bytes = Wire!Packed(values, Wire!StructWidths, symbol)
        /\ tick # Nothing => symbol = tick.symbol
  BY <1>1
<1>2. PICK symbol :
        /\ Framed(symbol) /\ bytes = Wire!Packed(values, Wire!StructWidths, symbol)
        /\ tick # Nothing => symbol = tick.symbol
  OBVIOUS
<1>3. Fields(values) BY FieldsOfBoth
<1>4. record = [f \in Wire!Range(Wire!UnpackedFields) |->
                  Wire!ValueAt(CHOOSE k \in DOMAIN Wire!UnpackedFields : Wire!UnpackedFields[k] = f)]
  BY DEF Conveyed
<1>5. /\ \A k \in 1 .. 12 : k # 5 => record[Wire!UnpackedFields[k]] = values[k]
      /\ record["symbol"] = Wire!Stripped(symbol)
  BY <1>2, <1>3, <1>4, RecordIs
<1>6. Wire!ToBytes = bytes BY <1>2, <1>3, <1>5, WrittenAgain
<1>7. /\ record["version"] = "version" /\ record["ts_ns"] = "ts_ns"
      /\ record["window_count"] = "window_count" /\ record["ofi"] = "ofi"
      /\ record["realized_vol"] = "realized_vol" /\ record["mid_price"] = "mid_price"
      /\ record["total_volume"] = "total_volume" /\ record["case_id"] = "case_id"
      /\ record["wire_ts_ns"] \in {"wire_ts_ns", "ts_ns"}
      /\ record["compute_ts_ns"] \in {"compute_ts_ns", "ts_ns"}
  <2> DEFINE u == Wire!UnpackedFields
  <2>1. /\ u[1] = "version" /\ u[3] = "window_count" /\ u[4] = "ts_ns" /\ u[6] = "ofi"
        /\ u[7] = "realized_vol" /\ u[8] = "mid_price" /\ u[9] = "total_volume"
        /\ u[10] = "case_id" /\ u[11] = "wire_ts_ns" /\ u[12] = "compute_ts_ns"
    BY DEF Wire!UnpackedFields
  <2>2. /\ values[1] = "version" /\ values[3] = "window_count" /\ values[4] = "ts_ns"
        /\ values[6] = "ofi" /\ values[7] = "realized_vol" /\ values[8] = "mid_price"
        /\ values[9] = "total_volume" /\ values[10] = "case_id"
        /\ values[11] \in {"wire_ts_ns", "ts_ns"} /\ values[12] \in {"compute_ts_ns", "ts_ns"}
    <3>1. CASE values = Wire!UnpackedFields BY <3>1 DEF Wire!UnpackedFields
    <3>2. CASE values = Wire!InjectedFields BY <3>2 DEF Wire!InjectedFields
    <3> QED BY <3>1, <3>2
  <2>3. /\ record[u[1]] = values[1] /\ record[u[3]] = values[3] /\ record[u[4]] = values[4]
        /\ record[u[6]] = values[6] /\ record[u[7]] = values[7] /\ record[u[8]] = values[8]
        /\ record[u[9]] = values[9] /\ record[u[10]] = values[10]
        /\ record[u[11]] = values[11] /\ record[u[12]] = values[12]
    BY <1>5
  <2> HIDE DEF u
  <2> QED BY <2>1, <2>2, <2>3
<1> DEFINE n == Wire!FeatureNames
<1>8. n = <<"ofi", "realized_vol", "mid_price", "total_volume", "window_count">>
  BY DEF Wire!FeatureNames
<1>9. DOMAIN n = 1 .. 5 /\ \A k \in 1 .. 5 : n[k] \in
        {"ofi", "realized_vol", "mid_price", "total_volume", "window_count"}
  BY <1>8
<1>10. \A k \in 1 .. 5 : record[n[k]] = n[k]
  <2> HIDE DEF n
  <2> QED BY <1>7, <1>9
<1>11. Wire!ScoredVector = n BY <1>7, <1>8 DEF Wire!ScoredVector
<1>12. Wire!TrainedVector = n
  <2>1. \A k \in 1 .. 5 : Wire!SelectedColumns[k] = n[k] BY <1>8 DEF Wire!SelectedColumns
  <2>2. \A k \in 1 .. 5 : Wire!Logged(n[k]) = record[n[k]]
    <3> HIDE DEF n
    <3> QED BY <1>9, ColumnsAre
  <2>3. n = [k \in 1 .. 5 |-> n[k]] BY <1>8
  <2>4. Wire!TrainedVector = [k \in 1 .. 5 |-> Wire!Logged(Wire!SelectedColumns[k])]
    BY <1>9 DEF Wire!TrainedVector
  <2> HIDE DEF n
  <2> QED BY <1>10, <2>1, <2>2, <2>3, <2>4
<1>13. Wire!SearchVector = n
  <2> DEFINE F == {"ofi", "realized_vol", "mid_price", "total_volume", "window_count"}
  <2>1. Wire!SearchVector = [k \in DOMAIN n |-> [f \in F |-> record[f]][n[k]]]
    BY DEF Wire!SearchVector
  <2>2. n = [k \in 1 .. 5 |-> n[k]] BY <1>8
  <2>3. \A k \in 1 .. 5 : n[k] \in F BY <1>9
  <2> HIDE DEF n, F
  <2>4. \A k \in 1 .. 5 : [f \in F |-> record[f]][n[k]] = n[k] BY <1>10, <2>3
  <2> QED BY <1>9, <2>1, <2>2, <2>4
<1>14. \A f \in Wire!Range(n) \cup {"version", "ts_ns", "case_id"} : record[f] = f
  <2> HIDE DEF n
  <2>1. \A f \in Wire!Range(n) : record[f] = f BY <1>9, <1>10 DEF Wire!Range
  <2> QED BY <1>7, <2>1
<1>15. tick # Nothing => record["symbol"] = Wire!Stripped(tick.symbol) BY <1>2, <1>5
<1>16. \A c \in {"case_id", "wire_ts_ns", "compute_ts_ns"} : Wire!Logged(c) = record[c]
  BY ColumnsAre
<1> QED BY <1>6, <1>7, <1>11, <1>12, <1>13, <1>14, <1>15, <1>16

(***************************************************************************)
(* What the classifier, the trainer and the agents read in a frame is what *)
(* the engine or the injector wrote, for any symbols.  The layouts say 8,  *)
(* where the engine says kSymbolMax.                                       *)
(***************************************************************************)
THEOREM FramesAreUnderstood ==
  ASSUME MarkersApart, SymbolMax = 8
  PROVE  Wire!Spec => []FrameIsUnderstood
<1> Wire!WireAssumption BY FormatsAssumption
<1>1. Wire!Init => Conveyed
  BY DEF Wire!Init, Conveyed, Follows, Wire!TradeArrives
<1>2. Conveyed /\ [Wire!Next]_(Wire!vars) => Conveyed' BY ConveyedStep
<1>3. Conveyed => FrameIsUnderstood BY FrameUnderstood
<1> QED BY <1>1, <1>2, <1>3, PTL DEF Wire!Spec

-----------------------------------------------------------------------------
(* The buckets are exact for every number of buckets, every width and every *)
(* feed whose ticks are less than BucketCount epochs late.                  *)

\* Nothing has been traded beyond the newest epoch, and no bucket is there.
NothingAhead ==
  /\ \A e \in Epochs : e > newest => bought[e] = 0 /\ sold[e] = 0
  /\ \A s \in Slots : buckets[s].epoch <= newest

OfiInv == TypeOK /\ NothingAhead /\ WindowExact

LEMMA EpochFacts ==
  /\ Epochs \subseteq Nat /\ 0 \in Epochs
  /\ \A t \in Times : t \div Width \in Epochs
<1>1. \A t \in Times : t \in Nat /\ t \div Width \in Nat BY OfiAssumption
<1> QED BY <1>1 DEF Epochs

LEMMA SlotFacts ==
  ASSUME NEW d \in Nat, NEW e \in Nat
  PROVE  /\ SlotOf(e) \in Slots
         /\ SlotOf(d) = SlotOf(e) /\ d - e < BucketCount /\ e - d < BucketCount => d = e
<1>1. BucketCount \in Nat \ {0} /\ d \in Int /\ e \in Int BY OfiAssumption
<1>2. SlotOf(e) \in Slots BY <1>1, ModRange DEF SlotOf, Slots
<1>3. SlotOf(d) = SlotOf(e) /\ d - e < BucketCount /\ e - d < BucketCount => d = e
  BY <1>1, ModInjective DEF SlotOf
<1> QED BY <1>2, <1>3

LEMMA OfiInit == Init => OfiInv
<1> SUFFICES ASSUME Init PROVE OfiInv
  OBVIOUS
<1>1. TypeOK BY EpochFacts DEF Init, TypeOK, Bucket
<1>2. NothingAhead BY EpochFacts DEF Init, NothingAhead
<1>3. WindowExact
  <2>1. ASSUME NEW e \in Window
        PROVE  LET b == buckets[SlotOf(e)]
               IN  IF b.epoch = e THEN b.buy = bought[e] /\ b.sell = sold[e]
                                  ELSE bought[e] = 0 /\ sold[e] = 0
    <3>1. e \in Epochs /\ SlotOf(e) \in Slots BY EpochFacts, SlotFacts DEF Window
    <3> QED BY <3>1 DEF Init
  <2> QED BY <2>1 DEF WindowExact
<1> QED BY <1>1, <1>2, <1>3 DEF OfiInv

\* A tick that is not later than the window reaches changes its own epoch's
\* bucket and no other bucket of the window.
LEMMA OfiUpdate ==
  ASSUME MaxLateness < BucketCount, OfiInv,
         NEW ts \in Times, NEW side \in Sides, NEW size \in Sizes, Update(ts, side, size)
  PROVE  OfiInv'
<1> DEFINE epoch == ts \div Width
           slot == SlotOf(epoch)
           bucket == Recycled(buckets[slot], epoch)
           buy == IF side = "Buy" THEN size ELSE 0
           sell == IF side = "Buy" THEN 0 ELSE size
<1>1. /\ epoch \in Epochs /\ epoch \in Nat /\ newest \in Nat /\ slot \in Slots
      /\ buy \in Nat /\ sell \in Nat /\ MaxLateness \in Nat /\ BucketCount \in Nat
      /\ Epochs \subseteq Nat
  BY EpochFacts, SlotFacts, OfiAssumption DEF OfiInv, TypeOK
<1>2. /\ epoch >= newest - MaxLateness
      /\ buckets' = [buckets EXCEPT ![slot] = [bucket EXCEPT !.buy = @ + buy, !.sell = @ + sell]]
      /\ newest' = IF epoch > newest THEN epoch ELSE newest
      /\ bought' = [bought EXCEPT ![epoch] = @ + buy]
      /\ sold' = [sold EXCEPT ![epoch] = @ + sell]
  BY DEF Update, NewestAfter
<1>3. bucket \in Bucket /\ bucket.epoch = epoch
      /\ (buckets[slot].epoch = epoch => bucket = buckets[slot])
      /\ (buckets[slot].epoch # epoch => bucket.buy = 0 /\ bucket.sell = 0)
  BY <1>1 DEF Recycled, Bucket, OfiInv, TypeOK
<1>4. /\ bought \in [Epochs -> Nat] /\ sold \in [Epochs -> Nat]
      /\ buckets \in [Slots -> Bucket] /\ newest \in Epochs
  BY DEF OfiInv, TypeOK
<1> HIDE DEF epoch, slot, bucket, buy, sell
<1>5. /\ buckets'[slot] = [epoch |-> epoch, buy |-> bucket.buy + buy, sell |-> bucket.sell + sell]
      /\ \A s \in Slots : s # slot => buckets'[s] = buckets[s]
  BY <1>1, <1>2, <1>3, <1>4 DEF Bucket
<1>9. newest' \in Nat /\ newest <= newest' /\ epoch <= newest' BY <1>1, <1>2
<1>6. TypeOK'
  <2>1. buckets'[slot] \in Bucket BY <1>1, <1>3, <1>5 DEF Bucket
  <2>2. buckets' \in [Slots -> Bucket] BY <1>2, <1>4, <1>5, <2>1
  <2> QED BY <1>1, <1>2, <1>4, <2>2 DEF TypeOK
<1>7. NothingAhead'
  <2>1. \A e \in Epochs : e > newest' => bought'[e] = 0 /\ sold'[e] = 0
    BY <1>1, <1>2, <1>4 DEF OfiInv, NothingAhead
  <2>2. \A s \in Slots : buckets'[s].epoch <= newest'
    <3>1. ASSUME NEW s \in Slots PROVE buckets'[s].epoch <= newest'
      <4>1. CASE s = slot
        <5>1. buckets'[s].epoch = epoch BY <1>5, <4>1
        <5> QED BY <1>9, <5>1
      <4>2. CASE s # slot
        <5>1. buckets'[s] = buckets[s] /\ buckets[s].epoch \in Nat /\ buckets[s].epoch <= newest
          BY <1>1, <1>4, <1>5, <4>2 DEF OfiInv, NothingAhead, Bucket
        <5>2. \A n \in Nat : n <= newest => n <= newest' BY <1>1, <1>9
        <5> QED BY <5>1, <5>2
      <4> QED BY <4>1, <4>2
    <3> QED BY <3>1
  <2> QED BY <2>1, <2>2 DEF NothingAhead
<1>8. WindowExact'
  <2> SUFFICES ASSUME NEW e \in Epochs, newest' - BucketCount < e, e <= newest'
               PROVE  IF buckets'[SlotOf(e)].epoch = e
                        THEN /\ buckets'[SlotOf(e)].buy = bought'[e]
                             /\ buckets'[SlotOf(e)].sell = sold'[e]
                        ELSE bought'[e] = 0 /\ sold'[e] = 0
    BY DEF WindowExact, Window
  <2>1. e \in Nat /\ SlotOf(e) \in Slots BY <1>1, SlotFacts
  <2>2. newest - BucketCount < epoch BY <1>1, <1>2
  <2>3. CASE e = epoch
    <3>1. SlotOf(e) = slot BY <2>3 DEF slot
    <3>2. bucket.buy = bought[e] /\ bucket.sell = sold[e]
      <4>1. CASE epoch > newest
        <5>1. buckets[slot].epoch # epoch
          BY <1>1, <1>4, <4>1 DEF OfiInv, NothingAhead, Bucket
        <5> QED BY <1>1, <1>3, <2>3, <4>1, <5>1 DEF OfiInv, NothingAhead
      <4>2. CASE epoch <= newest
        <5>1. e \in Window BY <1>1, <2>2, <2>3, <4>2 DEF Window
        <5> QED BY <1>3, <2>3, <3>1, <5>1 DEF OfiInv, WindowExact
      <4> QED BY <1>1, <4>1, <4>2
    <3>3. bought'[e] = bought[e] + buy /\ sold'[e] = sold[e] + sell
      BY <1>2, <1>4, <2>3
    <3> QED BY <1>5, <2>3, <3>1, <3>2, <3>3
  <2>4. CASE e # epoch
    <3>1. SlotOf(e) # slot
      <4>1. e - epoch < BucketCount /\ epoch - e < BucketCount BY <1>1, <1>2, <2>1, <2>2
      <4> QED BY <1>1, <2>1, <2>4, <4>1, SlotFacts DEF slot
    <3>2. /\ buckets'[SlotOf(e)] = buckets[SlotOf(e)]
          /\ bought'[e] = bought[e] /\ sold'[e] = sold[e]
      BY <1>2, <1>4, <1>5, <2>1, <2>4, <3>1
    <3>3. CASE e <= newest
      <4>1. e \in Window BY <1>1, <1>2, <2>1, <3>3 DEF Window
      <4> QED BY <3>2, <4>1 DEF OfiInv, WindowExact
    <3>4. CASE e > newest
      <4>1. buckets[SlotOf(e)].epoch # e /\ bought[e] = 0 /\ sold[e] = 0
        BY <1>1, <1>4, <2>1, <3>4 DEF OfiInv, NothingAhead, Bucket
      <4> QED BY <3>2, <4>1
    <3> QED BY <1>1, <2>1, <3>3, <3>4
  <2> QED BY <2>3, <2>4
<1> QED BY <1>6, <1>7, <1>8 DEF OfiInv

LEMMA OfiStep ==
  ASSUME MaxLateness < BucketCount, OfiInv, [Next]_vars
  PROVE  OfiInv'
<1>1. CASE UNCHANGED vars
  BY <1>1 DEF OfiInv, TypeOK, NothingAhead, WindowExact, Window, vars
<1>2. ASSUME NEW ts \in Times, NEW side \in Sides, NEW size \in Sizes,
             Update(ts, side, size) \/ Ignore(side, size)
      PROVE  OfiInv'
  BY <1>1, <1>2, OfiUpdate DEF Ignore
<1> QED BY <1>1, <1>2 DEF Next

\* On a feed whose ticks are less than BucketCount epochs late, every bucket of
\* the window is exact, so the imbalance lacks nothing and has nothing to spare.
THEOREM BucketsExact ==
  ASSUME MaxLateness < BucketCount
  PROVE  Spec => []WindowExact
<1>1. Init => OfiInv BY OfiInit
<1>2. OfiInv /\ [Next]_vars => OfiInv' BY OfiStep
<1>3. OfiInv => WindowExact BY DEF OfiInv
<1> QED BY <1>1, <1>2, <1>3, PTL DEF Spec

\* A bucket that has taken a tick is the one of its epoch.
AtHome ==
  \A s \in Slots :
    SlotOf(buckets[s].epoch) = s \/ (buckets[s].buy = 0 /\ buckets[s].sell = 0)

LEMMA AtHomeStep ==
  /\ Init => AtHome
  /\ OfiInv /\ AtHome /\ [Next]_vars => AtHome'
<1>1. Init => AtHome BY DEF Init, AtHome
<1>2. ASSUME OfiInv, AtHome, [Next]_vars PROVE AtHome'
  <2>1. CASE UNCHANGED vars BY <1>2, <2>1 DEF AtHome, vars
  <2>2. ASSUME NEW ts \in Times, NEW side \in Sides, NEW size \in Sizes, Update(ts, side, size)
        PROVE  AtHome'
    <3> DEFINE epoch == ts \div Width
               slot == SlotOf(epoch)
               bucket == Recycled(buckets[slot], epoch)
               buy == IF side = "Buy" THEN size ELSE 0
               sell == IF side = "Buy" THEN 0 ELSE size
               filled == [bucket EXCEPT !.buy = @ + buy, !.sell = @ + sell]
    <3>1. buckets' = [buckets EXCEPT ![slot] = filled] BY <2>2 DEF Update
    <3>2. slot \in Slots /\ buckets \in [Slots -> Bucket]
      <4>1. epoch \in Nat BY EpochFacts
      <4>2. slot \in Slots BY <4>1, SlotFacts
      <4> QED BY <1>2, <4>2 DEF OfiInv, TypeOK
    <3>3. filled.epoch = epoch
      <4>1. bucket.epoch = epoch /\ DOMAIN bucket = {"epoch", "buy", "sell"}
        <5>1. buckets[slot] \in Bucket BY <3>2
        <5> HIDE DEF epoch, slot
        <5> QED BY <5>1 DEF Recycled, Bucket
      <4> HIDE DEF bucket, buy, sell
      <4> QED BY <4>1
    <3> HIDE DEF filled, slot
    <3>4. \A s \in Slots : buckets'[s] = IF s = slot THEN filled ELSE buckets[s]
      BY <3>1, <3>2
    <3>5. ASSUME NEW s \in Slots
          PROVE  SlotOf(buckets'[s].epoch) = s \/ (buckets'[s].buy = 0 /\ buckets'[s].sell = 0)
      <4>1. CASE s = slot
        <5>1. buckets'[s].epoch = epoch BY <3>3, <3>4, <4>1
        <5>2. SlotOf(epoch) = s BY <4>1 DEF slot
        <5> QED BY <5>1, <5>2
      <4>2. CASE s # slot
        <5>1. buckets'[s] = buckets[s] BY <3>4, <4>2
        <5> QED BY <1>2, <5>1 DEF AtHome
      <4> QED BY <4>1, <4>2
    <3> QED BY <3>5 DEF AtHome
  <2>3. ASSUME NEW side, NEW size, Ignore(side, size) PROVE AtHome'
    BY <2>1, <2>3 DEF Ignore
  <2> QED BY <1>2, <2>1, <2>2, <2>3 DEF Next
<1> QED BY <1>1, <1>2

\* What the buckets of the window add up to is what its epochs add up to, of any
\* f on the buckets and g on the epochs that agree where a bucket holds its
\* epoch and are 0 elsewhere.
LEMMA CountedIsWindow ==
  ASSUME OfiInv, NEW f, NEW g,
         \A s \in Slots : f[s] \in Int,
         \A e \in Window : IF buckets[SlotOf(e)].epoch = e THEN g[e] = f[SlotOf(e)] ELSE g[e] = 0,
         \A s \in Slots : SlotOf(buckets[s].epoch) = s \/ f[s] = 0
  PROVE  SumFunctionOnSet(f, Counted) = SumFunctionOnSet(g, Window)
<1> DEFINE home == {s \in Counted : SlotOf(buckets[s].epoch) = s}
           kept == {e \in Window : buckets[SlotOf(e)].epoch = e}
           p == [s \in home |-> buckets[s].epoch]
<1>1. /\ BucketCount \in Nat \ {0} /\ Epochs \subseteq Nat /\ newest \in Nat
      /\ \A s \in Slots : buckets[s].epoch \in Epochs
      /\ Counted \subseteq Slots /\ Window \subseteq Epochs
  BY OfiAssumption, EpochFacts DEF OfiInv, TypeOK, Bucket, Counted, Window
<1>2. /\ \A s \in Counted : buckets[s].epoch \in Window
      /\ \A e \in Window : SlotOf(e) \in Slots
                             /\ (buckets[SlotOf(e)].epoch = e => SlotOf(e) \in Counted)
  <2>1. \A e \in Window : SlotOf(e) \in Slots BY <1>1, SlotFacts
  <2>2. \A e \in Epochs : e \in Window <=> InWindow(e)
    BY <1>1 DEF Window, InWindow
  <2> QED BY <1>1, <2>1, <2>2 DEF Counted
<1>3. IsFiniteSet(Counted) /\ IsFiniteSet(Window) /\ IsFiniteSet(home)
  <2>1. IsFiniteSet(Slots) BY <1>1, FS_Interval DEF Slots
  <2>2. ASSUME NEW e \in Window PROVE e \in newest - BucketCount .. newest
    <3>1. e \in Nat /\ newest - BucketCount < e /\ e <= newest BY <1>1 DEF Window
    <3> QED BY <1>1, <3>1
  <2>3. IsFiniteSet(newest - BucketCount .. newest) BY <1>1, FS_Interval
  <2> QED BY <1>1, <2>1, <2>2, <2>3, FS_Subset
<1>4. {p[s] : s \in home} = kept
  <2>1. \A s \in home : p[s] \in kept BY <1>2
  <2>2. \A e \in kept : SlotOf(e) \in home /\ p[SlotOf(e)] = e BY <1>2
  <2> HIDE DEF home, kept, p
  <2> QED BY <2>1, <2>2
<1>5. SumFunctionOnSet(f, Counted) = SumFunctionOnSet(f, home)
  <2>1. \A s \in Counted : f[s] \in Int BY <1>1
  <2>2. \A s \in Counted \ home : f[s] = 0 BY <1>1
  <2>3. home \subseteq Counted OBVIOUS
  <2> HIDE DEF home
  <2> QED BY <1>3, <2>1, <2>2, <2>3, SumDropsZeros
<1>6. SumFunctionOnSet(f, home) = SumFunctionOnSet(g, kept)
  <2>1. \A s \in home : f[s] \in Int BY <1>1
  <2>2. \A s, t \in home : p[s] = p[t] => s = t OBVIOUS
  <2>3. \A s \in home : g[p[s]] = f[s] BY <1>2
  <2> HIDE DEF home, p
  <2>4. SumFunctionOnSet(f, home) = SumFunctionOnSet(g, {p[s] : s \in home})
    BY <1>3, <2>1, <2>2, <2>3, SumReindexed
  <2> QED BY <1>4, <2>4
<1>7. SumFunctionOnSet(g, Window) = SumFunctionOnSet(g, kept)
  <2>1. \A e \in Window : g[e] \in Int BY <1>2
  <2>2. \A e \in Window \ kept : g[e] = 0 OBVIOUS
  <2>3. kept \subseteq Window OBVIOUS
  <2> HIDE DEF kept
  <2> QED BY <1>3, <2>1, <2>2, <2>3, SumDropsZeros
<1> QED BY <1>5, <1>6, <1>7

LEMMA ImbalanceTrue == OfiInv /\ AtHome => ValueIsImbalance
<1> SUFFICES ASSUME OfiInv, AtHome PROVE ValueIsImbalance
  OBVIOUS
<1>1. /\ \A s \in Slots : buckets[s].buy \in Nat /\ buckets[s].sell \in Nat
      /\ \A e \in Window : e \in Epochs /\ SlotOf(e) \in Slots
  BY EpochFacts, SlotFacts DEF OfiInv, TypeOK, Bucket, Window
<1>2. \A e \in Window :
        IF buckets[SlotOf(e)].epoch = e
        THEN buckets[SlotOf(e)].buy = bought[e] /\ buckets[SlotOf(e)].sell = sold[e]
        ELSE bought[e] = 0 /\ sold[e] = 0
  BY DEF OfiInv, WindowExact
<1>3. \A s \in Slots :
        SlotOf(buckets[s].epoch) = s \/ (buckets[s].buy = 0 /\ buckets[s].sell = 0)
  BY DEF AtHome
<1>4. Value = SumFunctionOnSet([e \in Epochs |-> bought[e] - sold[e]], Window)
  <2> DEFINE f == [s \in Slots |-> buckets[s].buy - buckets[s].sell]
             g == [e \in Epochs |-> bought[e] - sold[e]]
  <2>1. \A s \in Slots : f[s] \in Int BY <1>1
  <2>2. \A e \in Window :
          IF buckets[SlotOf(e)].epoch = e THEN g[e] = f[SlotOf(e)] ELSE g[e] = 0
    BY <1>1, <1>2
  <2>3. \A s \in Slots : SlotOf(buckets[s].epoch) = s \/ f[s] = 0 BY <1>3
  <2>4. Value = SumFunctionOnSet(f, Counted) BY DEF Value
  <2> HIDE DEF f, g
  <2>5. SumFunctionOnSet(f, Counted) = SumFunctionOnSet(g, Window)
    BY <2>1, <2>2, <2>3, CountedIsWindow
  <2> QED BY <2>4, <2>5 DEF g
<1>5. TotalVolume = SumFunctionOnSet([e \in Epochs |-> bought[e] + sold[e]], Window)
  <2> DEFINE f == [s \in Slots |-> buckets[s].buy + buckets[s].sell]
             g == [e \in Epochs |-> bought[e] + sold[e]]
  <2>1. \A s \in Slots : f[s] \in Int BY <1>1
  <2>2. \A e \in Window :
          IF buckets[SlotOf(e)].epoch = e THEN g[e] = f[SlotOf(e)] ELSE g[e] = 0
    BY <1>1, <1>2
  <2>3. \A s \in Slots : SlotOf(buckets[s].epoch) = s \/ f[s] = 0 BY <1>3
  <2>4. TotalVolume = SumFunctionOnSet(f, Counted) BY DEF TotalVolume
  <2> HIDE DEF f, g
  <2>5. SumFunctionOnSet(f, Counted) = SumFunctionOnSet(g, Window)
    BY <2>1, <2>2, <2>3, CountedIsWindow
  <2> QED BY <2>4, <2>5 DEF g
<1> QED BY <1>4, <1>5 DEF ValueIsImbalance

-----------------------------------------------------------------------------
(* The array of returns holds the last of them, however often head went    *)
(* round.                                                                  *)

Shorter(m, n) == IF m < n THEN m ELSE n

VolInv ==
  /\ Vol!TypeOK
  /\ count = Shorter(Len(past), Vol!Capacity)
  /\ head = Len(past) % Vol!Capacity
  /\ \A i \in Len(past) - count + 1 .. Len(past) : returns[(i - 1) % Vol!Capacity] = past[i]

LEMMA CapacityFacts ==
  /\ Vol!Capacity \in Nat \ {0} /\ Vol!Capacity <= MaxSamples /\ MaxSamples \in Nat
  /\ \A k \in Int : k % Vol!Capacity \in 0 .. Vol!Capacity - 1
<1>1. Vol!RvAssumption BY KernelAssumption
<1>2. Vol!Capacity \in Nat \ {0} /\ Vol!Capacity <= MaxSamples /\ MaxSamples \in Nat
  BY <1>1 DEF Vol!RvAssumption, Vol!Capacity, Vol!CapacityFor
<1> QED BY <1>2, ModRange

LEMMA VolInitInv == Vol!Init => VolInv
<1> SUFFICES ASSUME Vol!Init PROVE VolInv
  OBVIOUS
<1>1. Vol!TypeOK BY CapacityFacts DEF Vol!Init, Vol!TypeOK
<1>2. Len(past) = 0 /\ count = 0 /\ head = 0 BY DEF Vol!Init
<1>3. 0 % Vol!Capacity = 0 BY CapacityFacts, ModSmall
<1> QED BY <1>1, <1>2, <1>3, CapacityFacts DEF VolInv, Shorter

\* One more return takes the place of the oldest one.
LEMMA VolRecord ==
  ASSUME VolInv, NEW price \in LogPrices, Vol!Record(price)
  PROVE  VolInv'
<1> DEFINE C == Vol!Capacity
           n == Len(past)
           r == price - last
<1>1. C \in Nat \ {0} /\ C <= MaxSamples /\ MaxSamples \in Nat BY CapacityFacts
<1>2. /\ n \in Nat /\ past \in Seq(Int) /\ count = Shorter(n, C)
      /\ returns \in [0 .. MaxSamples - 1 -> Int] /\ head \in 0 .. C - 1
  BY DEF VolInv, Vol!TypeOK
<1>12. head = n % C /\ \A i \in n - count + 1 .. n : returns[(i - 1) % C] = past[i]
  BY DEF VolInv
<1>13. \A k \in Int : k % C \in 0 .. C - 1 BY CapacityFacts
<1>3. price \in Int /\ last \in Int /\ r \in Int
  <2>1. Vol!RvAssumption BY KernelAssumption
  <2> QED BY <2>1 DEF VolInv, Vol!TypeOK, Vol!Record, Vol!RvAssumption
<1>14. head' = (head + 1) % C BY DEF Vol!Record, Vol!NextHead
<1>4. /\ returns' = [returns EXCEPT ![head] = r]
      /\ count' = IF count < C THEN count + 1 ELSE count
      /\ past' = Append(past, r) /\ last' = price
  BY DEF Vol!Record, Vol!CountAfter
<1> HIDE DEF r, C
<1>5. /\ past' \in Seq(Int) /\ Len(past') = n + 1 /\ past'[n + 1] = r
      /\ \A i \in 1 .. n : past'[i] = past[i]
  BY <1>2, <1>3, <1>4
<1> HIDE DEF n
<1>6. count' = Shorter(n + 1, C) /\ count' \in 0 .. C /\ count \in 0 .. C /\ count <= n
  <2>1. n \in Nat /\ C \in Nat \ {0} /\ count = IF n < C THEN n ELSE C
    BY <1>1, <1>2 DEF Shorter
  <2>2. count' = IF count < C THEN count + 1 ELSE count BY <1>4
  <2> QED BY <2>1, <2>2 DEF Shorter
<1>7. head' = (n + 1) % C /\ head' \in 0 .. C - 1
  <2>2. n \in Int /\ n + 1 \in Int BY <1>2
  <2>5. C \in Nat \ {0} BY <1>1
  <2>1. (n + 1) % C = ((n % C) + 1) % C BY <2>2, <2>5, ModSuccessor
  <2>3. head' = ((n % C) + 1) % C BY <1>12, <1>14
  <2>4. head' = (n + 1) % C BY <2>1, <2>3
  <2> QED BY <1>13, <2>2, <2>4
<1>8. returns' \in [0 .. MaxSamples - 1 -> Int] BY <1>1, <1>2, <1>3, <1>4
<1>9. ASSUME NEW i \in n + 1 - count' + 1 .. n + 1
      PROVE  returns'[(i - 1) % C] = past'[i]
  <2>1. i \in Int /\ i >= 1 /\ n + 1 - C + 1 <= i /\ i <= n + 1 /\ count' <= n + 1
    BY <1>1, <1>2, <1>6 DEF Shorter
  <2>2. CASE i = n + 1
    <3>1. (i - 1) % C = head /\ head \in 0 .. MaxSamples - 1
      <4>1. i - 1 = n BY <1>2, <2>2
      <4> QED BY <1>1, <1>2, <1>12, <4>1
    <3> QED BY <1>2, <1>4, <1>5, <2>2, <3>1
  <2>3. CASE i # n + 1
    <3>1. i \in 1 .. n /\ i \in n - count + 1 .. n /\ i - 1 \in Int
      BY <1>1, <1>2, <1>6, <2>1, <2>3 DEF Shorter
    <3>2. (i - 1) % C # n % C
      <4>1. i - 1 # n /\ n - (i - 1) < C /\ (i - 1) - n < C BY <1>1, <1>2, <2>1, <2>3
      <4>2. i - 1 \in Int /\ n \in Int BY <1>2, <3>1
      <4> QED BY <1>1, <4>1, <4>2, ModInjective
    <3>3. (i - 1) % C \in 0 .. MaxSamples - 1 BY <1>1, <1>13, <3>1
    <3>4. returns'[(i - 1) % C] = returns[(i - 1) % C] BY <1>2, <1>4, <1>12, <3>2, <3>3
    <3> QED BY <1>5, <1>12, <3>1, <3>4
  <2> QED BY <2>2, <2>3
<1>10. Vol!TypeOK'
  <2>1. last' \in LogPrices \cup {NoPrice} BY <1>4
  <2> QED BY <1>5, <1>6, <1>7, <1>8, <2>1 DEF Vol!TypeOK, C
<1> QED BY <1>5, <1>6, <1>7, <1>9, <1>10 DEF VolInv, C, n

LEMMA VolStep == VolInv /\ [Vol!Next]_volVars => VolInv'
<1> SUFFICES ASSUME VolInv, [Vol!Next]_volVars PROVE VolInv'
  OBVIOUS
<1>1. CASE UNCHANGED volVars BY <1>1 DEF VolInv, Vol!TypeOK, volVars
<1>2. ASSUME NEW price, Vol!Reject(price) PROVE VolInv'
  BY <1>1, <1>2 DEF Vol!Reject, Vol!vars, volVars
<1>3. ASSUME NEW price \in LogPrices \cup {NoPrice}, Vol!Prime(price) PROVE VolInv'
  BY <1>3 DEF Vol!Prime, VolInv, Vol!TypeOK
<1>4. ASSUME NEW price \in LogPrices \cup {NoPrice}, Vol!Record(price) PROVE VolInv'
  <2>1. price \in LogPrices BY <1>4 DEF Vol!Record
  <2> QED BY <1>4, <2>1, VolRecord
<1> QED BY <1>1, <1>2, <1>3, <1>4 DEF Vol!Next

\* The returns stored are the last ones, in whatever order.
LEMMA StoredAreRecent ==
  ASSUME VolInv
  PROVE  LET recent == Len(past) - count + 1 .. Len(past)
             stored == 0 .. count - 1
         IN  /\ IsFiniteSet(recent) /\ IsFiniteSet(stored) /\ Cardinality(stored) = count
             /\ \A i \in recent : past[i] \in Int
             /\ \A s \in stored : returns[s] \in Int
             /\ \E p : /\ \A i, j \in recent : p[i] = p[j] => i = j
                       /\ {p[i] : i \in recent} = stored
                       /\ \A i \in recent : returns[p[i]] = past[i]
<1> DEFINE C == Vol!Capacity
           n == Len(past)
           recent == n - count + 1 .. n
           stored == 0 .. count - 1
           p == [i \in recent |-> (i - 1) % C]
<1>1. C \in Nat \ {0} /\ C <= MaxSamples /\ MaxSamples \in Nat BY CapacityFacts
<1>2. /\ n \in Nat /\ past \in Seq(Int) /\ count = Shorter(n, C)
      /\ returns \in [0 .. MaxSamples - 1 -> Int] /\ \A i \in 1 .. n : past[i] \in Int
  BY DEF VolInv, Vol!TypeOK
<1>12. \A i \in n - count + 1 .. n : returns[(i - 1) % C] = past[i]
  BY DEF VolInv
<1>13. \A k \in Int : k % C \in 0 .. C - 1 BY CapacityFacts
<1> HIDE DEF C
<1>3. count \in Nat /\ count <= n /\ count <= C /\ (count < C => count = n)
  BY <1>1, <1>2 DEF Shorter
<1> HIDE DEF n
<1>4. /\ IsFiniteSet(recent) /\ Cardinality(recent) = count
      /\ IsFiniteSet(stored) /\ Cardinality(stored) = count
  <2>1. n - count + 1 \in Int /\ n \in Int /\ count - 1 \in Int BY <1>2, <1>3
  <2>2. IsFiniteSet(recent) /\ Cardinality(recent) = IF n - count + 1 > n THEN 0 ELSE n - (n - count + 1) + 1
    BY <2>1, FS_Interval
  <2>3. IsFiniteSet(stored) /\ Cardinality(stored) = IF 0 > count - 1 THEN 0 ELSE count - 1 - 0 + 1
    BY <2>1, FS_Interval
  <2> HIDE DEF recent, stored
  <2> QED BY <1>2, <1>3, <2>2, <2>3
<1>11. \A i \in recent : i \in Int /\ i <= n /\ n - count + 1 <= i /\ 1 <= i
  BY <1>2, <1>3
<1>5. ASSUME NEW i \in recent, NEW j \in recent, p[i] = p[j] PROVE i = j
  <2>1. i - 1 \in Int /\ j - 1 \in Int /\ (i - 1) - (j - 1) < C /\ (j - 1) - (i - 1) < C
    BY <1>1, <1>2, <1>3, <1>11
  <2>2. (i - 1) % C = (j - 1) % C BY <1>5
  <2>3. i - 1 = j - 1 BY <1>1, <2>1, <2>2, ModInjective
  <2> QED BY <1>11, <2>3
<1>6. ASSUME NEW i \in recent PROVE p[i] \in stored
  <2>1. i - 1 \in Int /\ (i - 1) % C \in 0 .. C - 1 BY <1>13, <1>11
  <2>2. CASE count = C BY <2>1, <2>2
  <2>3. CASE count # C
    <3>1. i - 1 \in 0 .. C - 1 /\ i - 1 \in stored BY <1>1, <1>2, <1>3, <1>11, <2>3
    <3>2. (i - 1) % C = i - 1 BY <1>1, <3>1, ModSmall
    <3> QED BY <3>1, <3>2
  <2> QED BY <2>2, <2>3
<1>7. {p[i] : i \in recent} = stored
  <2>1. p \in Injection(recent, stored) BY <1>5, <1>6 DEF Injection, IsInjective
  <2> HIDE DEF p, recent, stored
  <2>2. p \in Surjection(recent, stored) BY <2>1, <1>4, FS_Injection
  <2> QED BY <2>2 DEF Surjection
<1>8. /\ \A i \in recent : past[i] \in Int /\ returns[p[i]] = past[i]
      /\ \A s \in stored : returns[s] \in Int
  <2>1. \A i \in recent : i \in 1 .. n BY <1>2, <1>11
  <2>2. \A s \in stored : s \in 0 .. MaxSamples - 1 BY <1>1, <1>3
  <2>3. \A i \in recent : returns[p[i]] = past[i] BY <1>12
  <2> QED BY <1>2, <2>1, <2>2, <2>3
<1>9. \A i, j \in recent : p[i] = p[j] => i = j BY <1>5
<1>10. \E q : /\ \A i, j \in recent : q[i] = q[j] => i = j
              /\ {q[i] : i \in recent} = stored
              /\ \A i \in recent : returns[q[i]] = past[i]
  <2> HIDE DEF p, recent, stored
  <2> QED BY <1>7, <1>8, <1>9
<1> QED BY <1>4, <1>8, <1>10 DEF n

\* n numbers r with sum S and sum of squares Q: the sum of (n * r - S)^2 is
\* n * (n * Q - S * S).
LEMMA SumOfDeviations ==
  ASSUME NEW R, IsFiniteSet(R), NEW n \in Nat, Cardinality(R) = n,
         NEW r, \A i \in R : r[i] \in Int,
         NEW q, \A i \in R : q[i] = r[i] * r[i],
         NEW d, \A i \in R : d[i] = (n * r[i] - SumFunctionOnSet(r, R))
                                      * (n * r[i] - SumFunctionOnSet(r, R))
  PROVE  LET S == SumFunctionOnSet(r, R)
             Q == SumFunctionOnSet(q, R)
         IN  S \in Int /\ Q \in Int /\ SumFunctionOnSet(d, R) = n * (n * Q - S * S)
<1> DEFINE S == SumFunctionOnSet(r, R)
           Q == SumFunctionOnSet(q, R)
           a == n * n
           b == (0 - 2) * n * S
           u == [i \in R |-> a * q[i] + b * r[i]]
           c == [i \in R |-> S * S]
<1>1. S \in Int BY SumStep
<1>2. Q \in Int
  <2>1. \A i \in R : q[i] \in Int OBVIOUS
  <2> QED BY <2>1, SumStep
<1>3. \A i \in R : d[i] = (n * r[i] - S) * (n * r[i] - S) OBVIOUS
<1> HIDE DEF S, Q
<1>4. a \in Int /\ b \in Int /\ S * S \in Int BY <1>1
<1>5. SumFunctionOnSet(u, R) = a * Q + b * S
  <2>1. \A i \in R : q[i] \in Int /\ r[i] \in Int /\ u[i] = a * q[i] + b * r[i] OBVIOUS
  <2> HIDE DEF a, b, u
  <2> QED BY <1>4, <2>1, SumLinear DEF S, Q
<1>6. SumFunctionOnSet(c, R) = (S * S) * n
  <2>1. \A i \in R : c[i] = S * S OBVIOUS
  <2> HIDE DEF c
  <2> QED BY <1>4, <2>1, SumOfConstant
<1>7. ASSUME NEW i \in R
      PROVE  u[i] \in Int /\ c[i] \in Int /\ d[i] = 1 * u[i] + 1 * c[i]
  <2> DEFINE x == r[i]
  <2>1. x \in Int /\ q[i] = x * x /\ d[i] = (n * x - S) * (n * x - S) BY <1>3
  <2>2. u[i] = (n * n) * (x * x) + ((0 - 2) * n * S) * x /\ c[i] = S * S BY <2>1
  <2> HIDE DEF x, u, c
  <2>3. (n * x - S) * (n * x - S) = (n * n) * (x * x) + ((0 - 2) * n * S) * x + S * S
    BY <1>1, <2>1
  <2>4. (n * n) * (x * x) + ((0 - 2) * n * S) * x \in Int /\ S * S \in Int BY <1>1, <2>1
  <2> QED BY <2>1, <2>2, <2>3, <2>4
<1>8. SumFunctionOnSet(d, R) = 1 * SumFunctionOnSet(u, R) + 1 * SumFunctionOnSet(c, R)
  <2> HIDE DEF u, c
  <2> QED BY <1>7, SumLinear
<1>9. SumFunctionOnSet(d, R) = ((n * n) * Q + ((0 - 2) * n * S) * S) + (S * S) * n
  <2>1. (n * n) * Q + ((0 - 2) * n * S) * S \in Int /\ (S * S) * n \in Int BY <1>1, <1>2
  <2> QED BY <1>5, <1>6, <1>8, <2>1
<1>10. ((n * n) * Q + ((0 - 2) * n * S) * S) + (S * S) * n = n * (n * Q - S * S)
  BY <1>1, <1>2
<1> QED BY <1>1, <1>2, <1>9, <1>10 DEF S, Q

\* The instance's sums are these.
LEMMA VolSum ==
  ASSUME NEW f, NEW S
  PROVE  Vol!SumFunctionOnSet(f, S) = SumFunctionOnSet(f, S)
BY DEF SumFunctionOnSet, FoldFunctionOnSet, MapThenFoldSet, Vol!SumFunctionOnSet,
       Vol!FoldFunctionOnSet, Vol!MapThenFoldSet

LEMMA VarianceTrue == VolInv => Vol!ValueIsVariance
<1> SUFFICES ASSUME VolInv PROVE Vol!ValueIsVariance
  OBVIOUS
<1> DEFINE n == Len(past)
           recent == n - count + 1 .. n
           stored == 0 .. count - 1
           q == [i \in recent |-> past[i] * past[i]]
           r == returns
           s == [i \in stored |-> r[i] * r[i]]
           S == SumFunctionOnSet(r, stored)
           deviation == [i \in stored |-> count * r[i] - S]
           d == [i \in stored |-> deviation[i] * deviation[i]]
           T == SumFunctionOnSet(past, recent)
           Q == SumFunctionOnSet(q, recent)
<1>1. count = (IF n < Vol!Capacity THEN n ELSE Vol!Capacity) /\ count \in Nat
  BY CapacityFacts DEF VolInv, Shorter, Vol!TypeOK
<1>2. Vol!Value = IF count < 2 THEN <<0, 1>>
                  ELSE <<SumFunctionOnSet(d, stored), count * count * (count - 1)>>
  BY VolSum DEF Vol!Value, Vol!SampleVariance
<1>3. Vol!ValueIsVariance <=>
        IF count < 2 THEN Vol!Value[1] = 0
        ELSE Vol!Value[1] * (count * (count - 1)) = (count * Q - T * T) * Vol!Value[2]
  <2> DEFINE Sums(m) == LET last_m == Len(past) - m + 1 .. Len(past)
                            sum == SumFunctionOnSet(past, last_m)
                            squares == SumFunctionOnSet([i \in last_m |-> past[i] * past[i]], last_m)
                        IN  IF m < 2 THEN Vol!Value[1] = 0
                            ELSE Vol!Value[1] * (m * (m - 1)) = (m * squares - sum * sum) * Vol!Value[2]
  <2>1. Vol!ValueIsVariance <=> Sums(IF n < Vol!Capacity THEN n ELSE Vol!Capacity)
    BY VolSum DEF Vol!ValueIsVariance
  <2>2. Sums(count) <=> IF count < 2 THEN Vol!Value[1] = 0
                        ELSE Vol!Value[1] * (count * (count - 1)) = (count * Q - T * T) * Vol!Value[2]
    BY Zenon
  <2> HIDE DEF Sums
  <2> QED BY <1>1, <2>1, <2>2, Zenon
<1>4. /\ IsFiniteSet(recent) /\ IsFiniteSet(stored) /\ Cardinality(stored) = count
      /\ \A i \in recent : past[i] \in Int
      /\ \A i \in stored : r[i] \in Int
  BY StoredAreRecent
<1>5. PICK p : /\ \A i, j \in recent : p[i] = p[j] => i = j
               /\ {p[i] : i \in recent} = stored
               /\ \A i \in recent : r[p[i]] = past[i]
  BY StoredAreRecent
<1> HIDE DEF n, recent, stored, r
<1>6. T = S
  <2>1. SumFunctionOnSet(past, recent) = SumFunctionOnSet(r, {p[i] : i \in recent})
    BY <1>4, <1>5, SumReindexed
  <2> QED BY <1>5, <2>1
<1>7. Q = SumFunctionOnSet(s, stored)
  <2>1. \A i \in recent : q[i] \in Int BY <1>4
  <2>2. \A i \in recent : s[p[i]] = q[i] BY <1>5
  <2> HIDE DEF q, s
  <2>3. SumFunctionOnSet(q, recent) = SumFunctionOnSet(s, {p[i] : i \in recent})
    BY <1>4, <1>5, <2>1, <2>2, SumReindexed
  <2> QED BY <1>5, <2>3
<1>8. S \in Int /\ Q \in Int /\ SumFunctionOnSet(d, stored) = count * (count * Q - S * S)
  <2>1. \A i \in stored : s[i] = r[i] * r[i] OBVIOUS
  <2>2. \A i \in stored : d[i] = (count * r[i] - S) * (count * r[i] - S) OBVIOUS
  <2> HIDE DEF s, d, deviation, q
  <2> QED BY <1>1, <1>4, <1>7, <2>1, <2>2, SumOfDeviations
<1> HIDE DEF d, Q, S, T
<1>9. CASE count < 2 BY <1>2, <1>3, <1>9
<1>10. CASE ~(count < 2)
  <2> DEFINE v == count * Q - S * S
  <2>1. Vol!Value[1] = count * v /\ Vol!Value[2] = count * count * (count - 1)
    BY <1>2, <1>8, <1>10
  <2>2. v \in Int /\ count \in Int BY <1>1, <1>8
  <2>3. Vol!ValueIsVariance <=>
          (count * v) * (count * (count - 1)) = v * (count * count * (count - 1))
    BY <1>3, <1>6, <1>10, <2>1
  <2> HIDE DEF v
  <2>4. (count * v) * (count * (count - 1)) = v * (count * count * (count - 1)) BY <2>2
  <2> QED BY <2>3, <2>4
<1> QED BY <1>9, <1>10

\* What a frame says is true of the past, for every size of the two windows, as
\* long as the ticks are less than BucketCount epochs late.
THEOREM ValuesAreTrue ==
  ASSUME MaxLateness < BucketCount
  PROVE  Spec /\ Vol!Spec => []ValuesMatchWindows
<1>1. Init => OfiInv /\ AtHome BY OfiInit, AtHomeStep
<1>2. OfiInv /\ AtHome /\ [Next]_vars => (OfiInv /\ AtHome)'
  BY OfiStep, AtHomeStep
<1>3. Vol!Init => VolInv BY VolInitInv
<1>4. VolInv /\ [Vol!Next]_(Vol!vars) => VolInv' BY VolStep DEF Vol!vars, volVars
<1>5. OfiInv /\ AtHome /\ VolInv => ValuesMatchWindows
  BY ImbalanceTrue, VarianceTrue DEF ValuesMatchWindows
<1> QED BY <1>1, <1>2, <1>3, <1>4, <1>5, PTL DEF Spec, Vol!Spec

-----------------------------------------------------------------------------
(* Case ids are unique within an engine and across start-time windows, for  *)
(* any number of engines and any window, as long as no engine emits more    *)
(* frames than a window has ids and the counter does not reach 2^64.        *)

FirstId(e) == BaseAt(launched[e])

\* The ids an engine has issued are the first ones from its base, without a gap.
IssuedInOrder ==
  \A e \in Started :
    /\ counter[e] \in FirstId(e) .. FirstId(e) + MaxFrames
    /\ issued[e] = FirstId(e) .. counter[e] - 1

NothingBeforeStart ==
  \A e \in Engines \ Started : counter[e] = NotYet /\ issued[e] = {}

IdsInv == IdsTypeOK /\ IssuedInOrder /\ NothingBeforeStart

LEMMA ConstantFacts ==
  /\ Span \in Nat \ {0} /\ Span \in Nat /\ MaxTime \in Nat /\ MaxFrames \in Nat
  /\ WordSize \in Nat /\ MaxTime + Span < WordSize /\ MaxFrames <= Span
BY CaseIdsAssumption

\* The base is the start of the window the time lies in.
LEMMA BaseFacts ==
  ASSUME NEW t \in 0 .. MaxTime
  PROVE  /\ BaseAt(t) \in 0 .. t
         /\ BaseAt(t) = Span * (t \div Span)
         /\ t \div Span \in Nat
<1>1. Span \in Nat \ {0} /\ t \in Nat BY ConstantFacts
<1>2. t \div Span \in Int /\ t = Span * (t \div Span) + (t % Span)
      /\ t % Span \in 0 .. Span - 1
  BY <1>1
<1>3. t \div Span \in Nat BY <1>1
<1>4. Span * (t \div Span) \in Nat BY <1>1, <1>3
<1> DEFINE m == Span * (t \div Span)
           r == t % Span
<1>5. m \in Nat /\ t = m + r /\ r \in 0 .. Span - 1 BY <1>2, <1>4
<1> HIDE DEF m, r
<1>6. t - r = m /\ m \in 0 .. t BY <1>1, <1>5
<1> QED BY <1>3, <1>6 DEF BaseAt, m, r

\* Times of different windows have bases at least Span apart.
LEMMA BasesApart ==
  ASSUME NEW s \in 0 .. MaxTime, NEW t \in 0 .. MaxTime,
         s \div Span # t \div Span
  PROVE  BaseAt(s) + Span <= BaseAt(t) \/ BaseAt(t) + Span <= BaseAt(s)
<1> DEFINE p == s \div Span
           q == t \div Span
<1>1. /\ BaseAt(s) = Span * p /\ BaseAt(t) = Span * q
      /\ p \in Int /\ q \in Int /\ p # q
  BY BaseFacts
<1>2. Span \in Nat \ {0} BY ConstantFacts
<1> HIDE DEF p, q
<1>3. /\ Span * (p - q) = Span * p - Span * q
      /\ Span * (q - p) = Span * q - Span * p
      /\ Span * p \in Int /\ Span * q \in Int
  BY <1>1, <1>2, Distributes
<1>4. CASE p - q >= 1
  <2>1. Span * (p - q) >= Span BY <1>1, <1>2, <1>4, MultipleBound
  <2> QED BY <1>1, <1>2, <1>3, <2>1
<1>5. CASE q - p >= 1
  <2>1. Span * (q - p) >= Span BY <1>1, <1>2, <1>5, MultipleBound
  <2> QED BY <1>1, <1>2, <1>3, <2>1
<1> QED BY <1>1, <1>4, <1>5

LEMMA IdsInvInit == IdsInit => IdsInv
<1> SUFFICES ASSUME IdsInit PROVE IdsInv
  OBVIOUS
<1>1. Started = {} BY DEF IdsInit, Started
<1>2. IdsTypeOK BY ConstantFacts DEF IdsInit, IdsTypeOK, NotYet
<1> QED BY <1>1, <1>2 DEF IdsInit, IdsInv, IssuedInOrder, NothingBeforeStart

LEMMA LaunchStep ==
  ASSUME IdsInv, NEW e \in Engines, Launch(e)
  PROVE  IdsInv'
<1>1. /\ clock \in 0 .. MaxTime /\ clock' = clock /\ issued' = issued
      /\ launched' = [launched EXCEPT ![e] = clock]
      /\ counter' = [counter EXCEPT ![e] = BaseAt(clock)]
      /\ e \notin Started
  BY DEF Launch, IdsInv, IdsTypeOK
<1>2. BaseAt(clock) \in 0 .. clock BY <1>1, BaseFacts
<1>3. IdsTypeOK'
  <2>1. /\ launched' \in [Engines -> NotYet .. MaxTime]
        /\ issued' \in [Engines -> SUBSET (0 .. WordSize - 1)]
    BY <1>1, ConstantFacts DEF IdsInv, IdsTypeOK, NotYet
  <2>2. BaseAt(clock) \in NotYet .. MaxTime + MaxFrames BY <1>1, <1>2, ConstantFacts DEF NotYet
  <2>3. counter' \in [Engines -> NotYet .. MaxTime + MaxFrames]
    BY <1>1, <2>2 DEF IdsInv, IdsTypeOK
  <2> QED BY <1>1, <2>1, <2>3 DEF IdsTypeOK
<1>4. /\ Started' = Started \cup {e} /\ launched'[e] = clock
      /\ counter'[e] = BaseAt(clock) /\ issued'[e] = {}
      /\ \A d \in Engines \ {e} : launched'[d] = launched[d] /\ counter'[d] = counter[d]
  <2>1. clock # NotYet BY <1>1, ConstantFacts DEF NotYet
  <2> QED BY <1>1, <2>1 DEF IdsInv, IdsTypeOK, Started, NothingBeforeStart
<1>5. IssuedInOrder'
  <2> SUFFICES ASSUME NEW d \in Started'
               PROVE  /\ counter'[d] \in FirstId(d)' .. FirstId(d)' + MaxFrames
                      /\ issued'[d] = FirstId(d)' .. counter'[d] - 1
    BY DEF IssuedInOrder
  <2>1. FirstId(d)' = BaseAt(launched'[d]) BY DEF FirstId, BaseAt
  <2>2. CASE d = e
    <3>1. FirstId(d)' = BaseAt(clock) BY <1>4, <2>1, <2>2
    <3> DEFINE b == BaseAt(clock)
    <3>2. b \in Nat /\ MaxFrames \in Nat BY <1>2, ConstantFacts
    <3> HIDE DEF b
    <3>3. b \in b .. b + MaxFrames /\ b .. b - 1 = {} BY <3>2
    <3> QED BY <1>4, <2>2, <3>1, <3>3 DEF b
  <2>3. CASE d # e
    <3>1. d \in Started /\ FirstId(d)' = FirstId(d) BY <1>4, <2>1, <2>3 DEF FirstId, Started
    <3> QED BY <1>1, <1>4, <2>3, <3>1 DEF IdsInv, IssuedInOrder, Started
  <2> QED BY <2>2, <2>3
<1>6. NothingBeforeStart' BY <1>1, <1>4 DEF IdsInv, NothingBeforeStart
<1> QED BY <1>3, <1>5, <1>6 DEF IdsInv

LEMMA NextIdStep ==
  ASSUME IdsInv, NEW e \in Engines, NextCaseId(e)
  PROVE  IdsInv'
<1> DEFINE b == FirstId(e)
           n == counter[e]
<1>1. /\ e \in Started /\ clock' = clock /\ launched' = launched
      /\ counter' = [counter EXCEPT ![e] = NextCounter(n)]
      /\ issued' = [issued EXCEPT ![e] = @ \cup {n}]
      /\ Cardinality(issued[e]) < MaxFrames
  BY DEF NextCaseId
<1>2. launched[e] \in 0 .. MaxTime
  BY <1>1, ConstantFacts DEF IdsInv, IdsTypeOK, Started, NotYet
<1>3. b \in 0 .. MaxTime /\ n \in b .. b + MaxFrames /\ issued[e] = b .. n - 1
  <2>1. b \in 0 .. launched[e] BY <1>2, BaseFacts DEF FirstId
  <2>2. b \in 0 .. MaxTime BY <1>2, <2>1, ConstantFacts
  <2>3. n \in b .. b + MaxFrames /\ issued[e] = b .. n - 1
    BY <1>1 DEF IdsInv, IssuedInOrder
  <2> QED BY <2>2, <2>3
<1> HIDE DEF b, n
<1>4. n \in Nat /\ b \in Nat /\ b <= n /\ n <= b + MaxFrames BY <1>3, ConstantFacts
<1>5. n < b + MaxFrames
  <2>1. b \in Int /\ n - 1 \in Int BY <1>4
  <2>2. Cardinality(b .. n - 1) = IF b > n - 1 THEN 0 ELSE (n - 1) - b + 1
    BY <2>1, FS_Interval
  <2>3. Cardinality(b .. n - 1) = n - b BY <1>4, <2>2
  <2> QED BY <1>1, <1>3, <1>4, <2>3, ConstantFacts
<1>6. NextCounter(n) = n + 1
  <2>1. n + 1 \in 0 .. WordSize - 1 /\ WordSize \in Nat \ {0}
    BY <1>3, <1>4, <1>5, ConstantFacts
  <2> QED BY <2>1, ModSmall DEF NextCounter
<1>7. IdsTypeOK'
  <2>1. n + 1 \in NotYet .. MaxTime + MaxFrames /\ n \in 0 .. WordSize - 1
    BY <1>3, <1>4, <1>5, ConstantFacts DEF NotYet
  <2> QED BY <1>1, <1>6, <2>1 DEF IdsInv, IdsTypeOK
<1>8. Started' = Started /\ \A d \in Engines : FirstId(d)' = FirstId(d)
  BY <1>1 DEF Started, FirstId, BaseAt
<1>9. IssuedInOrder'
  <2> SUFFICES ASSUME NEW d \in Started
               PROVE  /\ counter'[d] \in FirstId(d) .. FirstId(d) + MaxFrames
                      /\ issued'[d] = FirstId(d) .. counter'[d] - 1
    BY <1>8 DEF IssuedInOrder, Started
  <2>1. d \in Engines BY DEF Started
  <2>2. CASE d = e
    <3>1. counter'[e] = n + 1 /\ issued'[e] = (b .. n - 1) \cup {n}
      BY <1>1, <1>3, <1>6 DEF IdsInv, IdsTypeOK
    <3>2. n + 1 \in b .. b + MaxFrames /\ (b .. n - 1) \cup {n} = b .. (n + 1) - 1
      BY <1>4, <1>5, ConstantFacts
    <3> QED BY <2>2, <3>1, <3>2 DEF b
  <2>3. CASE d # e
    <3>1. counter'[d] = counter[d] /\ issued'[d] = issued[d]
      BY <1>1, <2>1, <2>3 DEF IdsInv, IdsTypeOK
    <3> QED BY <3>1 DEF IdsInv, IssuedInOrder
  <2> QED BY <2>2, <2>3
<1>10. NothingBeforeStart'
  BY <1>1, <1>8 DEF IdsInv, IdsTypeOK, NothingBeforeStart
<1> QED BY <1>7, <1>9, <1>10 DEF IdsInv

LEMMA IdsStep == IdsInv /\ [IdsNext]_idVars => IdsInv'
<1> SUFFICES ASSUME IdsInv, [IdsNext]_idVars PROVE IdsInv'
  OBVIOUS
<1>1. ASSUME UNCHANGED <<launched, counter, issued>>, clock' \in 0 .. MaxTime PROVE IdsInv'
  BY <1>1 DEF IdsInv, IdsTypeOK, IssuedInOrder, NothingBeforeStart, Started, FirstId, BaseAt
<1>2. CASE UNCHANGED idVars BY <1>1, <1>2 DEF idVars, IdsInv, IdsTypeOK
<1>3. CASE ClockMoves BY <1>1, <1>3 DEF ClockMoves
<1>4. ASSUME NEW e \in Engines, Launch(e) PROVE IdsInv' BY <1>4, LaunchStep
<1>5. ASSUME NEW e \in Engines, NextCaseId(e) PROVE IdsInv' BY <1>5, NextIdStep
<1> QED BY <1>2, <1>3, <1>4, <1>5 DEF IdsNext

LEMMA IdsInvariant == IdsSpec => []IdsInv
BY IdsInvInit, IdsStep, PTL DEF IdsSpec

\* An engine never gives two frames the same case id.
THEOREM UniqueWithinEngine == IdsSpec => []FreshWithinEngine
<1>1. IdsInv => FreshWithinEngine
  <2> SUFFICES ASSUME IdsInv, NEW e \in Started PROVE counter[e] \notin issued[e]
    BY DEF FreshWithinEngine
  <2>1. launched[e] \in 0 .. MaxTime BY ConstantFacts DEF IdsInv, IdsTypeOK, Started, NotYet
  <2>2. FirstId(e) \in Nat BY <2>1, BaseFacts DEF FirstId
  <2>3. counter[e] \in Int /\ issued[e] = FirstId(e) .. counter[e] - 1
    BY <2>2, ConstantFacts DEF IdsInv, IssuedInOrder
  <2> QED BY <2>2, <2>3
<1> QED BY <1>1, IdsInvariant, PTL

\* Engines started in different windows of the clock never collide.
THEOREM UniqueAcrossWindows == IdsSpec => []DistinctAcrossWindows
<1>1. IdsInv => DistinctAcrossWindows
  <2> SUFFICES ASSUME IdsInv, NEW d \in Started, NEW e \in Started,
                      launched[d] \div Span # launched[e] \div Span
               PROVE  issued[d] \cap issued[e] = {}
    BY DEF DistinctAcrossWindows
  <2>1. launched[d] \in 0 .. MaxTime /\ launched[e] \in 0 .. MaxTime
    BY ConstantFacts DEF IdsInv, IdsTypeOK, Started, NotYet
  <2>2. FirstId(d) \in Nat /\ FirstId(e) \in Nat BY <2>1, BaseFacts DEF FirstId
  <2>3. FirstId(d) + Span <= FirstId(e) \/ FirstId(e) + Span <= FirstId(d)
    BY <2>1, BasesApart DEF FirstId
  <2>4. /\ issued[d] = FirstId(d) .. counter[d] - 1
        /\ counter[d] \in FirstId(d) .. FirstId(d) + MaxFrames
        /\ issued[e] = FirstId(e) .. counter[e] - 1
        /\ counter[e] \in FirstId(e) .. FirstId(e) + MaxFrames
    BY DEF IdsInv, IssuedInOrder
  <2> QED BY <2>2, <2>3, <2>4, ConstantFacts
<1> QED BY <1>1, IdsInvariant, PTL
=============================================================================
