---------------------------- MODULE EngineProofs ----------------------------
(***************************************************************************)
(* The counters, the frames and the shutdown of the engine, for a ring and *)
(* a local queue of any size, any frame interval and any number of ticks.  *)
(***************************************************************************)
EXTENDS Engine, FiniteSetTheorems, TLAPS

-----------------------------------------------------------------------------
(* Ticks *)

TickInv ==
  /\ wpc \in {"off", "connecting", "loop", "reading", "push", "count", "check",
              "closing", "done", "failed"}
  /\ mpc = "start" => wpc = "off"
  /\ arrived \in Nat /\ pushed \in Nat /\ dropped \in Nat
  /\ ring \in Seq(Nat) /\ handled \in Seq(Nat)
  /\ TickAccounting

\* The producer thread and PopTick are all that touches ticks and counters.
LEMMA WhoMovesTicks ==
  ASSUME [Next]_vars
  PROVE  \/ WsThread \/ PopTick \/ Start
         \/ UNCHANGED <<wpc, arrived, pushed, dropped, ring, handled>> /\ mpc' # "start"
         \/ UNCHANGED <<wpc, arrived, pushed, dropped, ring, handled, mpc>>
<1> USE DEF wsVars, ringVars, mainVars
<1>1. CASE UNCHANGED vars BY <1>1 DEF vars
<1>2. CASE ConsumerThread
  BY <1>2 DEF ConsumerThread, ConsumerTest, PopEmpty, EmitFrame, LoseFrame, BuildFrame
<1>3. CASE Kafka BY <1>3 DEF Kafka, Deliver, DeliverUnacknowledged, Expire
<1>4. CASE Report BY <1>4 DEF Report
<1>5. CASE Signal BY <1>5 DEF Signal
<1>6. CASE Main
  BY <1>6 DEF Main, StartFails, JoinProducer, JoinConsumer, JoinReporter, Flush
<1>7. CASE Terminated BY <1>7 DEF Terminated, vars
<1> QED BY <1>1, <1>2, <1>3, <1>4, <1>5, <1>6, <1>7 DEF Next

LEMMA TickInit == Init => TickInv
BY DEF Init, Ring!Init, TickInv, TickAccounting, Count

LEMMA TickStep == TickInv /\ [Next]_vars => TickInv'
<1> SUFFICES ASSUME TickInv, [Next]_vars PROVE TickInv'
  OBVIOUS
<1> USE DEF TickInv, TickAccounting, Count, ringVars, mainVars
<1>1. CASE WsThread
  <2>1. CASE Connect BY <2>1 DEF Connect
  <2>2. CASE LoopTest BY <2>2 DEF LoopTest
  <2>3. CASE ReceiveTick BY <2>3 DEF ReceiveTick
  <2>4. CASE ReceiveOther BY <2>4 DEF ReceiveOther
  <2>5. CASE PushTick
    <3>1. /\ wpc = "push" /\ wpc' = "count" /\ mpc' = mpc
          /\ ring' = Append(ring, arrived) /\ handled' = handled
          /\ UNCHANGED <<arrived, pushed, dropped>>
      BY <2>5 DEF PushTick, Ring!Put
    <3>2. ring' \in Seq(Nat) /\ Len(ring') = Len(ring) + 1 BY <3>1
    <3>3. arrived = pushed + dropped + 1 /\ Len(handled) + Len(ring) = pushed BY <3>1
    <3>4. Len(handled) \in Nat /\ Len(ring) \in Nat OBVIOUS
    <3>5. arrived' = pushed' + dropped' + 1 /\ Len(handled') + Len(ring') = pushed' + 1
      BY <3>1, <3>2, <3>3, <3>4
    <3>6. TickAccounting' BY <3>1, <3>5
    <3> QED BY <3>1, <3>2, <3>6
  <2>6. CASE CountPushed BY <2>6 DEF CountPushed
  <2>7. CASE DropTick BY <2>7 DEF DropTick, DroppedAfterRefusal
  <2>8. CASE CheckShutdown BY <2>8 DEF CheckShutdown
  <2>9. CASE PeerClosed BY <2>9 DEF PeerClosed
  <2>10. CASE WsError BY <2>10 DEF WsError
  <2> QED
    BY <1>1, <2>1, <2>2, <2>3, <2>4, <2>5, <2>6, <2>7, <2>8, <2>9, <2>10 DEF WsThread
<1>2. CASE PopTick
  <2>1. /\ UNCHANGED <<wpc, arrived, pushed, dropped, mpc>>
        /\ ring # << >> /\ ring' = Tail(ring) /\ handled' = Append(handled, Head(ring))
    BY <1>2 DEF PopTick, Ring!Take, Ring!Rest, wsVars
  <2>2. /\ ring' \in Seq(Nat) /\ handled' \in Seq(Nat)
        /\ Len(ring') = Len(ring) - 1 /\ Len(handled') = Len(handled) + 1
    BY <2>1
  <2>3. Len(handled) \in Nat /\ Len(ring) \in Nat OBVIOUS
  <2>4. Len(handled') + Len(ring') = Len(handled) + Len(ring) BY <2>2, <2>3
  <2>5. TickAccounting' BY <2>1, <2>4
  <2> QED BY <2>1, <2>2, <2>5
<1>3. CASE Start BY <1>3 DEF Start
<1>4. CASE UNCHANGED <<wpc, arrived, pushed, dropped, ring, handled>> /\ mpc' # "start"
  BY <1>4
<1>5. CASE UNCHANGED <<wpc, arrived, pushed, dropped, ring, handled, mpc>>
  BY <1>5
<1> QED BY <1>1, <1>2, <1>3, <1>4, <1>5, WhoMovesTicks

LEMMA TickInvariant == Spec => []TickInv
BY TickInit, TickStep, PTL DEF Spec

\* The counters add up: every tick received is counted once as pushed or
\* dropped, and every tick pushed is in the ring or was popped.
THEOREM TicksAreCounted == Spec => []TickAccounting
<1>1. TickInv => TickAccounting BY DEF TickInv
<1> QED BY <1>1, TickInvariant, PTL

-----------------------------------------------------------------------------
(* Shutdown *)

\* main has joined a thread only when that thread was over, and it stays so.
JoinInv ==
  /\ mpc \in {"start", "joinProducer", "joinConsumer", "joinReporter", "flush", "done"}
  /\ mpc = "start" => wpc = "off" /\ kpc = "off"
  /\ mpc \notin {"start", "joinProducer"} => wpc \in {"off", "done", "failed"}
  /\ mpc \in {"joinReporter", "flush", "done"} => kpc \in {"off", "done"}

LEMMA JoinInit == Init => JoinInv
BY DEF Init, JoinInv

LEMMA JoinStep == JoinInv /\ [Next]_vars => JoinInv'
<1> SUFFICES ASSUME JoinInv, [Next]_vars PROVE JoinInv'
  OBVIOUS
<1> USE DEF JoinInv, mainVars, wsVars, consumerVars
<1>1. CASE UNCHANGED vars BY <1>1 DEF vars
<1>2. CASE WsThread
  BY <1>2 DEF WsThread, Connect, LoopTest, ReceiveTick, ReceiveOther, PushTick, CountPushed,
              DropTick, CheckShutdown, PeerClosed, WsError
<1>3. CASE ConsumerThread
  BY <1>3 DEF ConsumerThread, ConsumerTest, PopEmpty, PopTick, EmitFrame, LoseFrame, BuildFrame
<1>4. CASE Kafka BY <1>4 DEF Kafka, Deliver, DeliverUnacknowledged, Expire
<1>5. CASE Report BY <1>5 DEF Report
<1>6. CASE Signal BY <1>6 DEF Signal
<1>7. CASE Main
  BY <1>7 DEF Main, StartFails, Start, JoinProducer, SocketOver, JoinConsumer, JoinReporter,
              Joined, Flush
<1>8. CASE Terminated BY <1>8 DEF Terminated, vars
<1> QED BY <1>1, <1>2, <1>3, <1>4, <1>5, <1>6, <1>7, <1>8 DEF Next

LEMMA JoinInvariant == Spec => []JoinInv
BY JoinInit, JoinStep, PTL DEF Spec

\* Nothing is pushed, popped or produced behind the flush.
THEOREM NothingAfterFlush == Spec => FlushIsFinal
<1>1. ASSUME JoinInv, [Next]_vars, mpc \in {"flush", "done"}
      PROVE  outq' \subseteq outq /\ UNCHANGED <<frames, ring, handled, pushed, dropped>>
  <2> USE <1>1 DEF JoinInv, wsVars, consumerVars, ringVars, kafkaVars
  <2>1. CASE UNCHANGED vars BY <2>1 DEF vars
  <2>2. ~WsThread
    BY DEF WsThread, Connect, LoopTest, ReceiveTick, ReceiveOther, PushTick, CountPushed,
           DropTick, CheckShutdown, PeerClosed, WsError
  <2>3. ~ConsumerThread
    BY DEF ConsumerThread, ConsumerTest, PopEmpty, PopTick, EmitFrame, LoseFrame, BuildFrame
  <2>4. CASE Kafka BY <2>4 DEF Kafka, Deliver, DeliverUnacknowledged, Expire
  <2>5. CASE Report BY <2>5 DEF Report
  <2>6. CASE Signal BY <2>6 DEF Signal
  <2>7. CASE Main
    BY <2>7 DEF Main, StartFails, Start, JoinProducer, JoinConsumer, JoinReporter, Flush
  <2>8. CASE Terminated BY <2>8 DEF Terminated, vars
  <2> QED BY <2>1, <2>2, <2>3, <2>4, <2>5, <2>6, <2>7, <2>8 DEF Next
<1> QED BY <1>1, JoinInvariant, PTL DEF Spec, FlushIsFinal

-----------------------------------------------------------------------------
(* Frames *)

\* The first half of FrameAccounting: which ticks frames are built from.
CadenceInv ==
  /\ kpc \in {"off", "loop", "pop", "emit", "done"}
  /\ mpc = "start" => kpc = "off"
  /\ frames \in Seq(Nat)
  /\ sinceFrame \in 0 .. Interval - 1
  /\ kpc = "emit" => sinceFrame = 0 /\ Len(handled) = Interval * Len(frames) + Interval
  /\ kpc # "emit" => Len(handled) = Interval * Len(frames) + sinceFrame
  /\ \A k \in 1 .. Len(frames) : frames[k] = handled[Interval * k]

LEMMA Multiples ==
  ASSUME NEW n \in Nat
  PROVE  /\ Interval * n \in Nat
         /\ Interval * (n + 1) = Interval * n + Interval
         /\ \A k \in 1 .. n : Interval * k \in 1 .. Interval * n
<1>1. Interval \in Nat /\ Interval >= 1 BY EngineAssumption
<1>2. Interval * n \in Nat /\ Interval * (n + 1) = Interval * n + Interval BY <1>1
<1>3. ASSUME NEW k \in 1 .. n PROVE Interval * k \in 1 .. Interval * n
  <2>1. Interval * n = Interval * k + Interval * (n - k) BY <1>1
  <2>2. Interval * (n - k) \in Nat /\ Interval * k \in Nat BY <1>1
  <2>3. Interval * k = Interval + Interval * (k - 1) BY <1>1
  <2>4. Interval * (k - 1) \in Nat BY <1>1
  <2> QED BY <1>1, <1>2, <2>1, <2>2, <2>3, <2>4
<1> QED BY <1>2, <1>3

LEMMA CadenceInit == Init => CadenceInv
<1> SUFFICES ASSUME Init PROVE CadenceInv
  OBVIOUS
<1>1. mpc = "start" /\ kpc = "off" /\ sinceFrame = 0 /\ frames = << >> /\ handled = << >>
  BY DEF Init, Ring!Init
<1>2. Interval \in Nat /\ Interval >= 1 BY EngineAssumption
<1>3. Interval * 0 = 0 BY <1>2
<1> QED BY <1>1, <1>2, <1>3 DEF CadenceInv

LEMMA CadenceStep == TickInv /\ CadenceInv /\ [Next]_vars => CadenceInv'
<1> SUFFICES ASSUME TickInv, CadenceInv, [Next]_vars PROVE CadenceInv'
  OBVIOUS
<1>h. handled \in Seq(Nat) /\ ring \in Seq(Nat) BY DEF TickInv
<1>i. Interval \in Nat /\ Interval >= 1 BY EngineAssumption
<1>n. Len(frames) \in Nat BY DEF CadenceInv
<1>1. CASE /\ UNCHANGED <<frames, handled, sinceFrame>>
           /\ kpc # "emit" /\ kpc' \in {"off", "loop", "pop", "done"}
           /\ mpc' = "start" => kpc' = "off"
  <2>1. Len(handled') = Interval * Len(frames') + sinceFrame' BY <1>1 DEF CadenceInv
  <2> QED BY <1>1, <2>1 DEF CadenceInv
<1>2. CASE /\ UNCHANGED <<frames, handled, sinceFrame, kpc>>
           /\ mpc' = "start" => mpc = "start"
  BY <1>2 DEF CadenceInv
<1>3. CASE PopTick
  <2>1. /\ kpc = "pop" /\ mpc' = mpc /\ frames' = frames
        /\ ring # << >> /\ handled' = Append(handled, Head(ring))
        /\ sinceFrame' = SinceFrameAfter(sinceFrame + 1)
        /\ kpc' = IF FrameDue(sinceFrame + 1) THEN "emit" ELSE "loop"
    BY <1>3 DEF PopTick, Ring!Take, mainVars
  <2>2. Head(ring) \in Nat BY <1>h, <2>1
  <2>3. /\ Len(handled') = Len(handled) + 1
        /\ \A k \in 1 .. Len(handled) : handled'[k] = handled[k]
    BY <1>h, <2>1, <2>2
  <2>4. Len(handled) = Interval * Len(frames) + sinceFrame /\ sinceFrame \in 0 .. Interval - 1
    BY <2>1 DEF CadenceInv
  <2>5. /\ Interval * Len(frames) \in Nat
        /\ Interval * (Len(frames) + 1) = Interval * Len(frames) + Interval
        /\ \A k \in 1 .. Len(frames) : Interval * k \in 1 .. Interval * Len(frames)
    BY <1>n, Multiples
  <2>6. \A k \in 1 .. Len(frames') : frames'[k] = handled'[Interval * k]
    <3>1. \A k \in 1 .. Len(frames) : Interval * k \in 1 .. Len(handled) BY <2>4, <2>5, <1>i
    <3> QED BY <2>1, <2>3, <3>1 DEF CadenceInv
  <2>7. mpc' # "start" /\ frames' \in Seq(Nat) BY <2>1 DEF CadenceInv
  <2>8. CASE sinceFrame + 1 >= Interval
    <3>1. kpc' = "emit" /\ sinceFrame' = 0 BY <2>1, <2>8 DEF FrameDue, SinceFrameAfter
    <3>2. sinceFrame = Interval - 1 BY <1>i, <2>4, <2>8
    <3>3. Len(handled') = Interval * Len(frames) + Interval BY <1>i, <2>3, <2>4, <2>5, <3>2
    <3>4. Len(handled') = Interval * Len(frames') + Interval BY <2>1, <3>3
    <3>5. sinceFrame' \in 0 .. Interval - 1 BY <1>i, <3>1
    <3> QED BY <2>6, <2>7, <3>1, <3>4, <3>5 DEF CadenceInv
  <2>9. CASE ~(sinceFrame + 1 >= Interval)
    <3>1. kpc' = "loop" /\ sinceFrame' = sinceFrame + 1
      BY <2>1, <2>9 DEF FrameDue, SinceFrameAfter
    <3>2. Len(handled') = Interval * Len(frames) + sinceFrame'
      BY <1>i, <2>3, <2>4, <2>5, <3>1
    <3>3. Len(handled') = Interval * Len(frames') + sinceFrame' BY <2>1, <3>2
    <3>4. sinceFrame' \in 0 .. Interval - 1 BY <1>i, <2>4, <2>9, <3>1
    <3> QED BY <2>6, <2>7, <3>1, <3>3, <3>4 DEF CadenceInv
  <2> QED BY <2>8, <2>9
<1>4. CASE BuildFrame
  <2>1. /\ kpc = "emit" /\ kpc' = "loop" /\ mpc' = mpc
        /\ frames' = Append(frames, handled[Len(handled)])
        /\ UNCHANGED <<handled, sinceFrame>>
    BY <1>4 DEF BuildFrame, ringVars, mainVars
  <2>2. sinceFrame = 0 /\ Len(handled) = Interval * Len(frames) + Interval
    BY <2>1 DEF CadenceInv
  <2>3. /\ Interval * (Len(frames) + 1) = Interval * Len(frames) + Interval
        /\ Interval * Len(frames) \in Nat
    BY <1>n, Multiples
  <2>4. Len(handled) \in Nat /\ Len(handled) >= 1 /\ Len(handled) = Interval * (Len(frames) + 1)
    BY <1>i, <2>2, <2>3
  <2>5. handled[Len(handled)] \in Nat BY <1>h, <2>4
  <2>6. /\ frames' \in Seq(Nat) /\ Len(frames') = Len(frames) + 1
        /\ \A k \in 1 .. Len(frames) : frames'[k] = frames[k]
        /\ frames'[Len(frames) + 1] = handled[Len(handled)]
    BY <2>1, <2>5 DEF CadenceInv
  <2>7. \A k \in 1 .. Len(frames') : frames'[k] = handled'[Interval * k]
    <3>1. TAKE k \in 1 .. Len(frames')
    <3>2. CASE k \in 1 .. Len(frames) BY <2>1, <2>6, <3>2 DEF CadenceInv
    <3>3. CASE k = Len(frames) + 1 BY <2>1, <2>4, <2>6, <3>3
    <3> QED BY <1>n, <2>6, <3>2, <3>3
  <2>8. Len(handled') = Interval * Len(frames') + sinceFrame' BY <1>n, <2>1, <2>2, <2>3, <2>4, <2>6
  <2>9. mpc' # "start" /\ sinceFrame' \in 0 .. Interval - 1 BY <2>1 DEF CadenceInv
  <2> QED BY <2>1, <2>6, <2>7, <2>8, <2>9 DEF CadenceInv
<1>5. CASE WsThread
  BY <1>2, <1>5 DEF WsThread, Connect, LoopTest, ReceiveTick, ReceiveOther, PushTick, Ring!Put,
                    CountPushed, DropTick, CheckShutdown, PeerClosed, WsError,
                    consumerVars, ringVars, mainVars
<1>6. CASE ConsumerTest \/ PopEmpty
  BY <1>1, <1>6 DEF ConsumerTest, PopEmpty, ringVars, mainVars, CadenceInv
<1>7. CASE Kafka \/ Report \/ Signal
  BY <1>2, <1>7 DEF Kafka, Deliver, DeliverUnacknowledged, Expire, Report, Signal,
                    consumerVars, ringVars, mainVars
<1>8. CASE Start
  BY <1>1, <1>8 DEF Start, ringVars, CadenceInv
<1>9. CASE StartFails \/ JoinProducer \/ JoinConsumer \/ JoinReporter \/ Flush
  BY <1>2, <1>9 DEF StartFails, JoinProducer, JoinConsumer, JoinReporter, Flush,
                    consumerVars, ringVars
<1>10. CASE UNCHANGED vars BY <1>2, <1>10 DEF vars, consumerVars, ringVars, mainVars
<1> QED
  BY <1>3, <1>4, <1>5, <1>6, <1>7, <1>8, <1>9, <1>10
     DEF Next, ConsumerThread, EmitFrame, LoseFrame, Main, Terminated

LEMMA CadenceInvariant == Spec => []CadenceInv
BY CadenceInit, CadenceStep, TickInvariant, PTL DEF Spec

\* The second half: what became of the frames.
FateInv ==
  /\ outq \cup onTopic \cup expired = (1 .. Len(frames)) \ refused
  /\ outq \cap expired = {}
  /\ refused \subseteq 1 .. Len(frames) /\ IsFiniteSet(refused)
  /\ framesEmitted = Len(frames) - Cardinality(refused)

LEMMA FateInit == Init => FateInv
BY FS_EmptySet DEF Init, FateInv

LEMMA FateStep == CadenceInv /\ FateInv /\ [Next]_vars => FateInv'
<1> SUFFICES ASSUME CadenceInv, FateInv, [Next]_vars PROVE FateInv'
  OBVIOUS
<1>n. frames \in Seq(Nat) /\ Len(frames) \in Nat BY DEF CadenceInv
<1>1. CASE UNCHANGED <<frames, refused, framesEmitted, outq, onTopic, expired>>
  BY <1>1 DEF FateInv
<1>2. CASE EmitFrame \/ LoseFrame
  <2>1. /\ frames' = Append(frames, handled[Len(handled)])
        /\ UNCHANGED <<onTopic, expired>>
    BY <1>2 DEF EmitFrame, LoseFrame, BuildFrame
  <2>2. Len(frames') = Len(frames) + 1 BY <1>n, <2>1
  <2>3. 1 .. Len(frames') = (1 .. Len(frames)) \cup {Len(frames')}
    BY <1>n, <2>2
  <2>4. Len(frames') \notin 1 .. Len(frames) BY <1>n, <2>2
  <2>5. Cardinality(refused) \in Nat BY FS_CardinalityType DEF FateInv
  <2>6. CASE EmitFrame
    <3>1. /\ outq' = outq \cup {Len(frames')} /\ refused' = refused
          /\ framesEmitted' = framesEmitted + 1
      BY <2>6 DEF EmitFrame
    <3>2. (outq \cup onTopic \cup expired)' = ((1 .. Len(frames)) \ refused) \cup {Len(frames')}
      BY <2>1, <3>1 DEF FateInv
    <3>3. Len(frames') \notin refused /\ Len(frames') \notin expired BY <2>4 DEF FateInv
    <3>4. (outq \cup onTopic \cup expired)' = (1 .. Len(frames')) \ refused'
      BY <2>3, <3>1, <3>2, <3>3
    <3>5. (outq \cap expired)' = {} BY <2>1, <3>1, <3>3 DEF FateInv
    <3>6. refused' \subseteq 1 .. Len(frames') /\ IsFiniteSet(refused')
      BY <2>3, <3>1 DEF FateInv
    <3>7. framesEmitted' = Len(frames') - Cardinality(refused')
      BY <1>n, <2>2, <2>5, <3>1 DEF FateInv
    <3> QED BY <3>4, <3>5, <3>6, <3>7 DEF FateInv
  <2>7. CASE LoseFrame
    <3>1. /\ outq' = outq /\ refused' = refused \cup {Len(frames')}
          /\ framesEmitted' = framesEmitted
      BY <2>7 DEF LoseFrame, EmittedAfterError
    <3>2. (1 .. Len(frames')) \ refused' = (1 .. Len(frames)) \ refused BY <2>3, <2>4, <3>1
    <3>3. (outq \cup onTopic \cup expired)' = (1 .. Len(frames')) \ refused'
      BY <2>1, <3>1, <3>2 DEF FateInv
    <3>4. Len(frames') \notin refused BY <2>4 DEF FateInv
    <3>5. IsFiniteSet(refused') /\ Cardinality(refused') = Cardinality(refused) + 1
      BY <3>1, <3>4, FS_AddElement DEF FateInv
    <3>6. framesEmitted' = Len(frames') - Cardinality(refused')
      BY <1>n, <2>2, <2>5, <3>1, <3>5 DEF FateInv
    <3> QED BY <2>1, <2>3, <3>1, <3>3, <3>5, <3>6 DEF FateInv
  <2> QED BY <1>2, <2>6, <2>7
<1>3. CASE Kafka
  BY <1>3 DEF Kafka, Deliver, DeliverUnacknowledged, Expire, FateInv, consumerVars
<1>4. CASE WsThread
  BY <1>1, <1>4 DEF WsThread, Connect, LoopTest, ReceiveTick, ReceiveOther, PushTick,
                    CountPushed, DropTick, CheckShutdown, PeerClosed, WsError,
                    consumerVars, kafkaVars
<1>5. CASE ConsumerTest \/ PopEmpty \/ PopTick
  BY <1>1, <1>5 DEF ConsumerTest, PopEmpty, PopTick, kafkaVars
<1>6. CASE Report \/ Signal \/ Main
  BY <1>1, <1>6 DEF Report, Signal, Main, StartFails, Start, JoinProducer, JoinConsumer,
                    JoinReporter, Flush, consumerVars, kafkaVars
<1>7. CASE UNCHANGED vars BY <1>1, <1>7 DEF vars, consumerVars, kafkaVars
<1> QED
  BY <1>2, <1>3, <1>4, <1>5, <1>6, <1>7
     DEF Next, ConsumerThread, Terminated

LEMMA FateInvariant == Spec => []FateInv
BY FateInit, FateStep, CadenceInvariant, PTL DEF Spec

\* Frame k is built from the (Interval * k)-th popped tick, frames_emitted is the
\* number of frames librdkafka accepted, and an accepted frame is queued, on the
\* topic or expired while a refused one never is.
THEOREM FramesAreAccounted == Spec => []FrameAccounting
<1>1. ASSUME CadenceInv, FateInv PROVE FrameAccounting
  <2>1. Interval \in Nat /\ Len(frames) \in Nat BY EngineAssumption, <1>1 DEF CadenceInv
  <2>2. Interval * (Len(frames) + 1) = Interval * Len(frames) + Interval BY <2>1, Multiples
  <2>3. Len(handled) = Interval * (Len(frames) + Count(kpc = "emit")) + sinceFrame
    <3>1. CASE kpc = "emit"
      <4>1. sinceFrame = 0 /\ Len(handled) = Interval * Len(frames) + Interval
        BY <1>1, <3>1 DEF CadenceInv
      <4>2. Interval * Len(frames) \in Nat BY <2>1
      <4>3. Count(kpc = "emit") = 1 BY <3>1 DEF Count
      <4>4. Len(handled) = Interval * (Len(frames) + 1) + sinceFrame BY <2>1, <2>2, <4>1, <4>2
      <4> QED BY <4>3, <4>4
    <3>2. CASE kpc # "emit"
      <4>1. Len(handled) = Interval * Len(frames) + sinceFrame BY <1>1, <3>2 DEF CadenceInv
      <4>2. Count(kpc = "emit") = 0 BY <3>2 DEF Count
      <4>3. Len(frames) + 0 = Len(frames) BY <2>1
      <4> QED BY <4>1, <4>2, <4>3
    <3> QED BY <3>1, <3>2
  <2> QED BY <1>1, <2>3 DEF FrameAccounting, CadenceInv, FateInv
<1> QED BY <1>1, CadenceInvariant, FateInvariant, PTL

-----------------------------------------------------------------------------
(* Types *)

LEMMA LastElement ==
  ASSUME NEW S, NEW s \in Seq(S), Len(s) >= 1
  PROVE  s[Len(s)] \in S
OBVIOUS

\* The ring and the sequences of ticks have the types of a queue of ticks.
LEMMA RingTypes ==
  ASSUME TypeOK, TickInv, CadenceInv, PushTick \/ PopTick
  PROVE  /\ ring' \in Seq(1 .. MaxTicks) /\ Len(ring') <= RingBound
         /\ handled' \in Seq(1 .. MaxTicks)
<1> USE EngineAssumption DEF TypeOK
<1>1. CASE PushTick
  <2>1. /\ wpc = "push" /\ Len(ring) < RingBound
        /\ ring' = Append(ring, arrived) /\ handled' = handled
    BY <1>1 DEF PushTick, Ring!Put, Ring!IsFull
  <2>2. arrived \in 1 .. MaxTicks BY <2>1 DEF TickInv, TickAccounting, Count
  <2>3. ring' \in Seq(1 .. MaxTicks) /\ Len(ring') = Len(ring) + 1 BY <2>1, <2>2
  <2> QED BY <2>1, <2>3
<1>2. CASE PopTick
  <2>1. ring # << >> /\ ring' = Tail(ring) /\ handled' = Append(handled, Head(ring))
    BY <1>2 DEF PopTick, Ring!Take, Ring!Rest
  <2>2. Head(ring) \in 1 .. MaxTicks BY <2>1
  <2>3. ring' \in Seq(1 .. MaxTicks) /\ Len(ring') = Len(ring) - 1 BY <2>1
  <2> QED BY <2>1, <2>2, <2>3
<1> QED BY <1>1, <1>2

LEMMA TypeStep == TypeOK /\ TickInv /\ CadenceInv /\ CadenceInv' /\ [Next]_vars => TypeOK'
<1> SUFFICES ASSUME TypeOK, TickInv, CadenceInv, CadenceInv', [Next]_vars PROVE TypeOK'
  OBVIOUS
<1>s. sinceFrame' \in 0 .. Interval - 1 BY DEF CadenceInv
<1> USE DEF TypeOK, mainVars, wsVars, consumerVars, kafkaVars, ringVars
<1>1. CASE UNCHANGED vars BY <1>1 DEF vars
<1>2. CASE WsThread
  <2>1. CASE PushTick BY <2>1, RingTypes DEF PushTick
  <2>2. CASE Connect \/ LoopTest \/ ReceiveOther
    BY <2>2 DEF Connect, LoopTest, ReceiveOther
  <2>3. CASE ReceiveTick
    <3>1. arrived' \in 0 .. MaxTicks BY <2>3, EngineAssumption DEF ReceiveTick
    <3> QED BY <2>3, <3>1 DEF ReceiveTick
  <2>4. CASE CountPushed
    <3>1. pushed' \in Nat BY <2>4 DEF CountPushed
    <3> QED BY <2>4, <3>1 DEF CountPushed
  <2>5. CASE DropTick
    <3>1. dropped' \in Nat BY <2>5 DEF DropTick, DroppedAfterRefusal
    <3> QED BY <2>5, <3>1 DEF DropTick
  <2>6. CASE CheckShutdown \/ PeerClosed \/ WsError
    BY <2>6 DEF CheckShutdown, StopClient, PeerClosed, WsError
  <2> QED BY <1>2, <2>1, <2>2, <2>3, <2>4, <2>5, <2>6 DEF WsThread
<1>3. CASE ConsumerTest \/ PopEmpty BY <1>3 DEF ConsumerTest, PopEmpty
<1>4. CASE PopTick BY <1>4, <1>s, RingTypes DEF PopTick
<1>5. CASE EmitFrame \/ LoseFrame
  <2>1. /\ kpc = "emit" /\ kpc' = "loop" /\ frames' = Append(frames, handled[Len(handled)])
        /\ UNCHANGED <<mainVars, shutdown, wsVars, sinceFrame, onTopic, expired, ringVars, rpc>>
    BY <1>5 DEF EmitFrame, LoseFrame, BuildFrame
  <2>2. Len(handled) >= 1
    <3>1. Len(handled) = Interval * Len(frames) + Interval BY <2>1 DEF CadenceInv
    <3>2. Interval * Len(frames) \in Nat BY Multiples
    <3> QED BY <3>1, <3>2, EngineAssumption
  <2>3. handled[Len(handled)] \in 1 .. MaxTicks
    <3>1. handled \in Seq(1 .. MaxTicks) OBVIOUS
    <3> HIDE DEF TypeOK
    <3> QED BY <2>2, <3>1, LastElement
  <2>4. frames' \in Seq(1 .. MaxTicks) /\ Len(frames') \in Nat BY <2>1, <2>3
  <2>5. CASE EmitFrame
    <3>1. outq' = outq \cup {Len(frames')} /\ framesEmitted' = framesEmitted + 1
          /\ refused' = refused
      BY <2>5 DEF EmitFrame
    <3>2. outq' \subseteq Nat BY <2>4, <3>1
    <3>3. framesEmitted' \in Nat BY <3>1
    <3> QED BY <2>1, <2>4, <3>1, <3>2, <3>3
  <2>6. CASE LoseFrame
    <3>1. refused' = refused \cup {Len(frames')} /\ framesEmitted' = framesEmitted
          /\ outq' = outq
      BY <2>6 DEF LoseFrame, EmittedAfterError
    <3>2. refused' \in SUBSET Nat BY <2>4, <3>1
    <3> QED BY <2>1, <2>4, <3>1, <3>2
  <2> QED BY <1>5, <2>5, <2>6
<1>6. CASE Kafka
  <2>1. /\ outq' \subseteq outq /\ onTopic' \subseteq onTopic \cup outq
        /\ expired' \subseteq expired \cup outq
        /\ UNCHANGED <<mainVars, shutdown, wsVars, consumerVars, ringVars, rpc>>
    BY <1>6 DEF Kafka, Deliver, DeliverUnacknowledged, Expire
  <2> QED BY <2>1
<1>7. CASE Report BY <1>7 DEF Report
<1>8. CASE Signal BY <1>8 DEF Signal
<1>9. CASE Main
  BY <1>9 DEF Main, StartFails, Start, JoinProducer, ShutdownAfterJoin, JoinConsumer,
              JoinReporter, Flush
<1>10. CASE Terminated BY <1>10 DEF Terminated, vars
<1> QED
  BY <1>1, <1>2, <1>3, <1>4, <1>5, <1>6, <1>7, <1>8, <1>9, <1>10 DEF Next, ConsumerThread

\* The variables have their types, the ring never holds more than it has slots
\* for, and since_frame stays below the interval.
THEOREM TypesHold == Spec => []TypeOK
<1>1. Init => TypeOK
  <2>1. << >> \in Seq(1 .. MaxTicks) /\ Len(<< >>) = 0 OBVIOUS
  <2>2. /\ 0 \in 0 .. MaxTicks /\ 0 <= RingBound /\ 0 \in 0 .. Interval - 1
    BY EngineAssumption
  <2> SUFFICES ASSUME Init PROVE TypeOK OBVIOUS
  <2>3. ring = << >> /\ handled = << >> /\ frames = << >> BY DEF Init, Ring!Init
  <2>4. /\ ring \in Seq(1 .. MaxTicks) /\ Len(ring) <= RingBound
        /\ handled \in Seq(1 .. MaxTicks) /\ frames \in Seq(1 .. MaxTicks)
    BY <2>1, <2>2, <2>3
  <2> QED BY <2>2, <2>4 DEF Init, TypeOK
<1> QED BY <1>1, TypeStep, TickInvariant, CadenceInvariant, PTL DEF Spec

(***************************************************************************)
(* The engine uses the ring as the queue that SpscRing implements          *)
(* (SpscRingProofs): only the ticks of on_message go in, only the          *)
(* consumer's pops take out, and nothing else moves either end.            *)
(***************************************************************************)
THEOREM EngineUsesQueue == Spec => Ring!Spec
<1>1. Init => Ring!Init BY DEF Init
<1>2. ASSUME TypeOK, TickInv, [Next]_vars PROVE [Ring!Next]_(Ring!vars)
  <2> USE <1>2 DEF Ring!Next, Ring!vars
  <2>1. CASE PushTick
    <3>1. wpc = "push" /\ Ring!Put(arrived) BY <2>1 DEF PushTick
    <3>2. arrived \in 1 .. MaxTicks
      BY <3>1, EngineAssumption DEF TypeOK, TickInv, TickAccounting, Count
    <3> QED BY <3>1, <3>2
  <2>2. CASE PopTick BY <2>2 DEF PopTick
  <2>3. CASE WsThread /\ ~PushTick
    BY <2>3 DEF WsThread, Connect, LoopTest, ReceiveTick, ReceiveOther, CountPushed, DropTick,
                CheckShutdown, PeerClosed, WsError, ringVars
  <2>4. PushTick \/ PopTick \/ WsThread \/ UNCHANGED <<ring, handled>>
    BY WhoMovesTicks DEF Start, ringVars
  <2> QED BY <2>1, <2>2, <2>3, <2>4
<1> QED BY <1>1, <1>2, TypesHold, TickInvariant, PTL DEF Spec, Ring!Spec
=============================================================================
