------------------------------- MODULE Engine -------------------------------
(***************************************************************************)
(* run_engine of src/src/engine.cpp with the WebSocket client it runs      *)
(* (src/src/ws_client.cpp): the producer thread that reads messages and    *)
(* pushes ticks into the ring, the consumer thread that pops them and      *)
(* produces a feature frame every Interval ticks, the reporter thread, the *)
(* main thread that joins the three and flushes, the signal handler, and   *)
(* librdkafka's local queue.                                               *)
(*                                                                         *)
(* The ring is the queue of BoundedQueue, which SpscRing implements.  A    *)
(* tick is the number of the message it came in; the market data, the      *)
(* features and the telemetry text are abstracted away.  The counter       *)
(* popped of the code is Len(handled).                                     *)
(*                                                                         *)
(* An operator placed directly above a definition, with the same           *)
(* parameters and no comment, is a way to get that definition wrong.       *)
(***************************************************************************)
EXTENDS Integers, Sequences, FiniteSets

CONSTANTS
  Interval,     \* cfg.frame_interval_ticks
  RingBound,    \* kRingCapacity - 1
  KafkaBound,   \* librdkafka's queue.buffering.max.messages
  MaxTicks      \* bound on the number of messages that carry a tick

ASSUME EngineAssumption ==
  /\ Interval \in Nat \ {0}
  /\ RingBound \in Nat \ {0}
  /\ KafkaBound \in Nat \ {0}
  /\ MaxTicks \in Nat

VARIABLES
  mpc,         \* main thread
  exitCode,    \* what run_engine returned
  shutdown,    \* the atomic flag all threads poll
  wpc,         \* producer thread (WebSocket)
  stopped,     \* WsClient::stopped_
  arrived,     \* ticks received so far; the last one is being handled
  pushed, dropped, \* counters of on_message
  kpc,         \* consumer thread
  ring,        \* ticks in the ring
  handled,     \* ticks popped, in order
  sinceFrame,  \* since_frame
  frames,      \* history: the tick each frame was built from; frame k has case id k
  refused,     \* case ids whose produce() failed
  outq,        \* case ids in librdkafka's local queue
  onTopic,     \* case ids appended to the topic at least once
  expired,     \* case ids librdkafka gave up on
  framesEmitted, \* frames_emitted
  rpc          \* reporter thread

mainVars == <<mpc, exitCode>>
wsVars == <<wpc, stopped, arrived, pushed, dropped>>
consumerVars == <<kpc, sinceFrame, frames, refused, framesEmitted>>
kafkaVars == <<outq, onTopic, expired>>
ringVars == <<ring, handled>>
vars == <<mainVars, shutdown, wsVars, consumerVars, kafkaVars, ringVars, rpc>>

Ring == INSTANCE BoundedQueue
          WITH Values <- 1 .. MaxTicks, Bound <- RingBound,
               queue <- ring, delivered <- handled

Init ==
  /\ mpc = "start" /\ exitCode = "none"
  /\ shutdown = FALSE
  /\ wpc = "off" /\ stopped = FALSE
  /\ arrived = 0 /\ pushed = 0 /\ dropped = 0
  /\ kpc = "off" /\ sinceFrame = 0 /\ frames = << >> /\ refused = {} /\ framesEmitted = 0
  /\ Ring!Init
  /\ outq = {} /\ onTopic = {} /\ expired = {}
  /\ rpc = "off"

Running == mpc \notin {"start", "done"}

-----------------------------------------------------------------------------
(* Producer thread: WsClient::run, read_loop and the on_message callback *)

Connect ==
  /\ wpc = "connecting"
  /\ wpc' = "loop"
  /\ UNCHANGED <<mainVars, shutdown, stopped, arrived, pushed, dropped,
                 consumerVars, kafkaVars, ringVars, rpc>>

\* The test of read_loop's while.  Once stopped, run() closes the connection.
LoopTest ==
  /\ wpc = "loop"
  /\ wpc' = IF stopped THEN "closing" ELSE "reading"
  /\ UNCHANGED <<mainVars, shutdown, stopped, arrived, pushed, dropped,
                 consumerVars, kafkaVars, ringVars, rpc>>

\* The blocking read returns a message that parses to a tick.
ReceiveTick ==
  /\ wpc = "reading"
  /\ arrived < MaxTicks
  /\ arrived' = arrived + 1
  /\ wpc' = "push"
  /\ UNCHANGED <<mainVars, shutdown, stopped, pushed, dropped,
                 consumerVars, kafkaVars, ringVars, rpc>>

\* The blocking read returns a message the parser rejects.
ReceiveOther ==
  /\ wpc = "reading"
  /\ wpc' = "check"
  /\ UNCHANGED <<mainVars, shutdown, stopped, arrived, pushed, dropped,
                 consumerVars, kafkaVars, ringVars, rpc>>

\* try_push accepts the tick.  The consumer may pop it before it is counted.
PushTick ==
  /\ wpc = "push"
  /\ Ring!Put(arrived)
  /\ wpc' = "count"
  /\ UNCHANGED <<mainVars, shutdown, stopped, arrived, pushed, dropped,
                 consumerVars, kafkaVars, rpc>>

CountPushed ==
  /\ wpc = "count"
  /\ pushed' = pushed + 1
  /\ wpc' = "check"
  /\ UNCHANGED <<mainVars, shutdown, stopped, arrived, dropped,
                 consumerVars, kafkaVars, ringVars, rpc>>

DropUncounted == dropped
\* The counter after a tick that did not fit.
DroppedAfterRefusal == dropped + 1

\* try_push refuses: the tick is gone.
DropTick ==
  /\ wpc = "push"
  /\ Ring!IsFull
  /\ dropped' = DroppedAfterRefusal
  /\ wpc' = "check"
  /\ UNCHANGED <<mainVars, shutdown, stopped, arrived, pushed,
                 consumerVars, kafkaVars, ringVars, rpc>>

IgnoreShutdown == stopped
\* The value of WsClient::stopped_ once on_message has returned.
StopClient == stopped \/ shutdown

\* The end of on_message, the only place that calls WsClient::stop.
CheckShutdown ==
  /\ wpc = "check"
  /\ stopped' = StopClient
  /\ wpc' = "loop"
  /\ UNCHANGED <<mainVars, shutdown, arrived, pushed, dropped,
                 consumerVars, kafkaVars, ringVars, rpc>>

\* The peer closes the connection and run() returns; or the close that run()
\* sends after stop() is answered, or fails, which run() ignores.
PeerClosed ==
  /\ wpc \in {"reading", "closing"}
  /\ wpc' = "done"
  /\ UNCHANGED <<mainVars, shutdown, stopped, arrived, pushed, dropped,
                 consumerVars, kafkaVars, ringVars, rpc>>

\* Resolving, connecting, the handshakes or a read throws; the thread's catch
\* block logs it and asks everyone to stop.
WsError ==
  /\ wpc \in {"connecting", "reading"}
  /\ shutdown' = TRUE
  /\ wpc' = "failed"
  /\ UNCHANGED <<mainVars, stopped, arrived, pushed, dropped,
                 consumerVars, kafkaVars, ringVars, rpc>>

\* The thread is over, one way or the other; nobody outside it can tell which.
SocketOver == wpc \in {"done", "failed"}

-----------------------------------------------------------------------------
(* Consumer thread *)

ConsumerTest ==
  /\ kpc = "loop"
  /\ kpc' = IF shutdown THEN "done" ELSE "pop"
  /\ UNCHANGED <<mainVars, shutdown, wsVars, sinceFrame, frames, refused, framesEmitted,
                 kafkaVars, ringVars, rpc>>

\* try_pop finds nothing: yield and go round.
PopEmpty ==
  /\ kpc = "pop"
  /\ ring = << >>
  /\ kpc' = "loop"
  /\ UNCHANGED <<mainVars, shutdown, wsVars, sinceFrame, frames, refused, framesEmitted,
                 kafkaVars, ringVars, rpc>>

FrameDueEarly(n) == n + 1 >= Interval
\* Whether n ticks since the last frame make one due.
FrameDue(n) == n >= Interval

\* since_frame after a tick that made it n.
SinceFrameAfter(n) == IF FrameDue(n) THEN 0 ELSE n

PopTick ==
  /\ kpc = "pop"
  /\ Ring!Take
  /\ sinceFrame' = SinceFrameAfter(sinceFrame + 1)
  /\ kpc' = IF FrameDue(sinceFrame + 1) THEN "emit" ELSE "loop"
  /\ UNCHANGED <<mainVars, shutdown, wsVars, frames, refused, framesEmitted,
                 kafkaVars, rpc>>

\* build_frame takes the next case id and the latest tick, whatever produce()
\* will say.
BuildFrame ==
  /\ kpc = "emit"
  /\ frames' = Append(frames, handled[Len(handled)])
  /\ kpc' = "loop"
  /\ UNCHANGED <<mainVars, shutdown, wsVars, sinceFrame, onTopic, expired,
                 ringVars, rpc>>

\* produce() takes a copy of the frame into the local queue.
EmitFrame ==
  /\ BuildFrame
  /\ Cardinality(outq) < KafkaBound
  /\ outq' = outq \cup {Len(frames')}
  /\ framesEmitted' = framesEmitted + 1
  /\ UNCHANGED refused

EmittedAlwaysCounted == framesEmitted + 1
\* frames_emitted after a produce() that failed.
EmittedAfterError == framesEmitted

\* produce() fails (local queue full, or any other error): logged, the frame is
\* not retried.
LoseFrame ==
  /\ BuildFrame
  /\ refused' = refused \cup {Len(frames')}
  /\ framesEmitted' = EmittedAfterError
  /\ UNCHANGED outq

-----------------------------------------------------------------------------
(* librdkafka and the broker (external).  The producer configures neither  *)
(* idempotence nor a delivery-report callback.                             *)

\* A queued frame is appended to the topic and acknowledged.
Deliver(id) ==
  /\ Running
  /\ id \in outq
  /\ outq' = outq \ {id}
  /\ onTopic' = onTopic \cup {id}
  /\ UNCHANGED <<mainVars, shutdown, wsVars, consumerVars, expired, ringVars, rpc>>

\* A queued frame is appended but the acknowledgement is lost: it stays queued
\* and will be sent again.
DeliverUnacknowledged(id) ==
  /\ Running
  /\ id \in outq
  /\ onTopic' = onTopic \cup {id}
  /\ UNCHANGED <<mainVars, shutdown, wsVars, consumerVars, outq, expired, ringVars, rpc>>

\* A queued frame passes message.timeout.ms; nobody is told.
Expire(id) ==
  /\ Running
  /\ id \in outq
  /\ outq' = outq \ {id}
  /\ expired' = expired \cup {id}
  /\ UNCHANGED <<mainVars, shutdown, wsVars, consumerVars, onTopic, ringVars, rpc>>

-----------------------------------------------------------------------------
(* Reporter, signal handler and main *)

\* The reporter tests the flag, or wakes from its one-second sleep and prints.
Report ==
  /\ rpc \in {"loop", "sleep"}
  /\ rpc' = IF rpc = "sleep" THEN "loop" ELSE IF shutdown THEN "done" ELSE "sleep"
  /\ UNCHANGED <<mainVars, shutdown, wsVars, consumerVars, kafkaVars, ringVars>>

\* SIGINT or SIGTERM, once the handler is installed.
Signal ==
  /\ Running
  /\ shutdown' = TRUE
  /\ UNCHANGED <<mainVars, wsVars, consumerVars, kafkaVars, ringVars, rpc>>

\* An invalid URL, or the Kafka producer cannot be created.
StartFails ==
  /\ mpc = "start"
  /\ mpc' = "done"
  /\ exitCode' = "failure"
  /\ UNCHANGED <<shutdown, wsVars, consumerVars, kafkaVars, ringVars, rpc>>

Start ==
  /\ mpc = "start"
  /\ mpc' = "joinProducer"
  /\ wpc' = "connecting" /\ kpc' = "loop" /\ rpc' = "loop"
  /\ UNCHANGED <<exitCode, shutdown, stopped, arrived, pushed, dropped, sinceFrame,
                 frames, refused, framesEmitted, kafkaVars, ringVars>>

KeepShutdown == shutdown
\* main stores TRUE after the first join.
ShutdownAfterJoin == TRUE

JoinProducer ==
  /\ mpc = "joinProducer"
  /\ SocketOver
  /\ shutdown' = ShutdownAfterJoin
  /\ mpc' = "joinConsumer"
  /\ UNCHANGED <<exitCode, wsVars, consumerVars, kafkaVars, ringVars, rpc>>

NoJoin(pc) == TRUE
\* std::thread::join on a thread returns only when it is over.
Joined(pc) == pc = "done"

JoinConsumer ==
  /\ mpc = "joinConsumer"
  /\ Joined(kpc)
  /\ mpc' = "joinReporter"
  /\ UNCHANGED <<exitCode, shutdown, wsVars, consumerVars, kafkaVars, ringVars, rpc>>

JoinReporter ==
  /\ mpc = "joinReporter"
  /\ Joined(rpc)
  /\ mpc' = "flush"
  /\ UNCHANGED <<exitCode, shutdown, wsVars, consumerVars, kafkaVars, ringVars, rpc>>

\* flush() returns because the local queue is empty or because 5 s are over;
\* its result is not looked at.  What is still queued dies with the producer.
Flush ==
  /\ mpc = "flush"
  /\ mpc' = "done"
  /\ exitCode' = "success"
  /\ UNCHANGED <<shutdown, wsVars, consumerVars, kafkaVars, ringVars, rpc>>

\* The process is over.
Terminated == mpc = "done" /\ UNCHANGED vars

-----------------------------------------------------------------------------

WsThread ==
  \/ Connect \/ LoopTest \/ ReceiveTick \/ ReceiveOther \/ PushTick
  \/ CountPushed \/ DropTick \/ CheckShutdown \/ PeerClosed \/ WsError

ConsumerThread == ConsumerTest \/ PopEmpty \/ PopTick \/ EmitFrame \/ LoseFrame

Kafka == \E id \in outq : Deliver(id) \/ DeliverUnacknowledged(id) \/ Expire(id)

Main == StartFails \/ Start \/ JoinProducer \/ JoinConsumer \/ JoinReporter \/ Flush

Next == WsThread \/ ConsumerThread \/ Kafka \/ Report \/ Signal \/ Main \/ Terminated

Spec == Init /\ [][Next]_vars

\* The scheduler runs every thread that can run.  Whether anything arrives on
\* the socket, or a close is answered, is up to the peer, so the steps that wait
\* for it get no fairness.
Fairness ==
  /\ WF_vars(LoopTest \/ PushTick \/ CountPushed \/ DropTick \/ CheckShutdown)
  /\ WF_vars(ConsumerThread)
  /\ WF_vars(Report)
  /\ WF_vars(Main)

FairSpec == Spec /\ Fairness

\* A peer that accepts the connection, keeps sending messages and answers a
\* close.  Only the second half of EngineStops assumes it.
TalkingPeer ==
  /\ WF_vars(Connect)
  /\ WF_vars(ReceiveOther)
  /\ WF_vars(wpc = "closing" /\ PeerClosed)

-----------------------------------------------------------------------------
(* Properties *)

TypeOK ==
  /\ mpc \in {"start", "joinProducer", "joinConsumer", "joinReporter", "flush", "done"}
  /\ exitCode \in {"none", "success", "failure"}
  /\ wpc \in {"off", "connecting", "loop", "reading", "push", "count", "check",
              "closing", "done", "failed"}
  /\ kpc \in {"off", "loop", "pop", "emit", "done"}
  /\ rpc \in {"off", "loop", "sleep", "done"}
  /\ shutdown \in BOOLEAN /\ stopped \in BOOLEAN
  /\ arrived \in 0 .. MaxTicks
  /\ pushed \in Nat /\ dropped \in Nat /\ framesEmitted \in Nat
  /\ ring \in Seq(1 .. MaxTicks) /\ Len(ring) <= RingBound
  /\ handled \in Seq(1 .. MaxTicks)
  /\ sinceFrame \in 0 .. Interval - 1
  /\ frames \in Seq(1 .. MaxTicks)
  /\ refused \in SUBSET Nat /\ outq \in SUBSET Nat
  /\ onTopic \in SUBSET Nat /\ expired \in SUBSET Nat

Count(condition) == IF condition THEN 1 ELSE 0

(***************************************************************************)
(* The totals the engine prints when it stops add up, although each is     *)
(* incremented by one thread while others run: every tick received is      *)
(* counted once as pushed or dropped (but for the one on_message has in    *)
(* hand), and every tick pushed is in the ring or was popped (but for one  *)
(* pushed and not yet counted).                                            *)
(***************************************************************************)
TickAccounting ==
  /\ arrived = pushed + dropped + Count(wpc \in {"push", "count"})
  /\ Len(handled) + Len(ring) = pushed + Count(wpc = "count")

(***************************************************************************)
(* A frame is built from every Interval-th popped tick exactly, and case   *)
(* id k belongs to the k-th frame: no popped tick is counted twice and     *)
(* none is forgotten between frames, whether or not produce() succeeds.    *)
(* frames_emitted is the number of frames librdkafka accepted; an accepted *)
(* frame is queued, on the topic or expired, and a refused one never is.   *)
(***************************************************************************)
FrameAccounting ==
  /\ Len(handled) = Interval * (Len(frames) + Count(kpc = "emit")) + sinceFrame
  /\ \A k \in 1 .. Len(frames) : frames[k] = handled[Interval * k]
  /\ outq \cup onTopic \cup expired = (1 .. Len(frames)) \ refused
  /\ outq \cap expired = {}
  /\ refused \subseteq 1 .. Len(frames)
  /\ framesEmitted = Len(frames) - Cardinality(refused)

\* Once main flushes, nothing is queued behind its back: every thread that
\* could produce is over, so flush() waits for a queue that only shrinks.
FlushIsFinal ==
  [][(mpc \in {"flush", "done"}) =>
       /\ outq' \subseteq outq
       /\ UNCHANGED <<frames, ring, handled, pushed, dropped>>]_vars

(***************************************************************************)
(* When the WebSocket thread ends, because the peer closed, an error was   *)
(* thrown or it was stopped, the engine stops: no thread keeps another     *)
(* waiting.  And with a peer that keeps talking, a signal stops it.        *)
(***************************************************************************)
EngineStops ==
  /\ SocketOver ~> mpc = "done"
  /\ TalkingPeer => (shutdown ~> mpc = "done")

\* engine.hpp:30, "Runs the engine until SIGINT/SIGTERM": a signal ends the run,
\* whatever the peer does.
SignalStops == shutdown ~> mpc = "done"

\* engine.hpp:30-31, "Returns EXIT_SUCCESS on clean shutdown, EXIT_FAILURE on a
\* fatal producer or WebSocket error": a run whose socket failed does not
\* return success.
FatalErrorFails == (mpc = "done" /\ wpc = "failed") => exitCode = "failure"
=============================================================================
