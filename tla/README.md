# Volatix-AI: TLA+ models, model checks and proofs

Volatix-AI watches a market feed. A C++ engine reads trades from a WebSocket,
turns them into feature frames and publishes these to Kafka; a Python classifier
scores each frame; a Python agent service investigates the scores above a
threshold, with the help of an LLM and a vector database, and writes reports to PostgreSQL; a
Next.js dashboard shows them. An adapter feeds the engine from Coinbase; two scripts stand in
for an exchange. Every night Airflow retrains the model and runs
an evaluation harness over the agents.

This directory holds TLA+ modules translated from that code, TLC configurations
that check them on small instances, and TLAPS proofs for every value of the
constants. All paths below are relative to the repository (`src/` is its root, so
`src/src/engine.cpp` is the engine).

## 1. Inventory

### 1.1 SPSC ring buffer (`src/src/ring_buffer.hpp`)
*State*: `buffer_`, `head_` (written by the producer), `tail_` (written by the
consumer), both atomic. *Operations*: `try_push`, `try_pop`. *Interacts* with the
engine's producer and consumer threads. *Hard*: acquire/release ordering, stale
reads of the other thread's index, wrapping. *Correct when*: no data race on a slot,
FIFO, nothing lost, repeated or torn, no refusal without a reason.

### 1.2 Engine (`src/src/engine.cpp`, `src/src/ws_client.cpp`)
*State*: the shutdown flag, the client's `stopped_`, the ring, counters, the consumer's
`since_frame`, librdkafka's local queue. *Operations*: connect, read, `on_message`,
pop, `build_frame`, `produce`, report, signal, join, flush. *Interacts* with the
exchange or the realfeed adapter (WebSocket), the ring, the two kernels and Kafka.
*Hard*: four threads and a signal handler; a tick can be popped before it is
counted; drops at a full ring and at a full Kafka queue; no delivery reports;
shutdown by polling. *Correct when*: the counters add up, frames come exactly every
`frame_interval_ticks`, nothing is produced behind the flush, every thread ends.

### 1.3 Feature kernels (`src/src/features.cpp`)
*State*: `OfiWindow`'s 16 time buckets and newest epoch; `RealizedVolWindow`'s circular array
of log returns. *Operations*: `update`, `value`, `total_volume`. Called by the consumer
thread for every tick. *Hard*: out-of-order time stamps, recycled slots, wrap-around,
Bessel's correction. *Correct when*: what they report can be recomputed from the past.

### 1.4 Case ids (`src/src/engine.cpp:77-87`)
*State*: a process-wide 64-bit counter seeded from the clock. *Operation*:
`next_case_id`. The id is the join key of Kafka messages and tables. *Hard*:
restarts and several engines. *Correct when*: ids are unique.

### 1.5 Wire formats (`src/src/tick_parser.cpp`, `src/src/feature_frame.hpp`, `services/classifier/feature_frame.py`)
*State*: none beyond the data on its way. *Operations*: adapt a match to a tick message, parse it,
serialize a frame, read it, write it as a row, as the vector a model is trained on, scores or
searches with. *Hard*: truncated, rounded and narrowed numbers; a layout and an order of columns
written down ten times in two languages. *Correct when*: a trade arrives as the tick it was, and
every reader takes each field for what the engine put there.

### 1.6 Poll loop of the Python services (`services/{classifier,agents}/consumer.py`)
*State*: the group's committed offset, the consumer's position, the record in hand,
the stop flag, membership in the group. *Operations*: start, poll with automatic commit,
handle, signal, close. *Hard*: crashes and rebalances between a commit and the end of
the handling. *Correct when*: at-least-once.

### 1.7 Classifier service (`services/classifier`)
*State*: the producer's buffer, the PostgreSQL connection and its open transaction,
`feature_log`, `anomaly_score_log`. *Operations*: score, send, the two inserts and the commit,
flush and close. *Hard*: asynchronous sends, partial failure of a transaction, a commit
whose answer is lost, a flush that times out. *Correct when*: no frame below the
committed offset is forgotten, the two tables agree, no transaction is left open.

### 1.8 Agent service (`services/agents`)
*State*: the `CaseState` that runs through the LangGraph, the connection,
`agent_report`. *Operations*: choose the LLM's back-end, forensic, auditor, enforcer, persist. *Interacts* with
Qdrant and an LLM (OpenAI, Gemini, Ollama or a rule-based mock, `llm.py`). *Hard*: stages that raise
or take too long, free-form LLM confidences, redelivery, an environment without keys. *Correct
when*: a report's columns agree, a verdict is never overwritten, no high-risk case disappears
silently.

### 1.9 Vector database (`services/agents/seed_vector_db.py`, `scripts/validate-vector-db.py`, `tools/rag.py`)
*State*: Qdrant's collections, the request each script waits for. *Operations*: ensure the
collection, upsert the corpus; create, read and delete a collection of the validator's own.
*Hard*: runs that overlap, requests given up by the client and carried out all the same, a pod whose
data is gone when it is replaced. *Correct when*: what a script reported as done is done.

### 1.10 From frame to report
The classifier and the agents share no state but the `anomaly-scores` topic. *Hard*: each commits
its own offset, and between the two a score waits in a producer nobody looks at. *Correct when*:
no alert is forgotten on the whole way, and none multiplies beyond what restarts explain.

### 1.11 Realfeed adapter (`services/realfeed/realfeed.py`)
*State*: the client set `_clients`, the upstream task with its backoff, the stop event.
*Operations*: connect, broadcast, register, unregister, shut down. *Hard*: asyncio
tasks that share a set and interleave at every `await`. *Correct when*: each registered
client gets each payload, the process never lingers without its feed.

### 1.12 Feed scripts (`scripts/exploit-ws.py`, `scripts/mock-ticker.py`)
*State*: where each client's stream is, what was sent, the stop event. *Operations*: accept, send a
batch, sleep, count, close, stop. *Hard*: a handler per client, interleaved at every send; a last
batch shorter than the others; a client that leaves in the middle. *Correct when*: each client
gets the burst in order, and the number reported is what was sent, to within a batch.

### 1.13 Nightly retraining (`airflow/dags/retraining_pipeline.py`, `services/classifier/trainer.py`, `model.py`)
*State*: the run, task and attempt of the DAG, the trainer pod, the artifact on the shared
volume, `model_registry`. *Operations*: schedule, retry, fetch, train over purged folds, save, read
back, insert, commit. *Hard*: a pod that dies between any two of them, a retry over what it
left, a commit whose answer is lost, the arithmetic of the folds. *Correct when*: a registry row
is a whole model of its day, a successful task is registered, the folds are purged.

### 1.14 Evaluation (`airflow/dags/volatix_eval.py`, `services/agents/eval`, `web/app/eval`)
*State*: the case results of the process, the Ragas bundle, the open transaction, `eval_run` and
`eval_case_result`; in the browser the selected run, its effect, the fetches. *Operations*: build
the fixture, run its cases (all, or `--limit` of them) one after the other, roll-up with means and
percentiles, the transaction (or none, with `--dry-run`); open the board, select, fetch, receive,
detect regressions.
*Hard*: cases that raise, judges that do not answer or answer NaN, the all-or-nothing write, answers
that arrive out of order. *Correct when*: a visible run is whole, its roll-up is that of
its rows, the board shows the cases of the run it names and names the regressions there are.

### 1.15 Dashboard (`web/app/page.tsx`, `web/lib/use-poll.ts`, `web/components`)
*State*: the rows of the list and the feed, the selected case, the receipt, one fetch per endpoint.
*Operations*: render on the server, poll, abort, receive and merge, hide, close.
*Interacts* with `agent_report` and `anomaly_score_log` through read-only routes.
*Hard*: reports are written in another order than their stamps, answers are lost, aborted or
stale. *Correct when*: the list is the newest reports, the receipt never goes back.

### 1.16 Replay (`web/lib/replay.ts`, `timeline.ts`, `web/components/replay-modal.tsx`)
*State*: the case, the index, playing or not. *Operations*: build the events from the stamps; open,
play, pause, step, restart, close. *Hard*: missing stamps, clocks that disagree, timers.
*Correct when*: the replay and the receipt of a case agree, and playing ends.

### 1.17 Not modelled
| part | state and operations | why |
|---|---|---|
| `src/src/main.cpp`: smoke, ingest | delivery counters of a callback; two threads over plain counters | section 2 |
| `run_consume`, `run_feature_bench`, probe, throughput test | counting and timing loops, I/O | nothing depends on their state |
| `parse_ws_url` | takes an address apart once, at start | one of the outcomes of `StartFails` |
| synthetic baseline (`synthetic.py`, `train_baseline.py`) | generates data and trains on it once | a function of random numbers; the model file is the library's |
| `inject-features.py`'s `main`, `flood-kafka.sh` | send what they are told, and exit | its frames are in `Wire` (`Inject`) |
| jitter of the fixture's features, the fixture file | random numbers around a seed point | nothing later in the model depends on them |
| KPI cards, ledger status, charts, per-stage deltas | computed once per page load | layout |
| `k8s/` replicas and KEDA | restart of containers is in the models (`Start` actions) | one partition, one consumer; section 2 |
| build, CI and demo scripts | tooling | no behaviour of the system |

Boosting, the LLMs, Qdrant's search, Kafka, Airflow and PostgreSQL are external: what they may answer
is modelled, how they do it is not.

## 2. Plan

The order follows the data, the riskiest concurrency first.

1. **Done**: every component of section 1 (the modules of section 3), and a proof of every safety property
   that a run checks (section 5).
2. **Several symbols and several consumers**: the engine has one pair of windows for all
   products, so with several of them a frame carries the symbol of its newest tick and the
   windows of all (`src/src/engine.cpp:206`); the kernels' modules take the mixed stream as one. KEDA's
   replicas in one consumer group.
3. **Smoke and ingest**: smoke's delivery accounting; ingest's two threads.
4. **Proofs still to write**: the type invariants of `RealFeed`, `FeedServer`, `VectorDb`, `Retraining`,
   `EvalBoard`, `Dashboard`, `Replay` and the kernels, of which the proofs carry the parts they need. Those
   of the ring, the engine, the poll loop, the two services and the pipeline are theorems.

Composition: `Engine` is built on the abstract queue `BoundedQueue`, which `SpscRing`
implements; `Classifier` and `Agents` instantiate `PollLoop`, which implements
`AtLeastOnce`, as each of them does as a whole, and `Agents` instantiates `Llm`. `Pipeline` puts the two services in a row: it extends
`PollLoop` (the agents) and instantiates `AtLeastOnce` (the classifier, of which nothing else matters
here). `Retraining` and `EvalRun` instantiate `DagTask`, and `EvalBoard` extends `EvalRun` with the
page that reads its tables. Five modules put side by side what belongs together without sharing state, so that
one run and one module of proofs can speak of it: `TickPath` (`OfiWindow`, `RealizedVol`, `CaseIds`, `Wire`), `Feeds` (`RealFeed`,
`FeedServer`), `Investigation` (`Agents`, `VectorDb`), `Nightly` (`EvalBoard`, `Retraining`) and `FrontPage`
(`Dashboard`, `Replay`). In `Classifier` and `Agents` by themselves the topic they read is the `Publish`
action: whatever the upstream service does, the consumer sees a growing sequence of records;
likewise `Insert` in `Dashboard` stands for the agents.

## 3. Modules

| module | models | its actions |
|---|---|---|
| `SpscRing` | `SpscRing<T, Capacity>` | one per access to an atomic index or a slot; a load of the other thread's index returns any value the memory model allows |
| `BoundedQueue` | what the ring promises | `Put`, `Take` |
| `SpscRingProofs` | proofs about the ring | |
| `Arithmetic` | lemmas on `%`, on finite sums and on places in an order, used by the proofs of ring, tick path, agents and nightly runs | |
| `Engine`, `EngineProofs` | `run_engine`, `WsClient::run/read_loop/stop`, librdkafka's queue | one per step of each thread between two visible effects |
| `OfiWindow` | `OfiWindow` | `Update`, `Ignore`; `Value`, `TotalVolume` are operators |
| `RealizedVol` | `RealizedVolWindow` | `Reject`, `Prime`, `Record`; `Value` |
| `CaseIds` | `g_case_id_counter` of several engines | `Launch`, `NextCaseId`, `ClockMoves` (also backwards) |
| `Wire` | the tick messages, `TickParser`, the frame's bytes, and rows and vectors made of it | `SendTrade`, `SendMalformed`, `Parse`, `Build`, `Inject`, `FromBytes`; `ToBytes` and the vectors are operators |
| `PollLoop` | the loop both services share, and kafka-python's commits | `Start`, `Poll`, `FinishRecord`, `BatchDone`, `Leave`, `Close`, `Crash`, `LoseMembership`, `Rejoin`, ... |
| `AtLeastOnce` | what the loop promises | `Handle`, `Commit`, `Rewind` |
| `Classifier`, `ClassifierProofs` | the classifier | `PollLoop`'s actions with `Score`, `InsertFeature`, `InsertScore`, `Commit`, `MirrorFails`, `Deliver`, `Flush`, `FlushTimesOut`, ... |
| `Llm` | `make_chat_llm` and `MockChatLLM` | operators: `Provider`, `Backend`, `HasTimeout`, `MockConfidence`, `Printed` |
| `Agents`, `AgentsProofs` | the agent service | `PollLoop`'s actions with `Begin`, `Forensic`, `Auditor`, `Enforcer`, `Finish`, `Persist`, ... |
| `VectorDb` | Qdrant, the seeder and the validator | `Run`, `Serve`, `ServerError`, `GiveUp`, `Arrive`, `Restart` |
| `Pipeline` | the two services and the topic between them | `Emit`, `Score`, `CommitFrames`, `Rewind`, `Deliver`, `DeliveryFails`, `PassOver`, `Report`, `LoseCase`, and `PollLoop`'s |
| `RealFeed` | the adapter's tasks | one per stretch between two awaits |
| `FeedServer` | `exploit-ws.py` and `mock-ticker.py` | `Connect`, `Send`, `SendFails`, `Wake`, `Drained`, `Close`, `Signal`, `StopServing`, `Exit` |
| `PyNumbers` | Python's rounding half to even | an operator |
| `DagTask` | the task of either DAG | `Trigger`, `Retry`, `Succeed`, `Fail` |
| `Retraining` | `trainer.main`, `train`'s folds, the artifact, the registry | `Launch`, `Train`, `Truncate`, `Write`, `ReadBack`, `Insert`, `Commit`, `Exit`, `Fail`, `CommitUnanswered` |
| `EvalRun` | `run_eval`, `score_case`, `write_run` | `StartRunner`, `CaseScored`, `CaseFails`, `Summarize`, `InsertRun`, `InsertCases`, `Commit`, `Fail`, `CommitUnanswered` |
| `EvalBoard` | the /eval page, on `EvalRun` | `OpenPage`, `Select`, `Effect`, `Receive`; `Regressions` is an operator |
| `Dashboard` | the main page, `usePoll` and the routes | `Insert`, `Open`, `Close`, `Hide`, `Tick`, `Answer`, `Lose`, `Receive`, `Select` |
| `Replay` | `buildReplay`, `computeTimeline`, the modal | `Open`, `Close`, `Advance`, `PlayPause`, `Restart`, `Jump` |
| `TickPath`, `Feeds`, `Investigation`, `Nightly`, `FrontPage` | nothing new: components side by side | |
| `TickPathProofs` | proofs about `TickPath` (with the volatility kernel) and `Feeds` | |
| `PipelineProofs` | proofs about `PollLoop` and `Pipeline` | |
| `PostgresProofs` | proofs about `Nightly` and `FrontPage` | |

(`AgentsProofs` is about `Investigation`.) `MC*.tla` and `MC*.cfg` instantiate them for TLC. In `MCKernels`, `MCAgents`,
`MCRealFeed`, `MCNightly` and `MCDashboard`, whose components share no state, a variable `about`, fixed by the initial
state, says which of them a behaviour is about. Comments name the code a definition
stands for. In most modules some definitions have a second form directly above them,
without a comment: the same definition with a plausible mistake in it. Putting the
wrong form in place of the right one makes TLC report the property that guards
against that mistake, so no property here holds whatever the code does.

### 3.1 How state and actions correspond to the code

**SpscRing.** A history of the values each index has had stands for the C++
modification order; a thread's view says which of them a load may still return, and an
acquire load that reads a release store joins the views. A slot is written in
two steps, so a concurrent read could see it half written (`Torn`).
`Capacity` is any number from 2; the code insists on a power of two only to replace
`%` by a mask.

**Engine.** Each thread has a program counter (`mpc`, `wpc`, `kpc`, `rpc`). A tick is the
number of its message, so order and loss are visible; what a frame contains is
left to the kernels. `frames[k]` is the tick the frame with case id `k` was built from.
librdkafka is external: it may deliver, deliver and lose the
acknowledgement, or expire a frame, since the code sets neither idempotence nor a
callback. A WebSocket error ends the producer thread as `failed`; `exitCode` is what `run_engine` returns.

**OfiWindow, RealizedVol.** `bought`, `sold` and `past` remember everything that was fed
in; the properties recompute from them what the kernel should say. Volumes and log
prices are integers; doubles are exact for the sums of 32-bit sizes that occur, and
rounding in the variance is not modelled. The loops that add up buckets and returns are sums over
the slots that count.

**CaseIds.** Time goes by in nanoseconds modulo `WordSize`, and `Span` is the 2^32 of them whose starts
share a base.

**Wire.** The value of a field is the name of the quantity the engine computed for it, so two
fields exchanged anywhere, in packing, unpacking, the insert, the select or a vector, leave a name
in the wrong place; each has as many bytes as its type, and a frame is the function from byte positions
that the widths of the fields before it (`Starts`) determine. Sizes are numbers, with the truncation of
`int(size * 100)`, whose product may fall just below a whole number, and the narrowing to 32 bits.
The parser's two counters, which nobody reads, are left out.

**PollLoop.** With `enable_auto_commit`, kafka-python commits inside `poll` (the position
before the fetch) and in `close`. `deaths` counts crashes, signals and lost memberships;
it bounds them and is not part of the code.

**Classifier.** `open` is the set of rows of the uncommitted transaction. A commit may take
effect and its answer be lost. `send()` only appends to the buffer; the sender thread
delivers or fails. The shutdown is a sequence of calls: `Leave` ends the loop, `Flush` is a `flush()` that
returned, with the producer empty, `FlushTimesOut` one that raises and ends the process, `Close` commits the position
and ends it; `exit` says which call is next, and `leftAt` is a history variable, the offset committed
when the loop was left. The process may be killed between any two of them, and the sender thread goes on meanwhile.

**Agents.** Scores and confidences are multiples of 1/`One`, so that exactly reaching
0.85 or 0.95 is a case of its own. `case` is the `CaseState`; a timestamp is the
number of the clock reading. The initial state picks the container's environment: `HIGH_RISK_ONLY`, the
provider and the keys, of which `Llm` makes a back-end or an exception at start. The mock computes its
confidence from the features and prints two digits, which the auditor reads back; a model says anything. Hosted
models and Ollama differ in that only the former are asked with a timeout; `AwaitsLlm` says that the record in hand is at a node
that asks one without.

**VectorDb.** Each program waits for one request at a time. A client that gives up may leave its
request behind (`late`), and the server carries it out later or never. `Restart` empties the store, as
the pod's emptyDir does.

**Pipeline.** A frame is its offset on the first topic, a score the frame it is for. What the classifier
does between poll and commit is one `Handle` of `AtLeastOnce`, which `PollLoop` implements, with the
`send` into a buffer; the agents' work on a record is one step with three outcomes.
`Rewind` is a crash, which loses the buffer, or a lost membership, which does not.

**RealFeed.** asyncio switches tasks only at an `await`, so an action is all a task does
between two of them. `Advance` is one step of the iteration over `_clients`, which
Python aborts when the set's size has changed.

**FeedServer.** A payload is its sequence number. The mock ticker's numbers go on for ever, so of them only
the place in the batch is kept.

**DagTask, Retraining.** `task` has Airflow's states. The artifact is the day of its data and
whether it is whole: saving truncates the file first. `CommitUnanswered` is a commit
whose answer is lost, so the pod fails and the task is retried although the row is there. The
folds are sets of sample numbers, with Python's rounding to even in the embargo.

**EvalRun, EvalBoard.** Of the graph's final state only what `normalize_action` looks at is kept; of
the two Ragas metrics one; a mean is a pair of sum and number, and NaN spoils it as in Python. A
pod starts with options and a prompt version, which somebody who runs it again by hand may change. What an open transaction holds is
in `openRun` and `openCases`, which nobody else sees. A percentile is the latency that has the place
`round(p * (n - 1))` in their order, so nothing is sorted. On the board, React runs the effect of a selection some
time after the selection: `effectOf` is the run whose effect is in force, and `fetches` are the
requests not over yet, with the `cancelled` flag each closure carries. The page lists the `RunLimit` newest runs (100 in
`page.tsx:18`). `detectRegressions` divides doubles: away from five per cent, where the distance of a quotient of means from the
threshold is far above a rounding error, that is what cross-multiplication of the exact sums says; at exactly five per cent it
depends on how means and quotient were rounded, and the constant `ExactDrops` says for which pairs of means the
quotient comes out at 0.05 or more.

**Dashboard.** A report is its id; `Ts`, `Wire` and `IdText` give its stamps and the rank of its id
as text, which is how `pg` returns a `bigint`. A fetch is sent, answered from the rows of that
moment, and received, lost or aborted. Ties on `ts_ns` are left open, as SQL leaves them. The
score feed merges its rows exactly as the inspector does and is not repeated. `seen` is a
history variable: how many reports there were when the answer applied last was computed.

**Replay.** A case is its five stamps, `None` where the column is NULL, and the agent nodes that
left a rationale. `Advance` is the timer that fires; the playing speed is left out.

## 4. Runs

| run | states | shows |
|---|---|---|
| `ring` | 72,012 | `HappensBefore`: race freedom; `JustifiedRefusal`: full and empty are never imagined; `ImplementsQueue`: refinement of `BoundedQueue`; liveness `EveryPushIsPopped` |
| `engine` | 48,254 | `TickAccounting`: the counters add up; `FrameAccounting`: every frame from its tick and with one fate; `FlushIsFinal`; liveness `EngineStops`, which assumes a talking peer only for a signal |
| `engine_signal` | counterexample | `SignalStops` fails |
| `engine_exit` | counterexample | `FatalErrorFails` fails |
| `kernels` | 132,584 | `WindowExact`, for ticks at most a window late; `ValuesMatchWindows`: OFI, volume and volatility against the past; `DistinctAcrossWindows`: ids across restarts and a clock set back; `TradeArrives`, `FrameIsUnderstood`: the formats |
| `pipeline` | 841,325 | `NothingSkipped` and `ImplementsReader`: the poll loop refines `AtLeastOnce`, here behind another such reader; `AlertsConserved`; liveness `EveryAlertResolved` |
| `classifier` | 161,572 | `NoFrameForgotten`; `MirrorPaired`: the two tables agree and no transaction stays open; `NoLossByClosing`: no way out of the loop commits a score away that then goes down with the process; liveness `EveryFrameHandled` |
| `agents` | 574,309 | `ReportsConsistent`, `NoCaseForgotten`, `VerdictsAreFinal`, liveness `EveryCaseHandled`, but for an Ollama server that never answers; `SuccessesHold` of the seeding |
| `realfeed` | 154,609 | `OnlyServedClients`, `BroadcastReachesAll`, liveness `ExitsWhenFeedIsLost`; `BurstInOrder` of the scripts |
| `realfeed_persistent` | counterexample | `Persistent` fails |
| `nightly` | 1,765,798 | `RegistryRowsAreModels`, `PurgedFolds`; `WholeRunsOnly`, `SummaryMatchesCases`, `DrilldownShowsSelected`, `BannerIsTrue` |
| `dashboard` | 15,021 | `InspectorShowsNewest`, `ReceiptNeverGoesBack`, liveness `NewReportAppears`; `ReplayMatchesReceipt` |

### 4.1 Bounds
- `ring`: four slots and seven pushes: both indices wrap and most slots are reused; the ring
  fills up; two values tell elements apart. The proofs cover every capacity.
- `engine`: five ticks, a frame every two, a ring of two, a Kafka queue of one: ring and
  queue both overflow, a frame is refused while another is queued, and one tick is left
  over at the end. `engine_signal` and `engine_exit` need less.
- `kernels`: three buckets of width two over six epochs: every slot is recycled, and a tick can be
  two epochs late, the most the window allows; a volatility window of three in an array of four
  and six returns, so it wraps twice. Ids: spans of three, three engines that use up theirs, a
  clock from 0 to 8. Formats: symbols of one, three, eight and nine characters for a field of eight;
  sizes of nothing, of almost nothing, that round, that are whole, and that overflow a range of 8.
- `pipeline`: two frames of which one is an alert, two rewinds of the classifier, two deaths of the agents, batches
  of two: a redelivery can itself be interrupted on either side, and both together. Six scores are
  all that two frames and two rewinds can make.
- `classifier`, `agents`: batches of two among three records; two deaths and one; a malformed record
  among good ones; scores at, below and above the threshold; a model's confidences below, at and
  above the gate, above 1 and missing; mock scores that round up to the gate, far below and above
  it; all environments.
- `agents`, the seeding: two seeders, one validator, two points, one replacement of the pod.
- `realfeed`: three clients: one receives, one leaves and one joins during a broadcast. The scripts: a burst
  of five in batches of two, so the last is shorter, for three clients that come and go.
- `nightly`: three nights with 25, 0 and 2 rows for three folds (a remainder and an embargo that rounds to
  even, no data at all, fewer rows than folds), each with its retry. One night of evaluation with two
  cases and every verdict, not judged or judged NaN, 0.9025, 0.95 or 1.0, each exactly five per cent below the next (the
doubles call the drop from 1.0 to 0.95 a regression, those from 0.95 to 0.9025 and from 0.975 to 0.92625 not); both
  attempts of it, so that an unanswered commit leaves two runs, of one prompt version or of two, between
  which a user can switch; no limit, `--limit -1`, `--limit 0` and `--dry-run`. The page lists two runs, so its limit cuts
nothing off here; the theorems about the board cover every limit.
- `dashboard`: four reports for two places, in another order than their stamps, with ties on
  both stamps and ids on both sides of the step from one digit to two; every combination
  of missing, ordered and disordered stamps and of nodes for the replay (1,728 cases).

Deadlock is checked in every run but `nightly`, where the number of nights is bounded and
nothing is left to do after the last. Where a process may really be over (`Engine`,
`RealFeed`, `FeedServer`), a `Terminated` step says so. `nightly` and `kernels` use the symmetry of prompt
versions and of engines; neither checks a liveness property.

### 4.2 Fairness
- `SpscRing`: the consumer polls (weak fairness of its steps); the producer is under
  no obligation to start a push, only to finish it.
- `Engine`: every thread that can run runs. Nothing is assumed of the socket: reading,
  connecting and the peer's close have no fairness. The first half of `EngineStops`, that the engine ends
  when its socket has, needs none; the second, that a signal ends it, names the `TalkingPeer` it
  assumes: one that accepts, keeps sending and answers a close. Kafka has no fairness either.
- `Classifier`, `Agents`: Kubernetes restarts the container, the main thread runs and a broker that holds
  records eventually returns some (strong fairness of a poll that fetches, because lost memberships can disable it in
  between). Crashes are bounded, never forced. That the thread runs means that the calls it makes return: those
  to Kafka have time limits in the library or the code (`flush(timeout=5.0)`), Qdrant is asked with 5 seconds (`rag.py:25-29`),
  the hosted LLMs with `LLM_TIMEOUT_S`, 30 (`llm.py:129,146`). The statements for PostgreSQL have none; that
  the server answers them or the connection breaks is an assumption on the environment. `ChatOllama` is made without a
  timeout (`llm.py:152-156`), and no liveness probe restarts the pod: an Ollama server that never answers
  keeps the loop where it is. So there is no fairness of the work while `AwaitsLlm` holds, and
  `EveryCaseHandled` names this one way in which a score may stay unhandled for ever.
- `Pipeline`: the same for either service; frames need not come, and the producer's sender thread
  delivers or fails what it holds. That the agents' work on a case ends is assumed here of the LLM as well: true of the
  mock and of hosted models, an assumption on the environment for Ollama.
- `RealFeed`: the event loop runs every ready task, sleeps end, closing a connection
  takes a bounded time. The exchange and the clients have no obligations.
- `Dashboard`: the interval fires; the server answers and the answer arrives again and again
  before the next tick aborts the fetch (strong fairness, since every abort disables them).
  The code does not enforce the latter: answers that always take longer than the interval are
  never shown, and `NewReportAppears` does not claim it.
- `CaseIds`, `Wire`, `VectorDb`, `FeedServer`, `Retraining`, `EvalRun`, `EvalBoard` and `Replay` state safety only, and no
  fairness.

## 5. Proofs

| module | theorem | says | argument |
|---|---|---|---|
| `SpscRingProofs` | `TypeCorrect`, `RaceFreedom`, `SlotExclusion`, `FirstInFirstOut`, `RefusalsAreJustified`, `RingImplementsQueue` | the whole safety of the ring, for every `Capacity` >= 2 and set of values | one inductive invariant `IInv`: the indices are the numbers of pushes and pops modulo `Capacity`, the difference of the two counts is the occupancy and stays below `Capacity`, the slots between hold the elements in order, and what each thread's view says of the other's index lags behind it |
| `TickPathProofs` | `BucketsExact` | `WindowExact` for every width, bucket count and lateness below the window | invariant: a bucket's epoch maps to its slot and every epoch in the window is in its bucket or untouched; a slot determines at most one epoch of a window (`Arithmetic`) |
| | `ValuesAreTrue` | `ValuesMatchWindows`: imbalance, volume and variance against the whole past, for windows of any size and any number of ticks | `AtHome`: a bucket with any volume is in the slot of its epoch, so the buckets that count are one for each epoch of the window in which anything was traded (`SumReindexed`, `SumDropsZeros`); `VolInv`: slot `i` holds the newest return whose number, from 0, is `i` modulo the capacity, so the slots hold the last returns in some order, and the two forms of the variance are one polynomial |
| | `UniqueWithinEngine`, `UniqueAcrossWindows` | no id twice, within an engine or between engines of different windows | invariant: an engine's ids are exactly those from its base up to its counter, and a process emits no more frames than a window has ids |
| | `TradesArrive` | `TradeArrives` for symbols, sizes and field widths of any length | invariant `Follows`: the message on the socket is one that a feed makes of the trade; `int(size * 100)` is off by at most one, and padding and stripping give the symbol back because none contains the padding |
| | `FramesAreUnderstood` | `FrameIsUnderstood` for any symbols and sizes, and frames of the engine and of the injector | invariant `Conveyed`: the bytes on the topic are those of the engine's or the injector's values; the starts of the fields are the sums of the widths, so `struct.unpack` takes each value's own bytes, and padding and stripping lose nothing |
| | `ServedClients`, `BroadcastsReachAll` | `OnlyServedClients`, `BroadcastReachesAll` for any set of clients | `Registered`: the set holds clients whose handler waits; `Passed`: while the set has not changed, whoever the iteration has passed got the tick or is marked dead |
| | `BurstsInOrder` | `BurstInOrder` for any burst and batch and any number of clients | `BurstOf`: what a client got is `sent` + `i` ticks, numbered from 0; `i` stays inside its chunk, so the number reported is at most a batch behind |
| `PipelineProofs` | `CommittedWereHandled`, `LoopImplementsReader` | the committed offset passes only handled records; the loop refines `AtLeastOnce` | invariant: offsets in order while the process is up, and everything below the record in hand has been handled |
| | `LoopTypesHold`, `PipelineTypesHold` | the type invariants of the loop and of the pipeline: offsets stay within their topics, a score in the producer or on the topic is of a frame that was scored, and only alerts count as lost | part of the invariants of the other two rows, with `LineTypes` for the classifier's side |
| | `PipelineImplementsReaders` | with the two services in a row, each refines `AtLeastOnce` on its own topic, so `NothingSkipped` and the rest hold of either in the composition | every step of the pipeline is a step or a stutter of each (`LoopSteps`, `ScoringSteps`) |
| | `AlertsAreConserved` | `AlertsConserved` for any number of frames, alerts, rewinds and deaths | `PipeInv`: a frame that was scored has its score in the buffer, on the topic or lost (`Scored`), a score that was handled has a report or is lost (`Resolved`). For the upper bound `CountInv`: the copies of an alert's score number at most 1 + rewinds, and less one while its frame is still ahead; its reports at most the scores passed in this reading plus all copies for each earlier reading; `RestartInv` says which deaths have begun a new reading yet |
| `EngineProofs` | `TicksAreCounted`, `FramesAreAccounted`, `NothingAfterFlush` | `TickAccounting`, `FrameAccounting`, `FlushIsFinal` for rings and queues of any size, any frame interval, any number of ticks | three invariants, each about one thread's part: `TickInv`, the counters against the producer's program counter; `CadenceInv`, the pops against the consumer's, with `FateInv`, the ids that are queued, on the topic or expired, and the finite set of the refused; `JoinInv`, that what main has joined is over and stays so |
| | `TypesHold` | the type invariant of the engine: the ring stays within its bound, `since_frame` below the interval, frame ids and counters in range | the counters' ranges come from `TickInv` and `CadenceInv` |
| | `EngineUsesQueue` | the engine's threads use the ring only as `BoundedQueue` allows, the queue that `RingImplementsQueue` shows the ring to implement; so the engine may be modelled on the queue | only `PushTick` and `PopTick` move either end; the tick pushed is one of the values by `TickInv` |
| `ClassifierProofs` | `FramesRemembered`, `TablesPaired`, `ClosingLosesNothing` | `NoFrameForgotten`, `MirrorPaired`, `NoLossByClosing` for topics, batches, buffers and numbers of failures of any size | what is `Accounted` for (malformed, on the topic, in the buffer, known to be lost) never shrinks, and all behind the cursor is; `MirrorInv` says what the open transaction holds at each step of a record; `ExitInv`: until the flush has returned nothing was committed since the loop was left, and from then on the producer is empty |
| | `ClassifierImplementsReader` | the classifier, with its producer, its transactions and all its ways to die, refines `AtLeastOnce`: a frame is dealt with when its score is sent or its payload rejected | refinement mapping: the frames dealt with are those in the buffer, on the topic, known to be undelivered or malformed; the next one is behind the cursor while the record in hand is being mirrored, and where the group resumes while the process is down. Only `Score` and `SkipMalformed` are steps of the reader that handle anything |
| | `TypesHold` | the type invariant of the classifier: the producer never holds more scores than it buffers, and what waits in the transaction is a subset of the two inserts | group, records and PostgreSQL each in a lemma of their own |
| `AgentsProofs` | `CasesRemembered`, `FinalVerdicts`, `ConsistentReports` | `NoCaseForgotten`, `VerdictsAreFinal`, `ReportsConsistent`, whatever the LLM and Qdrant answer | all behind the cursor is `Covered` (low risk, reported, lost); the id of the case in hand is in no row, so the upsert adds; `VerdictInv` carries confidence, advice, action and stamp from node to node; the mock's rounding to hundredths keeps its score on its side of the gate or puts it on the gate (`PrintedBounds`) |
| | `AgentsImplementReader` | the agent service refines `AtLeastOnce`: a high-risk score is dealt with by a report or a recorded loss, a low-risk one by being read | refinement mapping `Answered`; a report is filed under the record in hand (`PersistAdds`), and every step between two records is a stutter |
| | `TypesHold` | the type invariant of the agent service: a confidence stays between 0 and 1.0 whatever an LLM states, and every row has values for all its columns | the same division; clamping and the fallback each give a value of the range |
| | `SeedingHolds` | `SuccessesHold` for any corpus and any number of seeders and validators | a seeder's collection is empty or complete (`StoreInv`); a request left behind is one its program could make, and on a validator's collection only of a validator that failed (`LateInv`), so nothing late undoes a success |
| `PostgresProofs` | `RunsAreWhole` | `WholeRunsOnly` for any set of cases, options, failures and retries | `HarnessInv`: one result per case so far, in order; `OpenInv`: what the open transaction holds at each step; `CommittedInv`: committed ids are below the next one of the sequence, so a run never mixes with an older one |
| | `SummariesMatch` | `SummaryMatchesCases` for any cases, verdicts, judgements (NaN among them) and latencies | `SummaryInv`: the summary in the open transaction is that of the results in hand, and each committed run is `Summed`: its rows are those of some sequence of results whose summary it stores. Rows differ in their case, so sums and counts over rows are sums and counts over the sequence; `round` puts a percentile's place where at least its share of latencies lies (`PercentilesOrdered`, `OrderStatistic`) |
| | `BannerTellsTruth` | `BannerIsTrue` for any runs of any versions, and any `ExactDrops`, that is however the doubles round at five per cent | by the same invariant the means of a run are those of its rows (`RunAverages`); the two runs compared are the last listed of the version (`LastTwo`); a regression of two means is a drop of their rows by five per cent or more, and each by more than that is one (`RegressedMeans`) |
| | `DrilldownIsOfSelected` | `DrilldownShowsSelected` for any clicks and answers | `BoardInv`: a fetch not cancelled is one of the effect in force, and while none is loading the cases are those of its run or none |
| | `RegistryHoldsModels` | `RegistryRowsAreModels` for any number of nights, rows, folds and retries | `TrainerInv`: from the step that reads the artifact back, the file is whole and of this day, since only this pod writes it |
| | `FoldsArePurged` | `PurgedFolds` for any number of rows and folds | a sample is in the fold of its quotient by the fold size, or in the last, which takes the remainder, and each fold stops before the next starts (`FoldOrder`), so they partition the samples; samples in the embargo are those next behind a fold (`TrainingPurged`) |
| | `ReceiptsGoForward` | `ReceiptNeverGoesBack` for any stamps and ids | `ReceiptInv`: an answer under way is never older than the receipt shown, because the page has one fetch at a time and a new one is answered later |
| | `InspectorIsNewest` | `InspectorShowsNewest` for any reports, ties and page size | `ListInv`: the list is the newest of the first `seen` reports and no answer that may be applied is of fewer; merging two such lists and cutting gives one of the later (`NewestOfMerged`, by counting: the merged list has at least as many rows as the later answer) |
| | `ReplayAgrees` | `ReplayMatchesReceipt` for any rows, with stamps missing or out of order | events and captured stages are concatenations of pieces that are empty or one long (`Spans` says where each lies), so the last event is that of the last piece present and the order of the stamps carries over piece by piece |

The properties alone are not inductive. `Fifo`, for instance, says nothing about the
slots not yet popped, and a pop preserves it only because the slot at the head
holds the oldest element not delivered; likewise `NothingSkipped`, `NoFrameForgotten` and `NoCaseForgotten` need to know that
what lies below the cursor was handled before a poll may commit it, and `FrameAccounting` that the
pops of the frame in the making are a whole interval.

Likewise `AlertsConserved` bounds the reports only together with the number of scores passed since the last
restart, and `SuccessesHold` says nothing of the requests still under way, which could undo it.

*Sums.* The properties of the kernels and of a nightly evaluation are about sums over sets of any size. The library's theorems on
induction and on folds take operators as parameters, which the provers cannot instantiate; `Arithmetic` therefore proves
what is needed about `SumFunctionOnSet` from its definition, for functions on finite sets, each induction being a proof by a
least counterexample (`LeastNatural`, `SmallestSet`): that the sum exists and is unique, that it may be split, reindexed by a bijection,
taken term by term, and rid of zeros.

*Assumptions*: those the modules declare on their constants (`CapacityAssumption`,
`OfiAssumption`, `CaseIdsAssumption`, `PollLoopAssumption`, `PipelineAssumption`, `EngineAssumption`,
`ClassifierAssumption`, `AgentsAssumption` and `HundredthsAssumption`, that 1.0 and the gate are whole numbers of
hundredths, `EvalRunAssumption`, which also says that a latency is a natural number and that what stands for "no number" and
for NaN is no number), and those of the components that are instantiated (`KernelAssumption`, `FormatsAssumption`, `FeedsAssumption`,
`QdrantAssumption`, `TrainingAssumption`, `PageAssumption`, `ModalAssumption`), each evaluated by TLC in the runs. Of these
`TrainingAssumption` has the least obvious part: the embargo, a percentage of the rows rounded half to even, vanishes on a day with
fewer rows than folds, which holds for the defaults (five folds, one per cent, `model.py:113-114`). Without it a fold
without samples would be given an embargo behind its empty place.
Four theorems have hypotheses of their own: `BucketsExact` and `ValuesAreTrue` that `MaxLateness < BucketCount`, because the code does not
enforce it; `TradesArrive` and `FramesAreUnderstood` that the markers `Malformed`, `Rejected`, `Truncated` and `WrongType` are no values of the
kind they mark the absence of (`MarkersApart`), which is true of TLC's model values and cannot be evaluated by it, since it speaks of all values;
and `FramesAreUnderstood` also that `SymbolMax = 8`, because the engine's struct has `kSymbolMax` characters where the
format strings in Python say 8 (`src/src/tick_data.hpp:24`): with any other number the two sides would not agree.

*Only model-checked*: the seven liveness properties of the passing runs (`EveryPushIsPopped`, `EngineStops`, `EveryAlertResolved`,
`EveryFrameHandled`, `EveryCaseHandled`, `ExitsWhenFeedIsLost`, `NewReportAppears`): fairness and ENABLED are beyond the prover.
Every safety property of the passing runs is a theorem.
`TypeCorrect`, `SlotExclusion` and `FirstInFirstOut` of the ring and `UniqueWithinEngine` of the case ids are proved and
need no run, and so are the type invariants of the engine, the poll loop, the two services and the pipeline. `TypeOK` of the
other modules documents their variables, and the proofs carry the parts of it they need; no run lists it.

## 6. Where code and documentation disagree

Three disagreements have a run that exhibits them:
- `SignalStops` (`src/src/engine.hpp:30`): the client is stopped only from `on_message`, so with a
  silent peer a signal does not end the engine.
- `FatalErrorFails` (`src/src/engine.hpp:30-31`, "EXIT_FAILURE on a fatal producer or WebSocket error"): the
  error ends its thread (`engine.cpp:182`), and main joins, flushes and returns `EXIT_SUCCESS` (`engine.cpp:276`).
- `Persistent` (`services/realfeed/realfeed.py:94`): a client that comes or goes during a broadcast makes
  the iteration over `_clients` raise a `RuntimeError` nobody catches; the upstream task ends, and
  with it the process.

Others were met while modelling; the models contain the behaviour, or leave the part out, and no
run singles them out:
- `src/src/engine.cpp:77-79` says engines launched at different times do not trivially
  collide: all those started in the same 2^32 ns (4.3 s) begin with the same id, which is why
  `DistinctAcrossWindows` speaks of windows.
- `src/src/features.hpp:33-34`: a tick a whole window late recycles a bucket that still counts,
  which is why `kernels` bounds the lateness.
- `services/agents/state.py:60-61` numbers the verdict T+3 and the enforcement T+4; the verdict is
  stamped after the enforcement (`consumer.py:140`).
- `scripts/sql/init.sql:7` promises one row per scored frame, `k8s/classifier-deployment.yaml:3-4`
  that every scored frame is mirrored: redelivery repeats rows, a failed insert or a database
  down at start leaves none.
- `README.md:231` says every case is persisted: one whose graph or insert raises is not
  (`lost` in `Agents`).
- `scripts/sql/init.sql:27` and `services/classifier/db.py:37-38` say that Airflow fills in the labels:
  nothing does, so the trainer reads NULL, which becomes NaN and is cast to `int8` (`trainer.py:45-47`).
- `services/classifier/scripts/train_baseline.py:6-7` and `k8s/classifier-deployment.yaml:72-73` say that the DAG replaces the
  baseline model: the DAG writes `/models/latest.txt` (`retraining_pipeline.py:46`), while the
  classifier loads `/models/baseline.txt`, so a retrained model is never served.
- `web/components/receipt.tsx:46` announces an order by stamp with the id as a fallback: the code takes
  either, and compares ids as text. `ReceiptNeverGoesBack` holds all the same because the
  route only ever answers with the newest stamp, and reports are never deleted.
- `web/lib/replay.ts:86-88` speaks of rows without `wire_ts_ns` *and* without stage data; a missing
  `wire_ts_ns` alone makes the replay empty. `/api/reports` does not select the stamps, so every
  case that arrived by polling says "wire timestamp missing" (`replay-modal.tsx:66`).
- `web/lib/replay.ts:155-156`: without any agent node the replay ends at the score while the
  receipt's total runs to the last stamp; without a score the nodes are placed from the wire, before
  the computation. `ReplayMatchesReceipt` says under which conditions they agree.
- Pressing play at the last event only turns playing on and off again (`replay-modal.tsx:47-50`).
- `web/app/page.tsx:134-140` reports an unreachable database also when both tables are merely empty.
- `web/lib/use-poll.ts:10-11` promises that the next interval retries; it also aborts, so answers slower
  than the interval never arrive.
- `services/agents/llm.py:51`: the mock's recommendation looks at the score before it is printed, the auditor reads
  the printed one. A score from 0.945 up to 0.95 says "monitor" and may be printed as 0.95, which is enforced;
  `ReportsConsistent` therefore excludes only the opposite, a mock that says "escalate" and is not enforced.
- `k8s/agents-deployment.yaml:7-9` promises the mock when `OPENAI_API_KEY` is missing: that holds for a blank
  `LLM_PROVIDER`, and for `gemini` without its key; `openai` without a key raises (`StartRaises` in `Agents`). The same
  file sets `LLM_MODEL` to a Gemini model (line 36), which a pod with only an OpenAI key asks OpenAI for.
- `services/agents/eval/runner.py:109-114` records the provider it expects: `gemini` without a key is recorded as such
  although the mock answered, and the default model differs from those of `llm.py`.
- `services/agents/eval/fixtures/build.py:61-65` says its thresholds match the runtime gates: they are 0.9 and 0.6, the
  gates 0.95 and 0.85, so the expected action of an attack is not what an ideal agent would do at run time.
- `PROMPT_VERSION` is set by neither DAG nor manifest, so every nightly run is of version `v0`, and the regression
  banner compares runs of one version only: a new prompt is never compared with the old one.
  A metric that is null or NaN is skipped silently (`Fell` says exactly when).
- `README.md:409-410` says that the banner fires when a metric "drops > 5%", `web/app/eval/eval-board.tsx:11` that a "5% drop
  counts as regression". At exactly five per cent neither is what happens: the test is `>=` on a quotient of doubles
  (line 107), so 1.0 followed by 0.95 fires, while 0.7 followed by 0.665, or 0.95 by 0.9025, gives 0.0499... and does not.
  `BannerIsTrue` therefore promises nothing for that case.
- `LLM_TIMEOUT_S`, the time limit of an LLM call, is read for OpenAI and Gemini only (`services/agents/llm.py:129,146`): see section 4.2 on
  Ollama.
- `scripts/exploit-ws.py:72-73`: the number returned is not of the frames sent but of whole chunks: a client that
  leaves within a chunk makes it fall short by up to a batch less one. And `--once` stops when the first client is gone,
  not when it has drained the burst (`exploit-ws.py:116`).
- `k8s/vector-db.yaml:11-12` says that collections are recreated when the pod restarts: nothing does that but
  somebody who runs the seeding command again, and until then a search finds no collection.
- `scripts/validate-vector-db.py` leaves its collection behind when a check before the delete fails.
- `src/src/tick_parser.cpp:93` narrows a size to 32 bits without a check: a larger one is accepted with another value,
  possibly 0, which the OFI window then ignores.
