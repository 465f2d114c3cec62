# A TLA+ development of code-anomaly-engine

The repository is a pipeline that watches pushes, classifies the changed code
with a model and shows the results live:

    GitHub --webhook--> ingestion --Kafka--> gateway (bridge) --gRPC--> inference
                                               |
                                               +--> store --REST--> dashboard
                                               +--> hub ----WS----> dashboard

This directory holds its specification: TLA+ modules translated from the source,
TLC configurations that check them on small instances, and TLAPS proofs of what
holds for every size. File and line references are to the repository; file names
without a directory are unique in it.

## 1. The system

| Component | State | Operations | Hard part |
|---|---|---|---|
| WebSocket hub (`gateway/internal/ws/hub.go`) | client map, two kinds of bounded channels, RWMutex, `closed` | `Run`, `Broadcast`, `ClientCount`, `Close`, `HandleWebSocket` with a read and a write pump per client | one event loop, one producer, 2n pumps and main share a lock and channels; the lock is given up in the middle of a range |
| Kafka bridge (`gateway/internal/kafka/bridge.go`) | consumer position and committed offset (franz-go), result counter, cancel | `Start`, `consumeLoop`, `processRecord`, `Stop` | offsets are committed behind the loop's back; failures drop records; a restart repeats records and reuses IDs |
| Anomaly store (`gateway/internal/api/store.go`) | slice of results, index by ID | `Add`, `HandleList`, `HandleGet`, `HandleStats` | the index points into a slice that is reallocated; answers are written with the lock held |
| Gateway wiring (`gateway/main.go`) | - | onResult callback, HTTP server, shutdown sequence | the order of the shutdown steps |
| Ingestion webhook (`ingestion/internal/webhook/handler.go`, `ingestion/main.go`) | per request only | signature check, event dispatch, publish loop, shutdown | deliveries run side by side; a partial failure is answered with 200 |
| Kafka producer (`ingestion/internal/kafka/producer.go`) | message counter | `Publish`, `Close` | errors that do not mean "not written" |
| Diff parser (`ingestion/internal/parser/parser.go`) | - | `ExtractSnippets` and its helpers | line arithmetic over a text format |
| Inference engine (`inference/src/engine.rs`, `main.rs`) | ONNX session behind a mutex, two atomic counters | `predict`, `predict_batch`, `stats`, health check | a poisoned mutex, counters read apart |
| Dashboard connection (`dashboard/src/hooks/useWebSocket.ts`) | sockets, reconnect timer, effect | `connect`, the socket's events, cleanup | effects re-run while timers and sockets of earlier ones are alive |
| Dashboard list (`dashboard/src/App.tsx`) | list, selection, demo stream | REST answer, feed messages, demo | two sources of the same results, in any order |
| Training and export (`ml/train.py`, `ml/export_onnx.py`) | best F1, checkpoint directory, ONNX file | train, export | what the checkpoint on disk is |

They interact only as the picture shows: ingestion and bridge share the topic;
the bridge calls the engine and then, through main's callback (`main.go:41-61`),
first the store and then the hub; the dashboard reads store and hub; the engine
reads the file that the export writes. Within the gateway these calls are made
by one goroutine, which is why a hub that blocks stops the bridge.

What makes each part correct:

* hub - no schedule panics or blocks; every dashboard sees a gapless feed.
* bridge - what is committed was dealt with; loss and repetition have named causes.
* store - every answer is about one moment, and the index agrees with the list.
* ingestion - what it counts and answers is what the broker has; it shuts down.
* engine - a batch's answers fit its snippets; a failure never stops the others.
* connection - it never ends up without a way back; what it shows is true.
* list - REST answer and feed leave no gap between them.
* parser - no line twice, none from outside its hunk, every loss has a known cause.
* training - what a run leaves is its best epoch.

## 2. The modules

| Module | Models | Kind |
|---|---|---|
| `Hub` | hub.go, and what `main.go` makes of it | one action per step between two blocking or observable points |
| `Feed` | what a dashboard is promised | abstract specification of `Hub` |
| `MCHub` | symmetry of clients | for TLC |
| `Bridge` | bridge.go over one partition, with crashes and restarts | one action per step of the loop |
| `Consumption` | what a consumer group owes its topic | abstract specification of `Bridge` |
| `BridgeProofs` | invariant, refinement | TLAPS |
| `Store` | store.go, with the memory of the slice | actions are critical sections |
| `Archive` | what the REST side owes its callers | abstract specification of `Store` |
| `StoreProofs` | memory invariant, refinement | TLAPS |
| `Ingestion` | webhook handlers, producer, shutdown | one action per step of a delivery |
| `Pipeline` | `Ingestion` and an instance of `Bridge`, joined by the topic | composition |
| `IngestionProofs` | types, order, counts, shutdown; what becomes of the records in `Pipeline` | TLAPS |
| `Engine` | concurrent calls, the session, the counters, the health check | one action per step of a task |
| `EngineProofs` | account of the counters, answers; the checkpoint of `Training` | TLAPS |
| `Socket` | the hook under App's renders | one action per event |
| `SocketProofs` | invariants of the hook | TLAPS |
| `Gateway` | `Hub` and instances of `Bridge` and `Store`, joined by main's callback and shutdown | composition |
| `GatewayProofs` | of `Hub`: invariant, refinement, permanence of the deadlock; of `Gateway`: it keeps to its components' specifications, its invariants | TLAPS |
| `App` | the list, with an instance of `Feed` per socket and the newest results as the REST answer | one action per event |
| `AppProofs` | invariant of the list | TLAPS |
| `DiffParser` | the parser, fed line by line | one action per kind of line, the rest operators |
| `DiffParserProofs` | the operators, the invariant of a diff as it is read | TLAPS |
| `Training` | the checkpoint's life through training runs and exports | one action per step that changes a file |

### How state and actions correspond to the code

**Hub.** `clients`, `closed`, `broadcast`, `send` are the fields of the same
name; `sendClosed` records `close(client.send)`. The RWMutex is `writer` (who
holds or has announced the write lock) and `readers`: `Lock` is two steps, the
announcement, which keeps new readers out as Go's RWMutex does, and the
entry when the readers have left. `runPc` says where `Run` is: `select` (46),
`add`/`remove` (50, 56) waiting for the lock, `count` in `ClientCount`, `fan`
before the RLock of line 65, `range` inside the loop and `kick` between
`RUnlock` and `Lock` (71-72); `visited` is what Go's map iterator has dealt with,
which is why the range that goes on after a drop neither repeats nor skips.
`bridgePc` is the goroutine of the bridge: a result in hand, waiting for the read
lock, sending. A message is the number of its result. `writePump` and
`readPump` are the two goroutines of `HandleWebSocket` (129-154), `mainPc` the
shutdown sequence of `main.go:126-138`. Closing a closed channel, or sending on
one, sets `proc` to `panicked`.

**Bridge.** `loop` is the program counter of `consumeLoop` and `processRecord`.
franz-go's group consumer is external and modelled by its defaults: a poll makes
what was polled before committable, commits happen at any time, leaving the group
commits, and a member starts after the committed offset. `fate` and `settled` are
history: what became of a record when it was last dealt with.

**Store.** `heap` is the list of backing arrays, `slice` a reference into the
last one; `append` writes in place while there is room and otherwise moves,
and the pointers of `byID` keep pointing where they did. Handlers keep the read
lock until their answer is written (`defer`), so a slow client is a handler that
stays in `reading` until the server's WriteTimeout.

Where a new array of the slice has unused elements, `MaxSpare` bounds how many.

**Gateway.** A step that two components see is the conjunction of their actions:
`AddResult` is `Add` of the store and `OnResult` of the hub, `ResultReturns` the
return of `Broadcast`, of the callback and of `processRecord` in one
(`main.go:41-61`, `bridge.go:176-188`), `Terminate` the signal and the cancel,
`Main` the steps between `bridge.Stop` and the exit. The bridge's goroutine is
therefore one thread through three modules, and its place is the pair of `loop`
and `bridgePc`, with `adder` in between. Only the bridge counts results
(`bridge.go:176`): `CallAdd` and `ResultReturns` pass its counter on, as `main.go:44` and
59 do with the result's ID. Alone, `Store` and `Hub` are checked with results numbered
in their order. It is one life of the process with records that have code. The client's
commits in the background are not among its steps: in the same life nobody reads the
group's offset, and `committable` is what it may be at any time, so `CommittableIsServed`
says that of every commit there could be. What a crash and a restart do to the offsets is
in `Bridge`. A restart finds an empty store and a counter at 0 (`main.go:34-43`) with
the group's offsets where they were, so the results of an earlier life are gone
from the REST side and their IDs are given again.
A REST request is a list, and `WriteTimeout` stands for every way in which an answer
ends: the lock is what counts here.

**Ingestion.** `handler[d]` is where the goroutine of a delivery is; the publish
loop (`handler.go:145-158`) is `CallProduce`, `Produced` or `ProduceFails`, and
`CountPublished`. `ProduceFails(d, TRUE)` is an error for a record the broker has.
franz-go's producer is idempotent by default: the context of a `ProduceSync` ends it as
long as the record waits in the client, not once a request carries it (`SendRequest`).
`main` is the process: it starts or fails to (`os.Exit(1)`), serves, and shuts
down: drained or timed out, `Close` reading the counter, exit. The early returns
of `HandleWebhook` (no body, wrong signature, event of no interest, no JSON) are
an action each.

**Engine.** `pc[c]` is where the blocking task of a call is: waiting for the
session's mutex, running the session, adding to the counters. A panic with the
guard alive poisons the mutex and is an error to its caller. `health` holds what
the health check has loaded so far: the two loads are two steps. Its `overlap` is history:
the predictions between the session and the counters at the first load, and those that
left the session before the second.

**Socket.** A socket goes through the readyStates; `wsRef` and `timer` are the
hook's refs, `orphans` timers whose handle has been overwritten. `Commit` is a
committed render of App, `Effect` the cleanup and the new effect after it. Both
follow every render because `onMessage` is a new function each time
(`App.tsx:37`, `useWebSocket.ts:65, 73`).

**App.** `anomalies`, `selected`, `simulating` are the state hooks; `snapshot` is
the REST answer on its way. `base`, `covering` and `early` are history: how much
was stored and which sockets were registered when the answer was given, and
what each socket had brought when it took the place of the list.

**DiffParser.** A line is its place in the diff and its kind; `number` is the
number git would give it, which the code does not track beyond the header. `current` is
the hunk of `extractHunks`, and a hunk is taken apart into functions when it is complete
(`Complete`), not when its file is: hunks do not change once they are collected, so the
list is the same. What a function is, where it ends and whether it is too small depends on
kinds only: `tiny` and `short` lines are those with which a function has still less than
ten characters.

**Training.** A model is the run and epoch it comes from; a directory or file
that is being overwritten is `Torn`. Its names begin with `Training` where `Engine` has
the same, because `EngineProofs` extends both.

Operators marked *Mutant* stand before the definition they change: each is a
plausible mistake in that piece of code, and each property is violated under one
of them.

## 3. What is checked

| Run | Instance | States | Shows |
|---|---|---|---|
| `hub_safe` | 2 clients, channels of 1, 3 results | 699 000 | no panic before `Close`, every queue continues its feed, nobody is silently behind, `Hub` implements `Feed` |
| `gateway` | 1 client, channels of 1, 2 results, 1 REST handler | 113 000 | what may be committed is in the store, the feed is never ahead of the store; `Broadcast` returns, pumps end, the shutdown completes, messages arrive - or the process is in the lock cycle; an answer of the engine is served |
| `hub_stuck` | 1 client, channels of 1, 2 results | *violated* | `Broadcast` need not return |
| `bridge` | 3 records of all kinds, 2 lives | 318 000 | only failed calls and errored polls lose records; IDs; `Bridge` implements `Consumption`; records are dealt with |
| `store` | 3 results, 2 requests, lists of 2 | 109 000 | index and list agree, `Store` implements `Archive`, nobody is locked out |
| `ingestion` | 2 deliveries of up to 2 files | 180 000 | order, counts, graceful shutdown, everything ends |
| `engine` | 2 calls, batches of up to 2 | 146 000 | answers fit, reports are off by what they overlap at most, every call is answered |
| `pipeline_code` | 1 delivery, 1 file, 2 records | *violated* | no record is ever analysed |
| `socket` | 3 sockets | 24 000 | never without a way back, no badge without a socket, reopens and knows it |
| `app` | 2 sockets, 3 results, list of 4, answers of 1 | 3 480 000 | no gap between REST answer and feed but the known one |
| `parser` | diffs of up to 5 lines, 2 files | 62 000 | order, identifiers, known losses, line numbers |
| `training` | 2 runs of 3 epochs, 3 values of F1 | 6 000 | the checkpoint is the run's best epoch, an export what was best when it was taken |

**Why the bounds are enough.** They are the smallest with which every case of the
code occurs. *Hub*: with channels of one, every channel is full and empty in turn;
two clients let one be dropped while the other is served, both before and after
it in the range; three messages put one in a client's channel, one in Run's
hands and one in `broadcast`. A client connects once: a second connection is
a new client. *Gateway*: with channels of one, the second result already meets
a full channel, a full client and the lock cycle; one REST handler can hold the
store's lock at every point of the callback. *Bridge*: three records make batches in which the first, a middle
or the last one fails; two lives suffice for a redelivery, and the proofs cover
all numbers. *Store*: three results and lists of two make ties, cut lists and
arrays that move with and without room to spare. *Engine*: two calls meet at the
mutex, a batch of two can fail at its second snippet. *Ingestion*: two deliveries
interleave at every step, two files put a failure before or after a success.
*Socket*: a current socket, one that is closing and one that a forgotten timer has
opened; more timers than two behave as two. *App*: an answer of one is cut from
the second result on, three results put one before the answer, one
between answer and arrival and one after, and a list of four overflows only
with demo items. *DiffParser*: five lines are enough for
two hunks, context before an added line, a function after a plain line and a
trimmed end, functions of one and of two lines that are too small. The remaining counters (results, runs, calls) only
repeat what has been seen.

**Deadlock** is checked in `store`, `engine`, `ingestion`, `pipeline_code`,
`socket` and `app`. It is not in `hub_*` and `gateway`, whose lock cycle is a deadlock of the
code (`hub_stuck`), nor where the system really ends: `bridge` (down, no life
left), `parser` (the diff ends) and `training` (no run left).

**Fairness.** Weak fairness of a goroutine's, task's or thread's steps is what
Go's and tokio's schedulers, the OS and the browser's event loop give. It is
assumed per goroutine and never of the environment: signals, new results, new
connections, disconnections, broker and engine may all stop for ever. Where a
property needs more, the assumption is its premise: `Delivered` holds if peers
read (`PeersRead`), `EverySettled` if engine and broker answer (`OthersAnswer`;
strong fairness of a successful poll, as the errors of a broker may come in
between), `DeliveriesEnd` if handlers run, GitHub closes connections it no
longer waits for and a request that has gone out is answered some time or fails
(`HandlersRun`; the broker may be out of reach for ever), `Reopens` if the gateway is there. `Bridge` alone
takes it that the callback returns; `Gateway` does not: there it is fair only
goroutine by goroutine (`GatewayFair`: `Run`, the bridge's, main, the pumps, the REST
handlers with their `WriteTimeout`; a subscript there lists the variables of which each
step of that goroutine changes one, which says the same as all variables and is cheaper
to check), and `AnsweredIsServed` and
`BroadcastReturnsOrCycle` are what becomes of that. In `Store`,
fairness of `WriteTimeout` is the server's `WriteTimeout` (`main.go:101`); `Add`
is taken once readers are out because a waiting writer keeps new ones out.

## 4. What is proved

`GatewayProofs`, first part: the hub, for any set of clients, any capacities and any number
of messages (assumption: `HubAssumption`, capacities are positive):

* `TypeCorrect`, `RegisteredClientsAreOpen`, `NoPanicWhileServing`,
  `QueuesContinueTheFeed`, `NoClientBehind`: the five invariants of `hub_safe`.
* `HubImplementsFeed`: `Hub` implements `Feed` under `pos <- got` and
  `state <- FeedState` (new until in the map, live until the write pump stops).
* `LockCycleIsForever`: once `Run` waits for the write lock and `Broadcast`, with
  the read lock, for a full channel, no step of anyone ends it.

None of the properties is inductive alone. `HubInv` adds what the goroutines know
of each other: a client Run is about to add is fresh, its handler served and its
write pump running (`RegistrationInv`); a client Run is about to drop is in the
map unless `Close` has run, the reason why a panic needs `closed` (`KickInv`);
messages are consecutive from the last one Run took, through the channel, to
the one the bridge holds (`ChannelInv`); no queue is ahead of Run (`QueueInv`).
Each conjunct has a lemma with one step per action. The refinement uses
`ChannelInv` and `FeedConsecutive`: what a pump writes is the successor of what it
wrote last and is stored. The lock cycle needs one more fact, `ReaderInv`: the
bridge sends only with the read lock held.

`BridgeProofs`, for any number of records and lives (`BridgeAssumption`):

* `TypeCorrect`, `NothingElseIsLost`, `IdsAreInOrder`, `RepeatsAreRedeliveries`:
  the invariants and the action property of `bridge`.
* `BridgeImplementsConsumption`: the settled records are a prefix, commits stay in
  it, nothing goes back.

`BridgeInv` orders the offsets, committed <= committable <= done <= fetched
(`OrderInv`), ties the counter to results and their offsets (`CounterInv`,
`ResultInv`, `DenseInv`), and accounts for every record with code that has no
result (`LossInv`): it failed, was discarded, or was refused by the cancelled
context and is then beyond what can be committed, because the loop does not
poll again after the cancel. That last clause is why a shutdown in the middle of a
batch loses nothing.

`GatewayProofs`, second part: the gateway, from the assumptions of hub, bridge and store:

* `GatewayIsHub`, `GatewayIsBridge`, `GatewayIsStore`: a behaviour of the gateway is one
  of each of its three components. Every step is a step of the component or leaves its
  variables alone; so what is proved of the parts holds in the whole, the deadlock
  included. `GatewayServesFeed` is the case in point: the gateway implements `Feed`.
  For hub and store this takes `CallbackInv`, which says where the bridge's goroutine is in
  all three at once: the counter it passes on is the number that comes next in the store
  with a result in hand, and the hub's latest otherwise. It does not compare what the
  components count, as only the bridge does; it is what makes the gateway's steps theirs.
* `FeedIsServed`: `FeedIsFetchable`. `GotInv` adds that nothing is written to a client
  before Run has taken it.
* `CommittedResultsAreServed`: `CommittableIsServed`, the offset the client may commit behind
  the loop never passes a record whose result the store cannot serve. `OffsetInv` orders the
  offsets; `ServedInv` says that a record the loop is done with failed, or has a result with
  an index entry, or was refused after the cancel; and that these last ones stay beyond
  what can be committed, because the loop does not poll again.

`StoreProofs`, for any limit of the list, any growth of the slice and any requests:

* `TypeCorrect`, `IndexAgrees`: the invariants of `store`. The argument is `MemoryInv`: the
  pointer of ID i leads to index i of some array, old or current, and the element there
  equals the current one. `append` writes only behind `slice.len`, or to a
  new array, so neither kind of append changes an element a pointer leads to.
* `StoreImplementsArchive`: an answer is made from the current array with the read
  lock held, and what `HandleGet` finds by its pointer is in it.

`IngestionProofs`, for any deliveries and pushes of any length:

* `FilesInOrder`: `TopicInv` ties every record to a snippet its handler has gone past, or is
  about to count; the one that is sent next is therefore later than all of them.
* `CountsAreBacked`: `CountsArePublished`. A handler between ProduceSync and the counter
  has one message more at the broker than it has counted (`BackedInv`), and the producer's
  count is the number of pairs of a delivery and a message counted for it (`Counted`): the
  step that counts adds one pair.
* `TypeCorrect`: types, with a publish loop within its snippets (`LimitInv`) and a published
  number within what the loop has gone past (`AnswerInv`).
* `NobodyIsCutOff`: `GracefulShutdown`, with the total still unset before the shutdown.
* `PipelineIsIngestion`: a behaviour of `Pipeline` is one of `Ingestion`, so all of this
  holds with a gateway at the other end of the topic.
* `NothingIsAnalysed`: in `Pipeline` there is never a result. No
  record at the broker has code (`RecordsAreEmpty`), so the bridge's loop is never where it
  calls the engine (`BarrenInv`). It is the other side of the violated
  run `pipeline_code`: there one behaviour without a result is found, here there is no other.

`EngineProofs`, for any finite set of calls and any batches (`EngineAssumption`; finite,
as tokio's pool of blocking threads is, because the account counts calls):

* `EveryAnswerFits`: `ProgressInv`, a call has the predictions of its first snippets.
* `ChecksAreOffByOverlap`: `CountInv` is the account. `predictions` plus the calls that still owe
  to it equals `latency` plus the calls that owe to that; only a call at "stats" owes.
  `HealthInv` compares both counters with what the session has made: neither what one load
  has seen nor what the other will see is behind it by more than the overlap.

`SocketProofs` (`AWayBack`, `BadgeIsTrue`, `TypeCorrect`) and `AppProofs`
(`NothingElseIsMissing`), for any number of sockets and, for the list, any lengths of list
and answer. `NoGap` needs `CoveringInv` (a socket counts only from its registration
until it closes), `SnapshotInv` (the answer on its way is the newest results of
its moment) and `PendingInv` (an empty answer replaces nothing, `App.tsx:24`).

`EngineProofs`, for any number of runs and epochs and any scores of `Training`:

* `CheckpointIsBest`: `BestOfRun`. No epoch of the run has a greater F1 than `best_f1`
  (`ScoreInv`), and what is saved, or being saved, is the first epoch that had it
  (`BestInv`), through saves that are torn, crashes and the next run's start from nothing.
  What an export has loaded or written was best when it was saved (`PickedInv`), whatever the
  run has saved since.

`DiffParserProofs`, for diffs of any length over any number of files:

* `ParserKeepsOrder`, `ParserLosesKnown`, `ParserNumbers`, `ParserIdentifies`: the four
  invariants of `parser`.

The first part is about sequences: what `FlattenSeq` of sequences with at most one
element each selects, and in which order (`SelectFacts`), by induction on the length.
The second is about the snippets of one hunk (`Pieces`): they are pieces of it one
behind the other, and a line in none of them is blank, in a function too small or before
the first one. For the latter the last start before a line is taken: its function
reaches the line. The third is the invariant, `ParserInv`, which a run can check as well:
hunks and files come one after the other (`RowInv`); the hunk being read has exactly the lines
to be collected, counted from its first number on unless one is skipped, and never beyond
the number of the next line (`CurrentInv`); the snippets of the hunks before are taken
in order, start at smaller numbers than this hunk or are of earlier files, and account for
all lines of these hunks (`SnippetInv`). The identifiers are unique for that reason alone:
numbers may be too low, but a hunk never counts beyond the number of its last line.

The induction needs no library theorem that takes an operator: `Induct`, about sets of
natural numbers that have 0 and every successor, follows from the least element of the
complement (`WFMin`), and a recursive function is unfolded one index at a time.

**Only model-checked**: the liveness properties (`BroadcastReturns` and the others of
`gateway`, `EverySettled`, `LockIsGranted`, `CallsAnswered`, `DeliveriesEnd`, `ShutdownEnds`,
`Reopens`), because fairness and ENABLED are out of the prover's reach. Every invariant and
every action property that a run checks is also a theorem.

## 5. Where code and documents part

Two runs show a statement of the repository violated:

* `hub_stuck` - `Broadcast` sends on a bounded channel with the read lock held
  (`hub.go:85-90`). If the channel is full when Run takes a registration, an
  unregistration or a full client, Run waits for the write lock and the bridge for
  Run, for ever; the bridge consumes nothing more and `bridge.Stop` does not
  return. `hub.go:84` says "Broadcast sends a message to all connected clients."
* `pipeline_code` - ingestion publishes every snippet with an empty code
  (`handler.go:199`: "Will be enriched by gateway via GitHub API"), the gateway
  has no such step, and `processRecord` returns on an empty code
  (`bridge.go:154-158`): with nothing failing, no record comes to a result.

Elsewhere the checked property is the statement the code does keep, with the
exception named in it:

* `PanicOnlyAfterClose`: `Close` between `RUnlock` and `Lock` of a drop
  (`hub.go:71-73`) leads to a second `close`, a panic during the shutdown.
* `LossOnlyByFailure`: a failed `Predict` (`bridge.go:169`) or a poll that brings
  an error with its records (134-139) loses them; the next poll commits them.
* `CallsAnswered` covers a poisoned session, whose calls are all answered with an
  error; `health_check` still says SERVING, a constant (`inference/src/main.rs:158`).
* `ReportIsOffByOverlap`: a health check may report an average of a total and a latency of
  different moments (`engine.rs:173-174`), off by no more than the predictions it overlaps.
* `Reopens` says "again and again" because a connection does not stay: `onopen`
  makes App render, the render renews `connect`, and the effect closes the socket
  that has just opened (`App.tsx:37`, `useWebSocket.ts:65-73`).
* `NoGap`: a REST answer replaces the list (`App.tsx:25`), and with it the results
  that were stored after it was given and came by the feed before it arrived; they
  stay away until the page is loaded again. The list also loses what it pushes
  off its end (`App.tsx:38`).
* `LossIsKnown`: added lines before the first function of a hunk (`parser.go:207`),
  functions of less than ten characters (216) and lines that start with "++" (173) are in
  no snippet.
* `NumbersFromAbove`: context lines are not counted (`parser.go:221`), so numbers may
  be too low, and never too high. The identifiers made of them are unique all the
  same (`UniqueIDs`, `parser.go:234`).
* `BestOfRun` requires a positive F1: without one nothing is saved (`train.py:197`),
  and the export takes an earlier run's checkpoint or, if there is none, the
  untrained base model (`export_onnx.py:39-43`).

## 6. What is not modelled

* `/health`, `/metrics`, CORS, configuration and logging of the gateway;
  `inference/src/health.rs`: constants.
* The generated gRPC code and the message fields: data. What calls do is in
  `Bridge` and `Engine`.
* Tokenization, tensors and softmax; the optimisation and the data set: the
  arithmetic of one prediction or one training step.
* `AnomalyFeed`, `DiffViewer`, `MetricsPanel`: pure functions of App's list.
* `evaluate.py`, `download_devign.py`: scripts whose only state is their output.
* Memory: the store never forgets a result (`store.go:59`), and the model bounds how
  many there are.
* Images, ports and jobs of the deployment.
* Several partitions: each is consumed in order, and the bridge keeps no state
  across records but the counter. Rebalances: one gateway is deployed.
* The write deadlines and pings a WebSocket server might have: the code sets none, so a
  peer that does not read blocks its write pump until the connection breaks.

## 7. Plan

Done in this order, the most important first: hub with its feed and its proofs,
bridge with its proofs, store, ingestion, their composition, engine, dashboard,
parser, training, the gateway as a whole; then the proofs of the gateway, the store, the
list, the connection, the engine, ingestion, the checkpoint, the pipeline and the parser.
Left: what is proved of bridge and store, stated of the gateway itself as is done for the hub
(`GatewayServesFeed`); it follows from `GatewayIsBridge` and `GatewayIsStore`, but the
theorems are in modules of their own.
