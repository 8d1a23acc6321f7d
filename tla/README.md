# node-rdkafka in TLA+

TLA+ models, TLC configurations and TLAPS proofs about node-rdkafka, the
Node.js binding of librdkafka. Paths are relative to the repository; line
numbers refer to the commit the models were written from. `PROJECT.json` maps
each definition to the lines it models and lists runs, hazards and theorems.

## The system

JavaScript objects (`lib/`) own native objects (`src/`), which own one
librdkafka client each. The JavaScript thread runs every callback and every
synchronous call; libuv's pool (4 threads by default) runs the jobs that
`Nan::AsyncQueueWorker` queues, and the consume loop has a thread of its own.
Native code reaches JavaScript through the completion of a job or through a
`uv_async_t`, whose sends coalesce.

| Component | State | Operations and interactions | What makes it correct |
|---|---|---|---|
| Native handle (`connection.cc`, `common.h`) | `m_client`, `m_is_closing`, `m_connection_lock`, `m_init_oauthToken` | used by every native operation, on the JavaScript thread and on pool threads; Connect and Disconnect jobs change it | nobody is inside librdkafka on a deleted client; no client is leaked; a disconnect ends |
| Native producer (`producer.cc`) | the handle, the two dispatchers | produce, poll (JavaScript thread), flush, transactions (pool) | as above; dispatchers active exactly while connected |
| Native consumer (`kafka-consumer.cc`) | the handle, `m_partitions`, `m_is_subscribed`, `m_consume_loop` | assign and unassign (also inside a rebalance while `close()` waits), commit, seek, consume | assignment bookkeeping agrees with librdkafka; closing neither deadlocks nor is cut short |
| Dispatchers (`callbacks.cc`) | queue, `uv_async_t`, registered callbacks | librdkafka's threads add, the JavaScript thread flushes in batches | no lost wake-up, no loss, no duplicate, order per thread |
| Client (`lib/client.js`) | `_isConnected`, `_isConnecting`, `_isDisconnecting` | connect, disconnect, fail with a 10 s timer; queues native jobs | each callback runs exactly once and tells the truth; flags agree with the native client |
| Producer (`lib/producer.js`) | `pollInterval` | disconnect = flush + disconnect; poll interval | polls exactly while wanted and connected |
| High-level producer (`lib/producer/high-level-producer.js`) | message ids, `pollingRef`, listeners | produce with serializers, delivery callbacks | each produce calls back once; polling stops when nothing is owed |
| Workers (`workers.cc`, `workers.h`) | message queue of the consume loop | consume loop, consume N, connect, disconnect | every message is handed over once, in order |
| Consumer (`lib/kafka-consumer.js`) | rebalance and commit callbacks | consume, eof events | events at the right place between messages |
| Streams (`lib/*-stream.js`) | buffered messages, `destroyed` | read or write with retries, close | each write calls back once; close always ends |
| Admin client (`admin.cc`, `lib/admin.js`) | its client and queue | synchronous connect, topic jobs with a polled timeout | one client; total time within the timeout |

Hard behaviours: jobs on pool threads that overlap synchronous calls; checks
made before a lock is taken; coalesced wake-ups; a timer that races a native
callback; calls made while an earlier one is still failing; state left over by
one connection and met by the next. The 40 places are listed under `hazards`
in `PROJECT.json`, with the properties that cover them.

## Modules

### NativeHandle

One native Connection object. State: the fields above, the set `live` of
clients that exist, the lock's holders, and for each thread the operation it
executes (`op`), its place (`pc`) and the client pointer it has loaded
(`loc`). `pc = "use"` (or `"close"`) means *executing inside librdkafka on
`loc`*. A step is one access to shared memory, one lock operation, or the
start or end of a librdkafka call; the C++ reads `m_client` and
`m_is_closing` without synchronisation, so no larger step would be faithful.

| Actions | Code |
|---|---|
| `GuardedCheck/Lock/Recheck`, `Load`, `UseReturns` | operations that test, lock and test again: GetMetadata, QueryWatermarkOffsets, OffsetsForTimes, CreateTopic, Produce, Flush, Consume, GetWatermarkOffsets |
| `UnlockedCheck`, `Load`, `UseReturns` | operations with one test and no lock: Poll (`op = "poll"`, JavaScript thread only), Name, transactions, the consumer's synchronous operations |
| `OffsetsOp` | what `sendOffsetsToTransaction` does with the client of its *consumer*, a second handle: neither test nor lock. Its use of its own client is an `UnlockedOp` |
| `TokenLoad/Lock/Keep` | `NodeSetToken`, which loads `m_client` before it locks |
| `Connect*`, `Create*` | `Producer::Connect` and `KafkaConsumer::Connect` (read lock in one, write lock in the other); the consumer's unlocked `resume` is the branch of `Created` to `Load` |
| `DisconnectCheck` ... `ClearClosing` | both `Disconnect`s; `delete` and the assignment of `NULL` are two steps |

`role` selects the subclass. With `Serial = TRUE` callers run one Connect or
Disconnect job at a time, which `ClientLifecycle!SerialJobs` shows of
JavaScript callers that wait for their callbacks.

Run `native_handle` (one JavaScript thread, two pool threads, two client
addresses, both subclasses, all operations; 366,898 states):
- `HandleInv`: types, lock discipline, `m_client` dangles only inside
  Disconnect's critical section, no *locked* operation is on a deleted client;
- `GuardedUseLive`: with serial jobs it is never on `NULL` either;
- `NoLeak`: with serial jobs every existing client is `m_client`;
- `OnlyDisconnectEndangers`: an *unlocked* operation is on a dead client only
  if a Disconnect job overlapped it, or if it is the use of a consumer without
  a client by `sendOffsetsToTransaction`. This is the exact obligation the
  native code leaves to its callers: keep unlocked operations on a handle apart
  from its `disconnect()`, and name connected consumers only;
- `DisconnectEnds`: a consumer's Disconnect reaches `close()`, i.e. gets the
  write lock, because `m_is_closing` turns new readers away; and it ends once
  `close()` has returned. Whether `close()` returns is not assumed here: it waits
  for JavaScript, and `ConsumerSession` says when it does not. Proviso: the
  JavaScript thread does not call setToken for ever (it does not test the flag).

Two pool threads are enough for a Disconnect, a second user of the lock and
the JavaScript thread to meet; two addresses suffice because `Create` never
returns an address a thread still remembers.

Run `native_poll` (expected violation of `PollUseLive`): a poll on the
JavaScript thread is inside librdkafka while a Disconnect job deletes the
client, although the poll interval is documented to handle disconnections.

### ReportChannel and DeliveryReports

`ReportChannel` is the promise: reports become ready, each is handed to
JavaScript at most once, and waiting reports are given up only when the client
is deleted. `DeliveryReports` is the code: `Delivery::dr_cb` on the JavaScript
thread (poll) and on pool threads (flush), the queue, the coalescing
`uv_async_t`, `Flush` in batches with its re-arming `Execute`, `Activate` and
`Deactivate`. A report is its number in librdkafka's order. `rk` is
librdkafka's queue; a thread in `dr_cb` is at `pc = "add"` or `"send"`;
`dpc`, `batch` and `more` are `Flush`'s place and locals. That dr_cb is only
configured with registered callbacks (`HasCallbacks`) while a client exists is
taken from `ClientLifecycle`; that no poll is running when the client is
deleted is an assumption here and the subject of `native_poll`.

Run `delivery` (one flushing thread, batches of 2, 4 reports; 17,982 states):
`NoLostWakeup` and its inductive form `DispatchInv`, `PerThreadOrder`,
`ReportsReachJS` (a report taken over while connected is received, or a
disconnect begins), and `KeepsPromise`, the refinement of `ReportChannel`
under the mapping given with `INSTANCE`. Four reports with batches of two give
a full batch, a full batch and one, and two full batches; the code's 100 is
only the constant `Batch`.

Run `delivery_reconnect` (expected violation of `NoReportStranded`): a
disconnect that finds reports in the queue leaves them there, and as dr_cb
only wakes JavaScript for the *first* report of a queue, no report is ever
emitted on the next connection. The history variable `stranded` keeps this
case apart in the other properties.

### ClientLifecycle

`Client.prototype.connect`, its `fail`, `Client.prototype.disconnect` and
`Producer.prototype.disconnect`, with the native jobs Connect, GetMetadata,
Flush and Disconnect. A call is a number, with at most one job at a time
(`job`, `stage`: queued, executed with a result, called back). Jobs execute and
finish in any order: the pool has several threads, and a thread may be
preempted between its work and the report of its completion. Connect is two
steps (test, create), as another job may come between. `fail`'s cleanup job
goes on after its timer has answered. User code that calls from inside a
callback or an event is a call right after it: each handler emits after it has
set the flags that `connect` and `disconnect` read. `getMetadata`'s
synchronous error is left out, for `_isConnected` has just been set.

`style` distinguishes *patient* callers, who call only when every earlier
callback has come, from *eager* ones. `gaveUp` remembers that a timer of
`fail` fired, `overlapped` that a connection attempt and a native Disconnect
were in flight together.

Run `lifecycle` (both subclasses and styles, 4 calls: a failed attempt, a
retry, a disconnect and one more; 88,777 states): `AnsweredOnce` for every
caller; `SerialJobs`, `NoClientLeak`, `AnswersAreTrue`, `CallsEnd` for patient
ones; `ConnectedMeansClient`: at rest, "connected" means a client with active
dispatchers unless an attempt met a Disconnect job, which for a patient caller
takes the timer. Deadlock is not checked in this module's runs: a program may
stop calling, and the number of calls is bounded.

Runs `lifecycle_callback` and `lifecycle_twice` (expected violations): the
callback of a `connect()` made during another one that fails is never called;
after a failed attempt and a retry every callback is registered twice.

### ConsumerSession

A consumer from Connect to Disconnect: the Connect and Disconnect jobs on the
pool, the consume loop on its own thread, a `consume(n)` job, and the
JavaScript thread, which answers rebalances and makes calls of its own. The
core is the handshake of `close()`: the Disconnect job holds the write lock
inside `consumer->close()`, which revokes what is assigned and returns only when
JavaScript has answered, through the rebalance dispatcher and `rebalance_cb`,
with calls that take no lock.

| Actions | Code |
|---|---|
| `Reader*` | `ConsumeLoop`'s loop, `KafkaConsumer::Consume` with its two tests around the read lock |
| `StartLoop`, `StartBatch`, `CallConnect`, `CallDisconnect`, `Joined` | `NodeConsumeLoop`, `NodeConsume`, `NodeConnect`, `NodeDisconnect`, which joins the loop's thread on the JavaScript thread |
| `Assignments`, `WaitForLock`, `GotLock` | `assignments()`; `setToken()` and `getWatermarkOffsets()`, which block the JavaScript thread on the lock |
| `Flush`, `Choose`, `AssignTest`, `UnassignTest`, `UnassignRetest`, `Call`, `CallRefused` | `RebalanceDispatcher::Flush`, `rebalance_cb`, the tests of the four assign calls (Unassign's condition is two reads of `m_is_closing`), and the call, which librdkafka takes with what that does to `m_partitions`, or refuses, in which case `rebalance_cb` swallows the error |
| `Connect` ... `Disconnected` | the jobs and their callbacks, which activate and deactivate the dispatcher |
| `Offer`, `CloseRevokes`, `Offers` | librdkafka: one rebalance at a time, eager, cooperative, or carried out by itself when there is no `rebalance_cb` |

The caller connects and disconnects as `ClientLifecycle`'s patient one does.

Run `consumer_session` (two partitions, two sessions, two rebalances outside
`close()`, one call that wants the lock; 287,918 states):
- `SessionInv`: types, lock, and which client, flag, dispatcher, event and loop
  go with each place of the jobs;
- `HandlerOnLiveClient`: the lock-free answers find the client alive, and no
  event is left for the next session;
- `AssignmentAgrees`: `m_partitions` is librdkafka's assignment, so that a
  later Connect resumes nothing. It holds with a `rebalance_cb`, and unless an
  assign call entered librdkafka inside `close()`, where the bookkeeping depends
  on which error librdkafka returns;
- `RefusedOnlyAfterError`: "Consume was already called" without a loop means an
  error of the loop, or a start behind `disconnect()`;
- `AnswerIsComing`: librdkafka never waits for an answer that nobody is about to
  give: the event is queued with its wake-up or the handler is at it. Only while
  closing may it have been refused, by one of the tests or, when a cooperative
  group gets `unassign`, by librdkafka (`misfit`); at any time, if librdkafka
  refuses a call of the group's own protocol (`refused`: the code swallows such
  an error, whatever its reason);
- `CloseEnds`: a disconnect ends, except in two waits that it names. In
  `Standoff` the JavaScript thread waits for the lock that `close()` holds while
  `close()` waits for the JavaScript thread. In `Unanswered` the answer was
  refused: an *assign* that reaches JavaScript after closing has begun
  (Assign wants a connected consumer); an unassign whose two tests closing
  fell between; the unassign of a cooperative group whose handler asks
  `rebalanceProtocol()`, which answers NONE, after `m_is_closing` is set and
  whose call comes before `close()` begins; or a call that librdkafka refuses for
  a reason of its own. Inside `close()` librdkafka takes every call of the
  family for an unassign;
- `JoinEnds`: joining the loop's thread does not block JavaScript for ever.

Two partitions let a cooperative rebalance revoke one and keep the other, two
rebalances give an assignment and its revocation before `close()`'s own, and
the second session meets what the first leaves.

### Consume

The way of what is read to JavaScript, in both modes. Flowing: the loop's
thread queues messages and warnings and signals (`MessageWorker`);
`WorkMessage` takes both queues and hands over messages, then warnings;
`NodeDisconnect` stops, joins and destroys. Non-flowing: `consume(n)` collects
messages and eof events, `HandleOKCallback` splits them into two arrays, and
`_consumeNum` merges them again. Items are numbered in the order in which
`consume()` returned them; timeouts are no items.

| Actions | Code |
|---|---|
| `Start`, `Send`, `SendWarning`, `LoopFails`, `LoopEnds` | the loop's thread: `ConsumeLoop`, `Produce_`, `ProduceWarning_` |
| `WorkMessage`, `HandMessage`, `HandWarning`, `WorkMessageReturns` | `MessageWorker::WorkMessage`, one step per callback |
| `Disconnect`, `Joined` | `NodeDisconnect` with a consume loop |
| `ConsumeNum`, `Fetch`, `FetchFails`, `FetchEnds` | `KafkaConsumerConsumeNum::Execute`; `eofCount` is its `eof_event_count` |
| `OKCallback`, `ConvertMessage`, `ConvertEof`, `Converted`; `ErrorCallback` | `HandleOKCallback`, one step per item (`converted`, `returnArray`, `eofEvents`); `HandleErrorCallback` |
| `EmitEof`, `EmitMessage`, `EmitLast`, `Emitted` | `_consumeNum`'s callback, one step per event; `index` is the argument of `emitEofEventsFor`, `eofIndex` its `currentEofEventsIndex` |

Run `consume` (5 items, two loops, n up to 3; 614,790 states): `HandedInOrder`:
nothing is lost, repeated or reordered on the way, but a message may overtake a
warning found in the same batch, and while there is a callback, what is queued
has a wake-up on its way; `SentIsHanded`: what was queued is handed over unless
the user disconnects first; `EmittedAsFetched`: what is emitted is always a
beginning of what was fetched, all of it when the callback returns, and an error
throws no message away. A user who disconnects *inside* a handler (style "inside") leaves
`WorkMessage` with items and no callback, which it does not test
(`HandedWithCallback` has that proviso). Five items cover two messages and two
eof events or warnings in any order and one more, for the next loop or job.

### HighLevelProducer

`produce`, the reference counter and its 1 ms timer, delivery reports, and
`setPollInterval` with the listeners it leaves behind, over connections that
become ready, fail at the metadata request, or are disconnected. A report's way
to JavaScript, `DeliveryReports`' subject, is one step, `Emit`; a dispatcher that
is closed with reports in its queue emits no more (`stranded`, as there).

| Actions | Code |
|---|---|
| `Connected`, `Ready`, `MetadataFails`, `FailureDone` | `connect`: `_isConnected` is set when the native client is there, 'ready' comes with the metadata; between the two (`conn = "metadata"`) polls reach librdkafka and `setPollInterval` takes effect at once. `fail` clears the flag first and emits no 'disconnected' |
| `Disconnect`, `ClientDeleted`, `Disconnected` | `Producer.prototype.disconnect`, the native job, its callback |
| `UserSetsInterval` | `setPollInterval`; `interval` and `onReady` hold the *number* of the setting in force and of the last one that waits for 'ready' |
| `Produce`, `Serialized`, `SerializerFails`, `ThrownReported` | `_modifiedProduce` with serializers that answer at once, in a callback before they return, later, not at all, that fail or throw |
| `FastTick`, `OtherPoll`, `Emit`, `Answer` | the 1 ms timer; the poll interval and the flush of `disconnect()`; the listeners of `deliveryEmitter`; their `setImmediate` |

An asynchronous key serializer that calls back before it returns makes one
`produce()` call librdkafka twice under one message id: a message therefore has
two *copies*, and `listeners` counts the `once` listeners under its id.

Assumed: `disconnect()` is called after 'ready', and the native disconnect in
`fail` ends before its timer (the rest is `ClientLifecycle`'s subject); a
serializer answers at most once and never with `undefined`; the user's callbacks
do not throw. A `setPollInterval` inside a handler of 'ready' is a call made
just before it, in "metadata".

Run `highlevel` (two messages, two connections, two settings of the interval;
859,875 states):
- `PollsWhileOwed`: the counter equals the produce calls whose reports have not
  come, less the messages sent twice, which give back two references for the one
  taken (`ReturnedTwice`; the counter may reach -1). Failed calls and lost
  reports count for ever (`Unreturned`), so the timer may run with nothing owed.
  The timer runs exactly while the counter is positive, unless a poll without a
  connection has stopped it;
- `AnsweredOnce`: one answer per message, by a failure or by a report; two only
  when one serializer throws and the other fails afterwards, or when `doProduce`
  ran twice;
- `CallbackComes`: what librdkafka took is answered, unless the reports of all
  its copies are lost, the dispatcher is stranded or the timer was stopped in an
  earlier session, or a message sent twice gave back this one's reference, so
  that nothing polls for it;
- `IntervalAsAsked`: the interval in force or, before 'ready', the one that waits
  is the one asked for last, unless an older setting that was waiting overrides
  it (`overtaken`: the last one turned the interval off, or was made in
  "metadata") or 'disconnected' has turned it off (`dropped`).

Two messages give one whose reference the first session leaves over, or that
returns a reference twice, and one produced in the second; two settings beside
the constructor's give an older one that overrides a newer.

Run `poll_interval` (expected violation of `PollsOnInterval`): 'disconnected'
turns the interval off and no 'ready' turns it on again.

### Streams

Both stream wrappers between Node's stream machinery, of which the model keeps
the contract (one `_write`, `_writev` or `_read` at a time, `finish`, `end`), and a
client that connects, fails in either stage, or is disconnected meanwhile.
`conn` holds `Client`'s two flags: both are set between the native connection
and the metadata ("metadata"), where the reader and the writer differ because
`close()` tests them in opposite order. Listeners of 'ready' run one by one
(`todo`), for one may close the stream under the next.

Run `streams` (3 items, fetches of up to 2, two `close()` or `destroy()` calls;
17,023 states): `ProducedInOrder` and `PushedInOrder`: nothing twice, nothing
skipped, over full queues, cut batches, waits and fetches; `WriteAnswered` and
`CloseEnds`: a write is called back and `close()` emits 'close', except that a
`_writev` before the connection waits for an event the stream never emits, and
that what waits for a connection that fails waits for ever. Three items let a
batch be cut in the middle and a fetch leave a message behind.

## Fairness

`NativeHandle`: weak fairness of each thread's own steps (scheduling; the
librdkafka calls made with the lock held are local or have a timeout), except of
the return of `close()`, which waits for JavaScript; none of starting an operation.
`DeliveryReports`: a thread inside dr_cb goes on, and the event loop serves a
sent handle; nothing forces anyone to poll, flush, connect or disconnect.
`ClientLifecycle`: jobs are executed and called back, immediates run; no
fairness of calls or of the timer. That `close()` returns is assumed there and
examined in `ConsumerSession`.
`ConsumerSession`: jobs and threads run, `consume()` returns (it has a timeout),
the event loop serves its handle; no rebalance, message or call is forced.
`Consume`: the loop's thread ends when told, JavaScript serves its handle;
nothing need be read. `HighLevelProducer`: timers and immediates run, a message
is acknowledged (at the latest by `message.timeout.ms`), `disconnect()` and the
disconnect of a failed attempt end; serializers need not answer, and an attempt
to connect need not end. `Streams`: timers, immediates and listeners run, an
attempt to connect ends, and, strongly, a chunk retried for ever is taken
sometime (librdkafka's queue does not stay full).

## Proofs

All for every value of the constants that satisfies `ConstantsAssumption`.

`NativeHandleProofs`:
- `HandleSafe`: `Spec => []HandleInv`, without assuming serial jobs.
  `HandleInv` is itself inductive: a locked operation's pointer was loaded
  under the read lock (`GuardedInv` needs `LockInv`), a deletion happens under
  the write lock, and `ClientInv` says what a pointer loaded now can be.
  One lemma per class of operation, one step per action. `TypeCorrect`
  follows.
- `GuardedOperationsSafe` and `ClientsNotLeaked`: from `SerialInv`, which is
  inductive relative to `HandleInv`. It is needed because `IsConnected` is
  evaluated one or more steps before the pointer is used: `SerialInv` carries
  `client # NULL` from the second test to the load, and `client = NULL` from
  Connect's test to its assignment.
- `EndangeredByDisconnect`: `OnlyDisconnectEndangers`, with `OverlapInv`: a
  thread inside librdkafka is on the client of `m_client`, or on one it shared
  with a Disconnect job since, or is `sendOffsetsToTransaction` with no client at
  all. Who does not lock may also enter with a pointer loaded before; the job that
  deleted that client then overlaps.

`SequenceFacts` holds the lemmas about sequences that these proofs share.

`DeliveryReportsProofs`:
- `DispatchSafe`: `Spec => []DispatchInv`. `NoLostWakeup` is not inductive
  alone: `Send` and `FlushEnds` wake JavaScript only through an existing
  handle, so `LifetimeInv` (handle exactly while a session lasts; no dr_cb
  without a client; nothing signalled or being flushed without a handle) is
  needed. `WakeupsNotLost` follows.
- `OrderSafe`: `PerThreadOrder`, from `OnePlaceInv`. The reports handed over, the
  batch in hand and the queue, in this order, are one sequence (`Line`); taking a
  batch and handing a report over do not change it, and `Add` puts its report at
  the end. A report is in one place only: in `Line`, in librdkafka's queue, or
  with one thread inside `dr_cb`. So what a thread has added stands in `Line` in
  the order of adding, and what is handed over is the beginning of `Line`. The
  order is stated by positions (`InOrder`), which is what a proof can use.
- `Implements`: `Spec => KeepsPromise`, the refinement of `ReportChannel`. Its
  `waiting` is what is in librdkafka's queue, with a thread in `dr_cb`, in the
  queue or in the batch (`Waiting`). One lemma per group of actions: each step
  is a step of the channel or changes nothing there. `OnePlaceInv` is needed, for
  a report handed over must not be waiting in a second place.

`ConsumerSessionProofs`:
- `SessionSafe`: `Spec => []SessionInv`, the inductive invariant, one lemma per
  group of actions. `HandlerOnLiveClient` alone is not inductive: that the client
  is alive while a rebalance is outstanding needs `RebalanceInv` (an outstanding
  answer has a handler under way; nothing is outstanding without a client) and
  `JobInv` (the client exists exactly between Connect and `Closed`), and
  `Closed` is disabled by the outstanding answer. `LockInv` keeps readers out of
  `close()`; `LoopInv` keeps a registered loop from outliving its session.
  `HandlerSafe` and `RefusalSafe` follow.
- `AssignmentSafe`: `AssignmentAgrees`, inductive relative to `SessionInv`:
  `Closed` needs an empty assignment and `Connect` an empty `m_partitions`, and
  a `Call` inside `close()` can leave the two apart only by setting `late`.
- `AnswersCome`: `AnswerIsComing`, inductive relative to `SessionInv`: only the
  tests of the assign calls and librdkafka's refusals drop an answer, and for a
  call of the group's own protocol the tests do so only while closing: a handler
  that is at a call of the other protocol asked for it while closing
  (`RebalanceInv`).
  `CloseWaitsForJavaScript` follows, which is the part of `CloseEnds` that needs
  no fairness: `Standoff` and `Unanswered` are all the ways in which `close()`
  waits while JavaScript is neither answering nor about to be woken up.

`ClientLifecycleProofs`:
- `CallbacksOnce`, `PatientOwnsOneClient` and `PatientJobsSerial`, from
  `CallsInv`: a call is in at most one place that can answer it (a job, a
  waiting connection, an immediate), and only while it is owed an answer, which
  `CallOK` says of each call, so it cannot be answered from two; and of a patient caller only one call
  is owed (`OneOwed`), so the set of calls with jobs has at most one element
  until `fail()` gives up waiting.
- `PatientToldTheTruth`: `AnswersAreTrue`, an action property, relative to
  `CallsInv` and `FlagInv` (what `_isConnected` is while an immediate or a
  cleanup of `fail()` is due).
- `ConnectedIsGrounded`: `ConnectedMeansClient`, which speaks of moments at rest
  and is far from inductive. `GroundedInv` says what `_isConnected` rests on while
  jobs are under way, if no attempt met a Disconnect job so far: a client with
  active dispatchers, or a job whose callback will look at the flag again. That
  a patient caller's attempt meets one only after the timer follows from `OneOwed`.

`HighLevelProducerProofs`:
- `AnswersSafe`: `AnsweredOnce` from `MessagesInv`, which says of each message
  what its serializers, its callback and its copies have done: copies exist only
  if both serializers have answered and the callback had not been called
  (`SerializersInv`), and listeners, due answers and answers given add up
  (`ListenersInv`, `CopiesInv`).
- `PollingSafe`: `PollsWhileOwed` from `CounterInv`: the counter is a difference of
  two cardinalities, and the timer exists exactly while it is positive.
  `MessagesInv` is needed: the first report of a message finds as many listeners
  as copies were taken and a later one none, so `Emit` moves the message from
  `Unreturned`, or into `ReturnedTwice` as well, exactly as the counter moves.
- `IntervalSafe`: `IntervalAsAsked`, which is inductive as it stands, given types:
  the numbers of the settings and the two history variables say enough.

`StreamsProofs`:
- `PushesSafe`: `PushedInOrder` from `OrderInv` (what is pushed and held is what
  was fetched, in order) and `ReadInv`: a read under way is in one place (a
  'ready' listener, a fetch or a timer), "read" at most once among the listeners,
  so a push after EOF ends the only read there is.
- `WritesSafe`: `ProducedInOrder` from `ChunkInv` (the chunks produced, in hand
  and buffered are those written, in order; nothing is in hand when a call has
  succeeded), `WaitInv` (a write waits for 'ready' once, and only if it says so:
  a second listener would produce the chunk again) and `FlagInv` (types). What
  the slices of a batch make together is proved about sequences of any length.

`ConsumeProofs`:
- `HandedSafe`: `HandedInOrder`, from `LanesInv`. Messages (with eof events) and
  warnings go two ways to JavaScript. Each is a `Lane`: what has been handed over,
  what `WorkMessage` holds and what is queued follow one another, each in order.
  That alone does not bound who overtakes whom: what is queued must be later
  than all that `WorkMessage` has taken on *either* way, for it takes both queues
  under one lock. `WorkerInv` says what `WorkMessage` and `disconnect()` leave to
  each other (its local queues are empty unless they are being handed over) and that
  what is queued is signalled.
- `EmissionSafe`: `EmittedAsFetched`, from `ArraysInv` and `EmissionInv`. `Split`
  says where in `m_messages` an item of either array came from: an eof event
  stands behind `messageIndex + 1` messages and the eof events before it, a
  message behind the eof events with a smaller `messageIndex`. It is inductive
  along `HandleOKCallback`'s loop, and gives for every place `index`, `eofIndex`
  of `_consumeNum`'s callback that the next thing to emit is the next one
  fetched. `emitEofEventsFor(messages.length)` finds nothing, which is proved on
  the way. `FetchedInv` counts the eof events (`Cardinality`), for the bound n.

Every safety invariant, the action property `AnswersAreTrue` and the refinement
`KeepsPromise` that the runs check are thereby proved. Only model-checked are the
liveness properties (`ReportsReachJS`, `SentIsHanded`, `CallsEnd`, `DisconnectEnds`,
`CloseEnds`, `JoinEnds`, `CallbackComes`, `WriteAnswered`), since
fairness and ENABLED are beyond this proof system, and the five expected
violations, which are counterexamples.

## Not modelled

- librdkafka itself (it is the environment), V8 conversions and error tables,
  configuration objects, topics.
- The event and offset-commit dispatchers: the wake-up scheme of
  `DeliveryReports` without batches or a length test, and nobody waits for them.
- The admin client: synchronous calls and independent jobs.
- A user's own rebalance callback and explicit assign calls outside a rebalance;
  `m_is_subscribed`; the single-message consume worker, which `lib/` never calls.
- Transaction workers' reactivation of the dispatchers.
- A serializer that answers twice, answers and then throws, or answers
  `undefined`; user callbacks that throw.
- Streams with `autoClose: false`, and a `_write` of something that is no buffer.
- Memory-model effects of the unsynchronised reads beyond interleaving.
- `cpplint.py`, a vendored lint tool that is no part of the program, build, CI,
  benchmarks and examples.

## Plan

1. Proofs: as `CloseWaitsForJavaScript`, the parts of the other liveness properties
   that need no fairness: who is about to move wherever someone waits.
2. Transactions: the dispatchers' reactivation against a Disconnect, as an
   extension of `DeliveryReports`.
3. `AdminClient`: reconnection; `PollForEvent`'s arithmetic as an operator.

## Running

    tlc -workers 2 -config native_handle.cfg MCNativeHandle.tla
    tlapm NativeHandleProofs.tla

and so for every configuration and every `*Proofs` module.

Definitions commented "Plausible bug" are used by no specification: substituted
for the action after them, each makes one property fail (`mutants` in
`PROJECT.json`), which shows that the property can.
