--------------------------- MODULE ConsumerSession ---------------------------
(***************************************************************************)
(* A consumer from Connect to Disconnect (src/src/kafka-consumer.cc, its   *)
(* workers in src/src/workers.cc, rebalance_cb in lib/kafka-consumer.js).  *)
(* close() runs on a pool thread, under the write lock, and returns only   *)
(* when the JavaScript thread has answered every rebalance; the answers are*)
(* given without the lock.  Meanwhile the consume loop has a thread of its *)
(* own, consume(n) runs on the pool, and synchronous calls of the          *)
(* JavaScript thread may want the lock that close() holds.                 *)
(***************************************************************************)
EXTENDS Naturals, Sequences, FiniteSets

CONSTANTS Partitions,    \* partitions the group may give to this consumer
          Protocols,     \* "EAGER", "COOPERATIVE" (both with rebalance_cb: true)
                         \* and "AUTO" (no rebalance_cb: librdkafka answers)
          MaxSessions,   \* bound on the connections of one behaviour
          MaxRebalances, \* bound on the rebalances outside close()
          MaxWaits       \* bound on the calls of JavaScript that want the lock

Readers == {"loop", "batch"}  \* the consume loop; a consume(n) job
Kinds == {"assign", "revoke"}
None == "none"

ASSUME ConstantsAssumption ==
  /\ Protocols \subseteq {"EAGER", "COOPERATIVE", "AUTO"}
  /\ MaxSessions \in Nat
  /\ MaxRebalances \in Nat
  /\ MaxWaits \in Nat

VARIABLES
  protocol,
  client,      \* m_client # NULL
  closing,     \* m_is_closing
  readers,     \* who holds m_connection_lock for reading
  writer,      \* the Disconnect job holds it for writing
  parts,       \* m_partitions
  registered,  \* m_consume_loop # nullptr
  looping,     \* its m_looping
  rpc,         \* place of each reader; "off": no such thread or job
  job,         \* the Connect or Disconnect job and its place
  up,          \* the user has seen 'ready' and not yet 'disconnected'
  leaving,     \* _isDisconnecting
  async,       \* the rebalance dispatcher is active
  signal,      \* its async handle has a send not served yet
  events,      \* RebalanceDispatcher::m_events
  jpc,         \* place of the JavaScript thread
  event, op,   \* the rebalance it handles, the call it answers with
  owned,       \* librdkafka: this consumer's assignment
  awaiting,    \* librdkafka: the answer it waits for
  sessions, rebalances, waits,  \* counters for the bounds
  late,        \* history: an assign call reached librdkafka inside close()
  raced,       \* history: Unassign's two tests straddled the start of closing
  misfit,      \* history: librdkafka refused a call of the other protocol
  refused,     \* history: librdkafka refused a call of the group's protocol
  died,        \* history: the registered loop ended with an error
  stray        \* history: the registered loop began after disconnect()

flags == <<client, closing>>
lock == <<readers, writer>>
loop == <<registered, looping, rpc>>
wakeups == <<async, signal, events>>
handler == <<jpc, event, op>>
librdkafka == <<owned, awaiting>>
bounds == <<sessions, rebalances, waits>>
refusals == <<raced, misfit, refused>>
history == <<late, refusals, died, stray>>
vars == <<protocol, flags, lock, parts, loop, job, up, leaving, wakeups,
          handler, librdkafka, bounds, history>>

Job(kind, at) == [kind |-> kind, at |-> at]
NoJob == Job(None, None)
NoEvent == [kind |-> None, parts |-> {}]

Init ==
  /\ protocol \in Protocols
  /\ client = FALSE /\ closing = FALSE
  /\ readers = {} /\ writer = FALSE
  /\ parts = {}
  /\ registered = FALSE /\ looping = FALSE
  /\ rpc = [r \in Readers |-> "off"]
  /\ job = NoJob
  /\ up = FALSE /\ leaving = FALSE
  /\ async = FALSE /\ signal = FALSE /\ events = <<>>
  /\ jpc = "idle" /\ event = NoEvent /\ op = None
  /\ owned = {} /\ awaiting = None
  /\ sessions = 0 /\ rebalances = 0 /\ waits = 0
  /\ late = FALSE /\ raced = FALSE /\ misfit = FALSE /\ refused = FALSE
  /\ died = FALSE /\ stray = FALSE

IsConnected == ~closing /\ client
IsClosing == client /\ closing
Terminating == job = Job("disconnect", "close")
Idle == jpc = "idle"

-----------------------------------------------------------------------------
(* librdkafka (external): it offers one rebalance at a time, on the thread   *)
(* that serves it, and goes on when assign or unassign has been called.      *)

\* Rebalance::rebalance_cb: the event is queued and JavaScript is woken up.
Offer(kind, ps) ==
  /\ awaiting' = kind
  /\ events' = Append(events, [kind |-> kind, parts |-> ps])
  /\ signal' = (signal \/ async)
  /\ UNCHANGED <<owned, async>>

\* With "AUTO" librdkafka carries the rebalance out itself.
Rebalanced(kind, ps) ==
  IF protocol = "AUTO"
    THEN /\ owned' = IF kind = "assign" THEN ps ELSE {}
         /\ UNCHANGED <<awaiting, wakeups>>
    ELSE Offer(kind, ps)

\* What consume() may find: an eager group revokes all before it assigns.
Offers ==
  {e \in [kind : Kinds, parts : (SUBSET Partitions) \ {{}}] :
     IF protocol = "COOPERATIVE"
       THEN IF e.kind = "assign" THEN e.parts \cap owned = {} ELSE e.parts \subseteq owned
       ELSE IF e.kind = "assign" THEN owned = {} ELSE e.parts = owned}

-----------------------------------------------------------------------------
(* Threads inside KafkaConsumer::Consume: r is the loop or a consume(n) job. *)

\* The loop's own test and Consume's first one; a job has only the second.
ReaderTest(r) ==
  /\ rpc[r] = "test"
  /\ rpc' = [rpc EXCEPT ![r] =
               IF IsConnected /\ (r = "loop" => looping) THEN "lock" ELSE "off"]
  /\ UNCHANGED <<protocol, flags, lock, parts, registered, looping, job, up, leaving,
                 wakeups, handler, librdkafka, bounds, history>>

ReaderLock(r) ==
  /\ rpc[r] = "lock"
  /\ ~writer
  /\ readers' = readers \cup {r}
  /\ rpc' = [rpc EXCEPT ![r] = "retest"]
  /\ UNCHANGED <<protocol, flags, writer, parts, registered, looping, job, up, leaving,
                 wakeups, handler, librdkafka, bounds, history>>

\* Under the lock; ERR__STATE ends the loop (with an error) and the job.
ReaderRetest(r) ==
  /\ rpc[r] = "retest"
  /\ IF IsConnected
       THEN rpc' = [rpc EXCEPT ![r] = "consume"] /\ UNCHANGED readers
       ELSE rpc' = [rpc EXCEPT ![r] = "off"] /\ readers' = readers \ {r}
  /\ UNCHANGED <<protocol, flags, writer, parts, registered, looping, job, up, leaving,
                 wakeups, handler, librdkafka, bounds, history>>

\* librdkafka serves a rebalance inside consume(); the user subscribes once he
\* has seen 'ready'.
ReaderRebalanced(r) ==
  /\ rpc[r] = "consume"
  /\ up
  /\ awaiting = None
  /\ rebalances < MaxRebalances
  /\ rebalances' = rebalances + 1
  /\ \E e \in Offers : Rebalanced(e.kind, e.parts)
  /\ UNCHANGED <<protocol, flags, lock, parts, loop, job, up, leaving, handler,
                 sessions, waits, history>>

\* consume() returns a message or its timeout and the caller goes on, or
\* (again = FALSE) the job has enough, or an error ends the loop.
ReaderReturns(r, again) ==
  /\ rpc[r] = "consume"
  /\ readers' = readers \ {r}
  /\ rpc' = [rpc EXCEPT ![r] = IF again THEN "test" ELSE "off"]
  /\ died' = (died \/ (r = "loop" /\ ~again))
  /\ looping' = (looping /\ (r = "loop" => again))
  /\ UNCHANGED <<protocol, flags, writer, parts, registered, job, up, leaving, wakeups,
                 handler, librdkafka, bounds, late, refusals, stray>>

Reader(r) ==
  \/ ReaderTest(r) \/ ReaderLock(r) \/ ReaderRetest(r) \/ ReaderRebalanced(r)
  \/ \E again \in BOOLEAN : ReaderReturns(r, again)

-----------------------------------------------------------------------------
(* Calls of the user on the JavaScript thread, between its callbacks.        *)

\* consume(cb); it throws if a loop is registered or nothing is connected.
StartLoop ==
  /\ Idle /\ up
  /\ ~registered /\ IsConnected
  /\ registered' = TRUE
  /\ looping' = TRUE
  /\ rpc' = [rpc EXCEPT !["loop"] = "test"]
  /\ died' = FALSE
  /\ stray' = leaving
  /\ UNCHANGED <<protocol, flags, lock, parts, job, up, leaving, wakeups, handler,
                 librdkafka, bounds, late, refusals>>

\* consume(n, cb)
StartBatch ==
  /\ Idle /\ up
  /\ rpc["batch"] = "off"
  /\ rpc' = [rpc EXCEPT !["batch"] = "test"]
  /\ UNCHANGED <<protocol, flags, lock, parts, registered, looping, job, up, leaving,
                 wakeups, handler, librdkafka, bounds, history>>

\* assignments(): RefreshAssignments asks librdkafka.
Assignments ==
  /\ Idle /\ up /\ IsConnected
  /\ parts' = owned
  /\ UNCHANGED <<protocol, flags, lock, loop, job, up, leaving, wakeups, handler,
                 librdkafka, bounds, history>>

\* setToken(), which loads the client without a test of the flag and waits for
\* the write lock; getWatermarkOffsets(), which tests and waits for the read lock.
WaitForLock(call) ==
  /\ Idle /\ up
  /\ waits < MaxWaits
  /\ IF call = "token" THEN client ELSE IsConnected
  /\ waits' = waits + 1
  /\ jpc' = call
  /\ UNCHANGED <<protocol, flags, lock, parts, loop, job, up, leaving, wakeups, event, op,
                 librdkafka, sessions, rebalances, history>>

GotLock ==
  /\ jpc \in {"token", "watermark"}
  /\ ~writer
  /\ jpc = "token" => readers = {}
  /\ jpc' = "idle"
  /\ UNCHANGED <<protocol, flags, lock, parts, loop, job, up, leaving, wakeups, event, op,
                 librdkafka, bounds, history>>

\* connect()
CallConnect ==
  /\ Idle /\ ~up
  /\ job = NoJob
  /\ sessions < MaxSessions
  /\ sessions' = sessions + 1
  /\ job' = Job("connect", "queued")
  /\ UNCHANGED <<protocol, flags, lock, parts, loop, up, leaving, wakeups, handler,
                 librdkafka, rebalances, waits, history>>

\* Plausible bug: Close does not clear m_looping before it joins.
CallDisconnectKeepsLooping ==
  /\ Idle /\ up
  /\ ~leaving
  /\ leaving' = TRUE
  /\ IF registered
       THEN jpc' = "join" /\ UNCHANGED <<looping, job>>
       ELSE job' = Job("disconnect", "queued") /\ UNCHANGED <<looping, jpc>>
  /\ UNCHANGED <<protocol, flags, lock, parts, registered, rpc, up, wakeups, event, op,
                 librdkafka, bounds, history>>

\* disconnect(): NodeDisconnect ends the loop first, if there is one.
CallDisconnect ==
  /\ Idle /\ up
  /\ ~leaving
  /\ leaving' = TRUE
  /\ IF registered
       THEN looping' = FALSE /\ jpc' = "join" /\ UNCHANGED job
       ELSE job' = Job("disconnect", "queued") /\ UNCHANGED <<looping, jpc>>
  /\ UNCHANGED <<protocol, flags, lock, parts, registered, rpc, up, wakeups, event, op,
                 librdkafka, bounds, history>>

\* Plausible bug: m_consume_loop is not reset.
JoinedKeepsLoop ==
  /\ jpc = "join"
  /\ rpc["loop"] = "off"
  /\ jpc' = "idle"
  /\ job' = Job("disconnect", "queued")
  /\ died' = FALSE /\ stray' = FALSE
  /\ UNCHANGED <<protocol, flags, lock, parts, loop, up, leaving, wakeups, event, op,
                 librdkafka, bounds, late, refusals>>

Joined ==
  /\ jpc = "join"
  /\ rpc["loop"] = "off"
  /\ jpc' = "idle"
  /\ registered' = FALSE
  /\ job' = Job("disconnect", "queued")
  /\ died' = FALSE /\ stray' = FALSE
  /\ UNCHANGED <<protocol, flags, lock, parts, looping, rpc, up, leaving, wakeups, event, op,
                 librdkafka, bounds, late, refusals>>

UserCall ==
  \/ StartLoop \/ StartBatch \/ Assignments \/ CallConnect \/ CallDisconnect
  \/ \E call \in {"token", "watermark"} : WaitForLock(call)

-----------------------------------------------------------------------------
(* RebalanceDispatcher::Flush and rebalance_cb on the JavaScript thread.     *)

\* The event loop serves the handle; Flush takes the queue.  librdkafka offers
\* one rebalance at a time, so that there is one event (see SessionInv).
Flush ==
  /\ Idle
  /\ signal
  /\ signal' = FALSE
  /\ IF events = <<>>
       THEN UNCHANGED <<events, jpc, event>>
       ELSE event' = Head(events) /\ events' = <<>> /\ jpc' = "choose"
  /\ UNCHANGED <<protocol, flags, lock, parts, loop, job, up, leaving, async, op,
                 librdkafka, bounds, history>>

\* rebalanceProtocol() answers NONE to a consumer that is closing.
Choose ==
  /\ jpc = "choose"
  /\ LET incremental == IsConnected /\ protocol = "COOPERATIVE"
     IN  op' = IF event.kind = "assign"
                 THEN IF incremental THEN "incrementalAssign" ELSE "assign"
                 ELSE IF incremental THEN "incrementalUnassign" ELSE "unassign"
  /\ jpc' = "test"
  /\ UNCHANGED <<protocol, flags, lock, parts, loop, job, up, leaving, wakeups, event,
                 librdkafka, bounds, history>>

\* Assign and IncrementalAssign want a connected consumer; rebalance_cb
\* swallows what they throw.
AssignTest ==
  /\ jpc = "test"
  /\ event.kind = "assign"
  /\ jpc' = IF IsConnected THEN "call" ELSE "idle"
  /\ UNCHANGED <<protocol, flags, lock, parts, loop, job, up, leaving, wakeups, event, op,
                 librdkafka, bounds, history>>

\* Plausible bug: the unassign calls also want a connected consumer.
UnassignTestLikeAssign ==
  /\ jpc = "test"
  /\ event.kind = "revoke"
  /\ jpc' = IF IsConnected THEN "call" ELSE "idle"
  /\ UNCHANGED <<protocol, flags, lock, parts, loop, job, up, leaving, wakeups, event, op,
                 librdkafka, bounds, history>>

\* !IsClosing() && !IsConnected(): two reads of m_is_closing.
UnassignTest ==
  /\ jpc = "test"
  /\ event.kind = "revoke"
  /\ jpc' = IF IsClosing THEN "call" ELSE "retest"
  /\ UNCHANGED <<protocol, flags, lock, parts, loop, job, up, leaving, wakeups, event, op,
                 librdkafka, bounds, history>>

UnassignRetest ==
  /\ jpc = "retest"
  /\ jpc' = IF IsConnected THEN "call" ELSE "idle"
  /\ raced' = (raced \/ ~IsConnected)
  /\ UNCHANGED <<protocol, flags, lock, parts, loop, job, up, leaving, wakeups, event, op,
                 librdkafka, bounds, late, misfit, refused, died, stray>>

\* m_partitions after the call, if librdkafka accepts it.
PartsAfter ==
  CASE op = "assign"              -> event.parts
    [] op = "incrementalAssign"   -> parts \cup event.parts
    [] op = "incrementalUnassign" -> parts \ event.parts
    [] op = "unassign"            -> {}

\* The call belongs to the group's protocol.
Fits == (protocol = "COOPERATIVE") <=> (op \in {"incrementalAssign", "incrementalUnassign"})

\* librdkafka's assignment after a call it accepts (external): a terminating
\* consumer takes any of the four for unassign.
OwnedAfter ==
  IF Terminating THEN {} ELSE
    CASE op = "assign"              -> event.parts
      [] op = "incrementalAssign"   -> owned \cup event.parts
      [] op = "incrementalUnassign" -> owned \ event.parts
      [] op = "unassign"            -> {}

\* Plausible bug: m_partitions keeps what was unassigned.
CallKeepsPartitions ==
  /\ jpc = "call"
  /\ Terminating \/ Fits
  /\ jpc' = "idle"
  /\ awaiting' = None
  /\ owned' = OwnedAfter
  /\ parts' = IF event.kind = "revoke" THEN parts ELSE PartsAfter
  /\ late' = (late \/ (Terminating /\ op # "unassign"))
  /\ UNCHANGED <<protocol, flags, lock, loop, job, up, leaving, wakeups, event, op,
                 bounds, refusals, died, stray>>

\* librdkafka accepts the call; whether a terminating consumer reports an error
\* all the same is left open.
Call ==
  /\ jpc = "call"
  /\ Terminating \/ Fits
  /\ jpc' = "idle"
  /\ awaiting' = None
  /\ owned' = OwnedAfter
  /\ \/ parts' = PartsAfter
     \/ Terminating /\ op # "unassign" /\ parts' = parts
  /\ late' = (late \/ (Terminating /\ op # "unassign"))
  /\ UNCHANGED <<protocol, flags, lock, loop, job, up, leaving, wakeups, event, op,
                 bounds, refusals, died, stray>>

\* librdkafka refuses the call, m_partitions stays, rebalance_cb swallows the
\* error, and the rebalance goes on waiting.  It refuses every call of the other
\* protocol (ERR__STATE); why it might refuse one of its own is left open.
CallRefused ==
  /\ jpc = "call"
  /\ ~Terminating
  /\ jpc' = "idle"
  /\ misfit' = (misfit \/ ~Fits)
  /\ refused' = (refused \/ Fits)
  /\ UNCHANGED <<protocol, flags, lock, parts, loop, job, up, leaving, wakeups, event, op,
                 librdkafka, bounds, late, raced, died, stray>>

Handle ==
  \/ Flush \/ Choose \/ AssignTest \/ UnassignTest \/ UnassignRetest
  \/ Call \/ CallRefused

-----------------------------------------------------------------------------
(* The Connect and Disconnect jobs, and their callbacks.                     *)

\* KafkaConsumer::Connect; a new librdkafka consumer has no assignment, and
\* what m_partitions still holds is resumed.
Connect ==
  /\ job = Job("connect", "queued")
  /\ client' = TRUE
  /\ owned' = {} /\ awaiting' = None
  /\ job' = Job("connect", "done")
  /\ UNCHANGED <<protocol, closing, lock, parts, loop, up, leaving, wakeups, handler,
                 bounds, history>>

Connected ==
  /\ job = Job("connect", "done")
  /\ Idle
  /\ up' = TRUE
  /\ async' = TRUE
  /\ job' = NoJob
  /\ UNCHANGED <<protocol, flags, lock, parts, loop, leaving, signal, events, handler,
                 librdkafka, bounds, history>>

Disconnect ==
  /\ job = Job("disconnect", "queued")
  /\ closing' = IsConnected
  /\ job' = Job("disconnect", IF IsConnected THEN "lock" ELSE "done")
  /\ UNCHANGED <<protocol, client, lock, parts, loop, up, leaving, wakeups, handler,
                 librdkafka, bounds, history>>

DisconnectLock ==
  /\ job = Job("disconnect", "lock")
  /\ readers = {} /\ ~writer
  /\ writer' = TRUE
  /\ job' = Job("disconnect", "close")
  /\ UNCHANGED <<protocol, flags, readers, parts, loop, up, leaving, wakeups, handler,
                 librdkafka, bounds, history>>

\* close() (external) revokes what is assigned once no answer is outstanding.
CloseRevokes ==
  /\ Terminating
  /\ awaiting = None
  /\ owned # {}
  /\ Rebalanced("revoke", owned)
  /\ UNCHANGED <<protocol, flags, lock, parts, loop, job, up, leaving, handler, bounds, history>>

\* Plausible bug: the client is deleted without waiting for close().
CloseForgotten ==
  /\ Terminating
  /\ client' = FALSE
  /\ writer' = FALSE
  /\ job' = Job("disconnect", "clear")
  /\ UNCHANGED <<protocol, closing, readers, parts, loop, up, leaving, wakeups, handler,
                 librdkafka, bounds, history>>

\* close() has returned; the client is deleted, m_client is NULL.
Closed ==
  /\ Terminating
  /\ awaiting = None
  /\ owned = {}
  /\ client' = FALSE
  /\ writer' = FALSE
  /\ job' = Job("disconnect", "clear")
  /\ UNCHANGED <<protocol, closing, readers, parts, loop, up, leaving, wakeups, handler,
                 librdkafka, bounds, history>>

ClearClosing ==
  /\ job = Job("disconnect", "clear")
  /\ closing' = FALSE
  /\ job' = Job("disconnect", "done")
  /\ UNCHANGED <<protocol, client, lock, parts, loop, up, leaving, wakeups, handler,
                 librdkafka, bounds, history>>

\* DeactivateDispatchers; JavaScript's 'disconnected'.
Disconnected ==
  /\ job = Job("disconnect", "done")
  /\ Idle
  /\ up' = FALSE
  /\ leaving' = FALSE
  /\ async' = FALSE
  /\ signal' = FALSE
  /\ job' = NoJob
  /\ UNCHANGED <<protocol, flags, lock, parts, loop, events, handler, librdkafka,
                 bounds, history>>

JobStep ==
  \/ Connect \/ Connected
  \/ Disconnect \/ DisconnectLock \/ CloseRevokes \/ Closed \/ ClearClosing
  \/ Disconnected

-----------------------------------------------------------------------------
Next ==
  \/ UserCall
  \/ GotLock \/ Joined
  \/ Handle
  \/ JobStep
  \/ \E r \in Readers : Reader(r)

\* Jobs and threads run, librdkafka's calls return (consume by its timeout,
\* close when nothing is outstanding), the event loop serves its handle.  The
\* user need not call anything, and no message or rebalance need come.
Fairness ==
  /\ WF_vars(JobStep)
  /\ WF_vars(Handle)
  /\ WF_vars(GotLock) /\ WF_vars(Joined)
  /\ \A r \in Readers :
       /\ WF_vars(ReaderTest(r)) /\ WF_vars(ReaderLock(r)) /\ WF_vars(ReaderRetest(r))
       /\ WF_vars(\E again \in BOOLEAN : ReaderReturns(r, again))

Spec == Init /\ [][Next]_vars /\ Fairness

-----------------------------------------------------------------------------
Jobs ==
  {NoJob, Job("connect", "queued"), Job("connect", "done")}
    \cup {Job("disconnect", at) : at \in {"queued", "lock", "close", "clear", "done"}}

TypeOK ==
  /\ protocol \in Protocols
  /\ client \in BOOLEAN /\ closing \in BOOLEAN
  /\ readers \subseteq Readers /\ writer \in BOOLEAN
  /\ parts \subseteq Partitions /\ owned \subseteq Partitions
  /\ registered \in BOOLEAN /\ looping \in BOOLEAN
  /\ rpc \in [Readers -> {"off", "test", "lock", "retest", "consume"}]
  /\ job \in Jobs
  /\ up \in BOOLEAN /\ leaving \in BOOLEAN
  /\ async \in BOOLEAN /\ signal \in BOOLEAN
  /\ events \in Seq([kind : Kinds, parts : SUBSET Partitions])
  /\ jpc \in {"idle", "token", "watermark", "join", "choose", "test", "retest", "call"}
  /\ event \in [kind : Kinds, parts : SUBSET Partitions] \cup {NoEvent}
  /\ op \in {None, "assign", "unassign", "incrementalAssign", "incrementalUnassign"}
  /\ awaiting \in Kinds \cup {None}
  /\ sessions \in 0..MaxSessions /\ rebalances \in 0..MaxRebalances
  /\ waits \in 0..MaxWaits
  /\ late \in BOOLEAN /\ raced \in BOOLEAN /\ misfit \in BOOLEAN /\ refused \in BOOLEAN
  /\ died \in BOOLEAN /\ stray \in BOOLEAN

Handling == jpc \in {"choose", "test", "retest", "call"}

LockInv ==
  /\ readers = {r \in Readers : rpc[r] \in {"retest", "consume"}}
  /\ writer <=> Terminating
  /\ writer => readers = {}

\* Which client, flags and dispatcher go with each place of the jobs.
JobInv ==
  /\ client <=> \/ up /\ job.at \notin {"clear", "done"}
                \/ job = Job("connect", "done")
  /\ closing <=> job.kind = "disconnect" /\ job.at \in {"lock", "close", "clear"}
  /\ leaving <=> jpc = "join" \/ job.kind = "disconnect"
  /\ leaving => up
  /\ jpc = "join" => job = NoJob
  /\ job.kind = "connect" => ~up
  /\ async <=> up
  /\ \A r \in Readers : rpc[r] = "consume" => client

\* A rebalance waits for at most one handler, which is under way: queued with
\* its wake-up, or being run.  Without a client nothing is outstanding.  The
\* handler answers in the group's protocol unless the consumer is closing.
RebalanceInv ==
  /\ ~client => awaiting = None /\ owned = {}
  /\ awaiting # None => up
  /\ events # <<>> => /\ Len(events) = 1
                      /\ signal
                      /\ ~Handling
                      /\ awaiting = events[1].kind
  /\ Handling => event.kind = awaiting /\ awaiting # None
  /\ jpc \in {"test", "retest", "call"} =>
       (event.kind = "assign" <=> op \in {"assign", "incrementalAssign"})
  /\ jpc \in {"test", "retest", "call"} => op # None
  /\ jpc \in {"test", "retest", "call"} /\ ~Fits => closing

\* A loop begun before disconnect() is joined before the Disconnect job is
\* queued, and runs until then unless consume() fails.
LoopInv ==
  /\ ~registered => rpc["loop"] = "off"
  /\ registered /\ ~stray => up /\ job.kind # "disconnect"
  /\ registered /\ ~stray /\ ~died /\ jpc # "join" => looping /\ rpc["loop"] # "off"

SessionInv == TypeOK /\ LockInv /\ JobInv /\ RebalanceInv /\ LoopInv

\* The calls that answer a rebalance take no lock, although the Disconnect job
\* deletes the client on another thread; they find it alive because close()
\* waits for them (kafka-consumer.cc:106,185,208,230,250).  No event survives
\* the session it belongs to, to be answered in the next one.
HandlerOnLiveClient ==
  /\ Handling => client
  /\ events # <<>> => client

\* m_partitions is librdkafka's assignment, and so is empty without a client:
\* the next Connect resumes nothing of an earlier session
\* (kafka-consumer.cc:77,177-272).  Provisos: rebalance_cb is set, and no assign or
\* incremental call entered librdkafka after close() had begun.
AssignmentAgrees == protocol # "AUTO" /\ ~late => parts = owned

\* consume(cb) is refused with "Consume was already called" although no loop
\* runs (kafka-consumer.cc:1289) only to a user who started the loop after
\* disconnect(), or whose loop ended with an error.
RefusedOnlyAfterError ==
  up /\ ~leaving /\ registered /\ rpc["loop"] = "off" => died \/ stray

\* A rebalance the JavaScript thread cannot answer: it waits for the lock that
\* close() holds (connection.cc:267, kafka-consumer.cc:155).
Standoff ==
  jpc \in {"token", "watermark"} /\ Terminating /\ awaiting # None

\* An answer that will not come.  Assign refuses it, for the handler ran while
\* the consumer was closing (kafka-consumer.cc:178,223).  Or Unassign does,
\* whose two tests straddled the start of closing (kafka-consumer.cc:201,243).
\* Or librdkafka does: rebalanceProtocol() answers NONE while the consumer is
\* closing (kafka-consumer.cc:550), so that a cooperative group gets an
\* unassign, which it takes only once close() has begun; or for a reason of its
\* own.
Unanswered ==
  /\ Terminating /\ Idle /\ events = <<>>
  /\ \/ awaiting = "assign"
     \/ awaiting = "revoke" /\ (raced \/ misfit)
     \/ awaiting # None /\ refused

\* librdkafka never waits for an answer that nobody is about to give: the event
\* is queued and JavaScript woken up, or the handler is at it.  Only while the
\* consumer is closing may the answer have been refused, as an assign, or as an
\* unassign that closing overtook or that a cooperative group does not take
\* (kafka-consumer.cc:178,201,223,243,550; callbacks.cc:463-503); at any time,
\* if librdkafka refuses a call of its own protocol (kafka-consumer.cc:187,210,
\* 232,254), whose error rebalance_cb swallows.
AnswerIsComing ==
  awaiting # None =>
    \/ events # <<>> /\ signal
    \/ Handling
    \/ closing /\ (awaiting = "assign" \/ raced \/ misfit)
    \/ refused

\* disconnect() ends unless the JavaScript thread and close() wait for each
\* other or the answer close() waits for was refused.
CloseEnds == leaving ~> (~leaving \/ Standoff \/ Unanswered)

\* NodeDisconnect, which blocks the JavaScript thread, returns: the loop it
\* joins sees m_looping within one consume timeout (workers.cc:675,688).
JoinEnds == (jpc = "join") ~> (jpc # "join")
=============================================================================
