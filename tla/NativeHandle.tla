---------------------------- MODULE NativeHandle ----------------------------
(***************************************************************************)
(* The librdkafka client that one native Connection object owns            *)
(* (src/src/connection.cc, producer.cc, kafka-consumer.cc): the pointer    *)
(* m_client, the flag m_is_closing, the read/write lock m_connection_lock  *)
(* and the token kept for the first connection.  Operations run on the     *)
(* JavaScript thread and on the threads of libuv's pool.  An atomic step   *)
(* is one read or write of shared memory, one lock operation, or the       *)
(* beginning or the end of a call into librdkafka: a thread whose pc is    *)
(* "use" is executing inside librdkafka on the client in loc[t].           *)
(***************************************************************************)
EXTENDS FiniteSets

CONSTANTS Main,      \* the JavaScript thread
          Pool,      \* the threads of libuv's pool
          Handles,   \* addresses of RdKafka::Producer / KafkaConsumer objects
          Null,      \* NULL, and "no thread" for the writer of the lock
          Roles,     \* the subclasses examined, see role
          Ops,       \* the operations the callers start
          Serial     \* TRUE: callers run one Connect or Disconnect at a time

Threads == Pool \cup {Main}

\* The two jobs that change m_client.
Lifecycle == {"connect", "disconnect"}
\* Operations that use m_client: with the lock, or after a bare IsConnected().
\* NodePoll is of the second kind and runs on the JavaScript thread only.
Unlocked == {"unlocked", "poll"}
\* "offsets" is another producer's sendOffsetsToTransaction, which names this
\* consumer.
Kinds == Lifecycle \cup Unlocked \cup {"guarded", "setToken", "offsets"}

ASSUME ConstantsAssumption ==
  /\ Main \notin Pool
  /\ Null \notin Handles \cup Threads
  /\ Roles \subseteq {"producer", "consumer"}
  /\ Ops \subseteq Kinds
  /\ Serial \in BOOLEAN

VARIABLES role,        \* which subclass this object is; never changes
          client,      \* m_client
          closing,     \* m_is_closing
          token,       \* m_init_oauthToken is set
          live,        \* the clients created and not yet deleted
          readers,     \* threads holding m_connection_lock for reading
          writer,      \* the thread holding it for writing, or Null
          op, pc,      \* what each thread executes, and where it is in it
          loc,         \* the client pointer each thread has loaded
          overlapped   \* history: threads whose operation met a Disconnect job

shared == <<role, client, closing, token, live>>
lock == <<readers, writer>>
vars == <<role, client, closing, token, live, readers, writer, op, pc, loc,
          overlapped>>

\* Connection::IsConnected, read without synchronisation.
IsConnected == ~closing /\ client # Null

Busy(t) == pc[t] # "idle"
InFlight(k) == {t \in Threads : Busy(t) /\ op[t] = k}
\* A thread that is inside librdkafka.
Using(t) == pc[t] \in {"use", "close"}

Init ==
  /\ role \in Roles
  /\ client = Null
  /\ closing = FALSE
  /\ token = FALSE
  /\ live = {}
  /\ readers = {}
  /\ writer = Null
  /\ op = [t \in Threads |-> "guarded"]
  /\ pc = [t \in Threads |-> "idle"]
  /\ loc = [t \in Threads |-> Null]
  /\ overlapped = {}

-----------------------------------------------------------------------------
(* Control flow shared by the operations.                                  *)

Goto(t, label) == pc' = [pc EXCEPT ![t] = label]

\* uv_rwlock_rdlock and uv_rwlock_wrlock: pthread read/write locks.
LockRead(t) ==
  /\ writer = Null
  /\ readers' = readers \cup {t}
  /\ UNCHANGED writer

LockWrite(t) ==
  /\ writer = Null
  /\ readers = {}
  /\ writer' = t
  /\ UNCHANGED readers

\* The destructor of the scoped lock, whichever of the two t holds.
Unlock(t) ==
  /\ readers' = readers \ {t}
  /\ writer' = IF writer = t THEN Null ELSE writer

\* The operation returns; nothing of its frame survives.
Return(t) ==
  /\ Goto(t, "idle")
  /\ loc' = [loc EXCEPT ![t] = Null]

\* Where an operation begins: most of them test IsConnected first.
Start(k) == IF k \in {"setToken", "offsets"} THEN "load" ELSE "check"

CanBegin(t, k) ==
  /\ k \in {"setToken", "poll"} => t = Main
  /\ k \in Lifecycle \cup {"offsets"} => t \in Pool
  /\ k = "offsets" => role = "consumer"
  /\ Serial /\ k \in Lifecycle =>
        InFlight("connect") \cup InFlight("disconnect") = {}

Begin(t, k) ==
  /\ ~Busy(t)
  /\ CanBegin(t, k)
  /\ op' = [op EXCEPT ![t] = k]
  /\ Goto(t, Start(k))
  /\ overlapped' = IF k = "disconnect" THEN overlapped \cup {s \in Threads : Busy(s)}
                   ELSE IF InFlight("disconnect") # {} THEN overlapped \cup {t}
                   ELSE overlapped \ {t}
  /\ UNCHANGED <<shared, lock, loc>>

-----------------------------------------------------------------------------
(* GetMetadata, QueryWatermarkOffsets, OffsetsForTimes, CreateTopic,        *)
(* GetWatermarkOffsets, Produce, Flush and Consume: test, lock, test again. *)

GuardedCheck(t) ==
  /\ pc[t] = "check"
  /\ Goto(t, IF IsConnected THEN "rdlock" ELSE "idle")
  /\ UNCHANGED <<shared, lock, loc>>

GuardedLock(t) ==
  /\ pc[t] = "rdlock"
  /\ LockRead(t)
  /\ Goto(t, "recheck")
  /\ UNCHANGED <<shared, loc>>

\* Plausible bug: the second test is forgotten.
GuardedRecheckForgotten(t) ==
  /\ pc[t] = "recheck"
  /\ Goto(t, "load")
  /\ UNCHANGED <<shared, lock, loc>>

GuardedRecheck(t) ==
  /\ pc[t] = "recheck"
  /\ IF IsConnected
     THEN Goto(t, "load") /\ UNCHANGED <<lock, loc>>
     ELSE Return(t) /\ Unlock(t)
  /\ UNCHANGED shared

Load(t) ==
  /\ pc[t] = "load"
  /\ loc' = [loc EXCEPT ![t] = client]
  /\ Goto(t, "use")
  /\ UNCHANGED <<shared, lock>>

UseReturns(t) ==
  /\ pc[t] = "use"
  /\ Unlock(t)
  /\ Return(t)
  /\ UNCHANGED shared

Guarded(t) ==
  GuardedCheck(t) \/ GuardedLock(t) \/ GuardedRecheck(t) \/ Load(t) \/ UseReturns(t)

-----------------------------------------------------------------------------
(* Transactions, Name, Poll, and the consumer's Assign, Commit, Seek,       *)
(* Position, Subscribe, Pause, ...: one test of IsConnected and no lock.    *)
(* Unassign and IncrementalUnassign also run while the consumer closes and  *)
(* are not among them.                                                      *)

UnlockedCheck(t) ==
  /\ pc[t] = "check"
  /\ Goto(t, IF IsConnected THEN "load" ELSE "idle")
  /\ UNCHANGED <<shared, lock, loc>>

UnlockedOp(t) == UnlockedCheck(t) \/ Load(t) \/ UseReturns(t)

\* SendOffsetsToTransaction tests and uses its own client like the others, and
\* then the client of the consumer it was given, on which it neither tests
\* anything nor takes the lock.  Its two uses are two operations here, each on
\* the handle it is about.
OffsetsOp(t) == Load(t) \/ UseReturns(t)

-----------------------------------------------------------------------------
(* NodeSetToken reads m_client first and takes the write lock afterwards.   *)

TokenLoad(t) ==
  /\ pc[t] = "load"
  /\ loc' = [loc EXCEPT ![t] = client]
  /\ Goto(t, "wrlock")
  /\ UNCHANGED <<shared, lock>>

TokenLock(t) ==
  /\ pc[t] = "wrlock"
  /\ LockWrite(t)
  /\ Goto(t, IF loc[t] = Null THEN "keep" ELSE "use")
  /\ UNCHANGED <<shared, loc>>

TokenKeep(t) ==
  /\ pc[t] = "keep"
  /\ token' = TRUE
  /\ Unlock(t)
  /\ Return(t)
  /\ UNCHANGED <<role, client, closing, live>>

SetToken(t) == TokenLoad(t) \/ TokenLock(t) \/ TokenKeep(t) \/ UseReturns(t)

-----------------------------------------------------------------------------
(* Producer::Connect and KafkaConsumer::Connect.                            *)

\* Plausible bug: a second Connect does not notice that a client exists.
ConnectCheckForgotten(t) ==
  /\ pc[t] = "check"
  /\ Goto(t, "lock")
  /\ UNCHANGED <<shared, lock, loc>>

ConnectCheck(t) ==
  /\ pc[t] = "check"
  /\ Goto(t, IF IsConnected THEN "idle" ELSE "lock")
  /\ UNCHANGED <<shared, lock, loc>>

\* The producer stores m_client under the READ lock, the consumer under the
\* write lock.
ConnectLock(t) ==
  /\ pc[t] = "lock"
  /\ IF role = "producer" THEN LockRead(t) ELSE LockWrite(t)
  /\ Goto(t, "create")
  /\ UNCHANGED <<shared, loc>>

\* create() fails and returns NULL, or yields an object at an address no
\* thread remembers; the scope of the lock ends with the assignment.
Create(t) ==
  /\ pc[t] = "create"
  /\ \/ client' = Null /\ UNCHANGED live
     \/ \E h \in Handles \ live :
          /\ \A s \in Threads : loc[s] # h
          /\ client' = h
          /\ live' = live \cup {h}
  /\ Unlock(t)
  /\ Goto(t, "created")
  /\ UNCHANGED <<role, closing, token, loc>>

\* if (!m_client) return ERR__STATE; if (m_init_oauthToken) ...; the consumer
\* resumes the partitions it still remembers, if any, without the lock.
Created(t) ==
  /\ pc[t] = "created"
  /\ \/ client = Null /\ Goto(t, "idle")
     \/ client # Null /\ token /\ Goto(t, "tokenlock")
     \/ client # Null /\ ~token /\ Goto(t, "idle")
     \/ client # Null /\ ~token /\ role = "consumer" /\ Goto(t, "load")
  /\ UNCHANGED <<shared, lock, loc>>

ConnectTokenLock(t) ==
  /\ pc[t] = "tokenlock"
  /\ LockWrite(t)
  /\ Goto(t, "token")
  /\ UNCHANGED <<shared, loc>>

\* The token is consumed before the call that hands it to the client.
ConnectToken(t) ==
  /\ pc[t] = "token"
  /\ token' = FALSE
  /\ IF token
     THEN Goto(t, "use") /\ loc' = [loc EXCEPT ![t] = client] /\ UNCHANGED lock
     ELSE Return(t) /\ Unlock(t)
  /\ UNCHANGED <<role, client, closing, live>>

Connect(t) ==
  \/ ConnectCheck(t) \/ ConnectLock(t) \/ Create(t) \/ Created(t)
  \/ ConnectTokenLock(t) \/ ConnectToken(t) \/ Load(t) \/ UseReturns(t)

-----------------------------------------------------------------------------
(* Producer::Disconnect and KafkaConsumer::Disconnect.                      *)

DisconnectCheck(t) ==
  /\ pc[t] = "check"
  /\ Goto(t, IF role = "consumer" THEN (IF IsConnected THEN "flag" ELSE "unflag")
             ELSE (IF IsConnected THEN "wrlock" ELSE "idle"))
  /\ UNCHANGED <<shared, lock, loc>>

\* Plausible bug: the consumer forgets to announce that it is closing.
SetClosingForgotten(t) ==
  /\ pc[t] = "flag"
  /\ Goto(t, "wrlock")
  /\ UNCHANGED <<shared, lock, loc>>

SetClosing(t) ==
  /\ pc[t] = "flag"
  /\ closing' = TRUE
  /\ Goto(t, "wrlock")
  /\ UNCHANGED <<role, client, token, live, lock, loc>>

\* Plausible bug: the client is deleted without the write lock.
DisconnectLockForgotten(t) ==
  /\ pc[t] = "wrlock"
  /\ Goto(t, IF role = "consumer" THEN "close" ELSE "delete")
  /\ loc' = [loc EXCEPT ![t] = client]
  /\ UNCHANGED <<shared, lock>>

\* Under the lock the consumer runs close() on the client first.
DisconnectLock(t) ==
  /\ pc[t] = "wrlock"
  /\ LockWrite(t)
  /\ Goto(t, IF role = "consumer" THEN "close" ELSE "delete")
  /\ loc' = [loc EXCEPT ![t] = client]
  /\ UNCHANGED shared

\* close() serves rebalances that JavaScript answers, so that it may never
\* return; ConsumerSession has both sides of that wait.
CloseReturns(t) ==
  /\ pc[t] = "close"
  /\ Goto(t, "delete")
  /\ UNCHANGED <<shared, lock, loc>>

\* delete m_client begins: the object is gone, the pointer still holds it.
Delete(t) ==
  /\ pc[t] = "delete"
  /\ live' = live \ {client}
  /\ Goto(t, "null")
  /\ UNCHANGED <<role, client, closing, token, lock, loc>>

\* Plausible bug: the pointer is not reset.
SetNullForgotten(t) ==
  /\ pc[t] = "null"
  /\ UNCHANGED client
  /\ Unlock(t)
  /\ loc' = [loc EXCEPT ![t] = Null]
  /\ Goto(t, IF role = "consumer" THEN "unflag" ELSE "idle")
  /\ UNCHANGED <<role, closing, token, live>>

SetNull(t) ==
  /\ pc[t] = "null"
  /\ client' = Null
  /\ Unlock(t)
  /\ loc' = [loc EXCEPT ![t] = Null]
  /\ Goto(t, IF role = "consumer" THEN "unflag" ELSE "idle")
  /\ UNCHANGED <<role, closing, token, live>>

ClearClosing(t) ==
  /\ pc[t] = "unflag"
  /\ closing' = FALSE
  /\ Goto(t, "idle")
  /\ UNCHANGED <<role, client, token, live, lock, loc>>

Disconnect(t) ==
  \/ DisconnectCheck(t) \/ SetClosing(t) \/ DisconnectLock(t) \/ CloseReturns(t)
  \/ Delete(t) \/ SetNull(t) \/ ClearClosing(t)

-----------------------------------------------------------------------------
\* One step of the operation thread t is executing.
Run(t) ==
  /\ \/ op[t] = "guarded" /\ Guarded(t)
     \/ op[t] \in Unlocked /\ UnlockedOp(t)
     \/ op[t] = "offsets" /\ OffsetsOp(t)
     \/ op[t] = "setToken" /\ SetToken(t)
     \/ op[t] = "connect" /\ Connect(t)
     \/ op[t] = "disconnect" /\ Disconnect(t)
  /\ UNCHANGED <<op, overlapped>>

Next == \E t \in Threads : Run(t) \/ \E k \in Ops : Begin(t, k)

\* Threads are scheduled, and the calls into librdkafka that are made with the
\* lock held return: they are local or have a timeout.  close() waits for
\* JavaScript and is not obliged to return, and nobody is obliged to start an
\* operation.
Fairness == \A t \in Threads : WF_vars(Run(t) /\ pc[t] # "close")

Spec == Init /\ [][Next]_vars /\ Fairness

-----------------------------------------------------------------------------
TypeOK ==
  /\ role \in Roles
  /\ client \in Handles \cup {Null}
  /\ closing \in BOOLEAN
  /\ token \in BOOLEAN
  /\ live \in SUBSET Handles
  /\ readers \in SUBSET Threads
  /\ writer \in Threads \cup {Null}
  /\ op \in [Threads -> Kinds]
  /\ pc \in [Threads -> {"idle", "check", "rdlock", "recheck", "load", "use",
                         "wrlock", "keep", "lock", "create", "created",
                         "tokenlock", "token", "flag", "close", "delete",
                         "null", "unflag"}]
  /\ loc \in [Threads -> Handles \cup {Null}]
  /\ overlapped \in SUBSET Threads

\* Where each operation holds the lock, and in which mode.
HoldsRead(t) ==
  \/ op[t] = "guarded" /\ pc[t] \in {"recheck", "load", "use"}
  \/ op[t] = "connect" /\ role = "producer" /\ pc[t] = "create"

HoldsWrite(t) ==
  \/ op[t] = "setToken" /\ pc[t] \in {"keep", "use"}
  \/ op[t] = "connect" /\ role = "consumer" /\ pc[t] = "create"
  \/ op[t] = "connect" /\ pc[t] = "token"
  \/ op[t] = "disconnect" /\ pc[t] \in {"close", "delete", "null"}

LockInv ==
  /\ writer # Null => readers = {}
  /\ \A t \in Threads : HoldsRead(t) => t \in readers
  /\ \A t \in Threads : HoldsWrite(t) => t = writer

\* m_client dangles only between delete and the assignment of NULL, and then
\* under the write lock.
ClientInv ==
  client \in live \cup {Null} \/ \E t \in Threads : op[t] = "disconnect" /\ pc[t] = "null"

GuardedInv ==
  \A t \in Threads : op[t] = "guarded" /\ pc[t] = "use" => loc[t] \in live \cup {Null}

\* The lock is held by whoever the code's control flow says, m_client never
\* dangles outside Disconnect's critical section, and an operation that locks
\* is never inside librdkafka on a deleted client, whatever jobs overlap
\* (connection.cc:112-117, producer.cc:219-225, kafka-consumer.cc:95-116).
HandleInv == TypeOK /\ LockInv /\ ClientInv /\ GuardedInv

\* The strengthening behind the next two properties, for callers that run one
\* Connect or Disconnect at a time.
InLifecycle(t) == Busy(t) /\ op[t] \in Lifecycle

SerialInv ==
  /\ \A s, t \in Threads : InLifecycle(s) /\ InLifecycle(t) => s = t
  /\ closing => /\ role = "consumer"
                /\ \E t \in Threads : op[t] = "disconnect" /\ Busy(t)
  /\ \A t \in Threads :
        /\ op[t] = "connect" /\ pc[t] \in {"lock", "create"} => client = Null
        /\ op[t] = "disconnect" /\ pc[t] = "flag" => role = "consumer"
        /\ op[t] = "disconnect" /\ pc[t] = "null" => client \notin live
        /\ op[t] = "guarded" /\ pc[t] = "load" => client # Null
        /\ op[t] = "guarded" /\ pc[t] = "use" => loc[t] \in live
  /\ live \subseteq {client}

\* With one Connect or Disconnect job at a time, an operation that tests, locks
\* and tests again always calls librdkafka on an existing client, never on
\* NULL: the second test and the lock cover the assignment in Connect, which
\* the producer makes under the read lock (producer.cc:178).
GuardedUseLive ==
  Serial => \A t \in Threads : op[t] = "guarded" /\ pc[t] = "use" => loc[t] \in live

\* With one Connect or Disconnect job at a time no client object is ever
\* leaked: whatever was created and not deleted is in m_client.
NoLeak == Serial => live \subseteq {client}

\* sendOffsetsToTransaction named a consumer that has no client at all.
NoConsumer(t) == op[t] = "offsets" /\ loc[t] = Null

\* An operation that does not lock, or that loads m_client before locking, is
\* inside librdkafka on a dead client only if a Disconnect job overlapped it or
\* it is a sendOffsetsToTransaction whose consumer is not connected.  So much
\* is left to the callers: keep these operations and disconnect() apart, and
\* name connected consumers only (producer.cc:346,373-432,
\* kafka-consumer.cc:275-480, connection.cc:256).
OnlyDisconnectEndangers ==
  Serial => \A t \in Threads :
              Using(t) /\ loc[t] \notin live => t \in overlapped \/ NoConsumer(t)

Closing == role = "consumer" /\ InFlight("disconnect") # {}
InClose == \E t \in Threads : pc[t] = "close"

\* A consumer's Disconnect always gets the lock, however many readers keep
\* arriving: m_is_closing turns them away before they reach it
\* (kafka-consumer.cc:99-102); and it ends once close(), which waits for
\* JavaScript, has returned.  The JavaScript thread must not set tokens for
\* ever, since NodeSetToken does not test m_is_closing.
DisconnectEnds ==
  <>[](op[Main] # "setToken") => [](Closing => <>(~Closing \/ InClose))

\* NodePoll runs on the JavaScript thread and never reaches a deleted or
\* absent client: the poll interval handles disconnections (README.md:263).
PollUseLive == op[Main] = "poll" /\ Using(Main) => loc[Main] \in live
=============================================================================
