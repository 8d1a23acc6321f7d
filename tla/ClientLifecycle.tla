--------------------------- MODULE ClientLifecycle ---------------------------
(***************************************************************************)
(* connect() and disconnect() of a producer or consumer as JavaScript sees *)
(* them (src/lib/client.js, Producer.disconnect of src/lib/producer.js),   *)
(* with the native jobs they queue: Connect, GetMetadata, Flush and        *)
(* Disconnect run on the threads of libuv's pool, in any order when several*)
(* are queued, and their callbacks run later on the JavaScript thread, one *)
(* at a time.  A call is a number; each has at most one job at a time.     *)
(* What a job does to the native client is one step here (two for Connect, *)
(* which tests m_client before it creates one): the steps inside a job are *)
(* those of NativeHandle.                                                  *)
(***************************************************************************)
EXTENDS Naturals, Sequences, FiniteSets

CONSTANTS Subclasses,  \* which of "producer" and "consumer" are examined
          Styles,      \* which of "patient" and "eager" callers are
          MaxCalls     \* bound on the calls of one behaviour

ASSUME ConstantsAssumption ==
  /\ Subclasses \subseteq {"producer", "consumer"}
  /\ Styles \subseteq {"patient", "eager"}
  /\ MaxCalls \in Nat

Calls == 1..MaxCalls

VARIABLES subclass,       \* of the client; never changes
          style,          \* of its caller; never changes
          isConnected, isConnecting, isDisconnecting,  \* the flags of client.js
          what,           \* what each call is: "connect", "disconnect"
          job, stage,     \* its native job, and how far that is
          immediates,     \* calls with setImmediate(next) pending
          waiters,        \* calls waiting with once('ready')
          timers,         \* calls whose fail() has a timer running
          answers,        \* history: the results given to each call's callback
          client,         \* m_client is not NULL
          live,           \* native clients created and not deleted
          active,         \* the dispatchers are active
          callbacks,      \* times the callbacks are registered
          gaveUp,         \* history: a timer of fail() has fired
          overlapped      \* history: a connection met a native Disconnect job

fixed == <<subclass, style>>
flags == <<isConnected, isConnecting, isDisconnecting>>
pending == <<immediates, waiters, timers>>
native == <<client, live>>
vars == <<fixed, flags, what, job, stage, pending, answers, native, active,
          callbacks, gaveUp, overlapped>>

Init ==
  /\ subclass \in Subclasses /\ style \in Styles
  /\ isConnected = FALSE /\ isConnecting = FALSE /\ isDisconnecting = FALSE
  /\ what = [c \in Calls |-> "none"]
  /\ job = [c \in Calls |-> "none"]
  /\ stage = [c \in Calls |-> "none"]
  /\ immediates = {} /\ waiters = {} /\ timers = {}
  /\ answers = [c \in Calls |-> <<>>]
  /\ client = FALSE /\ live = 0
  /\ active = FALSE
  /\ callbacks = 0
  /\ gaveUp = FALSE /\ overlapped = FALSE

Attempts == {"connect", "metadata"}
Disconnects == {"cleanup", "disconnect"}
InFlight(jobs) == {c \in Calls : job[c] \in jobs}
Quiet == \A c \in Calls : job[c] = "none"

\* History: a connection attempt and a native Disconnect are in flight.
Overlap == InFlight(Attempts) # {} /\ InFlight(Disconnects) # {}
NoteOverlap == overlapped' = (overlapped \/ Overlap')

Owed(c) == what[c] # "none" /\ answers[c] = <<>>

-----------------------------------------------------------------------------
(* Building blocks of the handlers.                                         *)

Queue(c, j) ==
  /\ job' = [job EXCEPT ![c] = j]
  /\ stage' = [stage EXCEPT ![c] = "queued"]

NoJob(c) ==
  /\ job' = [job EXCEPT ![c] = "none"]
  /\ stage' = [stage EXCEPT ![c] = "none"]

\* The caller's callback runs with this result.
Answer(S, result) ==
  answers' = [c \in Calls |-> IF c \in S THEN Append(answers[c], result)
                                         ELSE answers[c]]

\* Client.prototype.connect's next(): the flag, then the callback.
NextCb(c, result) == isConnecting' = FALSE /\ Answer({c}, result)

-----------------------------------------------------------------------------
(* The caller.  A patient one has every earlier callback before it calls.   *)

Called(c, k) ==
  /\ what[c] = "none"
  /\ \A d \in Calls : d < c => what[d] # "none"
  /\ style = "patient" => ~ \E d \in Calls : Owed(d)
  /\ what' = [what EXCEPT ![c] = k]

ConnectAgain(c) ==
  /\ isConnected
  /\ immediates' = immediates \cup {c}
  /\ UNCHANGED <<flags, job, stage, waiters, timers, callbacks>>

ConnectWaits(c) ==
  /\ ~isConnected /\ isConnecting
  /\ waiters' = waiters \cup {c}
  /\ UNCHANGED <<flags, job, stage, immediates, timers, callbacks>>

ConnectStarts(c) ==
  /\ ~isConnected /\ ~isConnecting
  /\ isConnecting' = TRUE
  /\ callbacks' = callbacks + 1
  /\ Queue(c, "connect")
  /\ UNCHANGED <<isConnected, isDisconnecting, pending>>

Connect(c) ==
  /\ Called(c, "connect")
  /\ ConnectAgain(c) \/ ConnectWaits(c) \/ ConnectStarts(c)
  /\ UNCHANGED <<fixed, answers, native, active, gaveUp>>
  /\ NoteOverlap

\* Client.prototype.disconnect: a second call drops its callback.
BaseDisconnect(c) ==
  IF isDisconnecting
  THEN NoJob(c) /\ UNCHANGED isDisconnecting
  ELSE isDisconnecting' = TRUE /\ Queue(c, "disconnect")

\* Producer.prototype.disconnect flushes first; flush throws when not connected.
Disconnect(c) ==
  /\ Called(c, "disconnect")
  /\ IF subclass = "producer"
     THEN isConnected /\ Queue(c, "flush") /\ UNCHANGED isDisconnecting
     ELSE BaseDisconnect(c)
  /\ UNCHANGED <<fixed, isConnected, isConnecting, pending, answers, native,
                 active, callbacks, gaveUp>>
  /\ NoteOverlap

-----------------------------------------------------------------------------
(* The jobs, on pool threads.                                               *)

JobEnds(c, result) == stage' = [stage EXCEPT ![c] = result]

Executing(c, jobs) == job[c] \in jobs /\ stage[c] = "queued"

\* Plausible bug: the job does not look whether there is a client already.
ExecConnectBlindly(c) ==
  /\ Executing(c, {"connect"})
  /\ JobEnds(c, "creating")
  /\ UNCHANGED native

\* Connect() leaves a client it finds alone.
ExecConnect(c) ==
  /\ Executing(c, {"connect"})
  /\ JobEnds(c, IF client THEN "ok" ELSE "creating")
  /\ UNCHANGED native

\* m_client is assigned what create returns, NULL if it fails.  An error may
\* also be that librdkafka rejects the token: the client is kept then.
ExecCreate(c) ==
  /\ job[c] = "connect" /\ stage[c] = "creating"
  /\ \/ client' = TRUE /\ live' = live + 1 /\ \E r \in {"ok", "err"} : JobEnds(c, r)
     \/ client' = FALSE /\ UNCHANGED live /\ JobEnds(c, "err")

\* The broker may not answer in time.
ExecMetadata(c) ==
  /\ Executing(c, {"metadata"})
  /\ \E r \in {"ok", "err"} : (r = "ok" => client) /\ JobEnds(c, r)
  /\ UNCHANGED native

\* Flush's error is not looked at.
ExecFlush(c) ==
  /\ Executing(c, {"flush"})
  /\ JobEnds(c, "ok")
  /\ UNCHANGED native

\* Neither is that of Disconnect, which has no effect without a client.
ExecDisconnect(c) ==
  /\ Executing(c, Disconnects)
  /\ JobEnds(c, "ok")
  /\ client' = FALSE
  /\ live' = IF client THEN live - 1 ELSE live

Exec(c) ==
  /\ \/ ExecConnect(c) \/ ExecCreate(c) \/ ExecMetadata(c)
     \/ ExecFlush(c) \/ ExecDisconnect(c)
  /\ UNCHANGED <<fixed, flags, what, job, pending, answers, active, callbacks,
                 gaveUp, overlapped>>

-----------------------------------------------------------------------------
(* Their callbacks, on the JavaScript thread.                               *)

Finished(c, j, result) == job[c] = j /\ stage[c] = result

\* Plausible bug: fail() forgets that it is no longer connected.
FailStillConnected(c) ==
  IF isConnected
  THEN /\ UNCHANGED isConnected
       /\ Queue(c, "cleanup")
       /\ timers' = timers \cup {c}
       /\ UNCHANGED <<isConnecting, answers>>
  ELSE /\ NoJob(c)
       /\ NextCb(c, "err")
       /\ UNCHANGED <<isConnected, timers>>

\* Plausible bug: fail() answers without waiting for the native disconnect.
FailAtOnce(c) ==
  IF isConnected
  THEN /\ isConnected' = FALSE
       /\ Queue(c, "cleanup")
       /\ NextCb(c, "err")
       /\ UNCHANGED timers
  ELSE /\ NoJob(c)
       /\ NextCb(c, "err")
       /\ UNCHANGED <<isConnected, timers>>

\* connect()'s fail(): answers when the native client is gone, or in 10 s.
Fail(c) ==
  IF isConnected
  THEN /\ isConnected' = FALSE
       /\ Queue(c, "cleanup")
       /\ timers' = timers \cup {c}
       /\ UNCHANGED <<isConnecting, answers>>
  ELSE /\ NoJob(c)
       /\ NextCb(c, "err")
       /\ UNCHANGED <<isConnected, timers>>

\* The native worker activates the dispatchers, then calls back.
ConnectOK(c) ==
  /\ Finished(c, "connect", "ok")
  /\ active' = TRUE
  /\ isConnected' = TRUE
  /\ Queue(c, "metadata")
  /\ UNCHANGED <<isConnecting, isDisconnecting, pending, answers, callbacks, gaveUp>>

AttemptFails(c) ==
  /\ Finished(c, "connect", "err") \/ Finished(c, "metadata", "err")
  /\ Fail(c)
  /\ UNCHANGED <<isDisconnecting, immediates, waiters, active, callbacks, gaveUp>>

\* "ready" is emitted: those who wait for it are answered as well.
MetadataOK(c) ==
  /\ Finished(c, "metadata", "ok")
  /\ isConnected' = TRUE /\ isConnecting' = FALSE
  /\ Answer(waiters \cup {c}, "ok")
  /\ waiters' = {}
  /\ NoJob(c)
  /\ UNCHANGED <<isDisconnecting, immediates, timers, active, callbacks, gaveUp>>

\* Plausible bug: the callback does not look whether the timer was faster.
CleanupDoneAnyway(c) ==
  /\ Finished(c, "cleanup", "ok")
  /\ active' = FALSE
  /\ NoJob(c)
  /\ NextCb(c, "err")
  /\ timers' = timers \ {c}
  /\ UNCHANGED <<isConnected, isDisconnecting, immediates, waiters, callbacks, gaveUp>>

\* The worker deactivates the dispatchers; a late callback does no more.
CleanupDone(c) ==
  /\ Finished(c, "cleanup", "ok")
  /\ active' = FALSE
  /\ NoJob(c)
  /\ IF c \in timers THEN NextCb(c, "err") ELSE UNCHANGED <<isConnecting, answers>>
  /\ timers' = timers \ {c}
  /\ UNCHANGED <<isConnected, isDisconnecting, immediates, waiters, callbacks, gaveUp>>

FlushDone(c) ==
  /\ job[c] = "flush" /\ stage[c] = "ok"
  /\ BaseDisconnect(c)
  /\ UNCHANGED <<isConnected, isConnecting, pending, answers, active, callbacks, gaveUp>>

\* Plausible bug: the "disconnected" handler leaves _isConnected alone.
DisconnectDoneConnected(c) ==
  /\ Finished(c, "disconnect", "ok")
  /\ active' = FALSE
  /\ callbacks' = IF callbacks = 0 THEN 0 ELSE callbacks - 1
  /\ isDisconnecting' = FALSE
  /\ Answer({c}, "ok")
  /\ NoJob(c)
  /\ UNCHANGED <<isConnected, isConnecting, pending, gaveUp>>

\* Plausible bug: the flag of a disconnect in progress is never reset.
DisconnectDoneForgetful(c) ==
  /\ Finished(c, "disconnect", "ok")
  /\ active' = FALSE
  /\ callbacks' = IF callbacks = 0 THEN 0 ELSE callbacks - 1
  /\ isConnected' = FALSE
  /\ Answer({c}, "ok")
  /\ NoJob(c)
  /\ UNCHANGED <<isConnecting, isDisconnecting, pending, gaveUp>>

\* One registration of each callback is removed; "disconnected" is emitted.
DisconnectDone(c) ==
  /\ Finished(c, "disconnect", "ok")
  /\ active' = FALSE
  /\ callbacks' = IF callbacks = 0 THEN 0 ELSE callbacks - 1
  /\ isConnected' = FALSE /\ isDisconnecting' = FALSE
  /\ Answer({c}, "ok")
  /\ NoJob(c)
  /\ UNCHANGED <<isConnecting, pending, gaveUp>>

Done(c) ==
  /\ \/ ConnectOK(c) \/ AttemptFails(c) \/ MetadataOK(c)
     \/ CleanupDone(c) \/ FlushDone(c) \/ DisconnectDone(c)
  /\ UNCHANGED <<fixed, what, native>>
  /\ NoteOverlap

\* setImmediate(next)
Immediate(c) ==
  /\ c \in immediates
  /\ immediates' = immediates \ {c}
  /\ NextCb(c, "ok")
  /\ UNCHANGED <<fixed, isConnected, isDisconnecting, what, job, stage, waiters,
                 timers, native, active, callbacks, gaveUp, overlapped>>

\* fail()'s timer: the native disconnect has taken 10 s and goes on.
TimerFires(c) ==
  /\ c \in timers
  /\ timers' = timers \ {c}
  /\ NextCb(c, "err")
  /\ gaveUp' = TRUE
  /\ UNCHANGED <<fixed, isConnected, isDisconnecting, what, job, stage,
                 immediates, waiters, native, active, callbacks, overlapped>>

-----------------------------------------------------------------------------
Next ==
  \E c \in Calls :
    \/ Connect(c) \/ Disconnect(c)
    \/ Exec(c) \/ Done(c) \/ Immediate(c) \/ TimerFires(c)

\* Jobs are executed, librdkafka's calls return, and the event loop runs
\* callbacks.  Nothing obliges the caller to call, or a timer to be first.
Fairness ==
  \A c \in Calls :
    WF_vars(Exec(c) \/ Done(c) \/ Immediate(c))

Spec == Init /\ [][Next]_vars /\ Fairness

-----------------------------------------------------------------------------
TypeOK ==
  /\ subclass \in Subclasses /\ style \in Styles
  /\ isConnected \in BOOLEAN /\ isConnecting \in BOOLEAN /\ isDisconnecting \in BOOLEAN
  /\ what \in [Calls -> {"none", "connect", "disconnect"}]
  /\ job \in [Calls -> {"none", "flush"} \cup Attempts \cup Disconnects]
  /\ stage \in [Calls -> {"none", "queued", "creating", "ok", "err"}]
  /\ immediates \subseteq Calls /\ waiters \subseteq Calls /\ timers \subseteq Calls
  /\ answers \in [Calls -> Seq({"ok", "err"})]
  /\ client \in BOOLEAN /\ live \in Nat
  /\ active \in BOOLEAN
  /\ callbacks \in Nat
  /\ gaveUp \in BOOLEAN /\ overlapped \in BOOLEAN

\* No callback is called twice, whoever calls and in whatever order jobs end:
\* in fail() the native callback and the timer race (client.js:159-190).
AnsweredOnce == TypeOK /\ \A c \in Calls : Len(answers[c]) <= 1

\* The native jobs that change m_client come one at a time when the caller
\* waits for its callbacks, as NativeHandle assumes with Serial, except after
\* fail() has given up waiting for one (client.js:150-190, 310-312).
SerialJobs ==
  style = "patient" /\ ~gaveUp =>
    Cardinality(InFlight({"connect"} \cup Disconnects)) <= 1

\* A patient caller never makes a connection object own two clients, or lose
\* one, even when fail() gave up waiting (producer.cc:171-180, 219-225).
NoClientLeak == style = "patient" => live = IF client THEN 1 ELSE 0

\* At rest, a client that says it is connected has a native client whose
\* events are dispatched, unless a connection attempt met a Disconnect job;
\* a patient caller gets there only through the timer (client.js:109-112,194-219).
ConnectedMeansClient ==
  /\ isConnected /\ Quiet => (client /\ active) \/ overlapped
  /\ style = "patient" /\ overlapped => gaveUp

\* connect()'s callback says "connected" exactly if the client is, for a
\* patient caller whose fail() did not give up (client.js:138-143,159-219).
AnswersAreTrue ==
  [][\A c \in Calls :
       style = "patient" /\ ~gaveUp' /\ what[c] = "connect" /\ answers'[c] # answers[c]
         => (answers'[c] = <<"ok">> <=> isConnected')]_vars

\* A patient caller always gets its callback, of connect and disconnect.
CallsEnd ==
  \A c \in Calls : (style = "patient" /\ Owed(c)) ~> ~Owed(c)

\* "If it does not, the error will be passed through the callback": a callback
\* of connect() that is owed belongs to an attempt that is still going on.
ConnectAnswered ==
  \A c \in Calls :
    what[c] = "connect" /\ Owed(c) =>
      c \in immediates \/ InFlight(Attempts \cup Disconnects) # {}

\* One delivery report or event makes one emission: each callback is
\* registered at most once while the dispatchers are active.
DispatchedOnce == style = "patient" /\ active => callbacks <= 1
=============================================================================
