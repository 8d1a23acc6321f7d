-------------------------- MODULE HighLevelProducer --------------------------
(***************************************************************************)
(* The high-level producer (lib/producer/high-level-producer.js) with its  *)
(* reference counter (lib/tools/ref-counter.js), the poll interval of      *)
(* lib/producer.js and the part of connect() they depend on.  Each         *)
(* produce() takes a reference, and while there are references a 1 ms      *)
(* timer polls; a delivery report found by a poll gives the reference back *)
(* and answers the caller.  The way of a report to JavaScript is           *)
(* DeliveryReports; here it is one step, Emit.                             *)
(* Assumed: disconnect() is called after 'ready' only, and the native      *)
(* disconnect of a failed connect() ends before fail()'s timer             *)
(* (ClientLifecycle has both otherwise); a serializer answers at most once *)
(* and never with undefined, and the user's callbacks do not throw.        *)
(***************************************************************************)
EXTENDS Integers, FiniteSets

CONSTANTS Messages,     \* produce() calls of one behaviour
          MaxSessions,  \* bound on the native connections
          MaxSettings   \* bound on the user's setPollInterval() calls

ASSUME ConstantsAssumption ==
  /\ IsFiniteSet(Messages)
  /\ MaxSessions \in Nat
  /\ MaxSettings \in Nat

Copies == 1..2          \* a message's calls of librdkafka's produce: see Attempts

VARIABLES
  conn,        \* "down", "metadata" (connected, 'ready' not emitted), "up",
               \* "leaving" (disconnect: flush, then close), "deleted",
               \* "failing" and "failed": fail() disconnects
  sessions,
  refs,        \* pollingRef.currentValue
  running,     \* pollingRef.isRunning
  fast,        \* the 1 ms timer exists
  rk,          \* what has become of each copy of each message
  listeners,   \* its 'once' listeners under its __message_id
  due,         \* its setImmediates that will call back
  value, key,  \* what its serializers have done
  called,      \* its calledBack
  thrown,      \* a setImmediate that will report a thrown error
  answers,     \* history: calls of its callback
  interval,    \* pollInterval: the number of the setting it is from, or 0
  onReady,     \* the setting the last of the 'ready' listeners makes, or 0
  onDisconnected, \* there are listeners that turn it off at 'disconnected'
  settings,    \* setPollInterval() calls of the user; the constructor's is number 1
  wanted,      \* history: the setting asked for last, 0 if that was to turn it off
  overtaken,   \* history: it will be, or has been, overridden by an older one
               \* that waited for 'ready'
  dropped,     \* history: it has been turned off at 'disconnected'
  stopped,     \* history: a poll that found no connection ended the 1 ms timer
               \* and the references have not all been returned since
  stranded     \* the dispatcher was closed with reports in its queue: nobody is
               \* ever woken again (DeliveryReports!NoReportStranded)

counter == <<refs, running, fast, stopped>>
message == <<value, key, called, thrown, answers, listeners, due>>
polling == <<interval, onReady, onDisconnected, settings, wanted, overtaken, dropped>>
vars == <<conn, sessions, counter, rk, message, polling, stranded>>

\* The constructor has called setPollInterval(1000).
Init ==
  /\ conn = "down" /\ sessions = 0
  /\ refs = 0 /\ running = FALSE /\ fast = FALSE /\ stopped = FALSE
  /\ rk = [m \in Messages |-> [c \in Copies |-> "none"]]
  /\ listeners = [m \in Messages |-> 0]
  /\ due = [m \in Messages |-> 0]
  /\ value = [m \in Messages |-> "none"]
  /\ key = [m \in Messages |-> "none"]
  /\ called = [m \in Messages |-> FALSE]
  /\ thrown = [m \in Messages |-> FALSE]
  /\ answers = [m \in Messages |-> 0]
  /\ interval = 0 /\ onReady = 1 /\ onDisconnected = FALSE
  /\ settings = 0 /\ wanted = 1 /\ overtaken = FALSE /\ dropped = FALSE
  /\ stranded = FALSE

IsConnected == conn \in {"metadata", "up", "leaving", "deleted"}   \* _isConnected
HasClient == conn \in {"metadata", "up", "leaving", "failing"}
Usable == IsConnected /\ HasClient       \* poll() and produce() reach librdkafka

-----------------------------------------------------------------------------
(* setPollInterval.                                                          *)

\* Plausible bug: a connected producer waits for 'ready' as well.
UserSetsIntervalLate(on) ==
  /\ settings < MaxSettings
  /\ settings' = settings + 1
  /\ wanted' = IF on THEN settings' + 1 ELSE 0
  /\ interval' = 0
  /\ onReady' = IF on THEN settings' + 1 ELSE onReady
  /\ overtaken' = (onReady # 0 /\ (~on \/ IsConnected))
  /\ dropped' = FALSE
  /\ UNCHANGED <<conn, sessions, counter, rk, message, onDisconnected, stranded>>

\* The interval there is is cleared; a new one is set at once if connected,
\* else by a listener for 'ready'.  Listeners for 'ready' are never removed.
UserSetsInterval(on) ==
  /\ settings < MaxSettings
  /\ settings' = settings + 1
  /\ wanted' = IF on THEN settings' + 1 ELSE 0
  /\ interval' = IF on /\ IsConnected THEN settings' + 1 ELSE 0
  /\ onReady' = IF on /\ ~IsConnected THEN settings' + 1 ELSE onReady
  /\ onDisconnected' = (onDisconnected \/ (on /\ IsConnected))
  /\ overtaken' = (onReady # 0 /\ (~on \/ IsConnected))
  /\ dropped' = FALSE
  /\ UNCHANGED <<conn, sessions, counter, rk, message, stranded>>

-----------------------------------------------------------------------------
(* The connection.                                                           *)

\* The native connect has succeeded; the metadata are asked for.  (One that
\* fails changes nothing here.)
Connected ==
  /\ conn = "down"
  /\ sessions < MaxSessions
  /\ conn' = "metadata"
  /\ sessions' = sessions + 1
  /\ UNCHANGED <<counter, rk, message, polling, stranded>>

\* 'ready': each waiting listener of setPollInterval makes its setting.
Ready ==
  /\ conn = "metadata"
  /\ conn' = "up"
  /\ interval' = IF onReady # 0 THEN onReady ELSE interval
  /\ onDisconnected' = (onDisconnected \/ onReady # 0)
  /\ onReady' = 0
  /\ UNCHANGED <<sessions, counter, rk, message, settings, wanted, overtaken, dropped,
                 stranded>>

\* fail() clears _isConnected and disconnects the native client.
MetadataFails ==
  /\ conn = "metadata"
  /\ conn' = "failing"
  /\ UNCHANGED <<sessions, counter, rk, message, polling, stranded>>

Disconnect ==
  /\ conn = "up"
  /\ conn' = "leaving"
  /\ UNCHANGED <<sessions, counter, rk, message, polling, stranded>>

\* The copies of which X holds are lost.
Lose(X) ==
  rk' = [m \in Messages |-> [c \in Copies |-> IF rk[m][c] \in X THEN "lost" ELSE rk[m][c]]]

\* What nobody has polled goes with the client.
ClientDeleted ==
  /\ conn \in {"leaving", "failing"}
  /\ conn' = IF conn = "leaving" THEN "deleted" ELSE "failed"
  /\ Lose({"sent", "acked"})
  /\ UNCHANGED <<sessions, counter, message, polling, stranded>>

\* The native disconnect's callback: the dispatchers are closed.
DispatchersClosed ==
  /\ Lose({"event"})
  /\ stranded' = (stranded \/ \E m \in Messages, c \in Copies : rk[m][c] = "event")

\* 'disconnected': the listeners call setPollInterval(0).
Disconnected ==
  /\ conn = "deleted"
  /\ conn' = "down"
  /\ DispatchersClosed
  /\ interval' = IF onDisconnected THEN 0 ELSE interval
  /\ dropped' = (dropped \/ (onDisconnected /\ interval # 0))
  /\ onDisconnected' = FALSE
  /\ UNCHANGED <<sessions, counter, message, onReady, settings, wanted, overtaken>>

\* fail(): no 'disconnected' is emitted.
FailureDone ==
  /\ conn = "failed"
  /\ conn' = "down"
  /\ DispatchersClosed
  /\ UNCHANGED <<sessions, counter, message, polling>>

-----------------------------------------------------------------------------
(* produce().                                                                *)

Increment ==
  /\ refs' = refs + 1
  /\ running' = (running \/ refs' > 0)
  /\ fast' = (fast \/ (refs' > 0 /\ ~running))

\* doProduce n times for m; librdkafka (external) takes a of the copies, here
\* numbered first.  Each one taken has a 'once' listener, what _oldProduce throws
\* for the others is given to the callback.
DoProduce(m, n, a) ==
  /\ a \in 0..n /\ (a > 0 => Usable)
  /\ rk' = [rk EXCEPT ![m] = [c \in Copies |-> IF c <= a THEN "sent"
                                               ELSE IF c <= n THEN "refused" ELSE @[c]]]
  /\ listeners' = [listeners EXCEPT ![m] = @ + a]

Answered(m, n) == answers' = [answers EXCEPT ![m] = @ + n]

\* The calls of doProduce before produce() returns: produceIfComplete runs at the
\* end, and also in the callback of an asynchronous key serializer ("now").
Attempts(v, k) == IF v = "ok" /\ k = "now" THEN 2 ELSE IF v = "ok" /\ k = "ok" THEN 1 ELSE 0

\* v and k: the serializers' results.  "ok" at once, "now" by a callback before the
\* key serializer returns, "failed" by such a callback with an error (of either),
\* "pending" for a promise or a later callback, "threw"; after a throw the key is
\* not serialized.
Produce(m, v, k, a) ==
  /\ value[m] = "none"
  /\ Increment
  /\ value' = [value EXCEPT ![m] = v]
  /\ key' = [key EXCEPT ![m] = IF v = "threw" THEN "none" ELSE IF k = "now" THEN "ok" ELSE k]
  /\ thrown' = [thrown EXCEPT ![m] = "threw" \in {value'[m], key'[m]}]
  /\ called' = [called EXCEPT ![m] = "failed" \in {value'[m], key'[m]}]
  /\ DoProduce(m, Attempts(v, k), a)
  /\ Answered(m, Attempts(v, k) - a + (IF called'[m] THEN 1 ELSE 0))
  /\ UNCHANGED <<conn, sessions, stopped, due, polling, stranded>>

Result(m, part, r) ==
  /\ (IF part = "value" THEN value ELSE key)[m] = "pending"
  /\ IF part = "value"
       THEN value' = [value EXCEPT ![m] = r] /\ UNCHANGED key
       ELSE key' = [key EXCEPT ![m] = r] /\ UNCHANGED value

\* Plausible bug: a late result is used although the callback has been called.
SerializedUnchecked(m, part, a) ==
  /\ Result(m, part, "ok")
  /\ LET n == IF {value'[m], key'[m]} \subseteq {"ok", "failed"} THEN 1 ELSE 0
     IN  DoProduce(m, n, a) /\ Answered(m, n - a)
  /\ UNCHANGED <<conn, sessions, counter, called, thrown, due, polling, stranded>>

\* A promise resolves, or an asynchronous serializer calls back late.
Serialized(m, part, a) ==
  /\ Result(m, part, "ok")
  /\ LET n == IF ~called[m] /\ value'[m] = "ok" /\ key'[m] = "ok" THEN 1 ELSE 0
     IN  DoProduce(m, n, a) /\ Answered(m, n - a)
  /\ UNCHANGED <<conn, sessions, counter, called, thrown, due, polling, stranded>>

SerializerFails(m, part) ==
  /\ Result(m, part, "failed")
  /\ called' = [called EXCEPT ![m] = TRUE]
  /\ Answered(m, IF called[m] THEN 0 ELSE 1)
  /\ UNCHANGED <<conn, sessions, counter, rk, thrown, listeners, due, polling, stranded>>

\* The setImmediate after a serializer has thrown.
ThrownReported(m) ==
  /\ thrown[m]
  /\ thrown' = [thrown EXCEPT ![m] = FALSE]
  /\ called' = [called EXCEPT ![m] = TRUE]
  /\ Answered(m, 1)
  /\ UNCHANGED <<conn, sessions, counter, rk, value, key, listeners, due, polling, stranded>>

Producing(m) ==
  \/ \E v \in {"ok", "pending", "failed", "threw"},
        k \in {"ok", "now", "pending", "failed", "threw"}, a \in 0..2 : Produce(m, v, k, a)
  \/ \E part \in {"value", "key"} :
       \/ \E a \in 0..1 : Serialized(m, part, a)
       \/ SerializerFails(m, part)
  \/ ThrownReported(m)

-----------------------------------------------------------------------------
(* Polling and delivery reports.                                             *)

\* librdkafka (external): the copy is delivered or has failed.  Two copies of a
\* message differ in their numbers only, so the first is taken first.
Acknowledge(m, c) ==
  /\ HasClient
  /\ rk[m][c] = "sent"
  /\ c = 2 => rk[m][1] # "sent"
  /\ rk' = [rk EXCEPT ![m][c] = "acked"]
  /\ UNCHANGED <<conn, sessions, counter, message, polling, stranded>>

Poll ==
  rk' = [m \in Messages |-> [c \in Copies |-> IF rk[m][c] = "acked" THEN "event" ELSE rk[m][c]]]

\* The 1 ms timer; it ends when poll throws for want of _isConnected.
FastTick ==
  /\ fast
  /\ IF IsConnected
       THEN /\ IF HasClient THEN Poll ELSE UNCHANGED rk
            /\ UNCHANGED <<fast, stopped>>
       ELSE /\ fast' = FALSE /\ stopped' = TRUE
            /\ UNCHANGED rk
  /\ UNCHANGED <<conn, sessions, refs, running, message, polling, stranded>>

\* The poll interval, or flush in disconnect().
OtherPoll ==
  /\ Usable
  /\ interval # 0 \/ conn = "leaving"
  /\ Poll
  /\ UNCHANGED <<conn, sessions, counter, message, polling, stranded>>

Handed(m, c) ==
  /\ ~stranded
  /\ rk[m][c] = "event"
  /\ c = 2 => rk[m][1] # "event"
  /\ rk' = [rk EXCEPT ![m][c] = "told"]
  /\ refs' = refs - listeners[m]
  /\ due' = [due EXCEPT ![m] = @ + listeners[m]]
  /\ listeners' = [listeners EXCEPT ![m] = 0]
  /\ UNCHANGED <<conn, sessions, value, key, called, thrown, answers, polling, stranded>>

\* Plausible bug: the timer is not stopped when the last reference is returned.
EmitKeepsPolling(m, c) ==
  /\ Handed(m, c)
  /\ running' = (running /\ refs' > 0)
  /\ UNCHANGED <<fast, stopped>>

\* 'delivery-report': every listener for this message id is removed, gives a
\* reference back and leaves the callback to a setImmediate.
Emit(m, c) ==
  /\ Handed(m, c)
  /\ running' = (running /\ refs' > 0)
  /\ fast' = (fast /\ refs' > 0)
  /\ stopped' = (stopped /\ refs' > 0)

\* Plausible bug: Emit gives the reference back, but nobody calls back.
AnswerForgotten(m) ==
  /\ due[m] > 0
  /\ due' = [due EXCEPT ![m] = @ - 1]
  /\ UNCHANGED <<conn, sessions, counter, rk, value, key, called, thrown, answers, listeners,
                 polling, stranded>>

Answer(m) ==
  /\ due[m] > 0
  /\ due' = [due EXCEPT ![m] = @ - 1]
  /\ Answered(m, 1)
  /\ UNCHANGED <<conn, sessions, counter, rk, value, key, called, thrown, listeners, polling,
                 stranded>>

Delivering(m) == (\E c \in Copies : Acknowledge(m, c) \/ Emit(m, c)) \/ Answer(m)

-----------------------------------------------------------------------------
Next ==
  \/ \E on \in BOOLEAN : UserSetsInterval(on)
  \/ Connected \/ Ready \/ MetadataFails \/ Disconnect
  \/ ClientDeleted \/ Disconnected \/ FailureDone
  \/ \E m \in Messages : Producing(m) \/ Delivering(m)
  \/ FastTick \/ OtherPoll

\* Timers and immediates run, librdkafka reports each message (at the latest
\* after message.timeout.ms), disconnect() ends.  Serializers need not answer.
Fairness ==
  /\ WF_vars(FastTick)
  /\ WF_vars(ClientDeleted) /\ WF_vars(Disconnected) /\ WF_vars(FailureDone)
  /\ \A m \in Messages : WF_vars(Delivering(m)) /\ WF_vars(ThrownReported(m))

Spec == Init /\ [][Next]_vars /\ Fairness

-----------------------------------------------------------------------------
Stages == {"none", "sent", "acked", "event", "lost", "told", "refused"}
Outcomes == {"none", "ok", "pending", "failed", "threw"}
Settings == 0..(MaxSettings + 1)

TypeOK ==
  /\ conn \in {"down", "metadata", "up", "leaving", "deleted", "failing", "failed"}
  /\ sessions \in 0..MaxSessions /\ settings \in 0..MaxSettings
  /\ refs \in Int
  /\ {running, fast, stopped, stranded} \subseteq BOOLEAN
  /\ {onDisconnected, overtaken, dropped} \subseteq BOOLEAN
  /\ rk \in [Messages -> [Copies -> Stages]]
  /\ value \in [Messages -> Outcomes] /\ key \in [Messages -> Outcomes]
  /\ called \in [Messages -> BOOLEAN] /\ thrown \in [Messages -> BOOLEAN]
  /\ answers \in [Messages -> 0..2]
  /\ listeners \in [Messages -> 0..2] /\ due \in [Messages -> 0..2]
  /\ interval \in Settings /\ onReady \in Settings /\ wanted \in Settings

Reported(m) == \E c \in Copies : rk[m][c] = "told"
Refused(m) == \E c \in Copies : rk[m][c] = "refused"
Doubled(m) == rk[m][2] # "none"
Taken(m) == {c \in Copies : rk[m][c] \notin {"none", "refused"}}

\* A reference is held for every produce() whose report has not come, those
\* that failed or whose report is lost included: they are never returned
\* (high-level-producer.js:175,192,202,229-241).
Unreturned == {m \in Messages : value[m] # "none" /\ ~Reported(m)}

\* One produce() took one reference, but librdkafka has taken two copies and
\* the first report ran both listeners (high-level-producer.js:191-198,294).
ReturnedTwice == {m \in Messages : Reported(m) /\ Taken(m) = Copies}

\* The counter holds one reference per produce() whose report is owed, minus
\* one for each message sent twice by a key serializer that called back before
\* it returned; and the 1 ms timer runs exactly while the counter is positive,
\* unless a poll without a connection has ended it: then not before the counter is
\* zero again (high-level-producer.js:108-122,276-294; ref-counter.js:32-52).  So
\* without these, failures and losses it polls while, and only while, a report is owed.
PollsWhileOwed ==
  /\ TypeOK
  /\ refs = Cardinality(Unreturned) - Cardinality(ReturnedTwice)
  /\ running <=> refs > 0
  /\ fast <=> running /\ ~stopped

\* The caller's callback is called at most once, and by a delivery report or a
\* failure, not both; except twice when one serializer fails and the other has
\* thrown, or when doProduce ran twice because a key serializer called back
\* before it returned (high-level-producer.js:191-203,229-241,276-300).
AnsweredOnce ==
  \A m \in Messages :
    /\ answers[m] + due[m] > 1 => Doubled(m) \/ {value[m], key[m]} = {"failed", "threw"}
    /\ answers[m] + due[m] > 0 <=> Reported(m) \/ Refused(m) \/ called[m]
    /\ rk[m][1] # "none" => ~called[m]

\* A message librdkafka has taken is answered, unless
\*   - its reports are lost to a disconnect() or to a failed connect(),
\*   - an earlier session has closed the dispatcher with reports in its queue
\*     (callbacks.cc:448), or has ended the 1 ms timer, after which nothing polls
\*     on a reconnected producer (high-level-producer.js:113), or
\*   - a message sent twice has given back a reference that was not its own, so
\*     that nothing polls for this one (ref-counter.js:36,48).
CallbackComes ==
  \A m \in Messages :
    listeners[m] > 0 ~> \/ answers[m] > 0
                        \/ \A c \in Taken(m) : rk[m][c] = "lost"
                        \/ stranded \/ stopped \/ ReturnedTwice # {}

\* What the user asked for last is the interval in force or, before 'ready', the
\* setting that waits for it; unless it turned off or replaced, connected but not
\* 'ready' or not connected at all, an older setting that was waiting and overrides
\* it, or a disconnect() has turned it off (producer.js:187-230; client.js:199-221).
\* On a producer that is 'ready' nothing waits.
IntervalAsAsked ==
  /\ conn \in {"up", "leaving", "deleted"} => onReady = 0
  /\ ~overtaken /\ ~dropped => wanted = (IF onReady # 0 THEN onReady ELSE interval)

\* README.md:263: the producer is polled on the interval, "handling
\* disconnections and reconnection".
PollsOnInterval == conn = "up" /\ wanted # 0 => interval # 0
=============================================================================
