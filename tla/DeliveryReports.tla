--------------------------- MODULE DeliveryReports ---------------------------
(***************************************************************************)
(* How delivery reports travel from librdkafka to JavaScript               *)
(* (src/src/callbacks.cc: Delivery, DeliveryReportDispatcher, Dispatcher;  *)
(* Producer::ActivateDispatchers and the workers that call it).  librdkafka*)
(* hands reports to Delivery::dr_cb on the thread that calls poll (the     *)
(* JavaScript thread) or flush (a pool thread).  dr_cb appends to a queue  *)
(* and wakes the JavaScript thread through a libuv async handle, whose     *)
(* sends coalesce; the JavaScript thread empties the queue in batches.     *)
(* Reports are numbered in the order librdkafka has them ready.            *)
(***************************************************************************)
EXTENDS Naturals, Sequences, SequencesExt

CONSTANTS Main,        \* the JavaScript thread, which polls
          Flushers,    \* pool threads that run producer.flush
          Batch,       \* reports taken at a time (100 in the code)
          MaxReports   \* bound on the reports of one behaviour

Threads == Flushers \cup {Main}
Reports == 1..MaxReports
None == 0

ASSUME ConstantsAssumption ==
  /\ Main \notin Flushers
  /\ Batch \in Nat \ {0}
  /\ MaxReports \in Nat

VARIABLES session,    \* the connection as JavaScript and the workers see it
          known,      \* reports librdkafka has produced so far
          rk,         \* librdkafka's queue of reports nobody has polled yet
          pc, cur,    \* each thread's place in dr_cb, and its report
          events,     \* DeliveryReportDispatcher::events
          async,      \* the uv_async_t exists
          signal,     \* it has a send that the loop has not served yet
          dpc,        \* the JavaScript thread's place in Flush
          batch,      \* events_list: taken from the queue, not dispatched yet
          more,       \* outstanding_event_count > events_list.size()
          reported,   \* history: what JavaScript received, in order
          added,      \* history: the reports each thread added, in order
          stranded    \* history: a connection began with reports left over

net == <<session, known, rk>>
serving == <<pc, cur, added>>
flushing == <<dpc, batch, more, reported>>
vars == <<session, known, rk, pc, cur, events, async, signal, dpc, batch, more,
          reported, added, stranded>>

Init ==
  /\ session = "down"
  /\ known = 0
  /\ rk = <<>>
  /\ pc = [t \in Threads |-> "idle"]
  /\ cur = [t \in Threads |-> None]
  /\ events = <<>>
  /\ async = FALSE
  /\ signal = FALSE
  /\ dpc = "idle"
  /\ batch = <<>>
  /\ more = FALSE
  /\ reported = <<>>
  /\ added = [t \in Threads |-> <<>>]
  /\ stranded = FALSE

-----------------------------------------------------------------------------
(* librdkafka and the connection.                                           *)

\* The JavaScript thread can run the next callback of its event loop.
MainFree == pc[Main] = "idle" /\ dpc = "idle"

\* A message is acknowledged or fails: its report is ready to be polled.
Ready ==
  /\ session \in {"up", "closing"}
  /\ known < MaxReports
  /\ known' = known + 1
  /\ rk' = Append(rk, known')
  /\ UNCHANGED <<session, serving, events, async, signal, flushing, stranded>>

\* ProducerConnect::HandleOKCallback: Activate creates the async handle.
Connected ==
  /\ session = "down"
  /\ MainFree
  /\ session' = "up"
  /\ async' = TRUE
  /\ stranded' = (stranded \/ events # <<>>)
  /\ UNCHANGED <<known, rk, serving, events, signal, flushing>>

\* disconnect() has queued the job; polling goes on until the client is gone.
Disconnecting ==
  /\ session = "up"
  /\ session' = "closing"
  /\ UNCHANGED <<known, rk, serving, events, async, signal, flushing, stranded>>

\* Producer::Disconnect deletes the client, and what nobody polled with it.
\* The write lock waits for flush; that no poll is running is what
\* NativeHandle!PollUseLive is about, and assumed here.
ClientDeleted ==
  /\ session = "closing"
  /\ \A t \in Threads : pc[t] = "idle"
  /\ session' = "deleted"
  /\ rk' = <<>>
  /\ UNCHANGED <<known, serving, events, async, signal, flushing, stranded>>

\* ProducerDisconnect::HandleOKCallback: Deactivate closes the handle, and a
\* send still pending is never served.  The queue is left as it is.
Disconnected ==
  /\ session = "deleted"
  /\ MainFree
  /\ session' = "down"
  /\ async' = FALSE
  /\ signal' = FALSE
  /\ UNCHANGED <<known, rk, serving, events, flushing, stranded>>

-----------------------------------------------------------------------------
(* Delivery::dr_cb on thread t.                                             *)

\* poll may also be called by the code that receives a report, inside Flush.
Serve(t) ==
  /\ session \in {"up", "closing"}
  /\ pc[t] = "idle"
  /\ t = Main => dpc # "take"
  /\ rk # <<>>
  /\ cur' = [cur EXCEPT ![t] = Head(rk)]
  /\ rk' = Tail(rk)
  /\ pc' = [pc EXCEPT ![t] = "add"]
  /\ UNCHANGED <<session, known, events, async, signal, flushing, added, stranded>>

\* Plausible bug: the report goes to the head of the queue.
AddInFront(t) ==
  /\ pc[t] = "add"
  /\ events' = <<cur[t]>> \o events
  /\ added' = [added EXCEPT ![t] = Append(@, cur[t])]
  /\ cur' = [cur EXCEPT ![t] = None]
  /\ pc' = [pc EXCEPT ![t] = IF Len(events') = 1 THEN "send" ELSE "idle"]
  /\ UNCHANGED <<net, async, signal, flushing, stranded>>

\* Add returns the queue's length, and dr_cb goes on to Execute if it is 1.
Add(t) ==
  /\ pc[t] = "add"
  /\ events' = Append(events, cur[t])
  /\ added' = [added EXCEPT ![t] = Append(@, cur[t])]
  /\ cur' = [cur EXCEPT ![t] = None]
  /\ pc' = [pc EXCEPT ![t] = IF Len(events') = 1 THEN "send" ELSE "idle"]
  /\ UNCHANGED <<net, async, signal, flushing, stranded>>

\* Dispatcher::Execute.
Execute == signal' = (signal \/ async)

Send(t) ==
  /\ pc[t] = "send"
  /\ Execute
  /\ pc' = [pc EXCEPT ![t] = "idle"]
  /\ UNCHANGED <<net, cur, added, events, async, flushing, stranded>>

DrCb(t) == Serve(t) \/ Add(t) \/ Send(t)

-----------------------------------------------------------------------------
(* DeliveryReportDispatcher::Flush on the JavaScript thread.                *)

\* The event loop serves the handle: its send is consumed before the callback.
Wake ==
  /\ MainFree
  /\ signal
  /\ signal' = FALSE
  /\ dpc' = "take"
  /\ UNCHANGED <<net, serving, events, async, batch, more, reported, stranded>>

\* Plausible bug: the whole queue is dropped after taking a batch of it.
TakeAndClear ==
  /\ dpc = "take"
  /\ LET n == IF Len(events) < Batch THEN Len(events) ELSE Batch
     IN  /\ batch' = SubSeq(events, 1, n)
         /\ events' = <<>>
         /\ more' = (Len(events) > n)
  /\ dpc' = "dispatch"
  /\ UNCHANGED <<net, serving, async, signal, reported, stranded>>

\* Plausible bug: one report left in the queue is not counted.
TakeMiscounts ==
  /\ dpc = "take"
  /\ LET n == IF Len(events) < Batch THEN Len(events) ELSE Batch
     IN  /\ batch' = SubSeq(events, 1, n)
         /\ events' = SubSeq(events, n + 1, Len(events))
         /\ more' = (Len(events) > n + 1)
  /\ dpc' = "dispatch"
  /\ UNCHANGED <<net, serving, async, signal, reported, stranded>>

\* Under the mutex: the oldest Batch reports, in order.
Take ==
  /\ dpc = "take"
  /\ LET n == IF Len(events) < Batch THEN Len(events) ELSE Batch
     IN  /\ batch' = SubSeq(events, 1, n)
         /\ events' = SubSeq(events, n + 1, Len(events))
         /\ more' = (Len(events) > n)
  /\ dpc' = "dispatch"
  /\ UNCHANGED <<net, serving, async, signal, reported, stranded>>

\* One report goes to the JavaScript callbacks.
Dispatch ==
  /\ dpc = "dispatch"
  /\ pc[Main] = "idle"
  /\ batch # <<>>
  /\ reported' = Append(reported, Head(batch))
  /\ batch' = Tail(batch)
  /\ UNCHANGED <<net, serving, events, async, signal, dpc, more, stranded>>

\* Plausible bug: the rest of the queue is forgotten.
FlushEndsForgetful ==
  /\ dpc = "dispatch"
  /\ pc[Main] = "idle"
  /\ batch = <<>>
  /\ dpc' = "idle"
  /\ more' = FALSE
  /\ UNCHANGED <<net, serving, events, async, signal, batch, reported, stranded>>

\* If reports were left in the queue, the thread wakes itself up again.
FlushEnds ==
  /\ dpc = "dispatch"
  /\ pc[Main] = "idle"
  /\ batch = <<>>
  /\ IF more THEN Execute ELSE UNCHANGED signal
  /\ dpc' = "idle"
  /\ more' = FALSE
  /\ UNCHANGED <<net, serving, events, async, batch, reported, stranded>>

Flush == Wake \/ Take \/ Dispatch \/ FlushEnds

-----------------------------------------------------------------------------
Next ==
  \/ Ready \/ Connected \/ Disconnecting \/ ClientDeleted \/ Disconnected
  \/ \E t \in Threads : DrCb(t)
  \/ Flush

\* A thread inside dr_cb goes on, and the event loop serves its handles.
\* Nothing obliges the program to poll, flush, connect or disconnect.
Fairness ==
  /\ \A t \in Threads : WF_vars(Add(t) \/ Send(t))
  /\ WF_vars(Flush)

Spec == Init /\ [][Next]_vars /\ Fairness

-----------------------------------------------------------------------------
TypeOK ==
  /\ session \in {"down", "up", "closing", "deleted"}
  /\ known \in 0..MaxReports
  /\ rk \in Seq(Reports)
  /\ pc \in [Threads -> {"idle", "add", "send"}]
  /\ cur \in [Threads -> Reports \cup {None}]
  /\ events \in Seq(Reports)
  /\ async \in BOOLEAN
  /\ signal \in BOOLEAN
  /\ dpc \in {"idle", "take", "dispatch"}
  /\ batch \in Seq(Reports)
  /\ more \in BOOLEAN
  /\ reported \in Seq(Reports)
  /\ added \in [Threads -> Seq(Reports)]
  /\ stranded \in BOOLEAN

\* Someone is about to look at the queue.
WakeupComing ==
  \/ signal
  \/ dpc = "take"
  \/ dpc = "dispatch" /\ more
  \/ \E t \in Threads : pc[t] = "send"

\* Between a connection that found the queue empty and its end, no report sits
\* in the queue without a wake-up on its way, although dr_cb sends one only
\* for the first report and sends coalesce (callbacks.cc:272-294,366-368,448).
NoLostWakeup == async /\ events # <<>> => WakeupComing \/ stranded

\* The invariant NoLostWakeup follows from: types; nothing is signalled,
\* flushed or served without the handle, and dr_cb only runs with a client
\* (the lifetimes Activate and Deactivate keep, callbacks.cc:67-92).
LifetimeInv ==
  /\ async <=> session # "down"
  /\ signal \/ dpc # "idle" => async
  /\ \A t \in Threads : /\ pc[t] # "idle" => session \in {"up", "closing"}
                        /\ pc[t] = "add" => cur[t] # None

DispatchInv == TypeOK /\ LifetimeInv /\ NoLostWakeup

\* Of what a holds, s has a part from its beginning, in the order of a.
InOrder(a, s) ==
  \A j \in DOMAIN a, l \in DOMAIN s :
    s[l] = a[j] => \A i \in 1..(j - 1) : \E k \in 1..(l - 1) : s[k] = a[i]

\* Reports reach JavaScript at most once, and those added by one thread in the
\* order it added them, whatever other threads add in between; none overtakes
\* or is skipped (callbacks.cc:272-294, 375-451).
PerThreadOrder ==
  /\ IsInjective(reported)
  /\ \A t \in Threads : InOrder(added[t], reported)

\* The invariant PerThreadOrder and KeepsPromise follow from: a report is in one
\* place only, and what has been added is handed over, taken and queued in this
\* order.
Line == (reported \o batch) \o events
Adding == {t \in Threads : pc[t] = "add"}
OnePlaceInv ==
  /\ dpc # "dispatch" => batch = <<>>
  /\ IsInjective(Line) /\ IsInjective(rk)
  /\ ToSet(Line) \cap ToSet(rk) = {}
  /\ \A t \in Adding : cur[t] \notin ToSet(Line) \cup ToSet(rk)
  /\ \A t, u \in Adding : cur[t] = cur[u] => t = u
  /\ ToSet(Line) \cup ToSet(rk) \cup {cur[t] : t \in Adding} \subseteq 1..known
  /\ \A t \in Threads : ToSet(added[t]) \subseteq ToSet(Line) /\ InOrder(added[t], Line)

\* A report that dr_cb has taken over while the producer is connected reaches
\* JavaScript, unless a disconnect comes first.
ReportsReachJS ==
  \A m \in Reports :
    (session = "up" /\ Contains(events, m) /\ ~stranded) ~>
       (Contains(reported, m) \/ session # "up")

\* The dispatcher keeps the promise of ReportChannel: at most once, and given
\* up only by deleting the client.
Waiting == ToSet(rk) \cup ToSet(events) \cup ToSet(batch) \cup {cur[t] : t \in Adding}

Channel == INSTANCE ReportChannel WITH
  open <- session \in {"up", "closing"},
  waiting <- Waiting

KeepsPromise == Channel!Spec

\* A delivery report found by polling reaches JavaScript, also after the
\* producer has been disconnected and connected again.
NoReportStranded == async /\ events # <<>> => WakeupComing
=============================================================================
