----------------------- MODULE DeliveryReportsProofs -----------------------
(* For any set of flushing threads, batch size and number of reports, the   *)
(* dispatcher loses no wake-up while a connection lasts.  DispatchInv is    *)
(* inductive: NoLostWakeup alone is not, because FlushEnds relies on the    *)
(* handle being there when the flush ends, and Send on its being there when *)
(* dr_cb sends (LifetimeInv).                                               *)
EXTENDS DeliveryReports, SequenceFacts, TLAPS

USE ConstantsAssumption

\* Init: nothing is queued and there is no handle (Dispatcher::Dispatcher).
LEMMA InitInv == Init => DispatchInv
<1> SUFFICES ASSUME Init PROVE DispatchInv
  OBVIOUS
<1>1. TypeOK
  <2>1. <<>> \in Seq(Reports)  OBVIOUS
  <2>2. added \in [Threads -> Seq(Reports)]  BY <2>1 DEF Init
  <2>3. cur \in [Threads -> Reports \cup {None}] /\ pc \in [Threads -> {"idle", "add", "send"}]
    BY DEF Init
  <2>4. known \in 0..MaxReports  BY DEF Init
  <2> QED  BY <2>1, <2>2, <2>3, <2>4, Zenon DEF Init, TypeOK
<1>2. LifetimeInv /\ NoLostWakeup
  BY DEF Init, LifetimeInv, NoLostWakeup
<1> QED  BY <1>1, <1>2 DEF DispatchInv

\* The queue operations dr_cb and Flush use stay within sequences.
LEMMA QueueFacts ==
  ASSUME NEW s \in Seq(Reports)
  PROVE  /\ \A m \in Reports : Append(s, m) \in Seq(Reports) /\ Append(s, m) # <<>>
         /\ s # <<>> => Head(s) \in Reports /\ Tail(s) \in Seq(Reports)
         /\ \A n \in 0..Len(s) :
              /\ SubSeq(s, 1, n) \in Seq(Reports)
              /\ SubSeq(s, n + 1, Len(s)) \in Seq(Reports)
              /\ n = Len(s) => SubSeq(s, n + 1, Len(s)) = <<>>
         /\ s # <<>> <=> Len(s) > 0
  OBVIOUS

\* Connection steps (Activate, Deactivate, Producer::Disconnect) preserve it.
LEMMA SessionStep ==
  ASSUME DispatchInv,
         Ready \/ Connected \/ Disconnecting \/ ClientDeleted \/ Disconnected
  PROVE  DispatchInv'
<1> USE DEF DispatchInv, TypeOK, LifetimeInv, NoLostWakeup, WakeupComing, Threads,
            MainFree, serving, flushing
<1>1. CASE Ready
  <2>1. known + 1 \in Reports /\ known + 1 \in 0..MaxReports
    BY <1>1 DEF Ready, Reports
  <2> QED  BY <1>1, <2>1, QueueFacts DEF Ready
<1>2. CASE Connected  BY <1>2 DEF Connected
<1>3. CASE Disconnecting  BY <1>3 DEF Disconnecting
<1>4. CASE ClientDeleted  BY <1>4 DEF ClientDeleted
<1>5. CASE Disconnected
  <2>1. \A t \in Threads : pc[t] = "idle"  BY <1>5 DEF Disconnected
  <2> QED  BY <1>5, <2>1 DEF Disconnected
<1> QED  BY <1>1, <1>2, <1>3, <1>4, <1>5

\* dr_cb on any thread (Delivery::dr_cb) preserves it.
LEMMA DrCbStep ==
  ASSUME DispatchInv, NEW t \in Threads, DrCb(t)
  PROVE  DispatchInv'
<1> USE DEF DispatchInv, TypeOK, LifetimeInv, NoLostWakeup, WakeupComing,
            net, flushing
<1>1. CASE Serve(t)
  <2>1. Head(rk) \in Reports /\ Tail(rk) \in Seq(Reports)
    BY <1>1, QueueFacts DEF Serve
  <2>2. Head(rk) # None  BY <2>1 DEF Reports, None
  <2> QED  BY <1>1, <2>1, <2>2 DEF Serve
<1>2. CASE Add(t)
  <2>1. cur[t] \in Reports  BY <1>2 DEF Add
  <2>2. Append(events, cur[t]) \in Seq(Reports) /\ events' # <<>>
    BY <1>2, <2>1, QueueFacts DEF Add
  <2>3. Append(added[t], cur[t]) \in Seq(Reports)
    BY <2>1, QueueFacts
  <2>4. TypeOK' /\ LifetimeInv'
    BY <1>2, <2>2, <2>3 DEF Add, None
  <2>5. NoLostWakeup'
    <3>1. CASE events = <<>>
      <4>1. pc'[t] = "send"  BY <1>2, <2>1, <3>1 DEF Add
      <4> QED  BY <4>1
    <3>2. CASE events # <<>>
      <4>1. \A u \in Threads : pc[u] = "send" => pc'[u] = "send"
        BY <1>2 DEF Add
      <4> QED  BY <1>2, <3>2, <4>1 DEF Add
    <3> QED  BY <3>1, <3>2
  <2> QED  BY <2>4, <2>5
<1>3. CASE Send(t)
  <2>1. async /\ signal' = TRUE  BY <1>3 DEF Send, Execute
  <2>2. TypeOK' /\ LifetimeInv'  BY <1>3, <2>1 DEF Send, Threads
  <2>3. NoLostWakeup'  BY <2>1
  <2> QED  BY <2>2, <2>3
<1> QED  BY <1>1, <1>2, <1>3 DEF DrCb

\* A flush of the queue (DeliveryReportDispatcher::Flush) preserves it.
LEMMA FlushStep ==
  ASSUME DispatchInv, Flush
  PROVE  DispatchInv'
<1> USE DEF DispatchInv, TypeOK, LifetimeInv, NoLostWakeup, WakeupComing,
            net, serving
<1>1. CASE Wake  BY <1>1 DEF Wake
<1>2. CASE Take
  <2> DEFINE n == IF Len(events) < Batch THEN Len(events) ELSE Batch
  <2>1. n \in 0..Len(events)  OBVIOUS
  <2>2. batch' = SubSeq(events, 1, n) /\ events' = SubSeq(events, n + 1, Len(events))
        /\ more' = (Len(events) > n)
    BY <1>2 DEF Take
  <2> HIDE DEF n
  <2>3. batch' \in Seq(Reports) /\ events' \in Seq(Reports) /\ (events' # <<>> => more')
    <3>1. /\ SubSeq(events, 1, n) \in Seq(Reports)
          /\ SubSeq(events, n + 1, Len(events)) \in Seq(Reports)
          /\ n = Len(events) => SubSeq(events, n + 1, Len(events)) = <<>>
      BY <2>1, QueueFacts, Zenon
    <3>2. n # Len(events) => Len(events) > n  BY <2>1
    <3> QED  BY <2>2, <3>1, <3>2, Zenon
  <2>4. TypeOK' /\ LifetimeInv'
    BY <1>2, <2>2, <2>3 DEF Take
  <2> QED  BY <1>2, <2>3, <2>4 DEF Take
<1>3. CASE Dispatch
  BY <1>3, QueueFacts DEF Dispatch
<1>4. CASE FlushEnds
  BY <1>4 DEF FlushEnds, Execute
<1> QED  BY <1>1, <1>2, <1>3, <1>4 DEF Flush

\* Every step, or none, preserves it.
LEMMA NextInv == DispatchInv /\ [Next]_vars => DispatchInv'
<1> SUFFICES ASSUME DispatchInv, [Next]_vars PROVE DispatchInv'
  OBVIOUS
<1>1. CASE UNCHANGED vars
  BY <1>1 DEF vars, DispatchInv, TypeOK, LifetimeInv, NoLostWakeup, WakeupComing
<1>2. CASE Next
  BY <1>2, SessionStep, DrCbStep, FlushStep DEF Next
<1> QED  BY <1>1, <1>2

\* DispatchInv holds of every behaviour: the types, the handle's lifetime
\* (Activate and Deactivate, callbacks.cc:67-82) and the wake-ups.
THEOREM DispatchSafe == Spec => []DispatchInv
  BY InitInv, NextInv, PTL DEF Spec

\* A queued report always has a wake-up on its way unless the connection
\* began with reports left over (callbacks.cc:272-294, 366-368, 442-451).
THEOREM WakeupsNotLost == Spec => []NoLostWakeup
<1>1. DispatchInv => NoLostWakeup  BY DEF DispatchInv
<1> QED  BY <1>1, DispatchSafe, PTL

-----------------------------------------------------------------------------
(* Where the reports are, and in which order.                               *)

\* The reports are numbers.
LEMMA ReportsAreNumbers ==
  ASSUME TypeOK
  PROVE  /\ rk \in Seq(Nat) /\ events \in Seq(Nat) /\ batch \in Seq(Nat) /\ reported \in Seq(Nat)
         /\ \A t \in Threads : added[t] \in Seq(Nat)
         /\ reported \o batch \in Seq(Nat) /\ Line \in Seq(Nat)
<1>1. Seq(Reports) \subseteq Seq(Nat)
  BY DEF Reports
<1>2. /\ rk \in Seq(Nat) /\ events \in Seq(Nat) /\ batch \in Seq(Nat) /\ reported \in Seq(Nat)
      /\ \A t \in Threads : added[t] \in Seq(Nat)
  BY <1>1 DEF TypeOK
<1> QED  BY <1>2 DEF Line

\* A new report at the end disturbs no order, and may end the one of its thread.
LEMMA OrderAppend ==
  ASSUME NEW a \in Seq(Nat), NEW s \in Seq(Nat), NEW n \in Nat,
         n \notin ToSet(s), ToSet(a) \subseteq ToSet(s), InOrder(a, s)
  PROVE  InOrder(a, Append(s, n)) /\ InOrder(Append(a, n), Append(s, n))
<1> DEFINE b == Append(a, n)
           z == Append(s, n)
<1>1. /\ DOMAIN a = 1..Len(a) /\ DOMAIN b = 1..(Len(a) + 1) /\ Len(a) \in Nat
      /\ \A i \in 1..Len(a) : b[i] = a[i]
      /\ b[Len(a) + 1] = n
  BY AppendFacts
<1>2. /\ DOMAIN s = 1..Len(s) /\ DOMAIN z = 1..(Len(s) + 1) /\ Len(s) \in Nat
      /\ \A i \in 1..Len(s) : z[i] = s[i]
      /\ z[Len(s) + 1] = n
  BY AppendFacts
<1> HIDE DEF b, z
<1>3. \A i \in 1..Len(s) : s[i] # n
  BY <1>2 DEF ToSet
<1>4. ASSUME NEW j \in 1..Len(a) PROVE a[j] # n /\ \E k \in 1..Len(s) : s[k] = a[j]
  <2>1. a[j] \in ToSet(s)
    BY <1>1, Zenon DEF ToSet
  <2> QED  BY <1>2, <2>1, Zenon DEF ToSet
<1>9. \A j \in 1..Len(a), l \in 1..Len(s) :
        s[l] = a[j] => \A i \in 1..(j - 1) : \E k \in 1..(l - 1) : s[k] = a[i]
  <2>1. DOMAIN a = 1..Len(a) /\ DOMAIN s = 1..Len(s)
    BY <1>1, <1>2
  <2> QED  BY <2>1, Zenon DEF InOrder
<1>5. ASSUME NEW j \in 1..Len(a), NEW l \in 1..(Len(s) + 1), z[l] = a[j],
             NEW i \in 1..(j - 1)
      PROVE  \E k \in 1..(l - 1) : z[k] = a[i]
  <2>1. l \in 1..Len(s) /\ s[l] = a[j]
    BY <1>2, <1>4, <1>5
  <2>2. PICK k \in 1..(l - 1) : s[k] = a[i]
    BY <1>5, <1>9, <2>1
  <2> QED  BY <1>2, <2>1, <2>2
<1>6. ASSUME NEW l \in 1..(Len(s) + 1), z[l] = n, NEW i \in 1..Len(a)
      PROVE  \E k \in 1..(l - 1) : z[k] = a[i]
  <2>1. l = Len(s) + 1
    BY <1>2, <1>3, <1>6
  <2>2. PICK k \in 1..Len(s) : s[k] = a[i]
    BY <1>4
  <2>3. k \in 1..(l - 1) /\ z[k] = a[i]
    BY <1>2, <2>1, <2>2
  <2> QED  BY <2>3
<1>7. InOrder(a, z)
  <2>1. DOMAIN a = 1..Len(a) /\ DOMAIN z = 1..(Len(s) + 1)
    BY <1>1, <1>2
  <2> QED  BY <1>5, <2>1, Zenon DEF InOrder
<1>8. InOrder(b, z)
  <2> SUFFICES ASSUME NEW j \in 1..(Len(a) + 1), NEW l \in 1..(Len(s) + 1), z[l] = b[j],
                      NEW i \in 1..(j - 1)
               PROVE  \E k \in 1..(l - 1) : z[k] = b[i]
    <3>1. DOMAIN b = 1..(Len(a) + 1) /\ DOMAIN z = 1..(Len(s) + 1)
      BY <1>1, <1>2
    <3> QED  BY <3>1, Zenon DEF InOrder
  <2>1. i \in 1..Len(a) /\ b[i] = a[i]
    BY <1>1
  <2>2. CASE j \in 1..Len(a)
    <3>1. z[l] = a[j]
      BY <1>1, <2>2
    <3>2. \E k \in 1..(l - 1) : z[k] = a[i]
      BY <1>5, <2>2, <3>1
    <3> QED  BY <2>1, <3>2
  <2>3. CASE j = Len(a) + 1
    <3>1. z[l] = n
      BY <1>1, <2>3
    <3>2. \E k \in 1..(l - 1) : z[k] = a[i]
      BY <1>6, <2>1, <3>1
    <3> QED  BY <2>1, <3>2
  <2>4. j \in 1..Len(a) \/ j = Len(a) + 1
    BY <1>1
  <2> QED  BY <2>2, <2>3, <2>4
<1> QED  BY <1>7, <1>8 DEF b, z

\* What is in order is so in what comes first.
LEMMA OrderPrefix ==
  ASSUME NEW a \in Seq(Nat), NEW s \in Seq(Nat), NEW u \in Seq(Nat), InOrder(a, s \o u)
  PROVE  InOrder(a, s)
<1> DEFINE z == s \o u
<1>1. /\ DOMAIN s = 1..Len(s) /\ Len(s) \in Nat /\ Len(u) \in Nat
      /\ DOMAIN z = 1..(Len(s) + Len(u))
      /\ \A i \in 1..(Len(s) + Len(u)) : i <= Len(s) => z[i] = s[i]
  BY ConcatFacts
<1>2. \A j \in DOMAIN a, l \in DOMAIN z :
        z[l] = a[j] => \A i \in 1..(j - 1) : \E k \in 1..(l - 1) : z[k] = a[i]
  BY DEF InOrder
<1> HIDE DEF z
<1> SUFFICES ASSUME NEW j \in DOMAIN a, NEW l \in DOMAIN s, s[l] = a[j], NEW i \in 1..(j - 1)
             PROVE  \E k \in 1..(l - 1) : s[k] = a[i]
  BY DEF InOrder
<1>3. l \in 1..Len(s) /\ l \in DOMAIN z /\ z[l] = a[j]
  BY <1>1
<1>4. PICK k \in 1..(l - 1) : z[k] = a[i]
  BY <1>2, <1>3
<1>5. k \in 1..(Len(s) + Len(u)) /\ k <= Len(s)
  BY <1>1, <1>3
<1> QED  BY <1>1, <1>4, <1>5

\* What OnePlaceInv is about.
places == <<known, rk, pc, cur, events, dpc, batch, reported, added>>

\* A step that leaves the order, and what each thread has added, alone.
LEMMA SameLine ==
  ASSUME OnePlaceInv, Line' = Line, added' = added,
         dpc' # "dispatch" => batch' = <<>>,
         IsInjective(rk'), ToSet(Line) \cap ToSet(rk') = {},
         \A t \in Adding' : cur'[t] \notin ToSet(Line) \cup ToSet(rk'),
         \A t, u \in Adding' : cur'[t] = cur'[u] => t = u,
         ToSet(Line) \cup ToSet(rk') \cup {cur'[t] : t \in Adding'} \subseteq 1..known'
  PROVE  OnePlaceInv'
<1> DEFINE L == Line
           M == Line'
<1>1. /\ \A t \in Threads : ToSet(added[t]) \subseteq ToSet(L) /\ InOrder(added[t], L)
      /\ IsInjective(L)
  BY DEF OnePlaceInv
<1> HIDE DEF L
<1>2. L = M
  BY DEF L
<1> HIDE DEF M
<1>3. \A t \in Threads : ToSet(added'[t]) \subseteq ToSet(M) /\ InOrder(added'[t], M)
  BY <1>1, <1>2
<1>4. IsInjective(M)
  BY <1>1, <1>2
<1>5. /\ IsInjective(Line') /\ ToSet(Line') \cap ToSet(rk') = {}
      /\ \A t \in Adding' : cur'[t] \notin ToSet(Line') \cup ToSet(rk')
      /\ ToSet(Line') \cup ToSet(rk') \cup {cur'[t] : t \in Adding'} \subseteq 1..known'
      /\ \A t \in Threads : ToSet(added'[t]) \subseteq ToSet(Line') /\ InOrder(added'[t], Line')
  BY <1>3, <1>4 DEF M
<1> QED  BY <1>5, Zenon DEF OnePlaceInv

\* Nor does it move a report into dr_cb or out of librdkafka's queue.
LEMMA SamePlaces ==
  ASSUME OnePlaceInv, Line' = Line, Adding' = Adding, UNCHANGED <<known, rk, cur, added>>,
         dpc' # "dispatch" => batch' = <<>>
  PROVE  OnePlaceInv'
<1>1. {cur'[t] : t \in Adding'} = {cur[t] : t \in Adding}
  OBVIOUS
<1>2. /\ IsInjective(rk') /\ ToSet(Line) \cap ToSet(rk') = {}
      /\ \A t \in Adding' : cur'[t] \notin ToSet(Line) \cup ToSet(rk')
      /\ \A t, u \in Adding' : cur'[t] = cur'[u] => t = u
  BY DEF OnePlaceInv
<1>3. ToSet(Line) \cup ToSet(rk') \cup {cur'[t] : t \in Adding'} \subseteq 1..known'
  BY <1>1 DEF OnePlaceInv
<1> QED  BY <1>2, <1>3, SameLine

\* A report is ready (librdkafka).
LEMMA ReadyPlaces ==
  ASSUME DispatchInv, OnePlaceInv, Ready
  PROVE  OnePlaceInv'
<1>1. /\ known \in Nat /\ rk' = Append(rk, known + 1) /\ known' = known + 1
      /\ UNCHANGED <<pc, cur, events, dpc, batch, reported, added>>
  BY DEF Ready, serving, flushing, DispatchInv, TypeOK
<1>2. Line' = Line /\ Adding' = Adding /\ rk \in Seq(Nat)
  BY <1>1, ReportsAreNumbers DEF Line, Adding, DispatchInv
<1>3. known + 1 \notin 1..known /\ 1..known \subseteq 1..(known + 1) /\ known + 1 \in 1..(known + 1)
  BY <1>1
<1>4. ToSet(rk') = ToSet(rk) \cup {known + 1} /\ (known + 1 \notin ToSet(rk) => IsInjective(rk'))
  BY <1>1, <1>2, AppendFacts DEF OnePlaceInv
<1>5. known + 1 \notin ToSet(Line) \cup ToSet(rk) \cup {cur[t] : t \in Adding}
  BY <1>3 DEF OnePlaceInv
<1>6. \A t \in Adding : cur[t] # known + 1
  BY <1>5
<1>7. IsInjective(rk') /\ ToSet(Line) \cap ToSet(rk') = {}
  BY <1>4, <1>5 DEF OnePlaceInv
<1>8. \A t \in Adding' : cur'[t] \notin ToSet(Line) \cup ToSet(rk')
  BY <1>1, <1>2, <1>4, <1>6 DEF OnePlaceInv
<1>9. \A t, u \in Adding' : cur'[t] = cur'[u] => t = u
  BY <1>1, <1>2 DEF OnePlaceInv
<1>10. {cur'[t] : t \in Adding'} = {cur[t] : t \in Adding}
  BY <1>1, <1>2
<1>11. ToSet(Line) \cup ToSet(rk') \cup {cur'[t] : t \in Adding'} \subseteq 1..known'
  BY <1>1, <1>3, <1>4, <1>10 DEF OnePlaceInv
<1>12. dpc' # "dispatch" => batch' = <<>>
  BY <1>1 DEF OnePlaceInv
<1> QED  BY <1>1, <1>2, <1>7, <1>8, <1>9, <1>11, <1>12, SameLine

\* Thread t takes a report over from librdkafka (Delivery::dr_cb).
LEMMA ServePlaces ==
  ASSUME DispatchInv, OnePlaceInv, NEW t \in Threads, Serve(t)
  PROVE  OnePlaceInv'
<1>1. /\ rk # <<>> /\ rk' = Tail(rk) /\ pc[t] = "idle"
      /\ cur' = [cur EXCEPT ![t] = Head(rk)] /\ pc' = [pc EXCEPT ![t] = "add"]
      /\ UNCHANGED <<known, events, dpc, batch, reported, added>>
  BY DEF Serve, flushing
<1>2. rk \in Seq(Nat) /\ pc \in [Threads -> {"idle", "add", "send"}] /\ DOMAIN cur = Threads
  BY ReportsAreNumbers DEF DispatchInv, TypeOK
<1>3. Line' = Line /\ Adding' = Adding \cup {t} /\ t \notin Adding /\ cur'[t] = Head(rk)
  BY <1>1, <1>2 DEF Line, Adding
<1>4. \A u \in Adding : u # t /\ cur'[u] = cur[u]
  BY <1>1, <1>2, <1>3 DEF Adding
<1>5. /\ ToSet(rk) = {Head(rk)} \cup ToSet(rk') /\ Head(rk) \notin ToSet(rk')
      /\ IsInjective(rk') /\ Head(rk) \in ToSet(rk)
  BY <1>1, <1>2, HeadFacts DEF OnePlaceInv
<1>6. \A u \in Adding : cur[u] # Head(rk)
  BY <1>5 DEF OnePlaceInv
<1>7. \A u \in Adding' : cur'[u] \notin ToSet(Line) \cup ToSet(rk')
  BY <1>3, <1>4, <1>5 DEF OnePlaceInv
<1>8. \A u, v \in Adding' : cur'[u] = cur'[v] => u = v
  BY <1>3, <1>4, <1>6 DEF OnePlaceInv
<1>9. ToSet(Line) \cup ToSet(rk') \cup {cur'[u] : u \in Adding'} \subseteq 1..known
  BY <1>3, <1>4, <1>5 DEF OnePlaceInv
<1> QED  BY <1>1, <1>3, <1>5, <1>7, <1>8, <1>9, SameLine, Zenon DEF OnePlaceInv

\* Thread t adds its report (DeliveryReportDispatcher::Add).
LEMMA AddPlaces ==
  ASSUME DispatchInv, OnePlaceInv, NEW t \in Threads, Add(t)
  PROVE  OnePlaceInv' /\ Line' = Append(Line, cur[t]) /\ Adding' = Adding \ {t}
<1>1. /\ pc[t] = "add" /\ events' = Append(events, cur[t])
      /\ added' = [added EXCEPT ![t] = Append(@, cur[t])]
      /\ cur' = [cur EXCEPT ![t] = None]
      /\ pc'[t] # "add" /\ \A u \in Threads : u # t => pc'[u] = pc[u]
      /\ UNCHANGED <<known, rk, dpc, batch, reported>>
  BY DEF Add, net, flushing, DispatchInv, TypeOK
<1>2. /\ Line \in Seq(Nat) /\ events \in Seq(Nat) /\ reported \o batch \in Seq(Nat)
      /\ \A u \in Threads : added[u] \in Seq(Nat)
      /\ cur \in [Threads -> Reports \cup {None}] /\ DOMAIN added = Threads
  BY ReportsAreNumbers DEF DispatchInv, TypeOK
<1>3. t \in Adding /\ Adding' = Adding \ {t} /\ \A u \in Adding' : u # t /\ cur'[u] = cur[u]
  BY <1>1, <1>2 DEF Adding
<1> DEFINE n == cur[t]
<1>4. n \in Nat /\ n \in 1..known /\ n \notin ToSet(Line) /\ n \notin ToSet(rk)
  BY <1>2, <1>3 DEF OnePlaceInv, Reports, None
<1>5. Line' = Append(Line, n)
  <2>1. Line' = (reported \o batch) \o Append(events, n)
    BY <1>1 DEF Line
  <2> QED  BY <1>2, <1>4, <2>1, AppendAfter DEF Line
<1> HIDE DEF n
<1>6. ToSet(Line') = ToSet(Line) \cup {n} /\ IsInjective(Line')
  BY <1>2, <1>4, <1>5, AppendFacts DEF OnePlaceInv
<1>7. \A u \in Adding' : cur'[u] # n
  BY <1>3 DEF OnePlaceInv, n
<1>8. ASSUME NEW u \in Threads
      PROVE  ToSet(added'[u]) \subseteq ToSet(Line') /\ InOrder(added'[u], Line')
  <2>1. ToSet(added[u]) \subseteq ToSet(Line) /\ InOrder(added[u], Line) /\ added[u] \in Seq(Nat)
    BY <1>2 DEF OnePlaceInv
  <2>2. CASE u = t
    <3>1. added'[u] = Append(added[u], n)
      BY <1>1, <1>2, <2>2 DEF n
    <3>2. InOrder(added'[u], Line')
      BY <1>2, <1>4, <1>5, <2>1, <3>1, OrderAppend
    <3>3. ToSet(added'[u]) = ToSet(added[u]) \cup {n}
      BY <1>4, <2>1, <3>1, AppendFacts
    <3> QED  BY <1>6, <2>1, <3>2, <3>3
  <2>3. CASE u # t
    <3>1. added'[u] = added[u]
      BY <1>1, <1>2, <2>3
    <3>2. InOrder(added'[u], Line')
      BY <1>2, <1>4, <1>5, <2>1, <3>1, OrderAppend
    <3> QED  BY <1>6, <2>1, <3>1, <3>2
  <2> QED  BY <2>2, <2>3
<1>9. \A u, v \in Adding' : cur'[u] = cur'[v] => u = v
  BY <1>3 DEF OnePlaceInv
<1>10. \A u \in Adding' : cur'[u] \notin ToSet(Line') \cup ToSet(rk)
  BY <1>3, <1>6, <1>7 DEF OnePlaceInv
<1>11. ToSet(Line') \cup ToSet(rk) \cup {cur'[u] : u \in Adding'} \subseteq 1..known
  BY <1>3, <1>4, <1>6 DEF OnePlaceInv
<1>12. ToSet(Line') \cap ToSet(rk) = {}
  BY <1>4, <1>6 DEF OnePlaceInv
<1>13. OnePlaceInv'
  BY <1>1, <1>6, <1>8, <1>9, <1>10, <1>11, <1>12, Zenon DEF OnePlaceInv
<1> QED  BY <1>3, <1>5, <1>13 DEF n

\* The queue is taken and handed over (DeliveryReportDispatcher::Flush).
LEMMA FlushPlaces ==
  ASSUME DispatchInv, OnePlaceInv, Wake \/ Take \/ Dispatch \/ FlushEnds
  PROVE  OnePlaceInv' /\ Line' = Line
<1>1. /\ reported \in Seq(Nat) /\ batch \in Seq(Nat) /\ events \in Seq(Nat)
      /\ UNCHANGED <<known, rk, pc, cur, added>>
  BY ReportsAreNumbers
     DEF Wake, Take, Dispatch, FlushEnds, net, serving, DispatchInv
<1>2. Line' = Line /\ (dpc' # "dispatch" => batch' = <<>>)
  <2>1. CASE Wake
    <3>1. UNCHANGED <<reported, batch, events>> /\ batch = <<>>
      BY <2>1 DEF Wake, MainFree, OnePlaceInv
    <3> QED  BY <3>1 DEF Line
  <2>2. CASE Take
    <3> DEFINE n == IF Len(events) < Batch THEN Len(events) ELSE Batch
    <3>1. n \in 0..Len(events)
      BY <1>1
    <3>2. /\ batch = <<>> /\ batch' = SubSeq(events, 1, n)
          /\ events' = SubSeq(events, n + 1, Len(events))
          /\ reported' = reported /\ dpc' = "dispatch"
      BY <2>2 DEF Take, OnePlaceInv
    <3> HIDE DEF n
    <3>3. (reported \o batch') \o events' = reported \o events
      BY <1>1, <3>1, <3>2, SplitFacts
    <3>4. reported \o <<>> = reported
      BY <1>1
    <3> QED  BY <3>2, <3>3, <3>4 DEF Line
  <2>3. CASE Dispatch
    <3>1. /\ batch # <<>> /\ reported' = Append(reported, Head(batch)) /\ batch' = Tail(batch)
          /\ events' = events /\ dpc' = dpc /\ dpc = "dispatch"
      BY <2>3 DEF Dispatch
    <3>2. reported' \o batch' = reported \o batch
      BY <1>1, <3>1, MoveHead
    <3> QED  BY <3>1, <3>2 DEF Line
  <2>4. CASE FlushEnds
    BY <2>4 DEF FlushEnds, OnePlaceInv, Line
  <2> QED  BY <2>1, <2>2, <2>3, <2>4
<1>3. Adding' = Adding
  BY <1>1 DEF Adding
<1>4. OnePlaceInv'
  BY <1>1, <1>2, <1>3, SamePlaces
<1> QED  BY <1>2, <1>4

LEMMA PlacesInit == Init => OnePlaceInv
<1> SUFFICES ASSUME Init PROVE OnePlaceInv
  OBVIOUS
<1>1. /\ Line = <<>> /\ rk = <<>> /\ Adding = {} /\ batch = <<>> /\ known = 0
      /\ \A t \in Threads : added[t] = <<>>
  BY DEF Init, Line, Adding
<1>2. ToSet(<<>>) = {} /\ IsInjective(<<>>) /\ InOrder(<<>>, <<>>)
  BY DEF ToSet, IsInjective, InOrder
<1> QED  BY <1>1, <1>2 DEF OnePlaceInv

LEMMA PlacesNext == DispatchInv /\ OnePlaceInv /\ [Next]_vars => OnePlaceInv'
<1> SUFFICES ASSUME DispatchInv, OnePlaceInv, [Next]_vars PROVE OnePlaceInv'
  OBVIOUS
<1>1. CASE UNCHANGED places
  BY <1>1 DEF places, OnePlaceInv, Line, Adding, InOrder
<1>2. CASE Connected \/ Disconnecting \/ Disconnected \/ UNCHANGED vars
  BY <1>1, <1>2
     DEF Connected, Disconnecting, Disconnected, serving, flushing, vars, places
<1>3. CASE ClientDeleted
  <2>1. /\ rk' = <<>> /\ UNCHANGED <<known, pc, cur, events, dpc, batch, reported, added>>
    BY <1>3 DEF ClientDeleted, serving, flushing
  <2>2. Line' = Line /\ Adding' = Adding
    BY <2>1 DEF Line, Adding
  <2>3. ToSet(rk') = {} /\ IsInjective(rk')
    BY <2>1 DEF ToSet, IsInjective
  <2>4. {cur'[t] : t \in Adding'} = {cur[t] : t \in Adding}
    BY <2>1, <2>2
  <2>5. /\ \A t \in Adding' : cur'[t] \notin ToSet(Line) \cup ToSet(rk')
        /\ \A t, u \in Adding' : cur'[t] = cur'[u] => t = u
    BY <2>1, <2>2, <2>3 DEF OnePlaceInv
  <2>6. ToSet(Line) \cup ToSet(rk') \cup {cur'[t] : t \in Adding'} \subseteq 1..known'
    BY <2>1, <2>3, <2>4 DEF OnePlaceInv
  <2>7. dpc' # "dispatch" => batch' = <<>>
    BY <2>1 DEF OnePlaceInv
  <2> QED  BY <2>1, <2>2, <2>3, <2>5, <2>6, <2>7, SameLine
<1>4. ASSUME NEW t \in Threads, Send(t) PROVE OnePlaceInv'
  <2>1. /\ pc[t] = "send" /\ pc' = [pc EXCEPT ![t] = "idle"]
        /\ UNCHANGED <<known, rk, cur, events, dpc, batch, reported, added>>
    BY <1>4 DEF Send, net, flushing
  <2>2. Line' = Line /\ Adding' = Adding
    BY <2>1 DEF Line, Adding, DispatchInv, TypeOK
  <2> QED  BY <2>1, <2>2, SamePlaces DEF OnePlaceInv
<1> QED  BY <1>2, <1>3, <1>4, ReadyPlaces, ServePlaces, AddPlaces, FlushPlaces
         DEF Next, DrCb, Flush

\* Every report is in one place, and the places keep the order.
LEMMA PlacesSafe == Spec => [](DispatchInv /\ OnePlaceInv)
BY DispatchSafe, PlacesInit, PlacesNext, PTL DEF Spec

\* However many threads add, and however batches are cut: a report reaches
\* JavaScript at most once, and those of one thread in the order it added them
\* (callbacks.cc:272-294, 375-451).
THEOREM OrderSafe == Spec => []PerThreadOrder
<1>1. DispatchInv /\ OnePlaceInv => PerThreadOrder
  <2> SUFFICES ASSUME DispatchInv, OnePlaceInv PROVE PerThreadOrder
    OBVIOUS
  <2>1. /\ reported \in Seq(Nat) /\ batch \in Seq(Nat) /\ events \in Seq(Nat)
        /\ reported \o batch \in Seq(Nat)
        /\ \A t \in Threads : added[t] \in Seq(Nat)
    BY ReportsAreNumbers DEF DispatchInv
  <2>2. IsInjective(reported \o batch)
    BY <2>1, PartsDistinct DEF OnePlaceInv, Line
  <2>3. IsInjective(reported)
    BY <2>1, <2>2, PartsDistinct
  <2>4. ASSUME NEW t \in Threads PROVE InOrder(added[t], reported)
    <3>1. InOrder(added[t], (reported \o batch) \o events)
      BY DEF OnePlaceInv, Line
    <3>2. InOrder(added[t], reported \o batch)
      BY <2>1, <3>1, OrderPrefix
    <3> QED  BY <2>1, <3>2, OrderPrefix
  <2> QED  BY <2>3, <2>4 DEF PerThreadOrder
<1> QED  BY <1>1, PlacesSafe, PTL

-----------------------------------------------------------------------------
(* The dispatcher implements ReportChannel, step by step.                   *)

\* What is queued behind what has been reported.
LEMMA BehindReported ==
  ASSUME NEW r \in Seq(Nat), NEW b \in Seq(Nat), NEW e \in Seq(Nat),
         IsInjective((r \o b) \o e)
  PROVE  ToSet(b) \cup ToSet(e) = ToSet((r \o b) \o e) \ ToSet(r)
<1>1. r \o b \in Seq(Nat) /\ ToSet(r \o b) = ToSet(r) \cup ToSet(b)
  BY ConcatFacts
<1>2. ToSet((r \o b) \o e) = ToSet(r) \cup ToSet(b) \cup ToSet(e)
  BY <1>1, ConcatFacts
<1>3. IsInjective(r \o b) /\ ToSet(r \o b) \cap ToSet(e) = {}
  BY <1>1, PartsDistinct
<1>4. ToSet(r) \cap ToSet(b) = {}
  BY <1>3, PartsDistinct
<1> QED  BY <1>1, <1>2, <1>3, <1>4

\* Where the reports that wait are.
LEMMA WaitingPlaces ==
  ASSUME TypeOK, OnePlaceInv
  PROVE  Waiting = (ToSet(Line) \ ToSet(reported)) \cup ToSet(rk) \cup {cur[t] : t \in Adding}
<1>1. ToSet(batch) \cup ToSet(events) = ToSet(Line) \ ToSet(reported)
  BY ReportsAreNumbers, BehindReported DEF OnePlaceInv, Line
<1> QED  BY <1>1 DEF Waiting

\* A step that neither brings, hands over nor gives up a report.
LEMMA NothingMoves ==
  ASSUME Waiting' = Waiting, UNCHANGED <<known, reported>>,
         (session \in {"up", "closing"})' = (session \in {"up", "closing"})
  PROVE  UNCHANGED Channel!vars
BY DEF Channel!vars

\* Connection steps: Connected opens the channel, ClientDeleted closes it, Ready
\* brings a report.
LEMMA SessionSimulates ==
  ASSUME DispatchInv, OnePlaceInv,
         Ready \/ Connected \/ Disconnecting \/ ClientDeleted \/ Disconnected
  PROVE  [Channel!Next]_(Channel!vars)
<1>1. CASE Ready
  <2>1. /\ rk \in Seq(Nat) /\ known \in Nat /\ known + 1 \in Nat
        /\ rk' = Append(rk, known + 1) /\ known' = known + 1
        /\ UNCHANGED <<session, pc, cur, events, batch, reported>>
        /\ session \in {"up", "closing"}
    BY <1>1, ReportsAreNumbers DEF Ready, serving, flushing, DispatchInv, TypeOK
  <2>2. ToSet(rk') = ToSet(rk) \cup {known + 1}
    BY <2>1, AppendFacts
  <2>3. Waiting' = Waiting \cup {known'}
    BY <2>1, <2>2 DEF Waiting, Adding
  <2>4. Channel!Arrive
    BY <2>1, <2>3 DEF Channel!Arrive
  <2> QED  BY <2>4 DEF Channel!Next
<1>2. CASE Connected
  <2>1. Waiting' = Waiting /\ UNCHANGED <<known, reported>>
    BY <1>2 DEF Connected, serving, flushing, Waiting, Adding
  <2>2. Channel!Open
    BY <1>2, <2>1 DEF Connected, Channel!Open
  <2> QED  BY <2>2 DEF Channel!Next
<1>3. CASE Disconnecting \/ Disconnected
  <2>1. /\ Waiting' = Waiting /\ UNCHANGED <<known, reported>>
        /\ (session \in {"up", "closing"})' = (session \in {"up", "closing"})
    BY <1>3 DEF Disconnecting, Disconnected, serving, flushing, Waiting, Adding
  <2> QED  BY <2>1, NothingMoves
<1>4. CASE ClientDeleted
  <2>1. /\ rk' = <<>> /\ UNCHANGED <<known, pc, cur, events, batch, reported>>
        /\ session \in {"up", "closing"} /\ session' = "deleted"
    BY <1>4 DEF ClientDeleted, serving, flushing
  <2>2. Waiting' \in SUBSET Waiting
    BY <2>1 DEF Waiting, Adding, ToSet
  <2>3. Channel!Close
    BY <2>1, <2>2 DEF Channel!Close
  <2> QED  BY <2>3 DEF Channel!Next
<1> QED  BY <1>1, <1>2, <1>3, <1>4

\* dr_cb takes a report from one place to the next: it goes on waiting.
LEMMA DrCbSimulates ==
  ASSUME DispatchInv, OnePlaceInv, NEW t \in Threads, DrCb(t)
  PROVE  [Channel!Next]_(Channel!vars)
<1>1. UNCHANGED <<session, known, batch, reported>>
  BY DEF DrCb, Serve, Add, Send, net, flushing
<1>2. /\ rk \in Seq(Nat) /\ events \in Seq(Nat)
      /\ pc \in [Threads -> {"idle", "add", "send"}]
      /\ cur \in [Threads -> Reports \cup {None}]
  BY ReportsAreNumbers DEF DispatchInv, TypeOK
<1>3. Waiting' = Waiting
  <2>1. CASE Serve(t)
    <3>1. /\ rk # <<>> /\ rk' = Tail(rk) /\ pc[t] = "idle" /\ events' = events
          /\ cur' = [cur EXCEPT ![t] = Head(rk)] /\ pc' = [pc EXCEPT ![t] = "add"]
      BY <2>1 DEF Serve
    <3>2. Adding' = Adding \cup {t} /\ cur'[t] = Head(rk)
      BY <1>2, <3>1 DEF Adding
    <3>3. \A u \in Adding : cur'[u] = cur[u]
      BY <1>2, <3>1 DEF Adding
    <3>4. {cur'[u] : u \in Adding'} = {cur[u] : u \in Adding} \cup {Head(rk)}
      BY <3>2, <3>3
    <3>5. ToSet(rk) = {Head(rk)} \cup ToSet(rk')
      BY <1>2, <3>1, HeadFacts
    <3> QED  BY <1>1, <3>1, <3>4, <3>5 DEF Waiting
  <2>2. CASE Add(t)
    <3>1. /\ pc[t] = "add" /\ events' = Append(events, cur[t]) /\ rk' = rk
          /\ cur' = [cur EXCEPT ![t] = None]
      BY <2>2 DEF Add, net
    <3>2. t \in Adding /\ Adding' = Adding \ {t}
      BY <2>2, <3>1, AddPlaces DEF Adding
    <3>3. \A u \in Adding' : cur'[u] = cur[u]
      BY <1>2, <3>1, <3>2 DEF Adding
    <3>4. {cur[u] : u \in Adding} = {cur'[u] : u \in Adding'} \cup {cur[t]}
      BY <3>2, <3>3
    <3>5. cur[t] \in Nat
      BY <1>2 DEF Reports, None
    <3>6. ToSet(events') = ToSet(events) \cup {cur[t]}
      BY <1>2, <3>1, <3>5, AppendFacts
    <3> QED  BY <1>1, <3>1, <3>4, <3>6 DEF Waiting
  <2>3. CASE Send(t)
    <3>1. UNCHANGED <<rk, cur, events>> /\ Adding' = Adding
      BY <1>2, <2>3 DEF Send, net, Adding
    <3> QED  BY <1>1, <3>1 DEF Waiting
  <2> QED  BY <2>1, <2>2, <2>3 DEF DrCb
<1> QED  BY <1>1, <1>3, NothingMoves

\* Flush cuts a batch off without losing a report, and Dispatch hands over one
\* that waits.
LEMMA FlushSimulates ==
  ASSUME DispatchInv, OnePlaceInv, DispatchInv', OnePlaceInv', Flush
  PROVE  [Channel!Next]_(Channel!vars)
<1>1. UNCHANGED <<session, known, rk, pc, cur>> /\ Line' = Line
  BY FlushPlaces DEF Flush, Wake, Take, Dispatch, FlushEnds, net, serving
<1>2. /\ Waiting = (ToSet(Line) \ ToSet(reported)) \cup ToSet(rk) \cup {cur[t] : t \in Adding}
      /\ reported \in Seq(Nat) /\ batch \in Seq(Nat) /\ events \in Seq(Nat)
  BY WaitingPlaces, ReportsAreNumbers DEF DispatchInv
<1>3. ToSet(batch') \cup ToSet(events') = ToSet(Line') \ ToSet(reported')
  <2>1. reported' \in Seq(Nat) /\ batch' \in Seq(Nat) /\ events' \in Seq(Nat)
    BY DEF DispatchInv, TypeOK, Reports
  <2>2. IsInjective((reported' \o batch') \o events')
    BY DEF OnePlaceInv, Line
  <2> QED  BY <2>1, <2>2, BehindReported DEF Line
<1>4. Waiting' = (ToSet(Line) \ ToSet(reported')) \cup ToSet(rk) \cup {cur[t] : t \in Adding}
  BY <1>1, <1>3 DEF Waiting, Adding
<1>5. CASE Wake \/ Take \/ FlushEnds
  <2>1. reported' = reported
    BY <1>5 DEF Wake, Take, FlushEnds
  <2> QED  BY <1>1, <1>2, <1>4, <2>1, NothingMoves
<1>6. CASE Dispatch
  <2> DEFINE m == Head(batch)
  <2>1. m \in Nat /\ m \in ToSet(batch) /\ reported' = Append(reported, m)
    BY <1>2, <1>6, HeadFacts DEF Dispatch
  <2> HIDE DEF m
  <2>2. m \in ToSet(Line) \ ToSet(reported)
    BY <1>2, <2>1, BehindReported DEF OnePlaceInv, Line
  <2>3. ToSet(reported') = ToSet(reported) \cup {m}
    BY <1>2, <2>1, AppendFacts
  <2>4. m \notin ToSet(rk) /\ \A t \in Adding : cur[t] # m
    BY <2>2 DEF OnePlaceInv
  <2>5. m \in Waiting /\ Waiting' = Waiting \ {m}
    BY <1>2, <1>4, <2>2, <2>3, <2>4
  <2>6. Channel!Report
    BY <1>1, <2>1, <2>5 DEF Channel!Report
  <2> QED  BY <2>6 DEF Channel!Next
<1> QED  BY <1>5, <1>6 DEF Flush

\* The dispatcher does what ReportChannel promises: every report waits until
\* JavaScript gets it, at most once, and is given up only by deleting the client
\* (callbacks.cc:272-294, 375-451).
THEOREM Implements == Spec => KeepsPromise
<1>1. Init => Channel!Init
  <2> SUFFICES ASSUME Init PROVE Channel!Init
    OBVIOUS
  <2>1. rk = <<>> /\ events = <<>> /\ batch = <<>> /\ Adding = {} /\ ToSet(<<>>) = {}
    BY DEF Init, Adding, ToSet
  <2>2. Waiting = {}
    BY <2>1 DEF Waiting
  <2> QED  BY <2>2 DEF Init, Channel!Init
<1>2. ASSUME DispatchInv, OnePlaceInv, DispatchInv', OnePlaceInv', [Next]_vars
      PROVE  [Channel!Next]_(Channel!vars)
  <2>1. CASE UNCHANGED vars
    <3>1. Waiting' = Waiting /\ UNCHANGED <<session, known, reported>>
      BY <2>1 DEF vars, Waiting, Adding
    <3> QED  BY <3>1, NothingMoves
  <2> QED  BY <1>2, <2>1, SessionSimulates, DrCbSimulates, FlushSimulates DEF Next
<1> QED  BY <1>1, <1>2, PlacesSafe, PTL DEF Spec, KeepsPromise, Channel!Spec
=============================================================================
