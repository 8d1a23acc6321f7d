---------------------------- MODULE ConsumeProofs ----------------------------
(* Proofs about Consume, for any number of items, consume loops and sizes of *)
(* consume(n).  In flowing mode the items go two ways to JavaScript (Lane),  *)
(* and what is queued is later than all that WorkMessage has taken           *)
(* (LanesInv).  consume(n) splits what it fetched into two arrays, from      *)
(* which every item's place can be read (Split), and what is emitted is      *)
(* always a beginning of it (EmissionInv).                                   *)
EXTENDS Consume, SequenceFacts, FiniteSetTheorems, TLAPS

\* One of the ways from the loop to JavaScript, for the items of K: what has been
\* handed over, h, is followed by what WorkMessage holds, q, and that by what is
\* queued, d.
Lane(h, q, d, K) ==
  /\ Ordered(h, K) /\ Ordered(q, K) /\ Ordered(d, K)
  /\ ToSet(q) \cup ToSet(d) \subseteq K
  /\ \A x \in ToSet(h) \cap K, y \in ToSet(q) : x < y
  /\ \A x \in (ToSet(h) \cap K) \cup ToSet(q), y \in ToSet(d) : x < y

Taken == ToSet(handed) \cup ToSet(messageQueue) \cup ToSet(warningQueue)
Queued == ToSet(data) \cup ToSet(warnings)

\* Both ways are in order, nothing gets lost, and what is queued is later than
\* all that WorkMessage has taken before.
LanesInv ==
  /\ Lane(handed, messageQueue, data, Others)
  /\ Lane(handed, warningQueue, warnings, Warnings)
  /\ ToSet(sent) = Taken \cup Queued
  /\ ToSet(sent) \subseteq DOMAIN kinds
  /\ \A x \in Taken, y \in Queued : x < y

\* What WorkMessage and disconnect() leave to each other.
WorkerInv ==
  /\ jpc = "idle" \/ (jpc = "join" /\ ~inHandler) => messageQueue = <<>> /\ warningQueue = <<>>
  /\ style = "outside" => ~inHandler /\ (jpc = "hand" => callback)
  /\ callback /\ (data # <<>> \/ warnings # <<>>) => signal

Eofs == {i \in DOMAIN kinds : kinds[i] = "eof"}
Messages == {i \in DOMAIN kinds : kinds[i] = "message"}

\* The positions among the first n of s that hold a member of K.
Positions(s, K, n) == {j \in 1..n : s[j] \in K}

\* What consume(n) has fetched.
FetchedInv ==
  /\ ToSet(messages) \cup ToSet(fetched) \subseteq Eofs \cup Messages
  /\ eofCount = Cardinality(Positions(messages, Eofs, Len(messages)))
  /\ MessageCount <= size
  /\ npc = "run" => ~nfailed
  /\ npc = "done" /\ nfailed => MessageCount = 0
  /\ npc \in {"convert", "emit"} => fetched = messages

\* The arrays a and v hold the first n of m: the eof event e comes behind
\* messageIndex + 1 messages and e - 1 eof events, and the message r behind the
\* eof events that have a smaller messageIndex.
Split(m, n, a, v) ==
  /\ Len(a) + Len(v) = n
  /\ \A e \in 1..Len(v) :
       /\ v[e].messageIndex \in -1..(Len(a) - 1)
       /\ v[e].item = m[e + v[e].messageIndex + 1]
  /\ \A e, f \in 1..Len(v) : e < f => v[e].messageIndex <= v[f].messageIndex
  /\ \A r \in 1..Len(a), e \in 0..Len(v) :
       /\ e # 0 => v[e].messageIndex < r - 1
       /\ e # Len(v) => v[e + 1].messageIndex >= r - 1
       => a[r] = m[r + e]

ArraysInv ==
  npc \in {"convert", "emit"} =>
    /\ converted <= Len(messages)
    /\ Len(eofEvents) = Cardinality(Positions(messages, Eofs, converted))
    /\ Split(messages, converted, returnArray, eofEvents)

\* How far _consumeNum's callback is: eofIndex eof events, and messages up to index.
EmissionInv ==
  /\ npc = "convert" => emitted = <<>> /\ index = -1 /\ eofIndex = 0
  /\ npc = "emit" =>
       /\ converted = Len(messages)
       /\ index \in -1..Len(returnArray) /\ eofIndex \in 0..Len(eofEvents)
       /\ Len(emitted) = eofIndex + (IF index = Len(returnArray) THEN index ELSE index + 1)
       /\ \A k \in 1..Len(emitted) : emitted[k] = messages[k]
       /\ \A e \in 1..eofIndex : eofEvents[e].messageIndex <= index
       /\ \A e \in (eofIndex + 1)..Len(eofEvents) : eofEvents[e].messageIndex >= index
  /\ npc \notin {"convert", "emit"} /\ emitted # fetched =>
       emitted = <<>> /\ ToSet(fetched) \subseteq Eofs

-----------------------------------------------------------------------------
(* Order in sequences.                                                       *)

\* One more item.
LEMMA OrderedAppend ==
  ASSUME NEW s \in Seq(Nat), NEW n \in Nat, NEW K, Ordered(s, K),
         n \in K => \A x \in ToSet(s) \cap K : x < n
  PROVE  Ordered(Append(s, n), K)
<1> DEFINE z == Append(s, n)
<1>1. /\ DOMAIN s = 1..Len(s) /\ DOMAIN z = 1..(Len(s) + 1) /\ Len(s) \in Nat
      /\ (\A i \in 1..Len(s) : z[i] = s[i]) /\ z[Len(s) + 1] = n
  BY AppendFacts
<1>2. \A i \in 1..Len(s) : s[i] \in ToSet(s)
  BY <1>1 DEF ToSet
<1>3. \A j, k \in 1..Len(s) : j < k /\ s[j] \in K /\ s[k] \in K => s[j] < s[k]
  BY <1>1 DEF Ordered
<1> HIDE DEF z
<1>4. \A j, k \in 1..(Len(s) + 1) : j < k /\ z[j] \in K /\ z[k] \in K => z[j] < z[k]
  <2> SUFFICES ASSUME NEW j \in 1..(Len(s) + 1), NEW k \in 1..(Len(s) + 1),
                      j < k, z[j] \in K, z[k] \in K
               PROVE  z[j] < z[k]
    OBVIOUS
  <2>1. j \in 1..Len(s) /\ (k \in 1..Len(s) \/ k = Len(s) + 1)
    BY <1>1
  <2> QED  BY <1>1, <1>2, <1>3, <2>1
<1> QED  BY <1>1, <1>4 DEF Ordered, z

\* The head of a sequence comes before the rest.
LEMMA OrderedHead ==
  ASSUME NEW s \in Seq(Nat), s # <<>>, NEW K, ToSet(s) \subseteq K, Ordered(s, K)
  PROVE  /\ Ordered(Tail(s), K) /\ Head(s) \in K
         /\ \A x \in ToSet(Tail(s)) : Head(s) < x
<1> DEFINE t == Tail(s)
<1>1. /\ t \in Seq(Nat) /\ Len(s) \in Nat \ {0} /\ Len(t) = Len(s) - 1 /\ Head(s) = s[1]
      /\ DOMAIN s = 1..Len(s) /\ DOMAIN t = 1..Len(t)
      /\ \A i \in 1..Len(t) : t[i] = s[i + 1]
  OBVIOUS
<1>2. \A i \in 1..Len(s) : s[i] \in K
  BY <1>1 DEF ToSet
<1>3. \A j, k \in 1..Len(s) : j < k => s[j] < s[k]
  BY <1>1, <1>2 DEF Ordered
<1> HIDE DEF t
<1>4. \A j, k \in 1..Len(t) : j < k => t[j] < t[k]
  <2>1. \A i \in 1..Len(t) : i + 1 \in 1..Len(s) /\ t[i] = s[i + 1]
    BY <1>1
  <2>2. \A j, k \in 1..Len(t) : j < k => j + 1 < k + 1
    BY <1>1
  <2> QED  BY <1>3, <2>1, <2>2
<1>5. \A i \in 1..Len(t) : s[1] < t[i]
  <2>1. \A i \in 1..Len(t) : i + 1 \in 1..Len(s) /\ 1 < i + 1 /\ t[i] = s[i + 1]
    BY <1>1
  <2>2. 1 \in 1..Len(s)
    BY <1>1
  <2> QED  BY <1>3, <2>1, <2>2
<1>6. \A x \in ToSet(t) : s[1] < x
  BY <1>1, <1>5 DEF ToSet
<1> QED  BY <1>1, <1>2, <1>4, <1>6 DEF Ordered, t

\* One sequence behind another.
LEMMA OrderedJoin ==
  ASSUME NEW s \in Seq(Nat), NEW t \in Seq(Nat), NEW K, Ordered(s, K), Ordered(t, K),
         \A x \in ToSet(s) \cap K, y \in ToSet(t) \cap K : x < y
  PROVE  Ordered(s \o t, K)
<1> DEFINE z == s \o t
<1>1. /\ z \in Seq(Nat) /\ Len(z) = Len(s) + Len(t) /\ Len(s) \in Nat /\ Len(t) \in Nat
      /\ DOMAIN s = 1..Len(s) /\ DOMAIN t = 1..Len(t)
      /\ DOMAIN z = 1..(Len(s) + Len(t))
      /\ \A i \in 1..(Len(s) + Len(t)) : z[i] = IF i <= Len(s) THEN s[i] ELSE t[i - Len(s)]
  BY ConcatFacts
<1> HIDE DEF z
<1>2. /\ \A i \in 1..Len(s) : s[i] \in ToSet(s)
      /\ \A i \in 1..Len(t) : t[i] \in ToSet(t)
  BY <1>1 DEF ToSet
<1>3. /\ \A j, k \in 1..Len(s) : j < k /\ s[j] \in K /\ s[k] \in K => s[j] < s[k]
      /\ \A j, k \in 1..Len(t) : j < k /\ t[j] \in K /\ t[k] \in K => t[j] < t[k]
  BY <1>1 DEF Ordered
<1>4. ASSUME NEW j \in 1..(Len(s) + Len(t)), NEW k \in 1..(Len(s) + Len(t)),
             j < k, z[j] \in K, z[k] \in K
      PROVE  z[j] < z[k]
  <2>1. CASE k <= Len(s)
    <3>1. j \in 1..Len(s) /\ k \in 1..Len(s) /\ z[j] = s[j] /\ z[k] = s[k]
      BY <1>1, <1>4, <2>1
    <3> QED  BY <1>3, <1>4, <3>1
  <2>2. CASE ~(j <= Len(s))
    <3> DEFINE a == j - Len(s)
               b == k - Len(s)
    <3>1. a \in 1..Len(t) /\ b \in 1..Len(t) /\ a < b /\ z[j] = t[a] /\ z[k] = t[b]
      BY <1>1, <1>4, <2>2
    <3> HIDE DEF a, b
    <3> QED  BY <1>3, <1>4, <3>1
  <2>3. CASE j <= Len(s) /\ ~(k <= Len(s))
    <3>1. /\ j \in 1..Len(s) /\ k - Len(s) \in 1..Len(t)
          /\ z[j] = s[j] /\ z[k] = t[k - Len(s)]
      BY <1>1, <1>4, <2>3
    <3>2. z[j] \in ToSet(s) \cap K /\ z[k] \in ToSet(t) \cap K
      BY <1>2, <1>4, <3>1
    <3> QED  BY <3>2
  <2> QED  BY <2>1, <2>2, <2>3
<1> QED  BY <1>1, <1>4 DEF Ordered, z

\* What K has besides does not matter.
LEMMA OrderedSame ==
  ASSUME NEW s \in Seq(Nat), NEW K, NEW L, Ordered(s, K), ToSet(s) \cap L \subseteq K
  PROVE  Ordered(s, L)
<1>1. \A i \in DOMAIN s : s[i] \in L => s[i] \in K
  BY DEF ToSet
<1> QED  BY <1>1 DEF Ordered

LEMMA OrderedEmpty == \A K : Ordered(<<>>, K) /\ ToSet(<<>>) = {}
BY DEF Ordered, ToSet

-----------------------------------------------------------------------------
(* What the steps do to a lane.                                              *)

\* WorkMessage hands over the first item it holds.
LEMMA LaneHand ==
  ASSUME NEW h \in Seq(Nat), NEW q \in Seq(Nat), NEW d \in Seq(Nat), NEW K,
         Lane(h, q, d, K), q # <<>>
  PROVE  Lane(Append(h, Head(q)), Tail(q), d, K)
<1> DEFINE x == Head(q)
           g == Append(h, x)
           p == Tail(q)
<1>1. x \in Nat /\ p \in Seq(Nat) /\ x \in ToSet(q) /\ ToSet(q) = {x} \cup ToSet(p)
  BY HeadFacts
<1>2. Ordered(q, K) /\ ToSet(q) \subseteq K /\ Ordered(h, K)
  BY DEF Lane
<1>3. Ordered(p, K) /\ x \in K /\ \A y \in ToSet(p) : x < y
  BY <1>2, OrderedHead
<1>4. \A y \in ToSet(h) \cap K : y < x
  BY <1>1 DEF Lane
<1>5. Ordered(g, K) /\ ToSet(g) = ToSet(h) \cup {x}
  BY <1>1, <1>2, <1>4, OrderedAppend, AppendFacts
<1> HIDE DEF x, g, p
<1> QED  BY <1>1, <1>3, <1>5 DEF Lane, x, g, p

\* It hands over an item of the other lane.
LEMMA LaneOther ==
  ASSUME NEW h \in Seq(Nat), NEW q, NEW d, NEW K, NEW n \in Nat,
         Lane(h, q, d, K), n \notin K
  PROVE  Lane(Append(h, n), q, d, K)
<1>1. Ordered(Append(h, n), K) /\ ToSet(Append(h, n)) \cap K = ToSet(h) \cap K
  BY OrderedAppend, AppendFacts DEF Lane
<1> QED  BY <1>1 DEF Lane

\* It takes what is queued.
LEMMA LaneTake ==
  ASSUME NEW h, NEW d, NEW K, Lane(h, <<>>, d, K)
  PROVE  Lane(h, d, <<>>, K)
BY OrderedEmpty DEF Lane

\* consume() returns item n, later than all others, which belongs to the lane or
\* not; the loop queues it.
LEMMA LaneGrow ==
  ASSUME NEW h \in Seq(Nat), NEW q \in Seq(Nat), NEW d \in Seq(Nat), NEW K, NEW L,
         NEW n \in Nat, Lane(h, q, d, K), L = K \cup {n},
         \A x \in ToSet(h) \cup ToSet(q) \cup ToSet(d) : x < n
  PROVE  Lane(h, q, d, L) /\ Lane(h, q, Append(d, n), L)
<1>1. n \notin ToSet(h) \cup ToSet(q) \cup ToSet(d)
  BY HeadFacts
<1>2. ToSet(h) \cap L = ToSet(h) \cap K
  BY <1>1
<1>3. Ordered(h, L) /\ Ordered(q, L) /\ Ordered(d, L)
  BY <1>1, OrderedSame DEF Lane
<1>4. Ordered(Append(d, n), L) /\ ToSet(Append(d, n)) = ToSet(d) \cup {n}
  BY <1>3, OrderedAppend, AppendFacts
<1> QED  BY <1>2, <1>3, <1>4 DEF Lane

\* The whole lane is in order.
LEMMA LaneOrdered ==
  ASSUME NEW h \in Seq(Nat), NEW q \in Seq(Nat), NEW d \in Seq(Nat), NEW K,
         Lane(h, q, d, K)
  PROVE  Ordered((h \o q) \o d, K)
<1>1. h \o q \in Seq(Nat) /\ ToSet(h \o q) = ToSet(h) \cup ToSet(q)
  BY ConcatFacts
<1>2. Ordered(h \o q, K)
  BY OrderedJoin DEF Lane
<1> QED  BY <1>1, <1>2, OrderedJoin DEF Lane

LEMMA LaneEmpty == \A K : Lane(<<>>, <<>>, <<>>, K)
BY OrderedEmpty DEF Lane

-----------------------------------------------------------------------------
(* Flowing mode.                                                             *)

\* The parts of TypeOK.
FlowTypes ==
  /\ mode \in {"flowing", "number"}
  /\ style \in Styles
  /\ kinds \in Seq(Kinds) /\ Len(kinds) <= MaxItems
  /\ loops \in 0..MaxLoops
  /\ tpc \in {"none", "run", "ended"}
  /\ jpc \in {"idle", "hand", "join"}
  /\ looping \in BOOLEAN /\ failed \in BOOLEAN /\ signal \in BOOLEAN
  /\ callback \in BOOLEAN /\ inHandler \in BOOLEAN

QueueTypes ==
  /\ data \in Seq(Items) /\ warnings \in Seq(Items)
  /\ messageQueue \in Seq(Items) /\ warningQueue \in Seq(Items)
  /\ sent \in Seq(Items) /\ handed \in Seq(Items)

FlowInv == FlowTypes /\ QueueTypes /\ LanesInv /\ WorkerInv

\* Items are numbers.
LEMMA ItemsAreNumbers == Seq(Items) \subseteq Seq(Nat) /\ <<>> \in Seq(Items)
<1>1. Seq(Items) \subseteq Seq(Nat)
  BY ConstantsAssumption DEF Items
<1>2. <<>> \in Seq(Items)
  OBVIOUS
<1> QED  BY <1>1, <1>2

\* Taking and adding one keeps a queue a queue.
LEMMA QueueSteps ==
  ASSUME NEW s \in Seq(Items)
  PROVE  /\ s # <<>> => Head(s) \in Items /\ Tail(s) \in Seq(Items)
         /\ \A n \in Items : Append(s, n) \in Seq(Items)
OBVIOUS

\* consume() returns item n.
LEMMA KindsGrow ==
  ASSUME kinds \in Seq(Kinds), NEW n \in 1..MaxItems, NEW kind \in Kinds, Item(n, kind)
  PROVE  /\ kinds' \in Seq(Kinds) /\ Len(kinds') <= MaxItems
         /\ n \in Items /\ n \in Nat /\ \A x \in DOMAIN kinds : x < n
         /\ DOMAIN kinds' = DOMAIN kinds \cup {n} /\ n \notin DOMAIN kinds
         /\ \A i \in DOMAIN kinds : kinds'[i] = kinds[i]
         /\ kinds'[n] = kind
         /\ Warnings' = IF kind = "warning" THEN Warnings \cup {n} ELSE Warnings
         /\ Others' = IF kind = "warning" THEN Others ELSE Others \cup {n}
<1>1. /\ kinds' = Append(kinds, kind) /\ n = Len(kinds) + 1 /\ Len(kinds) < MaxItems
      /\ Len(kinds) \in Nat
  BY DEF Item
<1>2. /\ DOMAIN kinds = 1..Len(kinds) /\ DOMAIN kinds' = 1..n
      /\ \A i \in 1..Len(kinds) : kinds'[i] = kinds[i]
      /\ kinds'[n] = kind /\ kinds' \in Seq(Kinds) /\ Len(kinds') = n
  BY <1>1
<1>3. /\ DOMAIN kinds' = DOMAIN kinds \cup {n} /\ n \notin DOMAIN kinds
      /\ n \in Nat /\ \A x \in DOMAIN kinds : x < n
  BY <1>1, <1>2
<1>4. /\ Warnings' = IF kind = "warning" THEN Warnings \cup {n} ELSE Warnings
      /\ Others' = IF kind = "warning" THEN Others ELSE Others \cup {n}
  BY <1>2, <1>3 DEF Warnings, Others
<1> QED  BY <1>1, <1>2, <1>3, <1>4, ConstantsAssumption DEF Items

LEMMA FlowInit == Init => FlowInv
<1> SUFFICES ASSUME Init PROVE FlowInv
  OBVIOUS
<1>1. FlowTypes /\ QueueTypes
  <2>1. kinds \in Seq(Kinds) /\ Len(kinds) <= MaxItems /\ loops \in 0..MaxLoops
    BY ConstantsAssumption DEF Init
  <2> QED  BY <2>1, ItemsAreNumbers DEF Init, FlowTypes, QueueTypes
<1>2. Lane(handed, messageQueue, data, Others) /\ Lane(handed, warningQueue, warnings, Warnings)
  BY LaneEmpty DEF Init
<1>3. Taken = {} /\ Queued = {} /\ ToSet(sent) = {}
  BY OrderedEmpty DEF Init, Taken, Queued
<1>4. LanesInv
  BY <1>2, <1>3 DEF LanesInv
<1>5. WorkerInv
  BY DEF Init, WorkerInv
<1> QED  BY <1>1, <1>4, <1>5 DEF FlowInv

\* What LanesInv is about.
lanes == <<kinds, data, warnings, messageQueue, warningQueue, sent, handed>>

LEMMA LanesSame ==
  ASSUME LanesInv, QueueTypes, UNCHANGED lanes
  PROVE  LanesInv' /\ QueueTypes'
BY DEF lanes, LanesInv, QueueTypes, Others, Warnings, Taken, Queued

\* The loop queues an item (MessageWorker::Produce_, ProduceWarning_).
LEMMA SendLanes ==
  ASSUME FlowInv, Send \/ SendWarning
  PROVE  LanesInv' /\ QueueTypes' /\ kinds' \in Seq(Kinds) /\ Len(kinds') <= MaxItems
<1>1. /\ handed \in Seq(Nat) /\ messageQueue \in Seq(Nat) /\ data \in Seq(Nat)
      /\ warningQueue \in Seq(Nat) /\ warnings \in Seq(Nat) /\ sent \in Seq(Nat)
  BY ItemsAreNumbers DEF FlowInv, QueueTypes
<1>2. UNCHANGED <<handed, messageQueue, warningQueue>>
  BY DEF Send, SendWarning, working
<1>3. PICK n \in 1..MaxItems, kind \in Kinds :
        /\ Item(n, kind)
        /\ sent' = Append(sent, n)
        /\ IF kind = "warning" THEN warnings' = Append(warnings, n) /\ data' = data
                               ELSE data' = Append(data, n) /\ warnings' = warnings
  <2>1. CASE Send
    BY <2>1 DEF Send, Kinds
  <2>2. CASE SendWarning
    BY <2>2 DEF SendWarning, Kinds
  <2> QED  BY <2>1, <2>2
<1>4. /\ kinds' \in Seq(Kinds) /\ Len(kinds') <= MaxItems
      /\ n \in Items /\ n \in Nat /\ \A x \in DOMAIN kinds : x < n
      /\ DOMAIN kinds' = DOMAIN kinds \cup {n}
      /\ Warnings' = IF kind = "warning" THEN Warnings \cup {n} ELSE Warnings
      /\ Others' = IF kind = "warning" THEN Others ELSE Others \cup {n}
  BY <1>3, KindsGrow DEF FlowInv, FlowTypes
<1>5. \A x \in Taken \cup Queued : x < n
  BY <1>4 DEF FlowInv, LanesInv
<1>6. QueueTypes'
  BY <1>2, <1>3, <1>4, QueueSteps DEF FlowInv, QueueTypes
<1>7. /\ Lane(handed, messageQueue, data, Others)
      /\ Lane(handed, warningQueue, warnings, Warnings)
      /\ \A x \in ToSet(handed) \cup ToSet(messageQueue) \cup ToSet(data) : x < n
      /\ \A x \in ToSet(handed) \cup ToSet(warningQueue) \cup ToSet(warnings) : x < n
  BY <1>5 DEF FlowInv, LanesInv, Taken, Queued
<1>8. /\ Lane(handed, messageQueue, data', Others')
      /\ Lane(handed, warningQueue, warnings', Warnings')
  <2>1. CASE kind = "warning"
    <3>1. warnings' = Append(warnings, n) /\ Warnings' = Warnings \cup {n}
      BY <1>3, <1>4, <2>1
    <3>2. Lane(handed, warningQueue, warnings', Warnings')
      BY <1>1, <1>4, <1>7, <3>1, LaneGrow
    <3> QED  BY <1>3, <1>4, <1>7, <2>1, <3>2
  <2>2. CASE kind # "warning"
    <3>1. data' = Append(data, n) /\ Others' = Others \cup {n}
      BY <1>3, <1>4, <2>2
    <3>2. Lane(handed, messageQueue, data', Others')
      BY <1>1, <1>4, <1>7, <3>1, LaneGrow
    <3> QED  BY <1>3, <1>4, <1>7, <2>2, <3>2
  <2> QED  BY <2>1, <2>2
<1>9. ToSet(sent') = ToSet(sent) \cup {n}
  BY <1>1, <1>3, <1>4, AppendFacts
<1>10. ToSet(data') \cup ToSet(warnings') = Queued \cup {n}
  <2>1. /\ ToSet(Append(data, n)) = ToSet(data) \cup {n}
        /\ ToSet(Append(warnings, n)) = ToSet(warnings) \cup {n}
    BY <1>1, <1>4, AppendFacts
  <2>2. \/ data' = Append(data, n) /\ warnings' = warnings
        \/ warnings' = Append(warnings, n) /\ data' = data
    BY <1>3
  <2> QED  BY <2>1, <2>2 DEF Queued
<1>11. Taken' = Taken /\ Queued' = Queued \cup {n}
  BY <1>2, <1>10 DEF Taken, Queued
<1>12. ToSet(sent') = Taken' \cup Queued' /\ ToSet(sent') \subseteq DOMAIN kinds'
  BY <1>4, <1>9, <1>11 DEF FlowInv, LanesInv
<1>13. \A x \in Taken', y \in Queued' : x < y
  BY <1>5, <1>11 DEF FlowInv, LanesInv
<1> QED  BY <1>2, <1>4, <1>6, <1>8, <1>12, <1>13 DEF LanesInv

\* The queues are swapped out (MessageWorker::WorkMessage).
LEMMA TakeLanes ==
  ASSUME FlowInv, WorkMessage
  PROVE  LanesInv' /\ QueueTypes'
<1>1. CASE ~callback
  BY <1>1, LanesSame DEF WorkMessage, lanes, FlowInv
<1>2. CASE callback
  <2>1. /\ messageQueue' = data /\ data' = <<>> /\ warningQueue' = warnings /\ warnings' = <<>>
        /\ UNCHANGED <<kinds, handed, sent>> /\ messageQueue = <<>> /\ warningQueue = <<>>
    BY <1>2 DEF WorkMessage, FlowInv, WorkerInv
  <2>2. /\ Lane(handed, messageQueue', data', Others)
        /\ Lane(handed, warningQueue', warnings', Warnings)
    BY <2>1, LaneTake DEF FlowInv, LanesInv
  <2>3. Taken' = Taken \cup Queued /\ Queued' = {}
    BY <2>1, OrderedEmpty DEF Taken, Queued
  <2>4. QueueTypes'
    BY <2>1, ItemsAreNumbers DEF FlowInv, QueueTypes
  <2>5. Others' = Others /\ Warnings' = Warnings
    BY <2>1 DEF Others, Warnings
  <2>6. ToSet(sent') = Taken' \cup Queued' /\ ToSet(sent') \subseteq DOMAIN kinds'
    BY <2>1, <2>3 DEF FlowInv, LanesInv
  <2> QED  BY <2>1, <2>2, <2>3, <2>4, <2>5, <2>6 DEF LanesInv
<1> QED  BY <1>1, <1>2

\* An item is handed over (WorkMessage, HandleMessageCallback).
LEMMA HandLanes ==
  ASSUME FlowInv, HandMessage \/ HandWarning
  PROVE  LanesInv' /\ QueueTypes'
<1>1. /\ handed \in Seq(Nat) /\ messageQueue \in Seq(Nat) /\ data \in Seq(Nat)
      /\ warningQueue \in Seq(Nat) /\ warnings \in Seq(Nat)
  BY ItemsAreNumbers DEF FlowInv, QueueTypes
<1>2. UNCHANGED <<kinds, data, warnings, sent>> /\ Others' = Others /\ Warnings' = Warnings
  BY DEF HandMessage, HandWarning, queues, Others, Warnings
<1>3. CASE HandMessage
  <2>1. /\ messageQueue # <<>> /\ handed' = Append(handed, Head(messageQueue))
        /\ messageQueue' = Tail(messageQueue) /\ warningQueue' = warningQueue
    BY <1>3 DEF HandMessage
  <2>2. /\ Head(messageQueue) \in Nat /\ Head(messageQueue) \in ToSet(messageQueue)
        /\ ToSet(messageQueue) = {Head(messageQueue)} \cup ToSet(messageQueue')
    BY <1>1, <2>1, HeadFacts
  <2>3. Head(messageQueue) \notin Warnings
    BY <2>2 DEF FlowInv, LanesInv, Lane, Others
  <2>4. /\ Lane(handed', messageQueue', data, Others)
        /\ Lane(handed', warningQueue, warnings, Warnings)
    BY <1>1, <2>1, <2>2, <2>3, LaneHand, LaneOther DEF FlowInv, LanesInv
  <2>5. ToSet(handed') = ToSet(handed) \cup {Head(messageQueue)}
    BY <1>1, <2>1, <2>2, AppendFacts
  <2>6. Taken' = Taken /\ Queued' = Queued
    BY <1>2, <2>1, <2>2, <2>5 DEF Taken, Queued
  <2>7. QueueTypes'
    BY <1>2, <2>1, QueueSteps DEF FlowInv, QueueTypes
  <2> QED  BY <1>2, <2>1, <2>4, <2>6, <2>7 DEF FlowInv, LanesInv
<1>4. CASE HandWarning
  <2>1. /\ warningQueue # <<>> /\ handed' = Append(handed, Head(warningQueue))
        /\ warningQueue' = Tail(warningQueue) /\ messageQueue' = messageQueue
    BY <1>4 DEF HandWarning
  <2>2. /\ Head(warningQueue) \in Nat /\ Head(warningQueue) \in ToSet(warningQueue)
        /\ ToSet(warningQueue) = {Head(warningQueue)} \cup ToSet(warningQueue')
    BY <1>1, <2>1, HeadFacts
  <2>3. Head(warningQueue) \notin Others
    BY <2>2 DEF FlowInv, LanesInv, Lane, Others
  <2>4. /\ Lane(handed', messageQueue, data, Others)
        /\ Lane(handed', warningQueue', warnings, Warnings)
    BY <1>1, <2>1, <2>2, <2>3, LaneHand, LaneOther DEF FlowInv, LanesInv
  <2>5. ToSet(handed') = ToSet(handed) \cup {Head(warningQueue)}
    BY <1>1, <2>1, <2>2, AppendFacts
  <2>6. Taken' = Taken /\ Queued' = Queued
    BY <1>2, <2>1, <2>2, <2>5 DEF Taken, Queued
  <2>7. QueueTypes'
    BY <1>2, <2>1, QueueSteps DEF FlowInv, QueueTypes
  <2> QED  BY <1>2, <2>1, <2>4, <2>6, <2>7 DEF FlowInv, LanesInv
<1> QED  BY <1>3, <1>4

\* A new loop begins with empty queues (MessageWorker).
LEMMA StartLanes ==
  ASSUME FlowInv, Start
  PROVE  LanesInv' /\ QueueTypes'
<1>1. /\ data' = <<>> /\ warnings' = <<>> /\ sent' = <<>> /\ handed' = <<>>
      /\ messageQueue' = <<>> /\ warningQueue' = <<>>
  BY DEF Start, FlowInv, WorkerInv
<1>2. Taken' = {} /\ Queued' = {} /\ ToSet(sent') = {}
  BY <1>1, OrderedEmpty DEF Taken, Queued
<1> QED  BY <1>1, <1>2, LaneEmpty, ItemsAreNumbers DEF LanesInv, QueueTypes

\* consume(n) only makes kinds grow.
LEMMA NumLanes ==
  ASSUME FlowInv, Num
  PROVE  /\ LanesInv' /\ QueueTypes' /\ kinds' \in Seq(Kinds) /\ Len(kinds') <= MaxItems
         /\ UNCHANGED <<mode, style, flowing>>
<1>1. UNCHANGED <<mode, style, flowing>>
  BY DEF Num, ConsumeNum, Fetch, FetchFails, FetchEnds, ErrorCallback, OKCallback,
         ConvertEof, ConvertMessage, Converted, EmitEof, EmitMessage, EmitLast, Emitted
<1>2. CASE UNCHANGED kinds
  <2>1. UNCHANGED lanes
    BY <1>1, <1>2 DEF flowing, queues, working, lanes
  <2> QED  BY <1>1, <1>2, <2>1, LanesSame DEF FlowInv, FlowTypes
<1>3. CASE Fetch
  <2>1. /\ handed \in Seq(Nat) /\ messageQueue \in Seq(Nat) /\ data \in Seq(Nat)
        /\ warningQueue \in Seq(Nat) /\ warnings \in Seq(Nat)
    BY ItemsAreNumbers DEF FlowInv, QueueTypes
  <2>2. PICK n \in 1..MaxItems, kind \in {"message", "eof"} : Item(n, kind)
    BY <1>3 DEF Fetch
  <2>3. /\ kinds' \in Seq(Kinds) /\ Len(kinds') <= MaxItems
        /\ n \in Nat /\ \A x \in DOMAIN kinds : x < n
        /\ DOMAIN kinds' = DOMAIN kinds \cup {n}
        /\ Warnings' = Warnings /\ Others' = Others \cup {n}
    BY <2>2, KindsGrow DEF FlowInv, FlowTypes, Kinds
  <2>4. UNCHANGED <<handed, messageQueue, data, warningQueue, warnings, sent>>
    BY <1>1 DEF flowing, queues, working
  <2>5. \A x \in Taken \cup Queued : x < n
    BY <2>3 DEF FlowInv, LanesInv
  <2>6. Lane(handed, messageQueue, data, Others')
    BY <2>1, <2>3, <2>5, LaneGrow DEF FlowInv, LanesInv, Taken, Queued
  <2>7. Taken' = Taken /\ Queued' = Queued
    BY <2>4 DEF Taken, Queued
  <2>8. LanesInv'
    BY <2>3, <2>4, <2>6, <2>7 DEF FlowInv, LanesInv
  <2> QED  BY <1>1, <2>3, <2>4, <2>8 DEF FlowInv, QueueTypes
<1> QED  BY <1>1, <1>2, <1>3
         DEF Num, ConsumeNum, FetchFails, FetchEnds, ErrorCallback, OKCallback,
             ConvertEof, ConvertMessage, Converted, EmitEof, EmitMessage, EmitLast, Emitted

\* FlowInv is inductive.
LEMMA FlowNext == FlowInv /\ [Next]_vars => FlowInv'
<1> SUFFICES ASSUME FlowInv, [Next]_vars PROVE FlowInv'
  OBVIOUS
<1> USE DEF FlowInv
<1>1. CASE Start
  <2>1. LanesInv' /\ QueueTypes'
    BY <1>1, StartLanes
  <2>2. loops + 1 \in 0..MaxLoops
    BY <1>1, ConstantsAssumption DEF Start, FlowTypes
  <2>3. FlowTypes'
    BY <1>1, <2>2 DEF Start, FlowTypes
  <2>4. WorkerInv'
    BY <1>1 DEF Start, WorkerInv
  <2> QED  BY <2>1, <2>3, <2>4
<1>2. CASE Send \/ SendWarning
  <2>1. LanesInv' /\ QueueTypes' /\ kinds' \in Seq(Kinds) /\ Len(kinds') <= MaxItems
    BY <1>2, SendLanes
  <2>2. /\ UNCHANGED <<mode, style, loops, tpc, looping, failed, callback, working>>
        /\ signal' = TRUE
    BY <1>2 DEF Send, SendWarning
  <2>3. FlowTypes'
    BY <2>1, <2>2 DEF working, FlowTypes
  <2>4. WorkerInv'
    BY <2>2 DEF working, WorkerInv
  <2> QED  BY <2>1, <2>3, <2>4
<1>3. CASE LoopFails \/ LoopEnds
  <2>1. UNCHANGED lanes
    BY <1>3 DEF LoopFails, LoopEnds, queues, working, lanes
  <2>2. LanesInv' /\ QueueTypes'
    BY <2>1, LanesSame
  <2>3. FlowTypes'
    BY <1>3 DEF LoopFails, LoopEnds, queues, working, FlowTypes
  <2>4. WorkerInv'
    BY <1>3 DEF LoopFails, LoopEnds, queues, working, WorkerInv
  <2> QED  BY <2>2, <2>3, <2>4
<1>4. CASE WorkMessage
  BY <1>4, TakeLanes DEF WorkMessage, FlowTypes, WorkerInv
<1>5. CASE HandMessage \/ HandWarning
  BY <1>5, HandLanes DEF HandMessage, HandWarning, queues, FlowTypes, WorkerInv
<1>6. CASE WorkMessageReturns \/ Disconnect \/ Joined
  <2>1. UNCHANGED lanes
    BY <1>6 DEF WorkMessageReturns, Disconnect, Joined, queues, lanes
  <2>2. LanesInv' /\ QueueTypes'
    BY <2>1, LanesSame
  <2>3. FlowTypes'
    BY <1>6 DEF WorkMessageReturns, Disconnect, Joined, queues, FlowTypes
  <2>4. WorkerInv'
    BY <1>6 DEF WorkMessageReturns, Disconnect, Joined, queues, FlowTypes, WorkerInv
  <2> QED  BY <2>2, <2>3, <2>4
<1>7. CASE Num
  BY <1>7, NumLanes DEF flowing, queues, working, FlowTypes, WorkerInv
<1>8. CASE UNCHANGED vars
  <2>1. UNCHANGED lanes
    BY <1>8 DEF vars, flowing, queues, working, lanes
  <2> QED  BY <1>8, <2>1, LanesSame DEF vars, flowing, queues, working, FlowTypes, WorkerInv
<1> QED  BY <1>1, <1>2, <1>3, <1>4, <1>5, <1>6, <1>7, <1>8 DEF Next, Flowing

LEMMA FlowSafe == Spec => []FlowInv
BY FlowInit, FlowNext, PTL DEF Spec

\* The lanes are what KeptInOrder and OvertakesInBatch speak of.
LEMMA LanesKeepOrder ==
  ASSUME FlowInv
  PROVE  KeptInOrder /\ OvertakesInBatch
<1>1. /\ handed \in Seq(Nat) /\ messageQueue \in Seq(Nat) /\ data \in Seq(Nat)
      /\ warningQueue \in Seq(Nat) /\ warnings \in Seq(Nat)
  BY ItemsAreNumbers DEF FlowInv, QueueTypes
<1>2. /\ ToSet(messageQueue \o data) = ToSet(messageQueue) \cup ToSet(data)
      /\ ToSet(warningQueue \o warnings) = ToSet(warningQueue) \cup ToSet(warnings)
  BY <1>1, ConcatFacts
<1>3. /\ Ordered((handed \o messageQueue) \o data, Others)
      /\ Ordered((handed \o warningQueue) \o warnings, Warnings)
  BY <1>1, LaneOrdered DEF FlowInv, LanesInv
<1>4. /\ ToSet(messageQueue \o data) \subseteq Others
      /\ ToSet(warningQueue \o warnings) \subseteq Warnings
  BY <1>2 DEF FlowInv, LanesInv, Lane
<1>5. ToSet(sent) = ToSet(handed) \cup ToSet(messageQueue \o data)
                    \cup ToSet(warningQueue \o warnings)
  BY <1>2 DEF FlowInv, LanesInv, Taken, Queued
<1>6. OvertakesInBatch
  <2> SUFFICES ASSUME NEW m \in ToSet(handed) \cap Others,
                      NEW w \in (ToSet(sent) \ ToSet(handed)) \cap Warnings, w < m
               PROVE  w \in ToSet(warningQueue)
    BY DEF OvertakesInBatch
  <2>1. w \notin Queued
    <3>1. \A y \in Queued : m < y
      BY DEF FlowInv, LanesInv, Taken
    <3>2. m \in Int /\ w \in Int
      BY DEF FlowInv, FlowTypes, Others, Warnings
    <3> QED  BY <3>1, <3>2
  <2>2. w \notin ToSet(messageQueue)
    BY <1>2, <1>4 DEF Others
  <2> QED  BY <2>1, <2>2 DEF FlowInv, LanesInv, Taken
<1> QED  BY <1>3, <1>4, <1>5, <1>6 DEF KeptInOrder

-----------------------------------------------------------------------------
(* consume(n): counting, and splitting into two arrays.                      *)

Event == [item : Items, messageIndex : Int]

\* Nothing is counted to begin with.
LEMMA PositionsNone == \A s, K : Cardinality(Positions(s, K, 0)) = 0
<1>1. \A s, K : Positions(s, K, 0) = {}
  BY DEF Positions
<1> QED  BY <1>1, FS_EmptySet

\* One position more.
LEMMA PositionsStep ==
  ASSUME NEW s, NEW K, NEW n \in Nat
  PROVE  /\ Cardinality(Positions(s, K, n)) \in Nat
         /\ Cardinality(Positions(s, K, n + 1)) =
              IF s[n + 1] \in K THEN Cardinality(Positions(s, K, n)) + 1
                                ELSE Cardinality(Positions(s, K, n))
<1>1. IsFiniteSet(Positions(s, K, n))
  <2>1. IsFiniteSet(1..n)
    BY FS_Interval
  <2> QED  BY <2>1, FS_Subset DEF Positions
<1>2. Positions(s, K, n + 1) = IF s[n + 1] \in K THEN Positions(s, K, n) \cup {n + 1}
                                                 ELSE Positions(s, K, n)
  BY DEF Positions
<1>3. n + 1 \notin Positions(s, K, n)
  BY DEF Positions
<1> QED  BY <1>1, <1>2, <1>3, FS_AddElement, FS_CardinalityType

\* If all are counted, all are members.
LEMMA PositionsAll ==
  ASSUME NEW s, NEW K, NEW n \in Nat, Cardinality(Positions(s, K, n)) = n
  PROVE  \A j \in 1..n : s[j] \in K
<1>1. IsFiniteSet(1..n) /\ Cardinality(1..n) = n
  BY FS_Interval
<1>2. Positions(s, K, n) \in SUBSET (1..n)
  BY DEF Positions
<1>3. 1..n = Positions(s, K, n)
  BY <1>1, <1>2, FS_Subset
<1> QED  BY <1>3 DEF Positions

\* Only the first n matter.
LEMMA PositionsSame ==
  ASSUME NEW s, NEW t, NEW K, NEW L, NEW n,
         \A j \in 1..n : s[j] \in K <=> t[j] \in L
  PROVE  Positions(s, K, n) = Positions(t, L, n)
BY DEF Positions

\* HandleOKCallback begins with empty arrays.
LEMMA SplitNone == \A m : Split(m, 0, <<>>, <<>>)
BY DEF Split

\* One more in an array of eof events.
LEMMA EventAppend ==
  ASSUME NEW v \in Seq(Event), NEW x \in Event
  PROVE  /\ Append(v, x) \in Seq(Event) /\ Len(Append(v, x)) = Len(v) + 1 /\ Len(v) \in Nat
         /\ \A e \in 1..Len(v) : Append(v, x)[e] = v[e] /\ v[e].messageIndex \in Int
         /\ Append(v, x)[Len(v) + 1] = x
<1>1. \A e \in 1..Len(v) : v[e] \in Event
  OBVIOUS
<1>2. \A y \in Event : y.messageIndex \in Int
  BY DEF Event
<1>3. /\ Append(v, x) \in Seq(Event) /\ Len(Append(v, x)) = Len(v) + 1 /\ Len(v) \in Nat
      /\ \A e \in 1..Len(v) : Append(v, x)[e] = v[e]
      /\ Append(v, x)[Len(v) + 1] = x
  OBVIOUS
<1> QED  BY <1>1, <1>2, <1>3

\* An eof event goes to the one array.
LEMMA SplitEof ==
  ASSUME NEW m, NEW n \in Nat, NEW a \in Seq(Nat), NEW v \in Seq(Event), NEW i \in Items,
         Split(m, n, a, v), m[n + 1] = i
  PROVE  Split(m, n + 1, a, Append(v, [item |-> i, messageIndex |-> Len(a) - 1]))
<1> DEFINE x == [item |-> i, messageIndex |-> Len(a) - 1]
           w == Append(v, x)
<1>1. Len(a) \in Nat /\ x \in Event /\ x.item = i /\ x.messageIndex = Len(a) - 1
  BY DEF Event
<1>2. /\ Len(w) = Len(v) + 1 /\ Len(v) \in Nat
      /\ \A e \in 1..Len(v) : w[e] = v[e] /\ v[e].messageIndex \in Int
      /\ w[Len(v) + 1] = x
  BY <1>1, EventAppend
<1> HIDE DEF x, w
<1>3. /\ Len(a) + Len(v) = n
      /\ \A e \in 1..Len(v) : /\ v[e].messageIndex \in -1..(Len(a) - 1)
                              /\ v[e].item = m[e + v[e].messageIndex + 1]
      /\ \A e, f \in 1..Len(v) : e < f => v[e].messageIndex <= v[f].messageIndex
      /\ \A r \in 1..Len(a), e \in 0..Len(v) :
           /\ e # 0 => v[e].messageIndex < r - 1
           /\ e # Len(v) => v[e + 1].messageIndex >= r - 1
           => a[r] = m[r + e]
  BY DEF Split
<1>4. Len(a) + Len(w) = n + 1
  <2>1. Len(a) + Len(v) = n /\ Len(w) = Len(v) + 1 /\ Len(a) \in Nat /\ Len(v) \in Nat
    BY <1>1, <1>2, <1>3
  <2> QED  BY <2>1
<1>5. ASSUME NEW e \in 1..Len(w)
      PROVE  /\ w[e].messageIndex \in -1..(Len(a) - 1)
             /\ w[e].item = m[e + w[e].messageIndex + 1]
  <2>1. CASE e \in 1..Len(v)
    BY <1>2, <1>3, <2>1
  <2>2. CASE e = Len(v) + 1
    <3>1. w[e].messageIndex = Len(a) - 1 /\ w[e].item = i
      BY <1>1, <1>2, <2>2
    <3>2. e + (Len(a) - 1) + 1 = n + 1
      <4>1. Len(a) + Len(v) = n /\ Len(a) \in Nat /\ Len(v) \in Nat
        BY <1>1, <1>2, <1>3
      <4> QED  BY <2>2, <4>1
    <3> QED  BY <1>1, <3>1, <3>2
  <2> QED  BY <1>2, <2>1, <2>2
<1>6. ASSUME NEW e \in 1..Len(w), NEW f \in 1..Len(w), e < f
      PROVE  w[e].messageIndex <= w[f].messageIndex
  <2>1. e \in 1..Len(v) /\ w[e] = v[e]
    BY <1>2, <1>6
  <2>2. CASE f \in 1..Len(v)
    BY <1>2, <1>3, <1>6, <2>1, <2>2
  <2>3. CASE f = Len(v) + 1
    BY <1>1, <1>2, <1>3, <2>1, <2>3
  <2> QED  BY <1>2, <2>2, <2>3
<1>7. ASSUME NEW r \in 1..Len(a), NEW e \in 0..Len(w),
             e # 0 => w[e].messageIndex < r - 1,
             e # Len(w) => w[e + 1].messageIndex >= r - 1
      PROVE  a[r] = m[r + e]
  <2>1. e # Len(v) + 1
    <3> SUFFICES ASSUME e = Len(v) + 1 PROVE FALSE
      OBVIOUS
    <3>1. e # 0 /\ w[e].messageIndex = Len(a) - 1
      BY <1>1, <1>2
    <3> QED  BY <1>1, <1>7, <3>1
  <2>2. e \in 0..Len(v) /\ (e # 0 => e \in 1..Len(v)) /\ (e # Len(v) => e + 1 \in 1..Len(v))
    BY <1>2, <2>1
  <2>3. e # 0 => v[e].messageIndex < r - 1
    BY <1>2, <1>7, <2>2
  <2>4. e # Len(v) => v[e + 1].messageIndex >= r - 1
    BY <1>2, <1>7, <2>2
  <2> QED  BY <1>3, <2>2, <2>3, <2>4
<1>8. Split(m, n + 1, a, w)
  BY <1>4, <1>5, <1>6, <1>7 DEF Split
<1> QED  BY <1>8 DEF x, w

\* A message goes to the other.
LEMMA SplitMessage ==
  ASSUME NEW m, NEW n \in Nat, NEW a \in Seq(Nat), NEW v \in Seq(Event), NEW i \in Nat,
         Split(m, n, a, v), m[n + 1] = i
  PROVE  Split(m, n + 1, Append(a, i), v)
<1> DEFINE b == Append(a, i)
<1>1. /\ Len(a) \in Nat /\ Len(b) = Len(a) + 1 /\ Len(v) \in Nat
      /\ \A r \in 1..Len(a) : b[r] = a[r]
      /\ b[Len(a) + 1] = i
  BY AppendFacts
<1> HIDE DEF b
<1>3. /\ Len(a) + Len(v) = n
      /\ \A e \in 1..Len(v) : /\ v[e].messageIndex \in -1..(Len(a) - 1)
                              /\ v[e].item = m[e + v[e].messageIndex + 1]
      /\ \A e, f \in 1..Len(v) : e < f => v[e].messageIndex <= v[f].messageIndex
      /\ \A r \in 1..Len(a), e \in 0..Len(v) :
           /\ e # 0 => v[e].messageIndex < r - 1
           /\ e # Len(v) => v[e + 1].messageIndex >= r - 1
           => a[r] = m[r + e]
  BY DEF Split
<1>4. Len(b) + Len(v) = n + 1
  <2>1. Len(a) + Len(v) = n /\ Len(b) = Len(a) + 1 /\ Len(a) \in Nat /\ Len(v) \in Nat
    BY <1>1, <1>3
  <2> QED  BY <2>1
<1>5. \A e \in 1..Len(v) : v[e].messageIndex \in -1..(Len(b) - 1)
  BY <1>1, <1>3
<1>6. ASSUME NEW r \in 1..Len(b), NEW e \in 0..Len(v),
             e # 0 => v[e].messageIndex < r - 1,
             e # Len(v) => v[e + 1].messageIndex >= r - 1
      PROVE  b[r] = m[r + e]
  <2>1. CASE r \in 1..Len(a)
    BY <1>1, <1>3, <1>6, <2>1
  <2>2. CASE r = Len(a) + 1
    <3>1. e = Len(v)
      <4> SUFFICES ASSUME e # Len(v) PROVE FALSE
        OBVIOUS
      <4>1. e + 1 \in 1..Len(v)
        BY <1>1
      <4> QED  BY <1>1, <1>3, <1>6, <2>2, <4>1
    <3>2. r + e = n + 1
      BY <1>1, <1>3, <2>2, <3>1
    <3> QED  BY <1>1, <2>2, <3>2
  <2> QED  BY <1>1, <2>1, <2>2
<1>7. Split(m, n + 1, b, v)
  BY <1>3, <1>4, <1>5, <1>6 DEF Split
<1> QED  BY <1>7 DEF b

-----------------------------------------------------------------------------
(* consume(n): the steps.                                                    *)

NumTypes ==
  /\ npc \in {"none", "run", "done", "convert", "emit"} /\ nfailed \in BOOLEAN
  /\ size \in 0..MaxSize /\ eofCount \in Nat
  /\ converted \in Nat /\ index \in Int /\ eofIndex \in Nat
  /\ messages \in Seq(Items) /\ returnArray \in Seq(Items)
  /\ fetched \in Seq(Items) /\ emitted \in Seq(Items)
  /\ eofEvents \in Seq(Event)

NumInv == NumTypes /\ FetchedInv /\ ArraysInv /\ EmissionInv

LEMMA NumInit == Init => NumInv
<1> SUFFICES ASSUME Init PROVE NumInv
  OBVIOUS
<1>1. NumTypes
  <2>1. 0 \in 0..MaxSize /\ -1 \in Int /\ <<>> \in Seq(Event) /\ <<>> \in Seq(Items)
    BY ConstantsAssumption
  <2> QED  BY <2>1 DEF Init, NumTypes
<1>2. messages = <<>> /\ fetched = <<>> /\ Len(<<>>) = 0
  BY DEF Init
<1>3. FetchedInv
  BY <1>2, OrderedEmpty, PositionsNone DEF Init, FetchedInv, MessageCount
<1> QED  BY <1>1, <1>3 DEF Init, NumInv, ArraysInv, EmissionInv

\* What consume() has returned keeps its kind.
LEMMA SameKinds ==
  ASSUME kinds \in Seq(Kinds), NEW n \in 1..MaxItems, NEW kind \in Kinds, Item(n, kind)
  PROVE  /\ Eofs \subseteq Eofs' /\ Messages \subseteq Messages'
         /\ \A x \in Eofs \cup Messages : x \in Eofs' <=> x \in Eofs
         /\ kind = "eof" => n \in Eofs'
         /\ kind = "message" => n \in Messages' /\ n \notin Eofs'
BY KindsGrow DEF Eofs, Messages

\* An item that consume(n) does not get changes nothing for it (flowing mode).
LEMMA NumSame ==
  ASSUME NumInv, UNCHANGED num,
         Eofs \subseteq Eofs', Messages \subseteq Messages',
         \A x \in Eofs \cup Messages : x \in Eofs' <=> x \in Eofs
  PROVE  NumInv'
<1>1. /\ UNCHANGED <<npc, size, eofCount, nfailed, messages, converted, returnArray, eofEvents,
                     index, eofIndex, fetched, emitted>>
      /\ MessageCount' = MessageCount
  BY DEF num, arrays, MessageCount
<1>2. NumTypes'
  BY <1>1 DEF NumInv, NumTypes
<1>3. /\ Len(messages) \in Nat /\ DOMAIN messages = 1..Len(messages)
      /\ ToSet(messages) \subseteq Eofs \cup Messages
  BY DEF NumInv, NumTypes, FetchedInv
<1>4. \A j \in 1..Len(messages) : messages[j] \in Eofs <=> messages[j] \in Eofs'
  BY <1>3 DEF ToSet
<1>5. Positions(messages, Eofs', Len(messages)) = Positions(messages, Eofs, Len(messages))
  BY <1>4, PositionsSame
<1>6. FetchedInv'
  BY <1>1, <1>5 DEF NumInv, FetchedInv
<1>7. ArraysInv'
  <2> SUFFICES ASSUME npc \in {"convert", "emit"}
               PROVE  Len(eofEvents) = Cardinality(Positions(messages, Eofs', converted))
    BY <1>1 DEF NumInv, ArraysInv
  <2>1. converted \in Nat /\ converted <= Len(messages)
    BY DEF NumInv, NumTypes, ArraysInv
  <2>2. \A j \in 1..converted : messages[j] \in Eofs <=> messages[j] \in Eofs'
    BY <1>3, <1>4, <2>1
  <2>3. Positions(messages, Eofs', converted) = Positions(messages, Eofs, converted)
    BY <2>2, PositionsSame
  <2> QED  BY <2>3 DEF NumInv, ArraysInv
<1>8. EmissionInv'
  BY <1>1 DEF NumInv, EmissionInv
<1> QED  BY <1>2, <1>6, <1>7, <1>8 DEF NumInv

\* consume(n) is called, with no message yet (KafkaConsumerConsumeNum).
LEMMA ConsumeNumInv ==
  ASSUME NumInv, ConsumeNum
  PROVE  NumInv'
<1>1. /\ messages' = <<>> /\ eofCount' = 0 /\ nfailed' = FALSE /\ npc' = "run"
      /\ size' \in 1..MaxSize /\ npc = "none"
      /\ UNCHANGED <<kinds, converted, returnArray, eofEvents, index, eofIndex, fetched, emitted>>
  BY DEF ConsumeNum, arrays
<1>2. NumTypes'
  <2>1. size' \in 0..MaxSize
    BY <1>1, ConstantsAssumption
  <2> QED  BY <1>1, <2>1, ItemsAreNumbers DEF NumInv, NumTypes
<1>3. Eofs' = Eofs /\ Messages' = Messages /\ Len(<<>>) = 0
  BY <1>1 DEF Eofs, Messages
<1>4. MessageCount' = 0 /\ ToSet(messages') = {} /\ 0 <= size'
  BY <1>1, <1>3, OrderedEmpty, ConstantsAssumption DEF MessageCount
<1>5. eofCount' = Cardinality(Positions(messages', Eofs', Len(messages')))
  BY <1>1, <1>3, PositionsNone
<1>6. FetchedInv'
  BY <1>1, <1>3, <1>4, <1>5 DEF NumInv, FetchedInv
<1>7. ArraysInv' /\ EmissionInv'
  BY <1>1, <1>3 DEF NumInv, ArraysInv, EmissionInv
<1> QED  BY <1>2, <1>6, <1>7 DEF NumInv

\* A message or an eof event is fetched (KafkaConsumerConsumeNum::Execute).
LEMMA FetchInv ==
  ASSUME NumInv, FlowTypes, Fetch
  PROVE  NumInv'
<1>1. PICK n \in 1..MaxItems, kind \in {"message", "eof"} :
        /\ Item(n, kind)
        /\ messages' = Append(messages, n)
        /\ eofCount' = IF kind = "eof" THEN eofCount + 1 ELSE eofCount
  BY DEF Fetch
<1>2. /\ npc = "run" /\ MessageCount < size
      /\ UNCHANGED <<npc, size, nfailed, converted, returnArray, eofEvents, index, eofIndex,
                     fetched, emitted>>
  BY DEF Fetch, arrays
<1>3. /\ n \in Items /\ n \in Nat
      /\ Eofs \subseteq Eofs' /\ Messages \subseteq Messages'
      /\ \A x \in Eofs \cup Messages : x \in Eofs' <=> x \in Eofs
      /\ kind = "eof" => n \in Eofs'
      /\ kind = "message" => n \in Messages' /\ n \notin Eofs'
  BY <1>1, KindsGrow, SameKinds DEF FlowTypes, Kinds
<1>4. messages \in Seq(Nat) /\ messages \in Seq(Items) /\ eofCount \in Nat /\ size \in Nat
  BY ItemsAreNumbers, ConstantsAssumption DEF NumInv, NumTypes
<1>5. NumTypes'
  BY <1>1, <1>2, <1>3, <1>4, QueueSteps DEF NumInv, NumTypes
<1> DEFINE l == Len(messages)
<1>6. /\ l \in Nat /\ Len(messages') = l + 1 /\ ToSet(messages') = ToSet(messages) \cup {n}
      /\ (\A j \in 1..l : messages'[j] = messages[j]) /\ messages'[l + 1] = n
      /\ DOMAIN messages = 1..l
  BY <1>1, <1>3, <1>4, AppendFacts
<1>7. ToSet(messages') \cup ToSet(fetched') \subseteq Eofs' \cup Messages'
  BY <1>1, <1>2, <1>3, <1>6 DEF NumInv, FetchedInv
<1> HIDE DEF l
<1>8. Positions(messages', Eofs', l) = Positions(messages, Eofs, l)
  <2>1. \A j \in 1..l : messages[j] \in Eofs \cup Messages
    BY <1>6 DEF NumInv, FetchedInv, ToSet
  <2>2. \A j \in 1..l : messages'[j] \in Eofs' <=> messages[j] \in Eofs
    BY <1>3, <1>6, <2>1
  <2> QED  BY <2>2, PositionsSame
<1>9. eofCount' = Cardinality(Positions(messages', Eofs', l + 1))
  <2>1. eofCount = Cardinality(Positions(messages', Eofs', l))
    BY <1>8 DEF NumInv, FetchedInv, l
  <2>2. Cardinality(Positions(messages', Eofs', l + 1)) =
          IF n \in Eofs' THEN eofCount + 1 ELSE eofCount
    <3>1. Cardinality(Positions(messages', Eofs', l + 1)) =
            IF messages'[l + 1] \in Eofs' THEN Cardinality(Positions(messages', Eofs', l)) + 1
                                          ELSE Cardinality(Positions(messages', Eofs', l))
      BY <1>6, PositionsStep
    <3> QED  BY <1>6, <2>1, <3>1
  <2> QED  BY <1>1, <1>3, <2>2
<1>10. MessageCount' <= size'
  <2>1. l - eofCount < size /\ (eofCount' = eofCount \/ eofCount' = eofCount + 1)
    BY <1>1, <1>2 DEF MessageCount, l
  <2>2. (l + 1) - eofCount' <= size
    BY <1>4, <1>6, <2>1
  <2> QED  BY <1>2, <1>6, <2>2 DEF MessageCount
<1>11. FetchedInv'
  BY <1>2, <1>6, <1>7, <1>9, <1>10 DEF NumInv, FetchedInv
<1>12. ArraysInv' /\ EmissionInv'
  BY <1>2, <1>3 DEF NumInv, ArraysInv, EmissionInv
<1> QED  BY <1>5, <1>11, <1>12 DEF NumInv

\* The fetching ends, and the worker's callback runs.
LEMMA CallbackInv ==
  ASSUME NumInv, FetchFails \/ FetchEnds \/ ErrorCallback \/ OKCallback
  PROVE  NumInv'
<1>1. /\ UNCHANGED <<kinds, size, eofCount, messages>> /\ Eofs' = Eofs /\ Messages' = Messages
      /\ MessageCount' = MessageCount
  BY DEF FetchFails, FetchEnds, ErrorCallback, OKCallback, Eofs, Messages, MessageCount
<1>2. CASE FetchFails \/ FetchEnds
  <2>1. /\ npc = "run" /\ npc' = "done"
        /\ UNCHANGED <<converted, returnArray, eofEvents, index, eofIndex, fetched, emitted>>
    BY <1>2 DEF FetchFails, FetchEnds, arrays
  <2>5. ~nfailed
    BY <2>1 DEF NumInv, FetchedInv
  <2>6. nfailed' \in BOOLEAN /\ (nfailed' => MessageCount = 0)
    <3>1. CASE FetchFails
      BY <3>1, Zenon DEF FetchFails
    <3>2. CASE FetchEnds
      BY <2>5, <3>2 DEF FetchEnds, NumInv, NumTypes
    <3> QED  BY <1>2, <3>1, <3>2
  <2>2. NumTypes'
    BY <1>1, <2>1, <2>6 DEF NumInv, NumTypes
  <2>3. FetchedInv'
    BY <1>1, <2>1, <2>6 DEF NumInv, FetchedInv
  <2>4. ArraysInv' /\ EmissionInv'
    BY <1>1, <2>1 DEF NumInv, ArraysInv, EmissionInv
  <2> QED  BY <2>2, <2>3, <2>4 DEF NumInv
<1>3. CASE ErrorCallback
  <2>1. /\ npc = "done" /\ npc' = "none" /\ nfailed /\ fetched' = messages /\ emitted' = <<>>
        /\ UNCHANGED <<nfailed, converted, returnArray, eofEvents, index, eofIndex>>
    BY <1>3 DEF ErrorCallback, arrays
  <2>2. NumTypes'
    BY <1>1, <2>1, ItemsAreNumbers DEF NumInv, NumTypes
  <2>3. FetchedInv'
    BY <1>1, <2>1 DEF NumInv, FetchedInv
  <2>4. ToSet(messages) \subseteq Eofs
    <3>1. Len(messages) \in Nat /\ eofCount \in Nat /\ DOMAIN messages = 1..Len(messages)
      BY DEF NumInv, NumTypes
    <3>2. Len(messages) - eofCount = 0
      BY <2>1 DEF NumInv, FetchedInv, MessageCount
    <3>3. Cardinality(Positions(messages, Eofs, Len(messages))) = Len(messages)
      BY <3>1, <3>2 DEF NumInv, FetchedInv
    <3>4. \A j \in 1..Len(messages) : messages[j] \in Eofs
      BY <3>1, <3>3, PositionsAll
    <3> QED  BY <3>1, <3>4 DEF ToSet
  <2>5. ArraysInv' /\ EmissionInv'
    BY <1>1, <2>1, <2>4 DEF NumInv, ArraysInv, EmissionInv
  <2> QED  BY <2>2, <2>3, <2>5 DEF NumInv
<1>4. CASE OKCallback
  <2>1. /\ npc' = "convert" /\ fetched' = messages /\ emitted' = <<>> /\ nfailed' = nfailed
        /\ converted' = 0 /\ returnArray' = <<>> /\ eofEvents' = <<>>
        /\ index' = -1 /\ eofIndex' = 0
    BY <1>4 DEF OKCallback
  <2>2. NumTypes'
    BY <1>1, <2>1, ItemsAreNumbers DEF NumInv, NumTypes
  <2>3. FetchedInv'
    BY <1>1, <2>1 DEF NumInv, FetchedInv
  <2>4. ArraysInv'
    <3>1. 0 <= Len(messages) /\ Len(<<>>) = 0
      BY DEF NumInv, NumTypes
    <3> QED  BY <1>1, <2>1, <3>1, PositionsNone, SplitNone DEF ArraysInv
  <2>5. EmissionInv'
    BY <2>1 DEF EmissionInv
  <2> QED  BY <2>2, <2>3, <2>4, <2>5 DEF NumInv
<1> QED  BY <1>2, <1>3, <1>4

\* One item goes to its array (KafkaConsumerConsumeNum::HandleOKCallback).
LEMMA ConvertInv ==
  ASSUME NumInv, ConvertEof \/ ConvertMessage
  PROVE  NumInv'
<1> DEFINE c == converted
           i == messages[converted + 1]
<1>1. /\ npc = "convert" /\ c < Len(messages) /\ converted' = c + 1
      /\ UNCHANGED <<kinds, npc, size, eofCount, nfailed, messages, index, eofIndex, fetched,
                     emitted>>
  BY DEF ConvertEof, ConvertMessage
<1>2. /\ c \in Nat /\ Len(messages) \in Nat /\ DOMAIN messages = 1..Len(messages)
      /\ messages \in Seq(Items) /\ eofEvents \in Seq(Event)
      /\ returnArray \in Seq(Items) /\ returnArray \in Seq(Nat)
  BY ItemsAreNumbers DEF NumInv, NumTypes
<1>3. c + 1 \in 1..Len(messages)
  BY <1>1, <1>2
<1>4. i \in Items /\ i \in Nat /\ i \in Eofs \cup Messages
  <2>1. i \in Items
    BY <1>2, <1>3
  <2>2. i \in ToSet(messages)
    BY <1>2, <1>3 DEF ToSet
  <2> QED  BY <2>1, <2>2, ConstantsAssumption DEF Items, NumInv, FetchedInv
<1>5. Eofs' = Eofs /\ Messages' = Messages /\ MessageCount' = MessageCount
  BY <1>1 DEF Eofs, Messages, MessageCount
<1>6. /\ Len(eofEvents) = Cardinality(Positions(messages, Eofs, c))
      /\ Split(messages, c, returnArray, eofEvents)
  BY <1>1 DEF NumInv, ArraysInv
<1>7. Cardinality(Positions(messages, Eofs, c + 1)) =
        IF i \in Eofs THEN Len(eofEvents) + 1 ELSE Len(eofEvents)
  <2>1. Cardinality(Positions(messages, Eofs, c + 1)) =
          IF i \in Eofs THEN Cardinality(Positions(messages, Eofs, c)) + 1
                        ELSE Cardinality(Positions(messages, Eofs, c))
    <3>1. converted \in Nat
      BY <1>2
    <3> QED  BY <3>1, PositionsStep
  <2> QED  BY <1>6, <2>1
<1> HIDE DEF c, i
<1>8. /\ Split(messages, c + 1, returnArray', eofEvents')
      /\ Len(eofEvents') = Cardinality(Positions(messages, Eofs, c + 1))
      /\ returnArray' \in Seq(Items) /\ eofEvents' \in Seq(Event)
  <2>1. CASE ConvertEof
    <3> DEFINE x == [item |-> i, messageIndex |-> Len(returnArray) - 1]
    <3>1. returnArray' = returnArray /\ eofEvents' = Append(eofEvents, x) /\ i \in Eofs
      BY <1>4, <2>1 DEF ConvertEof, IsEof, Eofs, Messages, c, i
    <3>2. x \in Event
      BY <1>2, <1>4 DEF Event
    <3>3. Split(messages, c + 1, returnArray, Append(eofEvents, x))
      BY <1>2, <1>4, <1>6, SplitEof DEF c, i
    <3> HIDE DEF x
    <3>4. Append(eofEvents, x) \in Seq(Event) /\ Len(Append(eofEvents, x)) = Len(eofEvents) + 1
      BY <1>2, <3>2, EventAppend
    <3> QED  BY <1>2, <1>7, <3>1, <3>3, <3>4
  <2>2. CASE ConvertMessage
    <3>1. returnArray' = Append(returnArray, i) /\ eofEvents' = eofEvents /\ i \notin Eofs
      BY <2>2 DEF ConvertMessage, IsMessage, Eofs, i
    <3>2. Split(messages, c + 1, Append(returnArray, i), eofEvents)
      BY <1>2, <1>4, <1>6, SplitMessage DEF c, i
    <3>3. Append(returnArray, i) \in Seq(Items)
      BY <1>2, <1>4, QueueSteps
    <3> QED  BY <1>2, <1>7, <3>1, <3>2, <3>3
  <2> QED  BY <2>1, <2>2
<1>9. NumTypes'
  <2>1. converted' \in Nat
    BY <1>1, <1>2
  <2> QED  BY <1>1, <1>8, <2>1 DEF NumInv, NumTypes
<1>10. FetchedInv'
  BY <1>1, <1>5 DEF NumInv, FetchedInv
<1>11. ArraysInv'
  <2>1. converted' <= Len(messages')
    BY <1>1, <1>2
  <2> QED  BY <1>1, <1>5, <1>8, <2>1 DEF ArraysInv
<1>12. EmissionInv'
  BY <1>1 DEF NumInv, EmissionInv
<1> QED  BY <1>9, <1>10, <1>11, <1>12 DEF NumInv

\* The arrays are complete (HandleOKCallback calls back).
LEMMA ConvertedInv ==
  ASSUME NumInv, Converted
  PROVE  NumInv'
<1>1. /\ npc = "convert" /\ npc' = "emit" /\ converted = Len(messages)
      /\ UNCHANGED <<kinds, size, eofCount, nfailed, messages, converted, returnArray, eofEvents,
                     index, eofIndex, fetched, emitted>>
  BY DEF Converted, arrays
<1>2. Eofs' = Eofs /\ Messages' = Messages /\ MessageCount' = MessageCount
  BY <1>1 DEF Eofs, Messages, MessageCount
<1>3. NumTypes'
  BY <1>1 DEF NumInv, NumTypes
<1>4. FetchedInv' /\ ArraysInv'
  BY <1>1, <1>2 DEF NumInv, FetchedInv, ArraysInv
<1>5. EmissionInv'
  <2>1. /\ emitted = <<>> /\ index = -1 /\ eofIndex = 0 /\ Len(<<>>) = 0
        /\ Len(returnArray) \in Nat /\ Len(eofEvents) \in Nat
    BY <1>1 DEF NumInv, NumTypes, EmissionInv
  <2>2. \A e \in 1..Len(eofEvents) : eofEvents[e].messageIndex >= -1
    <3>1. \A e \in 1..Len(eofEvents) : eofEvents[e].messageIndex \in -1..(Len(returnArray) - 1)
      BY <1>1 DEF NumInv, ArraysInv, Split
    <3> QED  BY <2>1, <3>1
  <2>3. /\ index \in -1..Len(returnArray) /\ eofIndex \in 0..Len(eofEvents)
        /\ index # Len(returnArray) /\ index + 1 = 0
        /\ 1..Len(emitted) = {} /\ 1..eofIndex = {} /\ eofIndex + 1 = 1
    BY <2>1
  <2>4. Len(emitted) = eofIndex + (IF index = Len(returnArray) THEN index ELSE index + 1)
    BY <2>1
  <2> QED  BY <1>1, <2>1, <2>2, <2>3, <2>4 DEF EmissionInv
<1> QED  BY <1>3, <1>4, <1>5 DEF NumInv

\* What is known while _consumeNum's callback emits, without the other phases.
LEMMA EmitFacts ==
  ASSUME NumInv, npc = "emit"
  PROVE  /\ messages \in Seq(Items) /\ returnArray \in Seq(Items) /\ emitted \in Seq(Nat)
         /\ emitted \in Seq(Items) /\ messages \in Seq(Nat)
         /\ Len(returnArray) \in Nat /\ Len(eofEvents) \in Nat /\ Len(messages) \in Nat
         /\ fetched = messages
         /\ Len(returnArray) + Len(eofEvents) = Len(messages)
         /\ index \in -1..Len(returnArray) /\ index \in Int
         /\ eofIndex \in 0..Len(eofEvents) /\ eofIndex \in Nat
         /\ Len(emitted) = eofIndex + (IF index = Len(returnArray) THEN index ELSE index + 1)
         /\ \A k \in 1..Len(emitted) : emitted[k] = messages[k]
         /\ \A e \in 1..Len(eofEvents) :
              eofEvents[e].messageIndex \in -1..(Len(returnArray) - 1)
<1>1. /\ messages \in Seq(Items) /\ returnArray \in Seq(Items) /\ emitted \in Seq(Items)
      /\ index \in Int /\ eofIndex \in Nat
      /\ eofEvents \in Seq(Event)
  BY DEF NumInv, NumTypes
<1>2. emitted \in Seq(Nat) /\ messages \in Seq(Nat)
  BY <1>1, ItemsAreNumbers
<1>3. /\ Len(returnArray) \in Nat /\ Len(messages) \in Nat
      /\ Len(eofEvents) \in Nat
  BY <1>1
<1>4. fetched = messages
  BY DEF NumInv, FetchedInv
<1>5. /\ converted = Len(messages)
      /\ index \in -1..Len(returnArray) /\ eofIndex \in 0..Len(eofEvents)
      /\ Len(emitted) = eofIndex + (IF index = Len(returnArray) THEN index ELSE index + 1)
      /\ \A k \in 1..Len(emitted) : emitted[k] = messages[k]
  BY DEF NumInv, EmissionInv
<1>6. Split(messages, converted, returnArray, eofEvents)
  BY DEF NumInv, ArraysInv
<1>7. /\ Len(returnArray) + Len(eofEvents) = Len(messages)
      /\ \A e \in 1..Len(eofEvents) :
           eofEvents[e].messageIndex \in -1..(Len(returnArray) - 1)
  BY <1>5, <1>6 DEF Split
<1> QED  BY <1>1, <1>2, <1>3, <1>4, <1>5, <1>7

\* The next item is emitted: eof is whether it is an eof event.
LEMMA EmitOne ==
  ASSUME NumInv, npc = "emit", EmitEof \/ EmitMessage,
         NEW i \in Items, emitted' = Append(emitted, i), i = messages[Len(emitted) + 1],
         Len(emitted) + 1 = eofIndex' + (IF index' = Len(returnArray) THEN index' ELSE index' + 1),
         index' \in -1..Len(returnArray), eofIndex' \in 0..Len(eofEvents),
         \A e \in 1..eofIndex' : eofEvents[e].messageIndex <= index',
         \A e \in (eofIndex' + 1)..Len(eofEvents) : eofEvents[e].messageIndex >= index'
  PROVE  NumInv'
<1>1. UNCHANGED <<kinds, npc, size, eofCount, nfailed, messages, converted, returnArray,
                  eofEvents, fetched>>
  BY DEF EmitEof, EmitMessage
<1>2. /\ emitted \in Seq(Nat) /\ emitted \in Seq(Items) /\ i \in Nat /\ Len(eofEvents) \in Nat
      /\ Len(returnArray) \in Nat /\ \A k \in 1..Len(emitted) : emitted[k] = messages[k]
  <2>1. npc = "emit" /\ i \in Nat
    BY ConstantsAssumption DEF Items
  <2> QED  BY <2>1, EmitFacts
<1>3. /\ emitted' \in Seq(Items) /\ Len(emitted') = Len(emitted) + 1 /\ Len(emitted) \in Nat
      /\ \A k \in 1..(Len(emitted) + 1) : emitted'[k] = messages[k]
  <2>1. /\ Len(emitted') = Len(emitted) + 1 /\ Len(emitted) \in Nat
        /\ \A k \in 1..Len(emitted) : emitted'[k] = emitted[k]
        /\ emitted'[Len(emitted) + 1] = i
    BY <1>2, AppendFacts
  <2>2. emitted' \in Seq(Items)
    BY <1>2, QueueSteps
  <2>3. \A k \in 1..(Len(emitted) + 1) : k \in 1..Len(emitted) \/ k = Len(emitted) + 1
    BY <2>1
  <2> QED  BY <1>2, <2>1, <2>2, <2>3
<1>4. index' \in Int /\ eofIndex' \in Nat
  BY <1>2
<1>5. NumTypes'
  BY <1>1, <1>3, <1>4 DEF NumInv, NumTypes
<1>6. Eofs' = Eofs /\ Messages' = Messages /\ MessageCount' = MessageCount
  BY <1>1 DEF Eofs, Messages, MessageCount
<1>7. FetchedInv' /\ ArraysInv'
  BY <1>1, <1>6 DEF NumInv, FetchedInv, ArraysInv
<1>8. EmissionInv'
  BY <1>1, <1>3 DEF NumInv, EmissionInv
<1> QED  BY <1>5, <1>7, <1>8 DEF NumInv

\* An eof event is emitted behind the message it came after (emitEofEventsFor).
LEMMA EmitEofInv ==
  ASSUME NumInv, EmitEof
  PROVE  NumInv'
<1> DEFINE e == eofIndex + 1
           M(k) == eofEvents[k].messageIndex
<1>1. /\ npc = "emit" /\ eofIndex < Len(eofEvents) /\ M(e) = index
      /\ emitted' = Append(emitted, eofEvents[e].item) /\ eofIndex' = eofIndex + 1
      /\ index' = index
  BY DEF EmitEof, EofDue
<1>2. /\ Len(returnArray) \in Nat /\ Len(eofEvents) \in Nat /\ index \in Int /\ eofIndex \in Nat
      /\ Len(emitted) = eofIndex + (IF index = Len(returnArray) THEN index ELSE index + 1)
      /\ index \in -1..Len(returnArray)
      /\ \A k \in 1..Len(eofEvents) : M(k) \in -1..(Len(returnArray) - 1)
  BY <1>1, EmitFacts
<1>3. e \in 1..Len(eofEvents) /\ e \in 0..Len(eofEvents)
  BY <1>1, <1>2
<1>4. index # Len(returnArray)
  <2>1. M(e) \in -1..(Len(returnArray) - 1)
    BY <1>2, <1>3
  <2> QED  BY <1>1, <1>2, <2>1
<1>5. eofEvents[e].item = messages[e + M(e) + 1] /\ eofEvents[e].item \in Items
  <2>1. eofEvents[e] \in Event
    BY <1>3 DEF NumInv, NumTypes
  <2>2. eofEvents[e].item = messages[e + M(e) + 1]
    BY <1>1, <1>3 DEF NumInv, ArraysInv, Split
  <2> QED  BY <2>1, <2>2 DEF Event
<1>6. e + M(e) + 1 = Len(emitted) + 1
  BY <1>1, <1>2, <1>4
<1>7. Len(emitted) + 1 = e + (IF index = Len(returnArray) THEN index ELSE index + 1)
  BY <1>2, <1>4
<1>8. /\ \A k \in 1..eofIndex : M(k) <= index
      /\ \A k \in (eofIndex + 1)..Len(eofEvents) : M(k) >= index
  BY <1>1 DEF NumInv, EmissionInv
<1>9. /\ \A k \in 1..e : M(k) <= index
      /\ \A k \in (e + 1)..Len(eofEvents) : M(k) >= index
  <2>1. /\ \A k \in 1..e : k \in 1..eofIndex \/ k = e
        /\ \A k \in (e + 1)..Len(eofEvents) : k \in (eofIndex + 1)..Len(eofEvents)
    BY <1>2
  <2> QED  BY <1>1, <1>2, <1>8, <2>1
<1> QED  BY <1>1, <1>2, <1>3, <1>5, <1>6, <1>7, <1>9, EmitOne

\* emitEofEventsFor(index) has ended: what is left comes later.
LEMMA EofsLater ==
  ASSUME NumInv, npc = "emit", ~EofDue
  PROVE  \A k \in (eofIndex + 1)..Len(eofEvents) : eofEvents[k].messageIndex >= index + 1
<1> DEFINE M(k) == eofEvents[k].messageIndex
<1>1. /\ Len(returnArray) \in Nat /\ Len(eofEvents) \in Nat /\ index \in Int /\ eofIndex \in Nat
      /\ \A k \in 1..Len(eofEvents) : M(k) \in -1..(Len(returnArray) - 1)
  BY EmitFacts
<1>2. /\ \A k \in (eofIndex + 1)..Len(eofEvents) : M(k) >= index
      /\ \A k, l \in 1..Len(eofEvents) : k < l => M(k) <= M(l)
      /\ eofIndex < Len(eofEvents) => M(eofIndex + 1) # index
  BY DEF NumInv, EmissionInv, ArraysInv, Split, EofDue
<1> SUFFICES ASSUME NEW k \in (eofIndex + 1)..Len(eofEvents) PROVE M(k) >= index + 1
  OBVIOUS
<1>3. /\ eofIndex + 1 \in 1..Len(eofEvents) /\ k \in 1..Len(eofEvents)
      /\ eofIndex + 1 \in (eofIndex + 1)..Len(eofEvents) /\ eofIndex < Len(eofEvents)
      /\ k = eofIndex + 1 \/ eofIndex + 1 < k
  BY <1>1
<1>4. M(eofIndex + 1) \in Int /\ M(k) \in Int
  BY <1>1, <1>3
<1>5. M(eofIndex + 1) >= index + 1
  BY <1>1, <1>2, <1>3, <1>4
<1>6. M(eofIndex + 1) <= M(k)
  BY <1>2, <1>3, <1>4
<1> QED  BY <1>1, <1>4, <1>5, <1>6

\* The next message is emitted (_consumeNum's loop).
LEMMA EmitMessageInv ==
  ASSUME NumInv, EmitMessage
  PROVE  NumInv'
<1> DEFINE r == index + 2
           M(k) == eofEvents[k].messageIndex
<1>1. /\ npc = "emit" /\ ~EofDue /\ index + 1 < Len(returnArray) /\ index' = index + 1
      /\ emitted' = Append(emitted, returnArray[r]) /\ eofIndex' = eofIndex
  BY DEF EmitMessage
<1>2. /\ Len(returnArray) \in Nat /\ Len(eofEvents) \in Nat /\ index \in Int /\ eofIndex \in Nat
      /\ Len(emitted) = eofIndex + (IF index = Len(returnArray) THEN index ELSE index + 1)
      /\ index \in -1..Len(returnArray) /\ eofIndex \in 0..Len(eofEvents)
      /\ returnArray \in Seq(Items)
      /\ \A k \in 1..Len(eofEvents) : M(k) \in -1..(Len(returnArray) - 1)
  BY <1>1, EmitFacts
<1>3. r \in 1..Len(returnArray) /\ index' \in -1..Len(returnArray) /\ r - 1 = index + 1
      /\ Len(emitted) = eofIndex + index + 1
      /\ eofIndex' + (IF index' = Len(returnArray) THEN index' ELSE index' + 1)
           = Len(emitted) + 1
      /\ r + eofIndex = Len(emitted) + 1
  BY <1>1, <1>2
<1>4. \A k \in (eofIndex + 1)..Len(eofEvents) : M(k) >= index + 1
  BY <1>1, EofsLater
<1>5. \A k \in 1..eofIndex : M(k) <= index /\ M(k) \in Int
  <2>1. \A k \in 1..eofIndex : k \in 1..Len(eofEvents)
    BY <1>2
  <2> QED  BY <1>1, <1>2, <2>1 DEF NumInv, EmissionInv
<1>6. returnArray[r] = messages[r + eofIndex]
  <2>1. eofIndex # 0 => M(eofIndex) < r - 1
    <3> SUFFICES ASSUME eofIndex # 0 PROVE M(eofIndex) < r - 1
      OBVIOUS
    <3>1. eofIndex \in 1..eofIndex
      BY <1>2
    <3>2. M(eofIndex) <= index /\ M(eofIndex) \in Int
      BY <1>5, <3>1
    <3> HIDE DEF M
    <3> QED  BY <1>2, <1>3, <3>2
  <2>2. eofIndex # Len(eofEvents) => M(eofIndex + 1) >= r - 1
    BY <1>2, <1>3, <1>4
  <2>3. \A a \in 1..Len(returnArray), e \in 0..Len(eofEvents) :
          /\ e # 0 => M(e) < a - 1
          /\ e # Len(eofEvents) => M(e + 1) >= a - 1
          => returnArray[a] = messages[a + e]
    BY <1>1 DEF NumInv, ArraysInv, Split
  <2> QED  BY <1>2, <1>3, <2>1, <2>2, <2>3
<1>7. returnArray[r] \in Items
  BY <1>2, <1>3
<1>8. /\ \A k \in 1..eofIndex : M(k) <= index + 1
      /\ \A k \in (eofIndex + 1)..Len(eofEvents) : M(k) >= index + 1
  BY <1>2, <1>4, <1>5
<1> QED  BY <1>1, <1>2, <1>3, <1>6, <1>7, <1>8, EmitOne

\* emitEofEventsFor(messages.length) finds nothing, and the callback returns.
LEMMA EmitEndInv ==
  ASSUME NumInv, EmitLast \/ Emitted
  PROVE  NumInv'
<1>1. /\ npc = "emit" /\ ~EofDue
      /\ UNCHANGED <<kinds, size, eofCount, nfailed, messages, converted, returnArray, eofEvents,
                     eofIndex, fetched, emitted>>
  BY DEF EmitLast, Emitted, arrays
<1>2. Eofs' = Eofs /\ Messages' = Messages /\ MessageCount' = MessageCount
  BY <1>1 DEF Eofs, Messages, MessageCount
<1>3. /\ Len(returnArray) \in Nat /\ Len(eofEvents) \in Nat /\ index \in Int /\ eofIndex \in Nat
      /\ Len(emitted) = eofIndex + (IF index = Len(returnArray) THEN index ELSE index + 1)
      /\ index \in -1..Len(returnArray) /\ eofIndex \in 0..Len(eofEvents)
      /\ Len(returnArray) + Len(eofEvents) = Len(messages) /\ Len(messages) \in Nat
      /\ fetched = messages /\ emitted \in Seq(Nat) /\ messages \in Seq(Nat)
      /\ \A k \in 1..Len(emitted) : emitted[k] = messages[k]
      /\ \A k \in 1..Len(eofEvents) : eofEvents[k].messageIndex \in -1..(Len(returnArray) - 1)
  BY <1>1, EmitFacts
<1>4. \A k \in (eofIndex + 1)..Len(eofEvents) : eofEvents[k].messageIndex >= index + 1
  BY <1>1, EofsLater
<1>5. CASE EmitLast
  <2>1. index + 1 = Len(returnArray) /\ index' = index + 1 /\ npc' = npc
    BY <1>5 DEF EmitLast
  <2>2. \A k \in 1..eofIndex : eofEvents[k].messageIndex <= index'
    <3>1. \A k \in 1..eofIndex : eofEvents[k].messageIndex <= index
      BY <1>1 DEF NumInv, EmissionInv
    <3>2. \A k \in 1..eofIndex : k \in 1..Len(eofEvents)
      BY <1>3
    <3>3. \A k \in 1..eofIndex : eofEvents[k].messageIndex \in Int
      <4>1. \A k \in 1..Len(eofEvents) : eofEvents[k].messageIndex \in -1..(Len(returnArray) - 1)
        BY <1>3
      <4>2. -1..(Len(returnArray) - 1) \subseteq Int
        BY <1>3
      <4> QED  BY <3>2, <4>1, <4>2
    <3>4. index \in Int /\ index' = index + 1
      BY <1>3, <2>1
    <3> QED  BY <3>1, <3>3, <3>4
  <2>3. /\ index' \in -1..Len(returnArray) /\ index' \in Int
        /\ Len(emitted) = eofIndex + (IF index' = Len(returnArray) THEN index' ELSE index' + 1)
    BY <1>3, <2>1
  <2>4. NumTypes' /\ FetchedInv' /\ ArraysInv'
    BY <1>1, <1>2, <2>1, <2>3 DEF NumInv, NumTypes, FetchedInv, ArraysInv
  <2>5. EmissionInv'
    BY <1>1, <1>4, <2>1, <2>2, <2>3 DEF NumInv, EmissionInv
  <2> QED  BY <2>4, <2>5 DEF NumInv
<1>6. CASE Emitted
  <2>1. index = Len(returnArray) /\ index' = index /\ npc' = "none"
    BY <1>6 DEF Emitted, arrays
  <2>2. eofIndex = Len(eofEvents)
    <3> SUFFICES ASSUME eofIndex # Len(eofEvents) PROVE FALSE
      OBVIOUS
    <3>1. /\ Len(eofEvents) \in (eofIndex + 1)..Len(eofEvents)
          /\ Len(eofEvents) \in 1..Len(eofEvents)
      BY <1>3
    <3>2. /\ eofEvents[Len(eofEvents)].messageIndex >= index + 1
          /\ eofEvents[Len(eofEvents)].messageIndex \in -1..(Len(returnArray) - 1)
      BY <1>3, <1>4, <3>1
    <3> QED  BY <1>3, <2>1, <3>2
  <2>3. Len(emitted) = Len(messages)
    BY <1>3, <2>1, <2>2
  <2>4. emitted = fetched
    BY <1>3, <2>3, SameSeq
  <2>5. NumTypes' /\ FetchedInv' /\ ArraysInv'
    BY <1>1, <1>2, <2>1 DEF NumInv, NumTypes, FetchedInv, ArraysInv
  <2>6. EmissionInv'
    BY <1>1, <2>1, <2>4 DEF EmissionInv
  <2> QED  BY <2>5, <2>6 DEF NumInv
<1> QED  BY <1>5, <1>6

\* NumInv is inductive relative to the types of FlowInv.
LEMMA NumNext == FlowInv /\ NumInv /\ [Next]_vars => NumInv'
<1> SUFFICES ASSUME FlowInv, NumInv, [Next]_vars PROVE NumInv'
  OBVIOUS
<1>1. CASE Num
  <2>1. FlowTypes
    BY DEF FlowInv
  <2> QED  BY <1>1, <2>1, ConsumeNumInv, FetchInv, CallbackInv, ConvertInv, ConvertedInv,
              EmitEofInv, EmitMessageInv, EmitEndInv
           DEF Num
<1>2. CASE Send \/ SendWarning
  <2>1. UNCHANGED num
    BY <1>2 DEF Send, SendWarning
  <2>2. PICK n \in 1..MaxItems, kind \in Kinds : Item(n, kind)
    BY <1>2 DEF Send, SendWarning, Kinds
  <2>3. /\ Eofs \subseteq Eofs' /\ Messages \subseteq Messages'
        /\ \A x \in Eofs \cup Messages : x \in Eofs' <=> x \in Eofs
    BY <2>2, SameKinds DEF FlowInv, FlowTypes
  <2> QED  BY <2>1, <2>3, NumSame
<1>3. ASSUME UNCHANGED <<kinds, num>> PROVE NumInv'
  <2>1. Eofs' = Eofs /\ Messages' = Messages
    BY <1>3 DEF Eofs, Messages
  <2> QED  BY <1>3, <2>1, NumSame
<1>4. CASE UNCHANGED vars
  BY <1>3, <1>4 DEF vars
<1>5. CASE \/ Start \/ LoopFails \/ LoopEnds \/ WorkMessage \/ HandMessage \/ HandWarning
           \/ WorkMessageReturns \/ Disconnect \/ Joined
  BY <1>3, <1>5
     DEF Start, LoopFails, LoopEnds, WorkMessage, HandMessage, HandWarning,
         WorkMessageReturns, Disconnect, Joined
<1> QED  BY <1>1, <1>2, <1>4, <1>5 DEF Next, Flowing

LEMMA NumSafe == Spec => [](FlowInv /\ NumInv)
BY NumInit, NumNext, FlowSafe, PTL DEF Spec

-----------------------------------------------------------------------------
(* The theorems.                                                             *)

\* Consume!HandedInOrder: whatever the loop reads is handed over once, in order
\* but for warnings, and while there is a callback, what is queued has a wake-up
\* on its way (workers.h:87-113, 132-157; workers.cc:732-771).
THEOREM HandedSafe == Spec => []HandedInOrder
<1>1. FlowInv /\ NumInv => HandedInOrder
  <2> SUFFICES ASSUME FlowInv, NumInv PROVE HandedInOrder
    OBVIOUS
  <2>1. TypeOK
    BY DEF FlowInv, NumInv, FlowTypes, QueueTypes, NumTypes, Event, TypeOK
  <2>2. HandedWithCallback
    BY DEF FlowInv, WorkerInv, HandedWithCallback
  <2>3. callback /\ data \o warnings # <<>> => signal
    <3>1. <<>> \o <<>> = <<>>
      OBVIOUS
    <3> QED  BY <3>1 DEF FlowInv, WorkerInv
  <2> QED  BY <2>1, <2>2, <2>3, LanesKeepOrder DEF HandedInOrder
<1> QED  BY <1>1, NumSafe, PTL

\* Consume!EmittedAsFetched: consume(n) emits what it fetched in the order
\* fetched, eof events at their places, all of it when it ends, and hands over at
\* most n messages (workers.cc:808-927; lib/kafka-consumer.js:505-542).
THEOREM EmissionSafe == Spec => []EmittedAsFetched
<1>1. NumInv => EmittedAsFetched
  <2> SUFFICES ASSUME NumInv PROVE EmittedAsFetched
    OBVIOUS
  <2>1. ASSUME npc = "emit" PROVE Len(returnArray) <= size
    <3>1. Len(returnArray) + Len(eofEvents) = Len(messages) /\ Len(returnArray) \in Nat
          /\ Len(eofEvents) \in Nat /\ Len(messages) \in Nat
      BY <2>1, EmitFacts
    <3>2. Len(eofEvents) = eofCount
      BY <2>1 DEF NumInv, ArraysInv, FetchedInv, EmissionInv
    <3>3. Len(messages) - eofCount <= size /\ size \in Int
      BY ConstantsAssumption DEF NumInv, NumTypes, FetchedInv, MessageCount
    <3> QED  BY <3>1, <3>2, <3>3
  <2>2. Len(emitted) <= Len(fetched) /\ \A k \in 1..Len(emitted) : emitted[k] = fetched[k]
    <3>1. CASE npc = "emit"
      <4>1. Len(emitted) <= Len(messages)
        BY <3>1, EmitFacts
      <4> QED  BY <3>1, <4>1, EmitFacts
    <3>2. CASE npc # "emit"
      <4>1. emitted = <<>> \/ emitted = fetched
        BY <3>2 DEF NumInv, NumTypes, EmissionInv
      <4>2. Len(fetched) \in Nat /\ Len(<<>>) = 0
        BY DEF NumInv, NumTypes
      <4> QED  BY <4>1, <4>2
    <3> QED  BY <3>1, <3>2
  <2>3. ASSUME npc \notin {"convert", "emit"}, emitted # fetched
        PROVE  emitted = <<>> /\ \A k \in DOMAIN fetched : IsEof(fetched[k])
    BY <2>3 DEF NumInv, EmissionInv, Eofs, IsEof, ToSet
  <2> QED  BY <2>1, <2>2, <2>3 DEF EmittedAsFetched
<1> QED  BY <1>1, NumSafe, PTL
=============================================================================
