------------------------ MODULE ConsumerSessionProofs ------------------------
(* Proofs about ConsumerSession, for every set of partitions and every bound.*)
(* SessionInv is inductive; with it, the handler's calls find the client     *)
(* alive, m_partitions agrees with librdkafka, and consume(cb) is refused    *)
(* for the two documented reasons only.                                      *)
EXTENDS ConsumerSession, TLAPS

USE ConstantsAssumption

\* Init: no client, no job, no rebalance (KafkaConsumer::KafkaConsumer).
LEMMA InitInv == Init => SessionInv
<1> SUFFICES ASSUME Init PROVE SessionInv
  OBVIOUS
<1>1. TypeOK
  <2>1. <<>> \in Seq([kind : Kinds, parts : SUBSET Partitions])
    OBVIOUS
  <2>2. rpc \in [Readers -> {"off", "test", "lock", "retest", "consume"}]
    BY DEF Init
  <2>3. /\ job \in Jobs
        /\ event \in {NoEvent}
        /\ sessions \in 0..MaxSessions /\ rebalances \in 0..MaxRebalances
        /\ waits \in 0..MaxWaits
    BY DEF Init, Jobs
  <2> QED  BY <2>1, <2>2, <2>3, Zenon DEF Init, TypeOK
<1>2. LockInv /\ JobInv /\ RebalanceInv /\ LoopInv
  BY DEF Init, LockInv, JobInv, RebalanceInv, LoopInv, Readers, Handling, Terminating,
         NoJob, Job, None
<1> QED  BY <1>1, <1>2 DEF SessionInv

\* The Boolean part of TypeOK, which the provers want first.
StateBooleans ==
  /\ client \in BOOLEAN /\ closing \in BOOLEAN /\ writer \in BOOLEAN
  /\ registered \in BOOLEAN /\ looping \in BOOLEAN /\ up \in BOOLEAN /\ leaving \in BOOLEAN
  /\ async \in BOOLEAN /\ signal \in BOOLEAN

HistoryBooleans ==
  /\ late \in BOOLEAN /\ raced \in BOOLEAN /\ misfit \in BOOLEAN /\ refused \in BOOLEAN
  /\ died \in BOOLEAN /\ stray \in BOOLEAN

Booleans == StateBooleans /\ HistoryBooleans

\* Where a job may be.
LEMMA JobTypes ==
  /\ NoJob \in Jobs /\ Job("connect", "queued") \in Jobs /\ Job("connect", "done") \in Jobs
  /\ \A at \in {"queued", "lock", "close", "clear", "done"} : Job("disconnect", at) \in Jobs
BY DEF Jobs

\* The first of a sequence belongs to what it is a sequence of.
LEMMA FirstFacts ==
  ASSUME NEW S, NEW s \in Seq(S), s # <<>>
  PROVE  s[1] \in S /\ Head(s) \in S
OBVIOUS

\* A queued rebalance is the one librdkafka waits for.
LEMMA QueuedFacts ==
  ASSUME TypeOK, RebalanceInv, events # <<>>
  PROVE  events[1].kind # None /\ awaiting # None /\ client
<1>1. events[1] \in [kind : Kinds, parts : SUBSET Partitions]
  BY FirstFacts DEF TypeOK
<1> QED  BY <1>1 DEF RebalanceInv, Kinds, None

\* What librdkafka's rebalance leaves behind, where none was outstanding.
LEMMA OfferInv ==
  ASSUME SessionInv, up, client, awaiting = None,
         NEW k \in Kinds, NEW ps \in SUBSET Partitions, Rebalanced(k, ps),
         UNCHANGED <<protocol, flags, lock, parts, loop, job, up, leaving, handler, sessions,
                     waits, history>>,
         rebalances' \in 0..MaxRebalances
  PROVE  SessionInv'
<1> USE DEF SessionInv, flags, lock, loop, handler, history, refusals
<1>1. CASE protocol = "AUTO"
  <2>1. owned' \in SUBSET Partitions /\ UNCHANGED <<awaiting, async, signal, events>>
    BY <1>1 DEF Rebalanced, wakeups
  <2>2. TypeOK'
    BY <2>1 DEF TypeOK
  <2>3. LockInv' /\ JobInv' /\ RebalanceInv' /\ LoopInv'
    BY <2>1 DEF LockInv, JobInv, RebalanceInv, LoopInv, Handling, Terminating
  <2> QED  BY <2>2, <2>3
<1>2. CASE protocol # "AUTO"
  <2>1. /\ awaiting' = k /\ events' = Append(events, [kind |-> k, parts |-> ps])
        /\ signal' = (signal \/ async) /\ UNCHANGED <<owned, async>>
    BY <1>2 DEF Rebalanced, Offer
  <2>2. events = <<>> /\ async /\ ~Handling
    BY QueuedFacts DEF RebalanceInv, JobInv
  <2>3. events' \in Seq([kind : Kinds, parts : SUBSET Partitions])
    BY <2>1 DEF TypeOK
  <2>4. Len(events') = 1 /\ events'[1].kind = k
    BY <2>1, <2>2
  <2>5. TypeOK'
    BY <2>1, <2>2, <2>3 DEF TypeOK
  <2>6. LockInv' /\ JobInv' /\ LoopInv'
    BY <2>1 DEF LockInv, JobInv, LoopInv, Terminating
  <2>7. RebalanceInv'
    BY <2>1, <2>2, <2>4 DEF RebalanceInv, Handling, Kinds, None
  <2> QED  BY <2>5, <2>6, <2>7
<1> QED  BY <1>1, <1>2

\* The steps of the jobs that are not librdkafka's.
QuietJobStep ==
  \/ Connect \/ Connected \/ Disconnect \/ DisconnectLock \/ Closed \/ ClearClosing
  \/ Disconnected

\* Every step but librdkafka's rebalances keeps the types.
LEMMA TypeStep ==
  ASSUME SessionInv,
         \/ UserCall \/ GotLock \/ Joined \/ Handle \/ QuietJobStep
         \/ \E r \in Readers : Reader(r) /\ ~ReaderRebalanced(r)
  PROVE  TypeOK'
<1> USE DEF TypeOK, Booleans, StateBooleans, HistoryBooleans, flags, lock, loop,
            wakeups, handler, librdkafka, bounds, history, refusals
<1>0. TypeOK
  BY DEF SessionInv
<1>b. Booleans
  BY <1>0, Zenon
<1>1. CASE StartLoop
  <2>1. Booleans'  BY <1>0, <1>1 DEF StartLoop
  <2> QED  BY <1>0, <1>1, <2>1 DEF StartLoop
<1>2. CASE StartBatch
  <2>1. Booleans'  BY <1>0, <1>2 DEF StartBatch
  <2> QED  BY <1>0, <1>2, <2>1 DEF StartBatch
<1>3. CASE Assignments
  <2>1. Booleans'  BY <1>0, <1>3 DEF Assignments
  <2> QED  BY <1>0, <1>3, <2>1 DEF Assignments
<1>4. CASE CallConnect
  <2>1. Booleans'  BY <1>0, <1>4 DEF CallConnect
  <2> QED  BY <1>0, <1>4, <2>1, JobTypes DEF CallConnect
<1>5. CASE CallDisconnect
  <2>1. Booleans'  BY <1>0, <1>5 DEF CallDisconnect
  <2> QED  BY <1>0, <1>5, <2>1, JobTypes DEF CallDisconnect
<1>6. CASE \E call \in {"token", "watermark"} : WaitForLock(call)
  <2>1. Booleans'  BY <1>0, <1>6 DEF WaitForLock
  <2> QED  BY <1>0, <1>6, <2>1 DEF WaitForLock
<1>7. CASE GotLock
  <2>1. Booleans'  BY <1>0, <1>7 DEF GotLock
  <2> QED  BY <1>0, <1>7, <2>1 DEF GotLock
<1>8. CASE Joined
  <2>1. Booleans'  BY <1>0, <1>8 DEF Joined
  <2> QED  BY <1>0, <1>8, <2>1, JobTypes DEF Joined
<1>9. CASE Choose
  <2>1. Booleans'  BY <1>0, <1>9 DEF Choose
  <2> QED  BY <1>0, <1>9, <2>1 DEF Choose
<1>10. CASE AssignTest
  <2>1. Booleans'  BY <1>0, <1>10 DEF AssignTest
  <2> QED  BY <1>0, <1>10, <2>1 DEF AssignTest
<1>11. CASE UnassignTest
  <2>1. Booleans'  BY <1>0, <1>11 DEF UnassignTest
  <2> QED  BY <1>0, <1>11, <2>1 DEF UnassignTest
<1>12. CASE UnassignRetest
  <2>1. Booleans'  BY <1>0, <1>12 DEF UnassignRetest
  <2> QED  BY <1>0, <1>12, <2>1 DEF UnassignRetest
<1>13. CASE Flush
  <2> DEFINE E == [kind : Kinds, parts : SUBSET Partitions]
  <2>0. signal' = FALSE /\ UNCHANGED <<flags, writer, registered, looping, up, leaving, async>>
    BY <1>13 DEF Flush
  <2>6. UNCHANGED <<late, raced, misfit, refused, died, stray>>
    BY <1>13 DEF Flush
  <2>1. StateBooleans'  BY <1>b, <2>0
  <2>7. HistoryBooleans'  BY <1>b, <2>6
  <2> HIDE DEF E
  <2>2. <<>> \in Seq(E)  OBVIOUS
  <2>3. ASSUME events \in Seq(E), events # <<>> PROVE Head(events) \in E
    BY <2>3
  <2>4. events' \in Seq(E)
    BY <1>0, <1>13, <2>2 DEF Flush, E
  <2>5. event' \in E \cup {NoEvent}
    BY <1>0, <1>13, <2>3 DEF Flush, E
  <2> USE DEF E
  <2> QED  BY <1>0, <1>13, <2>1, <2>7, <2>4, <2>5 DEF Flush
<1>14. CASE Call
  <2>1. Booleans'  BY <1>0, <1>14 DEF Call
  <2>2. event.parts \in SUBSET Partitions
    BY <1>0 DEF NoEvent
  <2>3. op # None
    BY <1>14 DEF Call, SessionInv, RebalanceInv
  <2>4. PartsAfter \in SUBSET Partitions
    BY <1>0, <2>2, <2>3 DEF PartsAfter, None
  <2>5. parts' \in SUBSET Partitions
    BY <1>0, <1>14, <2>4 DEF Call
  <2>6. owned' \in SUBSET Partitions
    BY <1>0, <1>14, <2>2, <2>3 DEF Call, OwnedAfter, None
  <2> QED  BY <1>0, <1>14, <2>1, <2>5, <2>6 DEF Call
<1>15. CASE Connect
  <2>1. Booleans'  BY <1>0, <1>15 DEF Connect
  <2> QED  BY <1>0, <1>15, <2>1, JobTypes DEF Connect
<1>16. CASE Connected
  <2>1. Booleans'  BY <1>0, <1>16 DEF Connected
  <2> QED  BY <1>0, <1>16, <2>1, JobTypes DEF Connected
<1>17. CASE Disconnect
  <2>1. Booleans'  BY <1>0, <1>17 DEF Disconnect, IsConnected
  <2> QED  BY <1>0, <1>17, <2>1, JobTypes DEF Disconnect
<1>18. CASE DisconnectLock
  <2>1. Booleans'  BY <1>0, <1>18 DEF DisconnectLock
  <2> QED  BY <1>0, <1>18, <2>1, JobTypes DEF DisconnectLock
<1>19. CASE Closed
  <2>1. Booleans'  BY <1>0, <1>19 DEF Closed
  <2> QED  BY <1>0, <1>19, <2>1, JobTypes DEF Closed
<1>20. CASE ClearClosing
  <2>1. closing' = FALSE /\ UNCHANGED <<client, writer, registered, looping, up, leaving>>
    BY <1>20 DEF ClearClosing
  <2>2. UNCHANGED <<async, signal, late, raced, misfit, refused, died, stray>>
    BY <1>20 DEF ClearClosing
  <2>3. StateBooleans'  BY <1>b, <2>1, <2>2
  <2>4. HistoryBooleans'  BY <1>b, <2>2
  <2> QED  BY <1>0, <1>20, <2>3, <2>4, JobTypes DEF ClearClosing
<1>21. CASE Disconnected
  <2>1. Booleans'  BY <1>0, <1>21 DEF Disconnected
  <2> QED  BY <1>0, <1>21, <2>1, JobTypes DEF Disconnected
<1>22. CASE \E r \in Readers : Reader(r) /\ ~ReaderRebalanced(r)
  <2>1. PICK r \in Readers : \/ ReaderTest(r) \/ ReaderLock(r) \/ ReaderRetest(r)
                           \/ \E again \in BOOLEAN : ReaderReturns(r, again)
    BY <1>22 DEF Reader
  <2>2. CASE ReaderTest(r)
    <3>1. Booleans'  BY <1>0, <2>2 DEF ReaderTest
    <3> QED  BY <1>0, <2>2, <3>1 DEF ReaderTest
  <2>3. CASE ReaderLock(r)
    <3>1. Booleans'  BY <1>0, <2>3 DEF ReaderLock
    <3> QED  BY <1>0, <2>3, <3>1 DEF ReaderLock
  <2>4. CASE ReaderRetest(r)
    <3>1. Booleans'  BY <1>0, <2>4 DEF ReaderRetest
    <3> QED  BY <1>0, <2>4, <3>1 DEF ReaderRetest
  <2>5. CASE \E again \in BOOLEAN : ReaderReturns(r, again)
    <3>1. Booleans'  BY <1>0, <2>5 DEF ReaderReturns
    <3> QED  BY <1>0, <2>5, <3>1 DEF ReaderReturns
  <2> QED  BY <2>1, <2>2, <2>3, <2>4, <2>5
<1>23. CASE CallRefused
  <2>1. Booleans'  BY <1>0, <1>23 DEF CallRefused, Fits
  <2> QED  BY <1>0, <1>23, <2>1 DEF CallRefused
<1> QED
  BY <1>1, <1>2, <1>3, <1>4, <1>5, <1>6, <1>7, <1>8, <1>9, <1>10, <1>11, <1>12,
     <1>13, <1>14, <1>15, <1>16, <1>17, <1>18, <1>19, <1>20, <1>21, <1>22, <1>23
  DEF UserCall, Handle, QuietJobStep

\* A call of the user, or its return, preserves it.
LEMMA UserStep ==
  ASSUME SessionInv, UserCall \/ GotLock \/ Joined
  PROVE  SessionInv'
<1>0. TypeOK'
  BY TypeStep
<1> USE DEF SessionInv, LockInv, JobInv, RebalanceInv, LoopInv, Handling, Terminating,
            Fits, IsConnected, Idle, Readers, lock, NoJob, Job, None, flags, wakeups, handler,
            librdkafka, history, refusals
<1>1. CASE StartLoop
  <2>1. rpc \in [Readers -> {"off", "test", "lock", "retest", "consume"}]  BY DEF TypeOK
  <2>2. rpc' = [rpc EXCEPT !["loop"] = "test"]  BY <1>1 DEF StartLoop
  <2>3. LockInv'  BY <1>1, <2>1, <2>2 DEF StartLoop
  <2>4. JobInv'  BY <1>1, <2>1, <2>2 DEF StartLoop
  <2>5. RebalanceInv'  BY <1>1 DEF StartLoop
  <2>6. LoopInv'  BY <1>1, <2>1, <2>2 DEF StartLoop
  <2> QED  BY <1>0, <2>3, <2>4, <2>5, <2>6
<1>2. CASE StartBatch
  <2>1. rpc \in [Readers -> {"off", "test", "lock", "retest", "consume"}]  BY DEF TypeOK
  <2> QED  BY <1>0, <1>2, <2>1 DEF StartBatch
<1>3. CASE Assignments  BY <1>0, <1>3 DEF Assignments, loop
<1>4. CASE CallConnect  BY <1>0, <1>4 DEF CallConnect, loop
<1>5. CASE CallDisconnect
  <2>1. job = NoJob
    BY <1>5 DEF CallDisconnect, TypeOK, Jobs
  <2> QED  BY <1>0, <1>5, <2>1 DEF CallDisconnect
<1>6. CASE \E call \in {"token", "watermark"} : WaitForLock(call)
  BY <1>0, <1>6 DEF WaitForLock, loop
<1>7. CASE GotLock  BY <1>0, <1>7 DEF GotLock, loop
<1>8. CASE Joined  BY <1>0, <1>8 DEF Joined
<1> QED  BY <1>1, <1>2, <1>3, <1>4, <1>5, <1>6, <1>7, <1>8 DEF UserCall

\* A step of the rebalance handler preserves it.
LEMMA HandleStep ==
  ASSUME SessionInv, Handle
  PROVE  SessionInv'
<1>0. TypeOK'
  BY TypeStep
<1> USE DEF SessionInv, LockInv, JobInv, RebalanceInv, LoopInv, Handling, Terminating,
            Fits, IsConnected, IsClosing, Idle, flags, lock, loop, wakeups, librdkafka, history,
            refusals
<1>1. CASE Flush
  <2>1. events # <<>> => Head(events) = events[1]
    BY <1>1
  <2>2. CASE events = <<>>
    BY <1>0, <1>1, <2>2 DEF Flush
  <2>3. CASE events # <<>>
    <3>1. event' = events[1] /\ events' = <<>> /\ jpc' = "choose"
          /\ UNCHANGED <<awaiting, client, up, owned>>
      BY <1>1, <2>1, <2>3 DEF Flush
    <3>2. LockInv' /\ JobInv' /\ LoopInv'
      BY <1>1, <2>3 DEF Flush
    <3>3. RebalanceInv'
      BY <2>3, <3>1, QueuedFacts
    <3> QED  BY <1>0, <3>2, <3>3
  <2> QED  BY <2>2, <2>3
<1>2. CASE Choose
  <2>1. UNCHANGED <<protocol, flags, awaiting, event, owned, events, up>> /\ client
    BY <1>2 DEF Choose
  <2>0. event.kind \in {"assign", "revoke"}
    BY <1>2 DEF Choose, TypeOK, Kinds
  <2>2. op' \in {"assign", "unassign"} => closing \/ protocol # "COOPERATIVE"
    <3>1. CASE event.kind = "assign"  BY <1>2, <2>1, <3>1 DEF Choose
    <3>2. CASE event.kind = "revoke"  BY <1>2, <2>1, <3>2 DEF Choose
    <3> QED  BY <2>0, <3>1, <3>2
  <2>3. op' \in {"incrementalAssign", "incrementalUnassign"} => protocol = "COOPERATIVE"
    BY <1>2 DEF Choose
  <2>4. (~Fits)' => closing'
    BY <1>2, <2>1, <2>2, <2>3 DEF Choose, TypeOK, Kinds, None
  <2> QED  BY <1>0, <1>2, <2>4 DEF Choose, TypeOK, Kinds, None
<1>3. CASE AssignTest  BY <1>0, <1>3 DEF AssignTest
<1>4. CASE UnassignTest  BY <1>0, <1>4 DEF UnassignTest
<1>5. CASE UnassignRetest  BY <1>0, <1>5 DEF UnassignRetest
<1>6. CASE Call  BY <1>0, <1>6 DEF Call, OwnedAfter, None
<1>7. CASE CallRefused  BY <1>0, <1>7 DEF CallRefused, None
<1> QED  BY <1>1, <1>2, <1>3, <1>4, <1>5, <1>6, <1>7 DEF Handle

\* A step of a Connect or Disconnect job, or its callback, preserves it.
LEMMA JobInvStep ==
  ASSUME SessionInv, JobStep
  PROVE  SessionInv'
<1>0. QuietJobStep => TypeOK'
  BY TypeStep
<1> USE DEF SessionInv, LockInv, JobInv, RebalanceInv, LoopInv, Handling, Terminating,
            Fits, IsConnected, Idle, Readers, flags, lock, loop, wakeups, handler, librdkafka,
            history, refusals, NoJob, Job, None
<1>1. CASE CloseRevokes
  <2>1. owned \in SUBSET Partitions  BY DEF TypeOK
  <2>2. rebalances' \in 0..MaxRebalances  BY <1>1 DEF CloseRevokes, TypeOK, bounds
  <2>3. up /\ client /\ awaiting = None  BY <1>1 DEF CloseRevokes
  <2>4. Rebalanced("revoke", owned) /\ "revoke" \in Kinds  BY <1>1 DEF CloseRevokes, Kinds
  <2>5. UNCHANGED <<protocol, flags, lock, parts, loop, job, up, leaving, handler, sessions,
                    waits, history>>
    BY <1>1 DEF CloseRevokes, bounds
  <2> HIDE DEF SessionInv, flags, lock, loop, handler, history, refusals
  <2> QED  BY <2>1, <2>2, <2>3, <2>4, <2>5, OfferInv
<1>2. CASE Connect
  <2>1. TypeOK'  BY <1>0, <1>2 DEF QuietJobStep
  <2> QED  BY <1>2, <2>1 DEF Connect
<1>3. CASE Connected
  <2>1. TypeOK'  BY <1>0, <1>3 DEF QuietJobStep
  <2> QED  BY <1>3, <2>1 DEF Connected
<1>4. CASE Disconnect
  <2>1. TypeOK'  BY <1>0, <1>4 DEF QuietJobStep
  <2> QED  BY <1>4, <2>1 DEF Disconnect
<1>5. CASE DisconnectLock
  <2>1. TypeOK'  BY <1>0, <1>5 DEF QuietJobStep
  <2> QED  BY <1>5, <2>1 DEF DisconnectLock
<1>6. CASE Closed
  <2>1. TypeOK'  BY <1>0, <1>6 DEF QuietJobStep
  <2> QED  BY <1>6, <2>1 DEF Closed
<1>7. CASE ClearClosing
  <2>1. TypeOK'  BY <1>0, <1>7 DEF QuietJobStep
  <2> QED  BY <1>7, <2>1 DEF ClearClosing
<1>8. CASE Disconnected
  <2>1. TypeOK'  BY <1>0, <1>8 DEF QuietJobStep
  <2> QED  BY <1>8, <2>1, QueuedFacts DEF Disconnected
<1> QED  BY <1>1, <1>2, <1>3, <1>4, <1>5, <1>6, <1>7, <1>8 DEF JobStep

\* A loop begun before disconnect() finds the client until it is joined.
LEMMA LoopConnected ==
  ASSUME SessionInv, registered, ~stray
  PROVE  IsConnected
BY DEF SessionInv, TypeOK, Jobs, LoopInv, JobInv, IsConnected, Job, NoJob, None

\* A step of a thread inside Consume preserves it.
LEMMA ReaderStep ==
  ASSUME SessionInv, NEW r \in Readers, Reader(r)
  PROVE  SessionInv'
<1>0. ~ReaderRebalanced(r) => TypeOK'
  BY TypeStep
<1>1. CASE ReaderRebalanced(r)
  <2>1. PICK e \in Offers : Rebalanced(e.kind, e.parts)
    BY <1>1 DEF ReaderRebalanced
  <2>2. e.kind \in Kinds /\ e.parts \in SUBSET Partitions
    BY DEF Offers
  <2>3. client /\ up /\ awaiting = None
    BY <1>1 DEF ReaderRebalanced, SessionInv, JobInv
  <2>4. UNCHANGED <<protocol, flags, lock, parts, loop, job, up, leaving, handler, sessions,
                    waits, history>>
    BY <1>1 DEF ReaderRebalanced
  <2>5. rebalances' \in 0..MaxRebalances
    BY <1>1 DEF ReaderRebalanced, SessionInv, TypeOK
  <2> QED  BY <2>1, <2>2, <2>3, <2>4, <2>5, OfferInv
<1> USE DEF SessionInv, LockInv, JobInv, RebalanceInv, LoopInv, Handling, Terminating,
            Fits, IsConnected, Readers, flags, lock, wakeups, handler, librdkafka, NoJob, Job, None
<1>2. rpc \in [Readers -> {"off", "test", "lock", "retest", "consume"}]  BY DEF TypeOK
<1>3. CASE ReaderTest(r) /\ ~ReaderRebalanced(r)
  <2>1. LockInv'  BY <1>2, <1>3 DEF ReaderTest, history, refusals
  <2>2. JobInv'  BY <1>2, <1>3 DEF ReaderTest, history, refusals
  <2>3. RebalanceInv'  BY <1>3 DEF ReaderTest, history, refusals
  <2>4. LoopInv'
    <3>1. CASE r = "loop"  BY <1>2, <1>3, <3>1, LoopConnected DEF ReaderTest, history, refusals
    <3>2. CASE r = "batch"  BY <1>2, <1>3, <3>2 DEF ReaderTest, history, refusals
    <3> QED  BY <3>1, <3>2
  <2> QED  BY <1>0, <1>3, <2>1, <2>2, <2>3, <2>4
<1>4. CASE ReaderLock(r) /\ ~ReaderRebalanced(r)
  BY <1>0, <1>2, <1>4 DEF ReaderLock, history, refusals
<1>5. CASE ReaderRetest(r) /\ ~ReaderRebalanced(r)
  <2>1. LockInv'  BY <1>2, <1>5 DEF ReaderRetest, history, refusals
  <2>2. JobInv'  BY <1>2, <1>5 DEF ReaderRetest, history, refusals
  <2>3. RebalanceInv'  BY <1>5 DEF ReaderRetest, history, refusals
  <2>4. LoopInv'
    <3>1. CASE r = "loop"  BY <1>2, <1>5, <3>1, LoopConnected DEF ReaderRetest, history, refusals
    <3>2. CASE r = "batch"  BY <1>2, <1>5, <3>2 DEF ReaderRetest, history, refusals
    <3> QED  BY <3>1, <3>2
  <2> QED  BY <1>0, <1>5, <2>1, <2>2, <2>3, <2>4
<1>6. CASE (\E again \in BOOLEAN : ReaderReturns(r, again)) /\ ~ReaderRebalanced(r)
  <2>1. LockInv'  BY <1>2, <1>6 DEF ReaderReturns
  <2>2. JobInv'  BY <1>2, <1>6 DEF ReaderReturns
  <2>3. RebalanceInv'  BY <1>6 DEF ReaderReturns
  <2>4. LoopInv'
    <3>1. PICK again \in BOOLEAN : ReaderReturns(r, again)
      BY <1>6
    <3>2. UNCHANGED <<registered, stray, up, job, jpc>>
      BY <3>1 DEF ReaderReturns
    <3>3. CASE r = "loop" /\ again
      <4>1. rpc'["loop"] = "test" /\ died' = died /\ looping' = looping /\ rpc["loop"] # "off"
        BY <1>2, <3>1, <3>3 DEF ReaderReturns, TypeOK
      <4> QED  BY <3>2, <4>1
    <3>4. CASE r = "loop" /\ ~again
      <4>1. rpc'["loop"] = "off" /\ died'
        BY <1>2, <3>1, <3>4 DEF ReaderReturns
      <4> QED  BY <3>2, <4>1
    <3>5. CASE r = "batch"
      <4>1. rpc'["loop"] = rpc["loop"] /\ died' = died /\ looping' = looping
        BY <1>2, <3>1, <3>5 DEF ReaderReturns, TypeOK
      <4> QED  BY <3>2, <4>1
    <3> QED  BY <3>3, <3>4, <3>5
  <2> QED  BY <1>0, <1>6, <2>1, <2>2, <2>3, <2>4
<1> QED  BY <1>1, <1>3, <1>4, <1>5, <1>6 DEF Reader

\* Every step, or none, preserves it.
LEMMA NextInv == SessionInv /\ [Next]_vars => SessionInv'
<1> SUFFICES ASSUME SessionInv, [Next]_vars PROVE SessionInv'
  OBVIOUS
<1>1. CASE UNCHANGED vars
  BY <1>1 DEF vars, SessionInv, TypeOK, LockInv, JobInv, RebalanceInv, LoopInv, Handling,
              Terminating, Fits, flags, lock, loop, wakeups, handler, librdkafka, bounds, history,
              refusals
<1>2. CASE Next
  BY <1>2, UserStep, HandleStep, JobInvStep, ReaderStep DEF Next
<1> QED  BY <1>1, <1>2

\* SessionInv holds of every behaviour: which thread holds the lock, what the
\* jobs have done to m_client, and who answers a rebalance.
THEOREM SessionSafe == Spec => []SessionInv
  BY InitInv, NextInv, PTL DEF Spec

\* The handler of a rebalance, which takes no lock, finds the client alive
\* (kafka-consumer.cc:106,185,210,231,252).
THEOREM HandlerSafe == Spec => []HandlerOnLiveClient
<1>1. SessionInv => HandlerOnLiveClient
  BY QueuedFacts DEF SessionInv, RebalanceInv, HandlerOnLiveClient
<1> QED  BY <1>1, SessionSafe, PTL

\* consume(cb) is not refused for a loop that disconnect() should have ended
\* (kafka-consumer.cc:1285,1377-1405).
THEOREM RefusalSafe == Spec => []RefusedOnlyAfterError
<1>1. SessionInv => RefusedOnlyAfterError
  BY DEF SessionInv, LoopInv, JobInv, TypeOK, RefusedOnlyAfterError, NoJob, None, Job
<1> QED  BY <1>1, SessionSafe, PTL

\* m_partitions agrees with librdkafka at the start.
LEMMA AgreeInit == Init => AssignmentAgrees
BY DEF Init, AssignmentAgrees

\* Only the four calls of the handler, librdkafka's own rebalances, a new
\* client and assignments() touch either side.
LEMMA AgreeNext == SessionInv /\ AssignmentAgrees /\ [Next]_vars => AssignmentAgrees'
<1> SUFFICES ASSUME SessionInv, AssignmentAgrees, [Next]_vars, protocol' # "AUTO", ~late'
             PROVE  parts' = owned'
  BY DEF AssignmentAgrees
<1> USE DEF AssignmentAgrees, librdkafka, history, refusals
<1>1. CASE UNCHANGED <<protocol, parts, owned, late>>
  BY <1>1
<1>2. CASE Assignments  BY <1>2 DEF Assignments
<1>3. CASE Connect
  <2>1. owned = {} /\ owned' = {}
    BY <1>3 DEF Connect, SessionInv, RebalanceInv, JobInv, NoJob, Job, None
  <2> QED  BY <1>3, <2>1 DEF Connect
<1>4. CASE Call
  BY <1>4 DEF Call, PartsAfter, OwnedAfter
<1>5. CASE CloseRevokes \/ \E r \in Readers : ReaderRebalanced(r)
  BY <1>5 DEF CloseRevokes, ReaderRebalanced, Rebalanced, Offer
<1>6. CASE StartLoop \/ StartBatch \/ CallConnect \/ CallDisconnect \/ GotLock \/ Joined
           \/ \E call \in {"token", "watermark"} : WaitForLock(call)
  BY <1>6 DEF StartLoop, StartBatch, CallConnect, CallDisconnect, GotLock, Joined, WaitForLock
<1>7. CASE Flush \/ Choose \/ AssignTest \/ UnassignTest \/ UnassignRetest \/ CallRefused
  BY <1>7 DEF Flush, Choose, AssignTest, UnassignTest, UnassignRetest, CallRefused
<1>8. CASE Connected \/ Disconnect \/ DisconnectLock \/ Closed \/ ClearClosing \/ Disconnected
  BY <1>8 DEF Connected, Disconnect, DisconnectLock, Closed, ClearClosing, Disconnected
<1>9. CASE \E r \in Readers : \/ ReaderTest(r) \/ ReaderLock(r) \/ ReaderRetest(r)
                             \/ \E again \in BOOLEAN : ReaderReturns(r, again)
  BY <1>9 DEF ReaderTest, ReaderLock, ReaderRetest, ReaderReturns
<1>10. CASE UNCHANGED vars
  BY <1>10 DEF vars
<1> QED
  BY <1>2, <1>3, <1>4, <1>5, <1>6, <1>7, <1>8, <1>9, <1>10
  DEF Next, UserCall, Handle, JobStep, Reader

\* m_partitions is librdkafka's assignment, for every number of partitions and
\* of rebalances (kafka-consumer.cc:77,177-272).
THEOREM AssignmentSafe == Spec => []AssignmentAgrees
BY AgreeInit, AgreeNext, SessionSafe, PTL DEF Spec

\* What happens to an answer that librdkafka waits for: it is handed on from the
\* queue to the handler, and dropped by the tests of the assign and unassign calls
\* or refused by librdkafka, each of which is recorded.
LEMMA ComingNext == SessionInv /\ AnswerIsComing /\ [Next]_vars => AnswerIsComing'
<1> SUFFICES ASSUME SessionInv, AnswerIsComing, [Next]_vars PROVE AnswerIsComing'
  OBVIOUS
<1> USE DEF AnswerIsComing, Handling, flags, handler, librdkafka, wakeups, history, refusals
<1>1. RebalanceInv /\ JobInv
  BY DEF SessionInv
<1>2. CASE UNCHANGED <<closing, handler, librdkafka, wakeups, refusals>>
  BY <1>2
<1>3. CASE Flush
  <2>1. CASE events = <<>>
    BY <1>3, <2>1 DEF Flush, Idle
  <2>2. CASE events # <<>>
    BY <1>3, <2>2 DEF Flush
  <2> QED  BY <2>1, <2>2
<1>4. CASE Choose
  BY <1>4 DEF Choose
<1>5. CASE AssignTest
  <2>1. awaiting = "assign" /\ awaiting' = awaiting /\ closing' = closing /\ client
    BY <1>1, <1>5 DEF AssignTest, RebalanceInv
  <2> QED  BY <1>5, <2>1 DEF AssignTest, IsConnected
<1>6. CASE UnassignTest
  BY <1>6 DEF UnassignTest
<1>7. CASE UnassignRetest
  <2>1. client /\ awaiting' = awaiting /\ closing' = closing
    BY <1>1, <1>7 DEF UnassignRetest, RebalanceInv
  <2>2. CASE IsConnected
    BY <1>7, <2>2 DEF UnassignRetest
  <2>3. CASE ~IsConnected
    <3>1. closing'
      BY <2>1, <2>3 DEF IsConnected
    <3>2. raced'
      BY <1>7, <2>3 DEF UnassignRetest
    <3> QED  BY <3>1, <3>2
  <2> QED  BY <2>2, <2>3
<1>8. CASE Call
  BY <1>8 DEF Call
<1>9. CASE CloseRevokes \/ \E r \in Readers : ReaderRebalanced(r)
  <2>1. \/ UNCHANGED <<closing, handler, librdkafka, wakeups, refusals>>
        \/ UNCHANGED <<closing, handler, wakeups, refusals, awaiting>>
        \/ events' # <<>> /\ signal'
    <3>1. up /\ async
      BY <1>1, <1>9
         DEF CloseRevokes, ReaderRebalanced, JobInv, Terminating, Job, NoJob, None
    <3>2. PICK kind \in Kinds, ps \in SUBSET Partitions :
            /\ Rebalanced(kind, ps) /\ UNCHANGED <<closing, handler, refusals>>
      BY <1>9 DEF CloseRevokes, ReaderRebalanced, Offers, SessionInv, TypeOK, Kinds
    <3>3. CASE protocol = "AUTO"
      BY <3>2, <3>3 DEF Rebalanced
    <3>4. CASE Offer(kind, ps)
      <4>1. events \in Seq([kind : Kinds, parts : SUBSET Partitions])
        BY DEF SessionInv, TypeOK
      <4>2. Append(events, [kind |-> kind, parts |-> ps]) # <<>>
        BY <4>1
      <4> QED  BY <3>1, <3>4, <4>2 DEF Offer
    <3> QED  BY <3>2, <3>3, <3>4 DEF Rebalanced
  <2> QED  BY <2>1
<1>10. CASE Connect
  BY <1>10 DEF Connect
<1>11. CASE Disconnect
  <2>1. ~closing
    BY <1>1, <1>11 DEF Disconnect, JobInv, Job, NoJob, None
  <2> QED  BY <1>11, <2>1 DEF Disconnect
<1>12. CASE ClearClosing \/ Disconnected
  <2>1. ~client
    BY <1>1, <1>12 DEF ClearClosing, Disconnected, JobInv, Job, NoJob, None
  <2>2. awaiting = None /\ awaiting' = awaiting
    BY <1>1, <1>12, <2>1 DEF ClearClosing, Disconnected, RebalanceInv
  <2> QED  BY <2>2
<1>13. CASE StartLoop \/ StartBatch \/ CallConnect \/ Assignments
            \/ \E call \in {"token", "watermark"} : WaitForLock(call)
  BY <1>13 DEF StartLoop, StartBatch, CallConnect, Assignments, WaitForLock, Idle
<1>14. CASE CallDisconnect \/ GotLock \/ Joined
  BY <1>14 DEF CallDisconnect, GotLock, Joined, Idle
<1>15. CASE Connected \/ DisconnectLock \/ Closed
  BY <1>15 DEF Connected, DisconnectLock, Closed
<1>16. CASE \E r \in Readers : \/ ReaderTest(r) \/ ReaderLock(r) \/ ReaderRetest(r)
                              \/ \E again \in BOOLEAN : ReaderReturns(r, again)
  BY <1>16 DEF ReaderTest, ReaderLock, ReaderRetest, ReaderReturns
<1>17. CASE CallRefused
  <2>1. CASE Fits
    BY <1>17, <2>1 DEF CallRefused
  <2>2. CASE ~Fits
    <3>1. closing /\ closing' = closing
      BY <1>1, <1>17, <2>2 DEF CallRefused, RebalanceInv
    <3>2. misfit'
      BY <1>17, <2>2 DEF CallRefused
    <3> QED  BY <3>1, <3>2
  <2> QED  BY <2>1, <2>2
<1>18. CASE UNCHANGED vars
  BY <1>18 DEF vars
<1> QED
  BY <1>3, <1>4, <1>5, <1>6, <1>7, <1>8, <1>9, <1>10, <1>11, <1>12, <1>13, <1>14, <1>15,
     <1>16, <1>17, <1>18
  DEF Next, UserCall, Handle, JobStep, Reader

\* An answer that librdkafka waits for is coming, unless it was refused: while the
\* consumer was closing, or by librdkafka for a reason of its own
\* (kafka-consumer.cc:178,187,201,210,223,232,243,254,550; callbacks.cc:463-503).
THEOREM AnswersCome == Spec => []AnswerIsComing
<1>1. Init => AnswerIsComing
  BY DEF Init, AnswerIsComing
<1> QED  BY <1>1, ComingNext, SessionSafe, PTL DEF Spec

\* While close() waits, the JavaScript thread answers, or is about to be woken up
\* for it, except in the two waits that CloseEnds names.
OnlyTwoWaits ==
  Terminating /\ awaiting # None =>
    Handling \/ (Idle /\ signal) \/ Standoff \/ Unanswered

\* CloseEnds' provisos are the only ways in which close() waits with nothing under
\* way (connection.cc:267; kafka-consumer.cc:155,178,201,223,243,550): the lock, or
\* an answer that was refused.
THEOREM CloseWaitsForJavaScript == Spec => []OnlyTwoWaits
<1>1. SessionInv /\ AnswerIsComing => OnlyTwoWaits
  <2> SUFFICES ASSUME SessionInv, AnswerIsComing, Terminating, awaiting # None, ~Handling
               PROVE  (Idle /\ signal) \/ Standoff \/ Unanswered
    BY DEF OnlyTwoWaits
  <2>1. jpc # "join"
    BY DEF SessionInv, JobInv, Terminating, Job, NoJob, None
  <2>2. Idle \/ jpc \in {"token", "watermark"}
    BY <2>1 DEF SessionInv, TypeOK, Handling, Idle
  <2>3. CASE jpc \in {"token", "watermark"}
    BY <2>3 DEF Standoff
  <2>4. CASE Idle /\ events # <<>>
    BY <2>4 DEF SessionInv, RebalanceInv
  <2>5. CASE Idle /\ events = <<>>
    <3>1. awaiting = "assign" \/ raced \/ misfit \/ refused
      BY <2>5 DEF AnswerIsComing
    <3>2. awaiting \in {"assign", "revoke"}
      BY DEF SessionInv, TypeOK, Kinds
    <3> QED  BY <2>5, <3>1, <3>2 DEF Unanswered
  <2> QED  BY <2>2, <2>3, <2>4, <2>5
<1>2. Spec => [](SessionInv /\ AnswerIsComing)
  BY SessionSafe, AnswersCome, PTL
<1> QED  BY <1>1, <1>2, PTL
=============================================================================
