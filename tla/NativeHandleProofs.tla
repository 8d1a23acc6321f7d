------------------------- MODULE NativeHandleProofs -------------------------
(* Proofs about NativeHandle, for every set of threads and of handles.       *)
(* HandleInv is inductive whatever jobs overlap; with it, SerialInv is       *)
(* inductive when the callers run one Connect or Disconnect at a time, and   *)
(* gives GuardedUseLive and NoLeak; with both, OverlapInv is, and gives      *)
(* OnlyDisconnectEndangers.                                                  *)
EXTENDS NativeHandle, TLAPS

\* What a step of any thread may assume about the others.
LEMMA LockFacts ==
  ASSUME HandleInv
  PROVE  /\ \A s, t \in Threads : HoldsWrite(s) /\ HoldsWrite(t) => s = t
         /\ \A s, t \in Threads : ~(HoldsWrite(s) /\ HoldsRead(t))
         /\ \A s \in Threads : HoldsRead(s) => client \in live \cup {Null}
BY ConstantsAssumption
   DEF HandleInv, TypeOK, LockInv, ClientInv, HoldsRead, HoldsWrite

\* The initial state satisfies the invariant.
LEMMA InitInv == Init => HandleInv
BY ConstantsAssumption
   DEF Init, HandleInv, TypeOK, LockInv, ClientInv, GuardedInv, HoldsRead,
       HoldsWrite, Kinds, Lifecycle, Unlocked

\* Beginning an operation preserves it: a thread at its start holds nothing.
LEMMA BeginInv ==
  ASSUME HandleInv, NEW t \in Threads, NEW k \in Ops, Begin(t, k)
  PROVE  HandleInv'
<1> USE ConstantsAssumption
        DEF HandleInv, TypeOK, Begin, Goto, Start, Busy, shared, lock
<1>1. k \in Kinds
  OBVIOUS
<1>2. TypeOK'
  <2>1. op' \in [Threads -> Kinds]
    BY <1>1
  <2>2. overlapped' \in SUBSET Threads
    BY DEF InFlight
  <2> QED
    BY <2>1, <2>2
<1>3. LockInv'
  BY DEF LockInv, HoldsRead, HoldsWrite
<1>4. ClientInv'
  BY DEF ClientInv
<1>5. GuardedInv'
  BY DEF GuardedInv
<1> QED
  BY <1>2, <1>3, <1>4, <1>5

\* A step of an operation that tests, locks and tests again.
LEMMA GuardedStep ==
  ASSUME HandleInv, NEW t \in Threads, op[t] = "guarded", Guarded(t),
         UNCHANGED <<op, overlapped>>
  PROVE  HandleInv'
<1> USE ConstantsAssumption
        DEF HandleInv, TypeOK, LockInv, ClientInv, GuardedInv, HoldsRead, HoldsWrite,
            Goto, Return, LockRead, LockWrite, Unlock, shared, lock, Unlocked
<1>1. CASE GuardedCheck(t)
  BY <1>1 DEF GuardedCheck
<1>2. CASE GuardedLock(t)
  BY <1>2 DEF GuardedLock
<1>3. CASE GuardedRecheck(t)
  BY <1>3 DEF GuardedRecheck
<1>4. CASE Load(t)
  <2>1. TypeOK'
    BY <1>4 DEF Load
  <2>2. LockInv'
    BY <1>4 DEF Load
  <2>3. ClientInv'
    BY <1>4 DEF Load
  <2>4. GuardedInv'
    BY <1>4, LockFacts DEF Load
  <2> QED
    BY <2>1, <2>2, <2>3, <2>4
<1>5. CASE UseReturns(t)
  BY <1>5 DEF UseReturns
<1> QED
  BY <1>1, <1>2, <1>3, <1>4, <1>5 DEF Guarded

\* A step of an operation that does not lock.
LEMMA UnlockedStep ==
  ASSUME HandleInv, NEW t \in Threads, op[t] \in Unlocked, UnlockedOp(t),
         UNCHANGED <<op, overlapped>>
  PROVE  HandleInv'
<1> USE ConstantsAssumption
        DEF HandleInv, TypeOK, LockInv, ClientInv, GuardedInv, HoldsRead, HoldsWrite,
            Goto, Return, LockRead, LockWrite, Unlock, shared, lock, Unlocked
<1>1. CASE UnlockedCheck(t)
  BY <1>1 DEF UnlockedCheck
<1>2. CASE Load(t)
  BY <1>2 DEF Load
<1>3. CASE UseReturns(t)
  BY <1>3 DEF UseReturns
<1> QED
  BY <1>1, <1>2, <1>3 DEF UnlockedOp

\* A step of a sendOffsetsToTransaction that names this consumer.
LEMMA OffsetsStep ==
  ASSUME HandleInv, NEW t \in Threads, op[t] = "offsets", OffsetsOp(t),
         UNCHANGED <<op, overlapped>>
  PROVE  HandleInv'
<1> USE ConstantsAssumption
        DEF HandleInv, TypeOK, LockInv, ClientInv, GuardedInv, HoldsRead, HoldsWrite,
            Goto, Return, Unlock, shared, lock
<1>1. CASE Load(t)
  BY <1>1 DEF Load
<1>2. CASE UseReturns(t)
  BY <1>2 DEF UseReturns
<1> QED
  BY <1>1, <1>2 DEF OffsetsOp

\* A step of NodeSetToken.
LEMMA SetTokenStep ==
  ASSUME HandleInv, NEW t \in Threads, op[t] = "setToken", SetToken(t),
         UNCHANGED <<op, overlapped>>
  PROVE  HandleInv'
<1> USE ConstantsAssumption
        DEF HandleInv, TypeOK, LockInv, ClientInv, GuardedInv, HoldsRead, HoldsWrite,
            Goto, Return, LockRead, LockWrite, Unlock, shared, lock, Unlocked
<1>1. CASE TokenLoad(t)
  BY <1>1 DEF TokenLoad
<1>2. CASE TokenLock(t)
  BY <1>2 DEF TokenLock
<1>3. CASE TokenKeep(t)
  BY <1>3 DEF TokenKeep
<1>4. CASE UseReturns(t)
  BY <1>4 DEF UseReturns
<1> QED
  BY <1>1, <1>2, <1>3, <1>4 DEF SetToken

\* A step of Connect.
LEMMA ConnectStep ==
  ASSUME HandleInv, NEW t \in Threads, op[t] = "connect", Connect(t),
         UNCHANGED <<op, overlapped>>
  PROVE  HandleInv'
<1> USE ConstantsAssumption
        DEF HandleInv, TypeOK, LockInv, ClientInv, GuardedInv, HoldsRead, HoldsWrite,
            Goto, Return, LockRead, LockWrite, Unlock, shared, lock, Unlocked
<1>1. CASE ConnectCheck(t)
  BY <1>1 DEF ConnectCheck
<1>2. CASE ConnectLock(t)
  BY <1>2 DEF ConnectLock
<1>3. CASE Create(t)
  <2>1. TypeOK'
    BY <1>3 DEF Create
  <2>2. LockInv'
    BY <1>3 DEF Create
  <2>3. ClientInv'
    BY <1>3 DEF Create
  <2>4. GuardedInv'
    BY <1>3 DEF Create
  <2> QED
    BY <2>1, <2>2, <2>3, <2>4
<1>4. CASE Created(t)
  BY <1>4 DEF Created
<1>5. CASE ConnectTokenLock(t)
  BY <1>5 DEF ConnectTokenLock
<1>6. CASE ConnectToken(t)
  <2>1. TypeOK'
    <3>1. CASE token
      BY <1>6, <3>1 DEF ConnectToken
    <3>2. CASE ~token
      BY <1>6, <3>2 DEF ConnectToken
    <3> QED
      BY <3>1, <3>2
  <2>2. LockInv'
    BY <1>6 DEF ConnectToken
  <2>3. ClientInv' /\ GuardedInv'
    BY <1>6 DEF ConnectToken
  <2> QED
    BY <2>1, <2>2, <2>3
<1>7. CASE Load(t)
  BY <1>7 DEF Load
<1>8. CASE UseReturns(t)
  BY <1>8 DEF UseReturns
<1> QED
  BY <1>1, <1>2, <1>3, <1>4, <1>5, <1>6, <1>7, <1>8 DEF Connect

\* A step of Disconnect.
LEMMA DisconnectStep ==
  ASSUME HandleInv, NEW t \in Threads, op[t] = "disconnect", Disconnect(t),
         UNCHANGED <<op, overlapped>>
  PROVE  HandleInv'
<1> USE ConstantsAssumption
        DEF HandleInv, TypeOK, LockInv, ClientInv, GuardedInv, HoldsRead, HoldsWrite,
            Goto, Return, LockRead, LockWrite, Unlock, shared, lock, Unlocked
<1>1. CASE DisconnectCheck(t)
  BY <1>1 DEF DisconnectCheck
<1>2. CASE SetClosing(t)
  BY <1>2 DEF SetClosing
<1>3. CASE DisconnectLock(t)
  BY <1>3 DEF DisconnectLock
<1>4. CASE CloseReturns(t)
  BY <1>4 DEF CloseReturns
<1>5. CASE Delete(t)
  <2>1. TypeOK'
    BY <1>5 DEF Delete
  <2>2. LockInv'
    BY <1>5 DEF Delete
  <2>3. ClientInv'
    BY <1>5 DEF Delete
  <2>4. GuardedInv'
    BY <1>5, LockFacts DEF Delete
  <2> QED
    BY <2>1, <2>2, <2>3, <2>4
<1>6. CASE SetNull(t)
  <2>1. TypeOK'
    BY <1>6 DEF SetNull
  <2>2. LockInv'
    BY <1>6 DEF SetNull
  <2>3. ClientInv'
    BY <1>6 DEF SetNull
  <2>4. GuardedInv'
    BY <1>6 DEF SetNull
  <2> QED
    BY <2>1, <2>2, <2>3, <2>4
<1>7. CASE ClearClosing(t)
  BY <1>7 DEF ClearClosing
<1> QED
  BY <1>1, <1>2, <1>3, <1>4, <1>5, <1>6, <1>7 DEF Disconnect

\* HandleInv is inductive.
LEMMA NextInv == HandleInv /\ [Next]_vars => HandleInv'
<1> SUFFICES ASSUME HandleInv, [Next]_vars PROVE HandleInv'
  OBVIOUS
<1>1. CASE UNCHANGED vars
  BY <1>1 DEF vars, HandleInv, TypeOK, LockInv, ClientInv, GuardedInv, HoldsRead,
              HoldsWrite
<1>2. ASSUME NEW t \in Threads, Run(t) PROVE HandleInv'
  BY <1>2, GuardedStep, UnlockedStep, OffsetsStep, SetTokenStep, ConnectStep,
     DisconnectStep
     DEF Run
<1>3. ASSUME NEW t \in Threads, NEW k \in Ops, Begin(t, k) PROVE HandleInv'
  BY <1>3, BeginInv
<1> QED
  BY <1>1, <1>2, <1>3 DEF Next

\* Lock discipline and no use after delete hold in every behaviour: the client
\* that a locking operation uses is never a deleted one, and m_client dangles
\* only inside Disconnect's critical section, whatever jobs overlap.
THEOREM HandleSafe == Spec => []HandleInv
BY InitInv, NextInv, PTL DEF Spec

\* Type correctness of the state.
COROLLARY TypeCorrect == Spec => []TypeOK
BY HandleSafe, PTL DEF HandleInv

-----------------------------------------------------------------------------
(* One Connect or Disconnect job at a time.                                  *)

Both == HandleInv /\ SerialInv

\* The initial state satisfies the strengthened invariant.
LEMMA InitSerial == Init => SerialInv
BY ConstantsAssumption
   DEF Init, SerialInv, InLifecycle, Busy, Lifecycle

\* Serial callers begin a Connect or Disconnect only when none is in flight.
LEMMA BeginSerial ==
  ASSUME Serial, Both, NEW t \in Threads, NEW k \in Ops, Begin(t, k)
  PROVE  SerialInv'
<1> USE ConstantsAssumption
        DEF Both, HandleInv, TypeOK, SerialInv, Begin, CanBegin, Goto, Start, Busy,
            InLifecycle, InFlight, Lifecycle, shared, lock
<1>1. (\A s, u \in Threads : InLifecycle(s) /\ InLifecycle(u) => s = u)'
  OBVIOUS
<1>2. (closing => /\ role = "consumer"
                  /\ \E s \in Threads : op[s] = "disconnect" /\ Busy(s))'
  OBVIOUS
<1> QED
  BY <1>1, <1>2

\* A step of an operation that tests, locks and tests again.
LEMMA GuardedSerial ==
  ASSUME Both, NEW t \in Threads, op[t] = "guarded", Guarded(t),
         UNCHANGED <<op, overlapped>>
  PROVE  SerialInv'
<1> USE ConstantsAssumption
        DEF Both, HandleInv, TypeOK, LockInv, SerialInv, HoldsRead, HoldsWrite, Busy,
            InLifecycle, Lifecycle, Goto, Return, LockRead, LockWrite, Unlock, shared,
            lock, Unlocked
<1>1. CASE GuardedCheck(t)
  BY <1>1 DEF GuardedCheck
<1>2. CASE GuardedLock(t)
  BY <1>2 DEF GuardedLock
<1>3. CASE GuardedRecheck(t)
  BY <1>3 DEF GuardedRecheck, IsConnected
<1>4. CASE Load(t)
  BY <1>4 DEF Load, ClientInv
<1>5. CASE UseReturns(t)
  BY <1>5 DEF UseReturns
<1> QED
  BY <1>1, <1>2, <1>3, <1>4, <1>5 DEF Guarded

\* A step of an operation that does not lock.
LEMMA UnlockedSerial ==
  ASSUME Both, NEW t \in Threads, op[t] \in Unlocked, UnlockedOp(t),
         UNCHANGED <<op, overlapped>>
  PROVE  SerialInv'
<1> USE ConstantsAssumption
        DEF Both, HandleInv, TypeOK, LockInv, SerialInv, HoldsRead, HoldsWrite, Busy,
            InLifecycle, Lifecycle, Goto, Return, LockRead, LockWrite, Unlock, shared,
            lock, Unlocked
<1>1. CASE UnlockedCheck(t)
  BY <1>1 DEF UnlockedCheck
<1>2. CASE Load(t)
  BY <1>2 DEF Load
<1>3. CASE UseReturns(t)
  BY <1>3 DEF UseReturns
<1> QED
  BY <1>1, <1>2, <1>3 DEF UnlockedOp

\* A step of a sendOffsetsToTransaction that names this consumer.
LEMMA OffsetsSerial ==
  ASSUME Both, NEW t \in Threads, op[t] = "offsets", OffsetsOp(t),
         UNCHANGED <<op, overlapped>>
  PROVE  SerialInv'
<1> USE ConstantsAssumption
        DEF Both, HandleInv, TypeOK, LockInv, SerialInv, HoldsRead, HoldsWrite, Busy,
            InLifecycle, Lifecycle, Goto, Return, Unlock, shared, lock
<1>1. CASE Load(t)
  BY <1>1 DEF Load
<1>2. CASE UseReturns(t)
  BY <1>2 DEF UseReturns
<1> QED
  BY <1>1, <1>2 DEF OffsetsOp

\* A step of NodeSetToken.
LEMMA SetTokenSerial ==
  ASSUME Both, NEW t \in Threads, op[t] = "setToken", SetToken(t),
         UNCHANGED <<op, overlapped>>
  PROVE  SerialInv'
<1> USE ConstantsAssumption
        DEF Both, HandleInv, TypeOK, LockInv, SerialInv, HoldsRead, HoldsWrite, Busy,
            InLifecycle, Lifecycle, Goto, Return, LockRead, LockWrite, Unlock, shared,
            lock, Unlocked
<1>1. CASE TokenLoad(t)
  BY <1>1 DEF TokenLoad
<1>2. CASE TokenLock(t)
  BY <1>2 DEF TokenLock
<1>3. CASE TokenKeep(t)
  BY <1>3 DEF TokenKeep
<1>4. CASE UseReturns(t)
  BY <1>4 DEF UseReturns
<1> QED
  BY <1>1, <1>2, <1>3, <1>4 DEF SetToken

\* A step of Connect: it goes on to create a client only when m_client is NULL.
LEMMA ConnectSerial ==
  ASSUME Both, NEW t \in Threads, op[t] = "connect", Connect(t),
         UNCHANGED <<op, overlapped>>
  PROVE  SerialInv'
<1> USE ConstantsAssumption
        DEF Both, HandleInv, TypeOK, LockInv, SerialInv, HoldsRead, HoldsWrite, Busy,
            InLifecycle, Lifecycle, Goto, Return, LockRead, LockWrite, Unlock, shared,
            lock, Unlocked
<1>1. CASE ConnectCheck(t)
  BY <1>1 DEF ConnectCheck, IsConnected
<1>2. CASE ConnectLock(t)
  BY <1>2 DEF ConnectLock
<1>3. CASE Create(t)
  BY <1>3 DEF Create
<1>4. CASE Created(t)
  BY <1>4 DEF Created
<1>5. CASE ConnectTokenLock(t)
  BY <1>5 DEF ConnectTokenLock
<1>6. CASE ConnectToken(t)
  BY <1>6 DEF ConnectToken
<1>7. CASE Load(t)
  BY <1>7 DEF Load
<1>8. CASE UseReturns(t)
  BY <1>8 DEF UseReturns
<1> QED
  BY <1>1, <1>2, <1>3, <1>4, <1>5, <1>6, <1>7, <1>8 DEF Connect

\* A step of Disconnect: it deletes and resets m_client while nobody reads it.
LEMMA DisconnectSerial ==
  ASSUME Both, NEW t \in Threads, op[t] = "disconnect", Disconnect(t),
         UNCHANGED <<op, overlapped>>
  PROVE  SerialInv'
<1> USE ConstantsAssumption
        DEF Both, HandleInv, TypeOK, LockInv, SerialInv, HoldsRead, HoldsWrite, Busy,
            InLifecycle, Lifecycle, Goto, Return, LockRead, LockWrite, Unlock, shared,
            lock, Unlocked
<1>1. CASE DisconnectCheck(t)
  BY <1>1 DEF DisconnectCheck
<1>2. CASE SetClosing(t)
  BY <1>2 DEF SetClosing
<1>3. CASE DisconnectLock(t)
  BY <1>3 DEF DisconnectLock
<1>4. CASE CloseReturns(t)
  BY <1>4 DEF CloseReturns
<1>5. CASE Delete(t)
  BY <1>5 DEF Delete
<1>6. CASE SetNull(t)
  BY <1>6 DEF SetNull
<1>7. CASE ClearClosing(t)
  BY <1>7 DEF ClearClosing
<1> QED
  BY <1>1, <1>2, <1>3, <1>4, <1>5, <1>6, <1>7 DEF Disconnect

\* What serial callers keep invariant; Serial is a constant.
JobsSerial == Serial => SerialInv

\* SerialInv is inductive relative to HandleInv, for serial callers.
LEMMA NextSerial == HandleInv /\ JobsSerial /\ [Next]_vars => JobsSerial'
<1> SUFFICES ASSUME Serial, Both, [Next]_vars PROVE SerialInv'
  BY DEF Both, JobsSerial
<1>1. CASE UNCHANGED vars
  BY <1>1 DEF vars, Both, SerialInv, InLifecycle, Busy
<1>2. ASSUME NEW t \in Threads, Run(t) PROVE SerialInv'
  BY <1>2, GuardedSerial, UnlockedSerial, OffsetsSerial, SetTokenSerial,
     ConnectSerial, DisconnectSerial
     DEF Run
<1>3. ASSUME NEW t \in Threads, NEW k \in Ops, Begin(t, k) PROVE SerialInv'
  BY <1>3, BeginSerial
<1> QED
  BY <1>1, <1>2, <1>3 DEF Next

\* The strengthened invariant holds in every behaviour of serial callers.
LEMMA SerialSafe == Spec => [](HandleInv /\ JobsSerial)
<1>1. Init => HandleInv /\ JobsSerial
  BY InitInv, InitSerial DEF JobsSerial
<1>2. HandleInv /\ JobsSerial /\ [Next]_vars => (HandleInv /\ JobsSerial)'
  BY NextInv, NextSerial
<1> QED
  BY <1>1, <1>2, PTL DEF Spec

\* With one Connect or Disconnect job at a time, an operation that tests, locks
\* and tests again always calls librdkafka on an existing client.
THEOREM GuardedOperationsSafe == Spec => []GuardedUseLive
<1>1. HandleInv /\ JobsSerial => GuardedUseLive
  BY DEF JobsSerial, SerialInv, GuardedUseLive
<1> QED
  BY <1>1, SerialSafe, PTL

\* With one Connect or Disconnect job at a time, every client that was created
\* and not deleted is in m_client.
THEOREM ClientsNotLeaked == Spec => []NoLeak
<1>1. HandleInv /\ JobsSerial => NoLeak
  BY DEF JobsSerial, SerialInv, NoLeak
<1> QED
  BY <1>1, SerialSafe, PTL
-----------------------------------------------------------------------------
(* What a Disconnect job meets.                                              *)

\* The strengthening behind OnlyDisconnectEndangers: who is in flight together
\* with a Disconnect job has met it, and who has met none finds m_client where
\* it loaded or will load it.
OverlapInv ==
  \A t \in Threads :
    /\ Busy(t) /\ op[t] # "disconnect" /\ InFlight("disconnect") # {} => t \in overlapped
    /\ op[t] # "disconnect" => pc[t] # "close"
    /\ op[t] = "disconnect" => pc[t] # "use"
    /\ op[t] = "disconnect" /\ pc[t] \in {"flag", "wrlock"} => client \in live
    /\ op[t] = "connect" /\ pc[t] \in {"load", "tokenlock", "token"} => client \in live
    /\ pc[t] = "close" => loc[t] \in live
    /\ t \notin overlapped =>
         /\ op[t] \in Unlocked /\ pc[t] = "load" => client \in live
         /\ op[t] = "setToken" /\ pc[t] = "wrlock" => loc[t] \in live \cup {Null}
         /\ pc[t] = "use" => loc[t] \in live \/ NoConsumer(t)

\* What serial callers keep invariant about overlaps.
JobsOverlap == Serial => OverlapInv

\* What the three invariants say together.
Strengthened == Serial /\ Both /\ OverlapInv

\* Beginning a Disconnect marks all that is in flight; beginning anything else
\* during one marks the beginner.
LEMMA BeginOverlap ==
  ASSUME Strengthened, NEW t \in Threads, NEW k \in Ops, Begin(t, k)
  PROVE  OverlapInv'
<1> USE ConstantsAssumption
        DEF Strengthened, Both, HandleInv, TypeOK, OverlapInv, Begin, CanBegin, Goto, Start,
            Busy, Lifecycle, NoConsumer, shared, lock
<1>1. ASSUME NEW s \in Threads, pc'[s] # "idle", op'[s] # "disconnect",
             InFlight("disconnect")' # {}
      PROVE  s \in overlapped'
  <2>1. CASE k = "disconnect"
    BY <1>1, <2>1 DEF InFlight
  <2>2. CASE k # "disconnect" /\ InFlight("disconnect") # {}
    BY <1>1, <2>2 DEF InFlight
  <2>3. CASE k # "disconnect" /\ InFlight("disconnect") = {}
    BY <1>1, <2>3 DEF InFlight
  <2> QED
    BY <2>1, <2>2, <2>3
<1>2. \A s \in Threads : s \notin overlapped' /\ s # t => s \notin overlapped
  OBVIOUS
<1>3. ASSUME NEW s \in Threads, s # t
      PROVE  pc'[s] = pc[s] /\ op'[s] = op[s] /\ loc'[s] = loc[s]
  BY <1>3
<1>4. pc'[t] \in {"check", "load"} /\ op'[t] = k /\ (pc'[t] = "load" => k \in {"setToken", "offsets"})
  OBVIOUS
<1> QED
  BY <1>1, <1>2, <1>3, <1>4 DEF Unlocked

\* An operation that locks.
LEMMA GuardedOverlap ==
  ASSUME Strengthened, NEW t \in Threads, op[t] = "guarded", Guarded(t),
         UNCHANGED <<op, overlapped>>
  PROVE  OverlapInv'
<1> USE ConstantsAssumption
        DEF Strengthened, Both, HandleInv, TypeOK, LockInv, ClientInv, SerialInv, OverlapInv,
            HoldsRead, HoldsWrite, Busy, InLifecycle, InFlight, Lifecycle, Unlocked,
            NoConsumer, IsConnected, Goto, Return, LockRead, LockWrite, Unlock, shared,
            lock
<1>1. CASE GuardedCheck(t)
  BY <1>1 DEF GuardedCheck
<1>2. CASE GuardedLock(t)
  BY <1>2 DEF GuardedLock
<1>3. CASE GuardedRecheck(t)
  BY <1>3 DEF GuardedRecheck
<1>4. CASE Load(t)
  BY <1>4 DEF Load
<1>5. CASE UseReturns(t)
  BY <1>5 DEF UseReturns
<1> QED
  BY <1>1, <1>2, <1>3, <1>4, <1>5 DEF Guarded

\* An operation that does not lock loads what its test has seen unless it meets a
\* Disconnect job.
LEMMA UnlockedOverlap ==
  ASSUME Strengthened, NEW t \in Threads, op[t] \in Unlocked, UnlockedOp(t),
         UNCHANGED <<op, overlapped>>
  PROVE  OverlapInv'
<1> USE ConstantsAssumption
        DEF Strengthened, Both, HandleInv, TypeOK, LockInv, ClientInv, SerialInv, OverlapInv,
            HoldsRead, HoldsWrite, Busy, InLifecycle, InFlight, Lifecycle, Unlocked,
            NoConsumer, IsConnected, Goto, Return, LockRead, LockWrite, Unlock, shared,
            lock
<1>1. CASE UnlockedCheck(t)
  BY <1>1 DEF UnlockedCheck
<1>2. CASE Load(t)
  BY <1>2 DEF Load
<1>3. CASE UseReturns(t)
  BY <1>3 DEF UseReturns
<1> QED
  BY <1>1, <1>2, <1>3 DEF UnlockedOp

\* A sendOffsetsToTransaction that met no Disconnect job loads the consumer's
\* client, or finds none.
LEMMA OffsetsOverlap ==
  ASSUME Strengthened, NEW t \in Threads, op[t] = "offsets", OffsetsOp(t),
         UNCHANGED <<op, overlapped>>
  PROVE  OverlapInv'
<1> USE ConstantsAssumption
        DEF Strengthened, Both, HandleInv, TypeOK, LockInv, ClientInv, OverlapInv,
            Busy, InFlight, Unlocked, NoConsumer, Goto, Return, Unlock, shared, lock
<1>1. CASE Load(t)
  BY <1>1 DEF Load
<1>2. CASE UseReturns(t)
  BY <1>2 DEF UseReturns
<1> QED
  BY <1>1, <1>2 DEF OffsetsOp

\* NodeSetToken takes the pointer it read past its wait for the lock.
LEMMA SetTokenOverlap ==
  ASSUME Strengthened, NEW t \in Threads, op[t] = "setToken", SetToken(t),
         UNCHANGED <<op, overlapped>>
  PROVE  OverlapInv'
<1> USE ConstantsAssumption
        DEF Strengthened, Both, HandleInv, TypeOK, LockInv, ClientInv, SerialInv, OverlapInv,
            HoldsRead, HoldsWrite, Busy, InLifecycle, InFlight, Lifecycle, Unlocked,
            NoConsumer, IsConnected, Goto, Return, LockRead, LockWrite, Unlock, shared,
            lock
<1>1. CASE TokenLoad(t)
  BY <1>1 DEF TokenLoad
<1>2. CASE TokenLock(t)
  BY <1>2 DEF TokenLock
<1>3. CASE TokenKeep(t)
  BY <1>3 DEF TokenKeep
<1>4. CASE UseReturns(t)
  BY <1>4 DEF UseReturns
<1> QED
  BY <1>1, <1>2, <1>3, <1>4 DEF SetToken

\* Connect creates a client only when there is none, and uses the one it created.
LEMMA ConnectOverlap ==
  ASSUME Strengthened, NEW t \in Threads, op[t] = "connect", Connect(t),
         UNCHANGED <<op, overlapped>>
  PROVE  OverlapInv'
<1> USE ConstantsAssumption
        DEF Strengthened, Both, HandleInv, TypeOK, LockInv, ClientInv, SerialInv, OverlapInv,
            HoldsRead, HoldsWrite, Busy, InLifecycle, InFlight, Lifecycle, Unlocked,
            NoConsumer, IsConnected, Goto, Return, LockRead, LockWrite, Unlock, shared,
            lock
<1>1. CASE ConnectCheck(t)
  BY <1>1 DEF ConnectCheck
<1>2. CASE ConnectLock(t)
  BY <1>2 DEF ConnectLock
<1>3. CASE Create(t)
  BY <1>3 DEF Create
<1>4. CASE Created(t)
  BY <1>4 DEF Created
<1>5. CASE ConnectTokenLock(t)
  BY <1>5 DEF ConnectTokenLock
<1>6. CASE ConnectToken(t)
  BY <1>6 DEF ConnectToken
<1>7. CASE Load(t)
  BY <1>7 DEF Load
<1>8. CASE UseReturns(t)
  BY <1>8 DEF UseReturns
<1> QED
  BY <1>1, <1>2, <1>3, <1>4, <1>5, <1>6, <1>7, <1>8 DEF Connect

\* Disconnect, which every operation in flight has met, closes what it found.
LEMMA DisconnectOverlap ==
  ASSUME Strengthened, NEW t \in Threads, op[t] = "disconnect", Disconnect(t),
         UNCHANGED <<op, overlapped>>
  PROVE  OverlapInv'
<1> USE ConstantsAssumption
        DEF Strengthened, Both, HandleInv, TypeOK, LockInv, ClientInv, SerialInv, OverlapInv,
            HoldsRead, HoldsWrite, Busy, InLifecycle, InFlight, Lifecycle, Unlocked,
            NoConsumer, IsConnected, Goto, Return, LockRead, LockWrite, Unlock, shared,
            lock
<1>1. CASE DisconnectCheck(t)
  BY <1>1 DEF DisconnectCheck
<1>2. CASE SetClosing(t)
  BY <1>2 DEF SetClosing
<1>3. CASE DisconnectLock(t)
  BY <1>3 DEF DisconnectLock
<1>4. CASE CloseReturns(t)
  BY <1>4 DEF CloseReturns
<1>5. CASE Delete(t)
  BY <1>5 DEF Delete
<1>6. CASE SetNull(t)
  BY <1>6 DEF SetNull
<1>7. CASE ClearClosing(t)
  BY <1>7 DEF ClearClosing
<1> QED
  BY <1>1, <1>2, <1>3, <1>4, <1>5, <1>6, <1>7 DEF Disconnect

\* OverlapInv is inductive relative to the other two, for serial callers.
LEMMA NextOverlap ==
  HandleInv /\ JobsSerial /\ JobsOverlap /\ [Next]_vars => JobsOverlap'
<1> SUFFICES ASSUME Strengthened, [Next]_vars PROVE OverlapInv'
  BY DEF Strengthened, Both, JobsSerial, JobsOverlap
<1>1. CASE UNCHANGED vars
  BY <1>1 DEF vars, Strengthened, OverlapInv, InFlight, Busy, NoConsumer
<1>2. ASSUME NEW t \in Threads, Run(t) PROVE OverlapInv'
  BY <1>2, GuardedOverlap, UnlockedOverlap, OffsetsOverlap, SetTokenOverlap,
     ConnectOverlap, DisconnectOverlap
     DEF Run
<1>3. ASSUME NEW t \in Threads, NEW k \in Ops, Begin(t, k) PROVE OverlapInv'
  BY <1>3, BeginOverlap
<1> QED
  BY <1>1, <1>2, <1>3 DEF Next

\* With one Connect or Disconnect job at a time, whoever is inside librdkafka on
\* a dead client has been overlapped by a Disconnect job or is a
\* sendOffsetsToTransaction that was given a consumer without a client: nothing
\* else endangers the operations that do not lock (producer.cc:346,373-432,
\* kafka-consumer.cc:275-480, connection.cc:256).
THEOREM EndangeredByDisconnect == Spec => []OnlyDisconnectEndangers
<1>1. Init => JobsOverlap
  BY ConstantsAssumption DEF Init, JobsOverlap, OverlapInv, Busy, Unlocked, NoConsumer
<1>2. HandleInv /\ JobsSerial /\ JobsOverlap => OnlyDisconnectEndangers
  BY DEF JobsOverlap, OverlapInv, OnlyDisconnectEndangers, Using, NoConsumer
<1> QED
  BY <1>1, <1>2, NextOverlap, SerialSafe, PTL DEF Spec
=============================================================================
