------------------------ MODULE ClientLifecycleProofs ------------------------
(* Proofs about ClientLifecycle, for any number of calls.  Where each call   *)
(* is (CallOK) bounds its answers; that a patient caller has one call owed  *)
(* at a time (OneOwed) bounds the jobs in flight and the native clients.     *)
EXTENDS ClientLifecycle, FiniteSetTheorems, TLAPS

\* A call whose answer is owed is in one place, which will answer it: a native
\* job, a setImmediate, a wait for 'ready'.  fail()'s disconnect may go on when
\* the timer has answered.
CallOK(c) ==
  /\ Len(answers[c]) <= 1
  /\ what[c] = "none" => answers[c] = <<>> /\ job[c] = "none"
  /\ c \in immediates => c \notin waiters
  /\ c \in immediates \cup waiters => job[c] = "none"
  /\ c \in timers => job[c] = "cleanup"
  /\ c \in immediates \cup waiters \cup timers => Owed(c)
  /\ job[c] \notin {"none", "cleanup"} => Owed(c)
  /\ job[c] = "cleanup" /\ ~gaveUp => c \in timers
  /\ stage[c] = "creating" => job[c] = "connect"

\* There is a native client if m_client is set; of a patient caller one call is
\* owed, and a Connect that goes on to create a client has found none.
OneOwed ==
  /\ client => live > 0
  /\ style = "patient" =>
       /\ \A c, d \in Calls : Owed(c) /\ Owed(d) => c = d
       /\ \A c \in Calls : stage[c] = "creating" => ~client
       /\ live = IF client THEN 1 ELSE 0

\* The parts of TypeOK.
FlagTypes ==
  /\ subclass \in Subclasses /\ style \in Styles
  /\ isConnected \in BOOLEAN /\ isConnecting \in BOOLEAN /\ isDisconnecting \in BOOLEAN
  /\ client \in BOOLEAN /\ active \in BOOLEAN
  /\ gaveUp \in BOOLEAN /\ overlapped \in BOOLEAN

CallTypes ==
  /\ what \in [Calls -> {"none", "connect", "disconnect"}]
  /\ job \in [Calls -> {"none", "flush"} \cup Attempts \cup Disconnects]
  /\ stage \in [Calls -> {"none", "queued", "creating", "ok", "err"}]
  /\ immediates \subseteq Calls /\ waiters \subseteq Calls /\ timers \subseteq Calls

AnswerTypes == answers \in [Calls -> Seq({"ok", "err"})]

CountTypes == live \in Nat /\ callbacks \in Nat

CallsInv ==
  /\ FlagTypes /\ CallTypes /\ AnswerTypes /\ CountTypes
  /\ \A c \in Calls : CallOK(c)
  /\ OneOwed
\* The initial state satisfies the invariant: nobody has called.
LEMMA CallsInit == Init => CallsInv
<1> SUFFICES ASSUME Init PROVE CallsInv
  OBVIOUS
<1>1. answers \in [Calls -> Seq({"ok", "err"})] /\ \A c \in Calls : Len(answers[c]) = 0
  <2>1. <<>> \in Seq({"ok", "err"}) /\ Len(<<>>) = 0
    OBVIOUS
  <2> QED  BY <2>1 DEF Init
<1>2. FlagTypes
  BY DEF Init, FlagTypes
<1>3. CallTypes /\ AnswerTypes /\ CountTypes
  BY <1>1 DEF Init, CallTypes, AnswerTypes, CountTypes, Attempts, Disconnects
<1>4. \A c \in Calls : CallOK(c)
  BY <1>1 DEF Init, CallOK
<1>5. OneOwed
  BY DEF Init, OneOwed, Owed
<1> QED  BY <1>2, <1>3, <1>4, <1>5 DEF CallsInv

\* The callbacks of S run: each of them had not been called.
LEMMA AnswerFacts ==
  ASSUME AnswerTypes, NEW S \in SUBSET Calls, NEW r \in {"ok", "err"},
         \A c \in S : answers[c] = <<>>, Answer(S, r)
  PROVE  /\ answers' \in [Calls -> Seq({"ok", "err"})]
         /\ \A c \in S : Len(answers'[c]) = 1 /\ answers'[c] # <<>>
         /\ \A c \in Calls \ S : answers'[c] = answers[c]
<1>1. \A c \in Calls : answers[c] \in Seq({"ok", "err"})
  BY DEF AnswerTypes
<1>2. \A c \in Calls : Append(answers[c], r) \in Seq({"ok", "err"})
  BY <1>1
<1>3. Len(Append(<<>>, r)) = 1 /\ Append(<<>>, r) # <<>>
  OBVIOUS
<1>4. answers' = [c \in Calls |-> IF c \in S THEN Append(answers[c], r) ELSE answers[c]]
  BY DEF Answer
<1>5. answers' \in [Calls -> Seq({"ok", "err"})]
  BY <1>1, <1>2, <1>4
<1>6. \A c \in S : answers'[c] = Append(<<>>, r)
  BY <1>4
<1>7. \A c \in Calls \ S : answers'[c] = answers[c]
  BY <1>4
<1> QED  BY <1>3, <1>5, <1>6, <1>7

\* One callback runs.
LEMMA OneAnswer ==
  ASSUME AnswerTypes, NEW c \in Calls, NEW r \in {"ok", "err"}, answers[c] = <<>>,
         Answer({c}, r)
  PROVE  /\ AnswerTypes'
         /\ Len(answers'[c]) = 1 /\ answers'[c] # <<>>
         /\ \A d \in Calls : d # c => answers'[d] = answers[d]
BY AnswerFacts DEF AnswerTypes

\* connect() is called (Client.prototype.connect).
LEMMA ConnectStep ==
  ASSUME CallsInv, NEW c \in Calls, Connect(c)
  PROVE  CallsInv'
<1> USE DEF CallsInv, Attempts, Disconnects, Queue, NoJob, fixed, flags, pending, native
<1>1. CASE ConnectAgain(c)
  <2>a. what[c] = "none" /\ what' = [what EXCEPT ![c] = "connect"] /\ answers[c] = <<>>
        /\ job[c] = "none" /\ c \notin immediates \cup waiters \cup timers
    BY <1>1 DEF Connect, Called, CallOK, Owed
  <2>b. style = "patient" => \A d \in Calls : ~Owed(d)
    BY <1>1, <2>a DEF Connect, Called, CallOK, Owed
  <2>1. FlagTypes'
    BY <1>1, <2>a, <2>b DEF Connect, ConnectAgain, FlagTypes, NoteOverlap
  <2>2. CallTypes'
    BY <1>1, <2>a, <2>b DEF Connect, ConnectAgain, CallTypes
  <2>3. AnswerTypes' /\ CountTypes'
    BY <1>1, <2>a, <2>b DEF Connect, ConnectAgain, AnswerTypes, CountTypes
  <2>4. CallOK(c)'
    BY <1>1, <2>a, <2>b DEF Connect, ConnectAgain, CallOK, Owed, CallTypes
  <2>5. \A d \in Calls \ {c} : CallOK(d)'
    BY <1>1, <2>a, <2>b DEF Connect, ConnectAgain, CallOK, Owed, CallTypes
  <2>6. OneOwed'
    BY <1>1, <2>a, <2>b
       DEF Connect, ConnectAgain, OneOwed, Owed, CallOK, CallTypes, CountTypes
  <2> QED  BY <2>1, <2>2, <2>3, <2>4, <2>5, <2>6
<1>2. CASE ConnectWaits(c)
  <2>a. what[c] = "none" /\ what' = [what EXCEPT ![c] = "connect"] /\ answers[c] = <<>>
        /\ job[c] = "none" /\ c \notin immediates \cup waiters \cup timers
    BY <1>2 DEF Connect, Called, CallOK, Owed
  <2>b. style = "patient" => \A d \in Calls : ~Owed(d)
    BY <1>2, <2>a DEF Connect, Called, CallOK, Owed
  <2>1. FlagTypes'
    BY <1>2, <2>a, <2>b DEF Connect, ConnectWaits, FlagTypes, NoteOverlap
  <2>2. CallTypes'
    BY <1>2, <2>a, <2>b DEF Connect, ConnectWaits, CallTypes
  <2>3. AnswerTypes' /\ CountTypes'
    BY <1>2, <2>a, <2>b DEF Connect, ConnectWaits, AnswerTypes, CountTypes
  <2>4. CallOK(c)'
    BY <1>2, <2>a, <2>b DEF Connect, ConnectWaits, CallOK, Owed, CallTypes
  <2>5. \A d \in Calls \ {c} : CallOK(d)'
    BY <1>2, <2>a, <2>b DEF Connect, ConnectWaits, CallOK, Owed, CallTypes
  <2>6. OneOwed'
    BY <1>2, <2>a, <2>b
       DEF Connect, ConnectWaits, OneOwed, Owed, CallOK, CallTypes, CountTypes
  <2> QED  BY <2>1, <2>2, <2>3, <2>4, <2>5, <2>6
<1>3. CASE ConnectStarts(c)
  <2>a. what[c] = "none" /\ what' = [what EXCEPT ![c] = "connect"] /\ answers[c] = <<>>
        /\ job[c] = "none" /\ c \notin immediates \cup waiters \cup timers
    BY <1>3 DEF Connect, Called, CallOK, Owed
  <2>b. style = "patient" => \A d \in Calls : ~Owed(d)
    BY <1>3, <2>a DEF Connect, Called, CallOK, Owed
  <2>1. FlagTypes'
    BY <1>3, <2>a, <2>b DEF Connect, ConnectStarts, FlagTypes, NoteOverlap
  <2>2. CallTypes'
    BY <1>3, <2>a, <2>b DEF Connect, ConnectStarts, CallTypes
  <2>3. AnswerTypes' /\ CountTypes'
    BY <1>3, <2>a, <2>b DEF Connect, ConnectStarts, AnswerTypes, CountTypes
  <2>4. CallOK(c)'
    BY <1>3, <2>a, <2>b DEF Connect, ConnectStarts, CallOK, Owed, CallTypes
  <2>5. \A d \in Calls \ {c} : CallOK(d)'
    BY <1>3, <2>a, <2>b DEF Connect, ConnectStarts, CallOK, Owed, CallTypes
  <2>6. OneOwed'
    BY <1>3, <2>a, <2>b
       DEF Connect, ConnectStarts, OneOwed, Owed, CallOK, CallTypes, CountTypes
  <2> QED  BY <2>1, <2>2, <2>3, <2>4, <2>5, <2>6
<1> QED  BY <1>1, <1>2, <1>3 DEF Connect

\* disconnect() is called (Client.prototype.disconnect, Producer.prototype.disconnect).
LEMMA DisconnectStep ==
  ASSUME CallsInv, NEW c \in Calls, Disconnect(c)
  PROVE  CallsInv'
<1> USE DEF CallsInv, Attempts, Disconnects, Queue, NoJob, fixed, flags, pending, native
<1>1. CASE subclass = "producer"
  <2>a. what[c] = "none" /\ what' = [what EXCEPT ![c] = "disconnect"] /\ answers[c] = <<>>
        /\ job[c] = "none" /\ c \notin immediates \cup waiters \cup timers
    BY <1>1 DEF Disconnect, Called, CallOK, Owed
  <2>b. style = "patient" => \A d \in Calls : ~Owed(d)
    BY <1>1, <2>a DEF Disconnect, Called, CallOK, Owed
  <2>1. FlagTypes'
    BY <1>1, <2>a, <2>b DEF Disconnect, FlagTypes, NoteOverlap
  <2>2. CallTypes'
    BY <1>1, <2>a, <2>b DEF Disconnect, CallTypes
  <2>3. AnswerTypes' /\ CountTypes'
    BY <1>1, <2>a, <2>b DEF Disconnect, AnswerTypes, CountTypes
  <2>4. CallOK(c)'
    BY <1>1, <2>a, <2>b DEF Disconnect, CallOK, Owed, CallTypes
  <2>5. \A d \in Calls \ {c} : CallOK(d)'
    BY <1>1, <2>a, <2>b DEF Disconnect, CallOK, Owed, CallTypes
  <2>6. OneOwed'
    BY <1>1, <2>a, <2>b DEF Disconnect, OneOwed, Owed, CallOK, CallTypes, CountTypes
  <2> QED  BY <2>1, <2>2, <2>3, <2>4, <2>5, <2>6
<1>2. CASE subclass # "producer"
  <2>a. what[c] = "none" /\ what' = [what EXCEPT ![c] = "disconnect"] /\ answers[c] = <<>>
        /\ job[c] = "none" /\ c \notin immediates \cup waiters \cup timers
    BY <1>2 DEF Disconnect, Called, CallOK, Owed
  <2>b. style = "patient" => \A d \in Calls : ~Owed(d)
    BY <1>2, <2>a DEF Disconnect, Called, CallOK, Owed
  <2>1. FlagTypes'
    BY <1>2, <2>a, <2>b DEF Disconnect, BaseDisconnect, FlagTypes, NoteOverlap
  <2>2. CallTypes'
    BY <1>2, <2>a, <2>b DEF Disconnect, BaseDisconnect, CallTypes
  <2>3. AnswerTypes' /\ CountTypes'
    BY <1>2, <2>a, <2>b DEF Disconnect, BaseDisconnect, AnswerTypes, CountTypes
  <2>4. CallOK(c)'
    BY <1>2, <2>a, <2>b DEF Disconnect, BaseDisconnect, CallOK, Owed, CallTypes
  <2>5. \A d \in Calls \ {c} : CallOK(d)'
    BY <1>2, <2>a, <2>b DEF Disconnect, BaseDisconnect, CallOK, Owed, CallTypes
  <2>6. OneOwed'
    BY <1>2, <2>a, <2>b
       DEF Disconnect, BaseDisconnect, OneOwed, Owed, CallOK, CallTypes, CountTypes
  <2> QED  BY <2>1, <2>2, <2>3, <2>4, <2>5, <2>6
<1> QED  BY <1>1, <1>2 

\* A native job runs: Connect creates a client only if it has found none.
LEMMA ExecStep ==
  ASSUME CallsInv, NEW c \in Calls, Exec(c)
  PROVE  CallsInv'
<1> USE DEF CallsInv, Attempts, Disconnects, Queue, NoJob, fixed, flags, pending, native
<1>1. CASE ExecConnect(c)
  <2>a. UNCHANGED <<fixed, flags, what, job, pending, answers, active, callbacks,
                  gaveUp, overlapped>>
    BY <1>1 DEF Exec
  <2>1. FlagTypes'
    BY <1>1, <2>a DEF ExecConnect, Executing, JobEnds, FlagTypes, NoteOverlap
  <2>2. CallTypes'
    BY <1>1, <2>a DEF ExecConnect, Executing, JobEnds, CallTypes
  <2>3. AnswerTypes' /\ CountTypes'
    BY <1>1, <2>a DEF ExecConnect, Executing, JobEnds, AnswerTypes, CountTypes
  <2>4. CallOK(c)'
    BY <1>1, <2>a DEF ExecConnect, Executing, JobEnds, CallOK, Owed, CallTypes
  <2>5. \A d \in Calls \ {c} : CallOK(d)'
    BY <1>1, <2>a DEF ExecConnect, Executing, JobEnds, CallOK, Owed, CallTypes
  <2>6. OneOwed'
    BY <1>1, <2>a
       DEF ExecConnect, Executing, JobEnds, OneOwed, Owed, CallOK, CallTypes, CountTypes
  <2> QED  BY <2>1, <2>2, <2>3, <2>4, <2>5, <2>6
<1>2. CASE ExecCreate(c)
  <2>a. UNCHANGED <<fixed, flags, what, job, pending, answers, active, callbacks,
                  gaveUp, overlapped>>
    BY <1>2 DEF Exec
  <2>1. FlagTypes'
    BY <1>2, <2>a DEF ExecCreate, Executing, JobEnds, FlagTypes, NoteOverlap
  <2>2. CallTypes'
    BY <1>2, <2>a DEF ExecCreate, Executing, JobEnds, CallTypes
  <2>3. AnswerTypes' /\ CountTypes'
    BY <1>2, <2>a DEF ExecCreate, Executing, JobEnds, AnswerTypes, CountTypes
  <2>4. CallOK(c)'
    BY <1>2, <2>a DEF ExecCreate, Executing, JobEnds, CallOK, Owed, CallTypes
  <2>5. \A d \in Calls \ {c} : CallOK(d)'
    BY <1>2, <2>a DEF ExecCreate, Executing, JobEnds, CallOK, Owed, CallTypes
  <2>6. OneOwed'
    BY <1>2, <2>a
       DEF ExecCreate, Executing, JobEnds, OneOwed, Owed, CallOK, CallTypes, CountTypes
  <2> QED  BY <2>1, <2>2, <2>3, <2>4, <2>5, <2>6
<1>3. CASE ExecMetadata(c)
  <2>a. UNCHANGED <<fixed, flags, what, job, pending, answers, active, callbacks,
                  gaveUp, overlapped>>
    BY <1>3 DEF Exec
  <2>1. FlagTypes'
    BY <1>3, <2>a DEF ExecMetadata, Executing, JobEnds, FlagTypes, NoteOverlap
  <2>2. CallTypes'
    BY <1>3, <2>a DEF ExecMetadata, Executing, JobEnds, CallTypes
  <2>3. AnswerTypes' /\ CountTypes'
    BY <1>3, <2>a DEF ExecMetadata, Executing, JobEnds, AnswerTypes, CountTypes
  <2>4. CallOK(c)'
    BY <1>3, <2>a DEF ExecMetadata, Executing, JobEnds, CallOK, Owed, CallTypes
  <2>5. \A d \in Calls \ {c} : CallOK(d)'
    BY <1>3, <2>a DEF ExecMetadata, Executing, JobEnds, CallOK, Owed, CallTypes
  <2>6. OneOwed'
    BY <1>3, <2>a
       DEF ExecMetadata, Executing, JobEnds, OneOwed, Owed, CallOK, CallTypes,
           CountTypes
  <2> QED  BY <2>1, <2>2, <2>3, <2>4, <2>5, <2>6
<1>4. CASE ExecFlush(c)
  <2>a. UNCHANGED <<fixed, flags, what, job, pending, answers, active, callbacks,
                  gaveUp, overlapped>>
    BY <1>4 DEF Exec
  <2>1. FlagTypes'
    BY <1>4, <2>a DEF ExecFlush, Executing, JobEnds, FlagTypes, NoteOverlap
  <2>2. CallTypes'
    BY <1>4, <2>a DEF ExecFlush, Executing, JobEnds, CallTypes
  <2>3. AnswerTypes' /\ CountTypes'
    BY <1>4, <2>a DEF ExecFlush, Executing, JobEnds, AnswerTypes, CountTypes
  <2>4. CallOK(c)'
    BY <1>4, <2>a DEF ExecFlush, Executing, JobEnds, CallOK, Owed, CallTypes
  <2>5. \A d \in Calls \ {c} : CallOK(d)'
    BY <1>4, <2>a DEF ExecFlush, Executing, JobEnds, CallOK, Owed, CallTypes
  <2>6. OneOwed'
    BY <1>4, <2>a
       DEF ExecFlush, Executing, JobEnds, OneOwed, Owed, CallOK, CallTypes, CountTypes
  <2> QED  BY <2>1, <2>2, <2>3, <2>4, <2>5, <2>6
<1>5. CASE ExecDisconnect(c)
  <2>a. UNCHANGED <<fixed, flags, what, job, pending, answers, active, callbacks,
                  gaveUp, overlapped>>
    BY <1>5 DEF Exec
  <2>1. FlagTypes'
    BY <1>5, <2>a DEF ExecDisconnect, Executing, JobEnds, FlagTypes, NoteOverlap
  <2>2. CallTypes'
    BY <1>5, <2>a DEF ExecDisconnect, Executing, JobEnds, CallTypes
  <2>3. AnswerTypes' /\ CountTypes'
    BY <1>5, <2>a
       DEF ExecDisconnect, Executing, JobEnds, AnswerTypes, CountTypes, FlagTypes,
           OneOwed
  <2>4. CallOK(c)'
    BY <1>5, <2>a DEF ExecDisconnect, Executing, JobEnds, CallOK, Owed, CallTypes
  <2>5. \A d \in Calls \ {c} : CallOK(d)'
    BY <1>5, <2>a DEF ExecDisconnect, Executing, JobEnds, CallOK, Owed, CallTypes
  <2>6. OneOwed'
    BY <1>5, <2>a
       DEF ExecDisconnect, Executing, JobEnds, OneOwed, Owed, CallOK, CallTypes,
           CountTypes
  <2> QED  BY <2>1, <2>2, <2>3, <2>4, <2>5, <2>6
<1> QED  BY <1>1, <1>2, <1>3, <1>4, <1>5 DEF Exec

\* The callback of a native job runs on the JavaScript thread.
LEMMA DoneStep ==
  ASSUME CallsInv, NEW c \in Calls, Done(c)
  PROVE  CallsInv'
<1> USE DEF CallsInv, Attempts, Disconnects, Queue, NoJob, fixed, flags, pending, native
<1>1. CASE ConnectOK(c)
  <2>a. UNCHANGED <<fixed, what, native>> /\ overlapped' \in BOOLEAN
    BY <1>1 DEF Done, NoteOverlap, FlagTypes
  <2>1. FlagTypes'
    BY <1>1, <2>a DEF ConnectOK, Finished, FlagTypes
  <2>2. CallTypes'
    BY <1>1, <2>a DEF ConnectOK, Finished, CallTypes
  <2>3. AnswerTypes' /\ CountTypes'
    BY <1>1, <2>a DEF ConnectOK, Finished, AnswerTypes, CountTypes
  <2>4. CallOK(c)'
    BY <1>1, <2>a DEF ConnectOK, Finished, CallOK, Owed, CallTypes
  <2>5. \A d \in Calls \ {c} : CallOK(d)'
    BY <1>1, <2>a DEF ConnectOK, Finished, CallOK, Owed, CallTypes
  <2>6. OneOwed'
    BY <1>1, <2>a DEF ConnectOK, Finished, OneOwed, Owed, CallOK, CallTypes, CountTypes
  <2> QED  BY <2>1, <2>2, <2>3, <2>4, <2>5, <2>6
<1>2. CASE AttemptFails(c) /\ isConnected
  <2>a. UNCHANGED <<fixed, what, native>> /\ overlapped' \in BOOLEAN
    BY <1>2 DEF Done, NoteOverlap, FlagTypes
  <2>1. FlagTypes'
    BY <1>2, <2>a DEF AttemptFails, Fail, Finished, FlagTypes
  <2>2. CallTypes'
    BY <1>2, <2>a DEF AttemptFails, Fail, Finished, CallTypes
  <2>3. AnswerTypes' /\ CountTypes'
    BY <1>2, <2>a DEF AttemptFails, Fail, Finished, AnswerTypes, CountTypes
  <2>4. CallOK(c)'
    BY <1>2, <2>a DEF AttemptFails, Fail, Finished, CallOK, Owed, CallTypes
  <2>5. \A d \in Calls \ {c} : CallOK(d)'
    BY <1>2, <2>a DEF AttemptFails, Fail, Finished, CallOK, Owed, CallTypes
  <2>6. OneOwed'
    BY <1>2, <2>a
       DEF AttemptFails, Fail, Finished, OneOwed, Owed, CallOK, CallTypes, CountTypes
  <2> QED  BY <2>1, <2>2, <2>3, <2>4, <2>5, <2>6
<1>3. CASE AttemptFails(c) /\ ~isConnected
  <2>a. UNCHANGED <<fixed, what, native>> /\ overlapped' \in BOOLEAN
    BY <1>3 DEF Done, NoteOverlap, FlagTypes
  <2>b. job[c] # "none" /\ answers[c] = <<>>
    BY <1>3, <2>a DEF AttemptFails, Finished, CallOK, Owed, Fail
  <2>c. /\ AnswerTypes'
        /\ Len(answers'[c]) = 1 /\ answers'[c] # <<>>
        /\ \A d \in Calls : d # c => answers'[d] = answers[d]
    BY <1>3, <2>a, <2>b, OneAnswer DEF AttemptFails, NextCb, Fail
  <2>1. FlagTypes'
    BY <1>3, <2>a, <2>b, <2>c DEF AttemptFails, Fail, Finished, NextCb, FlagTypes
  <2>2. CallTypes'
    BY <1>3, <2>a, <2>b, <2>c DEF AttemptFails, Fail, Finished, NextCb, CallTypes
  <2>3. AnswerTypes' /\ CountTypes'
    BY <1>3, <2>a, <2>b, <2>c
       DEF AttemptFails, Fail, Finished, NextCb, AnswerTypes, CountTypes
  <2>4. CallOK(c)'
    BY <1>3, <2>a, <2>b, <2>c
       DEF AttemptFails, Fail, Finished, NextCb, CallOK, Owed, CallTypes
  <2>5. \A d \in Calls \ {c} : CallOK(d)'
    BY <1>3, <2>a, <2>b, <2>c
       DEF AttemptFails, Fail, Finished, NextCb, CallOK, Owed, CallTypes
  <2>6. OneOwed'
    BY <1>3, <2>a, <2>b, <2>c
       DEF AttemptFails, Fail, Finished, NextCb, OneOwed, Owed, CallOK, CallTypes,
           CountTypes
  <2> QED  BY <2>1, <2>2, <2>3, <2>4, <2>5, <2>6
<1>4. CASE MetadataOK(c)
  <2>a. UNCHANGED <<fixed, what, native>> /\ overlapped' \in BOOLEAN
    BY <1>4 DEF Done, NoteOverlap, FlagTypes
  <2>b. \A d \in waiters \cup {c} : answers[d] = <<>>
    BY <1>4, <2>a DEF MetadataOK, Finished, CallOK, CallTypes, Owed
  <2>c. /\ AnswerTypes'
        /\ \A d \in waiters \cup {c} : Len(answers'[d]) = 1 /\ answers'[d] # <<>>
        /\ \A d \in Calls \ (waiters \cup {c}) : answers'[d] = answers[d]
    BY <1>4, <2>a, <2>b, AnswerFacts DEF MetadataOK, AnswerTypes, CallTypes
  <2>d. \A d \in waiters \cup {c} : CallOK(d)'
    <3>1. job[c] = "metadata"
      BY <1>4 DEF MetadataOK, Finished
    <3>2. \A d \in waiters \cup {c} :
            what[d] # "none" /\ d \notin immediates \cup timers
      BY <1>4, <3>1 DEF CallOK, CallTypes, Owed
    <3>3. \A d \in waiters \cup {c} : job'[d] = "none" /\ stage'[d] # "creating"
      BY <1>4, <3>1 DEF MetadataOK, CallOK, CallTypes
    <3>4. UNCHANGED <<what, immediates, timers>> /\ waiters' = {}
      BY <1>4, <2>a DEF MetadataOK
    <3> SUFFICES ASSUME NEW d \in waiters \cup {c} PROVE CallOK(d)'
      OBVIOUS
    <3>5. Len(answers'[d]) <= 1
      <4>1. Len(answers'[d]) = 1
        BY <2>c, Zenon
      <4> QED  BY <4>1
    <3>6. /\ what'[d] # "none" /\ d \notin immediates' \cup timers' \cup waiters'
          /\ job'[d] = "none" /\ stage'[d] # "creating"
      BY <3>2, <3>3, <3>4
    <3> QED  BY <3>5, <3>6 DEF CallOK
  <2>e. \A d \in Calls \ (waiters \cup {c}) : CallOK(d)'
    BY <1>4, <2>a, <2>b, <2>c, <2>d DEF MetadataOK, Finished, CallOK, CallTypes, Owed
  <2>1. FlagTypes'
    BY <1>4, <2>a, <2>b, <2>c, <2>d, <2>e DEF MetadataOK, Finished, FlagTypes
  <2>2. CallTypes'
    BY <1>4, <2>a, <2>b, <2>c, <2>d, <2>e DEF MetadataOK, Finished, CallTypes
  <2>3. AnswerTypes' /\ CountTypes'
    BY <1>4, <2>a, <2>b, <2>c, <2>d, <2>e
       DEF MetadataOK, Finished, AnswerTypes, CountTypes
  <2>4. CallOK(c)'
    BY <1>4, <2>a, <2>b, <2>c, <2>d, <2>e
       DEF MetadataOK, Finished, CallOK, Owed, CallTypes
  <2>5. \A d \in Calls \ {c} : CallOK(d)'
    BY <1>4, <2>a, <2>b, <2>c, <2>d, <2>e
       DEF MetadataOK, Finished, CallOK, Owed, CallTypes
  <2>6. OneOwed'
    BY <1>4, <2>a, <2>b, <2>c, <2>d, <2>e
       DEF MetadataOK, Finished, OneOwed, Owed, CallOK, CallTypes, CountTypes
  <2> QED  BY <2>1, <2>2, <2>3, <2>4, <2>5, <2>6
<1>5. CASE CleanupDone(c) /\ c \in timers
  <2>a. UNCHANGED <<fixed, what, native>> /\ overlapped' \in BOOLEAN
    BY <1>5 DEF Done, NoteOverlap, FlagTypes
  <2>b. job[c] # "none" /\ answers[c] = <<>>
    BY <1>5, <2>a DEF CleanupDone, Finished, CallOK, Owed
  <2>c. /\ AnswerTypes'
        /\ Len(answers'[c]) = 1 /\ answers'[c] # <<>>
        /\ \A d \in Calls : d # c => answers'[d] = answers[d]
    BY <1>5, <2>a, <2>b, OneAnswer DEF CleanupDone, NextCb
  <2>1. FlagTypes'
    BY <1>5, <2>a, <2>b, <2>c DEF CleanupDone, Finished, NextCb, FlagTypes
  <2>2. CallTypes'
    BY <1>5, <2>a, <2>b, <2>c DEF CleanupDone, Finished, NextCb, CallTypes
  <2>3. AnswerTypes' /\ CountTypes'
    BY <1>5, <2>a, <2>b, <2>c DEF CleanupDone, Finished, NextCb, AnswerTypes, CountTypes
  <2>4. CallOK(c)'
    BY <1>5, <2>a, <2>b, <2>c DEF CleanupDone, Finished, NextCb, CallOK, Owed, CallTypes
  <2>5. \A d \in Calls \ {c} : CallOK(d)'
    BY <1>5, <2>a, <2>b, <2>c DEF CleanupDone, Finished, NextCb, CallOK, Owed, CallTypes
  <2>6. OneOwed'
    BY <1>5, <2>a, <2>b, <2>c
       DEF CleanupDone, Finished, NextCb, OneOwed, Owed, CallOK, CallTypes, CountTypes
  <2> QED  BY <2>1, <2>2, <2>3, <2>4, <2>5, <2>6
<1>6. CASE CleanupDone(c) /\ c \notin timers
  <2>a. UNCHANGED <<fixed, what, native>> /\ overlapped' \in BOOLEAN
    BY <1>6 DEF Done, NoteOverlap, FlagTypes
  <2>1. FlagTypes'
    BY <1>6, <2>a DEF CleanupDone, Finished, FlagTypes
  <2>2. CallTypes'
    BY <1>6, <2>a DEF CleanupDone, Finished, CallTypes
  <2>3. AnswerTypes' /\ CountTypes'
    BY <1>6, <2>a DEF CleanupDone, Finished, AnswerTypes, CountTypes
  <2>4. CallOK(c)'
    BY <1>6, <2>a DEF CleanupDone, Finished, CallOK, Owed, CallTypes
  <2>5. \A d \in Calls \ {c} : CallOK(d)'
    BY <1>6, <2>a DEF CleanupDone, Finished, CallOK, Owed, CallTypes
  <2>6. OneOwed'
    BY <1>6, <2>a
       DEF CleanupDone, Finished, OneOwed, Owed, CallOK, CallTypes, CountTypes
  <2> QED  BY <2>1, <2>2, <2>3, <2>4, <2>5, <2>6
<1>7. CASE FlushDone(c)
  <2>a. UNCHANGED <<fixed, what, native>> /\ overlapped' \in BOOLEAN
    BY <1>7 DEF Done, NoteOverlap, FlagTypes
  <2>1. FlagTypes'
    BY <1>7, <2>a DEF FlushDone, BaseDisconnect, FlagTypes
  <2>2. CallTypes'
    BY <1>7, <2>a DEF FlushDone, BaseDisconnect, CallTypes
  <2>3. AnswerTypes' /\ CountTypes'
    BY <1>7, <2>a DEF FlushDone, BaseDisconnect, AnswerTypes, CountTypes
  <2>4. CallOK(c)'
    BY <1>7, <2>a DEF FlushDone, BaseDisconnect, CallOK, Owed, CallTypes
  <2>5. \A d \in Calls \ {c} : CallOK(d)'
    BY <1>7, <2>a DEF FlushDone, BaseDisconnect, CallOK, Owed, CallTypes
  <2>6. OneOwed'
    BY <1>7, <2>a
       DEF FlushDone, BaseDisconnect, OneOwed, Owed, CallOK, CallTypes, CountTypes
  <2> QED  BY <2>1, <2>2, <2>3, <2>4, <2>5, <2>6
<1>8. CASE DisconnectDone(c)
  <2>a. UNCHANGED <<fixed, what, native>> /\ overlapped' \in BOOLEAN
    BY <1>8 DEF Done, NoteOverlap, FlagTypes
  <2>b. job[c] # "none" /\ answers[c] = <<>>
    BY <1>8, <2>a DEF DisconnectDone, Finished, CallOK, Owed
  <2>c. /\ AnswerTypes'
        /\ Len(answers'[c]) = 1 /\ answers'[c] # <<>>
        /\ \A d \in Calls : d # c => answers'[d] = answers[d]
    BY <1>8, <2>a, <2>b, OneAnswer DEF DisconnectDone, NextCb
  <2>1. FlagTypes'
    BY <1>8, <2>a, <2>b, <2>c DEF DisconnectDone, Finished, FlagTypes
  <2>2. CallTypes'
    BY <1>8, <2>a, <2>b, <2>c DEF DisconnectDone, Finished, CallTypes
  <2>3. AnswerTypes' /\ CountTypes'
    BY <1>8, <2>a, <2>b, <2>c DEF DisconnectDone, Finished, AnswerTypes, CountTypes
  <2>4. CallOK(c)'
    BY <1>8, <2>a, <2>b, <2>c DEF DisconnectDone, Finished, CallOK, Owed, CallTypes
  <2>5. \A d \in Calls \ {c} : CallOK(d)'
    BY <1>8, <2>a, <2>b, <2>c DEF DisconnectDone, Finished, CallOK, Owed, CallTypes
  <2>6. OneOwed'
    BY <1>8, <2>a, <2>b, <2>c
       DEF DisconnectDone, Finished, OneOwed, Owed, CallOK, CallTypes, CountTypes
  <2> QED  BY <2>1, <2>2, <2>3, <2>4, <2>5, <2>6
<1> QED  BY <1>1, <1>2, <1>3, <1>4, <1>5, <1>6, <1>7, <1>8 DEF Done

\* setImmediate(next), or the timer of fail(): the call is answered.
LEMMA TimerStep ==
  ASSUME CallsInv, NEW c \in Calls, Immediate(c) \/ TimerFires(c)
  PROVE  CallsInv'
<1> USE DEF CallsInv, Attempts, Disconnects, Queue, NoJob, fixed, flags, pending, native
<1>1. CASE Immediate(c)
  <2>a. answers[c] = <<>>
    BY <1>1 DEF Immediate, CallOK, Owed
  <2>b. /\ AnswerTypes'
        /\ Len(answers'[c]) = 1 /\ answers'[c] # <<>>
        /\ \A d \in Calls : d # c => answers'[d] = answers[d]
    BY <1>1, <2>a, OneAnswer DEF Immediate, NextCb
  <2>1. FlagTypes'
    BY <1>1, <2>a, <2>b DEF Immediate, NextCb, FlagTypes, NoteOverlap
  <2>2. CallTypes'
    BY <1>1, <2>a, <2>b DEF Immediate, NextCb, CallTypes
  <2>3. AnswerTypes' /\ CountTypes'
    BY <1>1, <2>a, <2>b DEF Immediate, NextCb, AnswerTypes, CountTypes
  <2>4. CallOK(c)'
    BY <1>1, <2>a, <2>b DEF Immediate, NextCb, CallOK, Owed, CallTypes
  <2>5. \A d \in Calls \ {c} : CallOK(d)'
    BY <1>1, <2>a, <2>b DEF Immediate, NextCb, CallOK, Owed, CallTypes
  <2>6. OneOwed'
    BY <1>1, <2>a, <2>b
       DEF Immediate, NextCb, OneOwed, Owed, CallOK, CallTypes, CountTypes
  <2> QED  BY <2>1, <2>2, <2>3, <2>4, <2>5, <2>6
<1>2. CASE TimerFires(c)
  <2>a. answers[c] = <<>>
    BY <1>2 DEF TimerFires, CallOK, Owed
  <2>b. /\ AnswerTypes'
        /\ Len(answers'[c]) = 1 /\ answers'[c] # <<>>
        /\ \A d \in Calls : d # c => answers'[d] = answers[d]
    BY <1>2, <2>a, OneAnswer DEF TimerFires, NextCb
  <2>1. FlagTypes'
    BY <1>2, <2>a, <2>b DEF TimerFires, NextCb, FlagTypes, NoteOverlap
  <2>2. CallTypes'
    BY <1>2, <2>a, <2>b DEF TimerFires, NextCb, CallTypes
  <2>3. AnswerTypes' /\ CountTypes'
    BY <1>2, <2>a, <2>b DEF TimerFires, NextCb, AnswerTypes, CountTypes
  <2>4. CallOK(c)'
    BY <1>2, <2>a, <2>b DEF TimerFires, NextCb, CallOK, Owed, CallTypes
  <2>5. \A d \in Calls \ {c} : CallOK(d)'
    BY <1>2, <2>a, <2>b DEF TimerFires, NextCb, CallOK, Owed, CallTypes
  <2>6. OneOwed'
    BY <1>2, <2>a, <2>b
       DEF TimerFires, NextCb, OneOwed, Owed, CallOK, CallTypes, CountTypes
  <2> QED  BY <2>1, <2>2, <2>3, <2>4, <2>5, <2>6
<1> QED  BY <1>1, <1>2 

\* CallsInv is inductive.
LEMMA CallsNext == CallsInv /\ [Next]_vars => CallsInv'
<1> SUFFICES ASSUME CallsInv, [Next]_vars PROVE CallsInv'
  OBVIOUS
<1>1. CASE UNCHANGED vars
  BY <1>1
     DEF vars, fixed, flags, pending, native, CallsInv, FlagTypes, CallTypes,
         AnswerTypes,
              CountTypes, CallOK, OneOwed, Owed
<1>2. CASE Next
  BY <1>2, ConnectStep, DisconnectStep, ExecStep, DoneStep, TimerStep DEF Next
<1> QED  BY <1>1, <1>2

\* Where the calls are, in every behaviour.
LEMMA CallsSafe == Spec => []CallsInv
BY CallsInit, CallsNext, PTL DEF Spec

\* ClientLifecycle!AnsweredOnce: however jobs, timers and events race, no
\* callback of connect() or disconnect() is called twice (client.js:159-190).
THEOREM CallbacksOnce == Spec => []AnsweredOnce
<1>1. CallsInv => AnsweredOnce
  BY DEF CallsInv, CallOK, FlagTypes, CallTypes, AnswerTypes, CountTypes, TypeOK,
         AnsweredOnce
<1> QED  BY <1>1, CallsSafe, PTL

\* ClientLifecycle!NoClientLeak: a patient caller's connection object owns the
\* client in m_client and no other, even after fail() gave up waiting
\* (producer.cc:171-180, 219-225).
THEOREM PatientOwnsOneClient == Spec => []NoClientLeak
<1>1. CallsInv => NoClientLeak
  BY DEF CallsInv, OneOwed, NoClientLeak
<1> QED  BY <1>1, CallsSafe, PTL

\* A set no two members of which differ has at most one.
LEMMA AtMostOne ==
  ASSUME NEW S, \A x, y \in S : x = y
  PROVE  Cardinality(S) <= 1
<1>1. CASE S = {}
  BY <1>1, FS_EmptySet
<1>2. CASE S # {}
  <2>1. PICK x \in S : TRUE
    BY <1>2
  <2>2. S = {x}
    BY <2>1
  <2> QED  BY <2>2, FS_Singleton
<1> QED  BY <1>1, <1>2

\* ClientLifecycle!SerialJobs: a patient caller's Connect and Disconnect jobs
\* come one at a time until fail() gives up waiting, which is what NativeHandle
\* assumes with Serial (client.js:150-190, 310-312).
THEOREM PatientJobsSerial == Spec => []SerialJobs
<1>1. CallsInv => SerialJobs
  <2> SUFFICES ASSUME CallsInv, style = "patient", ~gaveUp
               PROVE  Cardinality(InFlight({"connect"} \cup Disconnects)) <= 1
    BY DEF SerialJobs
  <2>1. \A c \in InFlight({"connect"} \cup Disconnects) : c \in Calls /\ Owed(c)
    BY DEF CallsInv, CallOK, InFlight, Disconnects
  <2>2. \A c, d \in InFlight({"connect"} \cup Disconnects) : c = d
    BY <2>1 DEF CallsInv, OneOwed
  <2> QED  BY <2>2, AtMostOne, Zenon
<1> QED  BY <1>1, CallsSafe, PTL

-----------------------------------------------------------------------------
(* What a patient caller is told.                                            *)

\* No other call of a patient caller can change the flag while one is owed: it
\* says what the answer on its way will say.
FlagInv ==
  \A c \in Calls :
    /\ job[c] \in {"flush", "disconnect"} => what[c] = "disconnect"
    /\ style = "patient" /\ c \in immediates => isConnected
    /\ style = "patient" /\ ~gaveUp /\ job[c] = "cleanup" => ~isConnected

\* Who is answered is told r.
LEMMA AnswerValue ==
  ASSUME NEW S \in SUBSET Calls, NEW r \in {"ok", "err"}, AnswerTypes,
         \A c \in S : answers[c] = <<>>, Answer(S, r),
         NEW c \in Calls, answers'[c] # answers[c]
  PROVE  c \in S /\ answers'[c] = <<r>>
<1>1. answers' = [d \in Calls |-> IF d \in S THEN Append(answers[d], r) ELSE answers[d]]
  BY DEF Answer
<1>2. c \in S
  BY <1>1
<1>3. Append(<<>>, r) = <<r>>
  OBVIOUS
<1> QED  BY <1>1, <1>2, <1>3

\* FlagInv is inductive relative to CallsInv.
LEMMA FlagNext == CallsInv /\ FlagInv /\ [Next]_vars => FlagInv'
<1> SUFFICES ASSUME CallsInv, FlagInv, [Next]_vars PROVE FlagInv'
  OBVIOUS
<1> USE DEF CallsInv, CallOK, CallTypes, FlagTypes, FlagInv, OneOwed, Owed, Attempts,
            Disconnects, Queue, NoJob, fixed, flags, pending, native
<1>1. CASE UNCHANGED vars
  BY <1>1 DEF vars
<1>2. ASSUME NEW c \in Calls, Connect(c) PROVE FlagInv'
  BY <1>2 DEF Connect, Called, ConnectAgain, ConnectWaits, ConnectStarts
<1>3. ASSUME NEW c \in Calls, Disconnect(c) PROVE FlagInv'
  BY <1>3 DEF Disconnect, Called, BaseDisconnect
<1>4. ASSUME NEW c \in Calls, Exec(c) PROVE FlagInv'
  BY <1>4 DEF Exec
<1>5. ASSUME NEW c \in Calls, Done(c) PROVE FlagInv'
  <2> UNCHANGED <<fixed, what, native>>
    BY <1>5 DEF Done
  <2>1. CASE ConnectOK(c)
    BY <2>1 DEF ConnectOK, Finished
  <2>2. CASE AttemptFails(c)
    BY <2>2 DEF AttemptFails, Finished, Fail
  <2>3. CASE MetadataOK(c)
    BY <2>3 DEF MetadataOK, Finished
  <2>4. CASE CleanupDone(c)
    BY <2>4 DEF CleanupDone, Finished
  <2>5. CASE FlushDone(c)
    BY <2>5 DEF FlushDone, BaseDisconnect
  <2>6. CASE DisconnectDone(c)
    BY <2>6 DEF DisconnectDone, Finished
  <2> QED  BY <1>5, <2>1, <2>2, <2>3, <2>4, <2>5, <2>6 DEF Done
<1>6. ASSUME NEW c \in Calls, Immediate(c) PROVE FlagInv'
  BY <1>6 DEF Immediate
<1>7. ASSUME NEW c \in Calls, TimerFires(c) PROVE FlagInv'
  BY <1>7 DEF TimerFires
<1> QED  BY <1>1, <1>2, <1>3, <1>4, <1>5, <1>6, <1>7 DEF Next

\* The answer that a step gives.
LEMMA TrueStep ==
  ASSUME CallsInv, FlagInv, Next, style = "patient", ~gaveUp',
         NEW c \in Calls, what[c] = "connect", answers'[c] # answers[c]
  PROVE  answers'[c] = <<"ok">> <=> isConnected'
<1> USE DEF CallsInv, CallOK, CallTypes, FlagTypes, FlagInv, OneOwed, Owed
<1>0. <<"ok">> # <<"err">>
  OBVIOUS
<1>1. ASSUME NEW d \in Calls, Connect(d) \/ Disconnect(d) \/ Exec(d) PROVE FALSE
  BY <1>1 DEF Connect, Disconnect, Exec
<1>2. ASSUME NEW d \in Calls, Done(d)
      PROVE  answers'[c] = <<"ok">> <=> isConnected'
  <2>1. CASE ConnectOK(d) \/ FlushDone(d)
    BY <2>1 DEF ConnectOK, FlushDone
  <2>2. CASE AttemptFails(d)
    <3>1. ~isConnected /\ Answer({d}, "err") /\ isConnected' = isConnected
      BY <2>2 DEF AttemptFails, Fail, NextCb
    <3>2. answers[d] = <<>>
      BY <2>2 DEF AttemptFails, Finished
    <3>3. answers'[c] = <<"err">>
      BY <3>1, <3>2, AnswerValue
    <3> QED  BY <1>0, <3>1, <3>3
  <2>3. CASE MetadataOK(d)
    <3>1. \A e \in waiters \cup {d} : answers[e] = <<>>
      BY <2>3 DEF MetadataOK, Finished
    <3>2. answers'[c] = <<"ok">>
      BY <2>3, <3>1, AnswerValue DEF MetadataOK
    <3> QED  BY <2>3, <3>2 DEF MetadataOK
  <2>4. CASE CleanupDone(d)
    <3>1. d \in timers /\ Answer({d}, "err") /\ isConnected' = isConnected
      BY <2>4 DEF CleanupDone, NextCb
    <3>2. job[d] = "cleanup" /\ answers[d] = <<>>
      BY <3>1
    <3>3. ~isConnected
      BY <2>4, <3>2 DEF CleanupDone
    <3>4. answers'[c] = <<"err">>
      BY <3>1, <3>2, AnswerValue
    <3> QED  BY <1>0, <3>1, <3>3, <3>4
  <2>5. CASE DisconnectDone(d)
    <3>1. Answer({d}, "ok") /\ answers[d] = <<>> /\ what[d] = "disconnect"
      BY <2>5 DEF DisconnectDone, Finished
    <3>2. c = d
      BY <3>1, AnswerValue
    <3> QED  BY <3>1, <3>2
  <2> QED  BY <1>2, <2>1, <2>2, <2>3, <2>4, <2>5 DEF Done
<1>3. ASSUME NEW d \in Calls, Immediate(d)
      PROVE  answers'[c] = <<"ok">> <=> isConnected'
  <2>1. isConnected' = isConnected /\ isConnected /\ answers[d] = <<>> /\ Answer({d}, "ok")
    BY <1>3 DEF Immediate, NextCb
  <2>2. answers'[c] = <<"ok">>
    BY <2>1, AnswerValue
  <2> QED  BY <2>1, <2>2
<1>4. ASSUME NEW d \in Calls, TimerFires(d) PROVE FALSE
  BY <1>4 DEF TimerFires
<1> QED  BY <1>1, <1>2, <1>3, <1>4 DEF Next

\* ClientLifecycle!AnswersAreTrue: connect()'s callback says "connected" exactly
\* if the client is, for a patient caller whose fail() did not give up
\* (client.js:138-143, 159-219).
THEOREM PatientToldTheTruth == Spec => AnswersAreTrue
<1>1. Init => FlagInv
  BY DEF Init, FlagInv
<1>2. CallsInv /\ FlagInv /\ [Next]_vars =>
        [\A c \in Calls :
           style = "patient" /\ ~gaveUp' /\ what[c] = "connect" /\ answers'[c] # answers[c]
             => (answers'[c] = <<"ok">> <=> isConnected')]_vars
  BY TrueStep
<1> QED  BY <1>1, <1>2, FlagNext, CallsSafe, PTL DEF Spec, AnswersAreTrue

-----------------------------------------------------------------------------
(* What isConnected stands for.                                              *)

\* No connection attempt is in flight together with a native Disconnect.
Apart == \A c, d \in Calls : job[c] \in Attempts => job[d] \notin Disconnects

\* While attempts and Disconnect jobs keep apart, a client that says it is
\* connected has a native client whose events are dispatched, or there is a job
\* whose callback will look at the flag again.
Grounded ==
  /\ Apart
  /\ \A c \in Calls : /\ job[c] = "metadata" => isConnected /\ active
                      /\ job[c] = "cleanup" => ~isConnected
  /\ isConnected =>
       \/ client /\ active
       \/ \E c \in Calls : \/ job[c] = "disconnect"
                           \/ job[c] = "connect" /\ stage[c] = "err"
                           \/ job[c] = "metadata" /\ stage[c] \in {"queued", "err"}

GroundedInv == ~overlapped => Grounded

\* Apart is Overlap's negation, job by job.
LEMMA ApartMeans == (Apart <=> ~Overlap) /\ (Apart' <=> ~Overlap')
BY DEF Apart, Overlap, InFlight

\* GroundedInv is inductive relative to the types of CallsInv.
LEMMA GroundedNext == CallsInv /\ GroundedInv /\ [Next]_vars => GroundedInv'
<1> SUFFICES ASSUME CallTypes, FlagTypes, GroundedInv, [Next]_vars, ~overlapped',
                    \A c \in Calls : what[c] = "none" => job[c] = "none"
             PROVE  Grounded'
  BY DEF CallsInv, CallOK, GroundedInv
<1> USE DEF Attempts, Disconnects, Queue, NoJob, fixed, flags, pending, native
<1>1. CASE UNCHANGED vars
  BY <1>1 DEF vars, GroundedInv, Grounded, Apart
<1>2. ASSUME NEW c \in Calls, Connect(c) PROVE Grounded'
  <2>1. Grounded /\ Apart'
    BY <1>2, ApartMeans DEF Connect, NoteOverlap, GroundedInv
  <2>2. CASE ConnectAgain(c) \/ ConnectWaits(c)
    BY <1>2, <2>1, <2>2 DEF Connect, ConnectAgain, ConnectWaits, Grounded
  <2>3. CASE ConnectStarts(c)
    BY <1>2, <2>1, <2>3 DEF Connect, ConnectStarts, Grounded, CallTypes
  <2> QED  BY <1>2, <2>2, <2>3 DEF Connect
<1>3. ASSUME NEW c \in Calls, Disconnect(c) PROVE Grounded'
  <2>1. Grounded /\ Apart' /\ what[c] = "none"
    BY <1>3, ApartMeans DEF Disconnect, Called, NoteOverlap, GroundedInv
  <2>2. UNCHANGED <<isConnected, client, active>>
    BY <1>3 DEF Disconnect
  <2>3. /\ \A d \in Calls \ {c} : job'[d] = job[d] /\ stage'[d] = stage[d]
        /\ job'[c] \in {"none", "flush", "disconnect"}
    BY <1>3 DEF Disconnect, BaseDisconnect, CallTypes
  <2>4. job[c] = "none"
    BY <2>1
  <2> QED  BY <2>1, <2>2, <2>3, <2>4 DEF Grounded
<1>4. ASSUME NEW c \in Calls, Exec(c) PROVE Grounded'
  <2>1. Grounded /\ UNCHANGED <<isConnected, job, active>> /\ Apart'
    BY <1>4 DEF Exec, GroundedInv, Grounded, Apart
  <2>2. CASE ExecConnect(c) \/ ExecFlush(c)
    BY <2>1, <2>2 DEF ExecConnect, ExecFlush, Executing, JobEnds, Grounded, CallTypes
  <2>3. CASE ExecCreate(c)
    BY <2>1, <2>3 DEF ExecCreate, JobEnds, Grounded, CallTypes
  <2>4. CASE ExecMetadata(c)
    BY <2>1, <2>4 DEF ExecMetadata, Executing, JobEnds, Grounded, CallTypes
  <2>5. CASE ExecDisconnect(c)
    BY <2>1, <2>5 DEF ExecDisconnect, Executing, JobEnds, Grounded, CallTypes
  <2> QED  BY <1>4, <2>2, <2>3, <2>4, <2>5 DEF Exec
<1>5. ASSUME NEW c \in Calls, Done(c) PROVE Grounded'
  <2>1. Grounded /\ Apart' /\ UNCHANGED client
    BY <1>5, ApartMeans DEF Done, NoteOverlap, GroundedInv
  <2>2. CASE ConnectOK(c)
    BY <2>1, <2>2 DEF ConnectOK, Finished, Grounded, Apart, CallTypes
  <2>3. CASE AttemptFails(c)
    BY <2>1, <2>3 DEF AttemptFails, Finished, Fail, Grounded, Apart, CallTypes
  <2>4. CASE MetadataOK(c)
    BY <2>1, <2>4 DEF MetadataOK, Finished, Grounded, Apart, CallTypes
  <2>5. CASE CleanupDone(c)
    BY <2>1, <2>5 DEF CleanupDone, Finished, Grounded, Apart, CallTypes
  <2>6. CASE FlushDone(c)
    BY <2>1, <2>6 DEF FlushDone, BaseDisconnect, Grounded, Apart, CallTypes
  <2>7. CASE DisconnectDone(c)
    BY <2>1, <2>7 DEF DisconnectDone, Finished, Grounded, Apart, CallTypes
  <2> QED  BY <1>5, <2>2, <2>3, <2>4, <2>5, <2>6, <2>7 DEF Done
<1>6. ASSUME NEW c \in Calls, Immediate(c) \/ TimerFires(c) PROVE Grounded'
  BY <1>6 DEF Immediate, TimerFires, GroundedInv, Grounded, Apart
<1> QED  BY <1>1, <1>2, <1>3, <1>4, <1>5, <1>6 DEF Next

\* A patient caller's attempt meets a Disconnect only after fail() gave up: the
\* two jobs' calls would both be owed.
LEMMA PatientNext ==
  CallsInv /\ CallsInv' /\ [Next]_vars /\ (style = "patient" /\ overlapped => gaveUp)
    => (style = "patient" /\ overlapped => gaveUp)'
<1> SUFFICES ASSUME CallsInv', [Next]_vars, style = "patient" /\ overlapped => gaveUp,
                    style' = "patient", overlapped', ~gaveUp'
             PROVE  FALSE
  OBVIOUS
<1>1. Apart'
  BY DEF CallsInv, CallOK, OneOwed, Apart, Attempts, Disconnects
<1>2. style = style' /\ (gaveUp => gaveUp') /\ (overlapped' => overlapped \/ Overlap')
  <2>1. CASE UNCHANGED vars
    BY <2>1 DEF vars, fixed
  <2>2. ASSUME NEW c \in Calls, Connect(c) \/ Disconnect(c)
        PROVE  style = style' /\ gaveUp' = gaveUp /\ NoteOverlap
    BY <2>2 DEF Connect, Disconnect, fixed
  <2>3. ASSUME NEW c \in Calls, Exec(c) \/ Immediate(c)
        PROVE  style = style' /\ gaveUp' = gaveUp /\ overlapped' = overlapped
    BY <2>3 DEF Exec, Immediate, fixed
  <2>4. ASSUME NEW c \in Calls, Done(c)
        PROVE  style = style' /\ gaveUp' = gaveUp /\ NoteOverlap
    BY <2>4
       DEF Done, ConnectOK, AttemptFails, MetadataOK, CleanupDone, FlushDone,
           DisconnectDone, fixed
  <2>5. ASSUME NEW c \in Calls, TimerFires(c) PROVE gaveUp'
    BY <2>5 DEF TimerFires
  <2> QED  BY <2>1, <2>2, <2>3, <2>4, <2>5 DEF Next, NoteOverlap
<1> QED  BY <1>1, <1>2, ApartMeans

\* ClientLifecycle!ConnectedMeansClient: at rest a connected client has a native
\* client and active dispatchers unless an attempt met a Disconnect, and a
\* patient caller gets there only through the timer (client.js:109-112, 194-219).
THEOREM ConnectedIsGrounded == Spec => []ConnectedMeansClient
<1>1. Init => GroundedInv /\ (style = "patient" /\ overlapped => gaveUp)
  BY DEF Init, GroundedInv, Grounded, Apart, Attempts
<1>2. GroundedInv /\ (style = "patient" /\ overlapped => gaveUp) => ConnectedMeansClient
  BY DEF GroundedInv, Grounded, ConnectedMeansClient, Quiet
<1> QED  BY <1>1, <1>2, CallsSafe, GroundedNext, PatientNext, PTL DEF Spec
=============================================================================
