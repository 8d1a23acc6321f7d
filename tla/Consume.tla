------------------------------- MODULE Consume -------------------------------
(***************************************************************************)
(* What a consumer reads, on its way to JavaScript, in both modes          *)
(* (src/src/workers.cc: KafkaConsumerConsumeLoop, KafkaConsumerConsumeNum; *)
(* MessageWorker in src/src/workers.h; lib/kafka-consumer.js: _consumeLoop,*)
(* _consumeNum).  In flowing mode a thread queues what it reads and wakes  *)
(* JavaScript through an async handle; consume(n) collects on the pool and *)
(* hands over an array.  Items are numbered in the order consume() returns *)
(* them.                                                                   *)
(***************************************************************************)
EXTENDS Integers, Sequences, SequencesExt

CONSTANTS MaxItems,   \* bound on what consume() returns, besides timeouts
          MaxSize,    \* bound on the n of consume(n)
          MaxLoops,   \* bound on the consume loops of one behaviour
          Styles      \* "outside": the user never disconnects inside a handler of
                      \* what the loop hands over; "inside": he may

ASSUME ConstantsAssumption ==
  /\ MaxItems \in Nat
  /\ MaxSize \in Nat \ {0}
  /\ MaxLoops \in Nat
  /\ Styles \subseteq {"outside", "inside"}

Kinds == {"message", "eof", "warning"}

VARIABLES
  mode,        \* "flowing" or "number": the two share only the native client
  style,
  kinds,       \* history: the kind of each item
  loops,       \* consume loops so far
  tpc,         \* the loop's thread: "none", "run", "ended"
  looping,     \* m_looping
  failed,      \* the worker carries an error
  data,        \* m_asyncdata
  warnings,    \* m_asyncwarning
  signal,      \* m_async has a send not served yet
  callback,    \* the worker's callback # NULL
  jpc,         \* JavaScript: "idle", "hand" (in WorkMessage), "join" (in disconnect)
  inHandler,   \* the disconnect it is in was called inside WorkMessage
  messageQueue, warningQueue,  \* WorkMessage's locals
  sent, handed,    \* history: items of this loop queued, and handed over
  npc,         \* consume(n): "none", "run", "done", "convert" (HandleOKCallback),
               \* "emit" (_consumeNum's callback)
  size,        \* its n
  eofCount,    \* eof_event_count
  nfailed,     \* the worker carries an error
  messages,    \* m_messages
  converted,   \* of those, how many HandleOKCallback has been through
  returnArray, eofEvents,  \* its arrays
  index,       \* the messageIndex that emitEofEventsFor is called with
  eofIndex,    \* currentEofEventsIndex
  fetched, emitted \* history: the last consume(n)'s items, and its events in order

queues == <<data, warnings, signal>>
working == <<jpc, inHandler, messageQueue, warningQueue, handed>>
flowing == <<loops, tpc, looping, failed, queues, callback, working, sent>>
arrays == <<converted, returnArray, eofEvents, index, eofIndex>>
num == <<npc, size, eofCount, nfailed, messages, arrays, fetched, emitted>>
vars == <<mode, style, kinds, flowing, num>>

Init ==
  /\ mode \in {"flowing", "number"}
  /\ style \in Styles
  /\ kinds = <<>>
  /\ loops = 0
  /\ tpc = "none" /\ looping = FALSE /\ failed = FALSE
  /\ data = <<>> /\ warnings = <<>> /\ signal = FALSE
  /\ callback = FALSE
  /\ jpc = "idle" /\ inHandler = FALSE
  /\ messageQueue = <<>> /\ warningQueue = <<>>
  /\ sent = <<>> /\ handed = <<>>
  /\ npc = "none" /\ size = 0 /\ eofCount = 0 /\ nfailed = FALSE
  /\ messages = <<>> /\ fetched = <<>> /\ emitted = <<>>
  /\ converted = 0 /\ returnArray = <<>> /\ eofEvents = <<>>
  /\ index = -1 /\ eofIndex = 0

\* KafkaConsumer::Consume returns item i of this kind.
Item(i, kind) ==
  /\ Len(kinds) < MaxItems
  /\ i = Len(kinds) + 1
  /\ kinds' = Append(kinds, kind)

-----------------------------------------------------------------------------
(* Flowing mode: the thread of the consume loop.                             *)

Start ==
  /\ mode = "flowing"
  /\ jpc = "idle"
  /\ tpc = "none"
  /\ loops < MaxLoops
  /\ loops' = loops + 1
  /\ tpc' = "run" /\ looping' = TRUE /\ failed' = FALSE
  /\ callback' = TRUE
  /\ data' = <<>> /\ warnings' = <<>> /\ signal' = FALSE
  /\ sent' = <<>> /\ handed' = <<>>
  /\ UNCHANGED <<mode, style, kinds, jpc, inHandler, messageQueue, warningQueue, num>>

\* Plausible bug: messages go to the head of the queue.
SendInFront ==
  /\ tpc = "run" /\ looping
  /\ \E i \in 1..MaxItems, kind \in {"message", "eof"} :
       /\ Item(i, kind)
       /\ data' = <<i>> \o data
       /\ sent' = Append(sent, i)
  /\ signal' = TRUE
  /\ UNCHANGED <<mode, style, loops, tpc, looping, failed, warnings, callback, working, num>>

\* bus.Send: queued and signalled under the worker's mutex.
Send ==
  /\ tpc = "run" /\ looping
  /\ \E i \in 1..MaxItems, kind \in {"message", "eof"} :
       /\ Item(i, kind)
       /\ data' = Append(data, i)
       /\ sent' = Append(sent, i)
  /\ signal' = TRUE
  /\ UNCHANGED <<mode, style, loops, tpc, looping, failed, warnings, callback, working, num>>

\* Plausible bug: a warning does not wake JavaScript up.
SendWarningSilently ==
  /\ tpc = "run" /\ looping
  /\ \E i \in 1..MaxItems :
       /\ Item(i, "warning")
       /\ warnings' = Append(warnings, i)
       /\ sent' = Append(sent, i)
  /\ UNCHANGED <<mode, style, loops, tpc, looping, failed, data, signal, callback, working,
                 num>>

\* ERR_UNKNOWN_TOPIC_OR_PART and ERR_TOPIC_AUTHORIZATION_FAILED.
SendWarning ==
  /\ tpc = "run" /\ looping
  /\ \E i \in 1..MaxItems :
       /\ Item(i, "warning")
       /\ warnings' = Append(warnings, i)
       /\ sent' = Append(sent, i)
  /\ signal' = TRUE
  /\ UNCHANGED <<mode, style, loops, tpc, looping, failed, data, callback, working, num>>

\* Any other error ends the loop; the worker keeps it for WorkComplete.
LoopFails ==
  /\ tpc = "run" /\ looping
  /\ looping' = FALSE
  /\ failed' = TRUE
  /\ UNCHANGED <<mode, style, kinds, loops, tpc, queues, callback, working, sent, num>>

LoopEnds ==
  /\ tpc = "run"
  /\ ~looping
  /\ tpc' = "ended"
  /\ UNCHANGED <<mode, style, kinds, loops, looping, failed, queues, callback, working, sent, num>>

-----------------------------------------------------------------------------
(* Flowing mode: MessageWorker on the JavaScript thread.                     *)

\* The handle is served; the queues are swapped out under the mutex.
WorkMessage ==
  /\ jpc = "idle"
  /\ signal
  /\ signal' = FALSE
  /\ IF callback
       THEN /\ jpc' = "hand"
            /\ messageQueue' = data /\ data' = <<>>
            /\ warningQueue' = warnings /\ warnings' = <<>>
       ELSE UNCHANGED <<jpc, data, warnings, messageQueue, warningQueue>>
  /\ UNCHANGED <<mode, style, kinds, loops, tpc, looping, failed, callback, inHandler, handed,
                 sent, num>>

\* HandleMessageCallback, and the user's handlers; the callback is not tested.
HandMessage ==
  /\ jpc = "hand"
  /\ callback
  /\ messageQueue # <<>>
  /\ handed' = Append(handed, Head(messageQueue))
  /\ messageQueue' = Tail(messageQueue)
  /\ UNCHANGED <<mode, style, kinds, loops, tpc, looping, failed, queues, callback, jpc, inHandler,
                 warningQueue, sent, num>>

HandWarning ==
  /\ jpc = "hand"
  /\ callback
  /\ messageQueue = <<>>
  /\ warningQueue # <<>>
  /\ handed' = Append(handed, Head(warningQueue))
  /\ warningQueue' = Tail(warningQueue)
  /\ UNCHANGED <<mode, style, kinds, loops, tpc, looping, failed, queues, callback, jpc, inHandler,
                 messageQueue, sent, num>>

WorkMessageReturns ==
  /\ jpc = "hand"
  /\ messageQueue = <<>> /\ warningQueue = <<>>
  /\ jpc' = "idle"
  /\ UNCHANGED <<mode, style, kinds, loops, tpc, looping, failed, queues, callback, inHandler,
                 messageQueue, warningQueue, handed, sent, num>>

\* NodeDisconnect with a consume loop: Close clears m_looping and joins.
Disconnect ==
  /\ jpc = "idle" \/ (jpc = "hand" /\ style = "inside" /\ handed # <<>>)
  /\ callback
  /\ looping' = FALSE
  /\ inHandler' = (jpc = "hand")
  /\ jpc' = "join"
  /\ UNCHANGED <<mode, style, kinds, loops, tpc, failed, queues, callback, messageQueue,
                 warningQueue, handed, sent, num>>

\* WorkComplete ends the callback (after telling an error), Destroy the handle:
\* a send not served is dropped, and what is queued is never handed over.
Joined ==
  /\ jpc = "join"
  /\ tpc = "ended"
  /\ tpc' = "none"
  /\ callback' = FALSE
  /\ signal' = FALSE
  /\ jpc' = IF inHandler THEN "hand" ELSE "idle"
  /\ inHandler' = FALSE
  /\ UNCHANGED <<mode, style, kinds, loops, looping, failed, data, warnings, messageQueue,
                 warningQueue, handed, sent, num>>

Flowing ==
  \/ Start \/ Send \/ SendWarning \/ LoopFails \/ LoopEnds
  \/ WorkMessage \/ HandMessage \/ HandWarning \/ WorkMessageReturns
  \/ Disconnect \/ Joined

-----------------------------------------------------------------------------
(* Non-flowing mode: consume(n).                                             *)

IsMessage(i) == kinds[i] = "message"
IsEof(i) == kinds[i] = "eof"

MessageCount == Len(messages) - eofCount

ConsumeNum ==
  /\ mode = "number"
  /\ npc = "none"
  /\ npc' = "run"
  /\ size' \in 1..MaxSize
  /\ eofCount' = 0 /\ nfailed' = FALSE
  /\ messages' = <<>>
  /\ UNCHANGED <<mode, style, kinds, flowing, arrays, fetched, emitted>>

\* A message or an eof event; the loop goes on until it has n messages.
Fetch ==
  /\ npc = "run"
  /\ MessageCount < size
  /\ \E i \in 1..MaxItems, kind \in {"message", "eof"} :
       /\ Item(i, kind)
       /\ messages' = Append(messages, i)
       /\ eofCount' = IF kind = "eof" THEN eofCount + 1 ELSE eofCount
  /\ UNCHANGED <<mode, style, flowing, npc, size, nfailed, arrays, fetched, emitted>>

\* An error, if there is a message to hand over, is dropped.
FetchFails ==
  /\ npc = "run"
  /\ MessageCount < size
  /\ nfailed' = (MessageCount = 0)
  /\ npc' = "done"
  /\ UNCHANGED <<mode, style, kinds, flowing, size, eofCount, messages, arrays, fetched, emitted>>

\* Enough messages, or a timeout.
FetchEnds ==
  /\ npc = "run"
  /\ npc' = "done"
  /\ UNCHANGED <<mode, style, kinds, flowing, size, eofCount, nfailed, messages, arrays,
                 fetched, emitted>>

\* HandleErrorCallback frees what was fetched.
ErrorCallback ==
  /\ npc = "done" /\ jpc = "idle"
  /\ nfailed
  /\ npc' = "none"
  /\ fetched' = messages /\ emitted' = <<>>
  /\ UNCHANGED <<mode, style, kinds, flowing, size, eofCount, nfailed, messages, arrays>>

OKCallback ==
  /\ npc = "done" /\ jpc = "idle"
  /\ ~nfailed
  /\ npc' = "convert"
  /\ converted' = 0 /\ returnArray' = <<>> /\ eofEvents' = <<>>
  /\ index' = -1 /\ eofIndex' = 0
  /\ fetched' = messages /\ emitted' = <<>>
  /\ UNCHANGED <<mode, style, kinds, flowing, size, eofCount, nfailed, messages>>

\* Plausible bug: the eof event is given the index of the next message.
ConvertEofLate ==
  /\ npc = "convert"
  /\ converted < Len(messages)
  /\ IsEof(messages[converted + 1])
  /\ eofEvents' = Append(eofEvents, [item |-> messages[converted + 1],
                                     messageIndex |-> Len(returnArray)])
  /\ converted' = converted + 1
  /\ UNCHANGED <<mode, style, kinds, flowing, npc, size, eofCount, nfailed, messages,
                 returnArray, index, eofIndex, fetched, emitted>>

\* An eof event is given the index (from 0) of the last message before it.
ConvertEof ==
  /\ npc = "convert"
  /\ converted < Len(messages)
  /\ IsEof(messages[converted + 1])
  /\ eofEvents' = Append(eofEvents, [item |-> messages[converted + 1],
                                     messageIndex |-> Len(returnArray) - 1])
  /\ converted' = converted + 1
  /\ UNCHANGED <<mode, style, kinds, flowing, npc, size, eofCount, nfailed, messages,
                 returnArray, index, eofIndex, fetched, emitted>>

ConvertMessage ==
  /\ npc = "convert"
  /\ converted < Len(messages)
  /\ IsMessage(messages[converted + 1])
  /\ returnArray' = Append(returnArray, messages[converted + 1])
  /\ converted' = converted + 1
  /\ UNCHANGED <<mode, style, kinds, flowing, npc, size, eofCount, nfailed, messages,
                 eofEvents, index, eofIndex, fetched, emitted>>

\* HandleOKCallback calls back; _consumeNum's callback starts to emit.
Converted ==
  /\ npc = "convert"
  /\ converted = Len(messages)
  /\ npc' = "emit"
  /\ UNCHANGED <<mode, style, kinds, flowing, size, eofCount, nfailed, messages, arrays,
                 fetched, emitted>>

\* emitEofEventsFor(index) goes on.
EofDue == eofIndex < Len(eofEvents) /\ eofEvents[eofIndex + 1].messageIndex = index

EmitEof ==
  /\ npc = "emit"
  /\ EofDue
  /\ emitted' = Append(emitted, eofEvents[eofIndex + 1].item)
  /\ eofIndex' = eofIndex + 1
  /\ UNCHANGED <<mode, style, kinds, flowing, npc, size, eofCount, nfailed, messages,
                 converted, returnArray, eofEvents, index, fetched>>

EmitMessage ==
  /\ npc = "emit"
  /\ ~EofDue
  /\ index + 1 < Len(returnArray)
  /\ emitted' = Append(emitted, returnArray[index + 2])
  /\ index' = index + 1
  /\ UNCHANGED <<mode, style, kinds, flowing, npc, size, eofCount, nfailed, messages,
                 converted, returnArray, eofEvents, eofIndex, fetched>>

\* After the last message, emitEofEventsFor(messages.length).
EmitLast ==
  /\ npc = "emit"
  /\ ~EofDue
  /\ index + 1 = Len(returnArray)
  /\ index' = index + 1
  /\ UNCHANGED <<mode, style, kinds, flowing, npc, size, eofCount, nfailed, messages,
                 converted, returnArray, eofEvents, eofIndex, fetched, emitted>>

Emitted ==
  /\ npc = "emit"
  /\ ~EofDue
  /\ index = Len(returnArray)
  /\ npc' = "none"
  /\ UNCHANGED <<mode, style, kinds, flowing, size, eofCount, nfailed, messages, arrays,
                 fetched, emitted>>

Num ==
  \/ ConsumeNum \/ Fetch \/ FetchFails \/ FetchEnds \/ ErrorCallback \/ OKCallback
  \/ ConvertEof \/ ConvertMessage \/ Converted
  \/ EmitEof \/ EmitMessage \/ EmitLast \/ Emitted

-----------------------------------------------------------------------------
Next == Flowing \/ Num

\* Threads run, the event loop serves the handle; disconnect() returns.
Fairness ==
  /\ WF_vars(LoopEnds) /\ WF_vars(Joined)
  /\ WF_vars(WorkMessage \/ HandMessage \/ HandWarning \/ WorkMessageReturns)

Spec == Init /\ [][Next]_vars /\ Fairness

-----------------------------------------------------------------------------
Items == 1..MaxItems

TypeOK ==
  /\ mode \in {"flowing", "number"}
  /\ style \in Styles
  /\ kinds \in Seq(Kinds) /\ Len(kinds) <= MaxItems
  /\ loops \in 0..MaxLoops
  /\ tpc \in {"none", "run", "ended"}
  /\ npc \in {"none", "run", "done", "convert", "emit"}
  /\ jpc \in {"idle", "hand", "join"}
  /\ {looping, failed, signal, callback, inHandler, nfailed} \subseteq BOOLEAN
  /\ {data, warnings, messageQueue, warningQueue, sent, handed} \subseteq Seq(Items)
  /\ {messages, returnArray, fetched, emitted} \subseteq Seq(Items)
  /\ eofEvents \in Seq([item : Items, messageIndex : Int])
  /\ size \in 0..MaxSize /\ eofCount \in Nat
  /\ converted \in Nat /\ index \in Int /\ eofIndex \in Nat

Warnings == {i \in DOMAIN kinds : kinds[i] = "warning"}
Others == DOMAIN kinds \ Warnings

\* The members of K that s holds stand in the order consume() returned them.
Ordered(s, K) ==
  \A j, k \in DOMAIN s : j < k /\ s[j] \in K /\ s[k] \in K => s[j] < s[k]

\* What the loop sent has been handed over, is held by WorkMessage or is queued;
\* messages (with eof events) and warnings go their own ways, each in order.
KeptInOrder ==
  /\ ToSet(sent) = ToSet(handed) \cup ToSet(messageQueue \o data)
                   \cup ToSet(warningQueue \o warnings)
  /\ ToSet(messageQueue \o data) \subseteq Others
  /\ ToSet(warningQueue \o warnings) \subseteq Warnings
  /\ Ordered((handed \o messageQueue) \o data, Others)
  /\ Ordered((handed \o warningQueue) \o warnings, Warnings)

\* A message overtakes a warning only if one WorkMessage found both queued.
OvertakesInBatch ==
  \A m \in ToSet(handed) \cap Others, w \in (ToSet(sent) \ ToSet(handed)) \cap Warnings :
    w < m => w \in ToSet(warningQueue)

\* The callback, which HandleMessageCallback calls without a test, is there
\* while WorkMessage has items, for a user who does not disconnect inside a
\* handler.
HandedWithCallback ==
  jpc = "hand" /\ messageQueue \o warningQueue # <<>> /\ style = "outside" => callback

\* Items are handed over once, in order but for warnings, and while the loop's
\* callback exists, what is queued has a wake-up on its way (workers.h:87-113,
\* 132-157; workers.cc:732-771; kafka-consumer.cc:1390-1400).
HandedInOrder ==
  /\ TypeOK
  /\ HandedWithCallback
  /\ KeptInOrder
  /\ OvertakesInBatch
  /\ callback /\ data \o warnings # <<>> => signal

\* What the loop has read reaches JavaScript unless the user disconnects first.
SentIsHanded ==
  \A i \in Items : (i \in ToSet(sent) /\ callback) ~> (i \in ToSet(handed) \/ ~callback \/ jpc = "join")

\* consume(n) emits what it fetched, messages and eof events, in the order they
\* were fetched, all of it when it ends, and hands over at most n messages; with
\* an error it has no message to lose (workers.cc:808-927;
\* lib/kafka-consumer.js:505-542).
EmittedAsFetched ==
  /\ npc = "emit" => Len(returnArray) <= size
  /\ Len(emitted) <= Len(fetched) /\ \A k \in 1..Len(emitted) : emitted[k] = fetched[k]
  /\ npc \notin {"convert", "emit"} /\ emitted # fetched =>
       emitted = <<>> /\ \A k \in DOMAIN fetched : IsEof(fetched[k])
=============================================================================
