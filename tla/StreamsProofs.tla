---------------------------- MODULE StreamsProofs ----------------------------
(* Proofs about Streams, for any number of chunks, messages and calls.       *)
(* OrderInv and ReadInv are inductive and give the order of what is pushed,  *)
(* and what is pushed after EOF; WaitInv and ChunkInv, with them, the order  *)
(* of what is produced; FlagInv and GivenOK the types.                       *)
EXTENDS Streams, SequenceFacts, TLAPS

-----------------------------------------------------------------------------
(* Reading.                                                                  *)

\* Each message fetched is pushed or held, in order.
OrderInv ==
  /\ fetched \in 0..MaxItems
  /\ pushed \in Seq(Nat) /\ messages \in Seq(Nat)
  /\ pushed \o messages = UpTo(fetched)

Names == {"close", "write", "read", "callback"}

\* A name is at most once, or not, among these listeners.
Once(s, name) == \A i, j \in DOMAIN s : s[i] = name /\ s[j] = name => i = j
Absent(s, name) == \A i \in DOMAIN s : s[i] # name

\* A read is under way in one place: with 'ready', a fetch, or a retry; and a
\* push after EOF has ended the one that was under way then.
ReadInv ==
  /\ kind \in Kinds
  /\ eof \in BOOLEAN /\ late \in Nat
  /\ rpc \in {"idle", "wait", "fetch", "retry", "halt"}
  /\ onReady \in Seq(Names)
  /\ todo \in Seq(Names)
  /\ Once(onReady, "read") /\ Once(todo, "read")
  /\ Absent(onReady, "read") \/ Absent(todo, "read")
  /\ rpc # "wait" => Absent(onReady, "read") /\ Absent(todo, "read")
  /\ ~eof => late = 0
  /\ eof /\ rpc \notin {"idle", "halt"} => late = 0
  /\ late <= 1

\* The next n items continue the sequence.
LEMMA NextItems ==
  ASSUME NEW s \in Seq(Nat), NEW t \in Seq(Nat), NEW f \in Nat, NEW n \in Nat,
         s \o t = UpTo(f)
  PROVE  s \o (t \o [i \in 1..n |-> f + i]) = UpTo(f + n)
<1> DEFINE new == [i \in 1..n |-> f + i]
<1>1. new \in Seq(Nat) /\ Len(new) = n /\ \A i \in 1..n : new[i] = f + i
  OBVIOUS
<1>2. UpTo(f) \in Seq(Nat) /\ Len(UpTo(f)) = f /\ \A i \in 1..f : UpTo(f)[i] = i
  BY DEF UpTo
<1>3. UpTo(f + n) \in Seq(Nat) /\ Len(UpTo(f + n)) = f + n
      /\ \A i \in 1..(f + n) : UpTo(f + n)[i] = i
  BY DEF UpTo
<1> HIDE DEF new
<1> DEFINE old == UpTo(f)
<1> HIDE DEF old
<1>4. s \o (t \o new) = old \o new
  <2>1. (s \o t) \o new = s \o (t \o new)
    BY <1>1, Regroup
  <2> QED  BY <2>1 DEF old
<1>5. old \in Seq(Nat) /\ Len(old) = f /\ \A i \in 1..f : old[i] = i
  BY <1>2 DEF old
<1>6. Len(old \o new) = f + n /\ \A i \in 1..(f + n) : (old \o new)[i] = i
  <2>1. /\ old \o new \in Seq(Nat)
        /\ Len(old \o new) = Len(old) + Len(new)
        /\ \A i \in 1..Len(old) + Len(new) :
             (old \o new)[i] = IF i <= Len(old) THEN old[i] ELSE new[i - Len(old)]
    BY <1>1, <1>5, ConcatProperties, Zenon
  <2>2. ASSUME NEW i \in 1..(f + n) PROVE (old \o new)[i] = i
    <3>1. CASE i <= f
      BY <1>5, <1>1, <2>1, <3>1
    <3>2. CASE ~(i <= f)
      <4>1. i - f \in 1..n /\ f + (i - f) = i
        BY <3>2
      <4>2. new[i - f] = f + (i - f)
        BY <4>1, <1>1
      <4>3. (old \o new)[i] = new[i - f]
        BY <1>5, <1>1, <2>1, <3>2
      <4> QED  BY <4>1, <4>2, <4>3
    <3> QED  BY <3>1, <3>2
  <2> QED  BY <1>1, <1>5, <2>1, <2>2
<1>7. old \o new = UpTo(f + n)
  <2>1. old \o new \in Seq(Nat)
    BY <1>1, <1>5, ConcatProperties, Zenon
  <2>2. Len(old \o new) = Len(UpTo(f + n))
    BY <1>3, <1>6
  <2>3. \A i \in 1..Len(old \o new) : (old \o new)[i] = UpTo(f + n)[i]
    BY <1>3, <1>6
  <2> QED  BY <1>3, <2>1, <2>2, <2>3, SeqEqual, Zenon
<1> QED  BY <1>4, <1>7 DEF new

\* _read_message keeps the order.
LEMMA DoReadOrder ==
  ASSUME OrderInv, DoRead, fetched' = fetched
  PROVE  OrderInv'
<1>1. CASE messages # <<>>
  <2>1. pushed' = Append(pushed, Head(messages)) /\ messages' = Tail(messages)
    BY <1>1 DEF DoRead, Push
  <2> QED  BY <1>1, <2>1, MoveHead DEF OrderInv
<1>2. CASE messages = <<>>
  <2>1. UNCHANGED <<pushed, messages>>
    BY <1>2 DEF DoRead
  <2> QED  BY <2>1 DEF OrderInv
<1> QED  BY <1>1, <1>2

\* The callback of consume() keeps the order.
LEMMA FetchedOrder ==
  ASSUME OrderInv, NEW n \in 0..FetchSize, Fetched(n)
  PROVE  OrderInv'
<1> DEFINE new == [i \in 1..n |-> fetched + i]
           all == messages \o new
<1>1. n \in Nat /\ fetched \in Nat /\ fetched' = fetched + n /\ fetched' \in 0..MaxItems
  BY ConstantsAssumption DEF OrderInv, Fetched
<1>2. new \in Seq(Nat) /\ Len(new) = n
  BY <1>1
<1>3. all \in Seq(Nat) /\ pushed \o all = UpTo(fetched')
  <2>1. pushed \o all = UpTo(fetched + n)
    BY <1>1, NextItems DEF OrderInv
  <2>2. all \in Seq(Nat)
    BY <1>2 DEF OrderInv
  <2> QED  BY <1>1, <2>1, <2>2
<1>4. CASE n = 0
  <2>1. UNCHANGED <<messages, pushed>> /\ fetched' = fetched
    BY <1>1, <1>4 DEF Fetched, OrderInv
  <2> QED  BY <2>1 DEF OrderInv
<1>5. CASE n # 0
  <2>1. pushed' = Append(pushed, Head(all)) /\ messages' = Tail(all)
    BY <1>5 DEF Fetched, Push
  <2>2. all # <<>>
    <3>1. Len(all) = Len(messages) + n /\ Len(messages) \in Nat
      BY <1>2 DEF OrderInv
    <3> QED  BY <1>1, <1>5, <3>1
  <2> HIDE DEF all
  <2> QED  BY <1>1, <1>3, <2>1, <2>2, MoveHead DEF OrderInv
<1> QED  BY <1>4, <1>5

\* OrderInv is inductive.
LEMMA OrderNext == OrderInv /\ [Next]_vars => OrderInv'
<1> SUFFICES ASSUME OrderInv, [Next]_vars PROVE OrderInv'
  OBVIOUS
<1> USE DEF reading
<1>1. CASE NodeReads \/ RetryRead \/ ListenerReads
  <2>1. DoRead /\ fetched' = fetched
    BY <1>1 DEF NodeReads, RetryRead, ListenerReads
  <2> QED  BY <2>1, DoReadOrder
<1>2. ASSUME NEW n \in 0..FetchSize, Fetched(n) PROVE OrderInv'
  BY <1>2, FetchedOrder
<1>3. CASE UNCHANGED <<fetched, pushed, messages>>
  BY <1>3 DEF OrderInv
<1>4. UserCloses \/ UserDestroys \/ UserWrites \/ UserEnds \/ UserUnsubscribes \/ CloseDue \/
        Link \/ Writing \/ End \/ ListenerCloses \/ ListenerWrites \/
        (\E throws \in BOOLEAN : ConnectCallback(throws)) \/ UNCHANGED vars =>
          UNCHANGED <<fetched, pushed, messages>>
  BY DEF UserCloses, UserDestroys, UserWrites, UserEnds, UserUnsubscribes, CloseDue, Link,
         Connect, NativeConnects, MetadataFails, Ready, ConnectFails, Flushed, Disconnected,
         Writing, GiveChunks, RetryWrite, WriteAnswers, Finish, End, ListenerCloses,
         ListenerWrites, ConnectCallback, vars
<1> QED  BY <1>1, <1>2, <1>3, <1>4 DEF Next, Reading, Listeners

\* Adding a listener, and running the first.
LEMMA ListenerFacts ==
  ASSUME NEW s \in Seq(Names), NEW name \in Names
  PROVE  /\ \A e \in Names : Append(s, e) \in Seq(Names)
         /\ \A e \in Names \ {name} : Once(s, name) => Once(Append(s, e), name)
         /\ \A e \in Names \ {name} : Absent(s, name) => Absent(Append(s, e), name)
         /\ Absent(s, name) => Once(s, name) /\ Once(Append(s, name), name)
         /\ s # <<>> => /\ Tail(s) \in Seq(Names)
                        /\ Absent(s, name) => Absent(Tail(s), name) /\ Head(s) # name
                        /\ Once(s, name) => Once(Tail(s), name)
                        /\ Once(s, name) /\ Head(s) = name => Absent(Tail(s), name)
<1> USE DEF Once, Absent
<1>1. \A e \in Names : /\ Append(s, e) \in Seq(Names)
                       /\ DOMAIN Append(s, e) = 1..(Len(s) + 1)
                       /\ Append(s, e)[Len(s) + 1] = e
                       /\ \A i \in 1..Len(s) : Append(s, e)[i] = s[i]
  OBVIOUS
<1>2. DOMAIN s = 1..Len(s) /\ Len(s) \in Nat
  OBVIOUS
<1>3. \A i \in 1..(Len(s) + 1) : i \in 1..Len(s) \/ i = Len(s) + 1
  BY <1>2
<1>4. \A e \in Names \ {name} : Once(s, name) => Once(Append(s, e), name)
  <2> SUFFICES ASSUME NEW e \in Names \ {name}, Once(s, name),
                      NEW i \in 1..(Len(s) + 1), NEW j \in 1..(Len(s) + 1),
                      Append(s, e)[i] = name, Append(s, e)[j] = name
               PROVE  i = j
    BY <1>1
  <2>1. i \in 1..Len(s) /\ j \in 1..Len(s)
    BY <1>1, <1>3
  <2> QED  BY <1>1, <1>2, <2>1
<1>5. \A e \in Names \ {name} : Absent(s, name) => Absent(Append(s, e), name)
  BY <1>1, <1>2, <1>3, Zenon
<1>6. Absent(s, name) => Once(s, name) /\ Once(Append(s, name), name)
  BY <1>1, <1>2, <1>3, Zenon DEF Names
<1>7. ASSUME s # <<>>
      PROVE  /\ Tail(s) \in Seq(Names)
             /\ Absent(s, name) => Absent(Tail(s), name) /\ Head(s) # name
             /\ Once(s, name) => Once(Tail(s), name)
             /\ Once(s, name) /\ Head(s) = name => Absent(Tail(s), name)
  <2>1. /\ Tail(s) \in Seq(Names) /\ Head(s) = s[1] /\ 1 \in DOMAIN s
        /\ \A i \in DOMAIN Tail(s) :
             i \in Nat \ {0} /\ i + 1 \in DOMAIN s /\ Tail(s)[i] = s[i + 1]
    BY <1>7
  <2>2. Absent(s, name) => Absent(Tail(s), name) /\ Head(s) # name
    BY <2>1
  <2>3. Once(s, name) => Once(Tail(s), name)
    BY <2>1
  <2>4. Once(s, name) /\ Head(s) = name => Absent(Tail(s), name)
    BY <2>1
  <2> QED  BY <2>1, <2>2, <2>3, <2>4
<1> QED  BY <1>1, <1>4, <1>5, <1>6, <1>7

\* A step that neither reads nor runs 'ready'.
OtherStep ==
  /\ UNCHANGED <<kind, rpc, late>>
  /\ onReady' \in {onReady, Append(onReady, "close"), Append(onReady, "write")}
  /\ todo' = todo \/ (todo # <<>> /\ todo' = Tail(todo))
  /\ eof' \in {eof, TRUE}

\* close() is such a step, and so are the steps of the writer.
LEMMA CloseListens ==
  ASSUME kind \in Kinds, Close \/ NoClose
  PROVE  /\ onReady' \in {onReady, Append(onReady, "close")}
         /\ eof' \in {eof, TRUE}
<1>1. CASE Close
  <2>1. WriterCloses \/ ReaderCloses \/ WaitsForReady \/ NothingToClose
    BY <1>1, ConstantsAssumption DEF Close, Write, Read, Connected, Connecting
  <2> QED  BY <2>1 DEF WriterCloses, ReaderCloses, WaitsForReady, NothingToClose, PushNull
<1>2. CASE NoClose
  BY <1>2 DEF NoClose
<1> QED  BY <1>1, <1>2

LEMMA AttemptListens ==
  ASSUME kind \in Kinds, NEW chunks, NEW again, NEW vec, Attempt(chunks, again, vec)
  PROVE  /\ onReady' \in {onReady, Append(onReady, "close"), Append(onReady, "write")}
         /\ eof' \in {eof, TRUE}
BY CloseListens DEF Attempt, ProduceChunks, NoClose

LEMMA OtherReads ==
  ASSUME ReadInv, OtherStep
  PROVE  ReadInv'
<1>1. /\ onReady' \in Seq(Names) /\ Once(onReady, "read")'
      /\ Absent(onReady, "read") => Absent(onReady, "read")'
  BY ListenerFacts DEF ReadInv, OtherStep, Names, Once, Absent
<1>2. /\ todo' \in Seq(Names) /\ Once(todo, "read")'
      /\ Absent(todo, "read") => Absent(todo, "read")'
  <2>1. todo \in Seq(Names) /\ Once(todo, "read")
    BY DEF ReadInv
  <2>2. CASE todo' = todo
    BY <2>1, <2>2 DEF Once, Absent
  <2>3. CASE todo # <<>> /\ todo' = Tail(todo)
    <3>1. /\ Tail(todo) \in Seq(Names) /\ Once(Tail(todo), "read")
          /\ Absent(todo, "read") => Absent(Tail(todo), "read")
      BY <2>1, <2>3, ListenerFacts DEF Names
    <3> QED  BY <2>3, <3>1 DEF Once, Absent
  <2> QED  BY <2>2, <2>3 DEF OtherStep
<1>3. eof' \in BOOLEAN /\ (~eof' => ~eof)
  <2>1. eof' = eof \/ eof' = TRUE
    BY DEF OtherStep
  <2>2. eof \in BOOLEAN
    BY DEF ReadInv
  <2>3. CASE eof' = eof
    BY <2>2, <2>3
  <2>4. CASE eof' = TRUE
    BY <2>4
  <2> QED  BY <2>1, <2>3, <2>4
<1>4. UNCHANGED <<kind, rpc, late>>
  BY DEF OtherStep
<1> QED  BY <1>1, <1>2, <1>3, <1>4 DEF ReadInv

\* A step of _read_message by a read that is under way in no other place.
LEMMA DoReadReads ==
  ASSUME ReadInv, DoRead, late = 0, Absent(onReady, "read"), todo' \in Seq(Names),
         Absent(todo, "read")', UNCHANGED <<kind, eof>>
  PROVE  ReadInv'
<1>1. CASE messages # <<>>
  <2>1. rpc' = "idle" /\ onReady' = onReady
    BY <1>1 DEF DoRead, Push
  <2>2. late' \in {0, 1} /\ (~eof => late' = 0)
    BY <1>1 DEF DoRead, Push
  <2> QED  BY <2>1, <2>2 DEF ReadInv, Once, Absent
<1>2. CASE messages = <<>> /\ ~Connected
  <2>1. rpc' = "wait" /\ onReady' = Append(onReady, "read") /\ late' = late
    BY <1>2 DEF DoRead
  <2>2. onReady' \in Seq(Names) /\ Once(onReady, "read")'
    BY <2>1, ListenerFacts DEF ReadInv, Names, Once
  <2> QED  BY <2>1, <2>2 DEF ReadInv, Once, Absent
<1>3. CASE messages = <<>> /\ Connected
  <2>1. rpc' \in {"halt", "fetch"} /\ UNCHANGED <<onReady, late>>
    BY <1>3 DEF DoRead
  <2> QED  BY <2>1 DEF ReadInv, Once, Absent
<1> QED  BY <1>1, <1>2, <1>3

\* The three calls of it.
LEMMA ReadsReads ==
  ASSUME ReadInv, NodeReads \/ RetryRead \/ ListenerReads
  PROVE  ReadInv'
<1>1. DoRead /\ UNCHANGED <<kind, eof>>
  BY DEF NodeReads, RetryRead, ListenerReads
<1>2. CASE NodeReads \/ RetryRead
  <2>1. /\ rpc \in {"idle", "retry"} /\ todo' = todo
        /\ rpc = "idle" => ~eof
    BY <1>2 DEF NodeReads, RetryRead
  <2>2. late = 0 /\ Absent(onReady, "read") /\ Absent(todo, "read")
    BY <2>1 DEF ReadInv
  <2>3. todo' \in Seq(Names) /\ Absent(todo, "read")'
    BY <2>1, <2>2 DEF ReadInv, Absent
  <2> QED  BY <1>1, <2>2, <2>3, DoReadReads
<1>3. CASE ListenerReads
  <2>1. todo # <<>> /\ Head(todo) = "read" /\ todo' = Tail(todo)
    BY <1>3 DEF ListenerReads, Turn
  <2>2. ~Absent(todo, "read") /\ Absent(Tail(todo), "read") /\ Tail(todo) \in Seq(Names)
    BY <2>1, ListenerFacts DEF ReadInv
  <2>3. late = 0 /\ Absent(onReady, "read")
    BY <2>2 DEF ReadInv
  <2>4. todo' \in Seq(Names) /\ Absent(todo, "read")'
    BY <2>1, <2>2 DEF Absent
  <2> QED  BY <1>1, <2>3, <2>4, DoReadReads
<1> QED  BY <1>2, <1>3

\* The callback of consume().
LEMMA FetchedReads ==
  ASSUME ReadInv, NEW n \in 0..FetchSize, Fetched(n)
  PROVE  ReadInv'
<1>1. /\ rpc = "fetch" /\ UNCHANGED <<kind, eof, onReady, todo>>
      /\ \/ rpc' = "retry" /\ late' = late
         \/ rpc' = "idle" /\ late' = IF eof THEN late + 1 ELSE late
  BY DEF Fetched, Push, waiting
<1>2. late = 0
  BY <1>1 DEF ReadInv
<1>3. late' \in {0, 1} /\ (~eof => late' = 0) /\ (rpc' = "retry" => late' = 0)
  BY <1>1, <1>2
<1> QED  BY <1>1, <1>3 DEF ReadInv, Once, Absent

\* 'ready': the listeners become those to run.
LEMMA ReadyReads ==
  ASSUME ReadInv, Ready
  PROVE  ReadInv'
<1>1. /\ todo' \in {onReady, Append(onReady, "callback")} /\ onReady' = <<>>
      /\ UNCHANGED <<kind, rpc, eof, late>>
  BY DEF Ready, closing, reading
<1>2. /\ todo' \in Seq(Names) /\ Once(todo, "read")'
      /\ Absent(onReady, "read") => Absent(todo, "read")'
  BY <1>1, ListenerFacts DEF ReadInv, Names, Once, Absent
<1>3. onReady' \in Seq(Names) /\ Once(onReady, "read")' /\ Absent(onReady, "read")'
  BY <1>1 DEF Once, Absent
<1> QED  BY <1>1, <1>2, <1>3 DEF ReadInv

\* The other steps do not read.
LEMMA OthersRead ==
  ASSUME ReadInv,
         \/ UserCloses \/ UserDestroys \/ UserWrites \/ UserEnds \/ UserUnsubscribes
         \/ CloseDue \/ NativeConnects \/ MetadataFails \/ ConnectFails \/ Flushed
         \/ Disconnected \/ Writing \/ End
         \/ ListenerCloses \/ ListenerWrites
         \/ (\E throws \in BOOLEAN : ConnectCallback(throws)) \/ UNCHANGED vars
  PROVE  OtherStep
<1> USE DEF OtherStep, closing, writing, reading, waiting, client
<1>0. kind \in Kinds
  BY DEF ReadInv
<1>1. CASE UserCloses \/ UserDestroys
  BY <1>0, <1>1, CloseListens DEF UserCloses, UserDestroys, Destroy
<1>2. CASE UserWrites \/ UserEnds \/ UserUnsubscribes \/ CloseDue
  BY <1>2 DEF UserWrites, UserEnds, UserUnsubscribes, CloseDue, PushNull
<1>3. CASE NativeConnects \/ MetadataFails \/ ConnectFails \/ Flushed \/ Disconnected
  BY <1>3 DEF NativeConnects, MetadataFails, ConnectFails, Flushed, Disconnected
<1>4. CASE GiveChunks \/ RetryWrite
  BY <1>0, <1>4, AttemptListens DEF GiveChunks, RetryWrite
<1>5. CASE WriteAnswers \/ Finish \/ End
  BY <1>0, <1>5, CloseListens DEF WriteAnswers, Finish, End, Destroy
<1>6. CASE ListenerCloses
  BY <1>0, <1>6, CloseListens DEF ListenerCloses, Turn
<1>7. CASE ListenerWrites
  BY <1>0, <1>7, AttemptListens DEF ListenerWrites, Turn
<1>8. ASSUME NEW throws \in BOOLEAN, ConnectCallback(throws) PROVE OtherStep
  BY <1>0, <1>8, CloseListens DEF ConnectCallback, Destroy, Turn
<1>9. CASE UNCHANGED vars
  BY <1>9 DEF vars
<1> QED  BY <1>1, <1>2, <1>3, <1>4, <1>5, <1>6, <1>7, <1>8, <1>9 DEF Writing

\* ReadInv is inductive.
LEMMA ReadNext == ReadInv /\ [Next]_vars => ReadInv'
<1> SUFFICES ASSUME ReadInv, [Next]_vars PROVE ReadInv'
  OBVIOUS
<1>1. CASE NodeReads \/ RetryRead \/ ListenerReads
  BY <1>1, ReadsReads
<1>2. ASSUME NEW n \in 0..FetchSize, Fetched(n) PROVE ReadInv'
  BY <1>2, FetchedReads
<1>3. CASE Ready
  BY <1>3, ReadyReads
<1> QED  BY <1>1, <1>2, <1>3, OthersRead, OtherReads
         DEF Next, Link, Connect, Reading, Listeners

LEMMA ReadInit == Init => OrderInv /\ ReadInv
<1> SUFFICES ASSUME Init PROVE OrderInv /\ ReadInv
  OBVIOUS
<1>1. UpTo(0) = <<>> /\ <<>> \o <<>> = <<>>
  BY DEF UpTo
<1>2. OrderInv
  BY <1>1, ConstantsAssumption DEF Init, OrderInv
<1>3. todo \in {<<>>, <<"callback">>} /\ onReady = <<>>
  BY DEF Init
<1>4. /\ todo \in Seq(Names) /\ Once(todo, "read") /\ Absent(todo, "read")
      /\ onReady \in Seq(Names) /\ Once(onReady, "read") /\ Absent(onReady, "read")
  <2>1. CASE todo = <<>>
    BY <1>3, <2>1 DEF Once, Absent
  <2>2. CASE todo = <<"callback">>
    <3>1. todo \in Seq(Names)
      BY <2>2 DEF Names
    <3>2. DOMAIN todo = {1} /\ todo[1] = "callback"
      BY <2>2
    <3> QED  BY <1>3, <3>1, <3>2 DEF Once, Absent
  <2> QED  BY <1>3, <2>1, <2>2
<1>5. kind \in Kinds /\ eof \in BOOLEAN /\ late = 0 /\ rpc = "idle"
  BY DEF Init
<1>6. ReadInv
  BY <1>4, <1>5 DEF ReadInv
<1> QED  BY <1>2, <1>6

\* Streams!PushedInOrder: messages are pushed once, in the order fetched, and
\* after EOF only by the one fetch or retry under way then
\* (kafka-consumer-stream.js:108-112, 147-228).
THEOREM PushesSafe == Spec => []PushedInOrder
<1>1. OrderInv /\ ReadInv => PushedInOrder
  BY DEF OrderInv, ReadInv, PushedInOrder
<1> QED  BY <1>1, ReadInit, OrderNext, ReadNext, PTL DEF Spec

-----------------------------------------------------------------------------
(* Writing.                                                                  *)

\* A write waits for 'ready' in one place.
WaitInv ==
  /\ wpc \in {"idle", "wait", "stuck", "retry", "ok", "error"}
  /\ Once(onReady, "write") /\ Once(todo, "write")
  /\ Absent(onReady, "write") \/ Absent(todo, "write")
  /\ wpc # "wait" => Absent(onReady, "write") /\ Absent(todo, "write")

\* What _write and _writev do: wait, get stuck, or produce some of the chunks.
LEMMA AttemptCases ==
  ASSUME kind \in Kinds, NEW chunks \in Seq(Nat), NEW again, NEW vec,
         Attempt(chunks, again, vec)
  PROVE  \/ /\ wpc' = "wait" /\ onReady' = Append(onReady, "write")
            /\ rest' = chunks /\ produced' = produced
         \/ /\ wpc' = "stuck" /\ onReady' = onReady
            /\ rest' = chunks /\ produced' = produced
         \/ \E k \in 0..Len(chunks) :
              /\ wpc' \in {"ok", "retry", "error"}
              /\ wpc' = "ok" => k = Len(chunks)
              /\ onReady' \in {onReady, Append(onReady, "close")}
              /\ produced' = produced \o SubSeq(chunks, 1, k)
              /\ rest' = SubSeq(chunks, k + 1, Len(chunks))
<1>1. ASSUME NEW k \in 0..Len(chunks), NEW full \in BOOLEAN, ProduceChunks(chunks, k, full)
      PROVE  /\ wpc' \in {"ok", "retry", "error"}
             /\ wpc' = "ok" => k = Len(chunks)
             /\ onReady' \in {onReady, Append(onReady, "close")}
             /\ produced' = produced \o SubSeq(chunks, 1, k)
             /\ rest' = SubSeq(chunks, k + 1, Len(chunks))
  BY <1>1, CloseListens DEF ProduceChunks
<1>2. 0 \in 0..Len(chunks)
  OBVIOUS
<1>3. CASE Connected
  BY <1>1, <1>3 DEF Attempt
<1>4. CASE ~Connected /\ vec /\ again
  BY <1>1, <1>2, <1>4 DEF Attempt
<1>5. CASE ~Connected /\ vec /\ ~again
  BY <1>5 DEF Attempt, NoClose
<1>6. CASE ~Connected /\ ~vec
  BY <1>6 DEF Attempt
<1> QED  BY <1>3, <1>4, <1>5, <1>6

LEMMA AttemptWaits ==
  ASSUME ReadInv, Absent(onReady, "write"), Absent(todo, "write")',
         NEW chunks \in Seq(Nat), NEW again, NEW vec, Attempt(chunks, again, vec)
  PROVE  WaitInv'
<1>1. Once(todo, "write")'
  BY DEF Once, Absent
<1>2. CASE wpc' = "wait" /\ onReady' = Append(onReady, "write")
  <2>1. Once(Append(onReady, "write"), "write")
    BY ListenerFacts DEF ReadInv, Names
  <2> QED  BY <1>1, <1>2, <2>1 DEF WaitInv, Once
<1>3. CASE wpc' \in {"stuck", "ok", "retry", "error"}
           /\ onReady' \in {onReady, Append(onReady, "close")}
  <2>1. /\ Absent(Append(onReady, "close"), "write")
        /\ Once(Append(onReady, "close"), "write") /\ Once(onReady, "write")
    BY ListenerFacts DEF ReadInv, Names
  <2>2. Absent(onReady, "write")' /\ Once(onReady, "write")'
    BY <1>3, <2>1 DEF Absent, Once
  <2> QED  BY <1>1, <1>3, <2>2 DEF WaitInv
<1> QED  BY <1>2, <1>3, AttemptCases DEF ReadInv

\* A step that does not attempt to write.
NoAttempt ==
  /\ wpc' = wpc \/ {wpc, wpc'} \subseteq {"idle", "stuck", "retry", "ok", "error"}
  /\ onReady' \in {onReady, Append(onReady, "close"), Append(onReady, "read")}
  /\ todo' = todo \/ (todo # <<>> /\ todo' = Tail(todo))

LEMMA OthersWait ==
  ASSUME ReadInv, WaitInv, NoAttempt
  PROVE  WaitInv'
<1>1. /\ Once(onReady, "write")'
      /\ Absent(onReady, "write") => Absent(onReady, "write")'
  <2>1. onReady \in Seq(Names) /\ Once(onReady, "write")
    BY DEF ReadInv, WaitInv
  <2>2. /\ Once(Append(onReady, "close"), "write") /\ Once(Append(onReady, "read"), "write")
        /\ Absent(onReady, "write") => /\ Absent(Append(onReady, "close"), "write")
                                       /\ Absent(Append(onReady, "read"), "write")
    BY <2>1, ListenerFacts DEF Names
  <2>3. onReady' \in {onReady, Append(onReady, "close"), Append(onReady, "read")}
    BY DEF NoAttempt
  <2> QED  BY <2>1, <2>2, <2>3 DEF Once, Absent
<1>2. /\ Once(todo, "write")'
      /\ Absent(todo, "write") => Absent(todo, "write")'
  <2>1. todo \in Seq(Names) /\ Once(todo, "write")
    BY DEF ReadInv, WaitInv
  <2>2. CASE todo' = todo
    BY <2>1, <2>2 DEF Once, Absent
  <2>3. CASE todo # <<>> /\ todo' = Tail(todo)
    <3>1. /\ Once(Tail(todo), "write")
          /\ Absent(todo, "write") => Absent(Tail(todo), "write")
      BY <2>1, <2>3, ListenerFacts DEF Names
    <3> QED  BY <2>3, <3>1 DEF Once, Absent
  <2> QED  BY <2>2, <2>3 DEF NoAttempt
<1>3. /\ wpc' \in {"idle", "wait", "stuck", "retry", "ok", "error"}
      /\ wpc' # "wait" => wpc # "wait"
  BY DEF WaitInv, NoAttempt
<1> QED  BY <1>1, <1>2, <1>3 DEF WaitInv

LEMMA ReadyWaits ==
  ASSUME ReadInv, WaitInv, Ready
  PROVE  WaitInv'
<1>1. /\ todo' \in {onReady, Append(onReady, "callback")} /\ onReady' = <<>>
      /\ wpc' = wpc
  BY DEF Ready, closing, writing
<1>2. Once(todo, "write")' /\ (Absent(onReady, "write") => Absent(todo, "write")')
  BY <1>1, ListenerFacts DEF ReadInv, WaitInv, Names, Once, Absent
<1>3. Once(onReady, "write")' /\ Absent(onReady, "write")'
  BY <1>1 DEF Once, Absent
<1> QED  BY <1>1, <1>2, <1>3 DEF WaitInv

\* Which steps these are.
LEMMA AttemptsNot ==
  ASSUME ReadInv,
         \/ UserCloses \/ UserDestroys \/ UserWrites \/ UserEnds \/ UserUnsubscribes
         \/ CloseDue \/ NativeConnects \/ MetadataFails \/ ConnectFails \/ Flushed
         \/ Disconnected \/ WriteAnswers \/ Finish \/ Reading
         \/ ListenerCloses \/ ListenerReads
         \/ (\E throws \in BOOLEAN : ConnectCallback(throws)) \/ UNCHANGED vars
  PROVE  NoAttempt
<1> USE DEF NoAttempt, closing, writing, reading, waiting, client
<1>0. kind \in Kinds
  BY DEF ReadInv
<1>1. CASE UserCloses \/ UserDestroys
  BY <1>0, <1>1, CloseListens DEF UserCloses, UserDestroys, Destroy
<1>2. CASE UserWrites \/ UserEnds \/ UserUnsubscribes \/ CloseDue
  BY <1>2 DEF UserWrites, UserEnds, UserUnsubscribes, CloseDue
<1>3. CASE NativeConnects \/ MetadataFails \/ ConnectFails \/ Flushed \/ Disconnected
  BY <1>3 DEF NativeConnects, MetadataFails, ConnectFails, Flushed, Disconnected
<1>4. CASE WriteAnswers
  BY <1>4 DEF WriteAnswers
<1>5. CASE Finish \/ End
  BY <1>0, <1>5, CloseListens DEF Finish, End, Destroy
<1>6. CASE NodeReads \/ RetryRead \/ ListenerReads
  <2>1. onReady' \in {onReady, Append(onReady, "read")}
    BY <1>6 DEF NodeReads, RetryRead, ListenerReads, DoRead, Push
  <2> QED  BY <1>6, <2>1 DEF NodeReads, RetryRead, ListenerReads, Turn
<1>7. ASSUME NEW n \in 0..FetchSize, Fetched(n) PROVE NoAttempt
  BY <1>7 DEF Fetched
<1>8. CASE ListenerCloses
  BY <1>0, <1>8, CloseListens DEF ListenerCloses, Turn
<1>9. ASSUME NEW throws \in BOOLEAN, ConnectCallback(throws) PROVE NoAttempt
  BY <1>0, <1>9, CloseListens DEF ConnectCallback, Destroy, Turn
<1>10. CASE UNCHANGED vars
  BY <1>10 DEF vars
<1> QED  BY <1>1, <1>2, <1>3, <1>4, <1>5, <1>6, <1>7, <1>8, <1>9, <1>10 DEF Reading

\* Each chunk written is produced, in hand or buffered, in order; of a call that
\* has not failed nothing is left in hand; what is answered is produced.
ChunkInv ==
  /\ produced \in Seq(Nat) /\ rest \in Seq(Nat)
  /\ buffered \in Seq(Nat) /\ given \in Seq(Nat)
  /\ Len(produced) + Len(rest) + Len(buffered) <= MaxItems
  /\ (produced \o rest) \o buffered = UpTo(Len(produced) + Len(rest) + Len(buffered))
  /\ wpc = "ok" \/ (wpc = "idle" /\ ~failed) => rest = <<>>
  /\ wpc # "idle" => ~failed
  /\ wpc # "idle" => ToSet(given) \subseteq ToSet(produced) \cup ToSet(rest)
  /\ answered \subseteq ToSet(produced)

\* An attempt loses nothing of its chunks and does not reorder them.
LEMMA AttemptChunks ==
  ASSUME kind \in Kinds, produced \in Seq(Nat), NEW chunks \in Seq(Nat), NEW again, NEW vec,
         Attempt(chunks, again, vec)
  PROVE  /\ produced' \in Seq(Nat) /\ rest' \in Seq(Nat)
         /\ produced' \o rest' = produced \o chunks
         /\ Len(produced') + Len(rest') = Len(produced) + Len(chunks)
         /\ ToSet(produced) \subseteq ToSet(produced')
         /\ ToSet(chunks) \subseteq ToSet(produced') \cup ToSet(rest')
         /\ wpc' # "idle" /\ (wpc' = "ok" => rest' = <<>>)
<1>1. CASE wpc' \in {"wait", "stuck"} /\ rest' = chunks /\ produced' = produced
  BY <1>1
<1>2. ASSUME NEW k \in 0..Len(chunks), wpc' \in {"ok", "retry", "error"},
             wpc' = "ok" => k = Len(chunks),
             produced' = produced \o SubSeq(chunks, 1, k),
             rest' = SubSeq(chunks, k + 1, Len(chunks))
      PROVE  /\ produced' \in Seq(Nat) /\ rest' \in Seq(Nat)
             /\ produced' \o rest' = produced \o chunks
             /\ Len(produced') + Len(rest') = Len(produced) + Len(chunks)
             /\ ToSet(produced) \subseteq ToSet(produced')
             /\ ToSet(chunks) \subseteq ToSet(produced') \cup ToSet(rest')
             /\ wpc' # "idle" /\ (wpc' = "ok" => rest' = <<>>)
  BY <1>2, SplitFacts
<1> QED  BY <1>1, <1>2, AttemptCases

\* The steps that attempt to write.
LEMMA AttemptsInOrder ==
  ASSUME ReadInv, WaitInv, ChunkInv, GiveChunks \/ RetryWrite \/ ListenerWrites
  PROVE  WaitInv' /\ ChunkInv'
<1>0. kind \in Kinds /\ produced \in Seq(Nat) /\ rest \in Seq(Nat) /\ buffered \in Seq(Nat)
  BY DEF ReadInv, ChunkInv
<1>1. CASE GiveChunks
  <2>1. /\ wpc = "idle" /\ ~failed /\ given' = buffered /\ buffered' = <<>>
        /\ Attempt(buffered, FALSE, batch') /\ UNCHANGED <<todo, failed, answered>>
    BY <1>1 DEF GiveChunks
  <2>2. rest = <<>> /\ Absent(onReady, "write") /\ Absent(todo, "write")
    BY <2>1 DEF ChunkInv, WaitInv
  <2>3. WaitInv'
    BY <1>0, <2>1, <2>2, AttemptWaits DEF Absent
  <2>4. /\ produced' \in Seq(Nat) /\ rest' \in Seq(Nat)
        /\ produced' \o rest' = produced \o buffered
        /\ Len(produced') + Len(rest') = Len(produced) + Len(buffered)
        /\ ToSet(produced) \subseteq ToSet(produced')
        /\ ToSet(buffered) \subseteq ToSet(produced') \cup ToSet(rest')
        /\ wpc' # "idle" /\ (wpc' = "ok" => rest' = <<>>)
    BY <1>0, <2>1, AttemptChunks
  <2>5. (produced' \o rest') \o <<>> = (produced \o <<>>) \o buffered
    BY <1>0, <2>4
  <2>6. Len(rest) = 0 /\ Len(buffered') = 0 /\ Len(buffered) \in Nat /\ Len(produced) \in Nat
        /\ Len(produced') \in Nat /\ Len(rest') \in Nat
    BY <1>0, <2>1, <2>2, <2>4
  <2>7. Len(produced') + Len(rest') + Len(buffered') =
          Len(produced) + Len(rest) + Len(buffered)
    BY <2>4, <2>6
  <2>8. (produced' \o rest') \o buffered' =
           UpTo(Len(produced') + Len(rest') + Len(buffered'))
    BY <2>1, <2>2, <2>5, <2>7 DEF ChunkInv
  <2>9. ChunkInv'
    BY <1>0, <2>1, <2>4, <2>7, <2>8 DEF ChunkInv
  <2> QED  BY <2>3, <2>9
<1>2. CASE RetryWrite \/ ListenerWrites
  <2>1. PICK vec : Attempt(rest, TRUE, vec)
    BY <1>2 DEF RetryWrite, ListenerWrites
  <2>2. UNCHANGED <<buffered, given, failed, answered>>
    BY <1>2 DEF RetryWrite, ListenerWrites
  <2>3. wpc # "idle" /\ Absent(onReady, "write") /\ Absent(todo, "write")'
    <3>1. CASE RetryWrite
      <4>1. wpc = "retry" /\ todo' = todo
        BY <3>1 DEF RetryWrite
      <4> QED  BY <4>1 DEF WaitInv, Absent
    <3>2. CASE ListenerWrites
      <4>1. todo # <<>> /\ Head(todo) = "write" /\ todo' = Tail(todo)
        BY <3>2 DEF ListenerWrites, Turn
      <4>2. ~Absent(todo, "write") /\ Absent(Tail(todo), "write")
        BY <4>1, ListenerFacts DEF ReadInv, WaitInv, Names
      <4> QED  BY <4>1, <4>2 DEF WaitInv, Absent
    <3> QED  BY <1>2, <3>1, <3>2
  <2>4. WaitInv'
    BY <1>0, <2>1, <2>3, AttemptWaits
  <2>5. /\ produced' \in Seq(Nat) /\ rest' \in Seq(Nat)
        /\ produced' \o rest' = produced \o rest
        /\ Len(produced') + Len(rest') = Len(produced) + Len(rest)
        /\ ToSet(produced) \subseteq ToSet(produced')
        /\ ToSet(rest) \subseteq ToSet(produced') \cup ToSet(rest')
        /\ wpc' # "idle" /\ (wpc' = "ok" => rest' = <<>>)
    BY <1>0, <2>1, AttemptChunks
  <2>6. Len(produced') + Len(rest') + Len(buffered') =
          Len(produced) + Len(rest) + Len(buffered)
    BY <2>2, <2>5
  <2>7. (produced' \o rest') \o buffered' =
           UpTo(Len(produced') + Len(rest') + Len(buffered'))
    BY <2>2, <2>5, <2>6 DEF ChunkInv
  <2>8. ChunkInv'
    BY <2>2, <2>3, <2>5, <2>6, <2>7 DEF ChunkInv
  <2> QED  BY <2>4, <2>8
<1> QED  BY <1>1, <1>2

\* The next item alone.
LEMMA NextItem ==
  ASSUME NEW s \in Seq(Nat), NEW t \in Seq(Nat), NEW f \in Nat, s \o t = UpTo(f)
  PROVE  Append(t, f + 1) \in Seq(Nat) /\ s \o Append(t, f + 1) = UpTo(f + 1)
<1> DEFINE new == [i \in 1..1 |-> f + i]
<1>1. new \in Seq(Nat) /\ Len(new) = 1 /\ new[1] = f + 1
  OBVIOUS
<1>2. s \o (t \o new) = UpTo(f + 1)
  BY NextItems
<1> HIDE DEF new
<1> DEFINE one == Append(t, f + 1)
           two == t \o new
<1>3. /\ one \in Seq(Nat) /\ Len(one) = Len(t) + 1
      /\ \A i \in 1..(Len(t) + 1) : one[i] = IF i <= Len(t) THEN t[i] ELSE f + 1
  OBVIOUS
<1>4. /\ two \in Seq(Nat) /\ Len(two) = Len(t) + 1
      /\ \A i \in 1..(Len(t) + 1) : two[i] = IF i <= Len(t) THEN t[i] ELSE new[i - Len(t)]
  <2>1. /\ two \in Seq(Nat) /\ Len(two) = Len(t) + Len(new)
        /\ \A i \in 1..(Len(t) + Len(new)) :
             two[i] = IF i <= Len(t) THEN t[i] ELSE new[i - Len(t)]
    BY <1>1, ConcatFacts
  <2> QED  BY <1>1, <2>1
<1> HIDE DEF one, two
<1>5. ASSUME NEW i \in 1..(Len(t) + 1) PROVE one[i] = two[i]
  <2>1. CASE i <= Len(t)
    BY <1>3, <1>4, <2>1
  <2>2. CASE ~(i <= Len(t))
    <3>1. i - Len(t) = 1
      BY <2>2
    <3>2. one[i] = f + 1 /\ two[i] = new[i - Len(t)]
      BY <1>3, <1>4, <2>2
    <3> QED  BY <1>1, <3>1, <3>2
  <2> QED  BY <2>1, <2>2
<1>6. one = two
  <2>1. Len(one) = Len(two) /\ \A i \in 1..Len(one) : one[i] = two[i]
    BY <1>3, <1>4, <1>5
  <2> QED  BY <1>3, <1>4, <2>1, SameSeq
<1>7. s \o one = UpTo(f + 1)
  BY <1>2, <1>6 DEF two
<1> QED  BY <1>3, <1>7 DEF one

\* WaitInv and ChunkInv are inductive relative to ReadInv.
LEMMA UserWritesInOrder ==
  ASSUME ChunkInv, UserWrites
  PROVE  ChunkInv'
<1> DEFINE n == Len(produced) + Len(rest) + Len(buffered)
<1>1. /\ n \in Nat /\ n + 1 \in 1..MaxItems /\ buffered' = Append(buffered, n + 1)
      /\ UNCHANGED <<given, rest, wpc, failed, produced, answered>>
  BY DEF UserWrites, ChunkInv
<1>2. /\ produced \o rest \in Seq(Nat) /\ buffered \in Seq(Nat)
      /\ (produced \o rest) \o buffered = UpTo(n)
  BY DEF ChunkInv
<1>3. Len(produced') + Len(rest') + Len(buffered') = n + 1
  BY <1>1 DEF ChunkInv
<1> HIDE DEF n
<1>4. buffered' \in Seq(Nat) /\ (produced \o rest) \o buffered' = UpTo(n + 1)
  BY <1>1, <1>2, NextItem
<1>5. /\ Len(produced') + Len(rest') + Len(buffered') <= MaxItems
      /\ (produced' \o rest') \o buffered' =
           UpTo(Len(produced') + Len(rest') + Len(buffered'))
  BY <1>1, <1>3, <1>4, ConstantsAssumption
<1> QED  BY <1>1, <1>4, <1>5 DEF ChunkInv

LEMMA AnswersInOrder ==
  ASSUME ChunkInv, WriteAnswers
  PROVE  ChunkInv'
<1>1. /\ wpc \in {"ok", "error"} /\ wpc' = "idle"
      /\ answered' = IF wpc = "ok" THEN answered \cup ToSet(given) ELSE answered
      /\ UNCHANGED <<buffered, given, rest, produced>>
      /\ failed' = (wpc = "error")
  BY DEF WriteAnswers
<1>2. wpc = "ok" => rest = <<>> /\ ToSet(given) \subseteq ToSet(produced)
  <2>1. ToSet(<<>>) = {}
    BY DEF ToSet
  <2> QED  BY <1>1, <2>1 DEF ChunkInv
<1>3. answered' \subseteq ToSet(produced)
  BY <1>1, <1>2 DEF ChunkInv
<1>4. ~failed' => rest = <<>>
  BY <1>1, <1>2
<1> QED  BY <1>1, <1>3, <1>4 DEF ChunkInv

LEMMA WriteNext == ReadInv /\ WaitInv /\ ChunkInv /\ [Next]_vars => WaitInv' /\ ChunkInv'
<1> SUFFICES ASSUME ReadInv, WaitInv, ChunkInv, [Next]_vars PROVE WaitInv' /\ ChunkInv'
  OBVIOUS
<1>1. CASE GiveChunks \/ RetryWrite \/ ListenerWrites
  BY <1>1, AttemptsInOrder
<1>2. CASE UserWrites
  BY <1>2, UserWritesInOrder, AttemptsNot, OthersWait
<1>3. CASE WriteAnswers
  BY <1>3, AnswersInOrder, AttemptsNot, OthersWait
<1>4. ASSUME UNCHANGED <<buffered, given, rest, wpc, failed, produced, answered>>
      PROVE  ChunkInv'
  BY <1>4 DEF ChunkInv
<1>5. \/ UserCloses \/ UserDestroys \/ UserEnds \/ UserUnsubscribes
      \/ CloseDue \/ Link \/ Finish \/ Reading
      \/ ListenerCloses \/ ListenerReads
      \/ (\E throws \in BOOLEAN : ConnectCallback(throws)) \/ UNCHANGED vars
      => UNCHANGED <<buffered, given, rest, wpc, failed, produced, answered>>
  BY DEF UserCloses, UserDestroys, UserEnds, UserUnsubscribes, CloseDue, Link, Connect,
         NativeConnects, MetadataFails, Ready, ConnectFails, Flushed, Disconnected,
         Finish, Reading, NodeReads, RetryRead, Fetched, End, ListenerCloses,
         ListenerReads, ConnectCallback, vars, writing
<1> QED  BY <1>1, <1>2, <1>3, <1>4, <1>5, ReadyWaits, AttemptsNot, OthersWait
         DEF Next, Link, Connect, Writing, Listeners

\* What TypeOK says that the other invariants do not; a client is not
\* disconnected before its native connection is up.
FlagInv ==
  /\ conn \in {"connecting", "metadata", "failing", "gone", "up", "down"}
  /\ disconnecting \in BOOLEAN /\ flushes \in Nat
  /\ conn = "connecting" => ~disconnecting /\ flushes = 0
  /\ closes \in 0..MaxCloses /\ asked \in BOOLEAN
  /\ due \in BOOLEAN /\ emitted \in BOOLEAN
  /\ batch \in BOOLEAN /\ ended \in BOOLEAN /\ finished \in BOOLEAN /\ failed \in BOOLEAN
  /\ destroyed \in BOOLEAN /\ subscribed \in BOOLEAN /\ endEmitted \in BOOLEAN

\* What close() writes.
CloseFlags ==
  /\ disconnecting \in BOOLEAN /\ flushes \in Nat
  /\ asked \in BOOLEAN /\ due \in BOOLEAN /\ emitted \in BOOLEAN

\* Before that close() waits.
Early == conn = "connecting" => disconnecting' = disconnecting /\ flushes' = flushes

\* The types of what close(), or an attempt to write, leaves.
LEMMA CloseTypes ==
  ASSUME kind \in Kinds, FlagInv, Close \/ NoClose
  PROVE  CloseFlags' /\ Early
<1>1. CASE Close
  <2>1. asked' = TRUE /\ (WriterCloses \/ ReaderCloses \/ WaitsForReady \/ NothingToClose)
    BY <1>1, ConstantsAssumption DEF Close, Write, Read, Connected, Connecting
  <2>6. conn = "connecting" => WaitsForReady
    BY <1>1 DEF Close, Connected, Connecting
  <2>7. Early
    BY <2>6 DEF Early, WaitsForReady
  <2>2. ASSUME WriterCloses PROVE CloseFlags'
    BY <2>1, <2>2 DEF FlagInv, CloseFlags, WriterCloses
  <2>3. ASSUME ReaderCloses PROVE CloseFlags'
    BY <2>1, <2>3 DEF FlagInv, CloseFlags, ReaderCloses
  <2>4. ASSUME WaitsForReady PROVE CloseFlags'
    BY <2>1, <2>4 DEF FlagInv, CloseFlags, WaitsForReady
  <2>5. ASSUME NothingToClose PROVE CloseFlags'
    <3>1. /\ disconnecting' = disconnecting /\ flushes' = flushes
          /\ due' \in {due, TRUE} /\ emitted' \in {emitted, TRUE}
      BY <2>5 DEF NothingToClose
    <3> QED  BY <2>1, <3>1 DEF FlagInv, CloseFlags
  <2> QED  BY <2>1, <2>2, <2>3, <2>4, <2>5, <2>7
<1>2. CASE NoClose
  BY <1>2 DEF FlagInv, CloseFlags, NoClose, Early
<1> QED  BY <1>1, <1>2

LEMMA AttemptTypes ==
  ASSUME kind \in Kinds, FlagInv, NEW chunks \in Seq(Nat), NEW again, NEW vec,
         Attempt(chunks, again, vec)
  PROVE  CloseFlags' /\ Early
<1>1. ASSUME NEW k, NEW full, ProduceChunks(chunks, k, full) PROVE Close \/ NoClose
  BY <1>1 DEF ProduceChunks
<1>2. CASE Close \/ NoClose
  BY <1>2, CloseTypes
<1>3. CASE UNCHANGED <<disconnecting, flushes, due, emitted, asked>>
  BY <1>3 DEF FlagInv, CloseFlags, Early
<1> QED  BY <1>1, <1>2, <1>3 DEF Attempt

\* The flags keep their types.
LEMMA FlagNext ==
  ASSUME ReadInv, ChunkInv, FlagInv, [Next]_vars
  PROVE  FlagInv'
<1>0. kind \in Kinds /\ rest \in Seq(Nat) /\ buffered \in Seq(Nat)
  BY DEF ReadInv, ChunkInv
<1> USE DEF closing, writing, reading, waiting, client
<1>1. CASE UserCloses \/ UserDestroys \/ Finish \/ End \/ ListenerCloses
  <2>1. CloseFlags' /\ Early
    BY <1>0, <1>1, CloseTypes
       DEF UserCloses, UserDestroys, Finish, End, ListenerCloses, Destroy
  <2>2. /\ UNCHANGED <<conn, batch, ended, failed, subscribed>>
        /\ closes' = closes \/ (closes < MaxCloses /\ closes' = closes + 1)
        /\ finished' \in {finished, TRUE} /\ destroyed' \in {destroyed, TRUE}
        /\ endEmitted' \in {endEmitted, TRUE}
    BY <1>1 DEF UserCloses, UserDestroys, Finish, End, ListenerCloses, Destroy
  <2>3. closes' \in 0..MaxCloses
    BY <2>2, ConstantsAssumption DEF FlagInv
  <2> QED  BY <2>1, <2>2, <2>3 DEF FlagInv, CloseFlags, Early
<1>2. CASE GiveChunks \/ RetryWrite \/ ListenerWrites
  <2>1. CloseFlags' /\ Early
    BY <1>0, <1>2, AttemptTypes DEF GiveChunks, RetryWrite, ListenerWrites
  <2>2. /\ UNCHANGED <<conn, closes, ended, finished, failed, destroyed, subscribed,
                       endEmitted>>
    BY <1>2 DEF GiveChunks, RetryWrite, ListenerWrites
  <2>3. batch' \in BOOLEAN
    <3>1. batch \in BOOLEAN /\ (Len(buffered) > 1) \in BOOLEAN
      BY <1>0 DEF FlagInv
    <3>2. batch' = batch \/ batch' = (Len(buffered) > 1)
      BY <1>2, Zenon DEF GiveChunks, RetryWrite, ListenerWrites
    <3> QED  BY <3>1, <3>2, Zenon
  <2> QED  BY <2>1, <2>2, <2>3 DEF FlagInv, CloseFlags, Early
<1>3. ASSUME NEW throws \in BOOLEAN, ConnectCallback(throws) PROVE FlagInv'
  <2>1. CASE throws
    <3>1. CloseFlags' /\ Early /\ destroyed' = TRUE
      BY <1>0, <1>3, <2>1, CloseTypes DEF ConnectCallback, Destroy
    <3> QED  BY <1>3, <2>1, <3>1 DEF FlagInv, CloseFlags, ConnectCallback, Early
  <2>2. CASE ~throws
    BY <1>3, <2>2 DEF FlagInv, ConnectCallback
  <2> QED  BY <2>1, <2>2
<1>4. CASE UserWrites \/ UserEnds \/ UserUnsubscribes \/ CloseDue \/ WriteAnswers
  <2>1. /\ UNCHANGED <<conn, disconnecting, flushes, closes, asked, batch, finished, destroyed,
                       subscribed, endEmitted>>
        /\ due' \in {due, FALSE} /\ emitted' \in {emitted, TRUE}
        /\ ended' \in {ended, TRUE}
    BY <1>4 DEF UserWrites, UserEnds, UserUnsubscribes, CloseDue, WriteAnswers
  <2>2. failed' \in BOOLEAN
    BY <1>4 DEF FlagInv, UserWrites, UserEnds, UserUnsubscribes, CloseDue, WriteAnswers
  <2>3. due' \in BOOLEAN /\ emitted' \in BOOLEAN /\ ended' \in BOOLEAN
    BY <2>1 DEF FlagInv
  <2> QED  BY <2>1, <2>2, <2>3 DEF FlagInv
<1>5. CASE Connect
  <2>1. /\ UNCHANGED <<disconnecting, flushes, closes, due, batch, ended, finished, failed,
                       subscribed, endEmitted>>
        /\ conn' \in {"metadata", "failing", "up", "down"}
        /\ asked' \in {asked, TRUE} /\ emitted' \in {emitted, TRUE}
        /\ destroyed' \in {destroyed, TRUE}
    BY <1>5 DEF Connect, NativeConnects, MetadataFails, Ready, ConnectFails
  <2>2. asked' \in BOOLEAN /\ emitted' \in BOOLEAN /\ destroyed' \in BOOLEAN
    BY <2>1 DEF FlagInv
  <2> QED  BY <2>1, <2>2 DEF FlagInv
<1>6. CASE Flushed \/ Disconnected
  <2>1. /\ UNCHANGED <<closes, asked, due, batch, ended, finished, failed, destroyed,
                       subscribed, endEmitted>>
        /\ disconnecting' \in {TRUE, FALSE} /\ emitted' \in {emitted, TRUE}
        /\ flushes' = flushes \/ (flushes > 0 /\ flushes' = flushes - 1)
        /\ disconnecting \/ flushes > 0
        /\ conn' = conn \/ conn' = (CASE conn \in {"metadata", "gone"} -> "gone"
                                      [] conn = "failing"             -> "failing"
                                      [] conn \in {"up", "down"}      -> "down")
    BY <1>6 DEF Flushed, Disconnected
  <2>2. conn # "connecting"
    BY <2>1 DEF FlagInv
  <2>3. conn' \in {"metadata", "gone", "failing", "up", "down"}
    BY <2>1, <2>2 DEF FlagInv
  <2>4. flushes' \in Nat
    BY <2>1 DEF FlagInv
  <2> QED  BY <2>1, <2>3, <2>4 DEF FlagInv
<1>7. CASE NodeReads \/ RetryRead \/ ListenerReads
  BY <1>7 DEF FlagInv, NodeReads, RetryRead, ListenerReads
<1>8. ASSUME NEW n \in 0..FetchSize, Fetched(n) PROVE FlagInv'
  BY <1>8 DEF FlagInv, Fetched
<1>9. CASE UNCHANGED vars
  BY <1>9 DEF FlagInv, vars
<1> QED  BY <1>1, <1>2, <1>3, <1>4, <1>5, <1>6, <1>7, <1>8, <1>9
         DEF Next, Link, Writing, Reading, Listeners

\* Parts of a prefix of the items.
LEMMA PartsOfItems ==
  ASSUME NEW s \in Seq(Nat), NEW t \in Seq(Nat), NEW f \in Nat, f <= MaxItems,
         s \o t = UpTo(f)
  PROVE  /\ s = UpTo(Len(s)) /\ Len(s) <= f
         /\ s \in Seq(1..MaxItems) /\ t \in Seq(1..MaxItems)
<1>1. /\ Len(s \o t) = Len(s) + Len(t)
      /\ \A i \in 1..(Len(s) + Len(t)) :
           (s \o t)[i] = IF i <= Len(s) THEN s[i] ELSE t[i - Len(s)]
  BY ConcatFacts
<1>2. Len(s \o t) = f /\ \A i \in 1..f : (s \o t)[i] = i
  BY DEF UpTo
<1>3. /\ Len(s) \in Nat /\ Len(t) \in Nat /\ Len(s) + Len(t) = f
      /\ MaxItems \in Nat
  BY <1>1, <1>2, ConstantsAssumption
<1>4. ASSUME NEW i \in 1..Len(s) PROVE s[i] = i /\ i \in 1..MaxItems
  <2>1. i \in 1..f /\ i <= Len(s) /\ i \in 1..MaxItems
    BY <1>3
  <2> QED  BY <1>1, <1>2, <1>3, <2>1
<1>5. ASSUME NEW i \in 1..Len(t) PROVE t[i] \in 1..MaxItems
  <2> DEFINE j == Len(s) + i
  <2>1. j \in 1..f /\ ~(j <= Len(s)) /\ j - Len(s) = i /\ j \in 1..MaxItems
    BY <1>3
  <2> HIDE DEF j
  <2>2. (s \o t)[j] = t[j - Len(s)] /\ (s \o t)[j] = j
    BY <1>1, <1>2, <1>3, <2>1
  <2> QED  BY <2>1, <2>2
<1>6. s = UpTo(Len(s))
  <2> DEFINE u == UpTo(Len(s))
  <2>1. u \in Seq(Nat) /\ Len(u) = Len(s) /\ \A i \in 1..Len(s) : u[i] = i
    BY <1>3 DEF UpTo
  <2> HIDE DEF u
  <2>2. s = u
    BY <1>4, <2>1, SameSeq
  <2> QED  BY <2>2 DEF u
<1>7. s \in Seq(1..MaxItems) /\ t \in Seq(1..MaxItems)
  <2>1. \A i \in 1..Len(s) : s[i] \in 1..MaxItems
    BY <1>4
  <2>2. \A i \in 1..Len(t) : t[i] \in 1..MaxItems
    BY <1>5
  <2> DEFINE S == 1..MaxItems
  <2> HIDE DEF S
  <2>3. s \in Seq(S) /\ t \in Seq(S)
    <3>1. (\A i \in 1..Len(s) : s[i] \in S) /\ (\A i \in 1..Len(t) : t[i] \in S)
      BY <2>1, <2>2 DEF S
    <3> QED  BY <3>1, ElementsIn
  <2> QED  BY <2>3 DEF S
<1> QED  BY <1>3, <1>6, <1>7

\* The chunks of the current call come from the buffer.
GivenOK == given \in Seq(1..MaxItems)

\* Every chunk is one of those written.
LEMMA ChunkTypes ==
  ASSUME ChunkInv
  PROVE  /\ produced = UpTo(Len(produced))
         /\ produced \in Seq(1..MaxItems) /\ rest \in Seq(1..MaxItems)
         /\ buffered \in Seq(1..MaxItems) /\ answered \subseteq 1..MaxItems
<1> DEFINE n == Len(produced) + Len(rest) + Len(buffered)
           both == produced \o rest
<1>1. /\ produced \in Seq(Nat) /\ rest \in Seq(Nat) /\ buffered \in Seq(Nat)
      /\ n \in Nat /\ n <= MaxItems /\ both \in Seq(Nat) /\ both \o buffered = UpTo(n)
  BY DEF ChunkInv
<1> HIDE DEF n, both
<1>2. both = UpTo(Len(both)) /\ Len(both) <= n /\ buffered \in Seq(1..MaxItems)
  BY <1>1, PartsOfItems
<1>3. Len(both) \in Nat /\ Len(both) <= MaxItems
  BY <1>1, <1>2, ConstantsAssumption
<1>4. produced \o rest = UpTo(Len(both))
  BY <1>2 DEF both
<1>5. /\ produced = UpTo(Len(produced))
      /\ produced \in Seq(1..MaxItems) /\ rest \in Seq(1..MaxItems)
  BY <1>1, <1>3, <1>4, PartsOfItems
<1>6. ToSet(produced) \subseteq 1..MaxItems
  <2>1. ASSUME NEW i \in DOMAIN produced PROVE produced[i] \in 1..MaxItems
    <3>1. DOMAIN produced = 1..Len(produced)
      BY <1>1
    <3>2. produced \in Seq(1..MaxItems)
      BY <1>5
    <3> QED  BY <3>1, <3>2, ElementOfSeq
  <2> QED  BY <2>1, Zenon DEF ToSet
<1>7. answered \subseteq 1..MaxItems
  BY <1>6 DEF ChunkInv
<1> QED  BY <1>2, <1>5, <1>7

LEMMA GivenNext == ChunkInv /\ GivenOK /\ [Next]_vars => GivenOK'
<1> SUFFICES ASSUME ChunkInv, GivenOK, [Next]_vars PROVE GivenOK'
  OBVIOUS
<1>1. given' \in {given, buffered}
  BY DEF Next, UserCloses, UserDestroys, UserWrites, UserEnds, UserUnsubscribes,
         CloseDue, Link, Connect, NativeConnects, MetadataFails, Ready, ConnectFails,
         Flushed, Disconnected, Writing, GiveChunks, RetryWrite, WriteAnswers, Finish,
         Reading, NodeReads, RetryRead, Fetched, End, Listeners, ListenerCloses,
         ListenerWrites, ListenerReads, ConnectCallback, vars, writing
<1> QED  BY <1>1, ChunkTypes DEF GivenOK

\* Initially there is nothing to write.
LEMMA WriteInit == Init => WaitInv /\ ChunkInv /\ FlagInv /\ GivenOK
<1> SUFFICES ASSUME Init PROVE WaitInv /\ ChunkInv /\ FlagInv /\ GivenOK
  OBVIOUS
<1>1. WaitInv
  <2>1. onReady = <<>> /\ todo \in {<<>>, <<"callback">>} /\ wpc = "idle"
    BY DEF Init
  <2>2. Once(onReady, "write") /\ Absent(onReady, "write")
    BY <2>1 DEF Once, Absent
  <2>3. Once(todo, "write") /\ Absent(todo, "write")
    <3>1. CASE todo = <<>>
      BY <3>1 DEF Once, Absent
    <3>2. CASE todo = <<"callback">>
      <4>1. DOMAIN todo = {1} /\ todo[1] = "callback"
        BY <3>2
      <4> QED  BY <4>1 DEF Once, Absent
    <3> QED  BY <2>1, <3>1, <3>2
  <2> QED  BY <2>1, <2>2, <2>3 DEF WaitInv
<1>2. ChunkInv
  <2>1. /\ produced = <<>> /\ rest = <<>> /\ buffered = <<>> /\ given = <<>>
        /\ wpc = "idle" /\ ~failed /\ answered = {}
    BY DEF Init
  <2>2. (<<>> \o <<>>) \o <<>> = UpTo(0) /\ 0 <= MaxItems
    BY ConstantsAssumption DEF UpTo
  <2>3. <<>> \in Seq(Nat) /\ Len(<<>>) + Len(<<>>) + Len(<<>>) = 0
    OBVIOUS
  <2> QED  BY <2>1, <2>2, <2>3 DEF ChunkInv
<1>3. FlagInv
  <2>1. /\ conn \in {"connecting", "up"} /\ ~disconnecting /\ flushes = 0
        /\ 0 \in 0..MaxCloses /\ 0 \in Nat
    BY ConstantsAssumption DEF Init
  <2> QED  BY <2>1, Zenon DEF Init, FlagInv
<1>4. GivenOK
  BY DEF Init, GivenOK
<1> QED  BY <1>1, <1>2, <1>3, <1>4

\* For any number of chunks, calls and full queues: each chunk is produced
\* once, in the order written, and a write called back without an error has
\* been produced (producer-stream.js:114-151,200-279).
THEOREM WritesSafe == Spec => []ProducedInOrder
<1>1. OrderInv /\ ReadInv /\ WaitInv /\ ChunkInv /\ FlagInv /\ GivenOK => ProducedInOrder
  <2> SUFFICES ASSUME OrderInv, ReadInv, WaitInv, ChunkInv, FlagInv, GivenOK
               PROVE  ProducedInOrder
    OBVIOUS
  <2>1. messages \in Seq(1..MaxItems) /\ pushed \in Seq(1..MaxItems)
    <3>1. fetched \in Nat /\ fetched <= MaxItems
      BY ConstantsAssumption DEF OrderInv
    <3> QED  BY <3>1, PartsOfItems DEF OrderInv
  <2>2. {buffered, given, rest, produced, messages, pushed} \subseteq Seq(1..MaxItems)
    BY <2>1, ChunkTypes DEF GivenOK
  <2>3. {onReady, todo} \subseteq Seq({"close", "write", "read", "callback"})
    BY DEF ReadInv, Names
  <2>4. {disconnecting, asked, due, emitted, batch, ended, finished, failed, destroyed,
         subscribed, eof, endEmitted} \subseteq BOOLEAN
    BY Zenon DEF FlagInv, ReadInv
  <2>5. /\ kind \in Kinds /\ late \in Nat
        /\ conn \in {"connecting", "metadata", "failing", "gone", "up", "down"}
        /\ flushes \in Nat /\ closes \in 0..MaxCloses /\ fetched \in 0..MaxItems
        /\ wpc \in {"idle", "wait", "stuck", "retry", "ok", "error"}
        /\ rpc \in {"idle", "wait", "fetch", "retry", "halt"}
    BY DEF OrderInv, ReadInv, WaitInv, FlagInv
  <2>6. TypeOK
    BY <2>2, <2>3, <2>4, <2>5, ChunkTypes, Zenon DEF TypeOK
  <2> QED  BY <2>6, ChunkTypes DEF ProducedInOrder, ChunkInv
<1>2. ReadInv /\ ChunkInv /\ FlagInv /\ [Next]_vars => FlagInv'
  BY FlagNext
<1> QED  BY <1>1, <1>2, ReadInit, WriteInit, OrderNext, ReadNext, WriteNext, GivenNext,
            PTL DEF Spec
=============================================================================
