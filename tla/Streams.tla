------------------------------- MODULE Streams -------------------------------
(***************************************************************************)
(* The two stream wrappers, lib/producer-stream.js (kind = "write") and    *)
(* lib/kafka-consumer-stream.js (kind = "read"), between Node's stream     *)
(* machinery and a client that connects, may fail to, and is disconnected  *)
(* by close().  All code runs on the JavaScript thread; a step is one turn *)
(* of its event loop, except that the listeners of 'ready', run in a row,  *)
(* are a step each (todo).  autoClose has its default, true.               *)
(***************************************************************************)
EXTENDS Naturals, Sequences, SequencesExt

CONSTANTS Kinds,      \* "write", "read"
          MaxItems,   \* bound on the chunks written, or messages read
          FetchSize,  \* options.fetchSize
          MaxCloses   \* bound on the user's close() and destroy() calls

ASSUME ConstantsAssumption ==
  /\ Kinds \subseteq {"write", "read"}
  /\ MaxItems \in Nat
  /\ FetchSize \in Nat \ {0}
  /\ MaxCloses \in Nat

VARIABLES
  kind,
  conn,          \* the client: "connecting", "metadata" (both flags of connect()
                 \* set), "failing" (metadata failed), "gone" (disconnected while
                 \* "metadata"), "up", "down"
  disconnecting, \* its _isDisconnecting
  flushes,       \* Producer.disconnect()'s flush jobs that have not ended
  onReady,       \* listeners for 'ready': "close", "write", "read"
  todo,          \* those of them that 'ready' is running, then connect's callback
  closes,        \* calls of the user
  asked,         \* history: close() has been called
  due,           \* setImmediate(close) pending
  emitted,       \* history: 'close' has been emitted
  buffered,      \* Writable: chunks not yet given to _write or _writev
  given, rest,   \* the chunks of the current call, those not yet produced
  batch,         \* it is _writev
  wpc,           \* "idle", "wait" ('ready'), "stuck", "retry" (timer), "ok", "error"
  ended, finished, failed,  \* end() called; 'finish' emitted; a write failed
  produced, answered,       \* history: chunks produced; called back without error
  rpc,           \* "idle", "wait" ('ready'), "fetch", "retry" (timer), "halt"
  messages,      \* this.messages
  destroyed,
  subscribed,    \* history: subscribe() has succeeded
  eof,           \* push(null) done
  endEmitted,
  fetched, pushed, \* history: messages fetched; pushed, in order
  late           \* history: how often push was called after push(null)

client == <<conn, disconnecting, flushes>>
waiting == <<onReady, todo>>
closing == <<closes, asked, due, emitted>>
writing == <<buffered, given, rest, batch, wpc, ended, finished, failed, produced, answered>>
reading == <<rpc, messages, destroyed, subscribed, eof, endEmitted, fetched,
             pushed, late>>
vars == <<kind, client, waiting, closing, writing, reading>>

Init ==
  /\ kind \in Kinds
  /\ conn \in {"connecting", "up"} /\ disconnecting = FALSE /\ flushes = 0
  /\ onReady = <<>>
  /\ todo = IF kind = "read" /\ conn = "up" THEN <<"callback">> ELSE <<>>
  /\ closes = 0 /\ asked = FALSE /\ due = FALSE /\ emitted = FALSE
  /\ buffered = <<>> /\ given = <<>> /\ rest = <<>> /\ batch = FALSE /\ wpc = "idle"
  /\ ended = FALSE /\ finished = FALSE /\ failed = FALSE
  /\ produced = <<>> /\ answered = {}
  /\ rpc = "idle" /\ messages = <<>> /\ destroyed = FALSE /\ subscribed = FALSE
  /\ eof = FALSE /\ endEmitted = FALSE
  /\ fetched = 0 /\ pushed = <<>> /\ late = 0

Write == kind = "write"
Read == kind = "read"
Turn == todo = <<>>     \* the event loop may run something else
Connected == conn \in {"metadata", "up"}      \* _isConnected
Connecting == conn \notin {"up", "down"}      \* _isConnecting

-----------------------------------------------------------------------------
(* close() of either stream, from wherever it is called.  ready: what is     *)
(* left of onReady.                                                          *)

\* push(null) from the 'unsubscribed' listener.
PushNull == eof' = TRUE

ReaderCloses ==
  /\ PushNull
  /\ disconnecting' = TRUE
  /\ UNCHANGED <<flushes, onReady, due, emitted>>

WriterCloses ==
  /\ flushes' = flushes + 1
  /\ UNCHANGED <<disconnecting, onReady, due, emitted, eof>>

WaitsForReady ==
  /\ onReady' = Append(onReady, "close")
  /\ UNCHANGED <<disconnecting, flushes, due, emitted, eof>>

NothingToClose ==
  /\ IF Write
       THEN due' = TRUE /\ UNCHANGED emitted
       ELSE emitted' = TRUE /\ UNCHANGED due
  /\ UNCHANGED <<disconnecting, flushes, onReady, eof>>

\* Plausible bug: close() during the connection is forgotten.
CloseIgnoresConnecting ==
  /\ asked' = TRUE
  /\ CASE Write /\ Connected                  -> WriterCloses
       [] Read /\ conn = "up"                 -> ReaderCloses
       [] Connecting /\ ~(Write /\ Connected) ->
            UNCHANGED <<disconnecting, flushes, onReady, due, emitted, eof>>
       [] conn = "down"                       -> NothingToClose

\* A connected writer's producer flushes, then disconnects; a connected
\* reader unsubscribes and disconnects (again, without effect, if it is
\* disconnecting); one that is connecting waits for 'ready'.  The writer tests
\* _isConnected first, the reader _isConnecting.
Close ==
  /\ asked' = TRUE
  /\ CASE Write /\ Connected                  -> WriterCloses
       [] Read /\ conn = "up"                 -> ReaderCloses
       [] Connecting /\ ~(Write /\ Connected) -> WaitsForReady
       [] conn = "down"                       -> NothingToClose

NoClose == UNCHANGED <<disconnecting, flushes, onReady, due, emitted, asked, eof>>

UserCloses ==
  /\ Turn
  /\ closes < MaxCloses
  /\ closes' = closes + 1
  /\ Close
  /\ UNCHANGED <<kind, conn, todo, writing, rpc, messages, destroyed, subscribed, endEmitted,
                 fetched, pushed, late>>

\* The reader's destroy().
Destroy ==
  /\ destroyed' = TRUE
  /\ IF destroyed THEN NoClose ELSE Close

UserDestroys ==
  /\ Turn /\ Read
  /\ closes < MaxCloses
  /\ closes' = closes + 1
  /\ Destroy
  /\ UNCHANGED <<kind, conn, todo, writing, rpc, messages, subscribed, endEmitted, fetched,
                 pushed, late>>

\* The writer's setImmediate(close).
CloseDue ==
  /\ Turn
  /\ due
  /\ due' = FALSE
  /\ emitted' = TRUE
  /\ UNCHANGED <<kind, client, waiting, closes, asked, writing, reading>>

-----------------------------------------------------------------------------
(* The client (modelled in ClientLifecycle).                                 *)

NativeConnects ==
  /\ Turn
  /\ conn = "connecting"
  /\ conn' = "metadata"
  /\ UNCHANGED <<kind, disconnecting, flushes, waiting, closing, writing, reading>>

\* fail() clears _isConnected and disconnects before it calls back.
MetadataFails ==
  /\ Turn
  /\ conn = "metadata"
  /\ conn' = "failing"
  /\ UNCHANGED <<kind, disconnecting, flushes, waiting, closing, writing, reading>>

Ready ==
  /\ Turn
  /\ conn \in {"metadata", "gone"}
  /\ conn' = "up"
  /\ todo' = IF Read THEN Append(onReady, "callback") ELSE onReady
  /\ onReady' = <<>>
  /\ UNCHANGED <<kind, disconnecting, flushes, closing, writing, reading>>

\* connect's callback gets an error: the reader destroys itself.
ConnectFails ==
  /\ Turn
  /\ conn \in {"connecting", "failing", "gone"}
  /\ conn' = "down"
  /\ IF Read /\ ~destroyed
       THEN destroyed' = TRUE /\ asked' = TRUE /\ emitted' = TRUE
       ELSE UNCHANGED <<destroyed, asked, emitted>>
  /\ UNCHANGED <<kind, disconnecting, flushes, waiting, closes, due, writing, rpc, messages,
                 subscribed, eof, endEmitted, fetched, pushed, late>>

Connect == NativeConnects \/ MetadataFails \/ Ready \/ ConnectFails

\* A flush job calls back; Client.disconnect() drops the callback of a call
\* made while it is disconnecting.
Flushed ==
  /\ Turn
  /\ flushes > 0
  /\ flushes' = flushes - 1
  /\ disconnecting' = TRUE
  /\ UNCHANGED <<kind, conn, waiting, closing, writing, reading>>

Disconnected ==
  /\ Turn
  /\ disconnecting
  /\ disconnecting' = FALSE
  /\ conn' = CASE conn \in {"metadata", "gone"} -> "gone"
              [] conn = "failing"             -> "failing"
              [] conn \in {"up", "down"}      -> "down"
  /\ emitted' = TRUE
  /\ UNCHANGED <<kind, flushes, waiting, closes, asked, due, writing, reading>>

Link == Connect \/ Flushed \/ Disconnected

-----------------------------------------------------------------------------
(* Writing.                                                                  *)

\* Plausible bug: the whole batch is tried again.
AllAgain(chunks, k, full) ==
  /\ produced' = produced \o SubSeq(chunks, 1, k)
  /\ rest' = chunks
  /\ IF k = Len(chunks)
       THEN wpc' = "ok" /\ NoClose
       ELSE IF full
              THEN wpc' = "retry" /\ NoClose
              ELSE wpc' = "error" /\ Close

\* What _write or _writev does with chunks: the first k are produced, then the
\* queue is full (poll, and a timer), or produce throws something else.
ProduceChunks(chunks, k, full) ==
  /\ produced' = produced \o SubSeq(chunks, 1, k)
  /\ rest' = SubSeq(chunks, k + 1, Len(chunks))
  /\ IF k = Len(chunks)
       THEN wpc' = "ok" /\ NoClose
       ELSE IF full
              THEN wpc' = "retry" /\ NoClose
              ELSE wpc' = "error" /\ Close

\* again: after a full queue, where writev does not test the connection.
\* _write waits for the producer's 'ready', _writev for one of the stream.
Attempt(chunks, again, vec) ==
  CASE Connected ->
         \E k \in 0..Len(chunks), full \in BOOLEAN : ProduceChunks(chunks, k, full)
    [] ~Connected /\ vec /\ again ->
         ProduceChunks(chunks, 0, FALSE)
    [] ~Connected /\ vec /\ ~again ->
         wpc' = "stuck" /\ rest' = chunks /\ UNCHANGED produced /\ NoClose
    [] OTHER ->
         /\ wpc' = "wait" /\ rest' = chunks
         /\ onReady' = Append(onReady, "write")
         /\ UNCHANGED <<produced, disconnecting, flushes, due, emitted, asked, eof>>

UserWrites ==
  /\ Turn /\ Write
  /\ ~ended
  /\ \E i \in 1..MaxItems :
       /\ i = Len(produced) + Len(rest) + Len(buffered) + 1
       /\ buffered' = Append(buffered, i)
  /\ UNCHANGED <<kind, client, waiting, closing, given, rest, batch, wpc, ended, finished,
                 failed, produced, answered, reading>>

UserEnds ==
  /\ Turn /\ Write
  /\ ended' = TRUE
  /\ UNCHANGED <<kind, client, waiting, closing, buffered, given, rest, batch, wpc, finished,
                 failed, produced, answered, reading>>

\* Writable (external) gives one chunk to _write, several at once to _writev.
GiveChunks ==
  /\ Turn /\ Write
  /\ wpc = "idle" /\ ~failed
  /\ buffered # <<>>
  /\ given' = buffered
  /\ buffered' = <<>>
  /\ batch' = (Len(buffered) > 1)
  /\ Attempt(buffered, FALSE, batch')
  /\ UNCHANGED <<kind, conn, todo, closes, ended, finished, failed, answered, rpc, messages,
                 destroyed, subscribed, endEmitted, fetched, pushed, late>>

\* The timer after a full queue.
RetryWrite ==
  /\ Turn
  /\ wpc = "retry"
  /\ Attempt(rest, TRUE, batch)
  /\ UNCHANGED <<kind, conn, todo, closes, buffered, given, batch, ended, finished, failed,
                 answered, rpc, messages, destroyed, subscribed, endEmitted, fetched, pushed, late>>

\* Plausible bug: the callback of a batch is forgotten.
AnsweredUnlessBatch ==
  /\ Turn
  /\ wpc \in {"ok", "error"}
  /\ wpc' = IF batch THEN "wait" ELSE "idle"
  /\ answered' = IF wpc = "ok" /\ ~batch THEN answered \cup ToSet(given) ELSE answered
  /\ failed' = (wpc = "error")
  /\ UNCHANGED <<kind, client, waiting, closing, buffered, given, rest, batch, ended, finished,
                 produced, reading>>

\* The write's callback; after an error Writable gives no more chunks.
WriteAnswers ==
  /\ Turn
  /\ wpc \in {"ok", "error"}
  /\ wpc' = "idle"
  /\ answered' = IF wpc = "ok" THEN answered \cup ToSet(given) ELSE answered
  /\ failed' = (wpc = "error")
  /\ UNCHANGED <<kind, client, waiting, closing, buffered, given, rest, batch, ended, finished,
                 produced, reading>>

\* 'finish' closes the stream.
Finish ==
  /\ Turn /\ Write
  /\ ended /\ ~finished /\ ~failed
  /\ wpc = "idle" /\ buffered = <<>>
  /\ finished' = TRUE
  /\ Close
  /\ UNCHANGED <<kind, conn, todo, closes, buffered, given, rest, batch, wpc, ended, failed,
                 produced, answered, rpc, messages, destroyed, subscribed, endEmitted, fetched, pushed, late>>

Writing == GiveChunks \/ RetryWrite \/ WriteAnswers \/ Finish

-----------------------------------------------------------------------------
(* Reading.                                                                  *)

\* push(): Node's stream takes the message and may call _read again.
Push(m) ==
  /\ pushed' = Append(pushed, m)
  /\ late' = IF eof THEN late + 1 ELSE late
  /\ rpc' = "idle"

\* _read_message; _read_buffer differs in what it pushes.
DoRead ==
  CASE messages # <<>> ->
         Push(Head(messages)) /\ messages' = Tail(messages) /\ UNCHANGED onReady
    [] messages = <<>> /\ ~Connected ->
         rpc' = "wait" /\ onReady' = Append(onReady, "read") /\ UNCHANGED <<messages, pushed, late>>
    [] OTHER ->
         /\ rpc' = IF destroyed THEN "halt" ELSE "fetch"
         /\ UNCHANGED <<onReady, messages, pushed, late>>

\* Readable (external) calls _read when the last one has pushed; not after EOF.
NodeReads ==
  /\ Turn /\ Read
  /\ rpc = "idle"
  /\ ~eof
  /\ DoRead
  /\ UNCHANGED <<kind, client, todo, closing, writing, destroyed, subscribed, eof,
                 endEmitted, fetched>>

\* The timer or immediate of retry().
RetryRead ==
  /\ Turn
  /\ rpc = "retry"
  /\ DoRead
  /\ UNCHANGED <<kind, client, todo, closing, writing, destroyed, subscribed, eof,
                 endEmitted, fetched>>

\* Plausible bug: the last message is pushed, not the first.
FetchedPops(n) ==
  /\ Turn
  /\ rpc = "fetch"
  /\ fetched + n <= MaxItems
  /\ n > 0 => subscribed
  /\ LET all == messages \o [i \in 1..n |-> fetched + i]
     IN  IF n = 0
           THEN rpc' = "retry" /\ UNCHANGED <<messages, pushed, late>>
           ELSE Push(Last(all)) /\ messages' = Front(all)
  /\ fetched' = fetched + n
  /\ UNCHANGED <<kind, client, waiting, closing, writing, destroyed, subscribed, eof, endEmitted>>

\* onread: nothing (or an error) is tried again; of what came the first is
\* pushed and the rest kept.  An unsubscribed consumer finds nothing more.
Fetched(n) ==
  /\ Turn
  /\ rpc = "fetch"
  /\ fetched + n <= MaxItems
  /\ n > 0 => subscribed
  /\ LET all == messages \o [i \in 1..n |-> fetched + i]
     IN  IF n = 0
           THEN rpc' = "retry" /\ UNCHANGED <<messages, pushed, late>>
           ELSE Push(Head(all)) /\ messages' = Tail(all)
  /\ fetched' = fetched + n
  /\ UNCHANGED <<kind, client, waiting, closing, writing, destroyed, subscribed, eof, endEmitted>>

UserUnsubscribes ==
  /\ Turn /\ Read
  /\ Connected /\ ~eof
  /\ PushNull
  /\ UNCHANGED <<kind, client, waiting, closing, writing, rpc, messages, destroyed, subscribed,
                 endEmitted, fetched, pushed, late>>

\* 'end', once the user has read everything up to the EOF: destroy().
End ==
  /\ Turn /\ Read
  /\ eof /\ ~endEmitted
  /\ endEmitted' = TRUE
  /\ Destroy
  /\ UNCHANGED <<kind, conn, todo, closes, writing, rpc, messages, subscribed, fetched, pushed,
                 late>>

Reading == NodeReads \/ RetryRead \/ (\E n \in 0..FetchSize : Fetched(n)) \/ End

-----------------------------------------------------------------------------
(* The listeners of 'ready', in the order in which they were added.          *)

ListenerCloses ==
  /\ ~Turn /\ Head(todo) = "close"
  /\ todo' = Tail(todo)
  /\ Close
  /\ UNCHANGED <<kind, conn, closes, writing, rpc, messages, destroyed, subscribed, endEmitted,
                 fetched, pushed, late>>

ListenerWrites ==
  /\ ~Turn /\ Head(todo) = "write"
  /\ todo' = Tail(todo)
  /\ Attempt(rest, TRUE, FALSE)
  /\ UNCHANGED <<kind, conn, closes, buffered, given, batch, ended, finished, failed, answered,
                 rpc, messages, destroyed, subscribed, endEmitted, fetched, pushed, late>>

ListenerReads ==
  /\ ~Turn /\ Head(todo) = "read"
  /\ todo' = Tail(todo)
  /\ DoRead
  /\ UNCHANGED <<kind, client, closing, writing, destroyed, subscribed, eof,
                 endEmitted, fetched>>

\* connect's callback subscribes; a consumer that is disconnecting, or bad
\* topics, make that throw.
ConnectCallback(throws) ==
  /\ ~Turn /\ Head(todo) = "callback"
  /\ todo' = Tail(todo)
  /\ IF throws
       THEN Destroy /\ UNCHANGED subscribed
       ELSE /\ subscribed' = TRUE
            /\ UNCHANGED <<destroyed, disconnecting, flushes, onReady, due, emitted, asked, eof>>
  /\ UNCHANGED <<kind, conn, closes, writing, rpc, messages, endEmitted, fetched, pushed, late>>

Listeners ==
  \/ ListenerCloses \/ ListenerWrites \/ ListenerReads
  \/ \E throws \in BOOLEAN : ConnectCallback(throws)

-----------------------------------------------------------------------------
Next ==
  \/ UserCloses \/ UserDestroys \/ UserWrites \/ UserEnds \/ UserUnsubscribes
  \/ CloseDue \/ Link \/ Writing \/ Reading \/ Listeners

\* A chunk is taken sooner or later: librdkafka's queue does not stay full.
Progress == RetryWrite /\ rest' # rest

\* Timers, immediates, listeners and jobs run, and a connection attempt ends.
Fairness ==
  /\ WF_vars(CloseDue) /\ WF_vars(Connect) /\ WF_vars(Flushed)
  /\ WF_vars(Disconnected) /\ WF_vars(Listeners)
  /\ WF_vars(GiveChunks) /\ WF_vars(RetryWrite) /\ WF_vars(WriteAnswers) /\ WF_vars(Finish)
  /\ SF_vars(Progress)
  /\ WF_vars(NodeReads) /\ WF_vars(RetryRead) /\ WF_vars(End)
  /\ WF_vars(\E n \in 0..FetchSize : Fetched(n))

Spec == Init /\ [][Next]_vars /\ Fairness

-----------------------------------------------------------------------------
TypeOK ==
  /\ kind \in Kinds
  /\ conn \in {"connecting", "metadata", "failing", "gone", "up", "down"}
  /\ {disconnecting, asked, due, emitted, batch, ended, finished, failed, destroyed, subscribed,
      eof, endEmitted} \subseteq BOOLEAN
  /\ late \in Nat
  /\ flushes \in Nat /\ closes \in 0..MaxCloses /\ fetched \in 0..MaxItems
  /\ {onReady, todo} \subseteq Seq({"close", "write", "read", "callback"})
  /\ {buffered, given, rest, produced, messages, pushed} \subseteq Seq(1..MaxItems)
  /\ answered \subseteq 1..MaxItems
  /\ wpc \in {"idle", "wait", "stuck", "retry", "ok", "error"}
  /\ rpc \in {"idle", "wait", "fetch", "retry", "halt"}

UpTo(n) == [i \in 1..n |-> i]

\* Each chunk is produced once, in the order written, over full queues, batches
\* cut short and a connection awaited (producer-stream.js:114-151,200-279); a
\* write called back without an error has been produced.
ProducedInOrder ==
  /\ TypeOK
  /\ produced = UpTo(Len(produced))
  /\ answered \subseteq ToSet(produced)

\* Messages are pushed once, in the order fetched; what close() loses is what
\* this.messages still holds; and nothing is pushed after EOF except by the one
\* fetch, or retry, under way then (kafka-consumer-stream.js:108-112,147-228).
PushedInOrder ==
  /\ pushed \o messages = UpTo(fetched)
  /\ late <= 1

\* A write is called back, unless it waits for a connection that has failed or
\* was closed, or is a _writev made before the connection: that waits for
\* 'ready' on the stream, which never emits it (producer-stream.js:252).
WriteAnswered ==
  (Write /\ wpc # "idle") ~> (wpc = "idle" \/ (wpc = "wait" /\ conn = "down") \/ wpc = "stuck")

\* close() ends with 'close', unless it waited for a connection that has failed:
\* for a reader, only if destroy() had been called before, as its connect
\* callback calls destroy() (producer-stream.js:281-307;
\* kafka-consumer-stream.js:316-325,359-397).
CloseEnds ==
  asked ~> (emitted \/ (/\ conn = "down" /\ "close" \in ToSet(onReady)
                        /\ Read => destroyed))
=============================================================================
