----------------------- MODULE HighLevelProducerProofs -----------------------
(* Proofs about HighLevelProducer, for every finite set of messages and every *)
(* bound: how often each produce() is answered, what the reference counter    *)
(* holds and when its timer runs, and which poll interval is in force.        *)
EXTENDS HighLevelProducer, FiniteSetTheorems, TLAPS

USE ConstantsAssumption

Parts == {"value", "key"}
ValueResults == {"ok", "pending", "failed", "threw"}
KeyResults == ValueResults \cup {"now"}

MessageTypes ==
  /\ rk \in [Messages -> [Copies -> Stages]]
  /\ value \in [Messages -> Outcomes] /\ key \in [Messages -> Outcomes]
  /\ called \in [Messages -> BOOLEAN] /\ thrown \in [Messages -> BOOLEAN]
  /\ answers \in [Messages -> 0..2]
  /\ listeners \in [Messages -> 0..2] /\ due \in [Messages -> 0..2]

\* How the answers of a message nobody has tried to send follow from its
\* serializers; one that has been tried has two good results.
SerializersInv(m) ==
  /\ value[m] = "none" =>
       key[m] = "none" /\ rk[m][1] = "none" /\ ~called[m] /\ ~thrown[m]
  /\ rk[m][1] = "none" => (called[m] <=> answers[m] > 0) /\ listeners[m] = 0 /\ due[m] = 0
  /\ rk[m][1] # "none" => value[m] = "ok" /\ key[m] = "ok" /\ ~called[m] /\ ~thrown[m]
  /\ thrown[m] => "threw" \in {value[m], key[m]} /\ answers[m] < 2
  /\ thrown[m] /\ answers[m] = 1 => "failed" \in {value[m], key[m]}
  /\ rk[m][1] = "none" /\ answers[m] = 2 => {value[m], key[m]} = {"failed", "threw"}

\* One once-listener waits for each copy taken, until the first report.
Listens(stage) == IF stage \in {"sent", "acked", "event", "lost"} THEN 1 ELSE 0
Told(m) == rk[m][1] = "told" \/ rk[m][2] = "told"
ListenersInv(m) ==
  /\ Told(m) => listeners[m] = 0
  /\ ~Told(m) => listeners[m] = Listens(rk[m][1]) + Listens(rk[m][2])

\* Each copy is answered, about to be answered, or listened for.
CopiesInv(m) ==
  /\ rk[m][1] = "none" => rk[m][2] = "none"
  /\ rk[m][1] # "none" =>
       answers[m] + due[m] + listeners[m] = (IF rk[m][2] = "none" THEN 1 ELSE 2)

MessageInv(m) == SerializersInv(m) /\ ListenersInv(m) /\ CopiesInv(m)

MessagesInv == MessageTypes /\ \A m \in Messages : MessageInv(m)

\* What one message's step leaves alone.
Untouched(n) ==
  /\ rk'[n] = rk[n] /\ value'[n] = value[n] /\ key'[n] = key[n]
  /\ called'[n] = called[n] /\ thrown'[n] = thrown[n] /\ answers'[n] = answers[n]
  /\ listeners'[n] = listeners[n] /\ due'[n] = due[n]

LEMMA UntouchedInv ==
  ASSUME NEW n \in Messages, MessageInv(n), Untouched(n)
  PROVE  MessageInv(n)'
<1>1. SerializersInv(n)'
  BY DEF MessageInv, SerializersInv, Untouched
<1>2. ListenersInv(n)'
  BY DEF MessageInv, ListenersInv, Untouched, Told
<1>3. CopiesInv(n)'
  BY DEF MessageInv, CopiesInv, Untouched
<1> QED  BY <1>1, <1>2, <1>3 DEF MessageInv

\* doProduce on a message not tried before: a listener for each copy taken, an
\* answer for each one refused.
LEMMA DoProduceInv ==
  ASSUME MessageTypes, NEW m \in Messages, rk[m][1] = "none", MessageInv(m),
         NEW n \in 0..2, NEW a \in 0..2, DoProduce(m, n, a)
  PROVE  /\ rk' \in [Messages -> [Copies -> Stages]]
         /\ listeners' = [listeners EXCEPT ![m] = a] /\ a <= n
         /\ listeners' \in [Messages -> 0..2]
         /\ ListenersInv(m)'
         /\ n = 0 => rk'[m] = rk[m] /\ a = 0
         /\ n > 0 => rk'[m][1] # "none"
         /\ rk'[m][2] = "none" <=> n < 2
<1> USE DEF MessageTypes
<1>1. /\ a \in 0..n
      /\ rk' = [rk EXCEPT ![m] = [c \in Copies |-> IF c <= a THEN "sent"
                                   ELSE IF c <= n THEN "refused" ELSE rk[m][c]]]
      /\ listeners' = [listeners EXCEPT ![m] = listeners[m] + a]
  BY DEF DoProduce
<1>2. listeners[m] = 0 /\ rk[m][2] = "none" /\ rk[m] \in [Copies -> Stages]
  BY DEF MessageInv, SerializersInv, CopiesInv
<1>3. /\ rk'[m] = [c \in Copies |-> IF c <= a THEN "sent"
                                   ELSE IF c <= n THEN "refused" ELSE rk[m][c]]
      /\ \A x \in Messages : x # m => rk'[x] = rk[x]
  BY <1>1
<1>4. /\ rk'[m][1] = IF a > 0 THEN "sent" ELSE IF n > 0 THEN "refused" ELSE "none"
      /\ rk'[m][2] = IF a = 2 THEN "sent" ELSE IF n = 2 THEN "refused" ELSE "none"
  BY <1>1, <1>2, <1>3 DEF Copies
<1>5. rk'[m] \in [Copies -> Stages]
  BY <1>3, <1>2 DEF Stages
<1>6. rk' \in [Messages -> [Copies -> Stages]]
  BY <1>1, <1>5
<1>7. /\ listeners' = [listeners EXCEPT ![m] = a] /\ a <= n
      /\ listeners' \in [Messages -> 0..2] /\ listeners'[m] = a
  BY <1>1, <1>2
<1>8. ListenersInv(m)'
  BY <1>1, <1>4, <1>7 DEF ListenersInv, Told, Listens
<1>9. n = 0 => rk'[m] = rk[m] /\ a = 0
  <2> SUFFICES ASSUME n = 0 PROVE rk'[m] = rk[m] /\ a = 0
    OBVIOUS
  <2>1. a = 0 /\ \A c \in Copies : rk'[m][c] = rk[m][c]
    BY <1>1, <1>3 DEF Copies
  <2>2. /\ rk[m] = [c \in Copies |-> rk[m][c]]
        /\ rk'[m] = [c \in Copies |-> rk'[m][c]]
    BY <1>2, <1>5
  <2>3. [c \in Copies |-> rk[m][c]] = [c \in Copies |-> rk'[m][c]]
    BY <2>1
  <2>4. rk'[m] = rk[m]
    BY <2>2, <2>3, Zenon
  <2> QED  BY <2>1, <2>4
<1>10. (n > 0 => rk'[m][1] # "none") /\ (rk'[m][2] = "none" <=> n < 2)
  BY <1>4, <1>7
<1> QED  BY <1>6, <1>7, <1>8, <1>9, <1>10

\* produce(): 0, 1 or 2 attempts, none of them if a serializer has failed.
LEMMA ProduceStep ==
  ASSUME MessagesInv, NEW m \in Messages, NEW v \in ValueResults, NEW k \in KeyResults,
         NEW a \in 0..2, Produce(m, v, k, a)
  PROVE  MessagesInv'
<1> DEFINE n == Attempts(v, k)
           kr == IF v = "threw" THEN "none" ELSE IF k = "now" THEN "ok" ELSE k
<1>1. /\ MessageTypes /\ MessageInv(m) /\ value[m] = "none" /\ rk[m][1] = "none"
      /\ \A x \in Messages : MessageInv(x)
  BY DEF Produce, MessagesInv, MessageInv, SerializersInv
<1>2. n \in 0..2 /\ (n > 0 => v = "ok" /\ kr = "ok") /\ v \in Outcomes /\ kr \in Outcomes
  BY DEF Attempts, ValueResults, KeyResults, Outcomes
<1>3. /\ value' = [value EXCEPT ![m] = v] /\ key' = [key EXCEPT ![m] = kr]
      /\ due' = due /\ DoProduce(m, n, a)
  BY DEF Produce
<1>4. /\ value'[m] = v /\ key'[m] = kr
      /\ value' \in [Messages -> Outcomes] /\ key' \in [Messages -> Outcomes]
  BY <1>1, <1>2, <1>3 DEF MessageTypes
<1>5. /\ thrown' = [thrown EXCEPT ![m] = "threw" \in {v, kr}]
      /\ called' = [called EXCEPT ![m] = "failed" \in {v, kr}]
  BY <1>4 DEF Produce
<1>6. /\ thrown' \in [Messages -> BOOLEAN] /\ called' \in [Messages -> BOOLEAN]
      /\ thrown'[m] <=> "threw" \in {v, kr}
      /\ called'[m] <=> "failed" \in {v, kr}
  <2>1. ("threw" \in {v, kr}) \in BOOLEAN /\ ("failed" \in {v, kr}) \in BOOLEAN
    OBVIOUS
  <2>2. thrown \in [Messages -> BOOLEAN] /\ called \in [Messages -> BOOLEAN]
    BY <1>1 DEF MessageTypes
  <2>3. thrown' \in [Messages -> BOOLEAN] /\ (thrown'[m] <=> "threw" \in {v, kr})
    BY <1>5, <2>1, <2>2
  <2>4. called' \in [Messages -> BOOLEAN] /\ (called'[m] <=> "failed" \in {v, kr})
    BY <1>5, <2>1, <2>2
  <2> QED  BY <2>3, <2>4
<1> HIDE DEF n, kr
<1>7. /\ rk' \in [Messages -> [Copies -> Stages]]
      /\ listeners' = [listeners EXCEPT ![m] = a] /\ a <= n
      /\ listeners' \in [Messages -> 0..2] /\ ListenersInv(m)'
      /\ n = 0 => rk'[m] = rk[m] /\ a = 0
      /\ n > 0 => rk'[m][1] # "none"
      /\ rk'[m][2] = "none" <=> n < 2
  BY <1>1, <1>2, <1>3, DoProduceInv
<1>8. answers[m] = 0 /\ due[m] = 0
  BY <1>1 DEF MessageInv, SerializersInv, MessageTypes
<1>9. answers' = [answers EXCEPT ![m] = answers[m] + (n - a + (IF called'[m] THEN 1 ELSE 0))]
  BY DEF Produce, Answered, n
<1>10. n > 0 => ~called'[m] /\ ~thrown'[m]
  BY <1>2, <1>6
<1>11. answers' = [answers EXCEPT ![m] = IF called'[m] THEN 1 ELSE n - a]
  <2>1. CASE called'[m]
    <3>1. n = 0 /\ a = 0
      BY <2>1, <1>2, <1>7, <1>10
    <3> QED  BY <2>1, <3>1, <1>8, <1>9
  <2>2. CASE ~called'[m]
    <3>1. answers' = [answers EXCEPT ![m] = answers[m] + (n - a + 0)]
      BY <2>2, <1>9
    <3>2. answers[m] + (n - a + 0) = n - a
      BY <1>2, <1>8
    <3> QED  BY <2>2, <3>1, <3>2
  <2> QED  BY <2>1, <2>2
<1>12. answers'[m] = (IF called'[m] THEN 1 ELSE n - a) /\ answers' \in [Messages -> 0..2]
  BY <1>1, <1>2, <1>7, <1>11 DEF MessageTypes
<1>13. MessageTypes'
  BY <1>1, <1>3, <1>4, <1>6, <1>7, <1>12 DEF MessageTypes
<1>14. listeners'[m] = a /\ due'[m] = 0
  BY <1>1, <1>3, <1>7, <1>8 DEF MessageTypes
<1>15. SerializersInv(m)'
  <2>1. CASE n = 0
    <3>1. /\ rk'[m][1] = "none" /\ v # "none" /\ a = 0
          /\ answers'[m] = IF called'[m] THEN 1 ELSE 0
      BY <2>1, <1>1, <1>7, <1>12 DEF ValueResults
    <3> QED  BY <3>1, <1>4, <1>6, <1>14 DEF SerializersInv
  <2>2. CASE n > 0
    BY <2>2, <1>2, <1>4, <1>7, <1>10 DEF SerializersInv
  <2> QED  BY <1>2, <2>1, <2>2
<1>16. CopiesInv(m)'
  <2>1. CASE n = 0
    BY <2>1, <1>1, <1>7 DEF CopiesInv
  <2>2. CASE n > 0
    BY <2>2, <1>2, <1>7, <1>10, <1>12, <1>14 DEF CopiesInv
  <2> QED  BY <1>2, <2>1, <2>2
<1>17. ASSUME NEW x \in Messages, x # m PROVE MessageInv(x)'
  <2>1. Untouched(x)
    BY <1>1, <1>3, <1>5, <1>7, <1>11, <1>17 DEF Untouched, MessageTypes, DoProduce
  <2> QED  BY <2>1, <1>1, UntouchedInv
<1> QED  BY <1>7, <1>13, <1>15, <1>16, <1>17 DEF MessagesInv, MessageInv

\* A late result is used only if no failure has answered.
LEMMA SerializedStep ==
  ASSUME MessagesInv, NEW m \in Messages, NEW part \in Parts, NEW a \in 0..1,
         Serialized(m, part, a)
  PROVE  MessagesInv' /\ value[m] # "none" /\ rk[m][1] = "none"
<1> DEFINE n == IF ~called[m] /\ value'[m] = "ok" /\ key'[m] = "ok" THEN 1 ELSE 0
<1>1. /\ MessageTypes /\ MessageInv(m) /\ \A x \in Messages : MessageInv(x)
  BY DEF MessagesInv
<1>2. /\ called' = called /\ thrown' = thrown /\ due' = due
      /\ \/ /\ value[m] = "pending" /\ value' = [value EXCEPT ![m] = "ok"] /\ key' = key
         \/ /\ key[m] = "pending" /\ key' = [key EXCEPT ![m] = "ok"] /\ value' = value
  BY DEF Serialized, Result
<1>3. rk[m][1] = "none" /\ value[m] # "none"
  BY <1>1, <1>2 DEF MessageInv, SerializersInv
<1>4. DoProduce(m, n, a) /\ answers' = [answers EXCEPT ![m] = answers[m] + (n - a)]
  BY DEF Serialized, Answered
<1>5. /\ n \in 0..1
      /\ n > 0 => ~called[m] /\ value'[m] = "ok" /\ key'[m] = "ok"
  OBVIOUS
<1> HIDE DEF n
<1>6. /\ rk' \in [Messages -> [Copies -> Stages]]
      /\ listeners' = [listeners EXCEPT ![m] = a] /\ a <= n
      /\ listeners' \in [Messages -> 0..2] /\ ListenersInv(m)'
      /\ n = 0 => rk'[m] = rk[m] /\ a = 0
      /\ n > 0 => rk'[m][1] # "none"
      /\ rk'[m][2] = "none" <=> n < 2
  BY <1>1, <1>3, <1>4, <1>5, DoProduceInv
<1>7. due[m] = 0 /\ answers[m] \in 0..2 /\ (called[m] <=> answers[m] > 0)
  BY <1>1, <1>3 DEF MessageInv, SerializersInv, MessageTypes
<1>8. answers[m] + (n - a) \in 0..2 /\ (n > 0 => answers[m] = 0) /\ (n = 0 => n - a = 0)
  BY <1>5, <1>6, <1>7
<1>9. answers' \in [Messages -> 0..2] /\ answers'[m] = answers[m] + (n - a)
  BY <1>1, <1>4, <1>8 DEF MessageTypes
<1>10. value' \in [Messages -> Outcomes] /\ key' \in [Messages -> Outcomes]
  BY <1>1, <1>2 DEF MessageTypes, Outcomes
<1>11. MessageTypes'
  BY <1>1, <1>2, <1>6, <1>9, <1>10 DEF MessageTypes
<1>12. listeners'[m] = a /\ due'[m] = 0 /\ called'[m] = called[m] /\ thrown'[m] = thrown[m]
  BY <1>1, <1>2, <1>6, <1>7 DEF MessageTypes
<1>13. SerializersInv(m)'
  <2>1. CASE n = 0
    <3>1. rk'[m][1] = "none" /\ answers'[m] = answers[m] /\ listeners'[m] = 0
      BY <2>1, <1>3, <1>6, <1>7, <1>8, <1>9, <1>12
    <3>2. \/ value[m] = "pending" /\ value'[m] = "ok" /\ key'[m] = key[m]
          \/ key[m] = "pending" /\ key'[m] = "ok" /\ value'[m] = value[m]
      BY <1>1, <1>2 DEF MessageTypes
    <3>3. value'[m] # "none"
      BY <3>2, <1>3
    <3>4. SerializersInv(m)
      BY <1>1 DEF MessageInv
    <3> QED  BY <3>1, <3>2, <3>3, <3>4, <1>3, <1>7, <1>12 DEF SerializersInv
  <2>2. CASE n > 0
    <3>1. /\ ~called[m] /\ value'[m] = "ok" /\ key'[m] = "ok" /\ rk'[m][1] # "none"
      BY <2>2, <1>5, <1>6
    <3>2. ~thrown[m]
      <4>1. /\ thrown[m] => "threw" \in {value[m], key[m]}
            /\ "threw" \notin {value[m], key[m]}
        BY <1>1, <1>2, <3>1 DEF MessageInv, SerializersInv, MessageTypes
      <4> QED  BY <4>1
    <3> QED  BY <3>1, <3>2, <1>12 DEF SerializersInv
  <2> QED  BY <1>5, <2>1, <2>2
<1>14. CopiesInv(m)'
  <2>1. CASE n = 0
    BY <2>1, <1>3, <1>6 DEF CopiesInv
  <2>2. CASE n > 0
    BY <2>2, <1>5, <1>6, <1>8, <1>9, <1>12 DEF CopiesInv
  <2> QED  BY <1>5, <2>1, <2>2
<1>15. ASSUME NEW x \in Messages, x # m PROVE MessageInv(x)'
  <2>1. Untouched(x)
    BY <1>1, <1>2, <1>4, <1>6, <1>15 DEF Untouched, MessageTypes, DoProduce
  <2> QED  BY <2>1, <1>1, UntouchedInv
<1> QED  BY <1>3, <1>6, <1>11, <1>13, <1>14, <1>15 DEF MessagesInv, MessageInv

\* A serializer fails: the first failure answers.
LEMMA SerializerFailsStep ==
  ASSUME MessagesInv, NEW m \in Messages, NEW part \in Parts, SerializerFails(m, part)
  PROVE  MessagesInv' /\ value[m] # "none"
<1>1. /\ MessageTypes /\ MessageInv(m) /\ \A x \in Messages : MessageInv(x)
  BY DEF MessagesInv
<1>2. /\ UNCHANGED <<rk, thrown, listeners, due>>
      /\ called' = [called EXCEPT ![m] = TRUE]
      /\ answers' = [answers EXCEPT ![m] = answers[m] + (IF called[m] THEN 0 ELSE 1)]
      /\ \/ /\ value[m] = "pending" /\ value' = [value EXCEPT ![m] = "failed"] /\ key' = key
         \/ /\ key[m] = "pending" /\ key' = [key EXCEPT ![m] = "failed"] /\ value' = value
  BY DEF SerializerFails, Result, Answered
<1>3. rk[m][1] = "none" /\ value[m] # "none"
  BY <1>1, <1>2 DEF MessageInv, SerializersInv
<1>4. /\ answers[m] \in 0..2 /\ (called[m] <=> answers[m] > 0)
      /\ listeners[m] = 0 /\ due[m] = 0
  BY <1>1, <1>3 DEF MessageInv, SerializersInv, MessageTypes
<1>5. answers[m] # 2
  BY <1>1, <1>2, <1>3 DEF MessageInv, SerializersInv
<1>6. answers[m] + (IF called[m] THEN 0 ELSE 1) = 1
  <2>1. CASE called[m]
    BY <2>1, <1>4, <1>5
  <2>2. CASE ~called[m]
    BY <2>2, <1>4
  <2> QED  BY <2>1, <2>2
<1>7. answers' \in [Messages -> 0..2] /\ answers'[m] = 1
  BY <1>1, <1>2, <1>6 DEF MessageTypes
<1>8. /\ value' \in [Messages -> Outcomes] /\ key' \in [Messages -> Outcomes]
      /\ called' \in [Messages -> BOOLEAN] /\ called'[m] = TRUE
  BY <1>1, <1>2 DEF MessageTypes, Outcomes
<1>9. MessageTypes'
  BY <1>1, <1>2, <1>7, <1>8 DEF MessageTypes
<1>10. SerializersInv(m)'
  <2>1. \/ value[m] = "pending" /\ value'[m] = "failed" /\ key'[m] = key[m]
        \/ key[m] = "pending" /\ key'[m] = "failed" /\ value'[m] = value[m]
    BY <1>1, <1>2 DEF MessageTypes
  <2>2. SerializersInv(m)
    BY <1>1 DEF MessageInv
  <2>3. value'[m] # "none" /\ "failed" \in {value'[m], key'[m]}
    BY <2>1, <1>3
  <2>4. thrown[m] => "threw" \in {value'[m], key'[m]}
    BY <2>1, <2>2 DEF SerializersInv
  <2> QED  BY <2>3, <2>4, <1>2, <1>3, <1>4, <1>7, <1>8 DEF SerializersInv
<1>11. ListenersInv(m)' /\ CopiesInv(m)'
  BY <1>1, <1>2, <1>3 DEF MessageInv, ListenersInv, Told, CopiesInv
<1>12. ASSUME NEW x \in Messages, x # m PROVE MessageInv(x)'
  <2>1. Untouched(x)
    BY <1>1, <1>2, <1>12 DEF Untouched, MessageTypes
  <2> QED  BY <2>1, <1>1, UntouchedInv
<1> QED  BY <1>3, <1>9, <1>10, <1>11, <1>12 DEF MessagesInv, MessageInv

\* The setImmediate after a throw answers without a test of calledBack.
LEMMA ThrownStep ==
  ASSUME MessagesInv, NEW m \in Messages, ThrownReported(m)
  PROVE  MessagesInv'
<1>1. /\ MessageTypes /\ MessageInv(m) /\ \A x \in Messages : MessageInv(x)
  BY DEF MessagesInv
<1>2. /\ UNCHANGED <<rk, value, key, listeners, due>>
      /\ thrown[m] /\ thrown' = [thrown EXCEPT ![m] = FALSE]
      /\ called' = [called EXCEPT ![m] = TRUE]
      /\ answers' = [answers EXCEPT ![m] = answers[m] + 1]
  BY DEF ThrownReported, Answered
<1>3. /\ rk[m][1] = "none" /\ value[m] # "none" /\ answers[m] \in 0..1
      /\ listeners[m] = 0 /\ due[m] = 0
      /\ "threw" \in {value[m], key[m]}
      /\ answers[m] = 1 => "failed" \in {value[m], key[m]}
  BY <1>1, <1>2 DEF MessageInv, SerializersInv, MessageTypes
<1>4. /\ answers' \in [Messages -> 0..2] /\ answers'[m] = answers[m] + 1
      /\ called' \in [Messages -> BOOLEAN] /\ called'[m] = TRUE
      /\ thrown' \in [Messages -> BOOLEAN] /\ thrown'[m] = FALSE
  BY <1>1, <1>2, <1>3 DEF MessageTypes
<1>5. MessageTypes'
  BY <1>1, <1>2, <1>4 DEF MessageTypes
<1>6. answers'[m] = 2 => {value[m], key[m]} = {"failed", "threw"}
  <2>1. answers'[m] = 2 => answers[m] = 1
    BY <1>3, <1>4
  <2> QED  BY <2>1, <1>3
<1>7. SerializersInv(m)'
  BY <1>2, <1>3, <1>4, <1>6 DEF SerializersInv
<1>8. ListenersInv(m)' /\ CopiesInv(m)'
  BY <1>1, <1>2, <1>3 DEF MessageInv, ListenersInv, Told, CopiesInv
<1>9. ASSUME NEW x \in Messages, x # m PROVE MessageInv(x)'
  <2>1. Untouched(x)
    BY <1>1, <1>2, <1>9 DEF Untouched, MessageTypes
  <2> QED  BY <2>1, <1>1, UntouchedInv
<1> QED  BY <1>5, <1>7, <1>8, <1>9 DEF MessagesInv, MessageInv

\* The delivery callback.
LEMMA AnswerStep ==
  ASSUME MessagesInv, NEW m \in Messages, Answer(m)
  PROVE  MessagesInv'
<1>1. /\ MessageTypes /\ MessageInv(m) /\ \A x \in Messages : MessageInv(x)
  BY DEF MessagesInv
<1>2. /\ UNCHANGED <<rk, value, key, called, thrown, listeners>>
      /\ due[m] > 0 /\ due' = [due EXCEPT ![m] = due[m] - 1]
      /\ answers' = [answers EXCEPT ![m] = answers[m] + 1]
  BY DEF Answer, Answered
<1>3. /\ answers[m] \in 0..2 /\ due[m] \in 1..2 /\ listeners[m] \in 0..2
  BY <1>1, <1>2 DEF MessageTypes
<1>4. rk[m][1] # "none" /\ answers[m] + 1 \in 0..2 /\ due[m] - 1 \in 0..2
  BY <1>1, <1>2, <1>3 DEF MessageInv, SerializersInv, CopiesInv
<1>5. /\ answers' \in [Messages -> 0..2] /\ answers'[m] = answers[m] + 1
      /\ due' \in [Messages -> 0..2] /\ due'[m] = due[m] - 1
  BY <1>1, <1>2, <1>4 DEF MessageTypes
<1>6. MessageTypes'
  BY <1>1, <1>2, <1>5 DEF MessageTypes
<1>7. SerializersInv(m)' /\ ListenersInv(m)'
  BY <1>1, <1>2, <1>4 DEF MessageInv, SerializersInv, ListenersInv, Told
<1>8. CopiesInv(m)'
  BY <1>1, <1>2, <1>3, <1>5 DEF MessageInv, CopiesInv
<1>9. ASSUME NEW x \in Messages, x # m PROVE MessageInv(x)'
  <2>1. Untouched(x)
    BY <1>1, <1>2, <1>9 DEF Untouched, MessageTypes
  <2> QED  BY <2>1, <1>1, UntouchedInv
<1> QED  BY <1>6, <1>7, <1>8, <1>9 DEF MessagesInv, MessageInv

\* Copies that are sent go on: acknowledged, polled, or lost.
Moved(s, t) == t = s \/ (s \in {"sent", "acked", "event"} /\ t \in {"acked", "event", "lost"})
CopiesMove ==
  /\ rk' \in [Messages -> [Copies -> Stages]]
  /\ \A m \in Messages, c \in Copies : Moved(rk[m][c], rk'[m][c])

LEMMA MovesStep ==
  ASSUME MessagesInv, CopiesMove, UNCHANGED message
  PROVE  MessagesInv'
<1>1. /\ MessageTypes /\ \A m \in Messages : MessageInv(m)
      /\ UNCHANGED <<value, key, called, thrown, answers, listeners, due>>
  BY DEF MessagesInv, message
<1>2. MessageTypes'
  BY <1>1 DEF MessageTypes, CopiesMove
<1>3. ASSUME NEW m \in Messages PROVE MessageInv(m)'
  <2>1. MessageInv(m) /\ Moved(rk[m][1], rk'[m][1]) /\ Moved(rk[m][2], rk'[m][2])
    BY <1>1 DEF CopiesMove, Copies
  <2>2. SerializersInv(m)'
    BY <2>1, <1>1 DEF Moved, MessageInv, SerializersInv
  <2>3. ListenersInv(m)' /\ CopiesInv(m)'
    BY <2>1, <1>1 DEF Moved, MessageInv, ListenersInv, Told, Listens, CopiesInv
  <2> QED  BY <2>2, <2>3 DEF MessageInv
<1> QED  BY <1>2, <1>3 DEF MessagesInv

\* The first report of a message removes its listeners and makes their answers
\* due; a second finds none.
LEMMA HandedStep ==
  ASSUME MessagesInv, NEW m \in Messages, NEW c \in Copies, Handed(m, c)
  PROVE  MessagesInv'
<1>1. /\ MessageTypes /\ MessageInv(m) /\ \A x \in Messages : MessageInv(x)
  BY DEF MessagesInv
<1>2. /\ UNCHANGED <<value, key, called, thrown, answers>>
      /\ rk[m][c] = "event" /\ rk' = [rk EXCEPT ![m][c] = "told"]
      /\ due' = [due EXCEPT ![m] = due[m] + listeners[m]]
      /\ listeners' = [listeners EXCEPT ![m] = 0]
  BY DEF Handed
<1>3. /\ rk' \in [Messages -> [Copies -> Stages]]
      /\ rk'[m][c] = "told" /\ \A d \in Copies \ {c} : rk'[m][d] = rk[m][d]
      /\ \A x \in Messages \ {m} : rk'[x] = rk[x]
  BY <1>1, <1>2 DEF MessageTypes, Stages
<1>4. rk[m][1] # "none"
  BY <1>1, <1>2 DEF MessageInv, CopiesInv, Copies
<1>5. /\ answers[m] \in 0..2 /\ due[m] \in 0..2 /\ listeners[m] \in 0..2
      /\ answers[m] + due[m] + listeners[m] = (IF rk[m][2] = "none" THEN 1 ELSE 2)
  BY <1>1, <1>4 DEF MessageTypes, MessageInv, CopiesInv
<1>6. due[m] + listeners[m] \in 0..2
  BY <1>5
<1>7. /\ due' \in [Messages -> 0..2] /\ due'[m] = due[m] + listeners[m]
      /\ listeners' \in [Messages -> 0..2] /\ listeners'[m] = 0
  BY <1>1, <1>2, <1>6 DEF MessageTypes
<1>8. MessageTypes'
  BY <1>1, <1>2, <1>3, <1>7 DEF MessageTypes
<1>9. /\ Told(m)' /\ rk'[m][1] # "none" /\ (rk'[m][2] = "none" <=> rk[m][2] = "none")
  BY <1>2, <1>3, <1>4 DEF Told, Copies
<1>10. SerializersInv(m)'
  BY <1>1, <1>2, <1>4, <1>9 DEF MessageInv, SerializersInv
<1>11. ListenersInv(m)'
  BY <1>7, <1>9 DEF ListenersInv
<1>12. CopiesInv(m)'
  BY <1>2, <1>5, <1>7, <1>9 DEF CopiesInv
<1>13. ASSUME NEW x \in Messages, x # m PROVE MessageInv(x)'
  <2>1. Untouched(x)
    BY <1>1, <1>2, <1>3, <1>13 DEF Untouched, MessageTypes
  <2> QED  BY <2>1, <1>1, UntouchedInv
<1> QED  BY <1>8, <1>10, <1>11, <1>12, <1>13 DEF MessagesInv, MessageInv

\* What the other steps do to the messages.
LEMMA OtherMoves ==
  ASSUME MessageTypes,
         \/ ClientDeleted \/ Disconnected \/ FailureDone \/ FastTick \/ OtherPoll
         \/ \E m \in Messages, c \in Copies : Acknowledge(m, c)
         \/ \E on \in BOOLEAN : UserSetsInterval(on)
         \/ Connected \/ Ready \/ MetadataFails \/ Disconnect \/ UNCHANGED vars
  PROVE  CopiesMove /\ UNCHANGED message
<1>1. UNCHANGED message
  BY DEF ClientDeleted, Disconnected, FailureDone, FastTick, OtherPoll, Acknowledge,
         UserSetsInterval, Connected, Ready, MetadataFails, Disconnect, vars
<1>2. CASE rk' = rk
  <2>1. rk' \in [Messages -> [Copies -> Stages]]
    BY <1>2 DEF MessageTypes
  <2>2. \A m \in Messages, c \in Copies : Moved(rk[m][c], rk'[m][c])
    BY <1>2 DEF Moved
  <2> QED  BY <2>1, <2>2, <1>1 DEF CopiesMove
<1>3. ASSUME NEW X, X \subseteq {"sent", "acked", "event"}, Lose(X)
      PROVE  CopiesMove
  BY <1>3 DEF Lose, MessageTypes, CopiesMove, Moved, Stages
<1>4. CASE ClientDeleted
  BY <1>4, <1>3, <1>1 DEF ClientDeleted
<1>5. CASE Disconnected \/ FailureDone
  BY <1>5, <1>3, <1>1 DEF Disconnected, FailureDone, DispatchersClosed
<1>6. CASE Poll
  BY <1>6, <1>1 DEF Poll, MessageTypes, CopiesMove, Moved, Stages
<1>7. CASE FastTick \/ OtherPoll
  BY <1>7, <1>2, <1>6 DEF FastTick, OtherPoll
<1>8. ASSUME NEW m \in Messages, NEW c \in Copies, Acknowledge(m, c) PROVE CopiesMove
  BY <1>8 DEF Acknowledge, MessageTypes, CopiesMove, Moved, Stages
<1>9. CASE \/ \E on \in BOOLEAN : UserSetsInterval(on)
           \/ Connected \/ Ready \/ MetadataFails \/ Disconnect \/ UNCHANGED vars
  BY <1>9, <1>2 DEF UserSetsInterval, Connected, Ready, MetadataFails, Disconnect, vars
<1> QED  BY <1>1, <1>4, <1>5, <1>7, <1>8, <1>9

\* The steps, grouped by what they do to the messages.
LEMMA Steps ==
  ASSUME [Next]_vars
  PROVE  \/ \E m \in Messages, v \in ValueResults, k \in KeyResults, a \in 0..2 :
              Produce(m, v, k, a)
         \/ \E m \in Messages, part \in Parts, a \in 0..1 : Serialized(m, part, a)
         \/ \E m \in Messages, part \in Parts : SerializerFails(m, part)
         \/ \E m \in Messages : ThrownReported(m) \/ Answer(m)
         \/ \E m \in Messages, c \in Copies : Emit(m, c)
         \/ \/ ClientDeleted \/ Disconnected \/ FailureDone \/ FastTick \/ OtherPoll
            \/ \E m \in Messages, c \in Copies : Acknowledge(m, c)
            \/ \E on \in BOOLEAN : UserSetsInterval(on)
            \/ Connected \/ Ready \/ MetadataFails \/ Disconnect \/ UNCHANGED vars
<1>1. ASSUME NEW m \in Messages, Producing(m)
      PROVE  \/ \E v \in ValueResults, k \in KeyResults, a \in 0..2 : Produce(m, v, k, a)
             \/ \E part \in Parts, a \in 0..1 : Serialized(m, part, a)
             \/ \E part \in Parts : SerializerFails(m, part)
             \/ ThrownReported(m)
  <2>1. KeyResults = {"ok", "now", "pending", "failed", "threw"}
    BY DEF KeyResults, ValueResults
  <2> QED  BY <1>1, <2>1, Zenon DEF Producing, ValueResults, Parts
<1>2. ASSUME NEW m \in Messages, Delivering(m)
      PROVE  (\E c \in Copies : Acknowledge(m, c) \/ Emit(m, c)) \/ Answer(m)
  BY <1>2 DEF Delivering
<1>3. CASE \E m \in Messages : Producing(m)
  BY <1>1, <1>3, Zenon
<1>4. CASE \E m \in Messages : Delivering(m)
  BY <1>2, <1>4, Zenon
<1> QED  BY <1>3, <1>4 DEF Next

LEMMA MessagesNext == MessagesInv /\ [Next]_vars => MessagesInv'
<1> SUFFICES ASSUME MessagesInv, [Next]_vars PROVE MessagesInv'
  OBVIOUS
<1>1. MessageTypes
  BY DEF MessagesInv
<1>2. ASSUME NEW m \in Messages, NEW c \in Copies, Emit(m, c) PROVE MessagesInv'
  BY <1>2, HandedStep DEF Emit
<1> QED  BY <1>1, <1>2, Steps, ProduceStep, SerializedStep, SerializerFailsStep, ThrownStep,
            AnswerStep, OtherMoves, MovesStep

LEMMA MessagesInit == Init => MessagesInv
<1> SUFFICES ASSUME Init PROVE MessagesInv
  OBVIOUS
<1>1. MessageTypes
  BY DEF Init, MessageTypes, Stages, Outcomes
<1>2. ASSUME NEW m \in Messages PROVE MessageInv(m)
  BY DEF Init, MessageInv, SerializersInv, ListenersInv, Told, Listens, CopiesInv, Copies
<1> QED  BY <1>1, <1>2 DEF MessagesInv

LEMMA ReportedTold == \A m \in Messages : Reported(m) <=> Told(m)
BY DEF Reported, Told, Copies

\* HighLevelProducer!AnsweredOnce: the caller's callback runs at most once, by
\* a failure or by the delivery report, except in the two cases it names
\* (_modifiedProduce).
THEOREM AnswersSafe == Spec => []AnsweredOnce
<1>1. MessagesInv => AnsweredOnce
  <2> SUFFICES ASSUME MessagesInv, NEW m \in Messages
               PROVE  /\ answers[m] + due[m] > 1 =>
                           Doubled(m) \/ {value[m], key[m]} = {"failed", "threw"}
                      /\ answers[m] + due[m] > 0 <=> Reported(m) \/ Refused(m) \/ called[m]
                      /\ rk[m][1] # "none" => ~called[m]
    BY DEF AnsweredOnce
  <2>1. /\ SerializersInv(m) /\ ListenersInv(m) /\ CopiesInv(m)
        /\ answers[m] \in 0..2 /\ due[m] \in 0..2 /\ listeners[m] \in 0..2
        /\ rk[m][1] \in Stages /\ rk[m][2] \in Stages
    BY DEF MessagesInv, MessageTypes, MessageInv, Copies
  <2>2. /\ Reported(m) <=> Told(m)
        /\ Refused(m) <=> rk[m][1] = "refused" \/ rk[m][2] = "refused"
    BY ReportedTold DEF Refused, Copies
  <2>3. CASE rk[m][1] = "none"
    <3>1. ~Told(m) /\ ~Refused(m) /\ due[m] = 0 /\ (called[m] <=> answers[m] > 0)
          /\ (answers[m] = 2 => {value[m], key[m]} = {"failed", "threw"})
      BY <2>1, <2>2, <2>3 DEF SerializersInv, CopiesInv, Told
    <3> QED  BY <2>1, <2>2, <2>3, <3>1
  <2>4. CASE rk[m][1] # "none"
    <3>1. ~called[m]
      BY <2>1, <2>4 DEF SerializersInv
    <3>2. answers[m] + due[m] + listeners[m] = (IF rk[m][2] = "none" THEN 1 ELSE 2)
      BY <2>1, <2>4 DEF CopiesInv
    <3>3. answers[m] + due[m] > 1 => Doubled(m)
      BY <2>1, <3>2 DEF Doubled
    <3>4. answers[m] + due[m] > 0 <=> Told(m) \/ Refused(m)
      <4>1. CASE Told(m)
        BY <4>1, <2>1, <3>2 DEF ListenersInv
      <4>2. CASE ~Told(m)
        BY <4>2, <2>1, <2>2, <2>4, <3>2 DEF ListenersInv, Told, Listens, Stages
      <4> QED  BY <4>1, <4>2
    <3> QED  BY <2>2, <2>4, <3>1, <3>3, <3>4
  <2> QED  BY <2>3, <2>4
<1> QED  BY <1>1, MessagesInit, MessagesNext, PTL DEF Spec

-----------------------------------------------------------------------------
(* The reference counter and its timer.                                      *)

Switches == running \in BOOLEAN /\ fast \in BOOLEAN /\ stopped \in BOOLEAN

\* The counter against the reports owed, and the timer against the counter.
CountInv ==
  /\ refs = Cardinality(Unreturned) - Cardinality(ReturnedTwice)
  /\ running <=> refs > 0
  /\ fast <=> running /\ ~stopped
  /\ stopped => running

BothTaken(m) == rk[m][1] \notin {"none", "refused"} /\ rk[m][2] \notin {"none", "refused"}

LEMMA SetsAsStages ==
  ASSUME NEW m \in Messages
  PROVE  /\ Reported(m) <=> Told(m)
         /\ Reported(m)' <=> Told(m)'
         /\ Taken(m) = Copies <=> BothTaken(m)
         /\ Taken(m)' = Copies <=> BothTaken(m)'
BY DEF Reported, Told, Taken, BothTaken, Copies

LEMMA SetsFinite ==
  /\ IsFiniteSet(Unreturned) /\ Cardinality(Unreturned) \in Nat
  /\ IsFiniteSet(ReturnedTwice) /\ Cardinality(ReturnedTwice) \in Nat
<1>1. Unreturned \subseteq Messages /\ ReturnedTwice \subseteq Messages
  BY DEF Unreturned, ReturnedTwice
<1> QED  BY <1>1, FS_Subset, FS_CardinalityType

\* Nothing moves between the sets as long as the messages begun, reported and
\* taken twice are the same.
LEMMA SetsKept ==
  ASSUME \A m \in Messages :
           /\ value'[m] = "none" <=> value[m] = "none"
           /\ Told(m)' <=> Told(m)
           /\ Told(m) => (BothTaken(m)' <=> BothTaken(m))
  PROVE  Unreturned' = Unreturned /\ ReturnedTwice' = ReturnedTwice
<1>1. Unreturned' = Unreturned
  BY SetsAsStages DEF Unreturned
<1>2. ReturnedTwice' = ReturnedTwice
  <2>1. \A m \in Messages : (Reported(m) /\ Taken(m) = Copies)'
                              <=> Reported(m) /\ Taken(m) = Copies
    BY SetsAsStages
  <2> QED  BY <2>1 DEF ReturnedTwice
<1> QED  BY <1>1, <1>2

\* produce() takes one reference and starts the timer if none ran.
LEMMA CountProduce ==
  ASSUME MessagesInv, CountInv, Switches, NEW m \in Messages, NEW v \in ValueResults,
         NEW k \in KeyResults, NEW a \in 0..2, Produce(m, v, k, a)
  PROVE  CountInv' /\ Switches'
<1>1. /\ value[m] = "none" /\ value' = [value EXCEPT ![m] = v] /\ v # "none"
      /\ refs' = refs + 1 /\ running' = (running \/ refs' > 0)
      /\ fast' = (fast \/ (refs' > 0 /\ ~running)) /\ stopped' = stopped
  BY DEF Produce, Increment, ValueResults
<1>2. /\ \A x \in Messages : x # m => value'[x] = value[x] /\ rk'[x] = rk[x]
      /\ value'[m] # "none" /\ ~Told(m) /\ ~Told(m)'
  <2>1. MessageTypes /\ SerializersInv(m) /\ CopiesInv(m)
    BY DEF MessagesInv, MessageInv
  <2>2. rk[m][1] = "none" /\ rk[m][2] = "none" /\ DoProduce(m, Attempts(v, k), a)
    BY <1>1, <2>1 DEF SerializersInv, CopiesInv, Produce
  <2>3. /\ \A x \in Messages : x # m => rk'[x] = rk[x]
        /\ \A c \in Copies : rk'[m][c] \in {"sent", "refused", rk[m][c]}
    BY <2>1, <2>2 DEF DoProduce, MessageTypes
  <2>4. ~Told(m) /\ ~Told(m)'
    BY <2>2, <2>3 DEF Told, Copies
  <2>5. value'[m] = v /\ \A x \in Messages : x # m => value'[x] = value[x]
    BY <1>1, <2>1 DEF MessageTypes
  <2> QED  BY <1>1, <2>3, <2>4, <2>5
<1>3. Unreturned' = Unreturned \cup {m} /\ m \notin Unreturned
  <2>1. \A x \in Messages : Reported(x)' <=> Reported(x)
    <3>1. \A x \in Messages : x # m => (Told(x)' <=> Told(x))
      BY <1>2 DEF Told
    <3> QED  BY <1>2, <3>1, SetsAsStages
  <2>2. ~Reported(m) /\ ~Reported(m)'
    BY <1>2, SetsAsStages
  <2> QED  BY <1>1, <1>2, <2>1, <2>2 DEF Unreturned
<1>4. ReturnedTwice' = ReturnedTwice
  <2>1. \A x \in Messages : (Reported(x) /\ Taken(x) = Copies)'
                              <=> Reported(x) /\ Taken(x) = Copies
    <3>1. \A x \in Messages : x # m => (Told(x)' <=> Told(x)) /\ (BothTaken(x)' <=> BothTaken(x))
      BY <1>2 DEF Told, BothTaken
    <3> QED  BY <1>2, <3>1, SetsAsStages
  <2> QED  BY <2>1 DEF ReturnedTwice
<1>5. Cardinality(Unreturned') = Cardinality(Unreturned) + 1
  BY <1>3, SetsFinite, FS_AddElement
<1>6. /\ refs \in Int /\ refs' = Cardinality(Unreturned') - Cardinality(ReturnedTwice')
  BY <1>1, <1>4, <1>5, SetsFinite DEF CountInv
<1>7. refs > 0 => refs' > 0
  BY <1>1, <1>6
<1>8. /\ running' \in BOOLEAN /\ (running' <=> refs' > 0)
      /\ fast' \in BOOLEAN /\ (fast' <=> running' /\ ~stopped') /\ (stopped' => running')
  BY <1>1, <1>7 DEF CountInv, Switches
<1> QED  BY <1>1, <1>6, <1>8 DEF CountInv, Switches

\* The first report of a message gives back a reference for each listener.
LEMMA CountEmit ==
  ASSUME MessagesInv, CountInv, Switches, NEW m \in Messages, NEW c \in Copies, Emit(m, c)
  PROVE  CountInv' /\ Switches'
<1>1. /\ rk[m][c] = "event" /\ rk' = [rk EXCEPT ![m][c] = "told"] /\ value' = value
      /\ refs' = refs - listeners[m]
      /\ running' = (running /\ refs' > 0) /\ fast' = (fast /\ refs' > 0)
      /\ stopped' = (stopped /\ refs' > 0)
  BY DEF Emit, Handed
<1>2. /\ MessageTypes /\ SerializersInv(m) /\ ListenersInv(m) /\ CopiesInv(m)
      /\ rk[m][1] \in Stages /\ rk[m][2] \in Stages /\ listeners[m] \in 0..2
  BY DEF MessagesInv, MessageInv, MessageTypes, Copies
<1>3. /\ rk'[m][c] = "told" /\ \A d \in Copies \ {c} : rk'[m][d] = rk[m][d]
      /\ \A x \in Messages \ {m} : rk'[x] = rk[x]
  BY <1>1, <1>2 DEF MessageTypes
<1>4. /\ Told(m)' /\ (BothTaken(m)' <=> BothTaken(m)) /\ value[m] # "none"
  BY <1>1, <1>2, <1>3 DEF Told, BothTaken, Copies, SerializersInv, CopiesInv
<1>5. \A x \in Messages : x # m => (Told(x)' <=> Told(x)) /\ (BothTaken(x)' <=> BothTaken(x))
  BY <1>3 DEF Told, BothTaken
<1>6. /\ refs \in Int /\ refs' \in Int /\ refs' <= refs
      /\ refs' = Cardinality(Unreturned') - Cardinality(ReturnedTwice')
  <2>0. refs \in Int
    BY SetsFinite DEF CountInv
  <2>1. CASE Told(m)
    <3>1. Unreturned' = Unreturned /\ ReturnedTwice' = ReturnedTwice
      BY <1>1, <1>4, <1>5, <2>1, SetsKept
    <3>2. listeners[m] = 0
      BY <1>2, <2>1 DEF ListenersInv
    <3> QED  BY <2>0, <3>1, <3>2, <1>1 DEF CountInv
  <2>2. CASE ~Told(m)
    <3>1. listeners[m] = IF BothTaken(m) THEN 2 ELSE 1
      BY <1>1, <1>2, <2>2 DEF ListenersInv, Listens, Told, BothTaken, Stages, Copies
    <3>2. Unreturned' = Unreturned \ {m} /\ m \in Unreturned
      BY <1>1, <1>4, <1>5, <2>2, SetsAsStages DEF Unreturned
    <3>3. Cardinality(Unreturned') = Cardinality(Unreturned) - 1
      BY <3>2, SetsFinite, FS_RemoveElement
    <3>4. CASE BothTaken(m)
      <4>1. ReturnedTwice' = ReturnedTwice \cup {m} /\ m \notin ReturnedTwice
        BY <1>4, <1>5, <2>2, <3>4, SetsAsStages DEF ReturnedTwice
      <4>2. Cardinality(ReturnedTwice') = Cardinality(ReturnedTwice) + 1
        BY <4>1, SetsFinite, FS_AddElement
      <4> QED  BY <2>0, <3>1, <3>3, <3>4, <4>2, <1>1, SetsFinite DEF CountInv
    <3>5. CASE ~BothTaken(m)
      <4>1. \A x \in Messages : (Reported(x) /\ Taken(x) = Copies)'
                                  <=> Reported(x) /\ Taken(x) = Copies
        BY <1>4, <1>5, <3>5, SetsAsStages
      <4>2. ReturnedTwice' = ReturnedTwice
        BY <4>1 DEF ReturnedTwice
      <4> QED  BY <2>0, <3>1, <3>3, <3>5, <4>2, <1>1, SetsFinite DEF CountInv
    <3> QED  BY <3>4, <3>5
  <2> QED  BY <2>1, <2>2
<1>7. refs' > 0 => refs > 0
  BY <1>6
<1>8. /\ running' \in BOOLEAN /\ (running' <=> refs' > 0)
      /\ fast' \in BOOLEAN /\ stopped' \in BOOLEAN
      /\ (fast' <=> running' /\ ~stopped') /\ (stopped' => running')
  BY <1>1, <1>7 DEF CountInv, Switches
<1> QED  BY <1>6, <1>8 DEF CountInv, Switches

\* Every other step leaves the references and the counter alone; FastTick may
\* end the timer, which "stopped" remembers.
LEMMA CountKept ==
  ASSUME CountInv, Switches, Unreturned' = Unreturned, ReturnedTwice' = ReturnedTwice,
         UNCHANGED counter \/ FastTick
  PROVE  CountInv' /\ Switches'
<1>1. CASE UNCHANGED counter
  BY <1>1 DEF counter, CountInv, Switches
<1>2. CASE FastTick
  <2>1. /\ refs' = refs /\ running' = running /\ fast
        /\ \/ fast' = fast /\ stopped' = stopped
           \/ fast' = FALSE /\ stopped' = TRUE
    BY <1>2 DEF FastTick
  <2>2. /\ fast' <=> running' /\ ~stopped'
        /\ stopped' => running'
        /\ Switches'
    <3>1. CASE fast' = fast /\ stopped' = stopped
      BY <2>1, <3>1 DEF CountInv, Switches
    <3>2. CASE fast' = FALSE /\ stopped' = TRUE
      BY <2>1, <3>2, Zenon DEF CountInv, Switches
    <3> QED  BY <2>1, <3>1, <3>2
  <2> QED  BY <2>1, <2>2 DEF CountInv
<1> QED  BY <1>1, <1>2

CounterInv == MessagesInv /\ CountInv /\ Switches

LEMMA CounterNext == CounterInv /\ [Next]_vars => CounterInv'
<1> SUFFICES ASSUME CounterInv, [Next]_vars PROVE CountInv' /\ Switches'
  BY MessagesNext DEF CounterInv
<1>0. MessagesInv /\ MessageTypes /\ CountInv /\ Switches
  BY DEF CounterInv, MessagesInv
<1>1. ASSUME NEW m \in Messages, NEW v \in ValueResults, NEW k \in KeyResults, NEW a \in 0..2,
             Produce(m, v, k, a)
      PROVE  CountInv' /\ Switches'
  BY <1>0, <1>1, CountProduce
<1>2. ASSUME NEW m \in Messages, NEW c \in Copies, Emit(m, c) PROVE CountInv' /\ Switches'
  BY <1>0, <1>2, CountEmit
<1>3. ASSUME NEW m \in Messages, NEW part \in Parts, NEW a \in 0..1, Serialized(m, part, a)
      PROVE  CountInv' /\ Switches'
  <2>1. /\ rk[m][1] = "none" /\ rk[m][2] = "none" /\ value[m] # "none" /\ UNCHANGED counter
        /\ value' \in {value, [value EXCEPT ![m] = "ok"]}
    BY <1>0, <1>3, SerializedStep DEF Serialized, Result, MessagesInv, MessageInv, CopiesInv
  <2>2. /\ \A x \in Messages : x # m => rk'[x] = rk[x]
        /\ \A c \in Copies : rk'[m][c] \in {"sent", "refused", rk[m][c]}
    BY <1>0, <1>3 DEF Serialized, DoProduce, MessageTypes
  <2>3. ~Told(m) /\ ~Told(m)'
    BY <2>1, <2>2 DEF Told, Copies
  <2>4. \A x \in Messages : value'[x] = "none" <=> value[x] = "none"
    BY <1>0, <2>1 DEF MessageTypes
  <2>5. \A x \in Messages : x # m => (Told(x)' <=> Told(x)) /\ (BothTaken(x)' <=> BothTaken(x))
    BY <2>2 DEF Told, BothTaken
  <2>6. Unreturned' = Unreturned /\ ReturnedTwice' = ReturnedTwice
    BY <2>3, <2>4, <2>5, SetsKept
  <2> QED  BY <1>0, <2>1, <2>6, CountKept
<1>4. ASSUME NEW m \in Messages, NEW part \in Parts, SerializerFails(m, part)
      PROVE  CountInv' /\ Switches'
  <2>1. /\ rk' = rk /\ value[m] # "none" /\ UNCHANGED counter
        /\ value' \in {value, [value EXCEPT ![m] = "failed"]}
    BY <1>0, <1>4, SerializerFailsStep DEF SerializerFails, Result
  <2>2. \A x \in Messages : /\ value'[x] = "none" <=> value[x] = "none"
                            /\ Told(x)' <=> Told(x)
                            /\ BothTaken(x)' <=> BothTaken(x)
    BY <1>0, <2>1 DEF MessageTypes, Told, BothTaken
  <2> QED  BY <1>0, <2>1, <2>2, SetsKept, CountKept
<1>5. ASSUME NEW m \in Messages, ThrownReported(m) \/ Answer(m)
      PROVE  CountInv' /\ Switches'
  <2>1. rk' = rk /\ value' = value /\ UNCHANGED counter
    BY <1>5 DEF ThrownReported, Answer
  <2>2. \A x \in Messages : /\ value'[x] = "none" <=> value[x] = "none"
                            /\ Told(x)' <=> Told(x)
                            /\ BothTaken(x)' <=> BothTaken(x)
    BY <2>1 DEF Told, BothTaken
  <2> QED  BY <1>0, <2>1, <2>2, SetsKept, CountKept
<1>6. ASSUME \/ ClientDeleted \/ Disconnected \/ FailureDone \/ FastTick \/ OtherPoll
             \/ \E m \in Messages, c \in Copies : Acknowledge(m, c)
             \/ \E on \in BOOLEAN : UserSetsInterval(on)
             \/ Connected \/ Ready \/ MetadataFails \/ Disconnect \/ UNCHANGED vars
      PROVE  CountInv' /\ Switches'
  <2>1. CopiesMove /\ value' = value
    BY <1>0, <1>6, OtherMoves DEF message
  <2>2. UNCHANGED counter \/ FastTick
    BY <1>6 DEF ClientDeleted, Disconnected, FailureDone, OtherPoll, Acknowledge,
                UserSetsInterval, Connected, Ready, MetadataFails, Disconnect, vars
  <2>3. ASSUME NEW x \in Messages
        PROVE  (Told(x)' <=> Told(x)) /\ (BothTaken(x)' <=> BothTaken(x))
    <3>1. Moved(rk[x][1], rk'[x][1]) /\ Moved(rk[x][2], rk'[x][2])
      BY <2>1 DEF CopiesMove, Copies
    <3> QED  BY <3>1 DEF Moved, Told, BothTaken
  <2>4. Unreturned' = Unreturned /\ ReturnedTwice' = ReturnedTwice
    BY <2>1, <2>3, SetsKept
  <2> QED  BY <1>0, <2>2, <2>4, CountKept
<1> QED  BY <1>1, <1>2, <1>3, <1>4, <1>5, <1>6, Steps

LEMMA CounterInit == Init => CounterInv
<1> SUFFICES ASSUME Init PROVE CounterInv
  OBVIOUS
<1>1. Unreturned = {} /\ ReturnedTwice = {}
  BY DEF Init, Unreturned, ReturnedTwice, Reported, Copies
<1>2. CountInv
  BY <1>1, FS_EmptySet DEF Init, CountInv
<1> QED  BY <1>2, MessagesInit DEF Init, Switches, CounterInv

-----------------------------------------------------------------------------
(* The poll interval, and the remaining types.                               *)

Bounds ==
  /\ conn \in {"down", "metadata", "up", "leaving", "deleted", "failing", "failed"}
  /\ sessions \in 0..MaxSessions /\ settings \in 0..MaxSettings
  /\ interval \in Settings /\ onReady \in Settings /\ wanted \in Settings

Flags ==
  /\ onDisconnected \in BOOLEAN /\ overtaken \in BOOLEAN /\ dropped \in BOOLEAN
  /\ stranded \in BOOLEAN

LEMMA UserSetsTypes ==
  ASSUME Bounds, Flags, NEW on \in BOOLEAN, UserSetsInterval(on)
  PROVE  Bounds' /\ Flags'
<1>1. settings' = settings + 1 /\ settings' \in 0..MaxSettings /\ settings' + 1 \in Settings
  BY DEF UserSetsInterval, Bounds, Settings
<1>2. 0 \in Settings
  BY DEF Settings
<1>3. Bounds'
  BY <1>1, <1>2 DEF UserSetsInterval, Bounds
<1>4. /\ onDisconnected' = (onDisconnected \/ (on /\ IsConnected))
      /\ overtaken' = (onReady # 0 /\ (~on \/ IsConnected))
      /\ dropped' = FALSE /\ stranded' = stranded
  BY DEF UserSetsInterval
<1>5. IsConnected \in BOOLEAN
  BY DEF IsConnected
<1>6. Flags'
  BY <1>4, <1>5 DEF Flags
<1> QED  BY <1>3, <1>6

\* produce(), its serializers and its report concern the message only.
LEMMA MessageStepsApart ==
  ASSUME NEW m \in Messages, Producing(m) \/ Delivering(m)
  PROVE  UNCHANGED <<conn, sessions, polling, stranded>>
BY DEF Producing, Produce, Serialized, SerializerFails, ThrownReported, Delivering,
       Acknowledge, Emit, Handed, Answer

LEMMA TypesNext ==
  ASSUME Bounds, Flags, [Next]_vars
  PROVE  Bounds' /\ Flags'
<1>1. CASE \E on \in BOOLEAN : UserSetsInterval(on)
  BY <1>1, UserSetsTypes
<1>2. CASE UNCHANGED <<conn, sessions, polling, stranded>>
  BY <1>2 DEF Bounds, Flags, polling
<1>3. CASE Connected
  BY <1>3 DEF Connected, Bounds, Flags, polling
<1>4. CASE Ready
  <2>1. /\ onDisconnected' = (onDisconnected \/ onReady # 0)
        /\ UNCHANGED <<overtaken, dropped, stranded>>
    BY <1>4 DEF Ready
  <2>2. Flags'
    BY <2>1 DEF Flags
  <2> QED  BY <1>4, <2>2 DEF Ready, Bounds, Settings
<1>5. CASE MetadataFails \/ Disconnect \/ ClientDeleted
  BY <1>5 DEF MetadataFails, Disconnect, ClientDeleted, Bounds, Flags, polling
<1>6. CASE Disconnected \/ FailureDone
  <2>1. stranded' = (stranded \/ \E m \in Messages, c \in Copies : rk[m][c] = "event")
    BY <1>6 DEF Disconnected, FailureDone, DispatchersClosed
  <2>2. \/ UNCHANGED <<onDisconnected, overtaken, dropped>>
        \/ /\ onDisconnected' = FALSE /\ overtaken' = overtaken
           /\ dropped' = (dropped \/ (onDisconnected /\ interval # 0))
    BY <1>6 DEF Disconnected, FailureDone, polling
  <2>3. Flags'
    BY <2>1, <2>2 DEF Flags
  <2>4. Bounds'
    BY <1>6 DEF Disconnected, FailureDone, Bounds, Settings, polling
  <2> QED  BY <2>3, <2>4
<1>7. CASE FastTick \/ OtherPoll \/ UNCHANGED vars
  BY <1>7, <1>2 DEF FastTick, OtherPoll, vars
<1> QED  BY <1>1, <1>2, <1>3, <1>4, <1>5, <1>6, <1>7, MessageStepsApart DEF Next

LEMMA TypesInit == Init => Bounds /\ Flags
<1> SUFFICES ASSUME Init PROVE Bounds /\ Flags
  OBVIOUS
<1>1. 0 \in 0..MaxSessions /\ 0 \in 0..MaxSettings /\ 0 \in Settings /\ 1 \in Settings
  BY DEF ConstantsAssumption, Settings
<1>2. Bounds
  BY <1>1 DEF Init, Bounds
<1>3. Flags
  BY DEF Init, Flags
<1> QED  BY <1>2, <1>3

LEMMA CounterPolls == CounterInv /\ Bounds /\ Flags => PollsWhileOwed
<1> SUFFICES ASSUME CounterInv, Bounds, Flags PROVE PollsWhileOwed
  OBVIOUS
<1>1. refs \in Int
  BY SetsFinite DEF CounterInv, CountInv
<1>2. /\ {running, fast, stopped, stranded} \subseteq BOOLEAN
      /\ {onDisconnected, overtaken, dropped} \subseteq BOOLEAN
  BY DEF CounterInv, Switches, Flags
<1>3. TypeOK
  BY <1>1, <1>2 DEF CounterInv, MessagesInv, MessageTypes, Bounds, TypeOK
<1> QED  BY <1>3 DEF CounterInv, CountInv, PollsWhileOwed

\* HighLevelProducer!PollsWhileOwed: the counter holds the reports that are owed,
\* less the references given back twice, and the 1 ms timer runs exactly while
\* it is positive, unless a poll without a connection has ended it (RefCounter,
\* HighLevelProducer).
THEOREM PollingSafe == Spec => []PollsWhileOwed
BY CounterInit, CounterNext, TypesInit, TypesNext, CounterPolls, PTL DEF Spec

\* Each step keeps IntervalAsAsked: it needs no strengthening.
LEMMA IntervalNext ==
  ASSUME Bounds, IntervalAsAsked, [Next]_vars
  PROVE  IntervalAsAsked'
<1> USE DEF IntervalAsAsked
<1>1. ASSUME NEW on \in BOOLEAN, UserSetsInterval(on) PROVE IntervalAsAsked'
  <2>1. /\ wanted' = IF on THEN settings' + 1 ELSE 0
        /\ interval' = IF on /\ IsConnected THEN settings' + 1 ELSE 0
        /\ onReady' = IF on /\ ~IsConnected THEN settings' + 1 ELSE onReady
        /\ overtaken' = (onReady # 0 /\ (~on \/ IsConnected))
        /\ conn' = conn /\ settings' + 1 # 0
    BY <1>1 DEF UserSetsInterval, Bounds
  <2>2. CASE on /\ IsConnected
    BY <2>1, <2>2
  <2>3. CASE on /\ ~IsConnected
    BY <2>1, <2>3 DEF IsConnected
  <2>4. CASE ~on
    BY <2>1, <2>4
  <2> QED  BY <2>2, <2>3, <2>4
<1>2. CASE UNCHANGED <<conn, sessions, polling, stranded>>
  BY <1>2 DEF polling
<1>3. CASE Ready
  BY <1>3 DEF Ready
<1>4. CASE Connected \/ MetadataFails \/ Disconnect \/ ClientDeleted \/ FailureDone
  BY <1>4 DEF Connected, MetadataFails, Disconnect, ClientDeleted, FailureDone, polling
<1>5. CASE Disconnected
  <2>1. /\ conn = "deleted" /\ conn' = "down"
        /\ interval' = IF onDisconnected THEN 0 ELSE interval
        /\ dropped' = (dropped \/ (onDisconnected /\ interval # 0))
        /\ UNCHANGED <<onReady, wanted, overtaken>>
    BY <1>5 DEF Disconnected
  <2>2. onReady = 0
    BY <2>1
  <2>3. ~dropped' => ~dropped /\ interval' = interval
    BY <2>1
  <2> QED  BY <2>1, <2>2, <2>3
<1>6. CASE FastTick \/ OtherPoll \/ UNCHANGED vars
  BY <1>6, <1>2 DEF FastTick, OtherPoll, vars
<1> QED  BY <1>1, <1>2, <1>3, <1>4, <1>5, <1>6, MessageStepsApart DEF Next

\* HighLevelProducer!IntervalAsAsked: the interval in force, or the one waiting
\* for 'ready', is what the user asked for last, with the two exceptions it names
\* (Producer.prototype.setPollInterval, Client.prototype.connect).
THEOREM IntervalSafe == Spec => []IntervalAsAsked
<1>1. Init => IntervalAsAsked
  BY DEF Init, IntervalAsAsked
<1>2. Bounds /\ Flags /\ IntervalAsAsked /\ [Next]_vars => IntervalAsAsked'
  BY IntervalNext
<1> QED  BY <1>1, <1>2, TypesInit, TypesNext, PTL DEF Spec
=============================================================================
