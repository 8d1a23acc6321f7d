---------------------------- MODULE SequenceFacts ----------------------------
(* Facts about sequences of numbers that the proofs about queues share:      *)
(* items that move from the head of one queue to the end of another, and     *)
(* what a concatenation holds.                                               *)
EXTENDS Naturals, SequencesExt, SequenceTheorems, TLAPS

\* The head of t moves to the end of s.
LEMMA MoveHead ==
  ASSUME NEW s \in Seq(Nat), NEW t \in Seq(Nat), t # <<>>
  PROVE  /\ Head(t) \in Nat /\ Tail(t) \in Seq(Nat) /\ Append(s, Head(t)) \in Seq(Nat)
         /\ Append(s, Head(t)) \o Tail(t) = s \o t
<1>1. Head(t) \in Nat /\ Tail(t) \in Seq(Nat) /\ Len(t) \in Nat \ {0}
  OBVIOUS
<1>2. Len(Append(s, Head(t)) \o Tail(t)) = Len(s \o t)
  BY <1>1
<1>3. \A i \in 1..Len(s \o t) : (Append(s, Head(t)) \o Tail(t))[i] = (s \o t)[i]
  BY <1>1
<1>4. Append(s, Head(t)) \o Tail(t) \in Seq(Nat) /\ s \o t \in Seq(Nat)
  BY <1>1
<1> QED  BY <1>1, <1>2, <1>3, <1>4

\* Concatenation is associative.
LEMMA Regroup ==
  ASSUME NEW s \in Seq(Nat), NEW t \in Seq(Nat), NEW u \in Seq(Nat)
  PROVE  (s \o t) \o u = s \o (t \o u)
BY ConcatAssociative

\* What a concatenation holds.
LEMMA ConcatFacts ==
  ASSUME NEW s \in Seq(Nat), NEW t \in Seq(Nat)
  PROVE  /\ s \o t \in Seq(Nat) /\ Len(s \o t) = Len(s) + Len(t)
         /\ \A i \in 1..(Len(s) + Len(t)) :
              (s \o t)[i] = IF i <= Len(s) THEN s[i] ELSE t[i - Len(s)]
         /\ ToSet(s \o t) = ToSet(s) \cup ToSet(t)
<1>1. /\ s \o t \in Seq(Nat) /\ Len(s \o t) = Len(s) + Len(t)
      /\ \A i \in 1..(Len(s) + Len(t)) :
           (s \o t)[i] = IF i <= Len(s) THEN s[i] ELSE t[i - Len(s)]
  BY ConcatProperties
<1>2. /\ DOMAIN s = 1..Len(s) /\ DOMAIN t = 1..Len(t) /\ Len(s) \in Nat /\ Len(t) \in Nat
      /\ DOMAIN (s \o t) = 1..(Len(s) + Len(t))
  BY <1>1
<1>3. ASSUME NEW i \in DOMAIN s PROVE s[i] \in ToSet(s \o t)
  <2>1. i \in DOMAIN (s \o t) /\ (s \o t)[i] = s[i]
    BY <1>1, <1>2
  <2> QED  BY <2>1 DEF ToSet
<1>4. ASSUME NEW i \in DOMAIN t PROVE t[i] \in ToSet(s \o t)
  <2>1. /\ Len(s) + i \in DOMAIN (s \o t) /\ ~(Len(s) + i <= Len(s))
        /\ Len(s) + i - Len(s) = i
    BY <1>2
  <2>2. (s \o t)[Len(s) + i] = t[i]
    BY <1>1, <1>2, <2>1
  <2> QED  BY <2>1, <2>2 DEF ToSet
<1>5. ASSUME NEW i \in DOMAIN (s \o t) PROVE (s \o t)[i] \in ToSet(s) \cup ToSet(t)
  <2>1. CASE i <= Len(s)
    <3>1. i \in DOMAIN s /\ (s \o t)[i] = s[i]
      BY <1>1, <1>2, <2>1
    <3> QED  BY <3>1 DEF ToSet
  <2>2. CASE ~(i <= Len(s))
    <3>1. i - Len(s) \in DOMAIN t /\ (s \o t)[i] = t[i - Len(s)]
      BY <1>1, <1>2, <2>2
    <3> QED  BY <3>1 DEF ToSet
  <2> QED  BY <2>1, <2>2
<1>6. ToSet(s \o t) = ToSet(s) \cup ToSet(t)
  BY <1>3, <1>4, <1>5, Zenon DEF ToSet
<1> QED  BY <1>1, <1>6

LEMMA SameSeq ==
  ASSUME NEW s \in Seq(Nat), NEW t \in Seq(Nat), Len(s) = Len(t),
         \A i \in 1..Len(s) : s[i] = t[i]
  PROVE  s = t
BY SeqEqual

\* The first k of c go to the end of p.
LEMMA SplitFacts ==
  ASSUME NEW p \in Seq(Nat), NEW c \in Seq(Nat), NEW k \in 0..Len(c)
  PROVE  LET a == p \o SubSeq(c, 1, k)
             b == SubSeq(c, k + 1, Len(c))
         IN  /\ a \in Seq(Nat) /\ b \in Seq(Nat)
             /\ a \o b = p \o c
             /\ Len(a) + Len(b) = Len(p) + Len(c)
             /\ ToSet(p) \subseteq ToSet(a)
             /\ ToSet(c) \subseteq ToSet(a) \cup ToSet(b)
             /\ k = Len(c) => b = <<>>
<1> DEFINE x == SubSeq(c, 1, k)
           b == SubSeq(c, k + 1, Len(c))
           a == p \o x
<1>1. /\ x \in Seq(Nat) /\ Len(x) = k /\ \A i \in 1..k : x[i] = c[i]
      /\ b \in Seq(Nat) /\ Len(b) = Len(c) - k /\ \A i \in 1..(Len(c) - k) : b[i] = c[k + i]
  OBVIOUS
<1> HIDE DEF x, b
<1> HIDE DEF a
<1>2. x \o b = c
  <2>1. x \o b \in Seq(Nat) /\ Len(x \o b) = Len(c)
    <3>1. x \o b \in Seq(Nat) /\ Len(x \o b) = Len(x) + Len(b)
      BY <1>1, ConcatFacts
    <3> QED  BY <1>1, <3>1
  <2>2. ASSUME NEW i \in 1..Len(c) PROVE (x \o b)[i] = c[i]
    <3>1. (x \o b)[i] = IF i <= k THEN x[i] ELSE b[i - k]
      BY <1>1, ConcatFacts
    <3>2. i > k => i - k \in 1..(Len(c) - k) /\ k + (i - k) = i
      OBVIOUS
    <3> QED  BY <1>1, <3>1, <3>2
  <2> QED  BY <2>1, <2>2, SameSeq
<1>3. a = p \o x
  BY DEF a
<1>4. a \o b = p \o c
  BY <1>1, <1>2, <1>3, Regroup
<1>5. /\ a \in Seq(Nat) /\ Len(a) = Len(p) + k
      /\ ToSet(a) = ToSet(p) \cup ToSet(x)
  BY <1>1, <1>3, ConcatFacts
<1>6. ToSet(c) = ToSet(x) \cup ToSet(b)
  BY <1>1, <1>2, ConcatFacts
<1>7. k = Len(c) => b = <<>>
  BY <1>1
<1>8. Len(a) + Len(b) = Len(p) + Len(c)
  BY <1>1, <1>5
<1>9. /\ a \in Seq(Nat) /\ b \in Seq(Nat) /\ a \o b = p \o c
      /\ ToSet(p) \subseteq ToSet(a) /\ ToSet(c) \subseteq ToSet(a) \cup ToSet(b)
  BY <1>1, <1>4, <1>5, <1>6
<1> QED  BY <1>7, <1>8, <1>9 DEF a, x, b

\* A sequence of numbers that are all in S.
LEMMA ElementsIn ==
  ASSUME NEW s \in Seq(Nat), NEW S, \A i \in 1..Len(s) : s[i] \in S
  PROVE  s \in Seq(S)
<1>1. Len(s) \in Nat /\ DOMAIN s = 1..Len(s) /\ s = [i \in 1..Len(s) |-> s[i]]
  OBVIOUS
<1>2. [i \in 1..Len(s) |-> s[i]] \in [1..Len(s) -> S]
  OBVIOUS
<1>3. s \in UNION {[1..n -> S] : n \in Nat}
  BY <1>1, <1>2, Zenon
<1> QED  BY <1>3, SeqDef, Zenon

\* One item is added at the end.
LEMMA AppendFacts ==
  ASSUME NEW s \in Seq(Nat), NEW n \in Nat
  PROVE  /\ Append(s, n) \in Seq(Nat) /\ Len(Append(s, n)) = Len(s) + 1
         /\ DOMAIN s = 1..Len(s) /\ Len(s) \in Nat
         /\ DOMAIN Append(s, n) = 1..(Len(s) + 1)
         /\ \A i \in 1..Len(s) : Append(s, n)[i] = s[i]
         /\ Append(s, n)[Len(s) + 1] = n
         /\ ToSet(Append(s, n)) = ToSet(s) \cup {n}
         /\ IsInjective(s) /\ n \notin ToSet(s) => IsInjective(Append(s, n))
<1> DEFINE a == Append(s, n)
<1>1. /\ a \in Seq(Nat) /\ Len(a) = Len(s) + 1 /\ Len(s) \in Nat
      /\ DOMAIN s = 1..Len(s) /\ DOMAIN a = 1..(Len(s) + 1)
      /\ (\A i \in 1..Len(s) : a[i] = s[i]) /\ a[Len(s) + 1] = n
  OBVIOUS
<1> HIDE DEF a
<1>2. \A i \in DOMAIN a : i \in DOMAIN s \/ i = Len(s) + 1
  BY <1>1
<1>3. DOMAIN s \subseteq DOMAIN a /\ Len(s) + 1 \in DOMAIN a
  BY <1>1
<1>4. \A i \in DOMAIN s : a[i] = s[i]
  BY <1>1
<1>5. ToSet(a) = ToSet(s) \cup {n}
  BY <1>1, <1>2, <1>3, <1>4, Zenon DEF ToSet
<1>6. ASSUME IsInjective(s), n \notin ToSet(s) PROVE IsInjective(a)
  <2>1. \A i \in DOMAIN s : s[i] # n
    BY <1>6 DEF ToSet
  <2>2. \A i, j \in DOMAIN a : a[i] = a[j] => i = j
    BY <1>1, <1>2, <1>4, <1>6, <2>1, Zenon DEF IsInjective
  <2> QED  BY <2>2 DEF IsInjective
<1> QED  BY <1>1, <1>5, <1>6 DEF a

\* It is then at the end of a concatenation.
LEMMA AppendAfter ==
  ASSUME NEW s \in Seq(Nat), NEW t \in Seq(Nat), NEW n \in Nat
  PROVE  s \o Append(t, n) = Append(s \o t, n)
<1>1. s \o Append(t, n) \in Seq(Nat) /\ Append(s \o t, n) \in Seq(Nat)
  OBVIOUS
<1>2. Len(s \o Append(t, n)) = Len(Append(s \o t, n))
  OBVIOUS
<1>3. \A i \in 1..Len(s \o Append(t, n)) : (s \o Append(t, n))[i] = Append(s \o t, n)[i]
  OBVIOUS
<1> DEFINE x == s \o Append(t, n)
           y == Append(s \o t, n)
<1> HIDE DEF x, y
<1>4. /\ x \in Seq(Nat) /\ y \in Seq(Nat) /\ Len(x) = Len(y)
      /\ \A i \in 1..Len(x) : x[i] = y[i]
  BY <1>1, <1>2, <1>3 DEF x, y
<1>5. x = y
  BY <1>4, SameSeq
<1> QED  BY <1>5 DEF x, y

\* One item is taken from the front.
LEMMA HeadFacts ==
  ASSUME NEW s \in Seq(Nat), s # <<>>
  PROVE  /\ Head(s) \in Nat /\ Tail(s) \in Seq(Nat) /\ Head(s) \in ToSet(s)
         /\ ToSet(s) = {Head(s)} \cup ToSet(Tail(s))
         /\ IsInjective(s) => /\ Head(s) \notin ToSet(Tail(s))
                              /\ IsInjective(Tail(s))
<1> DEFINE h == Head(s)
           t == Tail(s)
<1>1. /\ h \in Nat /\ t \in Seq(Nat) /\ Len(s) \in Nat \ {0} /\ Len(t) = Len(s) - 1
      /\ DOMAIN s = 1..Len(s) /\ DOMAIN t = 1..Len(t) /\ h = s[1]
      /\ \A i \in 1..Len(t) : t[i] = s[i + 1]
  OBVIOUS
<1> HIDE DEF h, t
<1>2. 1 \in DOMAIN s /\ \A i \in DOMAIN t : i + 1 \in DOMAIN s /\ i + 1 # 1
  BY <1>1
<1>3. ASSUME NEW i \in DOMAIN s, i # 1 PROVE i - 1 \in DOMAIN t /\ t[i - 1] = s[i]
  <2>1. i - 1 \in 1..Len(t) /\ (i - 1) + 1 = i
    BY <1>1, <1>3
  <2> QED  BY <1>1, <2>1
<1>4. \A i \in DOMAIN t : t[i] = s[i + 1]
  BY <1>1
<1>5. ToSet(s) = {h} \cup ToSet(t)
  <2>1. h \in ToSet(s) /\ \A i \in DOMAIN t : t[i] \in ToSet(s)
    BY <1>1, <1>2, <1>4 DEF ToSet
  <2>2. \A i \in DOMAIN s : s[i] = h \/ s[i] \in ToSet(t)
    BY <1>1, <1>3 DEF ToSet
  <2> QED  BY <2>1, <2>2, Zenon DEF ToSet
<1>6. ASSUME IsInjective(s) PROVE h \notin ToSet(t) /\ IsInjective(t)
  <2>1. \A i, j \in DOMAIN s : s[i] = s[j] => i = j
    BY <1>6 DEF IsInjective
  <2>2. h \notin ToSet(t)
    <3>1. \A i \in DOMAIN t : t[i] # h
      BY <1>1, <1>2, <1>4, <2>1
    <3> QED  BY <3>1, Zenon DEF ToSet
  <2>3. ASSUME NEW i \in DOMAIN t, NEW j \in DOMAIN t, t[i] = t[j] PROVE i = j
    <3>1. i + 1 = j + 1
      BY <1>2, <1>4, <2>1, <2>3
    <3> QED  BY <1>1, <3>1
  <2> QED  BY <2>2, <2>3 DEF IsInjective
<1> QED  BY <1>1, <1>2, <1>5, <1>6, Zenon DEF h, t, ToSet

\* Parts of a sequence without repetition.
LEMMA PartsDistinct ==
  ASSUME NEW s \in Seq(Nat), NEW t \in Seq(Nat), IsInjective(s \o t)
  PROVE  IsInjective(s) /\ IsInjective(t) /\ ToSet(s) \cap ToSet(t) = {}
<1> DEFINE u == s \o t
<1>1. /\ u \in Seq(Nat) /\ Len(u) = Len(s) + Len(t)
      /\ Len(s) \in Nat /\ Len(t) \in Nat
      /\ DOMAIN s = 1..Len(s) /\ DOMAIN t = 1..Len(t)
      /\ \A i \in 1..(Len(s) + Len(t)) :
           u[i] = IF i <= Len(s) THEN s[i] ELSE t[i - Len(s)]
  BY ConcatFacts
<1>2. \A i, j \in 1..(Len(s) + Len(t)) : u[i] = u[j] => i = j
  <2>1. DOMAIN u = 1..(Len(s) + Len(t))
    BY <1>1
  <2> QED  BY <2>1 DEF IsInjective
<1> HIDE DEF u
<1>3. ASSUME NEW i \in DOMAIN s PROVE i \in 1..(Len(s) + Len(t)) /\ u[i] = s[i] /\ i <= Len(s)
  BY <1>1
<1>4. ASSUME NEW i \in DOMAIN t
      PROVE  /\ Len(s) + i \in 1..(Len(s) + Len(t)) /\ u[Len(s) + i] = t[i]
             /\ ~(Len(s) + i <= Len(s)) /\ i \in Nat
  <2>1. /\ Len(s) + i \in 1..(Len(s) + Len(t)) /\ ~(Len(s) + i <= Len(s)) /\ i \in Nat
        /\ (Len(s) + i) - Len(s) = i
    BY <1>1
  <2> QED  BY <1>1, <2>1
<1>5. IsInjective(s)
  BY <1>2, <1>3, Zenon DEF IsInjective
<1>6. ASSUME NEW i \in DOMAIN t, NEW j \in DOMAIN t, t[i] = t[j] PROVE i = j
  <2>1. Len(s) + i = Len(s) + j
    BY <1>2, <1>4, <1>6
  <2> QED  BY <1>1, <1>4, <2>1
<1>7. ASSUME NEW i \in DOMAIN s, NEW j \in DOMAIN t PROVE s[i] # t[j]
  <2>1. i # Len(s) + j
    BY <1>3, <1>4
  <2> QED  BY <1>2, <1>3, <1>4, <2>1
<1>8. ToSet(s) \cap ToSet(t) = {}
  BY <1>7, Zenon DEF ToSet
<1> QED  BY <1>5, <1>6, <1>8 DEF IsInjective
=============================================================================
