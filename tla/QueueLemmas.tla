----------------------------- MODULE QueueLemmas -----------------------------
(***************************************************************************)
(* What the queue operations of the job system, of the asynchronous IO and *)
(* of the streaming manager do to a queue that holds nothing twice; and    *)
(* the orders in which the members of a set may be found.                  *)
(***************************************************************************)
EXTENDS Naturals, Sequences, SequencesExt, SequenceTheorems, FiniteSetTheorems, WellFoundedInduction, TLAPS

\* A queue of members of S that holds nothing twice.
Distinct(s, S) == s \in Seq(S) /\ IsInjective(s)

\* The members of a queue, by their places.
LEMMA Members ==
  ASSUME NEW S, NEW s \in Seq(S)
  PROVE  /\ ToSet(s) \subseteq S
         /\ \A x : x \in ToSet(s) <=> \E i \in 1 .. Len(s) : s[i] = x
BY LenProperties, ElementOfSeq DEF ToSet

\* The empty queue.
LEMMA EmptyDistinct ==
  ASSUME NEW S
  PROVE  Distinct(<< >>, S) /\ ToSet(<< >>) = {}
BY EmptySeq DEF Distinct, ToSet, IsInjective

\* A new member at the end.
LEMMA AppendDistinct ==
  ASSUME NEW S, NEW s, Distinct(s, S), NEW x \in S \ ToSet(s)
  PROVE  Distinct(Append(s, x), S) /\ ToSet(Append(s, x)) = ToSet(s) \cup {x}
<1> DEFINE t == Append(s, x)
<1>1. PICK n \in Nat : n = Len(s)
  BY LenProperties DEF Distinct
<1>2. /\ t \in Seq(S) /\ Len(t) = n + 1
      /\ \A i \in 1 .. n : t[i] = s[i]
      /\ t[n + 1] = x
  BY <1>1 DEF Distinct
<1>3. DOMAIN s = 1 .. n /\ DOMAIN t = 1 .. n + 1
  BY <1>1, <1>2, LenProperties DEF Distinct
<1> HIDE DEF t
<1>4. \A y : y \in ToSet(t) <=> \E i \in 1 .. n + 1 : t[i] = y
  BY <1>2, Members
<1>5. \A y : y \in ToSet(s) <=> \E i \in 1 .. n : s[i] = y
  BY <1>1, Members DEF Distinct
<1>6. \A i, k \in 1 .. n : s[i] = s[k] => i = k
  BY <1>3 DEF Distinct, IsInjective
<1>7. \A i \in 1 .. n + 1 : i \in 1 .. n \/ i = n + 1
  OBVIOUS
<1>8. IsInjective(t)
  <2>1. \A i \in 1 .. n : t[i] # x
    BY <1>2, <1>5
  <2>2. \A i, k \in 1 .. n + 1 : t[i] = t[k] => i = k
    BY <1>2, <1>6, <1>7, <2>1
  <2>3. QED
    BY <1>3, <2>2 DEF IsInjective
<1>9. \A y : y \in ToSet(t) <=> y \in ToSet(s) \/ y = x
  <2>1. n + 1 \in 1 .. n + 1 /\ \A i \in 1 .. n : i \in 1 .. n + 1
    OBVIOUS
  <2>2. QED
    BY <1>2, <1>4, <1>5, <1>7, <2>1
<1>10. QED
  BY <1>2, <1>8, <1>9 DEF Distinct, t

\* The first member is taken.
LEMMA TailDistinct ==
  ASSUME NEW S, NEW s, Distinct(s, S), s # << >>
  PROVE  /\ Distinct(Tail(s), S) /\ ToSet(Tail(s)) = ToSet(s) \ {Head(s)}
         /\ Head(s) \in ToSet(s)
<1> DEFINE t == Tail(s)
<1>1. /\ t \in Seq(S) /\ Len(s) \in Nat \ {0} /\ Len(t) = Len(s) - 1
      /\ \A i \in 1 .. Len(t) : t[i] = s[i + 1]
      /\ Head(s) = s[1]
  BY HeadTailProperties, EmptySeq DEF Distinct
<1>2. DOMAIN s = 1 .. Len(s) /\ DOMAIN t = 1 .. Len(s) - 1
  BY <1>1, LenProperties DEF Distinct
<1> HIDE DEF t
<1>3. \A i, k \in 1 .. Len(s) : s[i] = s[k] => i = k
  BY <1>2 DEF Distinct, IsInjective
<1>4. IsInjective(t)
  BY <1>1, <1>2, <1>3 DEF IsInjective
<1>5. \A y : y \in ToSet(t) <=> \E i \in 1 .. Len(t) : t[i] = y
  BY <1>1, Members
<1>6. \A y : y \in ToSet(s) <=> \E i \in 1 .. Len(s) : s[i] = y
  BY Members DEF Distinct
<1>7. Head(s) \in ToSet(s)
  BY <1>1, <1>6
<1>8. ASSUME NEW y
      PROVE  y \in ToSet(t) <=> y \in ToSet(s) \ {Head(s)}
  <2>1. ASSUME y \in ToSet(t)
        PROVE  y \in ToSet(s) /\ y # s[1]
    <3>1. PICK i \in 1 .. Len(t) : t[i] = y
      BY <1>5, <2>1
    <3>2. i + 1 \in 1 .. Len(s) /\ 1 \in 1 .. Len(s) /\ i + 1 # 1 /\ s[i + 1] = y
      BY <1>1, <3>1
    <3>3. QED
      BY <1>3, <1>6, <3>2
  <2>2. ASSUME y \in ToSet(s), y # s[1]
        PROVE  y \in ToSet(t)
    <3>1. PICK i \in 1 .. Len(s) : s[i] = y
      BY <1>6, <2>2
    <3>2. i # 1
      BY <3>1, <2>2
    <3>3. i - 1 \in 1 .. Len(t) /\ t[i - 1] = y
      BY <1>1, <3>1, <3>2
    <3>4. QED
      BY <1>5, <3>3
  <2>3. QED
    BY <1>1, <2>1, <2>2
<1>9. QED
  BY <1>1, <1>4, <1>7, <1>8 DEF Distinct, t

\* The least place at which a queue has a member.
LEMMA FirstPlace ==
  ASSUME NEW S, NEW s \in Seq(S), NEW x, \E i \in 1 .. Len(s) : s[i] = x
  PROVE  /\ SelectInSeq(s, LAMBDA v : v = x) \in 1 .. Len(s)
         /\ s[SelectInSeq(s, LAMBDA v : v = x)] = x
<1> DEFINE I == {i \in 1 .. Len(s) : s[i] = x}
<1>1. I \subseteq Nat /\ I # {}
  BY LenProperties
<1>2. \E m \in I : \A i \in I : ~ (<<i, m>> \in OpToRel(<, Nat))
  BY <1>1, WFMin, NatLessThanWellFounded
<1>3. PICK m \in I : \A i \in I : ~ (i < m)
  BY <1>1, <1>2 DEF OpToRel
<1>4. \A i \in I : m <= i
  BY <1>1, <1>3
<1>5. Min(I) \in I
  BY <1>4 DEF Min
<1>6. SelectInSeq(s, LAMBDA v : v = x) = Min(I)
  BY <1>1 DEF SelectInSeq
<1>7. QED
  BY <1>5, <1>6

\* A member is taken out at a place.
LEMMA RemoveAtDistinct ==
  ASSUME NEW S, NEW s, Distinct(s, S), NEW k \in 1 .. Len(s)
  PROVE  Distinct(RemoveAt(s, k), S) /\ ToSet(RemoveAt(s, k)) = ToSet(s) \ {s[k]}
<1> DEFINE t == RemoveAt(s, k)
<1>0. PICK n \in Nat : n = Len(s)
  BY LenProperties DEF Distinct
<1>1. n \in Nat /\ s \in [1 .. n -> S] /\ DOMAIN s = 1 .. n /\ s \in Seq(S)
      /\ k \in 1 .. n
  BY <1>0, LenProperties DEF Distinct
<1> DEFINE front == SubSeq(s, 1, k - 1)
           back == SubSeq(s, k + 1, n)
<1>2. /\ front \in Seq(S) /\ Len(front) = k - 1
      /\ \A i \in 1 .. k - 1 : front[i] = s[i]
  <2>1. \A i \in 1 .. k - 1 : s[i] \in S
    BY <1>1
  <2>2. /\ front \in Seq(S)
        /\ Len(front) = IF 1 <= k - 1 THEN (k - 1) - 1 + 1 ELSE 0
        /\ \A i \in 1 .. (k - 1) - 1 + 1 : front[i] = s[1 + i - 1]
    BY <1>1, <2>1, SubSeqProperties
  <2> HIDE DEF front
  <2>3. QED
    BY <1>1, <2>2
<1>3. /\ back \in Seq(S) /\ Len(back) = n - k
      /\ \A i \in 1 .. n - k : back[i] = s[k + i]
  <2>1. \A i \in k + 1 .. n : s[i] \in S
    BY <1>1
  <2>2. /\ back \in Seq(S)
        /\ Len(back) = IF k + 1 <= n THEN n - (k + 1) + 1 ELSE 0
        /\ \A i \in 1 .. n - (k + 1) + 1 : back[i] = s[k + 1 + i - 1]
    BY <1>1, <2>1, SubSeqProperties
  <2> HIDE DEF back
  <2>3. n - (k + 1) + 1 = n - k /\ \A i \in 1 .. n - k : k + 1 + i - 1 = k + i
    BY <1>1
  <2>4. QED
    BY <1>1, <2>2, <2>3
<1>4. /\ t \in Seq(S) /\ Len(t) = n - 1
      /\ \A i \in 1 .. n - 1 : t[i] = IF i < k THEN s[i] ELSE s[i + 1]
  <2>1. t = front \o back
    BY <1>0 DEF RemoveAt
  <2> HIDE DEF front, back, t
  <2>2. t \in Seq(S) /\ Len(t) = (k - 1) + (n - k)
        /\ \A i \in 1 .. (k - 1) + (n - k) :
             t[i] = IF i <= k - 1 THEN front[i] ELSE back[i - (k - 1)]
    <3>1. front \in Seq(S) /\ back \in Seq(S)
      BY <1>2, <1>3
    <3>2. /\ front \o back \in Seq(S)
          /\ Len(front \o back) = Len(front) + Len(back)
          /\ \A i \in 1 .. Len(front) + Len(back) : (front \o back)[i] =
               IF i <= Len(front) THEN front[i] ELSE back[i - Len(front)]
      BY <3>1, ConcatProperties, Zenon
    <3>3. Len(front) = k - 1 /\ Len(back) = n - k
      BY <1>2, <1>3
    <3>4. QED
      BY <2>1, <3>2, <3>3, Zenon
  <2>3. ASSUME NEW i \in 1 .. n - 1
        PROVE  t[i] = IF i < k THEN s[i] ELSE s[i + 1]
    <3>1. CASE i < k
      <4>1. i \in 1 .. k - 1 /\ i <= k - 1
        BY <1>1, <3>1
      <4>2. i \in 1 .. (k - 1) + (n - k)
        BY <1>1
      <4>3. QED
        BY <1>2, <2>2, <3>1, <4>1, <4>2
    <3>2. CASE ~(i < k)
      <4>1. i - (k - 1) \in 1 .. n - k /\ ~(i <= k - 1) /\ k + (i - (k - 1)) = i + 1
        BY <1>1, <3>2
      <4>2. i \in 1 .. (k - 1) + (n - k)
        BY <1>1
      <4>3. QED
        BY <1>3, <2>2, <3>2, <4>1, <4>2
    <3>3. QED
      BY <3>1, <3>2
  <2>4. QED
    BY <1>1, <2>2, <2>3
<1>5. DOMAIN t = 1 .. n - 1
  BY <1>4, LenProperties
<1> HIDE DEF t
<1>6. \A i, j \in 1 .. n : s[i] = s[j] => i = j
  BY <1>1 DEF Distinct, IsInjective
<1>7. IsInjective(t)
  <2> SUFFICES ASSUME NEW i \in 1 .. n - 1, NEW j \in 1 .. n - 1, t[i] = t[j]
               PROVE  i = j
    BY <1>5 DEF IsInjective
  <2>1. i \in 1 .. n /\ i + 1 \in 1 .. n /\ j \in 1 .. n /\ j + 1 \in 1 .. n
    BY <1>1
  <2>2. QED
    BY <1>1, <1>4, <1>6, <2>1
<1>8. \A y : y \in ToSet(t) <=> \E i \in 1 .. n - 1 : t[i] = y
  BY <1>4, Members
<1>9. \A y : y \in ToSet(s) <=> \E i \in 1 .. n : s[i] = y
  BY <1>0, Members DEF Distinct
<1>10. ASSUME NEW y
       PROVE  y \in ToSet(t) <=> y \in ToSet(s) \ {s[k]}
  <2>1. ASSUME y \in ToSet(t)
        PROVE  y \in ToSet(s) /\ y # s[k]
    <3>1. PICK i \in 1 .. n - 1 : t[i] = y
      BY <1>8, <2>1
    <3>2. i \in 1 .. n /\ i + 1 \in 1 .. n /\ (~(i < k) => i + 1 # k)
      BY <1>1
    <3>3. QED
      BY <1>1, <1>4, <1>6, <1>9, <3>1, <3>2
  <2>2. ASSUME y \in ToSet(s), y # s[k]
        PROVE  y \in ToSet(t)
    <3>1. PICK i \in 1 .. n : s[i] = y
      BY <1>9, <2>2
    <3>2. i # k
      BY <2>2, <3>1
    <3>3. CASE i < k
      <4>1. i \in 1 .. n - 1 /\ t[i] = y
        BY <1>1, <1>4, <3>1, <3>3
      <4>2. QED
        BY <1>8, <4>1
    <3>4. CASE i > k
      <4>1. i - 1 \in 1 .. n - 1 /\ ~(i - 1 < k) /\ (i - 1) + 1 = i
        BY <1>1, <3>1, <3>4
      <4>2. t[i - 1] = y
        BY <1>4, <3>1, <4>1
      <4>3. QED
        BY <1>8, <4>1, <4>2
    <3>5. QED
      BY <1>1, <3>2, <3>3, <3>4
  <2>3. QED
    BY <2>1, <2>2
<1>11. QED
  BY <1>4, <1>7, <1>10 DEF Distinct, t

\* A member is looked for and taken out.
LEMMA RemoveFirstDistinct ==
  ASSUME NEW S, NEW s, Distinct(s, S), NEW x
  PROVE  Distinct(RemoveFirst(s, x), S) /\ ToSet(RemoveFirst(s, x)) = ToSet(s) \ {x}
<1>1. CASE \E i \in 1 .. Len(s) : s[i] = x
  <2>1. PICK k \in 1 .. Len(s) : RemoveFirst(s, x) = RemoveAt(s, k) /\ s[k] = x
    BY <1>1, FirstPlace DEF Distinct, RemoveFirst
  <2>2. QED
    BY <2>1, RemoveAtDistinct
<1>2. CASE ~ \E i \in 1 .. Len(s) : s[i] = x
  <2>1. RemoveFirst(s, x) = s /\ x \notin ToSet(s)
    BY <1>2, Members DEF RemoveFirst, Distinct
  <2>2. QED
    BY <2>1
<1>3. QED
  BY <1>1, <1>2

\* A new member at a place.
LEMMA InsertAtDistinct ==
  ASSUME NEW S, NEW s, Distinct(s, S), NEW x \in S \ ToSet(s), NEW k \in 1 .. Len(s)
  PROVE  Distinct(InsertAt(s, k, x), S) /\ ToSet(InsertAt(s, k, x)) = ToSet(s) \cup {x}
<1>0. PICK n \in Nat : n = Len(s)
  BY LenProperties DEF Distinct
<1>1. s \in [1 .. n -> S] /\ DOMAIN s = 1 .. n /\ s \in Seq(S) /\ k \in 1 .. n
  BY <1>0, LenProperties DEF Distinct
<1> DEFINE t == InsertAt(s, k, x)
           front == SubSeq(s, 1, k - 1)
           back == SubSeq(s, k, n)
           head == front \o <<x>>
<1>2. /\ front \in Seq(S) /\ Len(front) = k - 1
      /\ \A i \in 1 .. k - 1 : front[i] = s[i]
  <2>1. \A i \in 1 .. k - 1 : s[i] \in S
    BY <1>1
  <2>2. /\ front \in Seq(S)
        /\ Len(front) = IF 1 <= k - 1 THEN (k - 1) - 1 + 1 ELSE 0
        /\ \A i \in 1 .. (k - 1) - 1 + 1 : front[i] = s[1 + i - 1]
    BY <1>1, <2>1, SubSeqProperties
  <2> HIDE DEF front
  <2>3. QED
    BY <1>1, <2>2
<1>3. /\ back \in Seq(S) /\ Len(back) = n - k + 1
      /\ \A i \in 1 .. n - k + 1 : back[i] = s[k + i - 1]
  <2>1. \A i \in k .. n : s[i] \in S
    BY <1>1
  <2>2. /\ back \in Seq(S)
        /\ Len(back) = IF k <= n THEN n - k + 1 ELSE 0
        /\ \A i \in 1 .. n - k + 1 : back[i] = s[k + i - 1]
    BY <1>1, <2>1, SubSeqProperties
  <2> HIDE DEF back
  <2>3. QED
    BY <1>1, <2>2
<1>4. <<x>> \in Seq(S) /\ Len(<<x>>) = 1 /\ <<x>>[1] = x
  OBVIOUS
<1>5. t = head \o back
  BY <1>0 DEF InsertAt
<1> HIDE DEF t, front, back
<1>6. head \in Seq(S) /\ Len(head) = k /\ head[k] = x
      /\ \A i \in 1 .. k - 1 : head[i] = s[i]
  <2>1. /\ head \in Seq(S)
        /\ Len(head) = Len(front) + Len(<<x>>)
        /\ \A i \in 1 .. Len(front) + Len(<<x>>) : head[i] =
             IF i <= Len(front) THEN front[i] ELSE <<x>>[i - Len(front)]
    BY <1>2, <1>4, ConcatProperties, Zenon
  <2> HIDE DEF head
  <2>2. Len(head) = k /\ \A i \in 1 .. k : head[i] =
             IF i <= k - 1 THEN front[i] ELSE <<x>>[i - (k - 1)]
    <3>1. Len(front) + Len(<<x>>) = k /\ Len(front) = k - 1
      BY <1>1, <1>2, <1>4
    <3>2. QED
      BY <2>1, <3>1, Zenon
  <2>3. k \in 1 .. k /\ ~(k <= k - 1) /\ k - (k - 1) = 1
    BY <1>1
  <2>4. head[k] = x
    BY <1>4, <2>2, <2>3
  <2>5. \A i \in 1 .. k - 1 : i \in 1 .. k /\ i <= k - 1
    BY <1>1
  <2>6. \A i \in 1 .. k - 1 : head[i] = s[i]
    BY <1>2, <2>2, <2>5
  <2>7. QED
    BY <2>1, <2>2, <2>4, <2>6
<1> HIDE DEF head
<1>7. t \in Seq(S) /\ Len(t) = n + 1
      /\ \A i \in 1 .. n + 1 : t[i] = IF i < k THEN s[i] ELSE IF i = k THEN x ELSE s[i - 1]
  <2>1. /\ t \in Seq(S)
        /\ Len(t) = Len(head) + Len(back)
        /\ \A i \in 1 .. Len(head) + Len(back) : t[i] =
             IF i <= Len(head) THEN head[i] ELSE back[i - Len(head)]
    BY <1>3, <1>5, <1>6, ConcatProperties, Zenon
  <2>2. Len(head) + Len(back) = n + 1
    BY <1>1, <1>3, <1>6
  <2>3. ASSUME NEW i \in 1 .. n + 1
        PROVE  t[i] = IF i < k THEN s[i] ELSE IF i = k THEN x ELSE s[i - 1]
    <3>1. t[i] = IF i <= k THEN head[i] ELSE back[i - k]
      BY <1>6, <2>1, <2>2
    <3>2. CASE i < k
      <4>1. i \in 1 .. k - 1 /\ i <= k
        BY <1>1, <3>2
      <4>2. QED
        BY <1>6, <3>1, <3>2, <4>1
    <3>3. CASE i = k
      BY <1>1, <1>6, <3>1, <3>3
    <3>4. CASE i > k
      <4>1. i - k \in 1 .. n - k + 1 /\ ~(i <= k) /\ k + (i - k) - 1 = i - 1
        BY <1>1, <3>4
      <4>2. QED
        BY <1>1, <1>3, <3>1, <3>4, <4>1
    <3>5. QED
      BY <1>1, <3>2, <3>3, <3>4
  <2>4. QED
    BY <2>1, <2>2, <2>3
<1>8. DOMAIN t = 1 .. n + 1
  BY <1>7, LenProperties
<1>9. \A y : y \in ToSet(t) <=> \E i \in 1 .. n + 1 : t[i] = y
  BY <1>7, Members
<1>10. \A y : y \in ToSet(s) <=> \E i \in 1 .. n : s[i] = y
  BY <1>0, Members DEF Distinct
<1>11. \A i, j \in 1 .. n : s[i] = s[j] => i = j
  BY <1>1 DEF Distinct, IsInjective
<1>12. \A i \in 1 .. n : s[i] # x
  BY <1>10
<1>13. \A i \in 1 .. n + 1 : (i < k => i \in 1 .. n) /\ (i > k => i - 1 \in 1 .. n)
  BY <1>1
<1>14. IsInjective(t)
  <2> SUFFICES ASSUME NEW i \in 1 .. n + 1, NEW j \in 1 .. n + 1, t[i] = t[j]
               PROVE  i = j
    BY <1>8 DEF IsInjective
  <2>1. QED
    BY <1>1, <1>7, <1>11, <1>12, <1>13
<1>15. ASSUME NEW y
       PROVE  y \in ToSet(t) <=> y \in ToSet(s) \/ y = x
  <2>1. y \in ToSet(t) => y \in ToSet(s) \/ y = x
    BY <1>1, <1>7, <1>9, <1>10, <1>13
  <2>2. ASSUME y \in ToSet(s)
        PROVE  y \in ToSet(t)
    <3>1. PICK i \in 1 .. n : s[i] = y
      BY <1>10, <2>2
    <3>2. CASE i < k
      <4>1. i \in 1 .. n + 1 /\ t[i] = y
        BY <1>1, <1>7, <3>1, <3>2
      <4>2. QED
        BY <1>9, <4>1
    <3>3. CASE i >= k
      <4>1. i + 1 \in 1 .. n + 1 /\ ~(i + 1 < k) /\ i + 1 # k /\ (i + 1) - 1 = i
        BY <1>1, <3>1, <3>3
      <4>2. t[i + 1] = y
        BY <1>7, <3>1, <4>1
      <4>3. QED
        BY <1>9, <4>1, <4>2
    <3>4. QED
      BY <1>1, <3>2, <3>3
  <2>3. x \in ToSet(t)
    <3>1. k \in 1 .. n + 1 /\ t[k] = x
      BY <1>1, <1>7
    <3>2. QED
      BY <1>9, <3>1
  <2>4. QED
    BY <2>1, <2>2, <2>3
<1>16. QED
  BY <1>7, <1>14, <1>15 DEF Distinct, t

-----------------------------------------------------------------------------
\* An order of a finite set is a sequence of all its members, each once.
LEMMA OrderHolds ==
  ASSUME NEW S, IsFiniteSet(S), NEW order \in SetToSeqs(S)
  PROVE  /\ Distinct(order, S) /\ ToSet(order) = S
         /\ Len(order) = Cardinality(S) /\ Len(order) \in Nat
<1> DEFINE n == Cardinality(S)
<1>1. n \in Nat
  BY FS_CardinalityType
<1>2. order \in [1 .. n -> S] /\ \A i, j \in 1 .. n : i # j => order[i] # order[j]
  BY DEF SetToSeqs
<1>3. order \in Injection(1 .. n, S)
  BY <1>2 DEF Injection, IsInjective
<1>4. Cardinality(1 .. n) = n
  BY <1>1, FS_Interval
<1> HIDE DEF n
<1>5. Cardinality(1 .. n) = Cardinality(S)
  BY <1>4 DEF n
<1>6. order \in Surjection(1 .. n, S)
  BY <1>3, <1>5, FS_Injection
<1>7. \A x \in S : \E i \in 1 .. n : order[i] = x
  BY <1>6 DEF Surjection
<1>8. ToSet(order) = S
  BY <1>2, <1>7 DEF ToSet
<1>9. order \in Seq(S) /\ Len(order) = n
  BY <1>1, <1>2
<1>10. Distinct(order, S)
  BY <1>2, <1>9 DEF Distinct, IsInjective
<1>11. QED
  BY <1>1, <1>8, <1>9, <1>10 DEF n
=============================================================================
