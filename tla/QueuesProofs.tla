---------------------------- MODULE QueuesProofs ----------------------------
(***************************************************************************)
(* Facts about the lists of waiters that the proofs of the admission       *)
(* modules share: what a part of a list is, and that taking a waiter out   *)
(* leaves the others in their order.                                       *)
(***************************************************************************)
EXTENDS Queues, SequenceTheorems, TLAPS

\* A contiguous part of a sequence.
LEMMA SubSeqFacts ==
  ASSUME NEW S, NEW q \in Seq(S), NEW m \in 1..(Len(q) + 1), NEW n \in 0..Len(q), m <= n + 1
  PROVE  /\ SubSeq(q, m, n) \in Seq(S) /\ Len(SubSeq(q, m, n)) = n - m + 1
         /\ DOMAIN SubSeq(q, m, n) = 1..(n - m + 1)
         /\ \A i \in 1..(n - m + 1) : SubSeq(q, m, n)[i] = q[m + i - 1]
<1>1. \A i \in m..n : q[i] \in S
  OBVIOUS
<1>2. /\ SubSeq(q, m, n) \in Seq(S)
      /\ Len(SubSeq(q, m, n)) = IF m <= n THEN n - m + 1 ELSE 0
      /\ \A i \in 1..(n - m + 1) : SubSeq(q, m, n)[i] = q[m + i - 1]
  BY <1>1, SubSeqProperties
<1>3. Len(SubSeq(q, m, n)) = n - m + 1
  BY <1>2
<1>4. DOMAIN SubSeq(q, m, n) = 1..Len(SubSeq(q, m, n))
  BY <1>2, LenProperties
<1> QED
  BY <1>2, <1>3, <1>4

\* Where the members of q are once the k-th is taken out.
LEMMA WithoutShape ==
  ASSUME NEW S, NEW q \in Seq(S), Distinct(q), NEW k \in DOMAIN q
  PROVE  LET w == Without(q, q[k])
         IN  /\ w \in Seq(S) /\ DOMAIN w = 1..(Len(q) - 1)
             /\ \A i \in 1..(Len(q) - 1) : w[i] = q[IF i < k THEN i ELSE i + 1]
<1> DEFINE l == SubSeq(q, 1, k - 1)
           r == SubSeq(q, k + 1, Len(q))
<1>1. k \in 1..Len(q)
  OBVIOUS
<1>2. l \in Seq(S) /\ Len(l) = k - 1 /\ \A i \in 1..(k - 1) : l[i] = q[i]
  <2>1. /\ l \in Seq(S) /\ Len(l) = (k - 1) - 1 + 1
        /\ \A i \in 1..((k - 1) - 1 + 1) : l[i] = q[1 + i - 1]
    BY <1>1, SubSeqFacts
  <2> QED
    BY <1>1, <2>1
<1>3. r \in Seq(S) /\ Len(r) = Len(q) - k /\ \A i \in 1..(Len(q) - k) : r[i] = q[i + k]
  <2>1. /\ r \in Seq(S) /\ Len(r) = Len(q) - (k + 1) + 1
        /\ \A i \in 1..(Len(q) - (k + 1) + 1) : r[i] = q[(k + 1) + i - 1]
    BY <1>1, SubSeqFacts
  <2> QED
    BY <1>1, <2>1
<1>4. Without(q, q[k]) = l \o r
  <2>1. (CHOOSE j \in DOMAIN q : q[j] = q[k]) = k
    BY DEF Distinct
  <2> QED
    BY <2>1 DEF Without, Members
<1> HIDE DEF l, r
<1>5. /\ l \o r \in Seq(S) /\ Len(l \o r) = Len(q) - 1
      /\ \A i \in 1..(Len(q) - 1) : (l \o r)[i] = IF i <= Len(l) THEN l[i] ELSE r[i - Len(l)]
  <2>1. /\ l \o r \in Seq(S) /\ Len(l \o r) = Len(l) + Len(r)
        /\ \A i \in 1..(Len(l) + Len(r)) : (l \o r)[i] = IF i <= Len(l) THEN l[i] ELSE r[i - Len(l)]
    BY <1>2, <1>3, ConcatProperties
  <2>2. Len(l) + Len(r) = Len(q) - 1
    BY <1>1, <1>2, <1>3
  <2> QED
    BY <2>1, <2>2
<1>6. DOMAIN (l \o r) = 1..(Len(q) - 1)
  BY <1>5, LenProperties
<1>7. ASSUME NEW i \in 1..(Len(q) - 1)
      PROVE  (l \o r)[i] = q[IF i < k THEN i ELSE i + 1]
  <2>1. CASE i < k
    BY <2>1, <1>1, <1>2, <1>5
  <2>2. CASE ~(i < k)
    <3>1. i - Len(l) \in 1..(Len(q) - k) /\ (i - Len(l)) + k = i + 1
      BY <2>2, <1>1, <1>2
    <3>2. (l \o r)[i] = r[i - Len(l)]
      BY <2>2, <1>1, <1>2, <1>5
    <3> QED
      BY <3>1, <3>2, <2>2, <1>3
  <2> QED
    BY <2>1, <2>2
<1> QED
  BY <1>4, <1>5, <1>6, <1>7

\* Taking t out of q leaves the others, each once and in their order.
LEMMA WithoutKeeps ==
  ASSUME NEW S, NEW q \in Seq(S), Distinct(q), NEW t
  PROVE  LET w == Without(q, t)
         IN  /\ w \in Seq(S) /\ Distinct(w)
             /\ \A i \in DOMAIN w : w[i] # t /\ w[i] \in Members(q)
             /\ \A i \in DOMAIN q : q[i] # t => q[i] \in Members(w)
             /\ \A i, j \in DOMAIN q : i < j /\ q[i] # t /\ q[j] # t
                  => \E a, b \in DOMAIN w : a < b /\ w[a] = q[i] /\ w[b] = q[j]
<1> DEFINE w == Without(q, t)
<1>1. CASE t \notin Members(q)
  <2>1. w = q
    BY <1>1 DEF Without
  <2> QED
    BY <2>1, <1>1 DEF Members
<1>2. CASE t \in Members(q)
  <2>1. PICK k \in DOMAIN q : q[k] = t
    BY <1>2 DEF Members
  <2> DEFINE o(i) == IF i < k THEN i ELSE i + 1
             p(i) == IF i < k THEN i ELSE i - 1
  <2>2. /\ w \in Seq(S) /\ DOMAIN w = 1..(Len(q) - 1)
        /\ \A i \in DOMAIN w : w[i] = q[o(i)]
    BY <2>1, WithoutShape
  <2>3. \A i \in DOMAIN w : o(i) \in DOMAIN q /\ o(i) # k
    BY <2>1, <2>2
  <2>4. \A i, j \in DOMAIN w : o(i) = o(j) => i = j
    BY <2>1, <2>2
  <2>5. \A i \in DOMAIN q : i # k => p(i) \in DOMAIN w /\ o(p(i)) = i
    BY <2>1, <2>2
  <2>6. \A i, j \in DOMAIN q : i < j /\ i # k /\ j # k => p(i) < p(j)
    BY <2>1
  <2> HIDE DEF w, o, p
  <2>7. \A i \in DOMAIN q : q[i] # t => p(i) \in DOMAIN w /\ w[p(i)] = q[i]
    BY <2>1, <2>2, <2>5
  <2>8. Distinct(w)
    BY <2>2, <2>3, <2>4 DEF Distinct
  <2>9. \A i \in DOMAIN w : w[i] # t /\ w[i] \in Members(q)
    BY <2>1, <2>2, <2>3 DEF Distinct, Members
  <2>10. \A i, j \in DOMAIN q : i < j /\ q[i] # t /\ q[j] # t
           => \E a, b \in DOMAIN w : a < b /\ w[a] = q[i] /\ w[b] = q[j]
    BY <2>1, <2>6, <2>7
  <2> QED
    BY <2>2, <2>7, <2>8, <2>9, <2>10 DEF w, Members
<1> QED
  BY <1>1, <1>2

LEMMA BeforeIs ==
  ASSUME NEW S, NEW q \in Seq(S), Distinct(q), NEW k \in DOMAIN q
  PROVE  Before(q, q[k]) = {q[i] : i \in 1..(k - 1)}
<1>1. (CHOOSE j \in DOMAIN q : q[j] = q[k]) = k
  BY DEF Distinct
<1> QED
  BY <1>1 DEF Before

\* A newcomer is in the queue once.
LEMMA AppendDistinct ==
  ASSUME NEW S, NEW q \in Seq(S), Distinct(q), NEW v \in S, v \notin Members(q)
  PROVE  Members(Append(q, v)) = Members(q) \cup {v} /\ Distinct(Append(q, v))
<1> DEFINE a == Append(q, v)
<1>1. /\ a \in Seq(S) /\ DOMAIN a = 1..(Len(q) + 1) /\ a[Len(q) + 1] = v
      /\ \A i \in DOMAIN q : i \in DOMAIN a /\ a[i] = q[i]
  OBVIOUS
<1> HIDE DEF a
<1>2. Distinct(a) /\ Members(a) = Members(q) \cup {v}
  BY <1>1 DEF Distinct, Members
<1> QED
  BY <1>2 DEF a

\* Who comes last is before nobody.
LEMMA BeforeAppend ==
  ASSUME NEW S, NEW q \in Seq(S), Distinct(q), NEW t \in Members(q), NEW v \in S, v \notin Members(q)
  PROVE  Before(Append(q, v), t) = Before(q, t)
<1> DEFINE a == Append(q, v)
<1>1. PICK k \in DOMAIN q : q[k] = t
  BY DEF Members
<1>2. /\ a \in Seq(S) /\ Distinct(a)
      /\ \A i \in DOMAIN q : i \in DOMAIN a /\ a[i] = q[i]
  BY AppendDistinct
<1> HIDE DEF a
<1>3. Before(a, t) = {a[i] : i \in 1..(k - 1)} /\ Before(q, t) = {q[i] : i \in 1..(k - 1)}
  BY <1>1, <1>2, BeforeIs
<1>4. {a[i] : i \in 1..(k - 1)} = {q[i] : i \in 1..(k - 1)}
  BY <1>1, <1>2
<1> QED
  BY <1>3, <1>4 DEF a

\* Who stays is still behind everybody else it was behind.
LEMMA BeforeWithout ==
  ASSUME NEW S, NEW q \in Seq(S), Distinct(q), NEW t \in Members(q), NEW v, v # t
  PROVE  t \in Members(Without(q, v)) /\ Before(q, t) \ {v} \subseteq Before(Without(q, v), t)
<1> DEFINE w == Without(q, v)
<1>1. PICK k \in DOMAIN q : q[k] = t
  BY DEF Members
<1>2. /\ w \in Seq(S) /\ Distinct(w)
      /\ \A i \in DOMAIN q : q[i] # v => q[i] \in Members(w)
      /\ \A i, j \in DOMAIN q : i < j /\ q[i] # v /\ q[j] # v
           => \E a, b \in DOMAIN w : a < b /\ w[a] = q[i] /\ w[b] = q[j]
  BY WithoutKeeps
<1> HIDE DEF w
<1>3. Before(q, t) = {q[i] : i \in 1..(k - 1)}
  BY <1>1, BeforeIs
<1>4. ASSUME NEW u \in Before(q, t), u # v PROVE u \in Before(w, t)
  <2>1. PICK i \in 1..(k - 1) : u = q[i]
    BY <1>3, <1>4
  <2>2. i \in DOMAIN q /\ i < k
    BY <1>1, <2>1
  <2>3. PICK a \in DOMAIN w, b \in DOMAIN w : a < b /\ w[a] = u /\ w[b] = t
    BY <1>1, <1>2, <1>4, <2>1, <2>2
  <2>4. Before(w, t) = {w[n] : n \in 1..(b - 1)}
    BY <1>2, <2>3, BeforeIs
  <2>5. a \in 1..(b - 1)
    BY <1>2, <2>3
  <2> QED
    BY <2>3, <2>4, <2>5
<1> QED
  BY <1>1, <1>2, <1>4 DEF w

\* Another's leaving does not move the first.
LEMMA HeadStays ==
  ASSUME NEW S, NEW q \in Seq(S), Distinct(q), q # <<>>, NEW v, v # Head(q)
  PROVE  Without(q, v) # <<>> /\ Head(Without(q, v)) = Head(q)
<1>1. CASE v \notin Members(q)
  BY <1>1 DEF Without
<1>2. CASE v \in Members(q)
  <2>1. PICK k \in DOMAIN q : q[k] = v
    BY <1>2 DEF Members
  <2> DEFINE w == Without(q, v)
  <2>2. w \in Seq(S) /\ DOMAIN w = 1..(Len(q) - 1) /\ \A i \in 1..(Len(q) - 1) : w[i] = q[IF i < k THEN i ELSE i + 1]
    BY <2>1, WithoutShape
  <2>3. k > 1 /\ k <= Len(q) /\ Head(q) = q[1]
    BY <2>1
  <2> HIDE DEF w
  <2>4. 1 \in DOMAIN w /\ w[1] = q[1]
    BY <2>2, <2>3
  <2>5. w # <<>> /\ Head(w) = w[1]
    BY <2>2, <2>4
  <2> QED
    BY <2>3, <2>4, <2>5 DEF w
<1> QED
  BY <1>1, <1>2
=============================================================================
