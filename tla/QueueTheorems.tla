--------------------------- MODULE QueueTheorems ---------------------------
(***************************************************************************)
(* Facts that the proofs of several components rest on: the least of a set *)
(* of numbers, and what a queue of staged operations holds after a member  *)
(* is put in or taken out, and that it holds nothing twice.                *)
(***************************************************************************)
EXTENDS Integers, SequencesExt, SequenceTheorems, WellFoundedInduction, TLAPS

\* A set of numbers has a least one.
LEMMA LeastOf ==
  ASSUME NEW T \in SUBSET Nat, T # {}
  PROVE  \E n \in T : \A m \in T : n <= m
<1>1. PICK n \in T : \A m \in T : ~ (<<m, n>> \in OpToRel(<, Nat))
  BY NatLessThanWellFounded, WFMin
<1>2. \A m \in T : ~ (m < n)
  BY <1>1 DEF OpToRel
<1> QED
  BY <1>2

\* Removing one place of a queue keeps the others, in their order.
LEMMA RemoveAtType ==
  ASSUME NEW S, NEW q \in Seq(S), NEW n \in 1..Len(q)
  PROVE  /\ RemoveAt(q, n) \in Seq(S)
         /\ Len(RemoveAt(q, n)) = Len(q) - 1
         /\ \A k \in 1..(Len(q) - 1) :
              RemoveAt(q, n)[k] = IF k < n THEN q[k] ELSE q[k + 1]
<1> DEFINE a == SubSeq(q, 1, n - 1)
           b == SubSeq(q, n + 1, Len(q))
<1>1. /\ a \in Seq(S) /\ Len(a) = n - 1
      /\ \A k \in 1..(n - 1) : a[k] = q[k]
  OBVIOUS
<1>2. /\ b \in Seq(S) /\ Len(b) = Len(q) - n
      /\ \A k \in 1..(Len(q) - n) : b[k] = q[n + k]
  OBVIOUS
<1>3. RemoveAt(q, n) = a \o b
  BY DEF RemoveAt
<1> HIDE DEF a, b
<1>4. /\ a \o b \in Seq(S)
      /\ Len(a \o b) = Len(a) + Len(b)
      /\ \A i \in 1 .. Len(a) + Len(b) :
           (a \o b)[i] = IF i <= Len(a) THEN a[i] ELSE b[i - Len(a)]
  BY <1>1, <1>2, ConcatProperties
<1>5. Len(q) \in Nat
  BY LenProperties
<1>6. Len(a) + Len(b) = Len(q) - 1
  BY <1>1, <1>2, <1>5
<1>7. ASSUME NEW k \in 1..(Len(q) - 1)
      PROVE  (a \o b)[k] = IF k < n THEN q[k] ELSE q[k + 1]
  <2>1. (a \o b)[k] = IF k <= Len(a) THEN a[k] ELSE b[k - Len(a)]
    BY <1>4, <1>6
  <2>2. CASE k < n
    BY <1>1, <2>1, <2>2
  <2>3. CASE ~ (k < n)
    <3>1. (a \o b)[k] = b[k - (n - 1)]
      BY <1>1, <2>1, <2>3
    <3>2. k - (n - 1) \in 1..(Len(q) - n) /\ n + (k - (n - 1)) = k + 1
      BY <1>5, <2>3
    <3> QED
      BY <3>1, <3>2, <1>2, <2>3
  <2> QED
    BY <2>2, <2>3
<1> QED
  BY <1>3, <1>4, <1>6, <1>7

\* Inserting a member moves on those from its place.
LEMMA InsertAtType ==
  ASSUME NEW S, NEW q \in Seq(S), NEW n \in 1..(Len(q) + 1), NEW e \in S
  PROVE  /\ InsertAt(q, n, e) \in Seq(S)
         /\ Len(InsertAt(q, n, e)) = Len(q) + 1
         /\ \A k \in 1..(Len(q) + 1) :
              InsertAt(q, n, e)[k] = IF k < n THEN q[k] ELSE IF k = n THEN e ELSE q[k - 1]
<1> DEFINE a == SubSeq(q, 1, n - 1)
           b == SubSeq(q, n, Len(q))
           c == Append(a, e)
<1>1. Len(q) \in Nat /\ n \in Nat
  BY LenProperties
<1>2. /\ a \in Seq(S) /\ Len(a) = n - 1
      /\ \A k \in 1..(n - 1) : a[k] = q[k]
  BY <1>1, SubSeqProperties
<1>3. /\ b \in Seq(S) /\ Len(b) = Len(q) - n + 1
      /\ \A k \in 1..(Len(q) - n + 1) : b[k] = q[n + k - 1]
  BY <1>1, SubSeqProperties
<1>4. InsertAt(q, n, e) = c \o b
  BY <1>2, AppendIsConcat DEF InsertAt
<1> HIDE DEF a, b
<1>5. /\ c \in Seq(S) /\ Len(c) = n /\ c[n] = e
      /\ \A k \in 1..(n - 1) : c[k] = q[k]
  <2>1. /\ c \in Seq(S) /\ Len(c) = Len(a) + 1 /\ c[Len(a) + 1] = e
        /\ \A k \in 1..Len(a) : c[k] = a[k]
    BY <1>2, AppendProperties
  <2>2. (n - 1) + 1 = n
    BY <1>1
  <2> HIDE DEF c
  <2> QED
    BY <1>2, <2>1, <2>2
<1> HIDE DEF c
<1>6. /\ c \o b \in Seq(S) /\ Len(c \o b) = Len(c) + Len(b)
      /\ \A k \in 1..(Len(c) + Len(b)) : (c \o b)[k] = IF k <= Len(c) THEN c[k] ELSE b[k - Len(c)]
  BY <1>3, <1>5, ConcatProperties
<1>7. Len(c) + Len(b) = Len(q) + 1
  BY <1>1, <1>3, <1>5
<1>8. ASSUME NEW k \in 1..(Len(q) + 1)
      PROVE  (c \o b)[k] = IF k < n THEN q[k] ELSE IF k = n THEN e ELSE q[k - 1]
  <2>1. (c \o b)[k] = IF k <= n THEN c[k] ELSE b[k - n]
    BY <1>5, <1>6, <1>7
  <2>2. CASE k <= n
    BY <1>1, <1>5, <2>1, <2>2
  <2>3. CASE ~ (k <= n)
    <3>1. k - n \in 1..(Len(q) - n + 1) /\ n + (k - n) - 1 = k - 1
      BY <1>1, <2>3
    <3> QED
      BY <1>1, <1>3, <2>1, <2>3, <3>1
  <2> QED
    BY <2>2, <2>3
<1> QED
  BY <1>4, <1>6, <1>7, <1>8

\* Appending adds one member, and repeats nothing when it was not one before.
LEMMA AppendMembers ==
  ASSUME NEW S, NEW q \in Seq(S), NEW e \in S
  PROVE  /\ Append(q, e) \in Seq(S)
         /\ ToSet(Append(q, e)) = ToSet(q) \cup {e}
         /\ IsInjective(q) /\ e \notin ToSet(q) => IsInjective(Append(q, e))
<1> DEFINE r == Append(q, e)
<1>1. /\ Len(q) \in Nat /\ DOMAIN q = 1..Len(q)
      /\ r \in Seq(S) /\ Len(r) = Len(q) + 1
      /\ \A k \in 1..Len(q) : r[k] = q[k]
      /\ r[Len(q) + 1] = e
  OBVIOUS
<1>2. DOMAIN r = 1..(Len(q) + 1)
  BY <1>1
<1> HIDE DEF r
<1>3. ToSet(r) = ToSet(q) \cup {e}
  <2>1. 1..(Len(q) + 1) = 1..Len(q) \cup {Len(q) + 1}
    BY <1>1
  <2> QED
    BY <1>1, <1>2, <2>1 DEF ToSet
<1>4. ASSUME IsInjective(q), e \notin ToSet(q) PROVE IsInjective(r)
  <2>1. \A k \in 1..Len(q) : q[k] # e
    BY <1>1, <1>4 DEF ToSet
  <2>2. ASSUME NEW j \in 1..(Len(q) + 1), NEW k \in 1..(Len(q) + 1), r[j] = r[k]
        PROVE  j = k
    <3>1. CASE j \in 1..Len(q) /\ k \in 1..Len(q)
      BY <1>1, <1>4, <2>2, <3>1 DEF IsInjective
    <3>2. CASE j = Len(q) + 1 \/ k = Len(q) + 1
      BY <1>1, <2>1, <2>2, <3>2
    <3> QED
      BY <1>1, <3>1, <3>2
  <2> QED
    BY <1>2, <2>2 DEF IsInjective
<1> QED
  BY <1>1, <1>3, <1>4 DEF r

\* Removing one place takes away its member, when nothing is repeated, and repeats
\* nothing.
LEMMA RemoveMembers ==
  ASSUME NEW S, NEW q \in Seq(S), NEW n \in 1..Len(q)
  PROVE  /\ RemoveAt(q, n) \in Seq(S)
         /\ ToSet(RemoveAt(q, n)) \subseteq ToSet(q)
         /\ ToSet(q) \subseteq ToSet(RemoveAt(q, n)) \cup {q[n]}
         /\ IsInjective(q) => IsInjective(RemoveAt(q, n))
<1> DEFINE r == RemoveAt(q, n)
           at(x) == IF x < n THEN x ELSE x + 1
<1>1. /\ r \in Seq(S) /\ Len(r) = Len(q) - 1
      /\ \A k \in 1..(Len(q) - 1) : r[k] = IF k < n THEN q[k] ELSE q[k + 1]
  BY RemoveAtType
<1>2. Len(q) \in Nat /\ DOMAIN q = 1..Len(q)
  BY LenProperties
<1> HIDE DEF r
<1>3. DOMAIN r = 1..(Len(q) - 1)
  BY <1>1
<1>4. \A k \in DOMAIN r : at(k) \in DOMAIN q /\ r[k] = q[at(k)]
  BY <1>1, <1>2, <1>3
<1>5. ToSet(r) \subseteq ToSet(q)
  BY <1>4 DEF ToSet
<1>6. ASSUME NEW k \in DOMAIN q, k # n PROVE q[k] \in ToSet(r)
  <2>1. CASE k < n
    <3>1. k \in DOMAIN r /\ r[k] = q[k]
      BY <1>1, <1>2, <1>3, <2>1
    <3> QED
      BY <3>1 DEF ToSet
  <2>2. CASE ~ (k < n)
    <3>1. k - 1 \in DOMAIN r /\ r[k - 1] = q[k]
      BY <1>1, <1>2, <1>3, <1>6, <2>2
    <3> QED
      BY <3>1 DEF ToSet
  <2> QED
    BY <2>1, <2>2
<1>7. ToSet(q) \subseteq ToSet(r) \cup {q[n]}
  BY <1>6 DEF ToSet
<1>8. ASSUME IsInjective(q), NEW j \in DOMAIN r, NEW k \in DOMAIN r, r[j] = r[k]
      PROVE  j = k
  <2>1. q[at(j)] = q[at(k)]
    BY <1>4, <1>8
  <2>2. at(j) = at(k)
    BY <1>4, <1>8, <2>1 DEF IsInjective
  <2> QED
    BY <1>2, <1>3, <2>2
<1>9. IsInjective(q) => IsInjective(r)
  BY <1>8 DEF IsInjective
<1> QED
  BY <1>1, <1>5, <1>7, <1>9 DEF r
=============================================================================
