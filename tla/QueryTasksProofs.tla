--------------------------- MODULE QueryTasksProofs ---------------------------
(***************************************************************************)
(* Proofs about QueryTasks: the queue keeps its order, a task is notified  *)
(* at most once and never after dropTask has returned true, and a task     *)
(* exists as long as the handler may call it.  First come facts about the  *)
(* queue as a value: what Push, Without and Popped do to one in order.     *)
(***************************************************************************)
EXTENDS QueryTasks, SequenceTheorems, FiniteSetTheorems, WellFoundedInduction, TLAPS

\* Place for any list of posted tasks, and QueueInOrder for any queue.
PlaceIn(p, t) == CHOOSE i \in DOMAIN p : p[i] = t

Sorted(q, p) ==
  \A i, k \in DOMAIN q : i < k =>
    \/ Priority[q[i]] < Priority[q[k]]
    \/ Priority[q[i]] = Priority[q[k]] /\ PlaceIn(p, q[i]) > PlaceIn(p, q[k])

Distinct(q) == \A i, k \in DOMAIN q : q[i] = q[k] => i = k

\* A queue whose order is that of the posted tasks p
QueueOK(q, p) ==
  /\ q \in Seq(Task) /\ Distinct(q)
  /\ ToSet(q) \subseteq ToSet(p) /\ Sorted(q, p)

(* InsertAt makes room for one element at its position.                    *)
LEMMA InsertAtFacts ==
  ASSUME NEW s \in Seq(Task), NEW n \in 1 .. Len(s) + 1, NEW e \in Task,
         NEW r, r = InsertAt(s, n, e)
  PROVE  /\ r \in Seq(Task) /\ Len(r) = Len(s) + 1
         /\ r[n] = e
         /\ \A i \in 1 .. n - 1 : r[i] = s[i]
         /\ \A i \in n + 1 .. Len(s) + 1 : r[i] = s[i - 1]
<1> DEFINE a == SubSeq(s, 1, n - 1)
           b == SubSeq(s, n, Len(s))
           c == a \o << e >>
<1>0. Len(s) \in Nat /\ n \in Nat
  BY LenProperties
<1>1. a \in Seq(Task) /\ Len(a) = n - 1 /\ \A i \in 1 .. n - 1 : a[i] = s[i]
  BY <1>0, SubSeqProperties
<1>2. /\ b \in Seq(Task) /\ Len(b) = Len(s) - n + 1
      /\ \A i \in 1 .. Len(s) - n + 1 : b[i] = s[n + i - 1]
  BY <1>0, SubSeqProperties
<1>3. r = c \o b
  BY DEF InsertAt
<1> HIDE DEF a, b
<1>4. << e >> \in Seq(Task) /\ Len(<< e >>) = 1 /\ << e >>[1] = e
  OBVIOUS
<1>5. /\ c \in Seq(Task) /\ Len(c) = n /\ c[n] = e
      /\ \A i \in 1 .. n - 1 : c[i] = s[i]
  BY SMTT(30), <1>0, <1>1, <1>4, ConcatProperties
<1> HIDE DEF c
<1>6. r \in Seq(Task) /\ Len(r) = Len(s) + 1
  <2>1. c \o b \in Seq(Task) /\ Len(c \o b) = Len(c) + Len(b)
    BY <1>2, <1>5, ConcatProperties
  <2>2. n + (Len(s) - n + 1) = Len(s) + 1
    BY <1>0
  <2> QED  BY <1>2, <1>3, <1>5, <2>1, <2>2
<1>7. \A i \in 1 .. n : r[i] = c[i]
  BY <1>0, <1>2, <1>3, <1>5, ConcatProperties
<1>8. \A i \in n + 1 .. Len(s) + 1 : r[i] = b[i - n]
  BY <1>0, <1>2, <1>3, <1>5, ConcatProperties
<1>9. \A i \in n + 1 .. Len(s) + 1 : b[i - n] = s[i - 1]
  <2> SUFFICES ASSUME NEW i \in n + 1 .. Len(s) + 1 PROVE b[i - n] = s[i - 1]
    OBVIOUS
  <2>1. i - n \in 1 .. Len(s) - n + 1 /\ n + (i - n) - 1 = i - 1
    BY <1>0
  <2> QED  BY <1>2, <2>1
<1>10. r[n] = e /\ \A i \in 1 .. n - 1 : r[i] = s[i]
  BY <1>0, <1>5, <1>7
<1> QED  BY <1>6, <1>8, <1>9, <1>10

(* RemoveAt closes the gap.                                                *)
LEMMA RemoveAtFacts ==
  ASSUME NEW S, NEW s \in Seq(S), NEW n \in 1 .. Len(s)
  PROVE  LET r == RemoveAt(s, n)
         IN  /\ r \in Seq(S) /\ Len(r) = Len(s) - 1
             /\ \A i \in 1 .. n - 1 : r[i] = s[i]
             /\ \A i \in n .. Len(s) - 1 : r[i] = s[i + 1]
<1> DEFINE a == SubSeq(s, 1, n - 1)
           b == SubSeq(s, n + 1, Len(s))
<1>0. Len(s) \in Nat /\ n \in Nat
  BY LenProperties
<1>1. a \in Seq(S) /\ Len(a) = n - 1 /\ \A i \in 1 .. n - 1 : a[i] = s[i]
  BY <1>0, SubSeqProperties
<1>2. b \in Seq(S) /\ Len(b) = Len(s) - n /\ \A i \in 1 .. Len(s) - n : b[i] = s[n + i]
  BY <1>0, SubSeqProperties
<1>3. RemoveAt(s, n) = a \o b
  BY DEF RemoveAt
<1> HIDE DEF a, b
<1>4. a \o b \in Seq(S) /\ Len(a \o b) = Len(s) - 1
  <2>1. a \o b \in Seq(S) /\ Len(a \o b) = Len(a) + Len(b)
    BY <1>1, <1>2, ConcatProperties
  <2>2. (n - 1) + (Len(s) - n) = Len(s) - 1
    BY <1>0
  <2> QED  BY <1>1, <1>2, <2>1, <2>2
<1>5. \A i \in 1 .. n - 1 : (a \o b)[i] = s[i]
  BY <1>0, <1>1, <1>2, ConcatProperties
<1>6. \A i \in n .. Len(s) - 1 : (a \o b)[i] = b[i - (n - 1)]
  BY <1>0, <1>1, <1>2, ConcatProperties
<1>7. \A i \in n .. Len(s) - 1 : b[i - (n - 1)] = s[i + 1]
  <2> SUFFICES ASSUME NEW i \in n .. Len(s) - 1 PROVE b[i - (n - 1)] = s[i + 1]
    OBVIOUS
  <2>1. i - (n - 1) \in 1 .. Len(s) - n /\ n + (i - (n - 1)) = i + 1
    BY <1>0
  <2> QED  BY <1>2, <2>1
<1> QED  BY <1>0, <1>3, <1>4, <1>5, <1>6, <1>7

(* A set of positions that has all smaller ones with each one is an        *)
(* initial part of the list.                                               *)
LEMMA InitialPart ==
  ASSUME NEW n \in Nat, NEW S, S \subseteq 1 .. n,
         \A i \in S : \A k \in 1 .. i : k \in S
  PROVE  Cardinality(S) \in 0 .. n /\ S = 1 .. Cardinality(S)
<1>1. CASE S = 1 .. n
  <2>1. Cardinality(1 .. n) = n
    <3>1. Cardinality(1 .. n) = IF 1 > n THEN 0 ELSE n - 1 + 1
      BY FS_Interval
    <3> QED  BY <3>1
  <2> QED  BY <1>1, <2>1
<1>2. CASE S # 1 .. n
  <2> DEFINE T == (1 .. n) \ S
             R == {ss \in Nat \X Nat : ss[1] < ss[2]}
  <2>1. IsWellFoundedOn(R, Nat)
    <3>1. R = OpToRel(<, Nat)
      BY DEF OpToRel
    <3> QED  BY <3>1, NatLessThanWellFounded
  <2>2. T \subseteq Nat /\ T # {}
    <3>1. PICK k \in 1 .. n : k \notin S
      BY <1>2
    <3>2. k \in T
      BY <3>1
    <3> QED  BY <3>2
  <2>3. PICK m \in T : \A k \in T : ~ (<< k, m >> \in R)
    <3> HIDE DEF T, R
    <3> QED  BY <2>1, <2>2, WFMin
  <2>4. m \in 1 .. n /\ m \notin S
    OBVIOUS
  <2>5. ASSUME NEW k \in 1 .. m - 1 PROVE k \in S
    <3> SUFFICES ASSUME k \notin S PROVE FALSE
      OBVIOUS
    <3>1. k \in 1 .. n /\ k < m /\ k \in Nat /\ m \in Nat
      BY <2>4
    <3>2. k \in T /\ << k, m >> \in Nat \X Nat /\ << k, m >>[1] < << k, m >>[2]
      BY <3>1
    <3> QED  BY <2>3, <3>2
  <2>6. ASSUME NEW i \in S PROVE i \in 1 .. m - 1
    <3>1. i \in 1 .. n
      OBVIOUS
    <3>2. ~ (m <= i)
      BY <2>4, <3>1
    <3> QED  BY <2>4, <3>1, <3>2
  <2>7. S = 1 .. m - 1
    BY <2>5, <2>6
  <2>8. Cardinality(1 .. m - 1) = m - 1
    <3>1. Cardinality(1 .. m - 1) = IF 1 > m - 1 THEN 0 ELSE (m - 1) - 1 + 1
      BY <2>4, FS_Interval
    <3> QED  BY <2>4, <3>1
  <2> QED  BY <2>4, <2>7, <2>8
<1> QED  BY <1>1, <1>2

(* Positions and elements of a queue.                                      *)
LEMMA ToSetFacts ==
  ASSUME NEW S, NEW q \in Seq(S)
  PROVE  /\ Len(q) \in Nat /\ DOMAIN q = 1 .. Len(q)
         /\ \A i \in 1 .. Len(q) : q[i] \in S /\ q[i] \in ToSet(q)
         /\ \A t \in ToSet(q) : t \in S /\ \E i \in 1 .. Len(q) : q[i] = t
<1>1. Len(q) \in Nat /\ DOMAIN q = 1 .. Len(q)
  BY LenProperties
<1>2. \A i \in 1 .. Len(q) : q[i] \in S
  BY ElementOfSeq
<1> QED  BY <1>1, <1>2 DEF ToSet

(* Posting a new task leaves the places of the others.                     *)
LEMMA AppendPlaces ==
  ASSUME NEW p \in Seq(Task), Distinct(p), NEW t \in Task, t \notin ToSet(p)
  PROVE  /\ Append(p, t) \in Seq(Task) /\ Distinct(Append(p, t))
         /\ ToSet(Append(p, t)) = ToSet(p) \cup {t}
         /\ \A u \in ToSet(p) : /\ PlaceIn(Append(p, t), u) = PlaceIn(p, u)
                                /\ PlaceIn(p, u) \in 1 .. Len(p)
         /\ PlaceIn(Append(p, t), t) = Len(p) + 1
<1> DEFINE q == Append(p, t)
<1>1. Len(p) \in Nat /\ DOMAIN p = 1 .. Len(p)
  BY LenProperties
<1>2. /\ q \in Seq(Task) /\ Len(q) = Len(p) + 1
      /\ \A i \in 1 .. Len(p) : q[i] = p[i]
      /\ q[Len(p) + 1] = t
  BY AppendProperties
<1> HIDE DEF q
<1>3. DOMAIN q = 1 .. Len(p) + 1
  BY <1>2, LenProperties
<1>4. \A i \in 1 .. Len(p) : q[i] # t
  BY <1>1, <1>2, ToSetFacts
<1>5. \A i \in 1 .. Len(p) + 1 : i \in 1 .. Len(p) \/ i = Len(p) + 1
  BY <1>1
<1>6. Distinct(q)
  <2> SUFFICES ASSUME NEW i \in DOMAIN q, NEW k \in DOMAIN q, q[i] = q[k]
               PROVE  i = k
    BY DEF Distinct
  <2>1. CASE i \in 1 .. Len(p) /\ k \in 1 .. Len(p)
    BY <1>1, <1>2, <2>1 DEF Distinct
  <2> QED  BY <1>2, <1>3, <1>4, <1>5, <2>1
<1>7. ToSet(q) = ToSet(p) \cup {t}
  <2>1. ASSUME NEW u \in ToSet(q) PROVE u \in ToSet(p) \cup {t}
    <3>1. PICK i \in 1 .. Len(p) + 1 : q[i] = u
      BY <1>3 DEF ToSet
    <3> QED  BY <1>1, <1>2, <1>5, <3>1 DEF ToSet
  <2>2. ASSUME NEW u \in ToSet(p) PROVE u \in ToSet(q)
    <3>1. PICK i \in 1 .. Len(p) : p[i] = u
      BY <1>1 DEF ToSet
    <3>2. i \in 1 .. Len(p) + 1 /\ q[i] = u
      BY <1>1, <1>2, <3>1
    <3> QED  BY <1>3, <3>2 DEF ToSet
  <2>3. t \in ToSet(q)
    <3>1. Len(p) + 1 \in 1 .. Len(p) + 1
      BY <1>1
    <3> QED  BY <1>2, <1>3, <3>1 DEF ToSet
  <2> QED  BY <2>1, <2>2, <2>3
<1>8. ASSUME NEW u \in ToSet(p)
      PROVE  PlaceIn(q, u) = PlaceIn(p, u) /\ PlaceIn(p, u) \in 1 .. Len(p)
  <2>1. PICK i \in 1 .. Len(p) : p[i] = u
    BY <1>1 DEF ToSet
  <2>2. \A k \in DOMAIN p : p[k] = u <=> k = i
    BY <1>1, <2>1 DEF Distinct
  <2>3. PlaceIn(p, u) = i
    BY <1>1, <2>2 DEF PlaceIn
  <2>4. i \in DOMAIN q /\ q[i] = u
    BY <1>1, <1>2, <1>3, <2>1
  <2>5. \A k \in DOMAIN q : q[k] = u <=> k = i
    BY <1>6, <2>4 DEF Distinct
  <2>6. PlaceIn(q, u) = i
    BY <2>4, <2>5 DEF PlaceIn
  <2> QED  BY <2>3, <2>6
<1>9. PlaceIn(q, t) = Len(p) + 1
  <2>1. Len(p) + 1 \in DOMAIN q
    BY <1>1, <1>3
  <2>2. \A k \in DOMAIN q : q[k] = t <=> k = Len(p) + 1
    BY <1>2, <1>6, <2>1 DEF Distinct
  <2> QED  BY <2>1, <2>2 DEF PlaceIn
<1> QED  BY <1>2, <1>6, <1>7, <1>8, <1>9 DEF q

(* Taking one task out of the queue leaves the order of the others.        *)
LEMMA RemovedOK ==
  ASSUME NEW p, NEW q, QueueOK(q, p), NEW n \in 1 .. Len(q),
         NEW r \in Seq(Task), Len(r) = Len(q) - 1,
         \A i \in 1 .. n - 1 : r[i] = q[i],
         \A i \in n .. Len(q) - 1 : r[i] = q[i + 1]
  PROVE  QueueOK(r, p) /\ ToSet(r) = ToSet(q) \ {q[n]}
<1>1. q \in Seq(Task) /\ Distinct(q) /\ ToSet(q) \subseteq ToSet(p) /\ Sorted(q, p)
  BY DEF QueueOK
<1>2. Len(q) \in Nat /\ DOMAIN q = 1 .. Len(q) /\ DOMAIN r = 1 .. Len(q) - 1
  BY <1>1, LenProperties
<1> DEFINE f(i) == IF i < n THEN i ELSE i + 1
<1>3. ASSUME NEW i \in 1 .. Len(q) - 1
      PROVE  f(i) \in 1 .. Len(q) /\ f(i) # n /\ r[i] = q[f(i)]
  <2>1. CASE i < n
    <3>1. i \in 1 .. n - 1
      BY <1>2, <2>1
    <3> QED  BY <1>2, <2>1, <3>1
  <2>2. CASE ~(i < n)
    <3>1. i \in n .. Len(q) - 1
      BY <1>2, <2>2
    <3> QED  BY <1>2, <2>2, <3>1
  <2> QED  BY <2>1, <2>2
<1>4. \A i, k \in 1 .. Len(q) - 1 : (i < k => f(i) < f(k)) /\ (f(i) = f(k) => i = k)
  BY <1>2
<1>5. ASSUME NEW k \in 1 .. Len(q), k # n
      PROVE  \E i \in 1 .. Len(q) - 1 : f(i) = k
  <2>1. CASE k < n
    BY <1>2, <2>1
  <2>2. CASE k > n
    <3>1. k - 1 \in 1 .. Len(q) - 1 /\ f(k - 1) = k
      BY <1>2, <2>2
    <3> QED  BY <3>1
  <2> QED  BY <1>2, <1>5, <2>1, <2>2
<1> HIDE DEF f
<1>6. ToSet(r) = ToSet(q) \ {q[n]}
  <2>1. ASSUME NEW u \in ToSet(r) PROVE u \in ToSet(q) /\ u # q[n]
    <3>1. PICK i \in 1 .. Len(q) - 1 : r[i] = u
      BY <1>2 DEF ToSet
    <3>2. u = q[f(i)] /\ f(i) \in 1 .. Len(q) /\ f(i) # n
      BY <1>3, <3>1
    <3> QED  BY <1>1, <1>2, <3>2 DEF ToSet, Distinct
  <2>2. ASSUME NEW u \in ToSet(q), u # q[n] PROVE u \in ToSet(r)
    <3>1. PICK k \in 1 .. Len(q) : q[k] = u
      BY <1>2 DEF ToSet
    <3>2. PICK i \in 1 .. Len(q) - 1 : f(i) = k
      BY <1>5, <2>2, <3>1
    <3>3. r[i] = u
      BY <1>3, <3>1, <3>2
    <3> QED  BY <1>2, <3>3 DEF ToSet
  <2> QED  BY <2>1, <2>2
<1>7. Distinct(r)
  BY <1>1, <1>2, <1>3, <1>4 DEF Distinct
<1>8. Sorted(r, p)
  <2> SUFFICES ASSUME NEW i \in DOMAIN r, NEW k \in DOMAIN r, i < k
               PROVE  \/ Priority[r[i]] < Priority[r[k]]
                      \/ /\ Priority[r[i]] = Priority[r[k]]
                         /\ PlaceIn(p, r[i]) > PlaceIn(p, r[k])
    BY DEF Sorted
  <2>1. f(i) \in DOMAIN q /\ f(k) \in DOMAIN q /\ f(i) < f(k)
    BY <1>2, <1>3, <1>4
  <2>2. r[i] = q[f(i)] /\ r[k] = q[f(k)]
    BY <1>2, <1>3
  <2> QED  BY <1>1, <2>1, <2>2 DEF Sorted
<1> QED  BY <1>1, <1>6, <1>7, <1>8 DEF QueueOK

(* Dropping a task keeps the order of the queue.                           *)
LEMMA WithoutOK ==
  ASSUME NEW p, NEW q, QueueOK(q, p), NEW t
  PROVE  QueueOK(Without(q, t), p) /\ ToSet(Without(q, t)) = ToSet(q) \ {t}
<1>1. CASE t \notin ToSet(q)
  BY <1>1 DEF Without
<1>2. CASE t \in ToSet(q)
  <2> DEFINE n == CHOOSE i \in DOMAIN q : q[i] = t
             r == RemoveAt(q, n)
  <2>1. q \in Seq(Task)
    BY DEF QueueOK
  <2>2. n \in 1 .. Len(q) /\ q[n] = t
    BY <1>2, <2>1, ToSetFacts
  <2> HIDE DEF n
  <2>3. /\ r \in Seq(Task) /\ Len(r) = Len(q) - 1
        /\ \A i \in 1 .. n - 1 : r[i] = q[i]
        /\ \A i \in n .. Len(q) - 1 : r[i] = q[i + 1]
    BY <2>1, <2>2, RemoveAtFacts
  <2> HIDE DEF r
  <2>4. QueueOK(r, p) /\ ToSet(r) = ToSet(q) \ {q[n]}
    BY <2>2, <2>3, RemovedOK
  <2>5. Without(q, t) = r
    BY <1>2 DEF Without, r, n
  <2> QED  BY <2>2, <2>4, <2>5
<1> QED  BY <1>1, <1>2

(* So does taking the first one.                                           *)
LEMMA PoppedOK ==
  ASSUME NEW p, NEW q, QueueOK(q, p), q # << >>
  PROVE  /\ Last(q) \in ToSet(q) /\ Last(q) \in Task
         /\ QueueOK(Popped(q), p) /\ ToSet(Popped(q)) = ToSet(q) \ {Last(q)}
<1> DEFINE n == Len(q)
           r == Popped(q)
<1>1. q \in Seq(Task) /\ n \in Nat
  BY LenProperties DEF QueueOK
<1>2. n \in 1 .. Len(q)
  <2>1. n # 0
    BY <1>1, EmptySeq
  <2> QED  BY <1>1, <2>1
<1>3. Last(q) = q[n] /\ q[n] \in ToSet(q) /\ q[n] \in Task
  BY <1>1, <1>2, ToSetFacts DEF Last
<1>4. r = SubSeq(q, 1, n - 1)
  BY DEF Popped, Front
<1>5. \A i \in 1 .. n - 1 : q[i] \in Task
  <2>1. \A i \in 1 .. n - 1 : i \in 1 .. Len(q)
    BY <1>1
  <2> QED  BY <1>1, <2>1, ToSetFacts
<1>6. /\ SubSeq(q, 1, n - 1) \in Seq(Task)
      /\ Len(SubSeq(q, 1, n - 1)) = IF 1 <= n - 1 THEN (n - 1) - 1 + 1 ELSE 0
      /\ \A i \in 1 .. (n - 1) - 1 + 1 : SubSeq(q, 1, n - 1)[i] = q[1 + i - 1]
  BY <1>1, <1>5, SubSeqProperties
<1>7. /\ r \in Seq(Task) /\ Len(r) = Len(q) - 1
      /\ \A i \in 1 .. n - 1 : r[i] = q[i]
  <2>1. Len(r) = n - 1
    <3>1. n \in Nat /\ n >= 1
      BY <1>1, <1>2
    <3> HIDE DEF n, r
    <3>2. (IF 1 <= n - 1 THEN (n - 1) - 1 + 1 ELSE 0) = n - 1
      BY <3>1
    <3> QED  BY <1>4, <1>6, <3>2
  <2>2. ASSUME NEW i \in 1 .. n - 1 PROVE r[i] = q[i]
    <3>1. i \in 1 .. (n - 1) - 1 + 1 /\ 1 + i - 1 = i
      BY <1>1
    <3> QED  BY <1>4, <1>6, <3>1
  <2> QED  BY <1>4, <1>6, <2>1, <2>2
<1>8. \A i \in n .. Len(q) - 1 : r[i] = q[i + 1]
  BY <1>1
<1> HIDE DEF n, r
<1>9. QueueOK(r, p) /\ ToSet(r) = ToSet(q) \ {q[n]}
  <2>1. n = Len(q)
    BY DEF n
  <2>2. n \in 1 .. Len(q) /\ r \in Seq(Task) /\ Len(r) = Len(q) - 1
    BY <1>2, <1>7
  <2>3. /\ \A i \in 1 .. n - 1 : r[i] = q[i]
        /\ \A i \in n .. Len(q) - 1 : r[i] = q[i + 1]
    BY <1>7, <1>8
  <2> QED  BY <2>2, <2>3, RemovedOK
<1> QED  BY <1>3, <1>9 DEF r

(* A task that is posted goes behind those that are taken before it: those *)
(* of a higher priority and earlier ones of the same.                      *)
LEMMA PushOK ==
  ASSUME NEW p \in Seq(Task), Distinct(p), NEW q, QueueOK(q, p),
         NEW t \in Task, t \notin ToSet(p)
  PROVE  /\ QueueOK(Push(q, t), Append(p, t))
         /\ ToSet(Push(q, t)) = ToSet(q) \cup {t}
<1> DEFINE S == {i \in DOMAIN q : Priority[q[i]] < Priority[t]}
           n == Cardinality(S)
           r == Push(q, t)
           a == Append(p, t)
<1>1. q \in Seq(Task) /\ Distinct(q) /\ ToSet(q) \subseteq ToSet(p) /\ Sorted(q, p)
  BY DEF QueueOK
<1>2. Len(q) \in Nat /\ DOMAIN q = 1 .. Len(q)
  BY <1>1, LenProperties
<1>3. \A u \in Task : Priority[u] \in Nat
  BY TaskAssumption
<1>4. \A i \in DOMAIN q : q[i] \in Task /\ q[i] \in ToSet(q) /\ q[i] \in ToSet(p)
  BY <1>1, <1>2, ToSetFacts
<1>5. ASSUME NEW i \in S, NEW k \in 1 .. i PROVE k \in S
  <2>1. k \in DOMAIN q /\ i \in DOMAIN q /\ (k = i \/ k < i)
    BY <1>2
  <2>2. CASE k < i
    <3>1. Priority[q[k]] <= Priority[q[i]]
      BY <1>1, <1>3, <1>4, <2>1, <2>2 DEF Sorted
    <3> QED  BY <1>3, <1>4, <2>1, <3>1
  <2> QED  BY <2>1, <2>2
<1>6. n \in 0 .. Len(q) /\ S = 1 .. n
  <2>1. S \subseteq 1 .. Len(q)
    BY <1>2
  <2> HIDE DEF S
  <2> QED  BY <1>2, <1>5, <2>1, InitialPart
<1>7. ASSUME NEW i \in 1 .. n PROVE i \in DOMAIN q /\ Priority[q[i]] < Priority[t]
  <2>1. i \in S
    BY <1>6
  <2> QED  BY <2>1
<1>8. ASSUME NEW i \in n + 1 .. Len(q)
      PROVE  i \in DOMAIN q /\ Priority[q[i]] >= Priority[t]
  <2>1. i \in DOMAIN q /\ i \notin 1 .. n
    BY <1>2, <1>6
  <2>2. i \notin S
    BY <1>6, <2>1
  <2>3. ~(Priority[q[i]] < Priority[t])
    BY <2>1, <2>2
  <2> QED  BY <1>3, <1>4, <2>1, <2>3
<1>9. r = InsertAt(q, n + 1, t)
  BY DEF Push
<1> HIDE DEF S, n, r, a
<1>10. /\ r \in Seq(Task) /\ Len(r) = Len(q) + 1
       /\ \A i \in 1 .. n : r[i] = q[i]
       /\ r[n + 1] = t
       /\ \A i \in n + 2 .. Len(q) + 1 : r[i] = q[i - 1]
  <2>1. t \in Task /\ q \in Seq(Task) /\ n \in 0 .. Len(q)
    BY <1>1, <1>6
  <2>2. PICK k \in 1 .. Len(q) + 1 : k = n + 1
    BY <1>2, <2>1
  <2>3. r = InsertAt(q, k, t)
    BY <1>9, <2>2
  <2>4. /\ r \in Seq(Task) /\ Len(r) = Len(q) + 1
        /\ r[k] = t
        /\ \A i \in 1 .. k - 1 : r[i] = q[i]
        /\ \A i \in k + 1 .. Len(q) + 1 : r[i] = q[i - 1]
    BY SMTT(30), <1>2, <2>1, <2>3, InsertAtFacts
  <2>5. n = k - 1 /\ n + 2 = k + 1
    BY <2>1, <2>2
  <2> QED  BY <2>2, <2>4, <2>5
<1>11. DOMAIN r = 1 .. Len(q) + 1
  BY <1>10, LenProperties
<1>12. /\ ToSet(a) = ToSet(p) \cup {t} /\ PlaceIn(a, t) = Len(p) + 1
       /\ \A u \in ToSet(p) : PlaceIn(a, u) = PlaceIn(p, u) /\ PlaceIn(p, u) \in 1 .. Len(p)
  BY AppendPlaces DEF a
<1>13. Len(p) \in Nat
  BY LenProperties
<1> DEFINE f(i) == IF i <= n THEN i ELSE i - 1
<1>14. ASSUME NEW i \in DOMAIN r, i # n + 1
       PROVE  f(i) \in DOMAIN q /\ r[i] = q[f(i)]
  <2>1. CASE i <= n
    BY <1>2, <1>6, <1>10, <1>11, <2>1
  <2>2. CASE i > n + 1
    <3>1. i \in n + 2 .. Len(q) + 1
      BY <1>2, <1>6, <1>11, <2>2
    <3>2. i - 1 \in 1 .. Len(q)
      BY <1>2, <1>6, <3>1
    <3> QED  BY <1>2, <1>6, <1>10, <2>2, <3>1, <3>2
  <2> QED  BY <1>2, <1>6, <1>11, <1>14, <2>1, <2>2
<1>15. n + 1 \in DOMAIN r
  BY <1>2, <1>6, <1>11
<1>16. ASSUME NEW k \in DOMAIN q PROVE \E i \in DOMAIN r : r[i] = q[k]
  <2>1. CASE k <= n
    <3>1. k \in DOMAIN r /\ k \in 1 .. n
      BY <1>2, <1>6, <1>11, <2>1
    <3> QED  BY <1>10, <3>1
  <2>2. CASE ~(k <= n)
    <3>1. k + 1 \in n + 2 .. Len(q) + 1 /\ (k + 1) - 1 = k /\ k + 1 \in DOMAIN r
      BY <1>2, <1>6, <1>11, <2>2
    <3> QED  BY <1>10, <3>1
  <2> QED  BY <2>1, <2>2
<1>17. ToSet(r) = ToSet(q) \cup {t}
  <2>1. ASSUME NEW u \in ToSet(r) PROVE u \in ToSet(q) \cup {t}
    <3>1. PICK i \in DOMAIN r : r[i] = u
      BY DEF ToSet
    <3>2. CASE i = n + 1
      BY <1>10, <3>1, <3>2
    <3>3. CASE i # n + 1
      BY <1>4, <1>14, <3>1, <3>3
    <3> QED  BY <3>2, <3>3
  <2>2. ASSUME NEW u \in ToSet(q) PROVE u \in ToSet(r)
    <3>1. PICK k \in DOMAIN q : q[k] = u
      BY DEF ToSet
    <3> QED  BY <1>16, <3>1 DEF ToSet
  <2>3. t \in ToSet(r)
    BY <1>10, <1>15 DEF ToSet
  <2> QED  BY <2>1, <2>2, <2>3
<1>18. \A i \in DOMAIN r : i # n + 1 => r[i] # t /\ r[i] \in ToSet(p) /\ r[i] \in Task
  BY <1>4, <1>14
<1>19. \A i, k \in DOMAIN r : i # n + 1 /\ k # n + 1 =>
         (i < k => f(i) < f(k)) /\ (f(i) = f(k) => i = k)
  BY <1>2, <1>6, <1>11
<1>20. Distinct(r)
  <2> SUFFICES ASSUME NEW i \in DOMAIN r, NEW k \in DOMAIN r, r[i] = r[k] PROVE i = k
    BY DEF Distinct
  <2>1. CASE i # n + 1 /\ k # n + 1
    <3> HIDE DEF f
    <3>1. f(i) = f(k)
      BY <1>1, <1>14, <2>1 DEF Distinct
    <3> QED  BY <1>19, <2>1, <3>1
  <2> QED  BY <1>10, <1>18, <2>1
<1>21. Sorted(r, a)
  <2> SUFFICES ASSUME NEW i \in DOMAIN r, NEW k \in DOMAIN r, i < k
               PROVE  \/ Priority[r[i]] < Priority[r[k]]
                      \/ /\ Priority[r[i]] = Priority[r[k]]
                         /\ PlaceIn(a, r[i]) > PlaceIn(a, r[k])
    BY DEF Sorted
  <2>1. CASE k = n + 1
    <3>1. i \in 1 .. n
      BY <1>2, <1>6, <1>11, <2>1
    <3> QED  BY <1>7, <1>10, <2>1, <3>1
  <2>2. CASE i = n + 1
    <3>1. k \in n + 2 .. Len(q) + 1 /\ k - 1 \in n + 1 .. Len(q)
      BY <1>2, <1>6, <1>11, <2>2
    <3>2. r[k] = q[k - 1] /\ Priority[r[k]] >= Priority[t] /\ k - 1 \in DOMAIN q
      BY <1>8, <1>10, <3>1
    <3>3. PlaceIn(a, r[k]) \in 1 .. Len(p)
      BY <1>4, <1>12, <3>2
    <3>4. PlaceIn(a, t) > PlaceIn(a, r[k])
      BY <1>12, <1>13, <3>3
    <3>5. Priority[t] \in Nat /\ Priority[r[k]] \in Nat
      BY <1>3, <1>4, <3>2
    <3> QED  BY <1>10, <2>2, <3>2, <3>4, <3>5
  <2>3. CASE i # n + 1 /\ k # n + 1
    <3> HIDE DEF f
    <3>1. f(i) \in DOMAIN q /\ f(k) \in DOMAIN q /\ f(i) < f(k)
      BY <1>14, <1>19, <2>3
    <3>2. r[i] = q[f(i)] /\ r[k] = q[f(k)]
      BY <1>14, <2>3
    <3>3. PlaceIn(a, r[i]) = PlaceIn(p, q[f(i)]) /\ PlaceIn(a, r[k]) = PlaceIn(p, q[f(k)])
      BY <1>12, <1>18, <2>3, <3>2
    <3> QED  BY <1>1, <3>1, <3>2, <3>3 DEF Sorted
  <2> QED  BY <2>1, <2>2, <2>3
<1>22. QueueOK(r, a)
  BY <1>1, <1>10, <1>12, <1>17, <1>20, <1>21 DEF QueueOK
<1> QED  BY <1>17, <1>22 DEF r, a

-----------------------------------------------------------------------------
(* The types of what the proofs are about. *)
Types ==
  /\ worker \in {"off", "test", "lock", "asleep", "woken", "run", "emit", "mark",
                 "unlock", "ended"}
  /\ current \in Task \cup {NoTask}
  /\ current # NoTask <=> worker \in {"run", "emit", "mark", "unlock"}
  /\ object \in [Task -> {"none", "alive", "deleted"}]
  /\ marked \subseteq Task /\ deletions \subseteq Task
  /\ owner \in [Task -> {"none", "idle", "posted", "done", "gone"}]
  /\ deleter \in [Task -> [done : BOOLEAN, delete : BOOLEAN]]
  /\ events \in Seq(Event)
  /\ loops \in Seq(Task) /\ released \subseteq Task
  /\ dropped \subseteq Task /\ notified \in [Task -> Nat]

(* Tasks that were posted; nobody posts one again. *)
Fresh(t) == owner[t] \in {"none", "idle"}

PostedOnce ==
  /\ posted \in Seq(Task) /\ Distinct(posted)
  /\ \A t \in ToSet(posted) : ~Fresh(t)
  /\ dropped \subseteq ToSet(posted)
  /\ \A t \in Task : notified[t] # 0 => t \in ToSet(posted)
  /\ current # NoTask => current \in ToSet(posted)

(* A task that the handler may call before its notifyDone. *)
Waiting(t) == notified[t] = 0 /\ t \notin dropped /\ object[t] = "alive"

WaitingInv ==
  /\ QueueOK(mQueue, posted)
  /\ \A t \in ToSet(mQueue) : Waiting(t) /\ t # current
  /\ worker \in {"run", "emit"} => Waiting(current)
  /\ \A t \in Task : owner[t] = "idle" => object[t] = "alive"
  /\ \A t \in Task : notified[t] <= 1 /\ (t \in dropped => notified[t] = 0)

(* What follows the notifyDone of a task, and so ends its life. *)
NoticeInv ==
  /\ \A t \in deletions \cup marked \cup released : notified[t] = 1
  /\ \A t \in Task : deleter[t].done => notified[t] = 1
  /\ \A i \in 1 .. Len(events) : notified[events[i][2]] = 1
  /\ worker \in {"mark", "unlock"} => notified[current] = 1

IInv == Types /\ PostedOnce /\ WaitingInv /\ NoticeInv

-----------------------------------------------------------------------------
(* The invariant holds at the start.                                       *)
LEMMA InitIInv == Init => IInv
<1> SUFFICES ASSUME Init PROVE IInv
  OBVIOUS
<1>1. << >> \in Seq(Task) /\ Len(<< >>) = 0 /\ DOMAIN << >> = {} /\ ToSet(<< >>) = {}
  BY EmptySeq DEF ToSet
<1>2. Types
  BY DEF Init, Types, Event
<1>3. PostedOnce
  BY <1>1 DEF Init, PostedOnce, Distinct
<1>4. WaitingInv
  BY <1>1 DEF Init, WaitingInv, QueueOK, Distinct, Sorted
<1>5. NoticeInv
  BY <1>1 DEF Init, NoticeInv
<1> QED  BY <1>2, <1>3, <1>4, <1>5 DEF IInv

(* A task is posted while it is fresh; q is what the queue holds by then.  *)
LEMMA EnqueueKeeps ==
  ASSUME IInv, NEW t \in Task, Fresh(t), NEW q, QueueOK(q, posted), Enqueue(q, t)
  PROVE  /\ QueueOK(mQueue', posted') /\ ToSet(mQueue') = ToSet(q) \cup {t}
         /\ posted' \in Seq(Task) /\ Distinct(posted')
         /\ ToSet(posted') = ToSet(posted) \cup {t}
         /\ t # current /\ notified[t] = 0 /\ t \notin dropped
         /\ worker' \in {"test", "woken", worker}
         /\ worker' = worker \/ worker \in {"off", "asleep"}
<1>1. t \notin ToSet(posted) /\ posted \in Seq(Task) /\ Distinct(posted)
  BY DEF IInv, PostedOnce
<1>2. mQueue' = Push(q, t) /\ posted' = Append(posted, t)
  BY DEF Enqueue
<1>3. QueueOK(Push(q, t), Append(posted, t)) /\ ToSet(Push(q, t)) = ToSet(q) \cup {t}
  BY <1>1, PushOK
<1>4. /\ Append(posted, t) \in Seq(Task) /\ Distinct(Append(posted, t))
      /\ ToSet(Append(posted, t)) = ToSet(posted) \cup {t}
  BY <1>1, AppendPlaces
<1>5. t # current /\ notified[t] = 0 /\ t \notin dropped
  BY <1>1, TaskAssumption DEF IInv, PostedOnce
<1>6. /\ worker' \in {"test", "woken", worker}
      /\ worker' = worker \/ worker \in {"off", "asleep"}
  BY DEF Enqueue, WakeOne
<1> QED  BY <1>2, <1>3, <1>4, <1>5, <1>6

(* What the signal of a task is connected to. *)
LEMMA SlotsFacts ==
  ASSUME IInv, NEW t \in Task
  PROVE  Slots(t) \in Seq(Event) /\ \A i \in 1 .. Len(Slots(t)) : Slots(t)[i][2] = t
<1> DEFINE one(k) == << << k, t >> >>
           sync == IF t \in ToSet(loops) THEN one("sync") ELSE << >>
           help == IF owner[t] = "posted" THEN one("helper") ELSE << >>
           OK(s) == s \in Seq(Event) /\ \A i \in 1 .. Len(s) : s[i][2] = t
<1>1. ASSUME NEW k \in {"deleter", "helper", "model", "sync"} PROVE OK(one(k))
  <2>1. << k, t >> \in Event
    BY DEF Event
  <2> QED  BY <2>1
<1>2. OK(<< >>)
  BY EmptySeq
<1>3. ASSUME NEW a, NEW b, OK(a), OK(b) PROVE OK(a \o b)
  <2>1. /\ a \o b \in Seq(Event) /\ Len(a \o b) = Len(a) + Len(b)
        /\ \A i \in 1 .. Len(a) + Len(b) :
             (a \o b)[i] = IF i <= Len(a) THEN a[i] ELSE b[i - Len(a)]
    BY <1>3, ConcatProperties
  <2>2. Len(a) \in Nat /\ Len(b) \in Nat
    BY <1>3, LenProperties
  <2>3. ASSUME NEW i \in 1 .. Len(a) + Len(b) PROVE (a \o b)[i][2] = t
    <3>1. CASE i <= Len(a)
      BY <1>3, <2>1, <2>2, <3>1
    <3>2. CASE ~(i <= Len(a))
      <4>1. i - Len(a) \in 1 .. Len(b) /\ (a \o b)[i] = b[i - Len(a)]
        BY <2>1, <2>2, <3>2
      <4> QED  BY <1>3, <4>1
    <3> QED  BY <3>1, <3>2
  <2> QED  BY <2>1, <2>3
<1> HIDE DEF OK
<1>4. OK(one("deleter")) /\ OK(one("model")) /\ OK(one("sync")) /\ OK(help) /\ OK(sync)
  BY <1>1, <1>2
<1>5. CASE t \in Helped
  <2>1. Slots(t) = one("deleter") \o help \o sync
    BY <1>5, TaskAssumption DEF Slots
  <2>2. OK(one("deleter") \o help)
    BY <1>3, <1>4
  <2>3. OK(Slots(t))
    BY <1>3, <1>4, <2>1, <2>2
  <2> QED  BY <2>3 DEF OK
<1>6. CASE t \in Own
  <2>1. Slots(t) \in {one("model"), << >>}
    BY <1>6, TaskAssumption DEF Slots
  <2>2. OK(Slots(t))
    BY <1>2, <1>4, <2>1
  <2> QED  BY <2>2 DEF OK
<1>7. CASE t \in Stacked
  <2>1. Slots(t) = one("sync")
    BY <1>7, TaskAssumption DEF Slots
  <2>2. OK(Slots(t))
    BY <1>4, <2>1
  <2> QED  BY <2>2 DEF OK
<1> QED  BY <1>5, <1>6, <1>7, TaskAssumption

(* The first event is about a task that was notified; the rest stay.       *)
LEMMA EventTaken ==
  ASSUME IInv, events # << >>, events' = Tail(events)
  PROVE  /\ events' \in Seq(Event)
         /\ \A i \in 1 .. Len(events') : notified[events'[i][2]] = 1
         /\ \A k : \A t : Head(events) = << k, t >> => notified[t] = 1
<1>1. events \in Seq(Event) /\ \A i \in 1 .. Len(events) : notified[events[i][2]] = 1
  BY DEF IInv, Types, NoticeInv
<1>2. /\ Tail(events) \in Seq(Event) /\ Len(Tail(events)) = Len(events) - 1
      /\ \A i \in 1 .. Len(Tail(events)) : Tail(events)[i] = events[i + 1]
  BY <1>1, HeadTailProperties
<1>3. Len(events) \in Nat /\ Len(events) # 0
  BY <1>1, LenProperties, EmptySeq
<1>4. ASSUME NEW i \in 1 .. Len(events) - 1 PROVE notified[events[i + 1][2]] = 1
  <2>1. i + 1 \in 1 .. Len(events)
    BY <1>3
  <2> QED  BY <1>1, <2>1
<1>5. Head(events) = events[1] /\ 1 \in 1 .. Len(events)
  BY <1>1, <1>3
<1>6. ASSUME NEW k, NEW t, Head(events) = << k, t >> PROVE notified[t] = 1
  <2>1. events[1][2] = t
    BY <1>5, <1>6
  <2> QED  BY <1>1, <1>5, <2>1
<1> QED  BY <1>2, <1>4, <1>6

-----------------------------------------------------------------------------
(* Every step keeps IInv.  First the owners. *)
LEMMA CreateHelperKeeps ==
  ASSUME IInv, NEW t \in Task, CreateHelper(t)
  PROVE  IInv'
<1>1. Types'
  BY DEF IInv, Types, CreateHelper, guiVars, history, workerVars
<1>2. PostedOnce'
  BY DEF IInv, Types, PostedOnce, Fresh, CreateHelper, history, workerVars
<1>3. WaitingInv'
  BY DEF IInv, Types, WaitingInv, Waiting, CreateHelper, history, workerVars
<1>4. NoticeInv'
  BY DEF IInv, NoticeInv, CreateHelper, guiVars, history, workerVars
<1> QED  BY <1>1, <1>2, <1>3, <1>4 DEF IInv

(* QueryTaskHelper::post keeps the invariant.                              *)
LEMMA PostHelperKeeps ==
  ASSUME IInv, NEW t \in Task, NEW synchronized \in BOOLEAN, PostHelper(t, synchronized)
  PROVE  IInv'
<1>1. Fresh(t) /\ QueueOK(mQueue, posted) /\ object[t] = "alive"
  BY DEF IInv, WaitingInv, Fresh, PostHelper
<1>2. /\ QueueOK(mQueue', posted') /\ ToSet(mQueue') = ToSet(mQueue) \cup {t}
      /\ posted' \in Seq(Task) /\ Distinct(posted')
      /\ ToSet(posted') = ToSet(posted) \cup {t}
      /\ t # current /\ notified[t] = 0 /\ t \notin dropped
      /\ worker' \in {"test", "woken", worker}
      /\ worker' = worker \/ worker \in {"off", "asleep"}
  BY <1>1, EnqueueKeeps DEF PostHelper
<1>3. Types'
  <2>1. loops' \in Seq(Task)
    BY AppendProperties DEF IInv, Types, PostHelper
  <2> QED  BY <1>2, <2>1 DEF IInv, Types, PostHelper, objectVars
<1>4. PostedOnce'
  BY <1>2 DEF IInv, Types, PostedOnce, Fresh, PostHelper
<1>5. WaitingInv'
  BY <1>1, <1>2 DEF IInv, Types, WaitingInv, Waiting, PostHelper, objectVars
<1>6. NoticeInv'
  BY <1>2 DEF IInv, Types, NoticeInv, PostHelper, objectVars
<1> QED  BY <1>3, <1>4, <1>5, <1>6 DEF IInv

(* So does posting a task that is waited for in a nested event loop.       *)
LEMMA PostStackedKeeps ==
  ASSUME IInv, NEW t \in Task, PostStacked(t)
  PROVE  IInv'
<1>1. Fresh(t) /\ QueueOK(mQueue, posted)
  BY DEF IInv, WaitingInv, Fresh, PostStacked
<1>2. /\ QueueOK(mQueue', posted') /\ ToSet(mQueue') = ToSet(mQueue) \cup {t}
      /\ posted' \in Seq(Task) /\ Distinct(posted')
      /\ ToSet(posted') = ToSet(posted) \cup {t}
      /\ t # current /\ notified[t] = 0 /\ t \notin dropped
      /\ worker' \in {"test", "woken", worker}
      /\ worker' = worker \/ worker \in {"off", "asleep"}
  BY <1>1, EnqueueKeeps DEF PostStacked
<1>3. Types'
  <2>1. loops' \in Seq(Task)
    BY AppendProperties DEF IInv, Types, PostStacked
  <2> QED  BY <1>2, <2>1 DEF IInv, Types, PostStacked
<1>4. PostedOnce'
  BY <1>2 DEF IInv, Types, PostedOnce, Fresh, PostStacked
<1>5. WaitingInv'
  BY <1>1, <1>2 DEF IInv, Types, WaitingInv, Waiting, PostStacked
<1>6. NoticeInv'
  BY <1>2 DEF IInv, Types, NoticeInv, PostStacked
<1> QED  BY <1>3, <1>4, <1>5, <1>6 DEF IInv

(* What the release of mTask does to the queue and to the task. *)
LEMMA ReleaseFacts ==
  ASSUME IInv, NEW u \in Held, ReleaseOwn(u)
  PROVE  /\ u \in Task /\ owner[u] = "posted"
         /\ QueueOK(Without(mQueue, u), posted)
         /\ ToSet(Without(mQueue, u)) = ToSet(mQueue) \ {u}
         /\ dropped' \subseteq Task /\ dropped' \subseteq ToSet(posted)
         /\ \A t \in Task : t \in dropped' /\ t \notin dropped => t \in ToSet(mQueue) /\ t = u
         /\ deletions' \subseteq Task
         /\ \A t \in deletions' : t \in deletions \/ notified[t] = 1
<1>1. u \in Task /\ owner[u] = "posted"
  BY TaskAssumption DEF Held
<1>2. QueueOK(mQueue, posted) /\ ToSet(mQueue) \subseteq ToSet(posted)
  BY DEF IInv, WaitingInv, QueueOK
<1>3. /\ QueueOK(Without(mQueue, u), posted)
      /\ ToSet(Without(mQueue, u)) = ToSet(mQueue) \ {u}
  BY <1>2, WithoutOK
<1>4. /\ dropped' \subseteq Task /\ dropped' \subseteq ToSet(posted)
      /\ \A t \in Task : t \in dropped' /\ t \notin dropped => t \in ToSet(mQueue) /\ t = u
  BY <1>1, <1>2 DEF IInv, Types, PostedOnce, ReleaseOwn, Dropped
<1>5. /\ deletions' \subseteq Task
      /\ \A t \in deletions' : t \in deletions \/ notified[t] = 1
  BY <1>1 DEF IInv, Types, NoticeInv, ReleaseOwn
<1> QED  BY <1>1, <1>3, <1>4, <1>5

(* So does asking for the history of an observation, with what becomes of  *)
(* the task before.                                                        *)
LEMMA ShowHistoryKeeps ==
  ASSUME IInv, NEW t \in Task, ShowHistory(t)
  PROVE  IInv'
<1>1. /\ Fresh(t)
      /\ object' = [object EXCEPT ![t] = "alive"]
      /\ UNCHANGED << mDone, current, marked, deleter, guiVars, notified >>
  BY DEF Fresh, ShowHistory
<1>2. \E z : /\ QueueOK(z, posted) /\ Enqueue(z, t)
             /\ ToSet(z) \subseteq ToSet(mQueue)
             /\ \A v \in dropped' : v \in dropped \/ v \in ToSet(mQueue) \ ToSet(z)
             /\ dropped' \subseteq Task /\ dropped' \subseteq ToSet(posted)
             /\ owner' \in [Task -> {"none", "idle", "posted", "done", "gone"}]
             /\ owner'[t] = "posted"
             /\ \A v \in Task : v = t \/ owner'[v] = owner[v] \/ owner'[v] = "gone"
             /\ deletions' \subseteq Task
             /\ \A v \in deletions' : v \in deletions \/ notified[v] = 1
  <2>1. CASE Held = {}
    <3>1. /\ QueueOK(mQueue, posted) /\ Enqueue(mQueue, t)
          /\ owner' = [owner EXCEPT ![t] = "posted"]
          /\ dropped' = dropped /\ deletions' = deletions
      BY <2>1 DEF IInv, WaitingInv, ShowHistory
    <3>2. /\ owner' \in [Task -> {"none", "idle", "posted", "done", "gone"}]
          /\ owner'[t] = "posted"
          /\ \A v \in Task : v = t \/ owner'[v] = owner[v]
      BY <3>1 DEF IInv, Types
    <3>3. dropped \subseteq Task /\ dropped \subseteq ToSet(posted) /\ deletions \subseteq Task
      BY DEF IInv, Types, PostedOnce
    <3> QED  BY <3>1, <3>2, <3>3
  <2>2. CASE Held # {}
    <3>1. PICK u \in Held : /\ ReleaseOwn(u)
                            /\ Enqueue(Without(mQueue, u), t)
                            /\ owner' = [owner EXCEPT ![u] = "gone", ![t] = "posted"]
      BY <2>2 DEF ShowHistory
    <3>2. /\ QueueOK(Without(mQueue, u), posted)
          /\ ToSet(Without(mQueue, u)) = ToSet(mQueue) \ {u}
          /\ dropped' \subseteq Task /\ dropped' \subseteq ToSet(posted)
          /\ \A v \in Task : v \in dropped' /\ v \notin dropped => v \in ToSet(mQueue) /\ v = u
          /\ deletions' \subseteq Task
          /\ \A v \in deletions' : v \in deletions \/ notified[v] = 1
          /\ u \in Task
      BY <3>1, ReleaseFacts
    <3>3. /\ owner' \in [Task -> {"none", "idle", "posted", "done", "gone"}]
          /\ owner'[t] = "posted"
          /\ \A v \in Task : v = t \/ owner'[v] = owner[v] \/ owner'[v] = "gone"
      BY <3>1, <3>2 DEF IInv, Types
    <3> QED  BY <3>1, <3>2, <3>3
  <2> QED  BY <2>1, <2>2
<1>3. PICK z : /\ QueueOK(z, posted) /\ Enqueue(z, t)
               /\ ToSet(z) \subseteq ToSet(mQueue)
               /\ \A v \in dropped' : v \in dropped \/ v \in ToSet(mQueue) \ ToSet(z)
               /\ dropped' \subseteq Task /\ dropped' \subseteq ToSet(posted)
               /\ owner' \in [Task -> {"none", "idle", "posted", "done", "gone"}]
               /\ owner'[t] = "posted"
               /\ \A v \in Task : v = t \/ owner'[v] = owner[v] \/ owner'[v] = "gone"
               /\ deletions' \subseteq Task
               /\ \A v \in deletions' : v \in deletions \/ notified[v] = 1
  BY <1>2
<1>4. /\ QueueOK(mQueue', posted') /\ ToSet(mQueue') = ToSet(z) \cup {t}
      /\ posted' \in Seq(Task) /\ Distinct(posted')
      /\ ToSet(posted') = ToSet(posted) \cup {t}
      /\ t # current /\ notified[t] = 0 /\ t \notin dropped
      /\ worker' \in {"test", "woken", worker}
      /\ worker' = worker \/ worker \in {"off", "asleep"}
  BY <1>1, <1>3, EnqueueKeeps
<1>5. t \notin ToSet(mQueue) /\ ToSet(mQueue) \subseteq ToSet(posted) /\ ToSet(mQueue) \subseteq Task
  <2>1. ToSet(mQueue) \subseteq ToSet(posted) /\ mQueue \in Seq(Task)
    BY DEF IInv, WaitingInv, QueueOK
  <2> QED  BY <1>1, <2>1, ToSetFacts DEF IInv, PostedOnce
<1>6. ToSet(posted) \subseteq Task /\ t \notin ToSet(posted)
  BY <1>1, ToSetFacts DEF IInv, PostedOnce
<1>7. Types'
  BY <1>1, <1>3, <1>4 DEF IInv, Types, guiVars
<1>8. PostedOnce'
  BY <1>1, <1>3, <1>4, <1>6 DEF IInv, Types, PostedOnce, Fresh
<1>9. WaitingInv'
  <2>1. ASSUME NEW v \in ToSet(mQueue') PROVE Waiting(v)' /\ v # current'
    <3>1. CASE v = t
      BY <1>1, <1>3, <1>4, <1>5, <3>1 DEF IInv, Types, Waiting
    <3>2. CASE v # t
      BY <1>1, <1>3, <1>4, <3>2 DEF IInv, Types, WaitingInv, Waiting
    <3> QED  BY <3>1, <3>2
  <2>2. worker' \in {"run", "emit"} => Waiting(current)'
    BY <1>1, <1>3, <1>4 DEF IInv, Types, WaitingInv, Waiting
  <2>3. \A v \in Task : owner'[v] = "idle" => object'[v] = "alive"
    BY <1>1, <1>3 DEF IInv, Types, WaitingInv
  <2>4. \A v \in Task : notified'[v] <= 1 /\ (v \in dropped' => notified'[v] = 0)
    BY <1>1, <1>3 DEF IInv, WaitingInv, Waiting
  <2> QED  BY <1>4, <2>1, <2>2, <2>3, <2>4 DEF WaitingInv
<1>10. NoticeInv'
  BY <1>1, <1>3, <1>4 DEF IInv, Types, NoticeInv, guiVars
<1> QED  BY <1>7, <1>8, <1>9, <1>10 DEF IInv

(* So does the destructor of a QueryTaskHelper.                            *)
LEMMA DropHelperKeeps ==
  ASSUME IInv, NEW t \in Task, DropHelper(t)
  PROVE  IInv'
<1>1. QueueOK(mQueue, posted) /\ ToSet(mQueue) \subseteq ToSet(posted)
  BY DEF IInv, WaitingInv, QueueOK
<1>2. /\ QueueOK(mQueue', posted) /\ ToSet(mQueue') \subseteq ToSet(mQueue)
      /\ dropped' \subseteq Task /\ dropped' \subseteq ToSet(posted)
      /\ \A v \in dropped' : v \in dropped \/ v \in ToSet(mQueue) \ ToSet(mQueue')
  <2>1. CASE owner[t] = "posted"
    <3>1. /\ QueueOK(Without(mQueue, t), posted)
          /\ ToSet(Without(mQueue, t)) = ToSet(mQueue) \ {t}
      BY <1>1, WithoutOK
    <3>2. mQueue' = Without(mQueue, t) /\ dropped' = Dropped(t)
      BY <2>1 DEF DropHelper
    <3> QED  BY <1>1, <3>1, <3>2 DEF IInv, Types, PostedOnce, Dropped
  <2>2. CASE owner[t] # "posted"
    <3>1. mQueue' = mQueue /\ dropped' = dropped
      BY <2>2 DEF DropHelper
    <3> QED  BY <1>1, <3>1 DEF IInv, Types, PostedOnce
  <2> QED  BY <2>1, <2>2
<1>3. Types'
  BY <1>2 DEF IInv, Types, DropHelper, EnableDelete, workerVars, guiVars
<1>4. PostedOnce'
  BY <1>2 DEF IInv, Types, PostedOnce, Fresh, DropHelper, workerVars
<1>5. WaitingInv'
  BY <1>2 DEF IInv, Types, WaitingInv, Waiting, DropHelper, workerVars
<1>6. NoticeInv'
  BY DEF IInv, Types, NoticeInv, DropHelper, EnableDelete, workerVars, guiVars
<1> QED  BY <1>3, <1>4, <1>5, <1>6 DEF IInv

(* Both ways to drop mTask without a new task: what they have in common.   *)
LEMMA ReleaseKeeps ==
  ASSUME IInv, NEW u \in Held, ReleaseOwn(u), mQueue' = Without(mQueue, u),
         owner' = [owner EXCEPT ![u] = "gone"],
         UNCHANGED << mDone, workerVars, object, marked, deleter, loops, released,
                      posted, notified >>,
         events' \in Seq(Event),
         \A i \in 1 .. Len(events') : notified[events'[i][2]] = 1
  PROVE  IInv'
<1>1. /\ u \in Task /\ owner[u] = "posted"
      /\ QueueOK(mQueue', posted)
      /\ ToSet(mQueue') = ToSet(mQueue) \ {u}
      /\ dropped' \subseteq Task /\ dropped' \subseteq ToSet(posted)
      /\ \A t \in Task : t \in dropped' /\ t \notin dropped => t \in ToSet(mQueue) /\ t = u
      /\ deletions' \subseteq Task
      /\ \A t \in deletions' : t \in deletions \/ notified[t] = 1
  BY ReleaseFacts
<1>2. ToSet(mQueue) \subseteq Task
  BY ToSetFacts DEF IInv, WaitingInv, QueueOK
<1>3. Types'
  BY <1>1 DEF IInv, Types, workerVars
<1>4. PostedOnce'
  BY <1>1 DEF IInv, Types, PostedOnce, Fresh, workerVars
<1>5. WaitingInv'
  <2>1. \A t \in ToSet(mQueue') : Waiting(t)' /\ t # current'
    BY <1>1, <1>2 DEF IInv, WaitingInv, Waiting, workerVars
  <2>2. worker' \in {"run", "emit"} => Waiting(current)'
    BY <1>1 DEF IInv, Types, WaitingInv, Waiting, workerVars
  <2>3. /\ \A t \in Task : owner'[t] = "idle" => object'[t] = "alive"
        /\ \A t \in Task : notified'[t] <= 1 /\ (t \in dropped' => notified'[t] = 0)
    BY <1>1 DEF IInv, Types, WaitingInv, Waiting
  <2> QED  BY <1>1, <2>1, <2>2, <2>3 DEF WaitingInv
<1>6. NoticeInv'
  BY <1>1 DEF IInv, NoticeInv, workerVars
<1> QED  BY <1>3, <1>4, <1>5, <1>6 DEF IInv

(* So does leaving the observation.                                        *)
LEMMA ClearHistoryKeeps ==
  ASSUME IInv, ClearHistory
  PROVE  IInv'
<1>1. PICK u \in Held : /\ ReleaseOwn(u)
                        /\ mQueue' = Without(mQueue, u)
                        /\ owner' = [owner EXCEPT ![u] = "gone"]
  BY DEF ClearHistory
<1>2. UNCHANGED << mDone, workerVars, object, marked, deleter, events, loops, released,
                   posted, notified >>
  BY DEF ClearHistory
<1>3. events' \in Seq(Event) /\ \A i \in 1 .. Len(events') : notified[events'[i][2]] = 1
  BY <1>2 DEF IInv, Types, NoticeInv
<1> QED  BY <1>1, <1>2, <1>3, ReleaseKeeps

(* The table of histories is told of the end of a task ...                 *)
LEMMA ModelEventKeeps ==
  ASSUME IInv, ModelEvent
  PROVE  IInv'
<1>1. events # << >> /\ events' = Tail(events)
  BY DEF ModelEvent
<1>2. events' \in Seq(Event) /\ \A i \in 1 .. Len(events') : notified[events'[i][2]] = 1
  BY <1>1, EventTaken
<1>3. UNCHANGED << mDone, workerVars, object, marked, deleter, loops, released,
                   posted, notified >>
  BY DEF ModelEvent
<1>4. CASE Held = {}
  <2>1. UNCHANGED << mQueue, dropped, owner, deletions >>
    BY <1>4 DEF ModelEvent
  <2>2. Types'
    BY <1>2, <1>3, <2>1 DEF IInv, Types, workerVars
  <2>3. PostedOnce'
    BY <1>3, <2>1 DEF IInv, PostedOnce, Fresh, workerVars
  <2>4. WaitingInv'
    BY <1>3, <2>1 DEF IInv, WaitingInv, Waiting, workerVars
  <2>5. NoticeInv'
    BY <1>2, <1>3, <2>1 DEF IInv, NoticeInv, workerVars
  <2> QED  BY <2>2, <2>3, <2>4, <2>5 DEF IInv
<1>5. CASE Held # {}
  <2>1. PICK u \in Held : /\ ReleaseOwn(u)
                          /\ mQueue' = Without(mQueue, u)
                          /\ owner' = [owner EXCEPT ![u] = "gone"]
    BY <1>5 DEF ModelEvent
  <2> QED  BY <1>2, <1>3, <2>1, ReleaseKeeps
<1> QED  BY <1>4, <1>5

-----------------------------------------------------------------------------
(* The event loop of the GUI thread. *)
LEMMA DeleterEventKeeps ==
  ASSUME IInv, DeleterEvent
  PROVE  IInv'
<1>1. events # << >> /\ events' = Tail(events)
  BY DEF DeleterEvent
<1>2. events' \in Seq(Event) /\ \A i \in 1 .. Len(events') : notified[events'[i][2]] = 1
  BY <1>1, EventTaken
<1>3. PICK t \in Task : Head(events) = << "deleter", t >> /\ OnTaskDone(t)
  BY DEF DeleterEvent
<1>4. notified[t] = 1
  BY <1>1, <1>3, EventTaken
<1>5. Types'
  <2>1. deleter' \in [Task -> [done : BOOLEAN, delete : BOOLEAN]] /\ deletions' \subseteq Task
    BY <1>3 DEF IInv, Types, OnTaskDone
  <2>2. UNCHANGED << worker, current, object, marked, owner, loops, released, dropped, notified >>
    BY DEF DeleterEvent, workerVars, history
  <2> QED  BY <1>2, <2>1, <2>2 DEF IInv, Types
<1>6. PostedOnce'
  BY DEF IInv, PostedOnce, Fresh, DeleterEvent, workerVars, history
<1>7. WaitingInv'
  BY DEF IInv, WaitingInv, Waiting, DeleterEvent, workerVars, history
<1>8. NoticeInv'
  BY <1>2, <1>3, <1>4 DEF IInv, Types, NoticeInv, DeleterEvent, OnTaskDone,
                          workerVars, history
<1> QED  BY <1>5, <1>6, <1>7, <1>8 DEF IInv

(* ... or a helper ...                                                     *)
LEMMA HelperEventKeeps ==
  ASSUME IInv, HelperEvent
  PROVE  IInv'
<1>1. events # << >> /\ events' = Tail(events)
  BY DEF HelperEvent
<1>2. events' \in Seq(Event) /\ \A i \in 1 .. Len(events') : notified[events'[i][2]] = 1
  BY <1>1, EventTaken
<1>3. PICK t \in Task :
        /\ Head(events) = << "helper", t >>
        /\ \/ /\ owner' = [owner EXCEPT ![t] = "gone"]
              /\ EnableDelete(t)
           \/ /\ owner' = IF owner[t] = "gone" THEN owner ELSE [owner EXCEPT ![t] = "done"]
              /\ UNCHANGED << deleter, deletions >>
  BY DEF HelperEvent
<1>4. notified[t] = 1
  BY <1>1, <1>3, EventTaken
<1>5. /\ owner' \in [Task -> {"none", "idle", "posted", "done", "gone"}]
      /\ \A v \in Task : owner'[v] = owner[v] \/ owner'[v] \in {"done", "gone"}
  BY <1>3 DEF IInv, Types
<1>6. Types'
  <2>1. \/ /\ deleter' = [deleter EXCEPT ![t].delete = TRUE]
           /\ deletions' \in {deletions, deletions \cup {t}}
        \/ deleter' = deleter /\ deletions' = deletions
    BY <1>3 DEF EnableDelete
  <2>3. deleter' \in [Task -> [done : BOOLEAN, delete : BOOLEAN]]
    <3>1. CASE deleter' = [deleter EXCEPT ![t].delete = TRUE]
      BY <3>1 DEF IInv, Types
    <3>2. CASE deleter' = deleter
      BY <3>2 DEF IInv, Types
    <3> QED  BY <2>1, <3>1, <3>2
  <2>4. deletions' \subseteq Task
    BY <2>1 DEF IInv, Types
  <2>2. UNCHANGED << worker, current, object, marked, loops, released, dropped, notified >>
    BY DEF HelperEvent, workerVars, history
  <2> QED  BY <1>2, <1>5, <2>2, <2>3, <2>4 DEF IInv, Types
<1>7. PostedOnce'
  <2>1. \A v \in ToSet(posted) : v \in Task
    BY ToSetFacts DEF IInv, PostedOnce
  <2> QED  BY <1>5, <2>1 DEF IInv, PostedOnce, Fresh, HelperEvent, workerVars, history
<1>8. WaitingInv'
  BY <1>5 DEF IInv, WaitingInv, Waiting, HelperEvent, workerVars, history
<1>9. NoticeInv'
  BY <1>2, <1>3, <1>4 DEF IInv, Types, NoticeInv, HelperEvent, EnableDelete,
                          workerVars, history
<1> QED  BY <1>6, <1>7, <1>8, <1>9 DEF IInv

(* ... or a nested event loop ...                                          *)
LEMMA SyncEventKeeps ==
  ASSUME IInv, SyncEvent
  PROVE  IInv'
<1>1. events # << >> /\ events' = Tail(events)
  BY DEF SyncEvent
<1>2. events' \in Seq(Event) /\ \A i \in 1 .. Len(events') : notified[events'[i][2]] = 1
  BY <1>1, EventTaken
<1>3. PICK t \in Task : Head(events) = << "sync", t >> /\ released' = released \cup {t}
  BY DEF SyncEvent
<1>4. notified[t] = 1
  BY <1>1, <1>3, EventTaken
<1>5. Types'
  BY <1>2, <1>3 DEF IInv, Types, SyncEvent, workerVars, objectVars, ownerVars, history
<1>6. PostedOnce'
  BY DEF IInv, PostedOnce, Fresh, SyncEvent, workerVars, ownerVars, history
<1>7. WaitingInv'
  BY DEF IInv, WaitingInv, Waiting, SyncEvent, workerVars, objectVars, ownerVars, history
<1>8. NoticeInv'
  BY <1>2, <1>3, <1>4 DEF IInv, NoticeInv, SyncEvent, workerVars, objectVars,
                          ownerVars, history
<1> QED  BY <1>5, <1>6, <1>7, <1>8 DEF IInv

(* ... which then returns.                                                 *)
LEMMA SyncReturnKeeps ==
  ASSUME IInv, SyncReturn
  PROVE  IInv'
<1> DEFINE t == Last(loops)
<1>1. t \in Task /\ notified[t] = 1
  BY DEF IInv, Types, NoticeInv, SyncReturn
<1>2. loops' \in Seq(Task)
  <2>1. loops \in Seq(Task) /\ loops # << >>
    BY DEF IInv, Types, SyncReturn
  <2>2. Len(loops) \in Nat /\ \A i \in 1 .. Len(loops) : loops[i] \in Task
    BY <2>1, ToSetFacts
  <2>3. \A i \in 1 .. Len(loops) - 1 : loops[i] \in Task
    BY <2>2
  <2>4. SubSeq(loops, 1, Len(loops) - 1) \in Seq(Task)
    BY <2>2, <2>3, SubSeqProperties
  <2> QED  BY <2>4 DEF SyncReturn, Front
<1>3. /\ released' = released \ {t}
      /\ \/ /\ object' = [object EXCEPT ![t] = "deleted"]
            /\ owner' = [owner EXCEPT ![t] = "gone"]
         \/ UNCHANGED << object, owner >>
  BY DEF SyncReturn
<1> HIDE DEF t
<1>4. /\ owner' \in [Task -> {"none", "idle", "posted", "done", "gone"}]
      /\ object' \in [Task -> {"none", "alive", "deleted"}]
      /\ \A v \in Task : owner'[v] = owner[v] \/ owner'[v] = "gone"
      /\ \A v \in Task : object'[v] = object[v] \/ v = t
  BY <1>1, <1>3 DEF IInv, Types
<1>5. owner'[t] # "idle" /\ ToSet(posted) \subseteq Task /\ ToSet(mQueue) \subseteq Task
  <2>1. owner[t] # "idle"
    BY <1>1 DEF IInv, PostedOnce, Fresh
  <2>2. ToSet(posted) \subseteq Task /\ ToSet(mQueue) \subseteq Task
    BY ToSetFacts DEF IInv, PostedOnce, WaitingInv, QueueOK
  <2> QED  BY <1>1, <1>4, <2>1, <2>2
<1>6. Types'
  BY <1>2, <1>3, <1>4 DEF IInv, Types, SyncReturn, workerVars, history
<1>7. PostedOnce'
  BY <1>4, <1>5 DEF IInv, Types, PostedOnce, Fresh, SyncReturn, workerVars, history
<1>8. WaitingInv'
  BY <1>1, <1>4, <1>5 DEF IInv, Types, WaitingInv, Waiting, SyncReturn, workerVars, history
<1>9. NoticeInv'
  BY <1>3 DEF IInv, NoticeInv, SyncReturn, workerVars, history
<1> QED  BY <1>6, <1>7, <1>8, <1>9 DEF IInv

(* So does a deferred delete.                                              *)
LEMMA DoDeleteKeeps ==
  ASSUME IInv, NEW t \in Task, DoDelete(t)
  PROVE  IInv'
<1>1. notified[t] = 1 /\ ~Fresh(t)
  BY DEF IInv, PostedOnce, NoticeInv, DoDelete
<1>2. ToSet(mQueue) \subseteq Task
  BY ToSetFacts DEF IInv, WaitingInv, QueueOK
<1>3. Types'
  BY DEF IInv, Types, DoDelete, workerVars, ownerVars, guiVars, history
<1>4. PostedOnce'
  BY DEF IInv, PostedOnce, Fresh, DoDelete, workerVars, ownerVars, history
<1>5. WaitingInv'
  BY <1>1, <1>2 DEF IInv, Types, WaitingInv, Waiting, Fresh, DoDelete, workerVars,
                    ownerVars, history
<1>6. NoticeInv'
  BY DEF IInv, NoticeInv, DoDelete, workerVars, ownerVars, guiVars, history
<1> QED  BY <1>3, <1>4, <1>5, <1>6 DEF IInv

-----------------------------------------------------------------------------
(* The worker. *)
LEMMA TakeTopKeeps ==
  ASSUME IInv, worker \in {"lock", "woken"}, mQueue # << >>, TakeTop,
         UNCHANGED << mDone, objectVars, ownerVars, guiVars, history >>
  PROVE  IInv'
<1> DEFINE t == Last(mQueue)
<1>1. /\ t \in ToSet(mQueue) /\ t \in Task
      /\ QueueOK(Popped(mQueue), posted)
      /\ ToSet(Popped(mQueue)) = ToSet(mQueue) \ {t}
  BY PoppedOK DEF IInv, WaitingInv
<1>2. worker' = "run" /\ current' = t /\ mQueue' = Popped(mQueue)
  BY DEF TakeTop
<1>3. t # NoTask /\ t \in ToSet(posted) /\ Waiting(t)
  BY <1>1, TaskAssumption DEF IInv, WaitingInv, QueueOK
<1> HIDE DEF t
<1>4. Types'
  BY <1>1, <1>2, <1>3 DEF IInv, Types, objectVars, ownerVars, guiVars, history
<1>5. PostedOnce'
  BY <1>2, <1>3 DEF IInv, PostedOnce, Fresh, ownerVars, history
<1>6. WaitingInv'
  BY <1>1, <1>2, <1>3 DEF IInv, WaitingInv, Waiting, objectVars, ownerVars, history
<1>7. NoticeInv'
  BY <1>2 DEF IInv, NoticeInv, objectVars, ownerVars, guiVars, history
<1> QED  BY <1>4, <1>5, <1>6, <1>7 DEF IInv

(* A step of the worker outside a task that only moves its program counter. *)
LEMMA WorkerMoves ==
  ASSUME IInv, worker \notin {"run", "emit", "mark"},
         worker' \in {"test", "lock", "asleep", "woken", "ended"}, current' = NoTask,
         UNCHANGED << mQueue, objectVars, ownerVars, guiVars, history >>
  PROVE  IInv'
<1>1. Types'
  BY DEF IInv, Types, objectVars, ownerVars, guiVars, history
<1>2. PostedOnce'
  BY DEF IInv, PostedOnce, Fresh, ownerVars, history
<1>3. WaitingInv'
  <2>1. ToSet(mQueue) \subseteq Task
    BY ToSetFacts DEF IInv, WaitingInv, QueueOK
  <2> QED  BY <2>1, TaskAssumption DEF IInv, WaitingInv, Waiting, objectVars, ownerVars, history
<1>4. NoticeInv'
  BY DEF IInv, NoticeInv, objectVars, ownerVars, guiVars, history
<1> QED  BY <1>1, <1>2, <1>3, <1>4 DEF IInv

(* So does the worker when it notifies a task ...                          *)
LEMMA WorkerEmitKeeps ==
  ASSUME IInv, WorkerEmit
  PROVE  IInv'
<1> DEFINE s == Slots(current)
<1>1. /\ current \in Task /\ current \in ToSet(posted) /\ Waiting(current)
      /\ worker = "emit" /\ current # NoTask
  BY DEF IInv, Types, PostedOnce, WaitingInv, WorkerEmit
<1>2. s \in Seq(Event) /\ \A i \in 1 .. Len(s) : s[i][2] = current
  BY <1>1, SlotsFacts
<1>3. /\ events' = events \o s
      /\ worker' = "mark" /\ current' = current
      /\ notified' = [notified EXCEPT ![current] = @ + 1]
      /\ UNCHANGED << mQueue, mDone, objectVars, ownerVars, loops, released, posted, dropped >>
  BY DEF WorkerEmit
<1> HIDE DEF s
<1>4. /\ notified' \in [Task -> Nat] /\ notified'[current] = 1
      /\ \A t \in Task : t # current => notified'[t] = notified[t]
  BY <1>1, <1>3 DEF IInv, Types, Waiting
<1>5. events' \in Seq(Event) /\ \A i \in 1 .. Len(events') : notified'[events'[i][2]] = 1
  <2>1. events \in Seq(Event) /\ \A i \in 1 .. Len(events) : notified[events[i][2]] = 1
    BY DEF IInv, Types, NoticeInv
  <2>2. /\ events \o s \in Seq(Event) /\ Len(events \o s) = Len(events) + Len(s)
        /\ \A i \in 1 .. Len(events) + Len(s) : (events \o s)[i] =
             IF i <= Len(events) THEN events[i] ELSE s[i - Len(events)]
    BY <1>2, <2>1, ConcatProperties
  <2>3. Len(events) \in Nat /\ Len(s) \in Nat
    BY <1>2, <2>1, LenProperties
  <2>4. ASSUME NEW i \in 1 .. Len(events) + Len(s)
        PROVE  notified'[(events \o s)[i][2]] = 1
    <3>1. CASE i <= Len(events)
      <4>1. i \in 1 .. Len(events) /\ (events \o s)[i] = events[i]
        BY <2>2, <2>3, <3>1
      <4>2. events[i][2] \in Task
        <5>1. events[i] \in Event
          BY <2>1, <4>1, ElementOfSeq
        <5> QED  BY <5>1 DEF Event
      <4> QED  BY <1>4, <2>1, <4>1, <4>2
    <3>2. CASE ~(i <= Len(events))
      <4>1. i - Len(events) \in 1 .. Len(s) /\ (events \o s)[i] = s[i - Len(events)]
        BY <2>2, <2>3, <3>2
      <4> QED  BY <1>2, <1>4, <4>1
    <3> QED  BY <3>1, <3>2
  <2> QED  BY <1>3, <2>2, <2>4
<1>6. ToSet(mQueue) \subseteq Task /\ current \notin ToSet(mQueue)
  BY ToSetFacts DEF IInv, WaitingInv, QueueOK
<1>7. Types'
  BY <1>3, <1>4, <1>5, <1>1 DEF IInv, Types, objectVars, ownerVars
<1>8. PostedOnce'
  BY <1>1, <1>3, <1>4 DEF IInv, PostedOnce, Fresh, ownerVars
<1>9. WaitingInv'
  <2>1. \A t \in Task : notified'[t] <= 1 /\ (t \in dropped' => notified'[t] = 0)
    BY <1>1, <1>3, <1>4 DEF IInv, WaitingInv, Waiting
  <2> QED  BY <1>3, <1>4, <1>6, <2>1 DEF IInv, WaitingInv, Waiting, objectVars, ownerVars
<1>10. NoticeInv'
  BY <1>3, <1>4, <1>5 DEF IInv, Types, NoticeInv, objectVars, ownerVars
<1> QED  BY <1>7, <1>8, <1>9, <1>10 DEF IInv

(* ... and marks it as done.                                               *)
LEMMA WorkerMarkKeeps ==
  ASSUME IInv, WorkerMark
  PROVE  IInv'
<1>1. current \in Task /\ notified[current] = 1 /\ worker = "mark" /\ current # NoTask
  BY DEF IInv, Types, NoticeInv, WorkerMark
<1>2. Types'
  BY <1>1 DEF IInv, Types, WorkerMark, ownerVars, guiVars, history
<1>3. PostedOnce'
  BY DEF IInv, PostedOnce, Fresh, WorkerMark, ownerVars, history
<1>4. WaitingInv'
  BY DEF IInv, WaitingInv, Waiting, WorkerMark, ownerVars, history
<1>5. NoticeInv'
  BY <1>1 DEF IInv, NoticeInv, WorkerMark, ownerVars, guiVars, history
<1> QED  BY <1>2, <1>3, <1>4, <1>5 DEF IInv

(* All steps of the worker.                                                *)
LEMMA WorkerKeeps ==
  ASSUME IInv, WorkerStep
  PROVE  IInv'
<1>1. CASE WorkerTest
  BY <1>1, WorkerMoves DEF WorkerTest, IInv, Types
<1>2. CASE WorkerLock
  <2>1. CASE mQueue = << >>
    BY <1>2, <2>1, WorkerMoves DEF WorkerLock, IInv, Types
  <2>2. CASE mQueue # << >>
    BY <1>2, <2>2, TakeTopKeeps DEF WorkerLock
  <2> QED  BY <2>1, <2>2
<1>3. CASE WorkerWoken
  <2>1. CASE mQueue = << >>
    BY <1>3, <2>1, WorkerMoves DEF WorkerWoken, IInv, Types
  <2>2. CASE mQueue # << >>
    BY <1>3, <2>2, TakeTopKeeps DEF WorkerWoken
  <2> QED  BY <2>1, <2>2
<1>4. CASE WorkerRun
  <2>1. Types'
    BY <1>4 DEF IInv, Types, WorkerRun, objectVars, ownerVars, guiVars, history
  <2>2. PostedOnce'
    BY <1>4 DEF IInv, PostedOnce, Fresh, WorkerRun, ownerVars, history
  <2>3. WaitingInv'
    BY <1>4 DEF IInv, WaitingInv, Waiting, WorkerRun, objectVars, ownerVars, history
  <2>4. NoticeInv'
    BY <1>4 DEF IInv, NoticeInv, WorkerRun, objectVars, ownerVars, guiVars, history
  <2> QED  BY <2>1, <2>2, <2>3, <2>4 DEF IInv
<1>5. CASE WorkerEmit
  BY <1>5, WorkerEmitKeeps
<1>6. CASE WorkerMark
  BY <1>6, WorkerMarkKeeps
<1>7. CASE WorkerUnlock
  BY <1>7, WorkerMoves DEF WorkerUnlock
<1> QED  BY <1>1, <1>2, <1>3, <1>4, <1>5, <1>6, <1>7 DEF WorkerStep

-----------------------------------------------------------------------------
(* The destructor of the handler. *)
LEMMA DestructorNotifyKeeps ==
  ASSUME IInv, DestructorNotify
  PROVE  IInv'
<1> DEFINE t == Last(mQueue)
<1>1. /\ t \in ToSet(mQueue) /\ t \in Task
      /\ QueueOK(Popped(mQueue), posted)
      /\ ToSet(Popped(mQueue)) = ToSet(mQueue) \ {t}
  BY PoppedOK DEF IInv, WaitingInv, DestructorNotify
<1>2. t \in ToSet(posted) /\ Waiting(t) /\ ~Fresh(t)
  BY <1>1 DEF IInv, PostedOnce, WaitingInv, QueueOK
<1>3. /\ mQueue' = Popped(mQueue)
      /\ notified' = [notified EXCEPT ![t] = @ + 1]
      /\ marked' = marked \cup {t}
      /\ \/ /\ deleter' = [deleter EXCEPT ![t].done = TRUE]
            /\ owner' = [owner EXCEPT ![t] = IF @ = "posted" THEN "done" ELSE @]
         \/ UNCHANGED << deleter, owner >>
      /\ deletions' \in {deletions, deletions \cup {t}}
      /\ UNCHANGED << workerVars, object, guiVars, posted, dropped >>
      /\ worker \in {"off", "ended"}
  BY DEF DestructorNotify
<1> HIDE DEF t
<1>4. current = NoTask
  BY <1>3 DEF IInv, Types
<1>5. /\ notified' \in [Task -> Nat] /\ notified'[t] = 1
      /\ \A v \in Task : v # t => notified'[v] = notified[v]
  BY <1>1, <1>2, <1>3 DEF IInv, Types, Waiting
<1>6. /\ owner' \in [Task -> {"none", "idle", "posted", "done", "gone"}]
      /\ \A v \in Task : owner'[v] = owner[v] \/ owner'[v] = "done"
  BY <1>1, <1>3 DEF IInv, Types
<1>7. /\ deleter' \in [Task -> [done : BOOLEAN, delete : BOOLEAN]]
      /\ \A v \in Task : deleter'[v].done => deleter[v].done \/ v = t
  <2>1. CASE deleter' = [deleter EXCEPT ![t].done = TRUE]
    <3>1. deleter' \in [Task -> [done : BOOLEAN, delete : BOOLEAN]]
      BY <1>1, <2>1 DEF IInv, Types
    <3>2. \A v \in Task : v # t => deleter'[v] = deleter[v]
      BY <2>1 DEF IInv, Types
    <3> QED  BY <3>1, <3>2
  <2>2. CASE deleter' = deleter
    BY <2>2 DEF IInv, Types
  <2> QED  BY <1>3, <2>1, <2>2
<1>8. ToSet(posted) \subseteq Task /\ ToSet(mQueue) \subseteq Task
  BY ToSetFacts DEF IInv, PostedOnce, WaitingInv, QueueOK
<1>9. \A i \in 1 .. Len(events) : events[i][2] \in Task
  <2>1. \A i \in 1 .. Len(events) : events[i] \in Event
    BY ElementOfSeq DEF IInv, Types
  <2> QED  BY <2>1 DEF Event
<1>10. Types'
  BY <1>1, <1>3, <1>5, <1>6, <1>7 DEF IInv, Types, workerVars, guiVars
<1>11. PostedOnce'
  BY <1>1, <1>2, <1>3, <1>5, <1>6, <1>8 DEF IInv, PostedOnce, Fresh, workerVars
<1>12. WaitingInv'
  <2>1. \A v \in ToSet(mQueue') : Waiting(v)' /\ v # current'
    BY <1>1, <1>3, <1>5, <1>8 DEF IInv, WaitingInv, Waiting, workerVars
  <2>2. /\ \A v \in Task : owner'[v] = "idle" => object'[v] = "alive"
        /\ \A v \in Task : notified'[v] <= 1 /\ (v \in dropped' => notified'[v] = 0)
    BY <1>2, <1>3, <1>5, <1>6 DEF IInv, WaitingInv, Waiting
  <2> QED  BY <1>1, <1>3, <2>1, <2>2 DEF WaitingInv, workerVars
<1>13. NoticeInv'
  BY <1>1, <1>3, <1>5, <1>7, <1>9 DEF IInv, Types, NoticeInv, workerVars, guiVars
<1> QED  BY <1>10, <1>11, <1>12, <1>13 DEF IInv

(* The steps that leave everything IInv speaks of, but for a wakeup. *)
LEMMA DestructorKeeps ==
  ASSUME IInv, DestructorBegin \/ DestructorEnd
  PROVE  IInv'
<1>1. /\ UNCHANGED << mQueue, current, objectVars, ownerVars, guiVars, history >>
      /\ worker' = worker \/ (worker = "asleep" /\ worker' = "woken")
  BY DEF DestructorBegin, DestructorEnd, WakeOne, workerVars
<1>2. Types'
  BY <1>1 DEF IInv, Types, objectVars, ownerVars, guiVars, history
<1>3. PostedOnce'
  BY <1>1 DEF IInv, PostedOnce, Fresh, ownerVars, history
<1>4. WaitingInv'
  BY <1>1 DEF IInv, WaitingInv, Waiting, objectVars, ownerVars, history
<1>5. NoticeInv'
  BY <1>1 DEF IInv, NoticeInv, objectVars, ownerVars, guiVars, history
<1> QED  BY <1>2, <1>3, <1>4, <1>5 DEF IInv

-----------------------------------------------------------------------------
(* Every step of the two threads keeps IInv. *)
THEOREM Inductive == IInv /\ [Next]_vars => IInv'
<1> SUFFICES ASSUME IInv, [Next]_vars PROVE IInv'
  OBVIOUS
<1>1. ASSUME NEW t \in Task,
             \/ CreateHelper(t) \/ DropHelper(t) \/ ShowHistory(t) \/ PostStacked(t)
             \/ DoDelete(t) \/ \E synchronized \in BOOLEAN : PostHelper(t, synchronized)
      PROVE  IInv'
  BY <1>1, CreateHelperKeeps, DropHelperKeeps, ShowHistoryKeeps, PostStackedKeeps,
     DoDeleteKeeps, PostHelperKeeps
<1>2. CASE \/ ClearHistory \/ SyncReturn \/ DeleterEvent \/ HelperEvent \/ ModelEvent
           \/ SyncEvent
  BY <1>2, ClearHistoryKeeps, SyncReturnKeeps, DeleterEventKeeps, HelperEventKeeps,
     ModelEventKeeps, SyncEventKeeps
<1>3. CASE WorkerStep \/ DestructorBegin \/ DestructorStep
  BY <1>3, WorkerKeeps, DestructorKeeps, DestructorNotifyKeeps DEF DestructorStep
<1>4. CASE UNCHANGED vars
  <2>1. UNCHANGED << mQueue, mDone, worker, current, object, marked, deletions, owner, deleter,
                     events, loops, released, posted, dropped, notified >>
    BY <1>4 DEF vars, workerVars, objectVars, ownerVars, guiVars, history
  <2>2. Types' /\ PostedOnce'
    BY <2>1 DEF IInv, Types, PostedOnce, Fresh
  <2>3. WaitingInv'
    BY <2>1 DEF IInv, WaitingInv, Waiting
  <2>4. NoticeInv'
    BY <2>1 DEF IInv, NoticeInv
  <2> QED  BY <2>2, <2>3, <2>4 DEF IInv
<1> QED  BY <1>1, <1>2, <1>3, <1>4 DEF Next

-----------------------------------------------------------------------------
(* The types of the variables that IInv says nothing of. *)
OtherTypes ==
  /\ mDone \in {"no", "waiting", "gone"}
  /\ wanted \subseteq Task
  /\ mHistory \in [of : Own \cup {NoTask}, whole : BOOLEAN]

(* The types of what IInv says nothing of.                                 *)
LEMMA OtherTypesKept == OtherTypes /\ [Next]_vars => OtherTypes'
<1> SUFFICES ASSUME OtherTypes, [Next]_vars PROVE OtherTypes'
  OBVIOUS
<1>1. ASSUME NEW u \in Held, ReleaseOwn(u) PROVE wanted' \subseteq Task
  BY <1>1, TaskAssumption DEF OtherTypes, Held, ReleaseOwn
<1>2. ASSUME NEW t \in Task, CreateHelper(t) \/ DropHelper(t) \/ PostStacked(t) \/ DoDelete(t)
      PROVE  OtherTypes'
  BY <1>2 DEF OtherTypes, CreateHelper, DropHelper, PostStacked, DoDelete, guiVars
<1>3. ASSUME NEW t \in Task, NEW synchronized \in BOOLEAN, PostHelper(t, synchronized)
      PROVE  OtherTypes'
  BY <1>3 DEF OtherTypes, PostHelper, objectVars
<1>4. ASSUME NEW t \in Task, ShowHistory(t) PROVE OtherTypes'
  <2>1. wanted' \subseteq Task
    BY <1>1, <1>4 DEF OtherTypes, ShowHistory
  <2> QED  BY <1>4, <2>1 DEF OtherTypes, ShowHistory, guiVars
<1>5. CASE ClearHistory
  BY <1>1, <1>5 DEF OtherTypes, ClearHistory
<1>6. CASE ModelEvent
  <2>1. CASE Held = {}
    <3>1. /\ mHistory' = [of |-> NoTask, whole |-> TRUE]
          /\ wanted' = wanted /\ mDone' = mDone
      BY <1>6, <2>1 DEF ModelEvent
    <3> QED  BY <3>1 DEF OtherTypes
  <2>2. CASE Held # {}
    <3>1. PICK u \in Held :
            /\ mHistory' = [of |-> u, whole |-> notified[u] > 0 \/
                                                (worker = "emit" /\ current = u)]
            /\ ReleaseOwn(u)
      BY <1>6, <2>2 DEF ModelEvent
    <3>2. mHistory' \in [of : Own \cup {NoTask}, whole : BOOLEAN]
      BY <3>1 DEF Held
    <3>3. mDone' = mDone
      BY <1>6 DEF ModelEvent
    <3>4. wanted' \subseteq Task
      BY <1>1, <3>1
    <3> QED  BY <3>2, <3>3, <3>4 DEF OtherTypes
  <2> QED  BY <2>1, <2>2
<1>7. CASE SyncReturn \/ DeleterEvent \/ HelperEvent \/ SyncEvent
  BY <1>7 DEF OtherTypes, SyncReturn, DeleterEvent, HelperEvent, SyncEvent, objectVars
<1>8. CASE WorkerStep
  BY <1>8 DEF OtherTypes, WorkerStep, WorkerTest, WorkerLock, WorkerWoken, WorkerRun,
              WorkerEmit, WorkerMark, WorkerUnlock, objectVars, guiVars
<1>9. CASE DestructorBegin \/ DestructorStep
  BY <1>9 DEF OtherTypes, DestructorBegin, DestructorStep, DestructorNotify, DestructorEnd,
              objectVars, guiVars
<1>10. CASE UNCHANGED vars
  BY <1>10 DEF OtherTypes, vars, objectVars, guiVars
<1> QED  BY <1>2, <1>3, <1>4, <1>5, <1>6, <1>7, <1>8, <1>9, <1>10 DEF Next

(* What is claimed follows from the invariant: the types ...               *)
LEMMA TypesFollow == IInv /\ OtherTypes => TypeOK
BY DEF IInv, Types, PostedOnce, WaitingInv, QueueOK, OtherTypes, TypeOK

(* ... the order ...                                                       *)
LEMMA OrderFollows == IInv => QueueInOrder
BY DEF IInv, WaitingInv, QueueOK, Sorted, PlaceIn, QueueInOrder, Place

(* ... one notification ...                                                *)
LEMMA OnceFollows == IInv => NotifiedOnce
BY DEF IInv, WaitingInv, NotifiedOnce

(* ... and the life of a task.                                             *)
LEMMA AliveFollows == IInv => AliveUntilNotified
BY DEF IInv, WaitingInv, Waiting, AliveUntilNotified

(* In every reachable state the variables have their types. *)
THEOREM TypeCorrect == Spec => []TypeOK
<1>1. Init => OtherTypes
  BY DEF Init, OtherTypes
<1> QED  BY InitIInv, Inductive, OtherTypesKept, TypesFollow, <1>1, PTL DEF Spec

(* In every reachable state, for any tasks and priorities, the next task   *)
(* that the worker takes is one of the highest priority and the first of   *)
(* them that was posted.                                                   *)
THEOREM QueueOrdered == Spec => []QueueInOrder
<1> QED  BY InitIInv, Inductive, OrderFollows, PTL DEF Spec

(* Whatever the two threads do, notifyDone is called at most once for a    *)
(* task, and never after dropTask has returned true for it.                *)
THEOREM OnceNotified == Spec => []NotifiedOnce
<1> QED  BY InitIInv, Inductive, OnceFollows, PTL DEF Spec

(* Whatever the two threads do, a task in the queue, and one that the      *)
(* worker has yet to notify, is not deleted.                               *)
THEOREM AliveWhileCalled == Spec => []AliveUntilNotified
<1> QED  BY InitIInv, Inductive, AliveFollows, PTL DEF Spec
=============================================================================
