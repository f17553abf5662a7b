-------------------------- MODULE CachingAccessProofs --------------------------
(***************************************************************************)
(* Proofs about CachingAccess: the buffers of a request cover it, nothing  *)
(* is fetched twice, and a request is completed once.                      *)
(***************************************************************************)
EXTENDS CachingAccess, SequenceTheorems, FiniteSetTheorems, WellFoundedInduction, TLAPS

(* Induction for a set of numbers. *)
LEMMA AllNumbers ==
  ASSUME NEW S \in SUBSET Nat, 0 \in S, \A n \in S : n + 1 \in S
  PROVE  Nat \subseteq S
<1> DEFINE R == {p \in Nat \X Nat : p[1] < p[2]}
           T == Nat \ S
<1>1. IsWellFoundedOn(R, Nat)
  <2>1. R = OpToRel(<, Nat)
    BY DEF OpToRel
  <2> QED  BY <2>1, NatLessThanWellFounded
<1>2. SUFFICES ASSUME T # {} PROVE FALSE
  OBVIOUS
<1>3. PICK t \in T : \A u \in T : ~ (<< u, t >> \in R)
  <2> HIDE DEF R, T
  <2>1. T \subseteq Nat
    BY DEF T
  <2> QED  BY <1>1, <1>2, <2>1, WFMin
<1>4. t \in Nat /\ t # 0 /\ t - 1 \in Nat /\ << t - 1, t >> \in R /\ (t - 1) + 1 = t
  OBVIOUS
<1>5. t - 1 \in S
  BY <1>3, <1>4
<1> QED  BY <1>4, <1>5

(* The least of some numbers. *)
LEMMA LeastNumber ==
  ASSUME NEW S \in SUBSET Nat, S # {}
  PROVE  \E m \in S : \A k \in S : m <= k
<1> DEFINE R == {p \in Nat \X Nat : p[1] < p[2]}
<1>1. IsWellFoundedOn(R, Nat)
  <2>1. R = OpToRel(<, Nat)
    BY DEF OpToRel
  <2> QED  BY <2>1, NatLessThanWellFounded
<1>2. PICK t \in S : \A u \in S : ~ (<< u, t >> \in R)
  <2> HIDE DEF R
  <2> QED  BY <1>1, WFMin
<1>3. ASSUME NEW k \in S PROVE t <= k
  <2>1. ~ (<< k, t >> \in R) /\ k \in Nat /\ t \in Nat
    BY <1>2
  <2> QED  BY <2>1
<1> QED  BY <1>3

-----------------------------------------------------------------------------
(* The two recursive functions are what their equations say. *)
LEMMA FoundIs ==
  ASSUME NEW shape, Len(Visited(shape)) \in Nat
  PROVE  Found(shape) =
           [n \in 0 .. Len(Visited(shape)) |->
              IF n = 0 THEN Start(shape)
              ELSE Share(Found(shape)[n - 1], shape, Visited(shape)[n])]
<1> DEFINE seen == Visited(shape)
           After(f, n) == IF n = 0 THEN Start(shape) ELSE Share(f[n - 1], shape, seen[n])
           Solves(f, m) == f = [n \in 0 .. m |-> After(f, n)]
           S == {m \in Nat : \E f : Solves(f, m)}
<1>1. 0 \in S
  <2>1. Solves([n \in 0 .. 0 |-> Start(shape)], 0)
    OBVIOUS
  <2> QED  BY <2>1
<1>2. ASSUME NEW m \in S PROVE m + 1 \in S
  <2>1. PICK f : Solves(f, m)
    OBVIOUS
  <2> DEFINE g == [n \in 0 .. m + 1 |-> IF n <= m THEN f[n] ELSE After(f, n)]
  <2>2. ASSUME NEW n \in 0 .. m + 1 PROVE g[n] = After(g, n)
    <3>1. n # 0 => n - 1 \in 0 .. m + 1 /\ n - 1 <= m
      OBVIOUS
    <3>2. After(g, n) = After(f, n)
      BY <3>1
    <3>3. n <= m => f[n] = After(f, n)
      BY <2>1
    <3> QED  BY <3>2, <3>3
  <2>3. Solves(g, m + 1)
    BY <2>2
  <2>4. m + 1 \in Nat /\ \E h : Solves(h, m + 1)
    <3> HIDE DEF g, Solves
    <3> QED  BY <2>3
  <2> QED  BY <2>4
<1>3. Len(seen) \in S
  <2> HIDE DEF S
  <2>1. S \in SUBSET Nat
    BY DEF S
  <2> QED  BY <1>1, <1>2, <2>1, AllNumbers
<1>4. \E f : Solves(f, Len(seen))
  BY <1>3
<1>5. Found(shape) = CHOOSE f : Solves(f, Len(seen))
  BY DEF Found
<1> HIDE DEF Solves
<1>6. Solves(Found(shape), Len(seen))
  BY <1>4, <1>5
<1> QED  BY <1>6 DEF Solves

(* The same of Listed.                                                     *)
LEMMA ListedIs ==
  ASSUME NEW made, Len(buffer) \in Nat, Len(made) \in Nat, Len(buffer) <= Len(made)
  PROVE  Listed(made) =
           [n \in Len(buffer) .. Len(made) |->
              IF n = Len(buffer) THEN mBuffers ELSE Insert(Listed(made)[n - 1], made, n)]
<1> DEFINE a == Len(buffer)
           b == Len(made)
           Next1(f, n) == IF n = a THEN mBuffers ELSE Insert(f[n - 1], made, n)
           Solves(f, m) == f = [n \in a .. a + m |-> Next1(f, n)]
           S == {m \in Nat : \E f : Solves(f, m)}
<1>1. 0 \in S
  <2>1. Solves([n \in a .. a + 0 |-> mBuffers], 0)
    OBVIOUS
  <2> QED  BY <2>1
<1>2. ASSUME NEW m \in S PROVE m + 1 \in S
  <2>1. PICK f : Solves(f, m)
    OBVIOUS
  <2> DEFINE g == [n \in a .. a + (m + 1) |-> IF n <= a + m THEN f[n] ELSE Next1(f, n)]
  <2>2. ASSUME NEW n \in a .. a + (m + 1) PROVE g[n] = Next1(g, n)
    <3>1. n # a => n - 1 \in a .. a + (m + 1) /\ n - 1 <= a + m
      OBVIOUS
    <3>2. Next1(g, n) = Next1(f, n)
      BY <3>1
    <3>3. n <= a + m => f[n] = Next1(f, n)
      BY SMTT(30), <2>1
    <3> QED  BY <3>2, <3>3
  <2>3. Solves(g, m + 1)
    BY <2>2
  <2>4. m + 1 \in Nat /\ \E h : Solves(h, m + 1)
    <3> HIDE DEF g, Solves
    <3> QED  BY <2>3
  <2> QED  BY <2>4
<1>3. b - a \in S
  <2> HIDE DEF S
  <2>1. S \in SUBSET Nat
    BY DEF S
  <2>2. b - a \in Nat
    OBVIOUS
  <2> QED  BY <1>1, <1>2, <2>1, <2>2, AllNumbers
<1>4. \E f : Solves(f, b - a)
  BY <1>3
<1>5. a + (b - a) = b
  OBVIOUS
<1>6. Listed(made) = CHOOSE f : Solves(f, b - a)
  BY <1>5 DEF Listed
<1> HIDE DEF Solves
<1>7. Solves(Listed(made), b - a)
  BY <1>4, <1>6
<1> QED  BY <1>5, <1>7 DEF Solves

-----------------------------------------------------------------------------
(* What the operators on sequences return. *)
LEMMA SetToSeqIs ==
  ASSUME NEW S, IsFiniteSet(S)
  PROVE  /\ SetToSeq(S) \in Seq(S)
         /\ \A i, k \in DOMAIN SetToSeq(S) : SetToSeq(S)[i] = SetToSeq(S)[k] => i = k
         /\ \A x \in S : \E i \in DOMAIN SetToSeq(S) : SetToSeq(S)[i] = x
<1> DEFINE n == Cardinality(S)
           q == SetToSeq(S)
<1>1. n \in Nat /\ ExistsBijection(1 .. n, S)
  BY FS_CardinalityType
<1>2. \E f \in [1 .. n -> S] : IsInjective(f)
  BY <1>1 DEF ExistsBijection, Bijection, Injection
<1>3. q \in [1 .. n -> S] /\ IsInjective(q)
  BY <1>2 DEF SetToSeq
<1>4. q \in Injection(1 .. n, S)
  BY <1>3 DEF Injection
<1>5. Cardinality(1 .. n) = n
  BY <1>1, FS_Interval
<1>6. q \in Surjection(1 .. n, S)
  BY <1>4, <1>5, FS_Injection
<1>7. \A x \in S : \E i \in DOMAIN q : q[i] = x
  BY <1>3, <1>6 DEF Surjection
<1>8. q \in Seq(S)
  BY <1>1, <1>3
<1> QED  BY <1>3, <1>7, <1>8 DEF IsInjective

(* InsertAt makes room for one element at its position.                    *)
LEMMA InsertAtIs ==
  ASSUME NEW D, NEW list \in Seq(D), NEW p \in 1 .. Len(list) + 1, NEW x \in D
  PROVE  /\ InsertAt(list, p, x) \in Seq(D)
         /\ Len(InsertAt(list, p, x)) = Len(list) + 1
         /\ \A k \in 1 .. Len(list) + 1 :
              InsertAt(list, p, x)[k] =
                IF k < p THEN list[k] ELSE IF k = p THEN x ELSE list[k - 1]
<1> DEFINE u == SubSeq(list, 1, p - 1)
           v == SubSeq(list, p, Len(list))
<1>1. u \in Seq(D) /\ Len(u) = p - 1 /\ \A k \in 1 .. p - 1 : u[k] = list[k]
  OBVIOUS
<1>2. /\ v \in Seq(D) /\ Len(v) = Len(list) - p + 1
      /\ \A k \in 1 .. Len(list) - p + 1 : v[k] = list[p + k - 1]
  OBVIOUS
<1>3. InsertAt(list, p, x) = (u \o << x >>) \o v
  BY DEF InsertAt
<1> DEFINE w == u \o << x >>
<1> HIDE DEF u, v
<1>4. /\ w \in Seq(D) /\ Len(w) = p
      /\ \A k \in 1 .. p : w[k] = IF k < p THEN list[k] ELSE x
  BY <1>1
<1> HIDE DEF w
<1>5. w \o v \in Seq(D) /\ Len(w \o v) = Len(list) + 1
  BY <1>2, <1>4
<1>6. ASSUME NEW k \in 1 .. Len(list) + 1
      PROVE  (w \o v)[k] = IF k < p THEN list[k] ELSE IF k = p THEN x ELSE list[k - 1]
  <2>1. (w \o v)[k] = IF k <= p THEN w[k] ELSE v[k - p]
    BY <1>2, <1>4
  <2>2. k > p => k - p \in 1 .. Len(list) - p + 1 /\ p + (k - p) - 1 = k - 1
    OBVIOUS
  <2> QED  BY <1>2, <1>4, <2>1, <2>2
<1> QED  BY <1>3, <1>5, <1>6 DEF w

(* Lengths and elements of two sequences put together.                     *)
LEMMA ConcatIs ==
  ASSUME NEW D, NEW u \in Seq(D), NEW v \in Seq(D)
  PROVE  /\ u \o v \in Seq(D) /\ Len(u \o v) = Len(u) + Len(v)
         /\ \A i \in 1 .. Len(u) : (u \o v)[i] = u[i]
         /\ \A i \in 1 .. Len(v) : (u \o v)[Len(u) + i] = v[i]
OBVIOUS

(* Append adds its element to the set of elements.                         *)
LEMMA AppendIs ==
  ASSUME NEW D, NEW u \in Seq(D), NEW x \in D
  PROVE  /\ Append(u, x) \in Seq(D)
         /\ ToSet(Append(u, x)) = ToSet(u) \cup {x}
<1> DEFINE w == Append(u, x)
<1>1. /\ w \in Seq(D) /\ Len(w) = Len(u) + 1 /\ w[Len(u) + 1] = x
      /\ \A i \in 1 .. Len(u) : w[i] = u[i]
      /\ DOMAIN w = 1 .. Len(u) + 1 /\ DOMAIN u = 1 .. Len(u) /\ Len(u) \in Nat
  OBVIOUS
<1> HIDE DEF w
<1>2. ASSUME NEW i \in 1 .. Len(u) + 1 PROVE w[i] = x \/ \E k \in 1 .. Len(u) : w[i] = u[k]
  <2>1. i = Len(u) + 1 \/ i \in 1 .. Len(u)
    BY <1>1
  <2> QED  BY <1>1, <2>1
<1>3. ASSUME NEW i \in 1 .. Len(u) PROVE \E k \in 1 .. Len(u) + 1 : w[k] = u[i]
  <2>1. i \in 1 .. Len(u) + 1
    BY <1>1
  <2> QED  BY <1>1, <2>1
<1>4. \E k \in 1 .. Len(u) + 1 : w[k] = x
  BY <1>1
<1>5. ToSet(w) = {w[i] : i \in 1 .. Len(u) + 1} /\ ToSet(u) = {u[i] : i \in 1 .. Len(u)}
  BY <1>1 DEF ToSet
<1>6. ASSUME NEW y PROVE y \in ToSet(w) <=> y \in ToSet(u) \cup {x}
  <2>1. y \in ToSet(w) <=> \E i \in 1 .. Len(u) + 1 : y = w[i]
    BY <1>5
  <2>2. y \in ToSet(u) <=> \E i \in 1 .. Len(u) : y = u[i]
    BY <1>5
  <2> QED  BY <1>2, <1>3, <1>4, <2>1, <2>2
<1>7. ToSet(w) = ToSet(u) \cup {x}
  BY <1>6
<1> QED  BY <1>1, <1>7 DEF w

(* FirstAfter is well defined, also when the list is in no order.          *)
LEMMA FirstAfterIs ==
  ASSUME NEW list, Len(list) \in Nat, NEW made, NEW t \in Nat,
         \A i \in 1 .. Len(list) : made[list[i]].shape.t0 \in Nat
  PROVE  /\ FirstAfter(list, made, t) \in 1 .. Len(list) + 1
         /\ \A i \in 1 .. FirstAfter(list, made, t) - 1 : made[list[i]].shape.t0 <= t
         /\ FirstAfter(list, made, t) <= Len(list) =>
              made[list[FirstAfter(list, made, t)]].shape.t0 > t
<1> DEFINE At(i) == made[list[i]].shape.t0
           S == {p \in 1 .. Len(list) + 1 : p <= Len(list) => At(p) > t}
           First(p) == /\ \A i \in 1 .. p - 1 : At(i) <= t
                       /\ p <= Len(list) => At(p) > t
<1>1. Len(list) + 1 \in S
  OBVIOUS
<1>2. PICK m \in S : \A k \in S : m <= k
  <2>1. S \in SUBSET Nat /\ S # {}
    BY <1>1
  <2> HIDE DEF S
  <2> QED  BY <2>1, LeastNumber
<1>3. ASSUME NEW i \in 1 .. m - 1 PROVE At(i) <= t
  <2>1. i \in 1 .. Len(list) /\ i \notin S
    BY <1>2
  <2> QED  BY <2>1
<1>4. m \in 1 .. Len(list) + 1 /\ First(m)
  BY <1>3
<1>5. FirstAfter(list, made, t) = CHOOSE p \in 1 .. Len(list) + 1 : First(p)
  BY DEF FirstAfter
<1>6. /\ FirstAfter(list, made, t) \in 1 .. Len(list) + 1
      /\ First(FirstAfter(list, made, t))
  <2> HIDE DEF First
  <2> QED  BY <1>4, <1>5
<1> QED  BY <1>6

-----------------------------------------------------------------------------
(* One call of requestBuffers. *)

TodoType(todo, shape) ==
  /\ todo.made \in Seq(Buffer) /\ todo.shared \in Seq(1 .. Len(todo.made))
  /\ todo.t0 \in [shape.sensors -> Times] /\ todo.closed \subseteq shape.sensors

(* A new buffer is one, is waiting and holds nothing.                      *)
LEMMA NewBufferIs ==
  ASSUME NEW shape \in Shape, NEW sensors \in (SUBSET shape.sensors) \ {{}},
         NEW t0 \in Times, NEW t1 \in Times
  PROVE  /\ NewBuffer(sensors, t0, t1, shape.filter) \in Buffer
         /\ NewBuffer(sensors, t0, t1, shape.filter).shape =
              [sensors |-> sensors, t0 |-> t0, t1 |-> t1, filter |-> shape.filter]
         /\ NewBuffer(sensors, t0, t1, shape.filter).status = "asked"
         /\ NewBuffer(sensors, t0, t1, shape.filter).mUseCount = 0
         /\ NewBuffer(sensors, t0, t1, shape.filter).data = NoData
<1>1. NoData \in Data
  BY CacheAssumption DEF NoData, Data, Value
<1>2. sensors \in {{Invalid}} \cup ((SUBSET Sensors) \ {{}})
  BY DEF Shape
<1>3. [sensors |-> sensors, t0 |-> t0, t1 |-> t1, filter |-> shape.filter] \in Shape
  BY <1>2 DEF Shape
<1> QED  BY <1>1, <1>3 DEF NewBuffer, Buffer, Statuses

(* Whom a new buffer is for: the sensors that reach as far as s. *)
Reaching(todo, late, s) == {x \in late : todo.t0[x] = todo.t0[s]}

Asked(todo, new, shape, sensors, late, t0, t1) ==
  LET fresh == Len(todo.made) + 1 .. Len(new.made)
  IN  /\ TodoType(new, shape)
      /\ \A s \in shape.sensors : new.t0[s] = IF s \in sensors THEN t1 ELSE todo.t0[s]
      /\ new.closed = todo.closed \cup sensors
      /\ Len(todo.made) <= Len(new.made)
      /\ \A id \in 1 .. Len(todo.made) : new.made[id] = todo.made[id]
      /\ \A id \in fresh : \E s \in late :
           new.made[id] = NewBuffer(Reaching(todo, late, s), todo.t0[s], t0, shape.filter)
      /\ \A id, k \in fresh : new.made[id].shape.t0 = new.made[k].shape.t0 => id = k
      /\ \A s \in late : \E id \in fresh :
           new.made[id] = NewBuffer(Reaching(todo, late, s), todo.t0[s], t0, shape.filter)
      /\ \A id : id \in ToSet(new.shared) <=> id \in ToSet(todo.shared) \/ id \in fresh

(* What SensorTodo::requestBuffers makes, read off its definition.         *)
LEMMA RequestBuffersIs ==
  ASSUME NEW shape \in Shape, NEW todo, TodoType(todo, shape),
         NEW sensors \in SUBSET shape.sensors,
         NEW t0 \in Times, NEW t1 \in Times, NEW close \in BOOLEAN
  PROVE  Asked(todo, RequestBuffers(todo, shape, sensors, t0, t1, close),
               shape, sensors, Late(todo, sensors, t0, close), t0, t1)
<1> DEFINE late == Late(todo, sensors, t0, close)
           T == {todo.t0[s] : s \in late}
           starts == SetToSeq(T)
           For(t) == NewBuffer({s \in late : todo.t0[s] = t}, t, t0, shape.filter)
           n == Len(todo.made)
           news == [i \in DOMAIN starts |-> For(starts[i])]
           ids == [i \in DOMAIN starts |-> n + i]
           new == RequestBuffers(todo, shape, sensors, t0, t1, close)
<1>1. late \subseteq sensors
  BY DEF Late
<1>2. IsFiniteSet(late)
  <2>1. IsFiniteSet(Sensors) /\ IsFiniteSet({Invalid})
    BY CacheAssumption, FS_Singleton
  <2>2. late \subseteq Sensors \/ late \subseteq {Invalid}
    BY <1>1 DEF Shape
  <2> HIDE DEF late
  <2> QED  BY <2>1, <2>2, FS_Subset
<1>3. IsFiniteSet(T)
  <2> DEFINE f == [s \in late |-> todo.t0[s]]
  <2>1. f \in Surjection(late, T)
    <3> HIDE DEF late
    <3> QED  BY DEF Surjection
  <2> HIDE DEF f, T
  <2> QED  BY <1>2, <2>1, FS_Surjection
<1>4. T \subseteq Times
  BY <1>1 DEF TodoType
<1>5. /\ starts \in Seq(T)
      /\ \A i, k \in DOMAIN starts : starts[i] = starts[k] => i = k
      /\ \A t \in T : \E i \in DOMAIN starts : starts[i] = t
  <2> HIDE DEF T
  <2> QED  BY <1>3, SetToSeqIs
<1>6. /\ Len(starts) \in Nat /\ DOMAIN starts = 1 .. Len(starts)
      /\ \A i \in DOMAIN starts : starts[i] \in T
  <2> HIDE DEF T, starts
  <2> QED  BY <1>5
<1>7. ASSUME NEW t \in T
      PROVE  /\ For(t) \in Buffer /\ For(t).shape.t0 = t
             /\ \E s \in late : t = todo.t0[s] /\ For(t) = NewBuffer(Reaching(todo, late, s), todo.t0[s], t0, shape.filter)
  <2>1. PICK s \in late : t = todo.t0[s]
    OBVIOUS
  <2>2. {x \in late : todo.t0[x] = t} \in (SUBSET shape.sensors) \ {{}}
    BY <1>1, <2>1
  <2>3. t \in Times
    BY <1>4
  <2>4. For(t) \in Buffer /\ For(t).shape.t0 = t
    <3> DEFINE ss == {x \in late : todo.t0[x] = t}
    <3>1. ss \in (SUBSET shape.sensors) \ {{}}
      BY <2>2
    <3> HIDE DEF ss
    <3>2. /\ NewBuffer(ss, t, t0, shape.filter) \in Buffer
          /\ NewBuffer(ss, t, t0, shape.filter).shape =
               [sensors |-> ss, t0 |-> t, t1 |-> t0, filter |-> shape.filter]
      BY <2>3, <3>1, NewBufferIs
    <3> QED  BY <3>2 DEF ss
  <2> QED  BY <2>1, <2>4 DEF Reaching
<1>8. /\ new.t0 = [s \in shape.sensors |-> IF s \in sensors THEN t1 ELSE todo.t0[s]]
      /\ new.closed = todo.closed \cup sensors
      /\ new.made = todo.made \o news
      /\ new.shared = todo.shared \o ids
  BY DEF RequestBuffers
<1>9. /\ news \in Seq(Buffer) /\ Len(news) = Len(starts)
      /\ \A i \in 1 .. Len(starts) : news[i] = For(starts[i])
  <2> HIDE DEF T, starts, For
  <2> QED  BY <1>6, <1>7
<1>10. n \in Nat /\ todo.made \in Seq(Buffer) /\ todo.shared \in Seq(1 .. n)
  BY DEF TodoType
<1>11. /\ new.made \in Seq(Buffer) /\ Len(new.made) = n + Len(starts)
       /\ \A id \in 1 .. n : new.made[id] = todo.made[id]
       /\ \A i \in 1 .. Len(starts) : new.made[n + i] = For(starts[i])
  <2>1. new.made = todo.made \o news
    BY <1>8
  <2> HIDE DEF new, news, starts, For
  <2>2. news \in Seq(Buffer) /\ todo.made \in Seq(Buffer)
    BY <1>9, <1>10
  <2>3. /\ todo.made \o news \in Seq(Buffer) /\ Len(todo.made \o news) = Len(todo.made) + Len(news)
        /\ \A i \in 1 .. Len(todo.made) : (todo.made \o news)[i] = todo.made[i]
        /\ \A i \in 1 .. Len(news) : (todo.made \o news)[Len(todo.made) + i] = news[i]
    BY ONLY <2>2, ConcatIs
  <2> QED  BY <1>9, <2>1, <2>3
<1>12. /\ new.shared \in Seq(1 .. Len(new.made))
       /\ \A id : id \in ToSet(new.shared) <=>
                   id \in ToSet(todo.shared) \/ id \in n + 1 .. Len(new.made)
  <2>1. ids \in Seq(1 .. Len(new.made)) /\ Len(ids) = Len(starts) /\ \A i \in 1 .. Len(starts) : ids[i] = n + i
    <3> HIDE DEF new, starts
    <3> QED  BY <1>6, <1>10, <1>11
  <2>2. todo.shared \in Seq(1 .. Len(new.made))
    <3> HIDE DEF new, starts
    <3> QED  BY <1>6, <1>10, <1>11
  <2>3. new.shared = todo.shared \o ids
    BY <1>8
  <2> HIDE DEF new, ids, starts
  <2>4. /\ new.shared \in Seq(1 .. Len(new.made)) /\ Len(new.shared) = Len(todo.shared) + Len(ids)
        /\ \A i \in 1 .. Len(todo.shared) : new.shared[i] = todo.shared[i]
        /\ \A i \in 1 .. Len(ids) : new.shared[Len(todo.shared) + i] = ids[i]
    <3> DEFINE D == 1 .. Len(new.made)
    <3>1. todo.shared \in Seq(D) /\ ids \in Seq(D)
      BY <2>1, <2>2
    <3> HIDE DEF D
    <3>2. /\ todo.shared \o ids \in Seq(D) /\ Len(todo.shared \o ids) = Len(todo.shared) + Len(ids)
          /\ \A i \in 1 .. Len(todo.shared) : (todo.shared \o ids)[i] = todo.shared[i]
          /\ \A i \in 1 .. Len(ids) : (todo.shared \o ids)[Len(todo.shared) + i] = ids[i]
      BY ONLY <3>1, ConcatIs
    <3> QED  BY <2>3, <3>2 DEF D
  <2>5. Len(todo.shared) \in Nat /\ Len(ids) \in Nat
    BY <2>1, <2>2
  <2>6. ASSUME NEW i \in DOMAIN new.shared
        PROVE  new.shared[i] \in ToSet(todo.shared) \/ new.shared[i] \in n + 1 .. Len(new.made)
    <3>1. i \in 1 .. Len(todo.shared) + Len(ids)
      BY <2>4, <2>5
    <3>2. CASE i <= Len(todo.shared)
      <4>1. i \in 1 .. Len(todo.shared) /\ i \in DOMAIN todo.shared
        BY <2>2, <2>5, <3>1, <3>2
      <4> QED  BY <2>4, <4>1 DEF ToSet
    <3>3. CASE i > Len(todo.shared)
      <4>1. i - Len(todo.shared) \in 1 .. Len(ids) /\ Len(todo.shared) + (i - Len(todo.shared)) = i
        BY <2>5, <3>1, <3>3
      <4>2. new.shared[i] = n + (i - Len(todo.shared))
        BY <2>1, <2>4, <4>1
      <4> QED  BY <1>6, <1>10, <1>11, <2>1, <4>1, <4>2
    <3> QED  BY <2>5, <3>1, <3>2, <3>3
  <2>7. ASSUME NEW i \in DOMAIN todo.shared PROVE todo.shared[i] \in ToSet(new.shared)
    <3>1. i \in 1 .. Len(todo.shared) /\ i \in 1 .. Len(new.shared) /\ i \in DOMAIN new.shared
      BY SMTT(30), <2>2, <2>4, <2>5
    <3> QED  BY <2>4, <3>1 DEF ToSet
  <2>8. ASSUME NEW id \in n + 1 .. Len(new.made) PROVE id \in ToSet(new.shared)
    <3>1. id - n \in 1 .. Len(ids) /\ n + (id - n) = id
      BY <1>6, <1>10, <1>11, <2>1
    <3>2. Len(todo.shared) + (id - n) \in DOMAIN new.shared
      BY SMTT(30), <2>4, <2>5, <3>1
    <3>3. new.shared[Len(todo.shared) + (id - n)] = id
      BY <2>1, <2>4, <3>1
    <3> QED  BY <3>2, <3>3 DEF ToSet
  <2> QED  BY <2>4, <2>6, <2>7, <2>8 DEF ToSet
<1>13. TodoType(new, shape)
  <2>1. new.t0 \in [shape.sensors -> Times] /\ new.closed \subseteq shape.sensors
    BY <1>8 DEF TodoType
  <2> HIDE DEF new
  <2> QED  BY <1>11, <1>12, <2>1 DEF TodoType
<1>14. \A s \in shape.sensors : new.t0[s] = IF s \in sensors THEN t1 ELSE todo.t0[s]
  BY <1>8
<1>15. ASSUME NEW id \in n + 1 .. Len(new.made)
       PROVE  id - n \in 1 .. Len(starts) /\ new.made[id] = For(starts[id - n])
  <2>1. id - n \in 1 .. Len(starts) /\ n + (id - n) = id
    <3> HIDE DEF new, starts
    <3> QED  BY <1>6, <1>10, <1>11
  <2> HIDE DEF new, starts, For
  <2> QED  BY <1>11, <2>1
<1>16. ASSUME NEW id \in n + 1 .. Len(new.made)
       PROVE  \E s \in late : new.made[id] = NewBuffer(Reaching(todo, late, s), todo.t0[s], t0, shape.filter)
  <2>1. starts[id - n] \in T /\ new.made[id] = For(starts[id - n])
    <3> HIDE DEF new, starts, For, T
    <3> QED  BY <1>6, <1>15
  <2> HIDE DEF new, starts, late, T
  <2>2. PICK s \in late : For(starts[id - n]) =
          NewBuffer(Reaching(todo, late, s), todo.t0[s], t0, shape.filter)
    BY <1>7, <2>1
  <2> HIDE DEF For
  <2> QED  BY <2>1, <2>2
<1>17. ASSUME NEW id \in n + 1 .. Len(new.made), NEW k \in n + 1 .. Len(new.made),
              new.made[id].shape.t0 = new.made[k].shape.t0
       PROVE  id = k
  <2> HIDE DEF new, starts, For, T
  <2>1. starts[id - n] = starts[k - n]
    BY <1>6, <1>7, <1>15, <1>17
  <2>2. id - n = k - n
    BY <1>5, <1>6, <1>15, <2>1
  <2> QED  BY <1>10, <2>2
<1>18. ASSUME NEW s \in late
       PROVE  \E id \in n + 1 .. Len(new.made) :
                new.made[id] = NewBuffer(Reaching(todo, late, s), todo.t0[s], t0, shape.filter)
  <2>1. todo.t0[s] \in T
    OBVIOUS
  <2>2. For(todo.t0[s]) = NewBuffer(Reaching(todo, late, s), todo.t0[s], t0, shape.filter)
    BY DEF Reaching
  <2> HIDE DEF new, starts, For, T
  <2>3. PICK i \in 1 .. Len(starts) : starts[i] = todo.t0[s]
    BY <1>5, <1>6, <2>1
  <2>4. n + i \in n + 1 .. Len(new.made) /\ new.made[n + i] = For(starts[i])
    BY <1>6, <1>10, <1>11
  <2> QED  BY <2>2, <2>3, <2>4
<1>19. n <= Len(new.made)
  <2> HIDE DEF new, starts
  <2> QED  BY <1>6, <1>10, <1>11
<1>20. new.closed = todo.closed \cup sensors
  BY <1>8
<1> HIDE DEF new, late
<1> QED  BY <1>11, <1>12, <1>13, <1>14, <1>16, <1>17, <1>18, <1>19, <1>20 DEF Asked, new, late

-----------------------------------------------------------------------------
(* The loop of postRequest. *)

Common(a, b) == a.filter = b.filter /\ a.sensors \cap b.sensors # {}

(* The list is in the order of t0, and nothing is in it twice. *)
Ordered(list, made) ==
  \A i, k \in 1 .. Len(list) : i < k =>
    LET a == made[list[i]].shape
        b == made[list[k]].shape
    IN  a.t0 <= b.t0 /\ (Common(a, b) => a.t1 <= b.t0)

CacheInv ==
  /\ buffer \in Seq(Buffer) /\ mBuffers \in Seq(1 .. Len(buffer))
  /\ \A id \in 1 .. Len(buffer) : buffer[id].shape.t0 <= buffer[id].shape.t1
  /\ Ordered(mBuffers, buffer)

(* A buffer m can be put into a list that a is in. *)
Fits(a, m) == Common(a, m) => IF a.t0 <= m.t0 THEN a.t1 <= m.t0 ELSE m.t1 <= a.t0

Fresh(made) == Len(buffer) + 1 .. Len(made)

FreshOK(made, shape) ==
  \A id \in Fresh(made) :
    /\ made[id].status = "asked" /\ made[id].mUseCount = 0 /\ made[id].data = NoData
    /\ made[id].shape.t0 <= made[id].shape.t1
    /\ made[id].shape.filter = shape.filter /\ made[id].shape.sensors \subseteq shape.sensors
    /\ \A a \in ToSet(mBuffers) \cup (Len(buffer) + 1 .. id - 1) : Fits(made[a].shape, made[id].shape)

TodoInv(todo, shape) ==
  /\ TodoType(todo, shape)
  /\ Len(buffer) <= Len(todo.made)
  /\ \A id \in 1 .. Len(buffer) : todo.made[id] = buffer[id]
  /\ FreshOK(todo.made, shape)
  /\ Fresh(todo.made) \subseteq ToSet(todo.shared)
  /\ ToSet(todo.shared) \subseteq Fresh(todo.made) \cup ToSet(mBuffers)
  /\ \A s \in shape.sensors : shape.t0 <= todo.t0[s]

(* How far the buffers reach that were shared or made up to the n-th. *)
Concerns(b, shape, s) == s \in b.sensors /\ b.filter = shape.filter

Reached(todo, shape, n) ==
  /\ \A i \in 1 .. n : \A s \in shape.sensors :
       Concerns(buffer[mBuffers[i]].shape, shape, s) => buffer[mBuffers[i]].shape.t1 <= todo.t0[s]
  /\ \A id \in Fresh(todo.made) : \A s \in todo.made[id].shape.sensors :
       todo.made[id].shape.t1 <= todo.t0[s]
  /\ \A s \in shape.sensors :
       \/ todo.t0[s] = shape.t0
       \/ \E i \in 1 .. n : /\ Concerns(buffer[mBuffers[i]].shape, shape, s)
                           /\ todo.t0[s] = buffer[mBuffers[i]].shape.t1

HasInstant(todo, shape, s, t) ==
  \E id \in ToSet(todo.shared) :
    LET b == todo.made[id].shape
    IN  s \in b.sensors /\ b.t0 <= t /\ t <= b.t1 /\ b.filter = shape.filter

CoveredSoFar(todo, shape) ==
  \A s \in shape.sensors : \A t \in Nat :
    /\ shape.t0 <= t
    /\ t < todo.t0[s] \/ (s \in todo.closed /\ t = todo.t0[s])
    => HasInstant(todo, shape, s, t)

(* Numbers are numbers. *)
LEMMA ShapeTypes ==
  ASSUME NEW shape \in Shape
  PROVE  /\ shape.t0 \in Nat /\ shape.t1 \in Nat /\ shape.t0 \in Times /\ shape.t1 \in Times
         /\ shape.sensors # {}
BY CacheAssumption DEF Shape

(* The parts of a buffer have their types.                                 *)
LEMMA BufferTypes ==
  ASSUME NEW made \in Seq(Buffer), NEW id \in 1 .. Len(made)
  PROVE  /\ made[id] \in Buffer /\ made[id].shape \in Shape
         /\ made[id].shape.t0 \in Nat /\ made[id].shape.t1 \in Nat
         /\ made[id].shape.t0 \in Times /\ made[id].shape.t1 \in Times
<1>1. made[id] \in Buffer
  OBVIOUS
<1>2. made[id].shape \in Shape
  BY <1>1 DEF Buffer
<1> QED  BY <1>1, <1>2, ShapeTypes

(* The n buffers that were looked at are those that begin before t. *)
Ahead(n, t, close) ==
  \A i \in n + 1 .. Len(mBuffers) :
    /\ t <= buffer[mBuffers[i]].shape.t0
    /\ close = TRUE => t < buffer[mBuffers[i]].shape.t0

(* What requestBuffers leaves behind. *)
Kept(todo, new, shape, sensors, t0, t1, close) ==
  /\ TodoInv(new, shape)
  /\ \A s \in shape.sensors : new.t0[s] = IF s \in sensors THEN t1 ELSE todo.t0[s]
  /\ new.closed = todo.closed \cup sensors
  /\ \A s \in shape.sensors : \A t \in Nat :
       HasInstant(todo, shape, s, t) => HasInstant(new, shape, s, t)
  /\ \A s \in sensors : \A t \in Nat :
       /\ shape.t0 <= t
       /\ t < t0 \/ (close = TRUE /\ t = t0)
       => HasInstant(new, shape, s, t)
  /\ \A id \in Fresh(new.made) :
       \/ id \in Fresh(todo.made) /\ new.made[id] = todo.made[id]
       \/ new.made[id].shape.t1 = t0 /\ new.made[id].shape.sensors \subseteq sensors

(* Asking for what is missing before t0 keeps the invariant of the loop,   *)
(* if no buffer further on begins earlier.                                 *)
LEMMA RequestKeeps ==
  ASSUME NEW shape \in Shape, NEW todo, NEW n \in 0 .. Len(mBuffers),
         CacheInv, TodoInv(todo, shape), Reached(todo, shape, n), CoveredSoFar(todo, shape),
         NEW sensors \in SUBSET shape.sensors,
         NEW t0 \in Times, NEW t1 \in Times, NEW close \in BOOLEAN,
         shape.t0 <= t1, Ahead(n, t0, close)
  PROVE  Kept(todo, RequestBuffers(todo, shape, sensors, t0, t1, close),
              shape, sensors, t0, t1, close)
<1> DEFINE late == Late(todo, sensors, t0, close)
           new == RequestBuffers(todo, shape, sensors, t0, t1, close)
           m == Len(todo.made)
           k == Len(new.made)
<1>1. Asked(todo, new, shape, sensors, late, t0, t1)
  BY RequestBuffersIs DEF TodoInv
<1> HIDE DEF late, new
<1>2. /\ TodoType(new, shape) /\ TodoType(todo, shape)
      /\ m \in Nat /\ k \in Nat /\ Len(buffer) \in Nat /\ Len(buffer) <= m /\ m <= k
  BY <1>1 DEF Asked, TodoInv, TodoType, CacheInv
<1>3. /\ \A s \in shape.sensors : new.t0[s] = IF s \in sensors THEN t1 ELSE todo.t0[s]
      /\ new.closed = todo.closed \cup sensors
  BY <1>1 DEF Asked
<1>4. \A id \in 1 .. m : new.made[id] = todo.made[id]
  BY <1>1 DEF Asked
<1>5. \A id : id \in ToSet(new.shared) <=> id \in ToSet(todo.shared) \/ id \in m + 1 .. k
  BY <1>1 DEF Asked
<1>6. late \subseteq sensors
  BY DEF late, Late
<1>7. ASSUME NEW s \in shape.sensors
      PROVE  todo.t0[s] \in Times /\ todo.t0[s] \in Nat /\ shape.t0 <= todo.t0[s]
  BY <1>2, CacheAssumption DEF TodoType, TodoInv
<1>8. t0 \in Nat /\ t1 \in Nat /\ shape.t0 \in Nat /\ shape.t1 \in Nat
  BY CacheAssumption, ShapeTypes
(* Of a new buffer *)
<1>9. ASSUME NEW s \in late
      PROVE  LET b == NewBuffer(Reaching(todo, late, s), todo.t0[s], t0, shape.filter)
             IN  /\ b.shape = [sensors |-> Reaching(todo, late, s), t0 |-> todo.t0[s],
                               t1 |-> t0, filter |-> shape.filter]
                 /\ b.status = "asked" /\ b.mUseCount = 0 /\ b.data = NoData
  <2>1. Reaching(todo, late, s) \in (SUBSET shape.sensors) \ {{}}
    BY <1>6 DEF Reaching
  <2>2. todo.t0[s] \in Times
    BY <1>6, <1>7
  <2> QED  BY <2>1, <2>2, NewBufferIs
<1>10. ASSUME NEW id \in m + 1 .. k
       PROVE  \E s \in late :
                /\ new.made[id].shape.sensors = Reaching(todo, late, s)
                /\ new.made[id].shape.t0 = todo.t0[s] /\ new.made[id].shape.t1 = t0
                /\ new.made[id].shape.filter = shape.filter
                /\ new.made[id].status = "asked" /\ new.made[id].mUseCount = 0
                /\ new.made[id].data = NoData
  <2>1. PICK s \in late : new.made[id] = NewBuffer(Reaching(todo, late, s), todo.t0[s], t0, shape.filter)
    BY <1>1 DEF Asked
  <2>2. /\ new.made[id].shape = [sensors |-> Reaching(todo, late, s), t0 |-> todo.t0[s],
                                 t1 |-> t0, filter |-> shape.filter]
        /\ new.made[id].status = "asked" /\ new.made[id].mUseCount = 0
        /\ new.made[id].data = NoData
    BY <1>9, <2>1
  <2> WITNESS s \in late
  <2> QED  BY <2>2
<1>11. ASSUME NEW s \in late
       PROVE  /\ todo.t0[s] <= t0
              /\ ~close => todo.t0[s] < t0
  <2>1. t0 > todo.t0[s] \/ (close /\ t0 = todo.t0[s])
    BY DEF late, Late
  <2> QED  BY <1>6, <1>7, <1>8, <2>1
<1>12. ASSUME NEW id \in m + 1 .. k,
              NEW a \in ToSet(mBuffers) \cup (Len(buffer) + 1 .. id - 1)
       PROVE  Fits(new.made[a].shape, new.made[id].shape)
  <2>1. PICK s \in late :
          /\ new.made[id].shape.sensors = Reaching(todo, late, s)
          /\ new.made[id].shape.t0 = todo.t0[s] /\ new.made[id].shape.t1 = t0
          /\ new.made[id].shape.filter = shape.filter
    BY <1>10
  <2> SUFFICES ASSUME Common(new.made[a].shape, new.made[id].shape)
               PROVE  IF new.made[a].shape.t0 <= todo.t0[s] THEN new.made[a].shape.t1 <= todo.t0[s]
                      ELSE t0 <= new.made[a].shape.t0
    BY <2>1 DEF Fits
  <2>2. PICK x \in late : /\ x \in new.made[a].shape.sensors /\ todo.t0[x] = todo.t0[s]
                          /\ new.made[a].shape.filter = shape.filter
    BY <2>1 DEF Common, Reaching
  <2>3. x \in shape.sensors /\ todo.t0[s] \in Nat
    BY <1>6, <1>7
  <2>4. CASE a \in ToSet(mBuffers)
    <3>1. PICK i \in 1 .. Len(mBuffers) : a = mBuffers[i]
      BY <2>4 DEF ToSet, CacheInv
    <3>2. a \in 1 .. Len(buffer)
      BY <3>1 DEF CacheInv
    <3>3. new.made[a] = buffer[a]
      BY <1>2, <1>4, <3>2 DEF TodoInv
    <3>4. buffer[a].shape.t0 \in Nat /\ buffer[a].shape.t1 \in Nat
      BY <3>2, BufferTypes DEF CacheInv
    <3>5. CASE i <= n
      <4>1. buffer[a].shape.t1 <= todo.t0[x]
        BY <2>2, <2>3, <3>1, <3>3, <3>5 DEF Reached, Concerns
      <4>2. buffer[a].shape.t0 <= buffer[a].shape.t1
        BY <3>2 DEF CacheInv
      <4> QED  BY <2>2, <2>3, <3>3, <3>4, <4>1, <4>2
    <3>6. CASE i > n
      <4>1. i \in n + 1 .. Len(mBuffers)
        BY <3>6
      <4>2. t0 <= buffer[a].shape.t0 /\ (close = TRUE => t0 < buffer[a].shape.t0)
        BY <3>1, <4>1 DEF Ahead
      <4> QED  BY SMTT(30), <1>8, <1>11, <2>3, <3>3, <3>4, <4>2
    <3> QED  BY <3>5, <3>6
  <2>5. CASE a \in Len(buffer) + 1 .. m
    <3>1. a \in Fresh(todo.made) /\ a \in 1 .. m /\ new.made[a] = todo.made[a]
      BY <1>2, <1>4, <2>5 DEF Fresh
    <3>2. todo.made[a].shape.t1 <= todo.t0[x]
      BY <2>2, <3>1 DEF Reached
    <3>3. todo.made[a].shape.t0 <= todo.made[a].shape.t1
      BY <3>1 DEF TodoInv, FreshOK
    <3>4. todo.made[a].shape.t0 \in Nat /\ todo.made[a].shape.t1 \in Nat
      BY <1>2, <3>1, BufferTypes DEF TodoType
    <3> QED  BY SMTT(30), <2>2, <2>3, <3>1, <3>2, <3>3, <3>4
  <2>6. CASE a \in m + 1 .. id - 1
    <3>1. a \in m + 1 .. k /\ a # id
      BY <1>2, <2>6
    <3>2. PICK y \in late : /\ new.made[a].shape.sensors = Reaching(todo, late, y)
                            /\ new.made[a].shape.t0 = todo.t0[y]
      BY <1>10, <3>1
    <3>3. new.made[a].shape.t0 = new.made[id].shape.t0
      BY <2>1, <2>2, <3>2 DEF Reaching
    <3>4. a = id
      BY <1>1, <3>1, <3>3 DEF Asked
    <3> QED  BY <3>1, <3>4
  <2>7. a \in ToSet(mBuffers) \/ a \in Len(buffer) + 1 .. m \/ a \in m + 1 .. id - 1
    BY <1>2
  <2> QED  BY <2>4, <2>5, <2>6, <2>7
<1>13. FreshOK(new.made, shape)
  <2> SUFFICES ASSUME NEW id \in Fresh(new.made)
               PROVE  /\ new.made[id].status = "asked" /\ new.made[id].mUseCount = 0
                      /\ new.made[id].data = NoData
                      /\ new.made[id].shape.t0 <= new.made[id].shape.t1
                      /\ new.made[id].shape.filter = shape.filter
                      /\ new.made[id].shape.sensors \subseteq shape.sensors
                      /\ \A a \in ToSet(mBuffers) \cup (Len(buffer) + 1 .. id - 1) :
                           Fits(new.made[a].shape, new.made[id].shape)
    BY DEF FreshOK
  <2>1. CASE id \in m + 1 .. k
    BY <1>6, <1>10, <1>11, <1>12, <2>1 DEF Reaching
  <2>2. CASE id \in Len(buffer) + 1 .. m
    <3>1. id \in Fresh(todo.made) /\ new.made[id] = todo.made[id]
      BY <1>2, <1>4, <2>2 DEF Fresh
    <3>2. ASSUME NEW a \in ToSet(mBuffers) \cup (Len(buffer) + 1 .. id - 1)
          PROVE  new.made[a] = todo.made[a]
      <4>1. a \in 1 .. m
        BY <1>2, <2>2 DEF CacheInv, ToSet
      <4> QED  BY <1>4, <4>1
    <3> QED  BY <3>1, <3>2 DEF TodoInv, FreshOK
  <2> QED  BY <1>2, <2>1, <2>2 DEF Fresh
<1>14. TodoInv(new, shape)
  <2>1. \A id \in 1 .. Len(buffer) : new.made[id] = buffer[id]
    BY <1>2, <1>4 DEF TodoInv
  <2>2. Fresh(new.made) \subseteq ToSet(new.shared)
    BY <1>2, <1>5 DEF TodoInv, Fresh
  <2>3. ToSet(new.shared) \subseteq Fresh(new.made) \cup ToSet(mBuffers)
    BY <1>2, <1>5 DEF TodoInv, Fresh
  <2>4. \A s \in shape.sensors : shape.t0 <= new.t0[s]
    BY <1>3, <1>7
  <2>5. Len(buffer) <= k
    BY <1>2
  <2> QED  BY <1>2, <1>13, <2>1, <2>2, <2>3, <2>4, <2>5 DEF TodoInv
<1>15. ASSUME NEW s \in shape.sensors, NEW t \in Nat, HasInstant(todo, shape, s, t)
       PROVE  HasInstant(new, shape, s, t)
  <2>1. PICK id \in ToSet(todo.shared) :
          LET b == todo.made[id].shape
          IN  s \in b.sensors /\ b.t0 <= t /\ t <= b.t1 /\ b.filter = shape.filter
    BY <1>15 DEF HasInstant
  <2>2. id \in 1 .. m
    BY <1>2 DEF TodoType, ToSet
  <2>3. id \in ToSet(new.shared) /\ new.made[id] = todo.made[id]
    BY <1>4, <1>5, <2>2
  <2> QED  BY <2>1, <2>3 DEF HasInstant
<1>16. ASSUME NEW s \in sensors, NEW t \in Nat, shape.t0 <= t, t < t0 \/ (close = TRUE /\ t = t0)
       PROVE  HasInstant(new, shape, s, t)
  <2>1. CASE t < todo.t0[s] \/ (s \in todo.closed /\ t = todo.t0[s])
    BY <1>15, <1>16, <2>1 DEF CoveredSoFar
  <2>2. CASE s \in late /\ todo.t0[s] <= t
    <3>1. PICK id \in m + 1 .. k :
            new.made[id] = NewBuffer(Reaching(todo, late, s), todo.t0[s], t0, shape.filter)
      BY <1>1, <2>2 DEF Asked
    <3>2. new.made[id].shape = [sensors |-> Reaching(todo, late, s), t0 |-> todo.t0[s],
                                t1 |-> t0, filter |-> shape.filter]
      BY <1>9, <2>2, <3>1
    <3>3. s \in Reaching(todo, late, s) /\ t <= t0 /\ id \in ToSet(new.shared)
      BY <1>5, <1>8, <1>16, <2>2 DEF Reaching
    <3> QED  BY <2>2, <3>2, <3>3 DEF HasInstant
  <2>3. CASE s \notin late
    <3>1. ~ (t0 > todo.t0[s]) /\ ~ (close /\ s \notin todo.closed /\ t0 = todo.t0[s])
      BY <2>3 DEF late, Late
    <3> QED  BY <1>7, <1>8, <1>16, <2>1, <3>1
  <2> QED  BY <1>7, <2>1, <2>2, <2>3
<1>17. ASSUME NEW id \in Fresh(new.made)
       PROVE  \/ id \in Fresh(todo.made) /\ new.made[id] = todo.made[id]
              \/ new.made[id].shape.t1 = t0 /\ new.made[id].shape.sensors \subseteq sensors
  <2>1. CASE id \in m + 1 .. k
    BY <1>6, <1>10, <2>1 DEF Reaching
  <2>2. CASE id \in Len(buffer) + 1 .. m
    BY <1>2, <1>4, <2>2 DEF Fresh
  <2> QED  BY <1>2, <2>1, <2>2 DEF Fresh
<1> QED  BY <1>3, <1>14, <1>15, <1>16, <1>17 DEF Kept, new

(* One turn of the loop. *)
LoopInv(todo, shape, n) ==
  TodoInv(todo, shape) /\ Reached(todo, shape, n) /\ CoveredSoFar(todo, shape)

(* The invariant of the loop holds before the first buffer ...             *)
LEMMA StartIs ==
  ASSUME NEW shape \in Shape, CacheInv
  PROVE  LoopInv(Start(shape), shape, 0)
<1> DEFINE todo == Start(shape)
<1>1. /\ todo.t0 = [s \in shape.sensors |-> shape.t0] /\ todo.closed = {}
      /\ todo.made = buffer /\ todo.shared = << >>
  BY DEF Start
<1>2. TodoType(todo, shape) /\ Len(buffer) \in Nat
  BY <1>1, ShapeTypes DEF TodoType, CacheInv
<1>3. Fresh(todo.made) = {} /\ ToSet(todo.shared) = {}
  BY <1>1, <1>2 DEF Fresh, ToSet
<1>4. shape.t0 \in Nat
  BY ShapeTypes
<1>5. TodoInv(todo, shape)
  BY <1>1, <1>2, <1>3, <1>4 DEF TodoInv, FreshOK
<1>6. Reached(todo, shape, 0)
  BY <1>1, <1>3 DEF Reached
<1>7. CoveredSoFar(todo, shape)
  BY <1>1, <1>4 DEF CoveredSoFar
<1> QED  BY <1>5, <1>6, <1>7 DEF LoopInv

(* ... is kept by each buffer that is looked at ...                        *)
LEMMA ShareKeeps ==
  ASSUME NEW shape \in Shape, shape.t0 <= shape.t1, NEW todo, NEW n \in 0 .. Len(mBuffers) - 1,
         CacheInv, LoopInv(todo, shape, n)
  PROVE  LoopInv(Share(todo, shape, mBuffers[n + 1]), shape, n + 1)
<1> DEFINE id == mBuffers[n + 1]
           b == buffer[id].shape
           both == shape.sensors \cap b.sensors
           asked == RequestBuffers(todo, shape, both, b.t0, b.t1, FALSE)
           new == [asked EXCEPT !.shared = Append(@, id)]
           skip == b.t1 < shape.t0 \/ b.filter # shape.filter \/ both = {}
<1>1. /\ Len(mBuffers) \in Nat /\ n \in 0 .. Len(mBuffers) /\ n + 1 \in 1 .. Len(mBuffers)
      /\ Len(buffer) \in Nat /\ id \in 1 .. Len(buffer) /\ id \in ToSet(mBuffers)
  BY DEF CacheInv, ToSet
<1>2. /\ b \in Shape /\ b.t0 \in Nat /\ b.t1 \in Nat /\ b.t0 \in Times /\ b.t1 \in Times
      /\ b.t0 <= b.t1
  BY <1>1, BufferTypes DEF CacheInv
<1>3. Share(todo, shape, id) = IF skip THEN todo ELSE new
  BY DEF Share
<1>4. shape.t0 \in Nat /\ shape.t1 \in Nat
  BY ShapeTypes
<1>5. ASSUME NEW s \in shape.sensors
      PROVE  todo.t0[s] \in Nat /\ shape.t0 <= todo.t0[s]
  BY CacheAssumption DEF LoopInv, TodoInv, TodoType
<1>6. ASSUME NEW i \in 1 .. n + 1, i \notin 1 .. n PROVE i = n + 1
  BY <1>1, <1>6
<1>7. CASE skip
  <2> HIDE DEF new
  <2>1. Reached(todo, shape, n + 1)
    <3>1. ASSUME NEW i \in 1 .. n + 1, NEW s \in shape.sensors,
                 Concerns(buffer[mBuffers[i]].shape, shape, s)
          PROVE  buffer[mBuffers[i]].shape.t1 <= todo.t0[s]
      <4>1. CASE i \in 1 .. n
        BY <3>1, <4>1 DEF LoopInv, Reached
      <4>2. CASE i \notin 1 .. n
        <5>1. i = n + 1
          BY <1>6, <4>2
        <5>2. b.t1 < shape.t0
          BY <1>7, <3>1, <5>1 DEF Concerns
        <5> QED  BY <1>2, <1>4, <1>5, <5>1, <5>2
      <4> QED  BY <4>1, <4>2
    <3>2. \A s \in shape.sensors :
            \/ todo.t0[s] = shape.t0
            \/ \E i \in 1 .. n + 1 : /\ Concerns(buffer[mBuffers[i]].shape, shape, s)
                                    /\ todo.t0[s] = buffer[mBuffers[i]].shape.t1
      <4>1. 1 .. n \subseteq 1 .. n + 1
        BY <1>1
      <4> QED  BY <4>1 DEF LoopInv, Reached
    <3> QED  BY <3>1, <3>2 DEF LoopInv, Reached
  <2> QED  BY <1>3, <1>7, <2>1 DEF LoopInv
<1>8. CASE ~skip
  <2>1. both \in SUBSET shape.sensors /\ shape.t0 <= b.t1 /\ b.filter = shape.filter
    BY <1>2, <1>4, <1>8
  <2>2. ASSUME NEW i \in n + 1 .. Len(mBuffers)
        PROVE  b.t0 <= buffer[mBuffers[i]].shape.t0
    <3>1. CASE i = n + 1
      BY <1>2, <3>1
    <3>2. CASE n + 1 < i
      <4>1. i \in 1 .. Len(mBuffers)
        BY <1>1
      <4> QED  BY <1>1, <3>2, <4>1 DEF CacheInv, Ordered
    <3> QED  BY <1>1, <3>1, <3>2
  <2> HIDE DEF b, both, skip, new
  <2>3. /\ TodoInv(asked, shape)
        /\ \A s \in shape.sensors : asked.t0[s] = IF s \in both THEN b.t1 ELSE todo.t0[s]
        /\ asked.closed = todo.closed \cup both
        /\ \A s \in shape.sensors : \A t \in Nat :
             HasInstant(todo, shape, s, t) => HasInstant(asked, shape, s, t)
        /\ \A s \in both : \A t \in Nat :
             shape.t0 <= t /\ t < b.t0 => HasInstant(asked, shape, s, t)
        /\ \A x \in Fresh(asked.made) :
             \/ x \in Fresh(todo.made) /\ asked.made[x] = todo.made[x]
             \/ asked.made[x].shape.t1 = b.t0 /\ asked.made[x].shape.sensors \subseteq both
    <3>1. TodoInv(todo, shape) /\ Reached(todo, shape, n) /\ CoveredSoFar(todo, shape)
      BY DEF LoopInv
    <3>2. Ahead(n, b.t0, FALSE)
      BY <2>2 DEF Ahead
    <3>3. Kept(todo, asked, shape, both, b.t0, b.t1, FALSE)
      BY <1>1, <1>2, <2>1, <3>1, <3>2, RequestKeeps
    <3> QED  BY <3>3 DEF Kept
  <2> HIDE DEF asked
  <2>4. /\ new.t0 = asked.t0 /\ new.closed = asked.closed /\ new.made = asked.made
        /\ new.shared = Append(asked.shared, id)
    <3>1. asked = [t0 |-> asked.t0, closed |-> asked.closed, made |-> asked.made,
                   shared |-> asked.shared]
      BY DEF asked, RequestBuffers
    <3> QED  BY <3>1 DEF new
  <2>5. /\ asked.shared \in Seq(1 .. Len(asked.made)) /\ Len(buffer) <= Len(asked.made)
        /\ asked.made \in Seq(Buffer) /\ asked.made[id] = buffer[id] /\ id \in 1 .. Len(asked.made)
    BY <1>1, <2>3 DEF TodoInv, TodoType
  <2>6. new.shared \in Seq(1 .. Len(new.made)) /\ ToSet(new.shared) = ToSet(asked.shared) \cup {id}
    <3> DEFINE D == 1 .. Len(asked.made)
    <3>1. asked.shared \in Seq(D) /\ id \in D
      BY <2>5
    <3> HIDE DEF D, id
    <3>2. /\ Append(asked.shared, id) \in Seq(D)
          /\ ToSet(Append(asked.shared, id)) = ToSet(asked.shared) \cup {id}
      BY ONLY <3>1, AppendIs
    <3> QED  BY <2>4, <3>2 DEF D
  <2>7. TodoInv(new, shape)
    BY <1>1, <2>3, <2>4, <2>6 DEF TodoInv, TodoType
  <2>8. ASSUME NEW s \in both PROVE todo.t0[s] <= b.t1
    <3>1. s \in shape.sensors
      BY <2>1
    <3>2. CASE todo.t0[s] = shape.t0
      BY <2>1, <3>2
    <3>3. ASSUME NEW i \in 1 .. n, Concerns(buffer[mBuffers[i]].shape, shape, s),
                 todo.t0[s] = buffer[mBuffers[i]].shape.t1
          PROVE  todo.t0[s] <= b.t1
      <4>1. i \in 1 .. Len(mBuffers) /\ i < n + 1 /\ mBuffers[i] \in 1 .. Len(buffer)
        BY SMTT(30), <1>1 DEF CacheInv
      <4>2. Common(buffer[mBuffers[i]].shape, b)
        BY <2>1, <3>3 DEF Common, Concerns, both
      <4>3. buffer[mBuffers[i]].shape.t1 <= b.t0
        BY <1>1, <4>1, <4>2 DEF CacheInv, Ordered, b
      <4>4. buffer[mBuffers[i]].shape.t1 \in Nat
        BY <4>1, BufferTypes DEF CacheInv
      <4> QED  BY <1>2, <3>3, <4>3, <4>4
    <3> QED  BY <3>1, <3>2, <3>3 DEF LoopInv, Reached
  <2>9. ASSUME NEW s \in shape.sensors PROVE todo.t0[s] <= new.t0[s] /\ new.t0[s] \in Nat
    BY <1>2, <1>5, <2>3, <2>4, <2>8
  <2>10. Reached(new, shape, n + 1)
    <3>1. ASSUME NEW i \in 1 .. n + 1, NEW s \in shape.sensors,
                 Concerns(buffer[mBuffers[i]].shape, shape, s)
          PROVE  buffer[mBuffers[i]].shape.t1 <= new.t0[s]
      <4>1. CASE i \in 1 .. n
        <5>1. buffer[mBuffers[i]].shape.t1 <= todo.t0[s]
          BY <3>1, <4>1 DEF LoopInv, Reached
        <5>2. buffer[mBuffers[i]].shape.t1 \in Nat
          <6>1. i \in 1 .. Len(mBuffers)
            BY <1>1, <4>1
          <6>2. mBuffers[i] \in 1 .. Len(buffer)
            BY <6>1 DEF CacheInv
          <6> QED  BY <6>2, BufferTypes DEF CacheInv
        <5> QED  BY <1>5, <2>9, <5>1, <5>2
      <4>2. CASE i \notin 1 .. n
        <5>1. i = n + 1
          BY <1>6, <4>2
        <5>2. s \in both
          BY <3>1, <5>1 DEF Concerns, both, b
        <5>3. new.t0[s] = b.t1
          BY <2>3, <2>4, <5>2
        <5> QED  BY <1>2, <5>1, <5>3 DEF b
      <4> QED  BY <4>1, <4>2
    <3>2. ASSUME NEW x \in Fresh(new.made), NEW s \in new.made[x].shape.sensors
          PROVE  new.made[x].shape.t1 <= new.t0[s]
      <4>1. s \in shape.sensors
        BY <2>7 DEF TodoInv, FreshOK
      <4>2. CASE x \in Fresh(todo.made) /\ asked.made[x] = todo.made[x]
        <5>1. todo.made[x].shape.t1 <= todo.t0[s]
          BY <2>4, <3>2, <4>2 DEF LoopInv, Reached
        <5>2. todo.made[x].shape.t1 \in Nat
          BY <1>1, <4>2, BufferTypes DEF LoopInv, TodoInv, TodoType, Fresh
        <5> QED  BY <1>5, <2>4, <2>9, <4>1, <4>2, <5>1, <5>2
      <4>3. CASE asked.made[x].shape.t1 = b.t0 /\ asked.made[x].shape.sensors \subseteq both
        <5>1. s \in both
          BY <2>4, <3>2, <4>3
        <5> QED  BY <1>2, <2>3, <2>4, <4>1, <4>3, <5>1
      <4> QED  BY <2>3, <2>4, <4>2, <4>3
    <3>3. ASSUME NEW s \in shape.sensors
          PROVE  \/ new.t0[s] = shape.t0
                 \/ \E i \in 1 .. n + 1 : /\ Concerns(buffer[mBuffers[i]].shape, shape, s)
                                         /\ new.t0[s] = buffer[mBuffers[i]].shape.t1
      <4>1. CASE s \in both
        <5>1. n + 1 \in 1 .. n + 1 /\ Concerns(buffer[mBuffers[n + 1]].shape, shape, s)
          BY <1>1, <2>1, <4>1 DEF Concerns, both, b
        <5>2. new.t0[s] = buffer[mBuffers[n + 1]].shape.t1
          BY <2>3, <2>4, <4>1 DEF b
        <5> QED  BY <5>1, <5>2
      <4>2. CASE s \notin both
        <5>1. new.t0[s] = todo.t0[s] /\ 1 .. n \subseteq 1 .. n + 1
          BY <1>1, <2>3, <2>4, <4>2
        <5> QED  BY <5>1 DEF LoopInv, Reached
      <4> QED  BY <4>1, <4>2
    <3> QED  BY <3>1, <3>2, <3>3 DEF Reached
  <2>11. ASSUME NEW s \in shape.sensors, NEW t \in Nat, HasInstant(asked, shape, s, t)
         PROVE  HasInstant(new, shape, s, t)
    BY <2>4, <2>6, <2>11 DEF HasInstant
  <2>12. CoveredSoFar(new, shape)
    <3> SUFFICES ASSUME NEW s \in shape.sensors, NEW t \in Nat, shape.t0 <= t,
                        t < new.t0[s] \/ (s \in new.closed /\ t = new.t0[s])
                 PROVE  HasInstant(new, shape, s, t)
      BY DEF CoveredSoFar
    <3>1. CASE s \notin both
      <4>1. t < todo.t0[s] \/ (s \in todo.closed /\ t = todo.t0[s])
        BY <2>3, <2>4, <3>1
      <4>2. HasInstant(todo, shape, s, t)
        BY <4>1 DEF LoopInv, CoveredSoFar
      <4> QED  BY <2>3, <2>11, <4>2
    <3>2. CASE s \in both /\ t < b.t0
      BY <2>3, <2>11, <3>2
    <3>3. CASE s \in both /\ b.t0 <= t
      <4>1. t <= b.t1
        BY <1>2, <2>3, <2>4, <3>3
      <4>2. id \in ToSet(new.shared) /\ new.made[id].shape = b /\ s \in b.sensors
        BY <2>4, <2>5, <2>6, <3>3 DEF b, both
      <4> QED  BY <2>1, <3>3, <4>1, <4>2 DEF HasInstant
    <3> QED  BY <1>2, <3>1, <3>2, <3>3
  <2>13. Share(todo, shape, id) = new
    BY <1>3, <1>8
  <2> QED  BY <2>7, <2>10, <2>12, <2>13 DEF LoopInv
<1> QED  BY <1>7, <1>8

(* The buffers it looks at are those that begin until the end. *)
LEMMA VisitedIs ==
  ASSUME NEW shape \in Shape, CacheInv
  PROVE  /\ Len(Visited(shape)) \in 0 .. Len(mBuffers)
         /\ \A i \in 1 .. Len(Visited(shape)) : Visited(shape)[i] = mBuffers[i]
         /\ Ahead(Len(Visited(shape)), shape.t1, TRUE)
<1> DEFINE p == FirstAfter(mBuffers, buffer, shape.t1)
<1>1. /\ Len(mBuffers) \in Nat /\ Len(buffer) \in Nat /\ shape.t1 \in Nat
      /\ \A i \in 1 .. Len(mBuffers) : mBuffers[i] \in 1 .. Len(buffer)
  BY ShapeTypes DEF CacheInv
<1>2. \A i \in 1 .. Len(mBuffers) : buffer[mBuffers[i]].shape.t0 \in Nat
  BY <1>1, BufferTypes DEF CacheInv
<1>3. /\ p \in 1 .. Len(mBuffers) + 1
      /\ p <= Len(mBuffers) => buffer[mBuffers[p]].shape.t0 > shape.t1
  BY <1>1, <1>2, FirstAfterIs
<1> HIDE DEF p
<1>4. /\ Len(SubSeq(mBuffers, 1, p - 1)) = p - 1
      /\ \A i \in 1 .. p - 1 : SubSeq(mBuffers, 1, p - 1)[i] = mBuffers[i]
  BY <1>3 DEF CacheInv
<1>5. Visited(shape) = SubSeq(mBuffers, 1, p - 1)
  BY DEF Visited, p
<1>6. ASSUME NEW i \in p .. Len(mBuffers) PROVE shape.t1 < buffer[mBuffers[i]].shape.t0
  <2>1. i \in 1 .. Len(mBuffers) /\ p \in 1 .. Len(mBuffers)
    BY <1>1, <1>3
  <2>2. p < i => buffer[mBuffers[p]].shape.t0 <= buffer[mBuffers[i]].shape.t0
    BY <2>1 DEF CacheInv, Ordered
  <2> QED  BY <1>1, <1>2, <1>3, <2>1, <2>2
<1>7. ASSUME NEW i \in (p - 1) + 1 .. Len(mBuffers)
      PROVE  /\ shape.t1 <= buffer[mBuffers[i]].shape.t0
             /\ shape.t1 < buffer[mBuffers[i]].shape.t0
  <2>1. i \in p .. Len(mBuffers) /\ i \in 1 .. Len(mBuffers)
    BY <1>1, <1>3
  <2> QED  BY <1>1, <1>2, <1>6, <2>1
<1>8. Ahead(p - 1, shape.t1, TRUE)
  BY <1>7 DEF Ahead
<1>9. Len(Visited(shape)) = p - 1 /\ p - 1 \in 0 .. Len(mBuffers)
  BY <1>1, <1>3, <1>4, <1>5
<1>10. \A i \in 1 .. p - 1 : Visited(shape)[i] = mBuffers[i]
  BY <1>4, <1>5
<1> QED  BY <1>8, <1>9, <1>10

(* ... and so holds after all of them.                                     *)
LEMMA FoundKeeps ==
  ASSUME NEW shape \in Shape, shape.t0 <= shape.t1, CacheInv
  PROVE  LoopInv(Found(shape)[Len(Visited(shape))], shape, Len(Visited(shape)))
<1> DEFINE v == Len(Visited(shape))
           S == {n \in Nat : n <= v => LoopInv(Found(shape)[n], shape, n)}
<1>1. v \in 0 .. Len(mBuffers) /\ v \in Nat /\ Len(mBuffers) \in Nat
  <2>1. v \in 0 .. Len(mBuffers)
    BY VisitedIs
  <2>2. Len(mBuffers) \in Nat
    BY DEF CacheInv
  <2> QED  BY <2>1, <2>2
<1>2. \A n \in 0 .. v : Found(shape)[n] =
        IF n = 0 THEN Start(shape) ELSE Share(Found(shape)[n - 1], shape, Visited(shape)[n])
  BY <1>1, FoundIs
<1>3. 0 \in S
  <2>1. Found(shape)[0] = Start(shape)
    BY <1>1, <1>2
  <2> QED  BY <2>1, StartIs
<1>4. ASSUME NEW n \in S PROVE n + 1 \in S
  <2> SUFFICES ASSUME n + 1 <= v PROVE LoopInv(Found(shape)[n + 1], shape, n + 1)
    OBVIOUS
  <2>1. /\ n \in 0 .. Len(mBuffers) - 1 /\ n + 1 \in 0 .. v /\ n + 1 \in 1 .. v /\ n + 1 # 0
        /\ (n + 1) - 1 = n
    BY <1>1
  <2>2. LoopInv(Found(shape)[n], shape, n)
    BY <1>1
  <2>3. LoopInv(Share(Found(shape)[n], shape, mBuffers[n + 1]), shape, n + 1)
    BY <2>1, <2>2, ShareKeeps
  <2>4. Found(shape)[n + 1] = Share(Found(shape)[n], shape, Visited(shape)[n + 1])
    BY <1>2, <2>1
  <2>5. Visited(shape)[n + 1] = mBuffers[n + 1]
    BY <2>1, VisitedIs
  <2> QED  BY <2>3, <2>4, <2>5
<1>5. v \in S
  <2>1. S \in SUBSET Nat
    OBVIOUS
  <2> HIDE DEF S, v
  <2> QED  BY <1>1, <1>3, <1>4, <2>1, AllNumbers
<1> QED  BY <1>1, <1>5

(* What postRequest has when it is done: buffers that cover the request,   *)
(* of which the new ones fit to the others.                                *)
LEMMA TodoIs ==
  ASSUME NEW shape \in Shape, shape.t0 <= shape.t1, CacheInv
  PROVE  /\ TodoInv(Todo(shape), shape)
         /\ \A s \in shape.sensors : \A t \in shape.t0 .. shape.t1 :
              HasInstant(Todo(shape), shape, s, t)
<1> DEFINE v == Len(Visited(shape))
           todo == Found(shape)[v]
<1>1. LoopInv(todo, shape, v)
  BY FoundKeeps
<1>2. v \in 0 .. Len(mBuffers) /\ Ahead(v, shape.t1, TRUE)
  BY VisitedIs
<1>3. shape.t0 \in Nat /\ shape.t1 \in Nat /\ shape.t1 \in Times
  BY ShapeTypes
<1>4. Todo(shape) = RequestBuffers(todo, shape, shape.sensors, shape.t1, shape.t1, TRUE)
  BY DEF Todo
<1> HIDE DEF todo, v
<1>5. Kept(todo, Todo(shape), shape, shape.sensors, shape.t1, shape.t1, TRUE)
  <2>1. TodoInv(todo, shape) /\ Reached(todo, shape, v) /\ CoveredSoFar(todo, shape)
    BY <1>1 DEF LoopInv
  <2>2. shape.sensors \in SUBSET shape.sensors /\ TRUE \in BOOLEAN
    OBVIOUS
  <2> QED  BY <1>2, <1>3, <1>4, <2>1, <2>2, RequestKeeps
<1>6. ASSUME NEW s \in shape.sensors, NEW t \in shape.t0 .. shape.t1
      PROVE  HasInstant(Todo(shape), shape, s, t)
  <2>1. t \in Nat /\ shape.t0 <= t /\ (t < shape.t1 \/ t = shape.t1)
    BY <1>3
  <2> QED  BY <1>5, <2>1 DEF Kept
<1> QED  BY <1>5, <1>6 DEF Kept

-----------------------------------------------------------------------------
(* CachingAccessPrivate::create and clean keep the list in order. *)
LEMMA InsertIs ==
  ASSUME NEW made \in Seq(Buffer), NEW D, D \subseteq 1 .. Len(made),
         NEW list \in Seq(D), NEW id \in D, Ordered(list, made),
         made[id].shape.t0 <= made[id].shape.t1,
         \A a \in ToSet(list) : Fits(made[a].shape, made[id].shape)
  PROVE  /\ Insert(list, made, id) \in Seq(D)
         /\ ToSet(Insert(list, made, id)) = ToSet(list) \cup {id}
         /\ Ordered(Insert(list, made, id), made)
<1> DEFINE m == made[id].shape
           p == FirstAfter(list, made, m.t0)
           w == Insert(list, made, id)
           n == Len(list)
           B(i) == made[list[i]].shape
<1>1. n \in Nat /\ DOMAIN list = 1 .. n /\ \A i \in 1 .. n : list[i] \in D /\ list[i] \in ToSet(list)
  BY DEF ToSet
<1>2. ASSUME NEW i \in 1 .. n PROVE B(i).t0 \in Nat /\ B(i).t1 \in Nat
  <2>1. list[i] \in 1 .. Len(made)
    BY <1>1
  <2> QED  BY <2>1, BufferTypes
<1>3. m.t0 \in Nat /\ m.t1 \in Nat
  BY BufferTypes
<1>4. /\ p \in 1 .. n + 1
      /\ \A i \in 1 .. p - 1 : B(i).t0 <= m.t0
      /\ p <= n => B(p).t0 > m.t0
  BY <1>1, <1>2, <1>3, FirstAfterIs
<1> HIDE DEF p
<1>5. /\ w \in Seq(D) /\ Len(w) = n + 1
      /\ \A k \in 1 .. n + 1 : w[k] = IF k < p THEN list[k] ELSE IF k = p THEN id ELSE list[k - 1]
  <2>1. w = InsertAt(list, p, id)
    BY DEF Insert, p
  <2>2. list \in Seq(D) /\ id \in D /\ p \in 1 .. Len(list) + 1
    BY <1>4
  <2>3. /\ InsertAt(list, p, id) \in Seq(D)
        /\ Len(InsertAt(list, p, id)) = Len(list) + 1
        /\ \A k \in 1 .. Len(list) + 1 :
             InsertAt(list, p, id)[k] =
               IF k < p THEN list[k] ELSE IF k = p THEN id ELSE list[k - 1]
    BY ONLY <2>2, InsertAtIs
  <2> HIDE DEF w
  <2> QED  BY <2>1, <2>3
<1> HIDE DEF w, n
<1>6. ToSet(w) = {w[k] : k \in 1 .. n + 1} /\ ToSet(list) = {list[k] : k \in 1 .. n}
  <2>1. DOMAIN w = 1 .. n + 1
    BY <1>1, <1>5
  <2> QED  BY <1>1, <2>1 DEF ToSet
<1>7. ASSUME NEW k \in 1 .. n + 1 PROVE w[k] = id \/ \E i \in 1 .. n : w[k] = list[i]
  <2>1. k < p \/ k = p \/ (k > p /\ k - 1 \in 1 .. n)
    BY <1>1, <1>4
  <2>2. k < p => k \in 1 .. n
    BY <1>1, <1>4
  <2> QED  BY <1>5, <2>1, <2>2
<1>8. ASSUME NEW i \in 1 .. n PROVE \E k \in 1 .. n + 1 : w[k] = list[i]
  <2>1. CASE i < p
    <3>1. i \in 1 .. n + 1 /\ w[i] = list[i]
      BY <1>1, <1>5, <2>1
    <3> QED  BY <3>1
  <2>2. CASE i >= p
    <3>1. i + 1 \in 1 .. n + 1 /\ ~(i + 1 < p) /\ i + 1 # p /\ (i + 1) - 1 = i
      BY <1>1, <1>4, <2>2
    <3>2. w[i + 1] = list[i]
      BY <1>5, <3>1
    <3> QED  BY <3>1, <3>2
  <2> QED  BY <1>1, <1>4, <2>1, <2>2
<1>9. \E k \in 1 .. n + 1 : w[k] = id
  BY <1>4, <1>5
<1>10. ToSet(w) = ToSet(list) \cup {id}
  BY <1>6, <1>7, <1>8, <1>9
<1>11. ASSUME NEW i \in 1 .. n + 1, NEW k \in 1 .. n + 1, i < k
       PROVE  LET a == made[w[i]].shape
                  b == made[w[k]].shape
              IN  a.t0 <= b.t0 /\ (Common(a, b) => a.t1 <= b.t0)
  <2>1. \A x, y \in 1 .. n : x < y => B(x).t0 <= B(y).t0 /\ (Common(B(x), B(y)) => B(x).t1 <= B(y).t0)
    BY DEF Ordered, n
  <2>2. \A x \in 1 .. n : Fits(B(x), m)
    BY <1>1
  <2> HIDE DEF B, m
  <2> DEFINE In(j) == IF j < p THEN list[j] ELSE IF j = p THEN id ELSE list[j - 1]
  <2>a. n \in Nat /\ p \in 1 .. n + 1 /\ i \in 1 .. n + 1 /\ k \in 1 .. n + 1 /\ i < k
    BY <1>1, <1>4, <1>11
  <2>b. w[i] = In(i) /\ w[k] = In(k)
    BY <1>5
  <2>3. CASE k < p
    <3>1. i \in 1 .. n /\ k \in 1 .. n /\ i < p
      BY ONLY <2>3, <2>a
    <3>2. w[i] = list[i] /\ w[k] = list[k]
      BY <2>3, <2>b, <3>1
    <3> QED  BY <1>11, <2>1, <3>1, <3>2 DEF B
  <2>4. CASE k = p
    <3>0. i \in 1 .. n /\ i < p /\ i \in 1 .. p - 1
      BY ONLY <2>4, <2>a
    <3>1. i \in 1 .. n /\ w[i] = list[i] /\ w[k] = id /\ B(i).t0 <= m.t0
      BY <1>4, <2>4, <2>b, <3>0 DEF B
    <3>2. Common(B(i), m) => B(i).t1 <= m.t0
      BY <2>2, <3>1 DEF Fits
    <3> QED  BY <3>1, <3>2 DEF B, m
  <2>5. CASE i < p /\ p < k
    <3>1. i \in 1 .. n /\ k - 1 \in 1 .. n /\ i < k - 1 /\ ~ (k < p) /\ k # p
      BY ONLY <2>5, <2>a
    <3>2. w[i] = list[i] /\ w[k] = list[k - 1]
      BY <2>5, <2>b, <3>1
    <3> QED  BY <2>1, <3>1, <3>2 DEF B
  <2>6. CASE i = p
    <3>0. k - 1 \in 1 .. n /\ p \in 1 .. n /\ p <= k - 1 /\ ~ (k < p) /\ k # p /\ ~ (i < p)
      BY ONLY <2>6, <2>a
    <3>1. k - 1 \in 1 .. n /\ p \in 1 .. n /\ p <= k - 1 /\ w[i] = id /\ w[k] = list[k - 1]
      BY <2>6, <2>b, <3>0
    <3>2. p < k - 1 => B(p).t0 <= B(k - 1).t0
      BY <2>1, <3>1
    <3>3. m.t0 < B(p).t0
      BY <1>1, <1>4, <3>1 DEF B
    <3>4. B(p).t0 \in Nat /\ B(k - 1).t0 \in Nat /\ B(k - 1).t1 \in Nat
      BY <1>2, <3>1
    <3>5. m.t0 < B(k - 1).t0
      BY SMTT(30), <1>3, <1>4, <3>1, <3>2, <3>3, <3>4
    <3>6. Common(m, B(k - 1)) => m.t1 <= B(k - 1).t0
      <4>1. Common(m, B(k - 1)) => Common(B(k - 1), m)
        BY DEF Common
      <4>2. ~ (B(k - 1).t0 <= m.t0)
        BY <1>3, <3>4, <3>5
      <4> QED  BY <2>2, <3>1, <4>1, <4>2 DEF Fits
    <3>8. m.t0 <= B(k - 1).t0
      BY <1>3, <3>4, <3>5
    <3>9. made[w[i]].shape = m /\ made[w[k]].shape = B(k - 1)
      BY <3>1 DEF B, m
    <3> QED  BY <3>6, <3>8, <3>9
  <2>7. CASE i > p
    <3>1. /\ i - 1 \in 1 .. n /\ k - 1 \in 1 .. n /\ i - 1 < k - 1
          /\ ~ (i < p) /\ i # p /\ ~ (k < p) /\ k # p
      BY ONLY <2>7, <2>a
    <3>2. w[i] = list[i - 1] /\ w[k] = list[k - 1]
      BY <2>b, <3>1
    <3> QED  BY <2>1, <3>1, <3>2 DEF B
  <2> QED  BY <1>1, <1>4, <1>11, <2>3, <2>4, <2>5, <2>6, <2>7
<1>12. Ordered(w, made)
  BY <1>5, <1>11 DEF Ordered
<1> QED  BY <1>5, <1>10, <1>12 DEF w

(* CachingAccessPrivate::create keeps the list in order, one new buffer    *)
(* after the other.                                                        *)
LEMMA ListedKeeps ==
  ASSUME NEW shape \in Shape, NEW todo, CacheInv, TodoInv(todo, shape)
  PROVE  LET list == Listed(todo.made)[Len(todo.made)]
         IN  /\ list \in Seq(1 .. Len(todo.made))
             /\ ToSet(list) = ToSet(mBuffers) \cup Fresh(todo.made)
             /\ Ordered(list, todo.made)
<1> DEFINE made == todo.made
           a == Len(buffer)
           b == Len(made)
           Good(list, n) == /\ list \in Seq(1 .. n)
                            /\ ToSet(list) = ToSet(mBuffers) \cup a + 1 .. n
                            /\ Ordered(list, made)
           S == {j \in Nat : a + j <= b => Good(Listed(made)[a + j], a + j)}
<1>1. /\ made \in Seq(Buffer) /\ a \in Nat /\ b \in Nat /\ a <= b
      /\ \A id \in 1 .. a : made[id] = buffer[id]
  BY DEF TodoInv, TodoType, CacheInv
<1>2. \A n \in a .. b : Listed(made)[n] =
        IF n = a THEN mBuffers ELSE Insert(Listed(made)[n - 1], made, n)
  BY <1>1, ListedIs
<1>3. 0 \in S
  <2>1. Listed(made)[a] = mBuffers
    BY <1>1, <1>2
  <2>2. mBuffers \in Seq(1 .. a) /\ a + 1 .. a = {}
    BY <1>1 DEF CacheInv
  <2>3. Ordered(mBuffers, made)
    <3>1. \A i \in 1 .. Len(mBuffers) : made[mBuffers[i]] = buffer[mBuffers[i]]
      BY SMTT(30), <1>1 DEF CacheInv
    <3> QED  BY <3>1 DEF CacheInv, Ordered
  <2>4. Good(mBuffers, a)
    BY <2>2, <2>3
  <2>5. a + 0 = a
    BY <1>1
  <2> HIDE DEF Good, made, a
  <2> QED  BY <2>1, <2>4, <2>5
<1>4. ASSUME NEW j \in S PROVE j + 1 \in S
  <2> SUFFICES ASSUME a + (j + 1) <= b PROVE Good(Listed(made)[a + (j + 1)], a + (j + 1))
    OBVIOUS
  <2> DEFINE n == a + (j + 1)
             list == Listed(made)[a + j]
  <2>1. /\ j \in Nat /\ n \in 1 .. b /\ n \in Fresh(made) /\ n \in a .. b /\ n # a /\ n - 1 = a + j
        /\ a + j <= b
    BY <1>1 DEF Fresh
  <2>2. Good(list, a + j)
    BY <2>1
  <2>3. Listed(made)[n] = Insert(list, made, n)
    BY <1>2, <2>1
  <2> HIDE DEF list, n
  <2> DEFINE D == 1 .. n
  <2>4. list \in Seq(D) /\ n \in D /\ D \subseteq 1 .. b
    <3>1. 1 .. a + j \subseteq D
      BY <1>1, <2>1
    <3>2. list \in Seq(1 .. a + j)
      BY <2>2
    <3> QED  BY <1>1, <2>1, <3>1, <3>2
  <2>5. ASSUME NEW x \in ToSet(list) PROVE Fits(made[x].shape, made[n].shape)
    <3>1. x \in ToSet(mBuffers) \cup a + 1 .. n - 1
      BY <2>1, <2>2, <2>5
    <3> QED  BY <2>1, <3>1 DEF TodoInv, FreshOK
  <2>6. made[n].shape.t0 <= made[n].shape.t1
    BY <2>1 DEF TodoInv, FreshOK
  <2>7. Ordered(list, made)
    BY <2>2
  <2> HIDE DEF D, made
  <2>8. /\ Insert(list, made, n) \in Seq(D)
        /\ ToSet(Insert(list, made, n)) = ToSet(list) \cup {n}
        /\ Ordered(Insert(list, made, n), made)
    BY <1>1, <2>4, <2>5, <2>6, <2>7, InsertIs
  <2>9. ToSet(Insert(list, made, n)) = ToSet(mBuffers) \cup a + 1 .. n
    <3>1. ToSet(list) = ToSet(mBuffers) \cup a + 1 .. a + j
      BY <2>2
    <3>2. a + 1 .. n = (a + 1 .. a + j) \cup {n}
      BY <1>1, <2>1
    <3> QED  BY <2>8, <3>1, <3>2
  <2>10. Good(Insert(list, made, n), n)
    BY <2>8, <2>9 DEF D
  <2> QED  BY <2>3, <2>10 DEF n
<1>5. b - a \in S
  <2>1. S \in SUBSET Nat /\ b - a \in Nat
    BY <1>1
  <2> HIDE DEF S, a, b
  <2> QED  BY <1>3, <1>4, <2>1, AllNumbers
<1>6. a + (b - a) = b
  BY <1>1
<1>7. Good(Listed(made)[b], b)
  <2> HIDE DEF Good, made, a, b
  <2> QED  BY <1>1, <1>5, <1>6
<1> QED  BY <1>7 DEF Fresh

-----------------------------------------------------------------------------
(* The inductive invariant. *)
Tag == [state : {"new", "posted", "dropped"}, shape : Shape \cup {NoShape},
        mBackendBuffers : Seq(Nat), mCountIncomplete : Int, mCountFailed : Int]

Failed(made, ids) == {id \in ids : made[id].status = "failed"}

Spanned(t, made) ==
  \A s \in t.shape.sensors : \A i \in t.shape.t0 .. t.shape.t1 :
    \E id \in ToSet(t.mBackendBuffers) :
      LET b == made[id].shape
      IN  s \in b.sensors /\ b.t0 <= i /\ i <= b.t1 /\ b.filter = t.shape.filter

(* The tag of a request knows how its buffers are, and has said so. *)
RequestOK(t, said, made) ==
  LET ids == ToSet(t.mBackendBuffers)
  IN  /\ t.mBackendBuffers \in Seq(1 .. Len(made))
      /\ Spanned(t, made)
      /\ t.mCountIncomplete = Cardinality(Open(made, ids))
      /\ t.mCountFailed = Cardinality(Failed(made, ids))
      /\ said = IF Open(made, ids) # {} THEN << >> ELSE << Failed(made, ids) # {} >>

TypeInv ==
  /\ tag \in [Request -> Tag] /\ answers \in [Request -> Seq(BOOLEAN)] /\ db \in Data
  /\ IsFiniteSet(Posted)
  /\ \A r \in Request : tag[r].state = "new" => answers[r] = << >>

CountInv == \A id \in 1 .. Len(buffer) : buffer[id].mUseCount = Cardinality(Users(id))

IInv ==
  /\ CacheInv /\ TypeInv /\ CountInv
  /\ \A r \in Posted : RequestOK(tag[r], answers[r], buffer)

-----------------------------------------------------------------------------
(* Lemmas about the parts of the invariant. *)
LEMMA RemainingIs ==
  ASSUME NEW old, Len(mBuffers) \in Nat
  PROVE  Remaining(old) =
           [n \in 0 .. Len(mBuffers) |->
              IF n = 0 THEN << >>
              ELSE IF mBuffers[n] \in old THEN Remaining(old)[n - 1]
                                          ELSE Append(Remaining(old)[n - 1], mBuffers[n])]
<1> DEFINE After(f, n) == IF n = 0 THEN << >>
                          ELSE IF mBuffers[n] \in old THEN f[n - 1] ELSE Append(f[n - 1], mBuffers[n])
           Solves(f, m) == f = [n \in 0 .. m |-> After(f, n)]
           S == {m \in Nat : \E f : Solves(f, m)}
<1>1. 0 \in S
  <2>1. Solves([n \in 0 .. 0 |-> << >>], 0)
    OBVIOUS
  <2> QED  BY <2>1
<1>2. ASSUME NEW m \in S PROVE m + 1 \in S
  <2>1. PICK f : Solves(f, m)
    OBVIOUS
  <2> DEFINE g == [n \in 0 .. m + 1 |-> IF n <= m THEN f[n] ELSE After(f, n)]
  <2>2. ASSUME NEW n \in 0 .. m + 1 PROVE g[n] = After(g, n)
    <3>1. n # 0 => n - 1 \in 0 .. m + 1 /\ n - 1 <= m
      OBVIOUS
    <3>2. After(g, n) = After(f, n)
      BY <3>1
    <3>3. n <= m => f[n] = After(f, n)
      <4>1. n <= m => n \in 0 .. m
        OBVIOUS
      <4> HIDE DEF After
      <4> QED  BY <2>1, <4>1
    <3> QED  BY <3>2, <3>3
  <2>3. Solves(g, m + 1)
    BY <2>2
  <2>4. m + 1 \in Nat /\ \E h : Solves(h, m + 1)
    <3> HIDE DEF g, Solves
    <3> QED  BY <2>3
  <2> QED  BY <2>4
<1>3. Len(mBuffers) \in S
  <2> HIDE DEF S
  <2>1. S \in SUBSET Nat
    BY DEF S
  <2> QED  BY <1>1, <1>2, <2>1, AllNumbers
<1>4. \E f : Solves(f, Len(mBuffers))
  BY <1>3
<1>5. Remaining(old) = CHOOSE f : Solves(f, Len(mBuffers))
  BY DEF Remaining
<1> HIDE DEF Solves
<1>6. Solves(Remaining(old), Len(mBuffers))
  BY <1>4, <1>5
<1> QED  BY <1>6 DEF Solves

(* What CachingAccessPrivate::clean leaves is still in order.              *)
LEMMA RemainingKeeps ==
  ASSUME NEW old, CacheInv
  PROVE  /\ Remaining(old)[Len(mBuffers)] \in Seq(1 .. Len(buffer))
         /\ Ordered(Remaining(old)[Len(mBuffers)], buffer)
         /\ ToSet(Remaining(old)[Len(mBuffers)]) = ToSet(mBuffers) \ old
<1> DEFINE v == Len(mBuffers)
           rest == Remaining(old)
           D == 1 .. Len(buffer)
           First(n) == {mBuffers[i] : i \in 1 .. n}
           Good(list, n) == /\ list \in Seq(D) /\ ToSet(list) = First(n) \ old
                            /\ Ordered(list, buffer)
           S == {n \in Nat : n <= v => Good(rest[n], n)}
<1>1. v \in Nat /\ \A i \in 1 .. v : mBuffers[i] \in D
  BY DEF CacheInv
<1>2. \A n \in 0 .. v : rest[n] =
        IF n = 0 THEN << >>
        ELSE IF mBuffers[n] \in old THEN rest[n - 1] ELSE Append(rest[n - 1], mBuffers[n])
  BY <1>1, RemainingIs
<1> HIDE DEF D, rest
<1>3. 0 \in S
  <2>1. Good(<< >>, 0)
    <3>1. ToSet(<< >>) = {} /\ First(0) = {}
      BY DEF ToSet
    <3> HIDE DEF First
    <3> QED  BY <3>1 DEF Ordered
  <2>2. 0 \in 0 .. v /\ rest[0] = << >>
    BY <1>1, <1>2
  <2> HIDE DEF Good
  <2> QED  BY <2>1, <2>2
<1>4. ASSUME NEW n \in S PROVE n + 1 \in S
  <2> SUFFICES ASSUME n + 1 <= v PROVE Good(rest[n + 1], n + 1)
    OBVIOUS
  <2> DEFINE list == rest[n]
             x == mBuffers[n + 1]
             w == Append(list, x)
  <2>1. n + 1 \in 0 .. v /\ n + 1 \in 1 .. v /\ n + 1 # 0 /\ (n + 1) - 1 = n /\ n <= v /\ n \in Nat
    BY <1>1
  <2>2. Good(list, n)
    BY <2>1
  <2>3. rest[n + 1] = IF x \in old THEN list ELSE w
    BY <1>2, <2>1
  <2>4. x \in D
    BY <1>1, <2>1
  <2>5. First(n + 1) = First(n) \cup {x}
    <3>1. 1 .. n + 1 = (1 .. n) \cup {n + 1}
      BY <2>1
    <3> QED  BY <3>1
  <2>6. \A y \in First(n) : \E j \in 1 .. n : y = mBuffers[j]
    OBVIOUS
  <2> HIDE DEF list, x, First
  <2>7. x \in old => Good(list, n + 1)
    BY <2>2, <2>5
  <2>8. /\ w \in Seq(D) /\ Len(w) = Len(list) + 1 /\ w[Len(list) + 1] = x /\ Len(list) \in Nat
        /\ \A k \in 1 .. Len(list) : w[k] = list[k] /\ list[k] \in ToSet(list)
    BY <2>2, <2>4 DEF ToSet
  <2>9. ToSet(w) = ToSet(list) \cup {x}
    BY <2>2, <2>4, AppendIs
  <2> HIDE DEF w
  <2>10. ASSUME NEW i \in 1 .. Len(w), NEW k \in 1 .. Len(w), i < k
         PROVE  LET a == buffer[w[i]].shape
                    b == buffer[w[k]].shape
                IN  a.t0 <= b.t0 /\ (Common(a, b) => a.t1 <= b.t0)
    <3>1. i \in 1 .. Len(list) /\ w[i] = list[i]
      BY <2>8, <2>10
    <3>2. CASE k \in 1 .. Len(list)
      BY <2>2, <2>8, <2>10, <3>1, <3>2 DEF Ordered
    <3>3. CASE k = Len(list) + 1
      <4>1. PICK j \in 1 .. n : list[i] = mBuffers[j]
        BY <2>2, <2>6, <2>8, <3>1
      <4>2. j \in 1 .. v /\ j < n + 1
        BY <2>1
      <4> QED  BY ZenonT(30), <2>1, <2>8, <3>1, <3>3, <4>1, <4>2 DEF CacheInv, Ordered, x
    <3> QED  BY <2>8, <3>2, <3>3
  <2>11. x \notin old => Good(w, n + 1)
    BY <2>2, <2>5, <2>8, <2>9, <2>10 DEF Ordered
  <2> HIDE DEF Good
  <2> QED  BY <2>3, <2>7, <2>11
<1>5. v \in S
  <2>1. S \in SUBSET Nat
    OBVIOUS
  <2> HIDE DEF S, v
  <2> QED  BY <1>1, <1>3, <1>4, <2>1, AllNumbers
<1>6. ToSet(mBuffers) = First(v)
  BY <1>1 DEF ToSet, CacheInv
<1> QED  BY <1>1, <1>5, <1>6 DEF D, rest

(* Data stay data when some of them are replaced.                          *)
LEMMA PutIs ==
  ASSUME NEW data \in Data, NEW news \in Data, NEW which
  PROVE  Put(data, news, which) \in Data
BY DEF Put, Data

(* Counting the use of buffers changes nothing else of them.               *)
LEMMA UsedIs ==
  ASSUME NEW made \in Seq(Buffer), NEW ids, NEW by \in Int
  PROVE  /\ Used(made, ids, by) \in Seq(Buffer) /\ Len(Used(made, ids, by)) = Len(made)
         /\ \A id \in 1 .. Len(made) :
              /\ Used(made, ids, by)[id].shape = made[id].shape
              /\ Used(made, ids, by)[id].status = made[id].status
              /\ Used(made, ids, by)[id].mUseCount =
                   IF id \in ids THEN made[id].mUseCount + by ELSE made[id].mUseCount
<1> DEFINE u == Used(made, ids, by)
           B(id) == IF id \in ids THEN [made[id] EXCEPT !.mUseCount = @ + by] ELSE made[id]
<1>1. Len(made) \in Nat /\ DOMAIN made = 1 .. Len(made)
  OBVIOUS
<1>2. u = [id \in 1 .. Len(made) |-> B(id)]
  BY <1>1 DEF Used
<1>3. ASSUME NEW id \in 1 .. Len(made)
      PROVE  /\ B(id) \in Buffer
             /\ B(id).shape = made[id].shape /\ B(id).status = made[id].status
             /\ B(id).mUseCount = IF id \in ids THEN made[id].mUseCount + by ELSE made[id].mUseCount
  <2>1. made[id] \in Buffer
    OBVIOUS
  <2> QED  BY SMTT(30), <2>1 DEF Buffer
<1> HIDE DEF B
<1>4. u \in Seq(Buffer) /\ Len(u) = Len(made) /\ \A id \in 1 .. Len(made) : u[id] = B(id)
  BY <1>1, <1>2, <1>3
<1> QED  BY <1>3, <1>4

(* Of buffers that are as they were a request is as it was. *)
Same(a, b) ==
  /\ a.shape = b.shape
  /\ \/ a.status = b.status
     \/ a.status \in {"asked", "rows"} /\ b.status \in {"asked", "rows"}

(* The answers of a request depend only on the state of its own buffers.   *)
LEMMA RequestStays ==
  ASSUME NEW t, NEW said, NEW made, NEW new, RequestOK(t, said, made),
         Len(made) \in Nat, Len(new) \in Nat, Len(made) <= Len(new),
         \A id \in ToSet(t.mBackendBuffers) : Same(new[id], made[id])
  PROVE  RequestOK(t, said, new)
<1> DEFINE ids == ToSet(t.mBackendBuffers)
<1>1. Open(new, ids) = Open(made, ids)
  BY DEF Open, Same
<1>2. Failed(new, ids) = Failed(made, ids)
  BY DEF Failed, Same
<1>3. t.mBackendBuffers \in Seq(1 .. Len(new))
  <2>1. 1 .. Len(made) \subseteq 1 .. Len(new)
    OBVIOUS
  <2>2. t.mBackendBuffers \in Seq(1 .. Len(made))
    BY DEF RequestOK
  <2> QED  BY <2>1, <2>2
<1>4. Spanned(t, new)
  BY DEF RequestOK, Spanned, Same
<1> QED  BY <1>1, <1>2, <1>3, <1>4 DEF RequestOK

(* What checkComplete says of a tag that has said nothing. *)
LEMMA CheckedIs ==
  ASSUME NEW t, NEW made, NEW ids, IsFiniteSet(ids),
         t.mCountIncomplete = Cardinality(Open(made, ids)),
         t.mCountFailed = Cardinality(Failed(made, ids))
  PROVE  Checked(t, << >>) = IF Open(made, ids) # {} THEN << >> ELSE << Failed(made, ids) # {} >>
<1>1. IsFiniteSet(Open(made, ids)) /\ IsFiniteSet(Failed(made, ids))
  <2>1. Open(made, ids) \subseteq ids /\ Failed(made, ids) \subseteq ids
    BY DEF Open, Failed
  <2> QED  BY <2>1, FS_Subset
<1>2. t.mCountIncomplete = 0 <=> Open(made, ids) = {}
  BY <1>1, FS_EmptySet
<1>3. (t.mCountFailed > 0) <=> Failed(made, ids) # {}
  <2>1. Cardinality(Failed(made, ids)) \in Nat
    BY <1>1, FS_CardinalityType
  <2>2. Cardinality(Failed(made, ids)) = 0 <=> Failed(made, ids) = {}
    BY <1>1, FS_EmptySet
  <2> QED  BY <2>1, <2>2
<1>4. (t.mCountFailed > 0) = (Failed(made, ids) # {})
  BY <1>3
<1>5. Append(<< >>, t.mCountFailed > 0) = << t.mCountFailed > 0 >>
  OBVIOUS
<1> QED  BY <1>2, <1>4, <1>5 DEF Checked

-----------------------------------------------------------------------------
(* Every step keeps the invariant. *)
LEMMA InvFacts ==
  ASSUME IInv
  PROVE  /\ Len(buffer) \in Nat /\ Ids = 1 .. Len(buffer) /\ DOMAIN buffer = 1 .. Len(buffer)
         /\ \A id \in Ids : buffer[id] \in Buffer
         /\ \A r \in Request : tag[r] \in Tag
         /\ \A r \in Posted : ToSet(tag[r].mBackendBuffers) \subseteq Ids
         /\ ToSet(mBuffers) \subseteq Ids
<1>1. buffer \in Seq(Buffer) /\ mBuffers \in Seq(1 .. Len(buffer))
  BY DEF IInv, CacheInv
<1>2. Len(buffer) \in Nat /\ DOMAIN buffer = 1 .. Len(buffer) /\ Ids = 1 .. Len(buffer)
  BY <1>1 DEF Ids
<1>3. \A id \in Ids : buffer[id] \in Buffer
  BY <1>1, <1>2
<1>4. \A r \in Request : tag[r] \in Tag
  BY DEF IInv, TypeInv
<1>5. ASSUME NEW r \in Posted PROVE ToSet(tag[r].mBackendBuffers) \subseteq Ids
  <2>1. tag[r].mBackendBuffers \in Seq(1 .. Len(buffer))
    BY DEF IInv, RequestOK
  <2> QED  BY <1>2, <2>1 DEF ToSet
<1>6. ToSet(mBuffers) \subseteq Ids
  BY <1>1, <1>2 DEF ToSet
<1> QED  BY <1>2, <1>3, <1>4, <1>5, <1>6

(* The invariant holds at the start.                                       *)
LEMMA InitKeeps == Init => IInv
<1> SUFFICES ASSUME Init PROVE IInv
  OBVIOUS
<1>1. Posted = {}
  BY DEF Init, Posted, NewTag
<1>2. NewTag \in Tag
  BY DEF NewTag, Tag
<1>3. /\ tag = [r \in Request |-> NewTag] /\ answers = [r \in Request |-> << >>]
      /\ buffer = << >> /\ mBuffers = << >> /\ db \in Initial
  BY DEF Init
<1>4. CacheInv
  <2>1. buffer \in Seq(Buffer) /\ Len(buffer) = 0 /\ Len(mBuffers) = 0
    BY <1>3
  <2>2. mBuffers \in Seq(1 .. Len(buffer))
    BY <1>3
  <2> QED  BY <2>1, <2>2 DEF CacheInv, Ordered
<1>5. TypeInv
  <2>1. tag \in [Request -> Tag]
    BY <1>2, <1>3
  <2>2. answers \in [Request -> Seq(BOOLEAN)] /\ \A r \in Request : answers[r] = << >>
    BY <1>3
  <2>3. db \in Data /\ IsFiniteSet(Posted)
    BY <1>1, <1>3, CacheAssumption, FS_EmptySet
  <2> QED  BY <2>1, <2>2, <2>3 DEF TypeInv
<1>6. CountInv
  BY <1>3 DEF CountInv
<1> QED  BY <1>1, <1>4, <1>5, <1>6 DEF IInv

(* The list, the tags and the answers stay, and the buffers but for data. *)
BuffersStay ==
  /\ buffer' \in Seq(Buffer) /\ Len(buffer') = Len(buffer)
  /\ \A id \in Ids : Same(buffer'[id], buffer[id]) /\ buffer'[id].mUseCount = buffer[id].mUseCount

(* Steps that leave statuses, spans and use counts alone keep it.          *)
LEMMA StayKeeps ==
  ASSUME IInv, BuffersStay, UNCHANGED << mBuffers, tag, answers >>, db' \in Data
  PROVE  IInv'
<1>1. /\ Len(buffer) \in Nat /\ Ids = 1 .. Len(buffer)
      /\ \A r \in Posted : ToSet(tag[r].mBackendBuffers) \subseteq Ids
      /\ ToSet(mBuffers) \subseteq Ids
  BY InvFacts
<1>2. Posted' = Posted /\ \A id : Users(id)' = Users(id)
  BY DEF Posted, Users
<1>3. CacheInv'
  <2>1. mBuffers' \in Seq(1 .. Len(buffer'))
    BY DEF IInv, CacheInv, BuffersStay
  <2>2. \A id \in 1 .. Len(buffer') : buffer'[id].shape = buffer[id].shape
    BY <1>1 DEF BuffersStay, Same
  <2>3. \A id \in 1 .. Len(buffer') : buffer'[id].shape.t0 <= buffer'[id].shape.t1
    BY <2>2 DEF IInv, CacheInv, BuffersStay
  <2>4. \A i \in 1 .. Len(mBuffers) : buffer'[mBuffers[i]].shape = buffer[mBuffers[i]].shape
    BY <2>2 DEF IInv, CacheInv, BuffersStay
  <2>5. Ordered(mBuffers, buffer')
    BY <2>4 DEF IInv, CacheInv, Ordered
  <2> QED  BY <2>1, <2>3, <2>5 DEF CacheInv, BuffersStay
<1>4. TypeInv'
  BY <1>2 DEF IInv, TypeInv
<1>5. CountInv'
  BY <1>1, <1>2 DEF IInv, CountInv, BuffersStay
<1>6. ASSUME NEW r \in Posted' PROVE RequestOK(tag[r], answers[r], buffer')
  <2>1. r \in Posted /\ RequestOK(tag[r], answers[r], buffer)
    BY <1>2 DEF IInv
  <2>2. Len(buffer') = Len(buffer) /\ \A id \in ToSet(tag[r].mBackendBuffers) : Same(buffer'[id], buffer[id])
    BY <1>1, <2>1 DEF BuffersStay
  <2> QED  BY <1>1, <2>1, <2>2, RequestStays
<1> QED  BY <1>3, <1>4, <1>5, <1>6 DEF IInv

(* Nothing happens.                                                        *)
LEMMA UnchangedKeeps == IInv /\ UNCHANGED vars => IInv'
<1> SUFFICES ASSUME IInv, UNCHANGED vars PROVE IInv'
  OBVIOUS
<1>1. BuffersStay
  BY DEF BuffersStay, vars, clients, Same, IInv, CacheInv
<1>2. db' \in Data
  BY DEF vars, clients, IInv, TypeInv
<1>3. UNCHANGED << mBuffers, tag, answers >>
  BY DEF vars, clients
<1> QED  BY <1>1, <1>2, <1>3, StayKeeps

(* Rows arrive for a buffer.                                               *)
LEMMA AnswerKeeps ==
  ASSUME IInv, NEW id \in Ids, Answer(id)
  PROVE  IInv'
<1> DEFINE rows == Passed(buffer[id].shape, db, TRUE)
           D(k) == IF k = id THEN Put(buffer[k].data, db, rows) ELSE buffer[k].data
<1>1. Len(buffer) \in Nat /\ Ids = 1 .. Len(buffer) /\ DOMAIN buffer = 1 .. Len(buffer) /\ buffer[id] \in Buffer
  BY InvFacts
<1>2. buffer' = [buffer EXCEPT ![id].data = Put(@, db, rows), ![id].status = "rows"]
  BY DEF Answer
<1>3. buffer[id].status = "asked" /\ UNCHANGED << mBuffers, tag, answers, db >>
  BY DEF Answer
<1>4. db \in Data
  BY DEF IInv, TypeInv
<1>5. Put(buffer[id].data, db, rows) \in Data
  BY <1>1, <1>4, PutIs DEF Buffer
<1> HIDE DEF rows
<1> DEFINE b == [buffer[id] EXCEPT !.data = Put(@, db, rows), !.status = "rows"]
<1>6. /\ b \in Buffer /\ b.shape = buffer[id].shape /\ b.status = "rows"
      /\ b.mUseCount = buffer[id].mUseCount
  BY <1>1, <1>5 DEF Buffer, Statuses
<1>7. buffer' = [k \in 1 .. Len(buffer) |-> IF k = id THEN b ELSE buffer[k]]
  BY <1>1, <1>2
<1> HIDE DEF b
<1>8. buffer' \in Seq(Buffer) /\ Len(buffer') = Len(buffer)
  <2>1. \A k \in 1 .. Len(buffer) : buffer[k] \in Buffer
    BY <1>1, InvFacts
  <2> QED  BY <1>1, <1>6, <1>7, <2>1
<1>9. BuffersStay
  BY <1>1, <1>3, <1>6, <1>7, <1>8 DEF BuffersStay, Same
<1> QED  BY <1>3, <1>4, <1>9, StayKeeps

(* The backend tells some buffers of a change.                             *)
LEMMA TellKeeps ==
  ASSUME IInv, NEW news \in Data, NEW which, NEW applyFilter, NEW ids,
         Tell(news, which, applyFilter, ids), UNCHANGED << mBuffers, tag, answers >>, db' \in Data
  PROVE  IInv'
<1> DEFINE B(id) == IF id \in ids THEN [buffer[id] EXCEPT !.data = Put(@, news, which[id])]
                                  ELSE buffer[id]
<1>1. Len(buffer) \in Nat /\ Ids = 1 .. Len(buffer) /\ \A id \in Ids : buffer[id] \in Buffer
  BY InvFacts
<1>2. buffer' = [id \in Ids |-> B(id)]
  BY DEF Tell
<1>3. ASSUME NEW id \in Ids
      PROVE  /\ B(id) \in Buffer /\ B(id).shape = buffer[id].shape /\ B(id).status = buffer[id].status
             /\ B(id).mUseCount = buffer[id].mUseCount
  <2>1. Put(buffer[id].data, news, which[id]) \in Data
    BY <1>1, PutIs DEF Buffer
  <2> QED  BY <1>1, <2>1 DEF Buffer
<1> HIDE DEF B
<1>4. buffer' \in Seq(Buffer) /\ Len(buffer') = Len(buffer)
  BY <1>1, <1>2, <1>3
<1>5. BuffersStay
  BY <1>1, <1>2, <1>3, <1>4 DEF BuffersStay, Same
<1> QED  BY <1>5, StayKeeps

(* An observation is changed, created or dropped.                          *)
LEMMA ChangeKeeps ==
  ASSUME IInv, Change
  PROVE  IInv'
<1> USE CacheAssumption
<1>1. PICK o \in Obs : BackendDrop(o) \/ \E v \in 1 .. MaxValue : BackendUpdate(o, v) \/ BackendCreate(o, v)
  BY DEF Change
<1>2. db \in Data /\ \A v \in Value : [db EXCEPT ![o] = v] \in Data
  BY DEF IInv, TypeInv, Data
<1>3. 0 \in Value /\ \A v \in 1 .. MaxValue : v \in Value
  BY DEF Value
<1>4. ASSUME NEW v \in 1 .. MaxValue, BackendUpdate(o, v) PROVE IInv'
  <2>1. db' \in Data
    BY <1>2, <1>3, <1>4 DEF BackendUpdate
  <2>2. Tell(db', [id \in Ids |-> {o}], UpdateFilters, Told(o)) /\ UNCHANGED << mBuffers, tag, answers >>
    BY <1>4 DEF BackendUpdate
  <2> QED  BY <2>1, <2>2, TellKeeps
<1>5. ASSUME NEW v \in 1 .. MaxValue, BackendCreate(o, v) PROVE IInv'
  <2>1. db' \in Data
    BY <1>2, <1>3, <1>5 DEF BackendCreate
  <2>2. /\ Tell(db', [id \in Ids |-> {o}], TRUE, {id \in Told(o) : v \in buffer[id].shape.filter})
        /\ UNCHANGED << mBuffers, tag, answers >>
    BY <1>5 DEF BackendCreate
  <2> QED  BY <2>1, <2>2, TellKeeps
<1>6. ASSUME BackendDrop(o) PROVE IInv'
  <2> DEFINE B(id) == IF id \in Told(o) THEN [buffer[id] EXCEPT !.data[o] = 0] ELSE buffer[id]
  <2>1. db' \in Data /\ UNCHANGED << mBuffers, tag, answers >> /\ buffer' = [id \in Ids |-> B(id)]
    BY <1>2, <1>3, <1>6 DEF BackendDrop
  <2>2. Len(buffer) \in Nat /\ Ids = 1 .. Len(buffer) /\ \A id \in Ids : buffer[id] \in Buffer
    BY InvFacts
  <2>3. ASSUME NEW id \in Ids
        PROVE  /\ B(id) \in Buffer /\ B(id).shape = buffer[id].shape /\ B(id).status = buffer[id].status
               /\ B(id).mUseCount = buffer[id].mUseCount
    <3>1. [buffer[id].data EXCEPT ![o] = 0] \in Data
      BY <1>3, <2>2 DEF Buffer, Data
    <3>2. [buffer[id] EXCEPT !.data[o] = 0] = [buffer[id] EXCEPT !.data = [buffer[id].data EXCEPT ![o] = 0]]
      BY <2>2 DEF Buffer
    <3> QED  BY <2>2, <3>1, <3>2 DEF Buffer
  <2> HIDE DEF B
  <2>4. buffer' \in Seq(Buffer) /\ Len(buffer') = Len(buffer)
    BY <2>1, <2>2, <2>3
  <2>5. BuffersStay
    BY <2>1, <2>2, <2>3, <2>4 DEF BuffersStay, Same
  <2> QED  BY <2>1, <2>5, StayKeeps
<1> QED  BY <1>1, <1>4, <1>5, <1>6

(* Unused buffers are taken out of the cache.                              *)
LEMMA CleanKeeps ==
  ASSUME IInv, Clean
  PROVE  IInv'
<1>1. PICK old : mBuffers' = Remaining(old)[Len(mBuffers)]
  BY DEF Clean
<1>2. UNCHANGED << buffer, tag, answers, db >>
  BY DEF Clean, clients
<1>3. mBuffers' \in Seq(1 .. Len(buffer)) /\ Ordered(mBuffers', buffer)
  BY <1>1, RemainingKeeps DEF IInv
<1>4. CacheInv'
  BY <1>2, <1>3 DEF IInv, CacheInv
<1>5. Posted' = Posted /\ \A id : Users(id)' = Users(id)
  BY <1>2 DEF Posted, Users
<1>6. TypeInv' /\ CountInv'
  BY <1>2, <1>5 DEF IInv, TypeInv, CountInv
<1> QED  BY <1>2, <1>4, <1>5, <1>6 DEF IInv

(* A request is dropped, and its buffers have one user less.               *)
LEMMA DropKeeps ==
  ASSUME IInv, NEW r \in Request, DropRequest(r)
  PROVE  IInv'
<1> DEFINE ids == ToSet(tag[r].mBackendBuffers)
<1>1. /\ Len(buffer) \in Nat /\ Ids = 1 .. Len(buffer)
      /\ \A q \in Posted : ToSet(tag[q].mBackendBuffers) \subseteq Ids
  BY InvFacts
<1>2. /\ r \in Posted /\ buffer' = Used(buffer, ids, -1)
      /\ tag' = [tag EXCEPT ![r] = [NewTag EXCEPT !.state = "dropped"]]
      /\ UNCHANGED << mBuffers, answers, db >>
  BY DEF DropRequest, Posted
<1>3. [NewTag EXCEPT !.state = "dropped"] \in Tag /\ [NewTag EXCEPT !.state = "dropped"].state = "dropped"
  <2>1. [NewTag EXCEPT !.state = "dropped"] =
          [state |-> "dropped", shape |-> NoShape, mBackendBuffers |-> << >>,
           mCountIncomplete |-> 0, mCountFailed |-> 0]
    BY DEF NewTag
  <2>2. << >> \in Seq(Nat)
    OBVIOUS
  <2> DEFINE t == [state |-> "dropped", shape |-> NoShape, mBackendBuffers |-> << >>,
                   mCountIncomplete |-> 0, mCountFailed |-> 0]
  <2>3. t \in Tag /\ t.state = "dropped"
    BY <2>2 DEF Tag
  <2> QED  BY ONLY <2>1, <2>3
<1>4. /\ tag \in [Request -> Tag] /\ tag' \in [Request -> Tag] /\ tag'[r].state = "dropped"
      /\ \A q \in Request \ {r} : tag'[q] = tag[q]
  <2>1. tag \in [Request -> Tag]
    BY DEF IInv, TypeInv
  <2> QED  BY <1>2, <1>3, <2>1
<1>5. Posted' = Posted \ {r}
  BY <1>4 DEF Posted
<1>6. ASSUME NEW id PROVE Users(id)' = Users(id) \ {r}
  BY <1>4, <1>5 DEF Users, Posted
<1>7. /\ buffer' \in Seq(Buffer) /\ Len(buffer') = Len(buffer)
      /\ \A id \in 1 .. Len(buffer) :
           /\ Same(buffer'[id], buffer[id])
           /\ buffer'[id].mUseCount =
                IF id \in ids THEN buffer[id].mUseCount - 1 ELSE buffer[id].mUseCount
  <2>1. buffer \in Seq(Buffer) /\ -1 \in Int
    BY DEF IInv, CacheInv
  <2> HIDE DEF ids
  <2>2. /\ Used(buffer, ids, -1) \in Seq(Buffer) /\ Len(Used(buffer, ids, -1)) = Len(buffer)
        /\ \A id \in 1 .. Len(buffer) :
             /\ Used(buffer, ids, -1)[id].shape = buffer[id].shape
             /\ Used(buffer, ids, -1)[id].status = buffer[id].status
             /\ Used(buffer, ids, -1)[id].mUseCount =
                  IF id \in ids THEN buffer[id].mUseCount + (-1) ELSE buffer[id].mUseCount
    BY <2>1, UsedIs
  <2>3. \A id \in 1 .. Len(buffer) : buffer[id].mUseCount \in Int
    BY <2>1, InvFacts DEF Buffer
  <2> QED  BY <1>2, <2>2, <2>3 DEF Same
<1> HIDE DEF ids
<1>8. CacheInv'
  <2>1. \A id \in 1 .. Len(buffer') : buffer'[id].shape = buffer[id].shape
    BY <1>7 DEF Same
  <2>2. Ordered(mBuffers, buffer')
    <3>1. \A i \in 1 .. Len(mBuffers) : mBuffers[i] \in 1 .. Len(buffer')
      BY <1>7 DEF IInv, CacheInv
    <3> QED  BY <2>1, <3>1 DEF IInv, CacheInv, Ordered
  <2> QED  BY <1>2, <1>7, <2>1, <2>2 DEF IInv, CacheInv
<1>9. TypeInv'
  <2>1. IsFiniteSet(Posted')
    BY <1>5, FS_Subset DEF IInv, TypeInv
  <2> QED  BY <1>2, <1>4, <2>1 DEF IInv, TypeInv
<1>10. ASSUME NEW id \in 1 .. Len(buffer') PROVE buffer'[id].mUseCount = Cardinality(Users(id)')
  <2>1. buffer[id].mUseCount = Cardinality(Users(id)) /\ id \in 1 .. Len(buffer)
    BY <1>7 DEF IInv, CountInv
  <2>2. IsFiniteSet(Users(id))
    <3>1. IsFiniteSet(Posted) /\ Users(id) \subseteq Posted
      BY DEF IInv, TypeInv, Users
    <3> QED  BY <3>1, FS_Subset
  <2>3. CASE id \in ids
    <3>1. r \in Users(id)
      BY <1>2, <2>3 DEF Users, ids
    <3>2. Cardinality(Users(id) \ {r}) = Cardinality(Users(id)) - 1
      BY <2>2, <3>1, FS_RemoveElement
    <3> QED  BY <1>6, <1>7, <2>1, <2>3, <3>2
  <2>4. CASE id \notin ids
    <3>1. Users(id) \ {r} = Users(id)
      BY <2>4 DEF Users, ids
    <3> QED  BY <1>6, <1>7, <2>1, <2>4, <3>1
  <2> QED  BY <2>3, <2>4
<1>11. ASSUME NEW q \in Posted' PROVE RequestOK(tag'[q], answers'[q], buffer')
  <2>1. q \in Posted /\ q # r /\ tag'[q] = tag[q] /\ answers'[q] = answers[q]
    BY <1>2, <1>4, <1>5 DEF Posted
  <2>2. RequestOK(tag[q], answers[q], buffer)
    BY <2>1 DEF IInv
  <2>3. \A id \in ToSet(tag[q].mBackendBuffers) : Same(buffer'[id], buffer[id])
    BY <1>1, <1>7, <2>1
  <2>4. RequestOK(tag[q], answers[q], buffer')
    BY <1>1, <1>7, <2>2, <2>3, RequestStays
  <2> QED  BY <2>1, <2>4
<1> QED  BY <1>8, <1>9, <1>10, <1>11 DEF IInv, CountInv

(* The tag of a request of which one buffer has ended. *)
LEMMA TagIs ==
  ASSUME NEW t \in Tag, NEW error \in BOOLEAN
  PROVE  /\ BackendCompleted(t, error) \in Tag
         /\ BackendCompleted(t, error).state = t.state
         /\ BackendCompleted(t, error).shape = t.shape
         /\ BackendCompleted(t, error).mBackendBuffers = t.mBackendBuffers
         /\ BackendCompleted(t, error).mCountIncomplete = t.mCountIncomplete - 1
         /\ BackendCompleted(t, error).mCountFailed = IF error THEN t.mCountFailed + 1 ELSE t.mCountFailed
<1> DEFINE Counted(x, y) == [t EXCEPT !.mCountIncomplete = x, !.mCountFailed = y]
           failed == IF error THEN t.mCountFailed + 1 ELSE t.mCountFailed
<1>1. ASSUME NEW x \in Int, NEW y \in Int
      PROVE  /\ Counted(x, y) \in Tag /\ Counted(x, y).state = t.state
             /\ Counted(x, y).shape = t.shape /\ Counted(x, y).mBackendBuffers = t.mBackendBuffers
             /\ Counted(x, y).mCountIncomplete = x /\ Counted(x, y).mCountFailed = y
  <2>1. Counted(x, y) \in Tag
    BY DEF Tag
  <2> QED  BY <2>1 DEF Tag
<1>2. t.mCountIncomplete - 1 \in Int /\ t.mCountFailed \in Int /\ t.mCountFailed + 1 \in Int
  BY DEF Tag
<1>3. failed \in Int
  <2>1. CASE error
    BY <1>2, <2>1
  <2>2. CASE ~error
    BY <1>2, <2>2
  <2> QED  BY <2>1, <2>2
<1>4. BackendCompleted(t, error) = Counted(t.mCountIncomplete - 1, failed)
  BY Zenon DEF BackendCompleted
<1> HIDE DEF Counted
<1> QED  BY ONLY <1>1, <1>2, <1>3, <1>4

(* The query of a buffer ends, and each request that uses it waits for one *)
(* buffer less.                                                            *)
LEMMA CompleteKeeps ==
  ASSUME IInv, NEW id \in Ids, NEW error \in BOOLEAN, Complete(id, error)
  PROVE  IInv'
<1> DEFINE before == IF error THEN "asked" ELSE "rows"
           after == IF error THEN "failed" ELSE "complete"
           b == [buffer[id] EXCEPT !.status = after]
<1>1. /\ Len(buffer) \in Nat /\ Ids = 1 .. Len(buffer) /\ DOMAIN buffer = 1 .. Len(buffer)
      /\ \A k \in Ids : buffer[k] \in Buffer
      /\ \A r \in Request : tag[r] \in Tag
      /\ \A r \in Posted : ToSet(tag[r].mBackendBuffers) \subseteq Ids
  BY InvFacts
<1>2. /\ buffer[id].status = before
      /\ buffer' = [buffer EXCEPT ![id].status = after]
      /\ tag' = [r \in Request |-> IF r \in Users(id) THEN BackendCompleted(tag[r], error) ELSE tag[r]]
      /\ answers' = [r \in Request |->
           IF r \in Users(id) THEN Checked(tag'[r], answers[r]) ELSE answers[r]]
      /\ UNCHANGED << mBuffers, db >>
  BY DEF Complete
<1>3. before \in {"asked", "rows"} /\ after \in {"failed", "complete"} /\ (after = "failed" <=> error)
  OBVIOUS
<1> HIDE DEF before, after
<1>4. b \in Buffer /\ b.shape = buffer[id].shape /\ b.status = after /\ b.mUseCount = buffer[id].mUseCount
  BY <1>1, <1>3 DEF Buffer, Statuses
<1>5. buffer' = [k \in 1 .. Len(buffer) |-> IF k = id THEN b ELSE buffer[k]]
  BY <1>1, <1>2
<1> HIDE DEF b
<1>6. /\ buffer' \in Seq(Buffer) /\ Len(buffer') = Len(buffer)
      /\ \A k \in Ids : buffer'[k].shape = buffer[k].shape /\ buffer'[k].mUseCount = buffer[k].mUseCount
      /\ \A k \in Ids \ {id} : buffer'[k] = buffer[k]
      /\ buffer'[id].status = after
  BY <1>1, <1>4, <1>5
<1>7. ASSUME NEW r \in Request
      PROVE  /\ tag'[r] \in Tag /\ tag'[r].state = tag[r].state /\ tag'[r].shape = tag[r].shape
             /\ tag'[r].mBackendBuffers = tag[r].mBackendBuffers
             /\ r \in Users(id) =>
                  /\ tag'[r].mCountIncomplete = tag[r].mCountIncomplete - 1
                  /\ tag'[r].mCountFailed = IF error THEN tag[r].mCountFailed + 1 ELSE tag[r].mCountFailed
             /\ r \notin Users(id) => tag'[r] = tag[r]
  BY <1>1, <1>2, TagIs
<1>8. Posted' = Posted
  BY <1>7 DEF Posted
<1>9. ASSUME NEW k PROVE Users(k)' = Users(k)
  BY <1>7, <1>8 DEF Users, Posted
<1>10. CacheInv'
  <2>1. Ordered(mBuffers, buffer')
    <3>1. \A i \in 1 .. Len(mBuffers) : buffer'[mBuffers[i]].shape = buffer[mBuffers[i]].shape
      BY <1>1, <1>6 DEF IInv, CacheInv
    <3> QED  BY <3>1 DEF IInv, CacheInv, Ordered
  <2>2. \A k \in 1 .. Len(buffer') : buffer'[k].shape.t0 <= buffer'[k].shape.t1
    BY <1>1, <1>6 DEF IInv, CacheInv
  <2> QED  BY <1>2, <1>6, <2>1, <2>2 DEF IInv, CacheInv
<1>11. CountInv'
  BY <1>1, <1>6, <1>9 DEF IInv, CountInv
(* The answers *)
<1>12. ASSUME NEW r \in Users(id)
       PROVE  /\ RequestOK(tag'[r], answers'[r], buffer')
              /\ answers'[r] \in Seq(BOOLEAN)
  <2> DEFINE ids == ToSet(tag[r].mBackendBuffers)
             incomplete == Open(buffer, ids)
             failed == Failed(buffer, ids)
  <2>1. r \in Request /\ r \in Posted /\ id \in ids /\ ids \subseteq Ids
    BY <1>1 DEF Users, Posted
  <2>2. RequestOK(tag[r], answers[r], buffer)
    BY <2>1 DEF IInv
  <2>3. IsFiniteSet(ids)
    <3>1. IsFiniteSet(1 .. Len(buffer)) /\ ids \subseteq 1 .. Len(buffer)
      BY <1>1, <2>1, FS_Interval
    <3> HIDE DEF ids
    <3> QED  BY <3>1, FS_Subset
  <2>4. IsFiniteSet(incomplete) /\ IsFiniteSet(failed) /\ id \in incomplete /\ id \notin failed
    <3>1. incomplete \subseteq ids /\ failed \subseteq ids
      BY DEF Open, Failed
    <3>2. id \in incomplete /\ id \notin failed
      BY <1>2, <1>3, <2>1 DEF Open, Failed
    <3> QED  BY <2>3, <3>1, <3>2, FS_Subset
  <2>5. Open(buffer', ids) = incomplete \ {id}
    BY <1>3, <1>6, <2>1 DEF Open
  <2>6. Failed(buffer', ids) = IF error THEN failed \cup {id} ELSE failed
    BY <1>3, <1>6, <2>1, <2>4 DEF Failed
  <2>7. answers[r] = << >>
    BY <2>2, <2>4 DEF RequestOK
  <2>8. /\ tag[r].mCountIncomplete = Cardinality(incomplete)
        /\ tag[r].mCountFailed = Cardinality(failed)
    BY <2>2 DEF RequestOK
  <2>9. tag'[r].mBackendBuffers = tag[r].mBackendBuffers /\ tag'[r].shape = tag[r].shape
    BY <1>7, <2>1
  <2> HIDE DEF ids, incomplete, failed
  <2>10. tag'[r].mCountIncomplete = Cardinality(Open(buffer', ids))
    <3>1. Cardinality(incomplete \ {id}) = Cardinality(incomplete) - 1
      BY <2>4, FS_RemoveElement
    <3> QED  BY <1>7, <2>1, <2>5, <2>8, <3>1
  <2>11. tag'[r].mCountFailed = Cardinality(Failed(buffer', ids))
    <3>1. Cardinality(failed \cup {id}) = Cardinality(failed) + 1
      BY <2>4, FS_AddElement
    <3> QED  BY <1>7, <2>1, <2>6, <2>8, <3>1
  <2>12. answers'[r] = IF Open(buffer', ids) # {} THEN << >> ELSE << Failed(buffer', ids) # {} >>
    <3>1. answers'[r] = Checked(tag'[r], << >>)
      BY <1>2, <2>1, <2>7
    <3> QED  BY <2>3, <2>10, <2>11, <3>1, CheckedIs
  <2>13. tag'[r].mBackendBuffers \in Seq(1 .. Len(buffer'))
    BY <1>6, <2>2, <2>9 DEF RequestOK
  <2>14. Spanned(tag'[r], buffer')
    <3>1. Spanned(tag[r], buffer)
      BY <2>2 DEF RequestOK
    <3>2. \A k \in ToSet(tag[r].mBackendBuffers) : buffer'[k].shape = buffer[k].shape
      BY <1>6, <2>1 DEF ids
    <3> QED  BY <2>9, <3>1, <3>2 DEF Spanned
  <2>15. answers'[r] \in Seq(BOOLEAN)
    <3>1. << >> \in Seq(BOOLEAN) /\ \A x \in BOOLEAN : << x >> \in Seq(BOOLEAN)
      OBVIOUS
    <3>2. (Failed(buffer', ids) # {}) \in BOOLEAN
      OBVIOUS
    <3> QED  BY <2>12, <3>1, <3>2
  <2> QED  BY <2>9, <2>10, <2>11, <2>12, <2>13, <2>14, <2>15 DEF RequestOK, ids
<1>13. ASSUME NEW r \in Posted', r \notin Users(id)
       PROVE  RequestOK(tag'[r], answers'[r], buffer')
  <2>1. r \in Posted /\ r \in Request /\ id \notin ToSet(tag[r].mBackendBuffers)
    BY <1>8, <1>13 DEF Users, Posted
  <2>2. RequestOK(tag[r], answers[r], buffer) /\ tag'[r] = tag[r] /\ answers'[r] = answers[r]
    BY <1>2, <1>7, <1>13, <2>1 DEF IInv
  <2>3. \A k \in ToSet(tag[r].mBackendBuffers) : Same(buffer'[k], buffer[k])
    BY <1>1, <1>6, <2>1 DEF Same
  <2>4. RequestOK(tag[r], answers[r], buffer')
    BY <1>1, <1>6, <2>2, <2>3, RequestStays
  <2> QED  BY <2>2, <2>4
<1>14. TypeInv'
  <2>1. tag' \in [Request -> Tag]
    BY <1>2, <1>7
  <2>2. ASSUME NEW r \in Request PROVE answers'[r] \in Seq(BOOLEAN)
    <3>1. r \notin Users(id) => answers'[r] = answers[r]
      BY <1>2
    <3> QED  BY <1>12, <3>1 DEF IInv, TypeInv
  <2>3. answers' \in [Request -> Seq(BOOLEAN)]
    BY <1>2, <2>2
  <2>4. ASSUME NEW r \in Request, tag'[r].state = "new" PROVE answers'[r] = << >>
    <3>1. tag[r].state = "new" /\ r \notin Users(id)
      BY <1>7, <2>4 DEF Users, Posted
    <3> QED  BY <1>2, <3>1 DEF IInv, TypeInv
  <2> QED  BY <1>2, <1>8, <2>1, <2>3, <2>4 DEF IInv, TypeInv
<1> QED  BY <1>10, <1>11, <1>12, <1>13, <1>14 DEF IInv

(* Of a new request: its tag, and how the buffers come to be.             *)
LEMMA PostKeeps ==
  ASSUME IInv, NEW r \in Request, PostRequest(r)
  PROVE  IInv'
<1>1. PICK shape \in Shapes :
        LET todo == Todo(shape)
            made == todo.made
            ids == ToSet(todo.shared)
            t == [state |-> "posted", shape |-> shape, mBackendBuffers |-> todo.shared,
                  mCountIncomplete |-> Cardinality(Open(made, ids)),
                  mCountFailed |-> Cardinality({id \in ids : made[id].status = "failed"})]
        IN  /\ tag[r].state = "new"
            /\ buffer' = Used(made, ids, 1)
            /\ mBuffers' = Listed(made)[Len(made)]
            /\ tag' = [tag EXCEPT ![r] = t]
            /\ answers' = [answers EXCEPT ![r] = Checked(t, @)]
            /\ UNCHANGED db
  BY Zenon DEF PostRequest
<1> DEFINE todo == Todo(shape)
           made == todo.made
           ids == ToSet(todo.shared)
           failed == Failed(made, ids)
           t == [state |-> "posted", shape |-> shape, mBackendBuffers |-> todo.shared,
                 mCountIncomplete |-> Cardinality(Open(made, ids)),
                 mCountFailed |-> Cardinality(failed)]
<1>2. shape \in Shape /\ shape.t0 <= shape.t1
  BY CacheAssumption
<1>3. /\ TodoInv(todo, shape)
      /\ \A s \in shape.sensors : \A i \in shape.t0 .. shape.t1 : HasInstant(todo, shape, s, i)
  BY <1>2, TodoIs DEF IInv
<1>4. /\ tag[r].state = "new" /\ buffer' = Used(made, ids, 1)
      /\ mBuffers' = Listed(made)[Len(made)]
      /\ tag' = [tag EXCEPT ![r] = t] /\ answers' = [answers EXCEPT ![r] = Checked(t, @)]
      /\ db' = db
  BY <1>1 DEF Failed
<1> HIDE DEF todo
<1>5. /\ Len(buffer) \in Nat /\ Ids = 1 .. Len(buffer)
      /\ \A q \in Posted : ToSet(tag[q].mBackendBuffers) \subseteq Ids
      /\ ToSet(mBuffers) \subseteq Ids
  BY InvFacts
<1>6. /\ made \in Seq(Buffer) /\ Len(made) \in Nat /\ Len(buffer) <= Len(made)
      /\ \A id \in 1 .. Len(buffer) : made[id] = buffer[id]
      /\ todo.shared \in Seq(1 .. Len(made))
      /\ Fresh(made) \subseteq ids /\ ids \subseteq 1 .. Len(made)
      /\ FreshOK(made, shape)
  <2>1. todo.shared \in Seq(1 .. Len(made)) /\ made \in Seq(Buffer)
    BY <1>3 DEF TodoInv, TodoType
  <2>2. ids \subseteq 1 .. Len(made)
    BY <2>1 DEF ToSet
  <2> QED  BY <1>3, <2>1, <2>2 DEF TodoInv
<1>7. /\ Listed(made)[Len(made)] \in Seq(1 .. Len(made))
      /\ Ordered(Listed(made)[Len(made)], made)
  BY <1>2, <1>3, ListedKeeps DEF IInv
<1> HIDE DEF made, ids
<1>8. /\ buffer' \in Seq(Buffer) /\ Len(buffer') = Len(made)
      /\ \A id \in 1 .. Len(made) :
           /\ buffer'[id].shape = made[id].shape /\ buffer'[id].status = made[id].status
           /\ buffer'[id].mUseCount = IF id \in ids THEN made[id].mUseCount + 1 ELSE made[id].mUseCount
  <2>1. 1 \in Int
    OBVIOUS
  <2> QED  BY <1>4, <1>6, <2>1, UsedIs
<1>9. IsFiniteSet(ids)
  <2>1. IsFiniteSet(1 .. Len(made))
    BY <1>6, FS_Interval
  <2> QED  BY <1>6, <2>1, FS_Subset
(* The new tag *)
<1>10. t \in Tag
  <2>1. IsFiniteSet(Open(made, ids)) /\ IsFiniteSet(failed)
    <3>1. Open(made, ids) \subseteq ids /\ failed \subseteq ids
      BY DEF Open, Failed
    <3> QED  BY <1>9, <3>1, FS_Subset
  <2> HIDE DEF failed
  <2>2. Cardinality(Open(made, ids)) \in Int /\ Cardinality(failed) \in Int
    BY <2>1, FS_CardinalityType
  <2>3. todo.shared \in Seq(Nat)
    <3>1. 1 .. Len(made) \subseteq Nat
      BY <1>6
    <3> QED  BY <1>6, <3>1
  <2> QED  BY <1>2, <2>2, <2>3 DEF Tag
<1>11. RequestOK(t, Checked(t, << >>), made)
  <2>1. Spanned(t, made)
    BY <1>3 DEF HasInstant, Spanned, made
  <2>2. t.mBackendBuffers = todo.shared
    OBVIOUS
  <2>3. t.mCountIncomplete = Cardinality(Open(made, ids)) /\ t.mCountFailed = Cardinality(Failed(made, ids))
    OBVIOUS
  <2> HIDE DEF t
  <2>4. Checked(t, << >>) = IF Open(made, ids) # {} THEN << >> ELSE << Failed(made, ids) # {} >>
    BY <1>9, <2>3, CheckedIs
  <2> QED  BY <1>6, <2>1, <2>2, <2>3, <2>4 DEF RequestOK, ids
<1>12. t.state = "posted" /\ t.mBackendBuffers = todo.shared
  OBVIOUS
<1> HIDE DEF t
<1>13. /\ tag \in [Request -> Tag] /\ tag' \in [Request -> Tag] /\ tag'[r] = t
       /\ \A q \in Request \ {r} : tag'[q] = tag[q]
  <2>1. tag \in [Request -> Tag]
    BY DEF IInv, TypeInv
  <2> QED  BY <1>4, <1>10, <2>1
<1>14. /\ answers[r] = << >> /\ answers'[r] = Checked(t, << >>)
       /\ \A q \in Request \ {r} : answers'[q] = answers[q]
       /\ answers' = [q \in Request |-> answers'[q]]
  <2>1. answers \in [Request -> Seq(BOOLEAN)] /\ answers[r] = << >>
    BY <1>4 DEF IInv, TypeInv
  <2> QED  BY <1>4, <2>1
<1>15. r \notin Posted /\ Posted' = Posted \cup {r}
  BY <1>4, <1>12, <1>13 DEF Posted
<1>16. ASSUME NEW id
       PROVE  Users(id)' = IF id \in ids THEN Users(id) \cup {r} ELSE Users(id)
  BY <1>12, <1>13, <1>15 DEF Users, Posted, ids
<1>17. CacheInv'
  <2>1. \A id \in 1 .. Len(made) : made[id].shape.t0 <= made[id].shape.t1
    <3>1. ASSUME NEW id \in 1 .. Len(made) PROVE made[id].shape.t0 <= made[id].shape.t1
      <4>1. CASE id \in 1 .. Len(buffer)
        BY <1>6, <4>1 DEF IInv, CacheInv
      <4>2. CASE id \in Fresh(made)
        BY <1>6, <4>2 DEF FreshOK
      <4> QED  BY <1>5, <1>6, <4>1, <4>2 DEF Fresh
    <3> QED  BY <3>1
  <2>2. Ordered(mBuffers', buffer')
    <3>1. \A i \in 1 .. Len(mBuffers') : mBuffers'[i] \in 1 .. Len(made)
      BY <1>4, <1>7
    <3>2. Ordered(mBuffers', made)
      BY <1>4, <1>7
    <3> QED  BY <1>8, <3>1, <3>2 DEF Ordered
  <2>3. mBuffers' \in Seq(1 .. Len(buffer'))
    BY <1>4, <1>7, <1>8
  <2> QED  BY <1>8, <2>1, <2>2, <2>3 DEF CacheInv
<1>18. TypeInv'
  <2>1. IsFiniteSet(Posted')
    BY <1>15, FS_AddElement DEF IInv, TypeInv
  <2>2. answers'[r] \in Seq(BOOLEAN)
    <3>1. << >> \in Seq(BOOLEAN) /\ \A x \in BOOLEAN : << x >> \in Seq(BOOLEAN)
      OBVIOUS
    <3>2. (Failed(made, ToSet(t.mBackendBuffers)) # {}) \in BOOLEAN
      OBVIOUS
    <3>3. Checked(t, << >>) = IF Open(made, ToSet(t.mBackendBuffers)) # {} THEN << >>
                              ELSE << Failed(made, ToSet(t.mBackendBuffers)) # {} >>
      BY <1>11 DEF RequestOK
    <3> QED  BY <1>14, <3>1, <3>2, <3>3
  <2>3. answers' \in [Request -> Seq(BOOLEAN)]
    <3>1. \A q \in Request : answers'[q] \in Seq(BOOLEAN)
      BY <1>14, <2>2 DEF IInv, TypeInv
    <3> QED  BY <1>14, <3>1
  <2>4. \A q \in Request : tag'[q].state = "new" => answers'[q] = << >>
    BY <1>12, <1>13, <1>14 DEF IInv, TypeInv
  <2> QED  BY <1>4, <1>13, <2>1, <2>3, <2>4 DEF IInv, TypeInv
<1>19. ASSUME NEW id \in 1 .. Len(buffer') PROVE buffer'[id].mUseCount = Cardinality(Users(id)')
  <2>1. id \in 1 .. Len(made) /\ r \notin Users(id)
    BY <1>8, <1>15 DEF Users
  <2>2. IsFiniteSet(Users(id))
    <3>1. IsFiniteSet(Posted) /\ Users(id) \subseteq Posted
      BY DEF IInv, TypeInv, Users
    <3> QED  BY <3>1, FS_Subset
  <2>3. made[id].mUseCount = Cardinality(Users(id))
    <3>1. CASE id \in 1 .. Len(buffer)
      BY <1>6, <3>1 DEF IInv, CountInv
    <3>2. CASE id \in Fresh(made)
      <4>1. id \notin Ids
        BY <1>5, <3>2 DEF Fresh
      <4>2. Users(id) = {}
        BY <1>5, <4>1 DEF Users
      <4> QED  BY <1>6, <3>2, <4>2, FS_EmptySet DEF FreshOK
    <3> QED  BY <1>5, <1>6, <2>1, <3>1, <3>2 DEF Fresh
  <2>4. Cardinality(Users(id) \cup {r}) = Cardinality(Users(id)) + 1
    BY <2>1, <2>2, FS_AddElement
  <2> QED  BY <1>8, <1>16, <2>1, <2>3, <2>4
<1>20. ASSUME NEW q \in Posted' PROVE RequestOK(tag'[q], answers'[q], buffer')
  <2>1. CASE q = r
    <3>1. ToSet(t.mBackendBuffers) \subseteq 1 .. Len(made)
      BY <1>6, <1>12 DEF ids
    <3>2. \A id \in ToSet(t.mBackendBuffers) : Same(buffer'[id], made[id])
      BY <1>8, <3>1 DEF Same
    <3>3. RequestOK(t, Checked(t, << >>), buffer')
      <4> DEFINE said == Checked(t, << >>)
      <4>1. RequestOK(t, said, made) /\ Len(made) \in Nat /\ Len(buffer') = Len(made)
        BY <1>6, <1>8, <1>11
      <4> HIDE DEF said
      <4>2. RequestOK(t, said, buffer')
        BY <3>2, <4>1, RequestStays
      <4> QED  BY <4>2 DEF said
    <3> QED  BY <1>13, <1>14, <2>1, <3>3
  <2>2. CASE q # r
    <3>1. q \in Posted /\ q \in Request /\ tag'[q] = tag[q] /\ answers'[q] = answers[q]
      BY <1>13, <1>14, <1>15, <2>2 DEF Posted
    <3>2. RequestOK(tag[q], answers[q], buffer)
      BY <3>1 DEF IInv
    <3>3. \A id \in ToSet(tag[q].mBackendBuffers) : Same(buffer'[id], buffer[id])
      <4>1. \A id \in ToSet(tag[q].mBackendBuffers) : id \in 1 .. Len(buffer) /\ id \in 1 .. Len(made)
        BY <1>5, <1>6, <3>1
      <4> QED  BY <1>6, <1>8, <4>1 DEF Same
    <3>4. RequestOK(tag[q], answers[q], buffer')
      BY <1>5, <1>6, <1>8, <3>2, <3>3, RequestStays
    <3> QED  BY <3>1, <3>4
  <2> QED  BY <2>1, <2>2
<1> QED  BY <1>17, <1>18, <1>19, <1>20 DEF IInv, CountInv

-----------------------------------------------------------------------------
(* The invariant holds in every reachable state. *)
THEOREM CacheInductive == Spec => []IInv
<1>1. IInv /\ [Next]_vars => IInv'
  <2> SUFFICES ASSUME IInv, [Next]_vars PROVE IInv'
    OBVIOUS
  <2>1. ASSUME NEW r \in Request, PostRequest(r) \/ DropRequest(r) PROVE IInv'
    BY <2>1, PostKeeps, DropKeeps
  <2>2. ASSUME Clean PROVE IInv'
    BY <2>2, CleanKeeps
  <2>3. ASSUME NEW id \in Ids, Answer(id) PROVE IInv'
    BY <2>3, AnswerKeeps
  <2>4. ASSUME NEW id \in Ids, NEW error \in BOOLEAN, Complete(id, error) PROVE IInv'
    BY <2>4, CompleteKeeps
  <2>5. ASSUME Change PROVE IInv'
    BY <2>5, ChangeKeeps
  <2>6. ASSUME UNCHANGED vars PROVE IInv'
    BY <2>6, UnchangedKeeps
  <2> QED  BY <2>1, <2>2, <2>3, <2>4, <2>5, <2>6 DEF Next, BackendStep
<1> QED  BY <1>1, InitKeeps, PTL DEF Spec

(* The buffers of a posted request cover each of its sensors at every     *)
(* instant of its span (CachingAccess::postRequest, SensorTodo), and a     *)
(* buffer's mUseCount is the number of the requests that use it.           *)
THEOREM CacheCovers == Spec => []RequestCovered
<1>1. IInv => RequestCovered
  <2> SUFFICES ASSUME IInv PROVE RequestCovered
    OBVIOUS
  <2>1. \A id \in ToSet(mBuffers) : buffer[id].mUseCount = Cardinality(Users(id))
    BY InvFacts DEF IInv, CountInv
  <2>2. \A r \in Posted : Spanned(tag[r], buffer)
    BY DEF IInv, RequestOK
  <2> QED  BY <2>1, <2>2 DEF RequestCovered, Spanned
<1> QED  BY <1>1, CacheInductive, PTL

(* Buffers in the cache with the same filter overlap for a sensor in one   *)
(* instant at most: calculateRequestSpans asks only for what is missing.   *)
THEOREM CacheFetchesOnce == Spec => []FetchedOnce
<1>1. IInv => FetchedOnce
  <2> SUFFICES ASSUME IInv, NEW i \in DOMAIN mBuffers, NEW k \in DOMAIN mBuffers, i # k,
                      buffer[mBuffers[i]].shape.filter = buffer[mBuffers[k]].shape.filter,
                      buffer[mBuffers[i]].shape.sensors \cap buffer[mBuffers[k]].shape.sensors # {}
               PROVE  \/ buffer[mBuffers[i]].shape.t1 <= buffer[mBuffers[k]].shape.t0
                      \/ buffer[mBuffers[k]].shape.t1 <= buffer[mBuffers[i]].shape.t0
    BY DEF FetchedOnce
  <2>1. i \in 1 .. Len(mBuffers) /\ k \in 1 .. Len(mBuffers) /\ (i < k \/ k < i)
    BY DEF IInv, CacheInv
  <2>2. /\ Common(buffer[mBuffers[i]].shape, buffer[mBuffers[k]].shape)
        /\ Common(buffer[mBuffers[k]].shape, buffer[mBuffers[i]].shape)
    BY DEF Common
  <2> QED  BY <2>1, <2>2 DEF IInv, CacheInv, Ordered
<1> QED  BY <1>1, CacheInductive, PTL

(* A request is told once that it is complete, when no buffer of it is to  *)
(* be waited for, and of an error if a buffer of it had one, also before   *)
(* the request (CacheTag::onBackendCompleted, checkComplete).              *)
THEOREM CacheCompletes == Spec => []CompletedOnce
<1>1. IInv => CompletedOnce
  <2> SUFFICES ASSUME IInv, NEW r \in Posted
               PROVE  LET ids == ToSet(tag[r].mBackendBuffers)
                          statuses == {buffer[id].status : id \in ids}
                      IN  answers[r] = IF statuses \cap {"asked", "rows"} # {} THEN << >>
                                       ELSE << "failed" \in statuses >>
    BY DEF CompletedOnce
  <2> DEFINE ids == ToSet(tag[r].mBackendBuffers)
             statuses == {buffer[id].status : id \in ids}
  <2>1. Open(buffer, ids) # {} <=> statuses \cap {"asked", "rows"} # {}
    BY DEF Open
  <2>2. (Failed(buffer, ids) # {}) = ("failed" \in statuses)
    BY DEF Failed
  <2>3. answers[r] = IF Open(buffer, ids) # {} THEN << >> ELSE << Failed(buffer, ids) # {} >>
    BY DEF IInv, RequestOK
  <2> HIDE DEF ids, statuses
  <2>4. answers[r] = IF statuses \cap {"asked", "rows"} # {} THEN << >> ELSE << "failed" \in statuses >>
    BY <2>1, <2>2, <2>3
  <2> QED  BY <2>4 DEF ids, statuses
<1> QED  BY <1>1, CacheInductive, PTL

-----------------------------------------------------------------------------
(* What clients show.  The invariant above says nothing of data.           *)

(* A buffer holds nothing that it does not cover or that is out of date,   *)
(* and after its rows what its filter accepts.                             *)
Current(b, base) ==
  \A o \in Obs :
    /\ b.data[o] # 0 => Covers(b.shape, o) /\ b.data[o] = base[o]
    /\ b.status \in {"rows", "complete"} /\ Covers(b.shape, o) /\ base[o] \in b.shape.filter =>
         b.data[o] = base[o]

(* So does a client, of what buffers with its filter cover. *)
Shows(shown, t, made, base) ==
  \A o \in Obs : Covers(t.shape, o) =>
    /\ shown[o] # 0 => shown[o] = base[o]
    /\ \A id \in ToSet(t.mBackendBuffers) :
         /\ made[id].status \in {"rows", "complete"} /\ Covers(made[id].shape, o)
         /\ made[id].shape.filter = t.shape.filter /\ base[o] \in t.shape.filter
         => shown[o] = base[o]

VInv ==
  /\ view \in [Request -> Data]
  /\ \A r \in Request : tag[r].state = "new" => view[r] = NoData
  /\ \A r \in Posted : ToSet(tag[r].mBackendBuffers) \subseteq Alive
  /\ \A id \in Alive : Current(buffer[id], db)
  /\ \A r \in Posted : Shows(view[r], tag[r], buffer, db)

(* The function defined by recursion in Sent satisfies its definition.     *)
LEMMA SentIs ==
  ASSUME NEW todo, NEW shape, NEW shown, Len(todo.shared) \in Nat
  PROVE  Sent(todo, shape, shown) =
           [n \in 0 .. Len(todo.shared) |->
              IF n = 0 THEN shown
              ELSE Put(Sent(todo, shape, shown)[n - 1], todo.made[todo.shared[n]].data,
                       FromBuffer(shape, todo.made[todo.shared[n]].data))]
<1> DEFINE v == Len(todo.shared)
           After(f, n) == IF n = 0 THEN shown
                          ELSE Put(f[n - 1], todo.made[todo.shared[n]].data,
                                   FromBuffer(shape, todo.made[todo.shared[n]].data))
           Solves(f, m) == f = [n \in 0 .. m |-> After(f, n)]
           S == {m \in Nat : \E f : Solves(f, m)}
<1>1. 0 \in S
  <2>1. Solves([n \in 0 .. 0 |-> shown], 0)
    OBVIOUS
  <2> QED  BY <2>1
<1>2. ASSUME NEW m \in S PROVE m + 1 \in S
  <2>1. PICK f : Solves(f, m)
    OBVIOUS
  <2> DEFINE g == [n \in 0 .. m + 1 |-> IF n <= m THEN f[n] ELSE After(f, n)]
  <2>2. ASSUME NEW n \in 0 .. m + 1 PROVE g[n] = After(g, n)
    <3>1. n # 0 => n - 1 \in 0 .. m + 1 /\ n - 1 <= m
      OBVIOUS
    <3>2. After(g, n) = After(f, n)
      BY <3>1
    <3>3. n <= m => f[n] = After(f, n)
      <4>1. n <= m => n \in 0 .. m
        OBVIOUS
      <4> HIDE DEF After
      <4> QED  BY <2>1, <4>1
    <3> QED  BY <3>2, <3>3
  <2>3. Solves(g, m + 1)
    BY <2>2
  <2>4. m + 1 \in Nat /\ \E h : Solves(h, m + 1)
    <3> HIDE DEF g, Solves
    <3> QED  BY <2>3
  <2> QED  BY <2>4
<1>3. v \in S
  <2> HIDE DEF S
  <2>1. S \in SUBSET Nat
    BY DEF S
  <2> QED  BY <1>1, <1>2, <2>1, AllNumbers
<1>4. \E f : Solves(f, v)
  BY <1>3
<1>5. Sent(todo, shape, shown) = CHOOSE f : Solves(f, v)
  BY DEF Sent
<1> HIDE DEF Solves
<1>6. Solves(Sent(todo, shape, shown), v)
  BY <1>4, <1>5
<1> QED  BY <1>6 DEF Solves

(* All that a request covers and its filter accepts is sent to it, also    *)
(* where findRange takes the place of the test of each observation.        *)
LEMMA FromBufferIs ==
  ASSUME NEW shape \in Shape, NEW data \in Data, NEW o \in Obs
  PROVE  /\ o \in FromBuffer(shape, data) => data[o] # 0
         /\ data[o] # 0 /\ Covers(shape, o) /\ data[o] \in shape.filter => o \in FromBuffer(shape, data)
<1>1. shape.t0 \in Nat /\ shape.t1 \in Nat
  BY ShapeTypes
<1>2. /\ o[1] \in Sensors /\ o[1] \in Nat /\ o[2] \in Nat
      /\ \A p \in Obs : p[1] \in Nat /\ p[2] \in Nat
  BY CacheAssumption DEF Obs
<1>3. CASE shape.filter = NoFilter /\ shape.sensors # {Invalid}
  <2>1. FromBuffer(shape, data) = UNION {FindRange(data, s, shape.t0, shape.t1) : s \in shape.sensors}
    BY <1>3 DEF FromBuffer
  <2>2. ASSUME o \in FromBuffer(shape, data) PROVE data[o] # 0
    <3>1. PICK s \in shape.sensors : o \in FindRange(data, s, shape.t0, shape.t1)
      BY <2>1, <2>2
    <3>2. o \in Held(data)
      BY <3>1 DEF FindRange
    <3> QED  BY <3>2 DEF Held
  <2>3. ASSUME data[o] # 0, Covers(shape, o) PROVE o \in FromBuffer(shape, data)
    <3> DEFINE from == {p \in Held(data) : ~Before(p, << o[1], shape.t0 >>)}
               after == {p \in from : ~Before(p, << o[1], shape.t1 >>)}
    <3>1. o[1] \in shape.sensors /\ shape.t0 <= o[2] /\ o[2] <= shape.t1
      BY <1>3, <2>3 DEF Covers
    <3>2. o \in from
      BY <1>1, <1>2, <2>3, <3>1 DEF Held, Before
    <3>3. ASSUME NEW p \in after PROVE ~Before(p, o)
      <4>1. p \in Obs /\ ~Before(p, << o[1], shape.t1 >>)
        BY DEF Held
      <4> QED  BY <1>1, <1>2, <3>1, <4>1 DEF Before
    <3>4. o \in FindRange(data, o[1], shape.t0, shape.t1)
      <4>1. FindRange(data, o[1], shape.t0, shape.t1) =
              IF \E p \in from : p[1] = o[1] THEN {x \in from : \A p \in after : ~Before(p, x)} ELSE {}
        BY DEF FindRange
      <4> HIDE DEF from, after
      <4> QED  BY <3>2, <3>3, <4>1
    <3> QED  BY <2>1, <3>1, <3>4
  <2> QED  BY <2>2, <2>3
<1>4. CASE ~ (shape.filter = NoFilter /\ shape.sensors # {Invalid})
  <2>1. FromBuffer(shape, data) = Passed(shape, data, TRUE)
    BY <1>4 DEF FromBuffer
  <2> QED  BY <2>1 DEF Passed, Held
<1> QED  BY <1>3, <1>4

(* After all buffers have sent what they hold a new request shows it.      *)
LEMMA SentKeeps ==
  ASSUME NEW shape \in Shape, NEW todo, todo.shared \in Seq(1 .. Len(todo.made)),
         \A id \in ToSet(todo.shared) : Current(todo.made[id], db) /\ todo.made[id].data \in Data,
         NEW t, t.shape = shape, t.mBackendBuffers = todo.shared
  PROVE  /\ Sent(todo, shape, NoData)[Len(todo.shared)] \in Data
         /\ Shows(Sent(todo, shape, NoData)[Len(todo.shared)], t, todo.made, db)
<1> DEFINE v == Len(todo.shared)
           sent == Sent(todo, shape, NoData)
           b(k) == todo.made[todo.shared[k]]
           Good(shown, n) ==
             /\ shown \in Data
             /\ \A o \in Obs : Covers(shape, o) =>
                  /\ shown[o] # 0 => shown[o] = db[o]
                  /\ \A k \in 1 .. n :
                       /\ b(k).status \in {"rows", "complete"} /\ Covers(b(k).shape, o)
                       /\ b(k).shape.filter = shape.filter /\ db[o] \in shape.filter
                       => shown[o] = db[o]
           S == {n \in Nat : n <= v => Good(sent[n], n)}
<1>1. v \in Nat /\ DOMAIN todo.shared = 1 .. v
  OBVIOUS
<1>2. \A n \in 0 .. v : sent[n] =
        IF n = 0 THEN NoData ELSE Put(sent[n - 1], b(n).data, FromBuffer(shape, b(n).data))
  BY <1>1, SentIs
<1>3. \A k \in 1 .. v : Current(b(k), db) /\ b(k).data \in Data
  BY <1>1 DEF ToSet
<1> HIDE DEF sent, b
<1>4. 0 \in S
  <2>1. Good(NoData, 0)
    BY CacheAssumption DEF NoData, Data, Value
  <2>2. sent[0] = NoData
    BY <1>1, <1>2
  <2> HIDE DEF Good
  <2> QED  BY <2>1, <2>2
<1>5. ASSUME NEW n \in S PROVE n + 1 \in S
  <2> SUFFICES ASSUME n + 1 <= v PROVE Good(sent[n + 1], n + 1)
    OBVIOUS
  <2> DEFINE shown == sent[n]
             data == b(n + 1).data
             which == FromBuffer(shape, data)
             new == Put(shown, data, which)
  <2>1. n + 1 \in 0 .. v /\ n + 1 \in 1 .. v /\ n + 1 # 0 /\ (n + 1) - 1 = n /\ n <= v /\ n \in Nat
    BY <1>1
  <2>2. Good(shown, n)
    BY <2>1
  <2>3. sent[n + 1] = new
    BY <1>2, <2>1
  <2>4. data \in Data /\ Current(b(n + 1), db)
    BY <1>3, <2>1
  <2> HIDE DEF shown
  <2>5. new \in Data
    BY <2>2, <2>4, PutIs
  <2>6. \A o \in Obs : new[o] = IF o \in which THEN data[o] ELSE shown[o]
    BY DEF Put
  <2>7. ASSUME NEW o \in Obs
        PROVE  /\ o \in which => data[o] # 0
               /\ data[o] # 0 /\ Covers(shape, o) /\ data[o] \in shape.filter => o \in which
    BY <2>4, FromBufferIs
  <2> HIDE DEF new, which
  <2>8. ASSUME NEW o \in Obs, Covers(shape, o), new[o] # 0 PROVE new[o] = db[o]
    <3>1. o \in which => data[o] = db[o]
      BY <2>4, <2>7 DEF Current
    <3> QED  BY <2>2, <2>6, <2>8, <3>1
  <2>9. ASSUME NEW o \in Obs, Covers(shape, o), NEW k \in 1 .. n + 1,
               b(k).status \in {"rows", "complete"}, Covers(b(k).shape, o),
               b(k).shape.filter = shape.filter, db[o] \in shape.filter
        PROVE  new[o] = db[o]
    <3>1. o \in which => data[o] = db[o]
      BY <2>4, <2>7 DEF Current
    <3>2. CASE k \in 1 .. n
      <4>1. shown[o] = db[o]
        BY <2>2, <2>9, <3>2
      <4> QED  BY <2>6, <3>1, <4>1
    <3>3. CASE k = n + 1
      <4>1. data[o] = db[o]
        BY <2>4, <2>9, <3>3 DEF Current
      <4>2. db[o] # 0
        BY <2>9, CacheAssumption DEF Shape
      <4> QED  BY <2>6, <2>7, <2>9, <3>1, <4>1, <4>2
    <3> QED  BY <2>1, <3>2, <3>3
  <2>10. Good(new, n + 1)
    BY <2>5, <2>8, <2>9
  <2> HIDE DEF Good
  <2> QED  BY <2>3, <2>10
<1>6. Good(sent[v], v)
  <2>1. S \in SUBSET Nat
    OBVIOUS
  <2>2. v \in S
    <3> HIDE DEF S, v
    <3> QED  BY <1>1, <1>4, <1>5, <2>1, AllNumbers
  <2> QED  BY <1>1, <2>2
<1>7. \A id \in ToSet(todo.shared) : \E k \in 1 .. v : todo.made[id] = b(k)
  BY <1>1 DEF ToSet, b
<1>8. Shows(sent[v], t, todo.made, db)
  <2> HIDE DEF v
  <2> QED  BY <1>6, <1>7 DEF Shows
<1> QED  BY <1>6, <1>8 DEF sent

(* Whatever a request covers is covered by one of its buffers. *)
LEMMA CoveredBy ==
  ASSUME IInv, VInv, NEW r \in Posted, NEW o \in Obs, Covers(tag[r].shape, o)
  PROVE  \E id \in ToSet(tag[r].mBackendBuffers) :
           /\ id \in Alive /\ id \in Ids /\ Covers(buffer[id].shape, o)
           /\ buffer[id].shape.filter = tag[r].shape.filter
<1> DEFINE shape == tag[r].shape
           s == IF shape.sensors = {Invalid} THEN Invalid ELSE o[1]
<1>1. o[1] \in Sensors /\ o[2] \in Nat /\ shape.t0 <= o[2] /\ o[2] <= shape.t1
  BY CacheAssumption DEF Obs, Covers
<1>2. s \in shape.sensors
  BY DEF Covers
<1>3. Spanned(tag[r], buffer)
  BY DEF IInv, RequestOK
<1>4. r \in Request /\ tag[r] \in Tag
  BY DEF IInv, TypeInv, Posted
<1>5. o[2] \in shape.t0 .. shape.t1
  <2>1. shape.t0 \in Int /\ shape.t1 \in Int
    <3>1. shape \in Shape \/ shape = NoShape
      BY <1>4 DEF Tag
    <3> HIDE DEF shape
    <3> QED  BY <3>1, ShapeTypes DEF NoShape
  <2> QED  BY <1>1, <2>1
<1> HIDE DEF s
<1>6. PICK id \in ToSet(tag[r].mBackendBuffers) :
        LET b == buffer[id].shape
        IN  s \in b.sensors /\ b.t0 <= o[2] /\ o[2] <= b.t1 /\ b.filter = shape.filter
  BY <1>2, <1>3, <1>5 DEF Spanned
<1>7. id \in Ids /\ id \in Alive
  BY InvFacts DEF VInv
<1>8. buffer[id].shape \in Shape
  BY <1>7, InvFacts DEF Buffer
<1>9. buffer[id].shape.sensors = {Invalid} \/ o[1] \in buffer[id].shape.sensors
  <2>1. buffer[id].shape.sensors = {Invalid} \/ buffer[id].shape.sensors \subseteq Sensors
    BY <1>8 DEF Shape
  <2>2. Invalid \notin Sensors
    BY CacheAssumption
  <2>3. s = Invalid \/ s = o[1]
    BY DEF s
  <2> QED  BY <1>6, <2>1, <2>2, <2>3
<1> QED  BY <1>6, <1>7, <1>9 DEF Covers

(* What the invariants say of types.                                       *)
LEMMA ViewFacts ==
  ASSUME IInv, VInv
  PROVE  /\ \A r \in Request : view[r] \in Data
         /\ \A r \in Posted : r \in Request /\ ToSet(tag[r].mBackendBuffers) \subseteq Alive
         /\ Alive \subseteq Ids
         /\ \A id \in Ids : buffer[id].data \in Data /\ buffer[id].shape \in Shape
         /\ db \in Data
<1>1. \A r \in Request : view[r] \in Data
  BY DEF VInv
<1>2. \A r \in Posted : r \in Request /\ ToSet(tag[r].mBackendBuffers) \subseteq Alive
  BY DEF VInv, Posted
<1>3. Alive \subseteq Ids
  BY InvFacts DEF Alive
<1>4. \A id \in Ids : buffer[id].data \in Data /\ buffer[id].shape \in Shape
  BY InvFacts DEF Buffer
<1>5. db \in Data
  BY DEF IInv, TypeInv
<1> QED  BY <1>1, <1>2, <1>3, <1>4, <1>5

(* No filter accepts an observation that is not there. *)
LEMMA NoneAccepted ==
  ASSUME NEW shape \in Shape
  PROVE  0 \notin shape.filter
BY CacheAssumption DEF Shape

(* Rows arrive for a buffer and are passed on.                             *)
LEMMA AnswerShows ==
  ASSUME IInv, VInv, NEW id \in Ids, Answer(id)
  PROVE  VInv'
<1> DEFINE shape == buffer[id].shape
           rows == Passed(shape, db, TRUE)
           b == [buffer[id] EXCEPT !.data = Put(@, db, rows), !.status = "rows"]
<1>1. /\ Len(buffer) \in Nat /\ Ids = 1 .. Len(buffer) /\ DOMAIN buffer = 1 .. Len(buffer)
      /\ buffer[id] \in Buffer
  BY InvFacts
<1>2. /\ id \in Alive
      /\ buffer' = [buffer EXCEPT ![id].data = Put(@, db, rows), ![id].status = "rows"]
      /\ view' = [r \in Request |->
           IF r \in Users(id) THEN Put(view[r], db, rows \cap Passed(tag[r].shape, db, TRUE))
                              ELSE view[r]]
      /\ UNCHANGED << mBuffers, tag, answers, db >>
  BY DEF Answer
<1>3. \A o \in Obs : o \in rows <=> db[o] # 0 /\ Covers(shape, o) /\ db[o] \in shape.filter
  BY DEF Passed, Held
<1>4. \A r \in Request : \A o \in Obs :
        o \in Passed(tag[r].shape, db, TRUE) <=>
          db[o] # 0 /\ Covers(tag[r].shape, o) /\ db[o] \in tag[r].shape.filter
  BY DEF Passed, Held
<1> HIDE DEF rows
<1>5. /\ b.shape = shape /\ b.status = "rows" /\ b.data = Put(buffer[id].data, db, rows)
      /\ buffer' = [k \in 1 .. Len(buffer) |-> IF k = id THEN b ELSE buffer[k]]
  <2>1. b.shape = shape /\ b.status = "rows" /\ b.data = Put(buffer[id].data, db, rows)
    BY <1>1 DEF Buffer
  <2> QED  BY <1>1, <1>2, <2>1
<1> HIDE DEF b
<1>6. \A o \in Obs : b.data[o] = IF o \in rows THEN db[o] ELSE buffer[id].data[o]
  BY <1>5 DEF Put
<1>7. Posted' = Posted /\ Alive' = Alive
  BY <1>2 DEF Posted, Alive
<1>8. shape \in Shape
  BY ViewFacts
<1>9. Current(b, db)
  <2>1. Current(buffer[id], db)
    BY <1>2 DEF VInv
  <2>2. 0 \notin shape.filter
    BY <1>8, NoneAccepted
  <2> HIDE DEF shape
  <2>3. b.shape = buffer[id].shape /\ shape = buffer[id].shape
    BY <1>5 DEF shape
  <2> QED  BY <1>3, <1>6, <2>1, <2>2, <2>3 DEF Current
<1>10. \A k \in Alive' : Current(buffer'[k], db')
  BY <1>1, <1>2, <1>5, <1>7, <1>9, ViewFacts DEF VInv
<1>11. view' \in [Request -> Data]
  <2>1. \A r \in Request : view'[r] \in Data
    BY <1>2, ViewFacts, PutIs
  <2> QED  BY <1>2, <2>1
<1>12. ASSUME NEW r \in Posted
       PROVE  Shows(view'[r], tag[r], buffer', db)
  <2>1. /\ r \in Request /\ Shows(view[r], tag[r], buffer, db)
        /\ ToSet(tag[r].mBackendBuffers) \subseteq 1 .. Len(buffer)
    BY <1>1, InvFacts, ViewFacts DEF VInv
  <2>2. CASE r \in Users(id)
    <3> DEFINE new == Put(view[r], db, rows \cap Passed(tag[r].shape, db, TRUE))
    <3>1. view'[r] = new
      BY <1>2, <2>1, <2>2
    <3>2. \A o \in Obs : new[o] = IF o \in rows \cap Passed(tag[r].shape, db, TRUE) THEN db[o] ELSE view[r][o]
      BY DEF Put
    <3> HIDE DEF new
    <3> SUFFICES ASSUME NEW o \in Obs, Covers(tag[r].shape, o)
                 PROVE  /\ new[o] # 0 => new[o] = db[o]
                        /\ \A k \in ToSet(tag[r].mBackendBuffers) :
                             /\ buffer'[k].status \in {"rows", "complete"} /\ Covers(buffer'[k].shape, o)
                             /\ buffer'[k].shape.filter = tag[r].shape.filter /\ db[o] \in tag[r].shape.filter
                             => new[o] = db[o]
      BY <3>1 DEF Shows
    <3>3. new[o] = db[o] \/ new[o] = view[r][o]
      BY <3>2
    <3>4. view[r][o] # 0 => view[r][o] = db[o]
      BY <2>1 DEF Shows
    <3>5. ASSUME NEW k \in ToSet(tag[r].mBackendBuffers),
                 buffer'[k].status \in {"rows", "complete"}, Covers(buffer'[k].shape, o),
                 buffer'[k].shape.filter = tag[r].shape.filter, db[o] \in tag[r].shape.filter
          PROVE  new[o] = db[o]
      <4>1. CASE k = id
        <5>1. buffer'[k] = b
          BY <1>1, <1>5, <4>1
        <5>2. 0 \notin tag[r].shape.filter
          BY <1>5, <1>8, <3>5, <5>1, NoneAccepted
        <5>3. db[o] # 0 /\ Covers(shape, o) /\ db[o] \in shape.filter
          BY <1>5, <3>5, <5>1, <5>2
        <5>4. o \in rows \cap Passed(tag[r].shape, db, TRUE)
          BY <1>3, <1>4, <2>1, <3>5, <5>3
        <5> QED  BY <3>2, <5>4
      <4>2. CASE k # id
        <5>1. buffer'[k] = buffer[k]
          BY <1>5, <2>1, <4>2
        <5>2. view[r][o] = db[o]
          BY <2>1, <3>5, <5>1 DEF Shows
        <5> QED  BY <3>3, <5>2
      <4> QED  BY <4>1, <4>2
    <3> QED  BY <3>3, <3>4, <3>5
  <2>3. CASE r \notin Users(id)
    <3>1. view'[r] = view[r] /\ id \notin ToSet(tag[r].mBackendBuffers)
      BY <1>2, <2>1, <2>3 DEF Users
    <3>2. \A k \in ToSet(tag[r].mBackendBuffers) : buffer'[k] = buffer[k]
      BY <1>5, <2>1, <3>1
    <3> QED  BY <2>1, <3>1, <3>2 DEF Shows
  <2> QED  BY <2>2, <2>3
<1>13. \A r \in Request : tag'[r].state = "new" => view'[r] = NoData
  BY <1>2 DEF VInv, Users, Posted
<1> QED  BY <1>2, <1>7, <1>10, <1>11, <1>12, <1>13 DEF VInv

(* A change of o to v in the backend, that buffers and clients are told.   *)
LEMMA ToldShows ==
  ASSUME IInv, VInv, NEW o \in Obs, NEW v \in Value, db' = [db EXCEPT ![o] = v],
         UNCHANGED << mBuffers, tag >>, view' \in [Request -> Data],
         \A id \in Alive :
           /\ buffer'[id].shape = buffer[id].shape /\ buffer'[id].status = buffer[id].status
           /\ \A x \in Obs \ {o} : buffer'[id].data[x] = buffer[id].data[x]
           /\ buffer'[id].data[o] # 0 => Covers(buffer[id].shape, o) /\ buffer'[id].data[o] = v
           /\ Covers(buffer[id].shape, o) /\ v \in buffer[id].shape.filter => buffer'[id].data[o] = v,
         \A r \in Request : tag[r].state = "new" => view'[r] = view[r],
         \A r \in Posted : \A x \in Obs \ {o} : view'[r][x] = view[r][x],
         \A r \in Posted : Covers(tag[r].shape, o) =>
           /\ view'[r][o] # 0 => view'[r][o] = v
           /\ v \in tag[r].shape.filter => view'[r][o] = v
  PROVE  VInv'
<1>1. Posted' = Posted /\ Alive' = Alive /\ tag' = tag
  BY DEF Posted, Alive
<1>2. db'[o] = v /\ \A x \in Obs \ {o} : db'[x] = db[x]
  BY ViewFacts DEF Data
<1>3. ASSUME NEW id \in Alive PROVE Current(buffer'[id], db')
  <2>1. Current(buffer[id], db)
    BY DEF VInv
  <2> SUFFICES ASSUME NEW x \in Obs
               PROVE  /\ buffer'[id].data[x] # 0 =>
                           Covers(buffer'[id].shape, x) /\ buffer'[id].data[x] = db'[x]
                      /\ /\ buffer'[id].status \in {"rows", "complete"} /\ Covers(buffer'[id].shape, x)
                         /\ db'[x] \in buffer'[id].shape.filter
                         => buffer'[id].data[x] = db'[x]
    BY DEF Current
  <2>2. CASE x = o
    BY <1>2, <2>2
  <2>3. CASE x # o
    BY <1>2, <2>1, <2>3 DEF Current
  <2> QED  BY <2>2, <2>3
<1>4. ASSUME NEW r \in Posted PROVE Shows(view'[r], tag[r], buffer', db')
  <2>1. Shows(view[r], tag[r], buffer, db) /\ ToSet(tag[r].mBackendBuffers) \subseteq Alive
    BY DEF VInv
  <2> SUFFICES ASSUME NEW x \in Obs, Covers(tag[r].shape, x)
               PROVE  /\ view'[r][x] # 0 => view'[r][x] = db'[x]
                      /\ \A k \in ToSet(tag[r].mBackendBuffers) :
                           /\ buffer'[k].status \in {"rows", "complete"} /\ Covers(buffer'[k].shape, x)
                           /\ buffer'[k].shape.filter = tag[r].shape.filter
                           /\ db'[x] \in tag[r].shape.filter
                           => view'[r][x] = db'[x]
    BY DEF Shows
  <2>2. CASE x = o
    BY <1>2, <2>2
  <2>3. CASE x # o
    <3>1. view'[r][x] = view[r][x] /\ db'[x] = db[x]
      BY <1>2, <2>3
    <3>2. \A k \in ToSet(tag[r].mBackendBuffers) :
            buffer'[k].shape = buffer[k].shape /\ buffer'[k].status = buffer[k].status
      BY <2>1
    <3> QED  BY <2>1, <3>1, <3>2 DEF Shows
  <2> QED  BY <2>2, <2>3
<1> QED  BY <1>1, <1>3, <1>4 DEF VInv

(* An observation is changed, created or dropped.                          *)
LEMMA ChangeShows ==
  ASSUME IInv, VInv, Change
  PROVE  VInv'
<1>1. PICK o \in Obs : BackendDrop(o) \/ \E v \in 1 .. MaxValue : BackendUpdate(o, v) \/ BackendCreate(o, v)
  BY DEF Change
<1>2. 0 \in Value /\ \A v \in 1 .. MaxValue : v \in Value /\ v # 0
  BY CacheAssumption DEF Value
<1>3. /\ \A id \in Ids : buffer[id] \in Buffer /\ buffer[id].data \in Data
      /\ Alive \subseteq Ids /\ db \in Data
      /\ \A r \in Request : view[r] \in Data
      /\ \A r \in Posted : r \in Request
  BY InvFacts, ViewFacts
<1>4. \A id \in Alive : Current(buffer[id], db)
  BY DEF VInv
<1>5. \A id \in Told(o) : id \in Alive /\ Covers(buffer[id].shape, o)
  BY DEF Told
<1>6. \A r \in Posted : Covers(tag[r].shape, o) =>
        \E id \in ToSet(tag[r].mBackendBuffers) :
          id \in Told(o) /\ id \in Ids /\ buffer[id].shape.filter = tag[r].shape.filter
  BY CoveredBy DEF Told
<1>7. ASSUME NEW v \in 1 .. MaxValue, NEW filtered \in BOOLEAN, NEW ids \in SUBSET Told(o),
             db' = [db EXCEPT ![o] = v], UNCHANGED << mBuffers, tag >>,
             Tell(db', [id \in Ids |-> {o}], filtered, ids),
             filtered => db[o] = 0 /\ ids = {id \in Told(o) : v \in buffer[id].shape.filter},
             ~filtered => ids = Told(o)
      PROVE  VInv'
  <2>1. db' \in Data /\ db'[o] = v
    BY <1>2, <1>3, <1>7 DEF Data
  <2>2. ASSUME NEW id \in Ids
        PROVE  /\ buffer'[id].shape = buffer[id].shape /\ buffer'[id].status = buffer[id].status
               /\ \A x \in Obs : buffer'[id].data[x] =
                    IF id \in ids /\ x = o THEN v ELSE buffer[id].data[x]
    <3>1. buffer'[id] = IF id \in ids THEN [buffer[id] EXCEPT !.data = Put(@, db', {o})] ELSE buffer[id]
      BY <1>7 DEF Tell
    <3>2. \A x \in Obs : Put(buffer[id].data, db', {o})[x] = IF x = o THEN v ELSE buffer[id].data[x]
      BY <2>1 DEF Put
    <3>3. CASE id \in ids
      <4> DEFINE data == Put(buffer[id].data, db', {o})
      <4>1. buffer'[id] = [buffer[id] EXCEPT !.data = data]
        BY <3>1, <3>3
      <4> HIDE DEF data
      <4>2. /\ buffer'[id].shape = buffer[id].shape /\ buffer'[id].status = buffer[id].status
            /\ buffer'[id].data = data
        BY <1>3, <4>1 DEF Buffer
      <4> QED  BY <3>2, <3>3, <4>2 DEF data
    <3>4. CASE id \notin ids
      BY <3>1, <3>4
    <3> QED  BY <3>3, <3>4
  <2>3. ASSUME NEW id \in Alive
        PROVE  /\ buffer'[id].shape = buffer[id].shape /\ buffer'[id].status = buffer[id].status
               /\ \A x \in Obs \ {o} : buffer'[id].data[x] = buffer[id].data[x]
               /\ buffer'[id].data[o] # 0 => Covers(buffer[id].shape, o) /\ buffer'[id].data[o] = v
               /\ Covers(buffer[id].shape, o) /\ v \in buffer[id].shape.filter => buffer'[id].data[o] = v
    <3>1. id \in Ids
      BY <1>3
    <3>2. CASE id \in ids
      BY <1>5, <2>2, <3>1, <3>2
    <3>3. CASE id \notin ids
      <4>1. Covers(buffer[id].shape, o) => filtered /\ v \notin buffer[id].shape.filter
        BY <1>7, <3>3 DEF Told
      <4>2. buffer[id].data[o] # 0 => Covers(buffer[id].shape, o) /\ buffer[id].data[o] = db[o]
        BY <1>4 DEF Current
      <4>3. buffer[id].data[o] = 0
        BY <1>7, <4>1, <4>2
      <4> QED  BY <2>2, <3>1, <3>3, <4>1, <4>3
    <3> QED  BY <3>2, <3>3
  <2> DEFINE Which(r) == UNION {[k \in Ids |-> {o}][id] \cap Passed(tag[r].shape, db', filtered) :
                                  id \in ids \cap ToSet(tag[r].mBackendBuffers)}
  <2>4. view' = [r \in Request |-> IF r \in Posted THEN Put(view[r], db', Which(r)) ELSE view[r]]
    BY <1>7 DEF Tell
  <2>5. ASSUME NEW r \in Posted, NEW x \in Obs
        PROVE  x \in Which(r) <=>
                 /\ x = o /\ o \in Passed(tag[r].shape, db', filtered)
                 /\ \E id \in ids : id \in ToSet(tag[r].mBackendBuffers)
    <3>1. \A id \in ids : id \in Ids /\ [k \in Ids |-> {o}][id] = {o}
      BY <1>3, <1>5
    <3> QED  BY <3>1
  <2>6. \A r \in Posted : o \in Passed(tag[r].shape, db', filtered) <=>
          Covers(tag[r].shape, o) /\ (filtered => v \in tag[r].shape.filter)
    BY <1>2, <2>1 DEF Passed, Held
  <2> HIDE DEF Which
  <2>7. ASSUME NEW r \in Posted, NEW x \in Obs
        PROVE  view'[r][x] = IF x \in Which(r) THEN db'[x] ELSE view[r][x]
    <3>1. view'[r] = Put(view[r], db', Which(r))
      BY <1>3, <2>4
    <3> QED  BY <3>1 DEF Put
  <2>8. view' \in [Request -> Data]
    <3>1. \A r \in Request : view'[r] \in Data
      BY <1>3, <2>1, <2>4, PutIs
    <3> QED  BY <2>4, <3>1
  <2>9. \A r \in Request : tag[r].state = "new" => view'[r] = view[r]
    BY <2>4 DEF Posted
  <2>10. \A r \in Posted : \A x \in Obs \ {o} : view'[r][x] = view[r][x]
    BY <2>5, <2>7
  <2>11. ASSUME NEW r \in Posted, Covers(tag[r].shape, o)
         PROVE  /\ view'[r][o] # 0 => view'[r][o] = v
                /\ v \in tag[r].shape.filter => view'[r][o] = v
    <3>1. PICK id \in ToSet(tag[r].mBackendBuffers) :
            id \in Told(o) /\ buffer[id].shape.filter = tag[r].shape.filter
      BY <1>6, <2>11
    <3>2. CASE ~filtered \/ v \in tag[r].shape.filter
      <4>1. id \in ids
        BY <1>7, <3>1, <3>2
      <4>2. o \in Which(r)
        BY <2>5, <2>6, <2>11, <3>2, <4>1
      <4> QED  BY <2>1, <2>7, <4>2
    <3>3. CASE filtered /\ v \notin tag[r].shape.filter
      <4>1. db[o] = 0
        BY <1>7, <3>3
      <4>2. Shows(view[r], tag[r], buffer, db)
        BY DEF VInv
      <4>3. view[r][o] = 0
        BY <2>11, <4>1, <4>2 DEF Shows
      <4> QED  BY <2>1, <2>7, <3>3, <4>3
    <3> QED  BY <3>2, <3>3
  <2>12. v \in Value
    BY <1>2
  <2> QED  BY <1>7, <2>3, <2>8, <2>9, <2>10, <2>11, <2>12, ToldShows
<1>8. ASSUME NEW v \in 1 .. MaxValue, BackendUpdate(o, v) PROVE VInv'
  <2>1. /\ db' = [db EXCEPT ![o] = v] /\ UNCHANGED << mBuffers, tag >>
        /\ Tell(db', [id \in Ids |-> {o}], FALSE, Told(o))
    BY <1>8 DEF BackendUpdate, UpdateFilters
  <2> QED  BY <1>7, <2>1
<1>9. ASSUME NEW v \in 1 .. MaxValue, BackendCreate(o, v) PROVE VInv'
  <2> DEFINE ids == {id \in Told(o) : v \in buffer[id].shape.filter}
  <2>1. /\ db' = [db EXCEPT ![o] = v] /\ UNCHANGED << mBuffers, tag >> /\ db[o] = 0
        /\ Tell(db', [id \in Ids |-> {o}], TRUE, ids) /\ ids \in SUBSET Told(o)
    BY <1>9 DEF BackendCreate
  <2> QED  BY <1>7, <2>1
<1>10. ASSUME BackendDrop(o) PROVE VInv'
  <2>1. /\ db' = [db EXCEPT ![o] = 0] /\ UNCHANGED << mBuffers, tag >>
        /\ buffer' = [id \in Ids |->
             IF id \in Told(o) THEN [buffer[id] EXCEPT !.data[o] = 0] ELSE buffer[id]]
        /\ view' = [r \in Request |->
             IF /\ Told(o) \cap ToSet(tag[r].mBackendBuffers) # {}
                /\ tag[r].shape.t0 <= o[2] /\ o[2] <= tag[r].shape.t1
               THEN [view[r] EXCEPT ![o] = 0] ELSE view[r]]
    BY <1>10 DEF BackendDrop
  <2>2. ASSUME NEW data \in Data
        PROVE  /\ [data EXCEPT ![o] = 0] \in Data /\ [data EXCEPT ![o] = 0][o] = 0
               /\ \A x \in Obs \ {o} : [data EXCEPT ![o] = 0][x] = data[x]
    BY <1>2 DEF Data
  <2>3. ASSUME NEW id \in Alive
        PROVE  /\ buffer'[id].shape = buffer[id].shape /\ buffer'[id].status = buffer[id].status
               /\ \A x \in Obs \ {o} : buffer'[id].data[x] = buffer[id].data[x]
               /\ buffer'[id].data[o] = 0
    <3>1. id \in Ids
      BY <1>3
    <3>2. CASE id \in Told(o)
      <4> DEFINE data == [buffer[id].data EXCEPT ![o] = 0]
      <4>1. buffer'[id] = [buffer[id] EXCEPT !.data = data]
        BY <1>3, <2>1, <3>1, <3>2 DEF Buffer
      <4> HIDE DEF data
      <4>2. /\ buffer'[id].shape = buffer[id].shape /\ buffer'[id].status = buffer[id].status
            /\ buffer'[id].data = data
        BY <1>3, <3>1, <4>1 DEF Buffer
      <4> QED  BY <1>3, <2>2, <3>1, <4>2 DEF data
    <3>3. CASE id \notin Told(o)
      <4>1. buffer'[id] = buffer[id] /\ ~Covers(buffer[id].shape, o)
        BY <2>1, <3>1, <3>3 DEF Told
      <4>2. buffer[id].data[o] = 0
        BY <1>4, <4>1 DEF Current
      <4> QED  BY <4>1, <4>2
    <3> QED  BY <3>2, <3>3
  <2>4. \A id \in Alive : 0 \notin buffer[id].shape.filter
    BY <1>3, ViewFacts, NoneAccepted
  <2>5. view' \in [Request -> Data]
    <3>1. \A r \in Request : view'[r] \in Data
      BY <1>3, <2>1, <2>2
    <3> QED  BY <2>1, <3>1
  <2>6. \A r \in Request : \A x \in Obs \ {o} : view'[r][x] = view[r][x]
    BY <1>3, <2>1, <2>2
  <2>7. ASSUME NEW r \in Request, tag[r].state = "new" PROVE view'[r] = view[r]
    <3>1. view[r] = NoData
      BY <2>7 DEF VInv
    <3>2. NoData \in Data /\ [NoData EXCEPT ![o] = 0] = NoData
      BY <1>2 DEF NoData, Data
    <3> QED  BY <2>1, <3>1, <3>2
  <2>8. ASSUME NEW r \in Posted, Covers(tag[r].shape, o)
        PROVE  view'[r][o] = 0
    <3>1. Told(o) \cap ToSet(tag[r].mBackendBuffers) # {}
      BY <1>6, <2>8
    <3>2. tag[r].shape.t0 <= o[2] /\ o[2] <= tag[r].shape.t1
      BY <2>8 DEF Covers
    <3> QED  BY <1>3, <2>1, <2>2, <3>1, <3>2
  <2>9. \A r \in Posted : Covers(tag[r].shape, o) =>
          /\ view'[r][o] # 0 => view'[r][o] = 0
          /\ 0 \in tag[r].shape.filter => view'[r][o] = 0
    BY <2>8
  <2>10. \A id \in Alive :
           /\ buffer'[id].shape = buffer[id].shape /\ buffer'[id].status = buffer[id].status
           /\ \A x \in Obs \ {o} : buffer'[id].data[x] = buffer[id].data[x]
           /\ buffer'[id].data[o] # 0 => Covers(buffer[id].shape, o) /\ buffer'[id].data[o] = 0
           /\ Covers(buffer[id].shape, o) /\ 0 \in buffer[id].shape.filter => buffer'[id].data[o] = 0
    BY <2>3, <2>4
  <2>11. \A r \in Posted : \A x \in Obs \ {o} : view'[r][x] = view[r][x]
    BY <1>3, <2>6
  <2>12. 0 \in Value /\ UNCHANGED << mBuffers, tag >> /\ db' = [db EXCEPT ![o] = 0]
    BY <1>2, <2>1
  <2> QED  BY <2>5, <2>7, <2>9, <2>10, <2>11, <2>12, ToldShows
<1> QED  BY <1>1, <1>8, <1>9, <1>10

(* The query of a buffer ends; what is shown stays the same.               *)
LEMMA CompleteShows ==
  ASSUME IInv, VInv, NEW id \in Ids, NEW error \in BOOLEAN, Complete(id, error)
  PROVE  VInv'
<1> DEFINE after == IF error THEN "failed" ELSE "complete"
           b == [buffer[id] EXCEPT !.status = after]
<1>1. /\ Len(buffer) \in Nat /\ Ids = 1 .. Len(buffer) /\ DOMAIN buffer = 1 .. Len(buffer)
      /\ buffer[id] \in Buffer
      /\ \A r \in Request : tag[r] \in Tag
  BY InvFacts
<1>2. /\ buffer[id].status = IF error THEN "asked" ELSE "rows"
      /\ buffer' = [buffer EXCEPT ![id].status = after]
      /\ tag' = [r \in Request |-> IF r \in Users(id) THEN BackendCompleted(tag[r], error) ELSE tag[r]]
      /\ UNCHANGED << mBuffers, view, db >>
  BY DEF Complete
<1>3. after \in {"rows", "complete"} => buffer[id].status \in {"rows", "complete"}
  BY <1>2
<1> HIDE DEF after
<1>4. b.shape = buffer[id].shape /\ b.status = after /\ b.data = buffer[id].data
  BY <1>1 DEF Buffer
<1>5. buffer' = [k \in 1 .. Len(buffer) |-> IF k = id THEN b ELSE buffer[k]]
  BY <1>1, <1>2
<1> HIDE DEF b
<1>6. ASSUME NEW k \in Ids
      PROVE  /\ buffer'[k].shape = buffer[k].shape /\ buffer'[k].data = buffer[k].data
             /\ buffer'[k].status \in {"rows", "complete"} => buffer[k].status \in {"rows", "complete"}
  BY <1>1, <1>3, <1>4, <1>5
<1>7. ASSUME NEW r \in Request
      PROVE  /\ tag'[r].state = tag[r].state /\ tag'[r].shape = tag[r].shape
             /\ tag'[r].mBackendBuffers = tag[r].mBackendBuffers
  BY <1>1, <1>2, TagIs
<1>8. Posted' = Posted /\ Alive' = Alive /\ Alive \subseteq Ids
  BY <1>2, <1>7, ViewFacts DEF Posted, Alive
<1>9. \A k \in Alive : Current(buffer'[k], db)
  BY <1>6, <1>8 DEF VInv, Current
<1>10. ASSUME NEW r \in Posted PROVE Shows(view[r], tag'[r], buffer', db)
  <2>1. /\ r \in Request /\ Shows(view[r], tag[r], buffer, db)
        /\ ToSet(tag[r].mBackendBuffers) \subseteq Ids
    BY InvFacts, ViewFacts DEF VInv
  <2> QED  BY <1>6, <1>7, <2>1 DEF Shows
<1>11. \A r \in Posted' : ToSet(tag'[r].mBackendBuffers) \subseteq Alive'
  BY <1>7, <1>8, ViewFacts DEF VInv
<1> QED  BY <1>2, <1>7, <1>8, <1>9, <1>10, <1>11 DEF VInv

(* Buffers that are cleaned have no users.                                 *)
LEMMA CleanShows ==
  ASSUME IInv, VInv, Clean
  PROVE  VInv'
<1>1. PICK old \in SUBSET {id \in ToSet(mBuffers) : buffer[id].mUseCount = 0} :
        mBuffers' = Remaining(old)[Len(mBuffers)] /\ UNCHANGED << buffer, clients, db >>
  BY DEF Clean
<1>2. Alive' = Alive \ old
  BY <1>1, RemainingKeeps DEF IInv, Alive
<1>3. Posted' = Posted /\ UNCHANGED << buffer, tag, view, db >>
  BY <1>1 DEF Posted, clients
<1>4. ASSUME NEW r \in Posted, NEW id \in ToSet(tag[r].mBackendBuffers) PROVE id \in Alive'
  <2>1. id \in Alive /\ id \in 1 .. Len(buffer)
    BY InvFacts DEF VInv
  <2>2. Cardinality(Users(id)) # 0
    <3>1. IsFiniteSet(Users(id))
      <4>1. IsFiniteSet(Posted) /\ Users(id) \subseteq Posted
        BY DEF IInv, TypeInv, Users
      <4> QED  BY <4>1, FS_Subset
    <3>2. r \in Users(id)
      BY DEF Users
    <3> QED  BY <3>1, <3>2, FS_EmptySet
  <2>3. id \notin old
    BY <1>1, <2>1, <2>2 DEF IInv, CountInv
  <2> QED  BY <1>2, <2>1, <2>3
<1>5. \A id \in Alive' : Current(buffer'[id], db')
  BY <1>2, <1>3 DEF VInv
<1> QED  BY <1>3, <1>4, <1>5 DEF VInv

(* The view of a dropped request is no concern of the others.              *)
LEMMA DropShows ==
  ASSUME IInv, VInv, NEW r \in Request, DropRequest(r)
  PROVE  VInv'
<1> DEFINE ids == ToSet(tag[r].mBackendBuffers)
<1>1. /\ buffer' = Used(buffer, ids, -1)
      /\ tag' = [tag EXCEPT ![r] = [NewTag EXCEPT !.state = "dropped"]]
      /\ view' = [view EXCEPT ![r] = NoData]
      /\ UNCHANGED << mBuffers, db >>
  BY DEF DropRequest
<1>2. [NewTag EXCEPT !.state = "dropped"].state = "dropped"
  BY DEF NewTag
<1>3. NoData \in Data
  BY CacheAssumption DEF NoData, Data, Value
<1>4. /\ tag'[r].state = "dropped" /\ \A q \in Request \ {r} : tag'[q] = tag[q]
  <2>1. tag \in [Request -> Tag]
    BY DEF IInv, TypeInv
  <2> QED  BY <1>1, <1>2, <2>1
<1>5. view' \in [Request -> Data] /\ \A q \in Request \ {r} : view'[q] = view[q]
  <2>1. view \in [Request -> Data]
    BY DEF VInv
  <2> QED  BY <1>1, <1>3, <2>1
<1>6. Posted' = Posted \ {r}
  BY <1>4 DEF Posted
<1>7. Alive' = Alive /\ Ids = 1 .. Len(buffer) /\ Alive \subseteq Ids
  BY <1>1, InvFacts, ViewFacts DEF Alive
<1>8. ASSUME NEW id \in Ids
      PROVE  /\ buffer'[id].shape = buffer[id].shape /\ buffer'[id].status = buffer[id].status
             /\ buffer'[id].data = buffer[id].data
  <2>1. buffer'[id] = IF id \in ids THEN [buffer[id] EXCEPT !.mUseCount = @ + (-1)] ELSE buffer[id]
    BY <1>1 DEF Used, Ids
  <2>2. buffer[id] \in Buffer
    BY InvFacts
  <2> HIDE DEF ids
  <2> QED  BY <2>1, <2>2 DEF Buffer
<1>9. \A id \in Alive : Current(buffer'[id], db)
  BY <1>7, <1>8 DEF VInv, Current
<1>10. ASSUME NEW q \in Posted'
       PROVE  /\ Shows(view'[q], tag'[q], buffer', db)
              /\ ToSet(tag'[q].mBackendBuffers) \subseteq Alive
  <2>1. q \in Posted /\ q \in Request /\ tag'[q] = tag[q] /\ view'[q] = view[q]
    BY <1>4, <1>5, <1>6 DEF Posted
  <2>2. Shows(view[q], tag[q], buffer, db) /\ ToSet(tag[q].mBackendBuffers) \subseteq Alive
    BY <2>1 DEF VInv
  <2> QED  BY <1>7, <1>8, <2>1, <2>2 DEF Shows
<1>11. \A q \in Request : tag'[q].state = "new" => view'[q] = NoData
  BY <1>4, <1>5 DEF VInv
<1> QED  BY <1>1, <1>5, <1>7, <1>9, <1>10, <1>11 DEF VInv

(* A new request shows what its buffers hold; the buffers made for it hold *)
(* nothing.                                                                *)
LEMMA PostShows ==
  ASSUME IInv, VInv, NEW r \in Request, PostRequest(r)
  PROVE  VInv'
<1>1. PICK shape \in Shapes :
        LET todo == Todo(shape)
            made == todo.made
            ids == ToSet(todo.shared)
            t == [state |-> "posted", shape |-> shape, mBackendBuffers |-> todo.shared,
                  mCountIncomplete |-> Cardinality(Open(made, ids)),
                  mCountFailed |-> Cardinality({id \in ids : made[id].status = "failed"})]
        IN  /\ tag[r].state = "new"
            /\ buffer' = Used(made, ids, 1)
            /\ mBuffers' = Listed(made)[Len(made)]
            /\ tag' = [tag EXCEPT ![r] = t]
            /\ view' = [view EXCEPT ![r] = Sent(todo, shape, @)[Len(todo.shared)]]
            /\ UNCHANGED db
  BY DEF PostRequest
<1> DEFINE todo == Todo(shape)
           made == todo.made
           ids == ToSet(todo.shared)
           t == [state |-> "posted", shape |-> shape, mBackendBuffers |-> todo.shared,
                 mCountIncomplete |-> Cardinality(Open(made, ids)),
                 mCountFailed |-> Cardinality({id \in ids : made[id].status = "failed"})]
           shown == Sent(todo, shape, NoData)[Len(todo.shared)]
<1>2. shape \in Shape /\ shape.t0 <= shape.t1
  BY CacheAssumption
<1>3. TodoInv(todo, shape)
  BY <1>2, TodoIs DEF IInv
<1>4. /\ tag[r].state = "new" /\ buffer' = Used(made, ids, 1)
      /\ mBuffers' = Listed(made)[Len(made)] /\ tag' = [tag EXCEPT ![r] = t]
      /\ view' = [view EXCEPT ![r] = Sent(todo, shape, @)[Len(todo.shared)]]
      /\ db' = db
  BY <1>1
<1>5. t.state = "posted" /\ t.shape = shape /\ t.mBackendBuffers = todo.shared
  OBVIOUS
<1> HIDE DEF todo, t
<1>6. view[r] = NoData /\ view'[r] = shown /\ \A q \in Request \ {r} : view'[q] = view[q]
  <2>1. view \in [Request -> Data] /\ view[r] = NoData
    BY <1>4 DEF VInv
  <2> QED  BY <1>4, <2>1
<1>7. tag'[r] = t /\ \A q \in Request \ {r} : tag'[q] = tag[q]
  <2>1. tag \in [Request -> Tag]
    BY DEF IInv, TypeInv
  <2> QED  BY <1>4, <2>1
<1>8. Posted' = Posted \cup {r} /\ r \notin Posted
  BY <1>4, <1>5, <1>7 DEF Posted
<1>9. /\ made \in Seq(Buffer) /\ Len(made) \in Nat /\ DOMAIN made = 1 .. Len(made)
      /\ Len(buffer) \in Nat /\ Len(buffer) <= Len(made) /\ Ids = 1 .. Len(buffer)
      /\ \A id \in 1 .. Len(buffer) : made[id] = buffer[id]
      /\ \A id \in Fresh(made) : made[id].status = "asked" /\ made[id].data = NoData
      /\ todo.shared \in Seq(1 .. Len(made))
      /\ ids \subseteq Alive \cup Fresh(made) /\ ids \subseteq 1 .. Len(made)
  <2>1. todo.shared \in Seq(1 .. Len(made)) /\ made \in Seq(Buffer)
    BY <1>3 DEF TodoInv, TodoType
  <2>2. ids \subseteq 1 .. Len(made) /\ Len(made) \in Nat /\ DOMAIN made = 1 .. Len(made)
    BY <2>1 DEF ToSet
  <2>3. ids \subseteq Alive \cup Fresh(made)
    BY <1>3 DEF TodoInv, Alive
  <2>4. \A id \in Fresh(made) : made[id].status = "asked" /\ made[id].data = NoData
    BY <1>3 DEF TodoInv, FreshOK
  <2>5. Len(buffer) <= Len(made) /\ \A id \in 1 .. Len(buffer) : made[id] = buffer[id]
    BY <1>3 DEF TodoInv
  <2> QED  BY <2>1, <2>2, <2>3, <2>4, <2>5, InvFacts
<1>10. Alive' = Alive \cup Fresh(made) /\ Alive \subseteq Ids
  <2>1. ToSet(Listed(made)[Len(made)]) = ToSet(mBuffers) \cup Fresh(made)
    BY <1>2, <1>3, ListedKeeps DEF IInv
  <2> QED  BY <1>4, <2>1, ViewFacts DEF Alive
<1>11. ASSUME NEW id \in Alive \cup Fresh(made)
       PROVE  id \in 1 .. Len(made) /\ Current(made[id], db) /\ made[id].data \in Data
  <2>1. CASE id \in Alive
    <3>1. id \in 1 .. Len(buffer) /\ made[id] = buffer[id] /\ id \in 1 .. Len(made)
      BY <1>9, <1>10, <2>1
    <3> QED  BY <1>9, <2>1, <3>1, ViewFacts DEF VInv
  <2>2. CASE id \in Fresh(made)
    <3>1. id \in 1 .. Len(made) /\ made[id].status = "asked" /\ made[id].data = NoData
      BY <1>9, <2>2 DEF Fresh
    <3>2. \A o \in Obs : made[id].data[o] = 0
      BY <3>1 DEF NoData
    <3>3. Current(made[id], db)
      BY <3>1, <3>2 DEF Current
    <3>4. NoData \in Data
      BY CacheAssumption DEF NoData, Data, Value
    <3> QED  BY <3>1, <3>3, <3>4
  <2> QED  BY <2>1, <2>2
<1> HIDE DEF made, ids, shown
<1>12. shown \in Data /\ Shows(shown, t, made, db)
  <2>1. todo.shared \in Seq(1 .. Len(todo.made))
    BY <1>9 DEF made
  <2>2. \A id \in ToSet(todo.shared) : Current(todo.made[id], db) /\ todo.made[id].data \in Data
    BY <1>9, <1>11 DEF made, ids
  <2> QED  BY <1>2, <1>5, <2>1, <2>2, SentKeeps DEF made, shown
<1>13. ASSUME NEW id \in 1 .. Len(made)
       PROVE  /\ buffer'[id].shape = made[id].shape /\ buffer'[id].status = made[id].status
              /\ buffer'[id].data = made[id].data
  <2>1. buffer'[id] = IF id \in ids THEN [made[id] EXCEPT !.mUseCount = @ + 1] ELSE made[id]
    BY <1>4, <1>9 DEF Used
  <2>2. made[id] \in Buffer
    BY <1>9
  <2> QED  BY <2>1, <2>2 DEF Buffer
<1>14. \A id \in Alive' : Current(buffer'[id], db)
  BY <1>10, <1>11, <1>13 DEF Current
<1>15. ASSUME NEW q \in Posted'
       PROVE  /\ ToSet(tag'[q].mBackendBuffers) \subseteq Alive'
              /\ Shows(view'[q], tag'[q], buffer', db)
  <2>1. CASE q = r
    <3>1. ToSet(t.mBackendBuffers) = ids
      BY <1>5 DEF ids
    <3>2. Shows(shown, t, buffer', db)
      BY <1>9, <1>12, <1>13, <3>1 DEF Shows
    <3> QED  BY <1>6, <1>7, <1>9, <1>10, <2>1, <3>1, <3>2
  <2>2. CASE q # r
    <3>1. q \in Posted /\ q \in Request /\ tag'[q] = tag[q] /\ view'[q] = view[q]
      BY <1>6, <1>7, <1>8, <2>2 DEF Posted
    <3>2. Shows(view[q], tag[q], buffer, db) /\ ToSet(tag[q].mBackendBuffers) \subseteq Alive
      BY <3>1 DEF VInv
    <3>3. \A id \in ToSet(tag[q].mBackendBuffers) :
            buffer'[id].shape = buffer[id].shape /\ buffer'[id].status = buffer[id].status
      <4>1. \A id \in Alive : id \in 1 .. Len(made) /\ made[id] = buffer[id]
        BY <1>9, <1>10
      <4> QED  BY <1>13, <3>2, <4>1
    <3> QED  BY <1>10, <3>1, <3>2, <3>3 DEF Shows
  <2> QED  BY <2>1, <2>2
<1>16. view' \in [Request -> Data]
  <2>1. view \in [Request -> Data]
    BY DEF VInv
  <2> QED  BY <1>4, <1>6, <1>12, <2>1
<1>17. \A q \in Request : tag'[q].state = "new" => view'[q] = NoData
  BY <1>5, <1>6, <1>7 DEF VInv
<1> QED  BY <1>4, <1>14, <1>15, <1>16, <1>17 DEF VInv

(* Buffers in the cache and clients hold nothing that is out of date, and  *)
(* all that has been answered (CacheTag::filterData, onBackendNewData,     *)
(* onBackendUpdateData, onBackendDropData).                                *)
THEOREM ViewsInductive == Spec => []VInv
<1>1. Init => VInv
  <2> SUFFICES ASSUME Init PROVE VInv
    OBVIOUS
  <2>1. Posted = {} /\ Alive = {}
    BY DEF Init, Posted, NewTag, Alive, ToSet
  <2>2. NoData \in Data
    BY CacheAssumption DEF NoData, Data, Value
  <2>3. view = [r \in Request |-> NoData]
    BY DEF Init
  <2> QED  BY <2>1, <2>2, <2>3 DEF VInv
<1>2. IInv /\ VInv /\ [Next]_vars => VInv'
  <2> SUFFICES ASSUME IInv, VInv, [Next]_vars PROVE VInv'
    OBVIOUS
  <2>1. ASSUME NEW r \in Request, PostRequest(r) \/ DropRequest(r) PROVE VInv'
    BY <2>1, PostShows, DropShows
  <2>2. ASSUME Clean PROVE VInv'
    BY <2>2, CleanShows
  <2>3. ASSUME NEW id \in Ids, Answer(id) PROVE VInv'
    BY <2>3, AnswerShows
  <2>4. ASSUME NEW id \in Ids, NEW error \in BOOLEAN, Complete(id, error) PROVE VInv'
    BY <2>4, CompleteShows
  <2>5. ASSUME Change PROVE VInv'
    BY <2>5, ChangeShows
  <2>6. ASSUME UNCHANGED vars PROVE VInv'
    BY <2>6 DEF vars, clients, VInv, Posted, Alive
  <2> QED  BY <2>1, <2>2, <2>3, <2>4, <2>5, <2>6 DEF Next, BackendStep
<1> QED  BY <1>1, <1>2, CacheInductive, PTL DEF Spec

(* What a client of the cache shows when its request is complete without   *)
(* an error is what the backend holds, of all that the request covers and  *)
(* its filter accepts (CacheTag::filterData, findRange and the signals of  *)
(* the buffers, CachingAccess.cc).                                         *)
THEOREM CacheIsCurrent == Spec => []ViewCurrent
<1>1. IInv /\ VInv => ViewCurrent
  <2> SUFFICES ASSUME IInv, VInv, NEW r \in Posted, answers[r] = << FALSE >>,
                      NEW o \in Obs, Covers(tag[r].shape, o)
               PROVE  view[r][o] = db[o] \/ (view[r][o] = 0 /\ db[o] \notin tag[r].shape.filter)
    BY DEF ViewCurrent
  <2> DEFINE ids == ToSet(tag[r].mBackendBuffers)
  <2>1. Shows(view[r], tag[r], buffer, db)
    BY DEF VInv
  <2>2. answers[r] = IF Open(buffer, ids) # {} THEN << >> ELSE << Failed(buffer, ids) # {} >>
    BY DEF IInv, RequestOK
  <2>3. Open(buffer, ids) = {} /\ Failed(buffer, ids) = {}
    <3> HIDE DEF ids
    <3>1. << >> # << FALSE >>
      OBVIOUS
    <3>2. Open(buffer, ids) = {}
      BY <2>2, <3>1
    <3>3. << Failed(buffer, ids) # {} >>[1] = << FALSE >>[1]
      BY <2>2, <3>2
    <3> QED  BY <3>2, <3>3
  <2>4. PICK id \in ids : /\ id \in Ids /\ Covers(buffer[id].shape, o)
                          /\ buffer[id].shape.filter = tag[r].shape.filter
    BY CoveredBy
  <2>5. buffer[id].status \in Statuses
    BY <2>4, InvFacts DEF Buffer
  <2>6. buffer[id].status \in {"rows", "complete"}
    BY <2>3, <2>5 DEF Open, Failed, Statuses
  <2> QED  BY <2>1, <2>4, <2>6 DEF Shows
<1> QED  BY <1>1, CacheInductive, ViewsInductive, PTL
=============================================================================
