-------------------------- MODULE CorrectionsProofs --------------------------
(***************************************************************************)
(* Corrections made by hand keep flags and values in agreement, originals  *)
(* as they were and daily sums to WatchRR; what is typed or interpolated   *)
(* is what is stored; the buttons can be done to all that is selected: for *)
(* all cells and observations, tables of codes, texts and selections.      *)
(***************************************************************************)
EXTENDS Corrections, FiniteSetTheorems, WellFoundedInduction, TLAPS

(* Induction over the natural numbers, for a set of them. *)
LEMMA AllNumbers ==
  ASSUME NEW N \in SUBSET Nat, 0 \in N, \A n \in N : n + 1 \in N
  PROVE  Nat \subseteq N
<1> DEFINE R == {p \in Nat \X Nat : p[1] < p[2]}
           T == Nat \ N
<1>1. IsWellFoundedOn(R, Nat)
  <2>1. R = OpToRel(<, Nat)
    BY DEF OpToRel
  <2> QED  BY <2>1, NatLessThanWellFounded
<1>2. SUFFICES ASSUME T # {} PROVE FALSE
  OBVIOUS
<1>3. PICK t \in T : \A u \in T : ~ (<< u, t >> \in R)
  <2> HIDE DEF R, T
  <2>1. T \subseteq Nat
    BY DEF T
  <2> QED  BY <1>1, <1>2, <2>1, WFMin
<1>4. t \in Nat /\ t # 0 /\ t - 1 \in Nat /\ << t - 1, t >> \in R /\ (t - 1) + 1 = t
  OBVIOUS
<1>5. t - 1 \in N
  BY <1>3, <1>4
<1> QED  BY <1>4, <1>5

(* The least of some numbers, and of what they number. *)
LEMMA LeastNumber ==
  ASSUME NEW N \in SUBSET Nat, N # {}
  PROVE  \E m \in N : \A k \in N : m <= k
<1> DEFINE R == {p \in Nat \X Nat : p[1] < p[2]}
<1>1. IsWellFoundedOn(R, Nat)
  <2>1. R = OpToRel(<, Nat)
    BY DEF OpToRel
  <2> QED  BY <2>1, NatLessThanWellFounded
<1>2. PICK t \in N : \A u \in N : ~ (<< u, t >> \in R)
  <2> HIDE DEF R
  <2> QED  BY <1>1, WFMin
<1>3. ASSUME NEW k \in N PROVE t <= k
  <2>1. ~ (<< k, t >> \in R) /\ k \in Nat /\ t \in Nat
    BY <1>2
  <2> QED  BY <2>1
<1> QED  BY <1>3
LEMMA FirstOf ==
  ASSUME NEW lo \in Int, NEW D \in SUBSET Int, D # {}, \A d \in D : lo <= d
  PROVE  \E m \in D : \A d \in D : m <= d
<1> DEFINE N == {n \in Nat : lo + n \in D}
<1>1. PICK x \in D : TRUE
  OBVIOUS
<1>2. x - lo \in N
  BY <1>1
<1>3. PICK n \in N : \A k \in N : n <= k
  <2>1. N \in SUBSET Nat /\ N # {}
    BY <1>2
  <2> HIDE DEF N
  <2> QED  BY <2>1, LeastNumber
<1>4. ASSUME NEW d \in D PROVE lo + n <= d
  <2>1. d - lo \in N
    OBVIOUS
  <2>2. n <= d - lo
    BY <1>3, <2>1
  <2> QED  BY <2>2
<1> QED  BY <1>3, <1>4

(* A finite set of numbers lies between two. *)
LEMMA Bounded ==
  ASSUME NEW D \in SUBSET Int, IsFiniteSet(D)
  PROVE  \E b \in Nat : \A d \in D : 0 - b <= d /\ d <= b
<1>1. PICK n \in Nat : ExistsBijection(1 .. n, D)
  BY FS_NatBijection
<1>2. PICK f : f \in Bijection(1 .. n, D)
  BY <1>1 DEF ExistsBijection
<1>3. f \in [1 .. n -> D] /\ \A d \in D : \E i \in 1 .. n : f[i] = d
  BY <1>2 DEF Bijection, Injection, Surjection
<1> DEFINE N == {m \in Nat : m <= n => \E b \in Nat : \A i \in 1 .. m : 0 - b <= f[i] /\ f[i] <= b}
<1>4. 0 \in N
  <2>1. 0 \in Nat /\ \A i \in 1 .. 0 : 0 - 0 <= f[i] /\ f[i] <= 0
    OBVIOUS
  <2> QED  BY <2>1
<1>5. ASSUME NEW m \in N PROVE m + 1 \in N
  <2>1. SUFFICES ASSUME m + 1 <= n
                 PROVE  \E b \in Nat : \A i \in 1 .. m + 1 : 0 - b <= f[i] /\ f[i] <= b
    OBVIOUS
  <2>2. PICK b \in Nat : \A i \in 1 .. m : 0 - b <= f[i] /\ f[i] <= b
    BY <2>1
  <2>3. f[m + 1] \in Int /\ \A i \in 1 .. m : f[i] \in Int
    <3>1. \A i \in 1 .. n : f[i] \in Int
      BY <1>3
    <3>2. m \in Nat
      OBVIOUS
    <3> HIDE DEF N
    <3>3. m + 1 \in 1 .. n /\ \A i \in 1 .. m : i \in 1 .. n
      BY <2>1, <3>2
    <3> QED  BY <3>1, <3>3
  <2> DEFINE x == f[m + 1]
             c == IF x >= 0 THEN b + x ELSE b - x
  <2>4. c \in Nat /\ b <= c /\ 0 - c <= x /\ x <= c
    BY <2>3
  <2>5. ASSUME NEW i \in 1 .. m + 1 PROVE 0 - c <= f[i] /\ f[i] <= c
    <3>1. CASE i = m + 1
      BY <2>4, <3>1
    <3>2. CASE i # m + 1
      <4> HIDE DEF c, x
      <4>1. i \in 1 .. m
        BY <3>2
      <4> QED  BY <2>2, <2>3, <2>4, <4>1
    <3> QED  BY <3>1, <3>2
  <2> HIDE DEF c
  <2> QED  BY <2>4, <2>5
<1>6. n \in N
  <2>1. N \in SUBSET Nat
    OBVIOUS
  <2> HIDE DEF N
  <2> QED  BY <1>4, <1>5, <2>1, AllNumbers
<1>7. PICK b \in Nat : \A i \in 1 .. n : 0 - b <= f[i] /\ f[i] <= b
  BY <1>6
<1> QED  BY <1>3, <1>7

-----------------------------------------------------------------------------
(* The rules.  Apply goes through them in order. *)
Then(r, ci) == IF Matches(r.matcher, ci) THEN Updated(ci, r) ELSE ci
AppliedBy(fc, ci, A) == A = [n \in 0 .. Len(fc) |-> IF n = 0 THEN ci ELSE Then(fc[n], A[n - 1])]
LEMMA ByApplied ==
  ASSUME NEW fc, Len(fc) \in Nat, NEW ci
  PROVE  AppliedBy(fc, ci, Applied(fc, ci))
<1> DEFINE After(f, n) == IF n = 0 THEN ci ELSE Then(fc[n], f[n - 1])
           Solves(f, m) == f = [n \in 0 .. m |-> After(f, n)]
           N == {m \in Nat : \E f : Solves(f, m)}
<1>1. 0 \in N
  <2>1. Solves([n \in 0 .. 0 |-> ci], 0)
    OBVIOUS
  <2> QED  BY <2>1
<1>2. ASSUME NEW m \in N PROVE m + 1 \in N
  <2>1. PICK f : Solves(f, m)
    OBVIOUS
  <2> DEFINE g == [n \in 0 .. m + 1 |-> IF n <= m THEN f[n] ELSE After(f, n)]
  <2>2. ASSUME NEW n \in 0 .. m + 1 PROVE g[n] = After(g, n)
    <3>1. n # 0 => n - 1 \in 0 .. m + 1 /\ n - 1 <= m
      OBVIOUS
    <3>2. After(g, n) = After(f, n)
      BY <3>1
    <3>3. n <= m => f[n] = After(f, n)
      BY <2>1
    <3> QED  BY <3>2, <3>3
  <2>3. Solves(g, m + 1)
    BY <2>2
  <2>4. m + 1 \in Nat /\ \E h : Solves(h, m + 1)
    <3> HIDE DEF g, Solves
    <3> QED  BY <2>3
  <2> QED  BY <2>4
<1>3. Len(fc) \in N
  <2>1. N \in SUBSET Nat
    OBVIOUS
  <2> HIDE DEF N
  <2> QED  BY <1>1, <1>2, <2>1, AllNumbers
<1>4. \E f : Solves(f, Len(fc))
  BY <1>3
<1>5. Applied(fc, ci) = CHOOSE f : Solves(f, Len(fc))
  BY DEF Applied, Then
<1> HIDE DEF Solves
<1>6. Solves(Applied(fc, ci), Len(fc))
  BY <1>4, <1>5
<1> QED  BY <1>6 DEF Solves, AppliedBy

LEMMA ApplyThree ==
  ASSUME NEW r1, NEW r2, NEW r3, NEW ci
  PROVE  Apply(<< r1, r2, r3 >>, ci) = Then(r3, Then(r2, Then(r1, ci)))
<1> DEFINE fc == << r1, r2, r3 >>
           A == Applied(fc, ci)
<1>1. Len(fc) = 3 /\ fc[1] = r1 /\ fc[2] = r2 /\ fc[3] = r3
  OBVIOUS
<1> HIDE DEF fc
<1>2. AppliedBy(fc, ci, A)
  BY <1>1, ByApplied
<1> HIDE DEF A
<1>3. A[0] = ci
  BY <1>1, <1>2 DEF AppliedBy
<1>4. A[1] = Then(r1, A[0])
  BY <1>1, <1>2 DEF AppliedBy
<1>5. A[2] = Then(r2, A[1])
  BY <1>1, <1>2 DEF AppliedBy
<1>6. A[3] = Then(r3, A[2])
  BY <1>1, <1>2 DEF AppliedBy
<1>7. Apply(fc, ci) = A[3]
  BY <1>1 DEF Apply, A
<1> QED  BY <1>3, <1>4, <1>5, <1>6, <1>7 DEF fc

\* A pattern with one part permits what the part names.
LEMMA PermitIs ==
  ASSUME NEW f \in Flags, NEW vs \in SUBSET Values, vs # {}, NEW ci \in ControlInfo
  PROVE  Matches(PatternOf(<< Permit(f, vs) >>), ci) = (ci[f] \in vs)
<1> DEFINE text == << Permit(f, vs) >>
           part(g, p) == UNION {text[i].values : i \in {k \in DOMAIN text :
                            text[k].flag = g /\ text[k].permit = p}}
<1>1. DOMAIN text = {1} /\ text[1].flag = f /\ text[1].permit = TRUE /\ text[1].values = vs
  BY DEF Permit
<1> HIDE DEF text
<1>2. ASSUME NEW g, NEW p \in BOOLEAN
      PROVE  part(g, p) = IF g = f /\ p = TRUE THEN vs ELSE {}
  <2>1. CASE g = f /\ p = TRUE
    <3>1. {k \in DOMAIN text : text[k].flag = g /\ text[k].permit = p} = {1}
      BY <1>1, <2>1
    <3> QED  BY <1>1, <2>1, <3>1
  <2>2. CASE ~ (g = f /\ p = TRUE)
    <3>1. {k \in DOMAIN text : text[k].flag = g /\ text[k].permit = p} = {}
      BY <1>1, <2>2
    <3> QED  BY <2>2, <3>1
  <2> QED  BY <2>1, <2>2
<1>3. PatternOf(text) = [permitted |-> [g \in Flags |-> part(g, TRUE)],
                         forbidden |-> [g \in Flags |-> part(g, FALSE)]]
  <2>1. ~ \E i, k \in DOMAIN text : i # k /\ text[i].flag = text[k].flag
    BY <1>1
  <2> QED  BY <2>1 DEF PatternOf
<1> HIDE DEF part
<1>4. ASSUME NEW g \in Flags
      PROVE  AllowedBits(PatternOf(text), g) = IF g = f THEN vs ELSE Values
  <2>1. AllowedBits(PatternOf(text), g) =
          (IF part(g, TRUE) = {} THEN Values ELSE part(g, TRUE)) \ part(g, FALSE)
    BY <1>3 DEF AllowedBits
  <2> QED  BY <1>2, <2>1
<1>5. ci \in [Flags -> Values]
  BY DEF ControlInfo
<1>6. ci[f] \in vs => Matches(PatternOf(text), ci)
  BY <1>4, <1>5 DEF Matches
<1>7. Matches(PatternOf(text), ci) => ci[f] \in vs
  BY <1>4 DEF Matches
<1>8. Matches(PatternOf(text), ci) \in BOOLEAN
  BY DEF Matches
<1> QED  BY <1>6, <1>7, <1>8 DEF text

LEMMA FlagNames == "fmis" \in Flags /\ "fhqc" \in Flags /\ "fmis" # "fhqc"
BY DEF Flags
LEMMA FmisSet ==
  ASSUME NEW ci \in ControlInfo, NEW v \in 0 .. 4
  PROVE  [ci EXCEPT !["fmis"] = v] \in ControlInfo /\ [ci EXCEPT !["fmis"] = v].fmis = v
BY FlagNames DEF ControlInfo, Values
LEMMA FhqcSet ==
  ASSUME NEW ci \in ControlInfo, NEW v \in Values
  PROVE  [ci EXCEPT !["fhqc"] = v] \in ControlInfo /\ [ci EXCEPT !["fhqc"] = v].fmis = ci.fmis
BY FlagNames DEF ControlInfo

LEMMA ThenFmis ==
  ASSUME NEW vs \in SUBSET Values, vs # {}, NEW v \in 0 .. 4, NEW ci \in ControlInfo
  PROVE  LET to == Then(Rule(<< Permit("fmis", vs) >>, "fmis", v), ci)
         IN  to \in ControlInfo /\ to.fmis = IF ci.fmis \in vs THEN v ELSE ci.fmis
<1> DEFINE r == Rule(<< Permit("fmis", vs) >>, "fmis", v)
<1>1. r.flag = "fmis" /\ r.value = v /\ Matches(r.matcher, ci) = (ci.fmis \in vs)
  <2>1. r.flag = "fmis" /\ r.value = v /\ r.matcher = PatternOf(<< Permit("fmis", vs) >>)
    BY DEF Rule
  <2> HIDE DEF r
  <2> QED  BY <2>1, FlagNames, PermitIs
<1> HIDE DEF r
<1>2. Then(r, ci) = IF ci.fmis \in vs THEN [ci EXCEPT !["fmis"] = v] ELSE ci
  BY <1>1 DEF Then, Updated
<1> QED  BY <1>2, FmisSet DEF r
LEMMA ThenFhqc ==
  ASSUME NEW v \in Values, NEW ci \in ControlInfo
  PROVE  LET to == Then(Always("fhqc", v), ci) IN to \in ControlInfo /\ to.fmis = ci.fmis
<1>1. Always("fhqc", v).flag = "fhqc" /\ Always("fhqc", v).value = v
  BY DEF Always, Rule
<1>2. Then(Always("fhqc", v), ci) = ci \/ Then(Always("fhqc", v), ci) = [ci EXCEPT !["fhqc"] = v]
  BY <1>1 DEF Then, Updated
<1> QED  BY <1>2, FhqcSet

\* What rejecting and correcting make of fmis.
LEMMA RejectIs ==
  ASSUME NEW ci \in ControlInfo
  PROVE  /\ Apply(RejectRules, ci) \in ControlInfo
         /\ Apply(RejectRules, ci).fmis = CASE ci.fmis \in {0, 4} -> 2 [] ci.fmis = 1 -> 3 [] OTHER -> ci.fmis
<1> DEFINE A == {0, 4}
           B == {1}
           r1 == Rule(<< Permit("fmis", A) >>, "fmis", 2)
           r2 == Rule(<< Permit("fmis", B) >>, "fmis", 3)
           r3 == Always("fhqc", 10)
           c1 == Then(r1, ci)
           c2 == Then(r2, c1)
           c3 == Then(r3, c2)
<1>1. /\ A \in SUBSET Values /\ A # {} /\ 2 \in 0 .. 4 /\ B \in SUBSET Values /\ B # {}
      /\ 3 \in 0 .. 4 /\ 10 \in Values
  BY DEF Values
<1>2. c1 \in ControlInfo /\ c1.fmis = IF ci.fmis \in A THEN 2 ELSE ci.fmis
  <2> HIDE DEF A, B
  <2> QED  BY <1>1, ThenFmis
<1>3. c2 \in ControlInfo /\ c2.fmis = IF c1.fmis \in B THEN 3 ELSE c1.fmis
  <2> HIDE DEF A, B, c1
  <2> QED  BY <1>1, <1>2, ThenFmis
<1>4. c3 \in ControlInfo /\ c3.fmis = c2.fmis
  <2> HIDE DEF A, B, c2
  <2> QED  BY <1>1, <1>3, ThenFhqc
<1>5. Apply(RejectRules, ci) = c3
  <2>1. RejectRules = << r1, r2, r3 >>
    BY DEF RejectRules
  <2> HIDE DEF r1, r2, r3
  <2> QED  BY <2>1, ApplyThree
<1> HIDE DEF c1, c2, c3
<1> QED  BY <1>2, <1>3, <1>4, <1>5
LEMMA CorrectIs ==
  ASSUME NEW ci \in ControlInfo
  PROVE  /\ Apply(CorrectRules, ci) \in ControlInfo
         /\ Apply(CorrectRules, ci).fmis = CASE ci.fmis = 3 -> 1 [] ci.fmis \in {0, 2} -> 4 [] OTHER -> ci.fmis
<1> DEFINE A == {3}
           B == {0, 2}
           r1 == Rule(<< Permit("fmis", A) >>, "fmis", 1)
           r2 == Rule(<< Permit("fmis", B) >>, "fmis", 4)
           r3 == Always("fhqc", 7)
           c1 == Then(r1, ci)
           c2 == Then(r2, c1)
           c3 == Then(r3, c2)
<1>1. /\ A \in SUBSET Values /\ A # {} /\ 1 \in 0 .. 4 /\ B \in SUBSET Values /\ B # {}
      /\ 4 \in 0 .. 4 /\ 7 \in Values
  BY DEF Values
<1>2. c1 \in ControlInfo /\ c1.fmis = IF ci.fmis \in A THEN 1 ELSE ci.fmis
  <2> HIDE DEF A, B
  <2> QED  BY <1>1, ThenFmis
<1>3. c2 \in ControlInfo /\ c2.fmis = IF c1.fmis \in B THEN 4 ELSE c1.fmis
  <2> HIDE DEF A, B, c1
  <2> QED  BY <1>1, <1>2, ThenFmis
<1>4. c3 \in ControlInfo /\ c3.fmis = c2.fmis
  <2> HIDE DEF A, B, c2
  <2> QED  BY <1>1, <1>3, ThenFhqc
<1>5. Apply(CorrectRules, ci) = c3
  <2>1. CorrectRules = << r1, r2, r3 >>
    BY DEF CorrectRules
  <2> HIDE DEF r1, r2, r3
  <2> QED  BY <2>1, ApplyThree
<1> HIDE DEF c1, c2, c3
<1> QED  BY <1>2, <1>3, <1>4, <1>5

-----------------------------------------------------------------------------
(* Updates of a cell from its observation d, and what they make of it.     *)
Shown == Observations \cup {NoObs}
Amount == Amounts \cup {MISSING, REJECTED}
Update(c, d) == [at : {c}, obs : {d}, corrected : Amount, ci : ControlInfo, tasks : SUBSET STRING]
Before(d) == d = NoObs \/ FlagsTell(d)
OriginalOf(d) == IF d = NoObs THEN MISSING ELSE d.original

LEMMA Numbers ==
  /\ MISSING \in Int /\ REJECTED \in Int /\ MISSING # REJECTED /\ MISSING \in Amount /\ REJECTED \in Amount
  /\ \A v \in Amounts : v \in Int /\ v # MISSING /\ v # REJECTED /\ v \in Amount /\ v > REJECTED
  /\ \A v \in Amount : v \in Int /\ (v # MISSING /\ v # REJECTED => v \in Amounts)
  /\ \A v \in Int : v > REJECTED => v \in Amounts
BY DEF MISSING, REJECTED, Amounts, Amount
LEMMA ControlIs ==
  ASSUME NEW ci \in ControlInfo
  PROVE  ci.fmis \in {0, 1, 2, 3, 4}
BY FlagNames DEF ControlInfo, Values
LEMMA ObservationIs ==
  ASSUME NEW d \in Observations
  PROVE  /\ d.original \in Amounts \cup {MISSING} /\ d.corrected \in Amount
         /\ d.ci \in ControlInfo /\ d.tasks \in SUBSET STRING
BY DEF Observations, Amount
LEMMA UpdateIs ==
  ASSUME NEW c, NEW d, NEW u \in Update(c, d)
  PROVE  u.at = c /\ u.obs = d /\ u.corrected \in Amount /\ u.ci \in ControlInfo
BY DEF Update

LEMMA CreateIs ==
  ASSUME NEW c, NEW d \in Shown
  PROVE  /\ CreateUpdate(c, d) \in Update(c, d)
         /\ d = NoObs => CreateUpdate(c, d).corrected = MISSING /\ CreateUpdate(c, d).ci.fmis = 3
         /\ d # NoObs => CreateUpdate(c, d).corrected = d.corrected /\ CreateUpdate(c, d).ci = d.ci
<1>1. CASE d = NoObs
  <2>1. MissingControl \in ControlInfo /\ MissingControl.fmis = 3
    BY DEF MissingControl, ControlInfo, Flags, Values
  <2>2. CreateUpdate(c, d) = [at |-> c, obs |-> d, corrected |-> MISSING, ci |-> MissingControl,
                              tasks |-> {}]
    BY <1>1 DEF CreateUpdate
  <2> QED  BY <1>1, <2>1, <2>2, Numbers DEF Update
<1>2. CASE d # NoObs
  <2>1. CreateUpdate(c, d) = [at |-> c, obs |-> d, corrected |-> d.corrected, ci |-> d.ci,
                              tasks |-> d.tasks]
    BY <1>2 DEF CreateUpdate
  <2>2. d \in Observations
    BY <1>2 DEF Shown
  <2> QED  BY <1>2, <2>1, <2>2, ObservationIs DEF Update
<1> QED  BY <1>1, <1>2

LEMMA DataIs ==
  ASSUME NEW c, NEW d \in Shown, NEW u \in Update(c, d)
  PROVE  /\ DataOf(u) \in Observations /\ DataOf(u).original = OriginalOf(d)
         /\ DataOf(u).corrected = u.corrected /\ DataOf(u).ci = u.ci
<1>1. OriginalOf(d) \in Amounts \cup {MISSING}
  BY ObservationIs DEF OriginalOf, Shown
<1>2. DataOf(u) = [original |-> OriginalOf(d), corrected |-> u.corrected, ci |-> u.ci, tasks |-> u.tasks]
  BY DEF DataOf, Update, OriginalOf
<1>3. u.corrected \in Amount /\ u.ci \in ControlInfo /\ u.tasks \in SUBSET STRING
  BY DEF Update
<1> QED  BY <1>1, <1>2, <1>3 DEF Observations, Amount

LEMMA SetCorrectedIs ==
  ASSUME NEW c, NEW d, NEW u \in Update(c, d), NEW x \in Amount
  PROVE  /\ SetCorrected(u, x) \in Update(c, d) /\ SetCorrected(u, x).corrected = x
         /\ SetCorrected(u, x).ci = u.ci
BY DEF Update, SetCorrected
LEMMA SetCiIs ==
  ASSUME NEW c, NEW d, NEW u \in Update(c, d), NEW ci \in ControlInfo
  PROVE  /\ [u EXCEPT !.ci = ci] \in Update(c, d) /\ [u EXCEPT !.ci = ci].ci = ci
         /\ [u EXCEPT !.ci = ci].corrected = u.corrected
BY DEF Update
LEMMA SetFmisIs ==
  ASSUME NEW c, NEW d, NEW u \in Update(c, d), NEW v \in 0 .. 4
  PROVE  /\ SetFlag(u, "fmis", v) \in Update(c, d) /\ SetFlag(u, "fmis", v).ci.fmis = v
         /\ SetFlag(u, "fmis", v).corrected = u.corrected
<1> DEFINE ci == [u.ci EXCEPT !["fmis"] = v]
<1>1. ci \in ControlInfo /\ ci.fmis = v
  BY UpdateIs, FmisSet
<1> DEFINE w == [u EXCEPT !.ci = ci]
<1>2. SetFlag(u, "fmis", v) = w
  BY DEF SetFlag
<1> HIDE DEF ci
<1>3. w \in Update(c, d) /\ w.ci = ci /\ w.corrected = u.corrected
  BY <1>1, SetCiIs
<1> HIDE DEF w
<1> QED  BY <1>1, <1>2, <1>3
LEMMA SetFhqcIs ==
  ASSUME NEW c, NEW d, NEW u \in Update(c, d), NEW v \in Values
  PROVE  /\ SetFlag(u, "fhqc", v) \in Update(c, d) /\ SetFlag(u, "fhqc", v).ci.fmis = u.ci.fmis
         /\ SetFlag(u, "fhqc", v).corrected = u.corrected
<1> DEFINE ci == [u.ci EXCEPT !["fhqc"] = v]
<1>1. ci \in ControlInfo /\ ci.fmis = u.ci.fmis
  BY UpdateIs, FhqcSet
<1> DEFINE w == [u EXCEPT !.ci = ci]
<1>2. SetFlag(u, "fhqc", v) = w
  BY DEF SetFlag
<1> HIDE DEF ci
<1>3. w \in Update(c, d) /\ w.ci = ci /\ w.corrected = u.corrected
  BY <1>1, SetCiIs
<1> HIDE DEF w
<1> QED  BY <1>1, <1>2, <1>3
LEMMA ChangedIs ==
  ASSUME NEW c, NEW d, NEW u \in Update(c, d), NEW fc, Apply(fc, u.ci) \in ControlInfo
  PROVE  /\ Changed(u, fc) \in Update(c, d) /\ Changed(u, fc).ci = Apply(fc, u.ci)
         /\ Changed(u, fc).corrected = u.corrected
<1>1. Changed(u, fc) = [u EXCEPT !.ci = Apply(fc, u.ci)]
  BY DEF Changed
<1> QED  BY <1>1, SetCiIs

\* What is stored agrees with its flags, whatever else the update has.
Agrees(o, x, fmis) ==
  /\ fmis = 0 => o # MISSING /\ x \notin {MISSING, REJECTED}
  /\ fmis = 1 => o = MISSING /\ x \notin {MISSING, REJECTED}
  /\ fmis = 2 => o # MISSING /\ x = REJECTED
  /\ fmis = 3 => o = MISSING /\ x = MISSING
  /\ fmis = 4 => o # MISSING /\ x \notin {MISSING, REJECTED}
LEMMA TellIsAgree == \A d : FlagsTell(d) = Agrees(d.original, d.corrected, d.ci.fmis)
BY DEF FlagsTell, Agrees

LEMMA AutoCorrectIs ==
  ASSUME NEW c, NEW d \in Shown, NEW x \in Amount
  PROVE  LET u == AutoCorrect(CreateUpdate(c, d), d, x)
         IN  /\ u \in Update(c, d) /\ u.corrected = x
             /\ Before(d) /\ x \in Amounts => FlagsTell(DataOf(u))
<1> DEFINE u0 == CreateUpdate(c, d)
           u1 == Changed(u0, CorrectRules)
           u2 == SetCorrected(u1, x)
           u3 == SetFlag(u2, "fhqc", 5)
           u  == AutoCorrect(u0, d, x)
<1>1. /\ u0 \in Update(c, d) /\ u0.ci \in ControlInfo
      /\ d = NoObs => u0.ci.fmis = 3
      /\ d # NoObs => u0.ci = d.ci /\ u0.corrected = d.corrected
  BY CreateIs, UpdateIs
<1> HIDE DEF u0
<1>2. /\ u1 \in Update(c, d) /\ u1.ci = Apply(CorrectRules, u0.ci)
      /\ u1.ci.fmis = CASE u0.ci.fmis = 3 -> 1 [] u0.ci.fmis \in {0, 2} -> 4 [] OTHER -> u0.ci.fmis
  <2>1. Apply(CorrectRules, u0.ci) \in ControlInfo
    BY <1>1, CorrectIs
  <2>2. u1 \in Update(c, d) /\ u1.ci = Apply(CorrectRules, u0.ci)
    BY <1>1, <2>1, ChangedIs
  <2> HIDE DEF u1
  <2> QED  BY <1>1, <2>2, CorrectIs
<1> HIDE DEF u1
<1>3. u2 \in Update(c, d) /\ u2.ci = u1.ci /\ u2.corrected = x
  BY <1>2, SetCorrectedIs
<1>4. u3 \in Update(c, d) /\ u3.ci.fmis = u2.ci.fmis /\ u3.corrected = u2.corrected
  <2>1. 5 \in Values
    BY DEF Values
  <2> HIDE DEF u2
  <2> QED  BY <1>3, <2>1, SetFhqcIs
<1>5. u = u2 \/ u = u3
  BY DEF AutoCorrect, Correct, u1
<1> HIDE DEF u2, u3, u
<1>6. u \in Update(c, d) /\ u.corrected = x /\ u.ci.fmis = u1.ci.fmis
  BY <1>3, <1>4, <1>5
<1>7. ASSUME Before(d), x \in Amounts PROVE FlagsTell(DataOf(u))
  <2>1. DataOf(u).original = OriginalOf(d) /\ DataOf(u).corrected = x /\ DataOf(u).ci.fmis = u1.ci.fmis
    BY <1>6, DataIs
  <2>2. x # MISSING /\ x # REJECTED
    BY <1>7, Numbers
  <2>3. Agrees(OriginalOf(d), x, u1.ci.fmis)
    <3>1. CASE d = NoObs
      BY <1>1, <1>2, <2>2, <3>1 DEF Agrees, OriginalOf
    <3>2. CASE d # NoObs
      <4>1. d.ci.fmis \in {0, 1, 2, 3, 4}
        BY <3>2, ObservationIs, ControlIs DEF Shown
      <4>2. Agrees(d.original, d.corrected, d.ci.fmis)
        BY <1>7, <3>2, TellIsAgree DEF Before
      <4> QED  BY <1>1, <1>2, <2>2, <3>2, <4>1, <4>2 DEF Agrees, OriginalOf
    <3> QED  BY <3>1, <3>2
  <2> QED  BY <2>1, <2>3, TellIsAgree
<1> QED  BY <1>6, <1>7 DEF u, u0

LEMMA RejectUpdateIs ==
  ASSUME NEW c, NEW d \in Observations, d # NoObs
  PROVE  LET u == RejectUpdate(CreateUpdate(c, d), d)
         IN  /\ u \in Update(c, d)
             /\ Before(d) => /\ FlagsTell(DataOf(u))
                             /\ u.corrected = REJECTED \/ (u.corrected = MISSING /\ d.original = MISSING)
<1> DEFINE u0 == CreateUpdate(c, d)
           u1 == Changed(u0, RejectRules)
           x  == IF UpdateOrigMissing(u1, d) THEN MISSING ELSE REJECTED
           u2 == SetCorrected(u1, x)
           u  == RejectUpdate(u0, d)
<1>0. d \in Shown
  BY DEF Shown
<1>1. u0 \in Update(c, d) /\ u0.ci \in ControlInfo /\ u0.ci = d.ci /\ u0.corrected = d.corrected
  BY <1>0, CreateIs, UpdateIs
<1>2. x = MISSING \/ x = REJECTED
  OBVIOUS
<1>3. u = IF IsMissing(d.ci, d.corrected) THEN u0 ELSE u2
  <2> HIDE DEF u0
  <2> QED  BY <1>1 DEF RejectUpdate, u1
<1> HIDE DEF u0
<1>4. /\ u1 \in Update(c, d) /\ u1.ci \in ControlInfo
      /\ u1.ci.fmis = CASE u0.ci.fmis \in {0, 4} -> 2 [] u0.ci.fmis = 1 -> 3 [] OTHER -> u0.ci.fmis
  <2>1. Apply(RejectRules, u0.ci) \in ControlInfo
    BY <1>1, RejectIs
  <2>2. u1 \in Update(c, d) /\ u1.ci = Apply(RejectRules, u0.ci)
    BY <1>1, <2>1, ChangedIs
  <2> HIDE DEF u1
  <2> QED  BY <1>1, <2>1, <2>2, RejectIs
<1>5. x = IF u1.ci.fmis % 2 = 1 \/ d.original = MISSING THEN MISSING ELSE REJECTED
  BY DEF UpdateOrigMissing, IsOrigMissing
<1> HIDE DEF u1, x
<1>6. u2 \in Update(c, d) /\ u2.ci = u1.ci /\ u2.corrected = x
  BY <1>2, <1>4, Numbers, SetCorrectedIs
<1> HIDE DEF u2, u
<1>7. u \in Update(c, d)
  BY <1>1, <1>3, <1>6
<1>8. ASSUME Before(d)
      PROVE  /\ FlagsTell(DataOf(u))
             /\ u.corrected = REJECTED \/ (u.corrected = MISSING /\ d.original = MISSING)
  <2>1. DataOf(u).original = d.original /\ DataOf(u).corrected = u.corrected /\ DataOf(u).ci = u.ci
    BY <1>0, <1>7, DataIs DEF OriginalOf
  <2>2. d.ci.fmis \in {0, 1, 2, 3, 4}
    BY ObservationIs, ControlIs
  <2>3. Agrees(d.original, d.corrected, d.ci.fmis)
    BY <1>8, TellIsAgree DEF Before
  <2>4. MISSING # REJECTED
    BY Numbers
  <2>5. CASE IsMissing(d.ci, d.corrected)
    <3>1. u.ci = d.ci /\ u.corrected = d.corrected
      BY <1>1, <1>3, <2>5
    <3>2. d.ci.fmis = 3 \/ d.corrected = MISSING
      BY <2>5 DEF IsMissing
    <3>3. d.corrected = MISSING /\ d.original = MISSING
      BY <2>2, <2>3, <2>4, <3>2 DEF Agrees
    <3> QED  BY <2>1, <2>3, <3>1, <3>3, TellIsAgree
  <2>6. CASE ~ IsMissing(d.ci, d.corrected)
    <3>1. d.ci.fmis # 3 /\ d.corrected # MISSING
      BY <2>6 DEF IsMissing
    <3>2. u.ci.fmis = u1.ci.fmis /\ u.corrected = x
      BY <1>3, <1>6, <2>6
    <3>3. u1.ci.fmis = IF d.ci.fmis = 1 THEN 3 ELSE 2
      BY <1>1, <1>4, <2>2, <3>1
    <3>4. d.ci.fmis = 1 => d.original = MISSING /\ x = MISSING
      <4>1. d.ci.fmis = 1 => u1.ci.fmis % 2 = 1
        BY <3>3
      <4> QED  BY <1>5, <2>3, <4>1 DEF Agrees
    <3>5. d.ci.fmis # 1 => d.original # MISSING /\ x = REJECTED
      <4>1. d.ci.fmis # 1 => d.original # MISSING
        BY <2>2, <2>3, <3>1 DEF Agrees
      <4>2. d.ci.fmis # 1 => u1.ci.fmis % 2 # 1
        BY <3>3
      <4> QED  BY <1>5, <4>1, <4>2
    <3>6. Agrees(d.original, x, u1.ci.fmis)
      BY <2>4, <3>3, <3>4, <3>5 DEF Agrees
    <3> QED  BY <2>1, <3>2, <3>4, <3>5, <3>6, TellIsAgree
  <2> QED  BY <2>5, <2>6
<1> QED  BY <1>7, <1>8 DEF u, u0

LEMMA RejectOneIs ==
  ASSUME NEW c, NEW d \in Observations, d # NoObs, NEW q \in BOOLEAN
  PROVE  LET u == RejectOne(CreateUpdate(c, d), q)
         IN  u \in Update(c, d) /\ (Before(d) => FlagsTell(DataOf(u)))
<1> DEFINE r == RejectUpdate(CreateUpdate(c, d), d)
           w == SetFlag(r, "fhqc", 4)
           u == RejectOne(CreateUpdate(c, d), q)
<1>0. d \in Shown /\ 4 \in Values
  BY DEF Shown, Values
<1>1. CreateUpdate(c, d).obs = d
  BY <1>0, CreateIs, UpdateIs
<1>2. u = IF q THEN w ELSE r
  BY <1>1 DEF RejectOne
<1>3. r \in Update(c, d) /\ (Before(d) => FlagsTell(DataOf(r)))
  BY RejectUpdateIs
<1> HIDE DEF r, u
<1>4. w \in Update(c, d) /\ w.ci.fmis = r.ci.fmis /\ w.corrected = r.corrected
  BY <1>0, <1>3, SetFhqcIs
<1> HIDE DEF w
<1>5. FlagsTell(DataOf(w)) = FlagsTell(DataOf(r))
  <2>1. /\ DataOf(w).original = DataOf(r).original /\ DataOf(w).corrected = DataOf(r).corrected
        /\ DataOf(w).ci.fmis = DataOf(r).ci.fmis
    BY <1>0, <1>3, <1>4, DataIs
  <2> QED  BY <2>1, TellIsAgree
<1> QED  BY <1>2, <1>3, <1>4, <1>5 DEF u

LEMMA AcceptOriginalIs ==
  ASSUME NEW c, NEW d \in Observations, d # NoObs
  PROVE  LET u == AcceptOriginal(CreateUpdate(c, d))
         IN  u \in Update(c, d) /\ (Before(d) /\ CanAcceptOriginal(d) => FlagsTell(DataOf(u)))
<1> DEFINE u0 == CreateUpdate(c, d)
           u1 == SetCorrected(u0, d.original)
           o  == SetFlag(u1, "fhqc", 1)
           o0 == SetFlag(o, "fmis", 0)
           o3 == SetFlag(o, "fmis", 3)
           u  == AcceptOriginal(u0)
<1>0. d \in Shown /\ 1 \in Values /\ 0 \in 0 .. 4 /\ 3 \in 0 .. 4 /\ d.original \in Amount
  BY ObservationIs DEF Shown, Values, Amount
<1>1. u0 \in Update(c, d) /\ u0.obs = d /\ u0.ci = d.ci
  BY <1>0, CreateIs, UpdateIs
<1> HIDE DEF u0
<1>2. u = IF d.ci.fmis \in {2, 4} THEN o0 ELSE IF d.ci.fmis = 1 THEN o3 ELSE o
  BY <1>1 DEF AcceptOriginal
<1>3. u1 \in Update(c, d) /\ u1.corrected = d.original /\ u1.ci = d.ci
  BY <1>0, <1>1, SetCorrectedIs
<1> HIDE DEF u1, u
<1>4. o \in Update(c, d) /\ o.corrected = d.original /\ o.ci.fmis = d.ci.fmis
  BY <1>0, <1>3, SetFhqcIs
<1> HIDE DEF o
<1>5. o0 \in Update(c, d) /\ o0.corrected = d.original /\ o0.ci.fmis = 0
  BY <1>0, <1>4, SetFmisIs
<1>6. o3 \in Update(c, d) /\ o3.corrected = d.original /\ o3.ci.fmis = 3
  BY <1>0, <1>4, SetFmisIs
<1> HIDE DEF o0, o3
<1>7. /\ u \in Update(c, d) /\ u.corrected = d.original
      /\ u.ci.fmis = IF d.ci.fmis \in {2, 4} THEN 0 ELSE IF d.ci.fmis = 1 THEN 3 ELSE d.ci.fmis
  BY <1>2, <1>4, <1>5, <1>6
<1>8. ASSUME Before(d), CanAcceptOriginal(d) PROVE FlagsTell(DataOf(u))
  <2>1. DataOf(u).original = d.original /\ DataOf(u).corrected = d.original /\ DataOf(u).ci = u.ci
    BY <1>0, <1>7, DataIs DEF OriginalOf
  <2>2. Agrees(d.original, d.corrected, d.ci.fmis) /\ d.ci.fmis \in {0, 1, 2, 4}
    BY <1>8, TellIsAgree DEF Before, CanAcceptOriginal
  <2>3. d.original # REJECTED
    BY ObservationIs, Numbers
  <2>4. Agrees(d.original, d.original, u.ci.fmis)
    BY <1>7, <2>2, <2>3 DEF Agrees
  <2> QED  BY <2>1, <2>4, TellIsAgree
<1> QED  BY <1>7, <1>8 DEF u, u0

(* What is accepted may have had another value set before, a model value. *)
LEMMA AcceptCorrectedIs ==
  ASSUME NEW c, NEW d \in Observations, d # NoObs, NEW q \in BOOLEAN,
         NEW u0 \in Update(c, d), u0.ci = d.ci
  PROVE  LET u == AcceptCorrected(u0, q)
         IN  /\ u \in Update(c, d)
             /\ Before(d) /\ CanAcceptCorrected(d) /\ (u0.corrected = d.corrected \/ u0.corrected \in Amounts)
                => FlagsTell(DataOf(u))
<1> DEFINE Next4(u) == SetFlag(u, "fmis", 4)
           Fhqc(u, v) == SetFlag(u, "fhqc", v)
           same == d.original = u0.corrected
           a == CASE d.ci.fmis = 0 /\ same  -> Fhqc(u0, 1)
                  [] d.ci.fmis = 0 /\ ~same -> Next4(Fhqc(u0, 7))
                  [] d.ci.fmis = 1          -> Fhqc(u0, 5)
                  [] OTHER                  -> Fhqc(u0, 7)
           fmis == IF d.ci.fmis = 0 /\ ~same THEN 4 ELSE d.ci.fmis
           Is(u) == u \in Update(c, d) /\ u.corrected = u0.corrected /\ u.ci.fmis = fmis
           u == AcceptCorrected(u0, q)
<1>0. d \in Shown /\ {1, 4, 5, 7} \subseteq Values /\ 4 \in 0 .. 4 /\ u0.obs = d
  BY UpdateIs DEF Shown, Values
<1>1. ASSUME NEW v \in Values
      PROVE  /\ Fhqc(u0, v) \in Update(c, d) /\ Fhqc(u0, v).corrected = u0.corrected
             /\ Fhqc(u0, v).ci.fmis = d.ci.fmis
  BY SetFhqcIs
<1>2. Next4(Fhqc(u0, 7)) \in Update(c, d) /\ Next4(Fhqc(u0, 7)).corrected = u0.corrected
      /\ Next4(Fhqc(u0, 7)).ci.fmis = 4
  <2>1. Fhqc(u0, 7) \in Update(c, d) /\ Fhqc(u0, 7).corrected = u0.corrected
    BY <1>0, <1>1
  <2> DEFINE w == Fhqc(u0, 7)
  <2> HIDE DEF Fhqc
  <2>2. w \in Update(c, d) /\ w.corrected = u0.corrected
    BY <2>1
  <2> HIDE DEF w
  <2>3. Next4(w) \in Update(c, d) /\ Next4(w).corrected = w.corrected /\ Next4(w).ci.fmis = 4
    BY <1>0, <2>2, SetFmisIs
  <2> QED  BY <2>2, <2>3 DEF w
<1>3. u = IF q THEN Fhqc(a, 4) ELSE a
  BY <1>0 DEF AcceptCorrected
<1> HIDE DEF Next4, Fhqc, u, same
<1>4. Is(a)
  BY <1>0, <1>1, <1>2
<1> HIDE DEF a
<1>5. Is(Fhqc(a, 4))
  BY <1>0, <1>4, SetFhqcIs DEF Fhqc
<1>6. Is(u)
  <2> HIDE DEF Is
  <2> QED  BY <1>3, <1>4, <1>5
<1>7. ASSUME Before(d), CanAcceptCorrected(d), u0.corrected = d.corrected \/ u0.corrected \in Amounts
      PROVE  FlagsTell(DataOf(u))
  <2>1. DataOf(u).original = d.original /\ DataOf(u).corrected = u0.corrected /\ DataOf(u).ci.fmis = fmis
    BY <1>0, <1>6, DataIs DEF OriginalOf
  <2>2. Agrees(d.original, d.corrected, d.ci.fmis) /\ d.ci.fmis \in {0, 1, 4}
    BY <1>7, TellIsAgree DEF Before, CanAcceptCorrected
  <2>3. u0.corrected # MISSING /\ u0.corrected # REJECTED
    BY <1>7, <2>2, Numbers DEF Agrees
  <2>4. Agrees(d.original, u0.corrected, fmis)
    BY <2>2, <2>3 DEF Agrees, same
  <2> QED  BY <2>1, <2>4, TellIsAgree
<1> QED  BY <1>6, <1>7 DEF u

-----------------------------------------------------------------------------
(* The invariant.  What the box has in its new buffer, what is selected    *)
(* beside columns of observations, and what the tool was enabled for, are  *)
(* as the observations are now.                                            *)
FirstOK ==
  /\ past.first \in Scenes
  /\ sCode2Text = [k \in {Kind(c) : c \in DOMAIN past.first} |-> codesForParam(k)]
ObsOK == obs \in [DOMAIN past.first -> Shown]
PastOK ==
  past = [first |-> past.first, odd |-> past.odd, edits |-> past.edits, typed |-> past.typed,
          line |-> past.line]
BoxOK ==
  /\ box = [at |-> box.at, shown |-> box.shown, have |-> box.have, waiting |-> box.waiting]
  /\ box.have # NoObs => box.at \in Cells /\ box.have = obs[box.at] /\ box.shown = box.have
  /\ box.waiting => box.at \in Cells
SelectionOK ==
  /\ selection = [cells |-> selection.cells, column |-> selection.column, beside |-> selection.beside,
                  chosen |-> selection.chosen]
  /\ selection.cells \subseteq Cells
  /\ DOMAIN selection.chosen \subseteq Cells
  /\ \A c \in DOMAIN selection.chosen : selection.chosen[c] \in Observations
  /\ selection.beside => selection.chosen = Chosen(selection, obs)
  /\ ~selection.beside => selection.column = "model"
ToolOK ==
  /\ tool = [cells |-> tool.cells, on |-> tool.on]
  /\ tool.cells \subseteq Cells
  /\ \A a, b \in tool.cells : Kind(a) = Kind(b)
  /\ tool.on => checkEnabled(tool.cells, obs)
State == FirstOK /\ ObsOK /\ PastOK /\ BoxOK /\ SelectionOK /\ ToolOK /\ CorrectionsKept
IInv == State /\ ResultsTrue

LEMMA SceneIs ==
  ASSUME CorrectionsConstants, FirstOK, ObsOK
  PROVE  /\ Cells = DOMAIN past.first /\ IsFiniteSet(Cells) /\ NoObs \notin Observations
         /\ \A c \in Cells : /\ c = << Kind(c), Time(c) >> /\ Time(c) \in Int
                             /\ Kind(c) = "vx" => Strength(c) \in Cells
                             /\ past.first[c] \in Shown /\ obs[c] \in Shown
                             /\ past.first[c] # NoObs => past.first[c] \in Observations
                             /\ obs[c] # NoObs => obs[c] \in Observations
<1>1. Cells = DOMAIN past.first /\ \A c \in Cells : obs[c] \in Shown
  BY DEF ObsOK, Cells
<1>2. SceneOK(past.first) /\ NoObs \notin Observations
  BY DEF CorrectionsConstants, FirstOK
<1>3. /\ IsFiniteSet(Cells)
      /\ \A c \in Cells : /\ c = << Kind(c), Time(c) >> /\ Time(c) \in Int
                          /\ Kind(c) = "vx" => << "strength", Time(c) >> \in Cells
                          /\ past.first[c] # NoObs => past.first[c] \in Observations
  BY <1>1, <1>2 DEF SceneOK
<1> QED  BY <1>1, <1>2, <1>3 DEF Shown, Strength

LEMMA FirstEnds ==
  ASSUME CorrectionsConstants
  PROVE  Init => IInv
<1> SUFFICES ASSUME Init PROVE IInv
  OBVIOUS
<1>0. obs \in Scenes /\ SceneOK(obs)
  BY DEF Init, CorrectionsConstants
<1>1. past = [first |-> obs, odd |-> {}, edits |-> 0, typed |-> << >>, line |-> << >>]
  BY DEF Init
<1>2. FirstOK
  BY <1>0, <1>1 DEF Init, FirstOK, Cells
<1>3. ObsOK
  <2>1. obs = [c \in DOMAIN obs |-> obs[c]] /\ \A c \in DOMAIN obs : obs[c] \in Shown
    BY <1>0 DEF SceneOK, Shown
  <2> QED  BY <1>1, <2>1 DEF ObsOK
<1>4. PastOK
  BY <1>1 DEF PastOK
<1>5. BoxOK
  BY DEF Init, BoxOK
<1>6. SelectionOK
  BY DEF Init, SelectionOK, Chosen, None
<1>7. ToolOK
  BY DEF Init, ToolOK, NoTool
<1>8. CorrectionsKept
  BY <1>0, <1>1 DEF SceneOK, CorrectionsKept, Cells
<1>9. ResultsTrue
  BY <1>1 DEF ResultsTrue
<1> QED  BY <1>2, <1>3, <1>4, <1>5, <1>6, <1>7, <1>8, <1>9 DEF IInv, State

(* A step that changes observations.  What may be stored for a cell, n.    *)
KeptAt(c, n) ==
  /\ n # NoObs => FlagsTell(n)
  /\ past.first[c] # NoObs => n # NoObs /\ n.original = past.first[c].original
  /\ Kind(c) = "rr" /\ past.first[c] # NoObs /\ IsAccumulation(past.first[c].ci) # NO => n = past.first[c]
LEMMA KeptIs == CorrectionsKept = \A c \in Cells \ past.odd : KeptAt(c, obs[c])
BY DEF CorrectionsKept, KeptAt

LEMMA KeptBy ==
  ASSUME NEW c \in Cells, KeptAt(c, obs[c]), NEW n, n # NoObs, FlagsTell(n),
         n.original = OriginalOf(obs[c]),
         Kind(c) = "rr" /\ obs[c] # NoObs => IsAccumulation(obs[c].ci) = NO
  PROVE  KeptAt(c, n)
<1>1. past.first[c] # NoObs => n.original = past.first[c].original
  BY DEF KeptAt, OriginalOf
<1>2. Kind(c) = "rr" /\ past.first[c] # NoObs => IsAccumulation(past.first[c].ci) = NO
  BY DEF KeptAt
<1> QED  BY <1>1, <1>2 DEF KeptAt

Changes(new) ==
  /\ new = [c \in DOMAIN new |-> new[c]] /\ DOMAIN new \subseteq Cells
  /\ \A c \in DOMAIN new : new[c] \in Observations
Allowed(new, odd) == \A c \in DOMAIN new : c \notin past.odd => c \in odd \/ KeptAt(c, new[c])
Change(new, odd, typed, line) ==
  /\ Changes(new) /\ Allowed(new, odd) /\ Noted(odd, typed, line)
  /\ Tell(new, TRUE) \/ Tell(new, FALSE)
LEMMA TellIs ==
  ASSUME CorrectionsConstants, State, NEW new, NEW odd, NEW typed, NEW line,
         Change(new, odd, typed, line)
  PROVE  /\ State' /\ Cells' = Cells /\ sCode2Text' = sCode2Text
         /\ past'.odd = past.odd \cup odd /\ past'.typed = typed /\ past'.line = line
         /\ \A c \in Cells : obs'[c] = IF c \in DOMAIN new THEN new[c] ELSE obs[c]
<1> DEFINE o == Over(new, obs)
           told == box.at \in DOMAIN new
<1>. Changes(new) /\ Allowed(new, odd) /\ Noted(odd, typed, line)
  BY DEF Change
<1>0. FirstOK /\ ObsOK /\ PastOK /\ BoxOK /\ SelectionOK /\ ToolOK /\ CorrectionsKept
  BY DEF State
<1>1. Cells = DOMAIN past.first /\ NoObs \notin Observations /\ \A c \in Cells : obs[c] \in Shown
  BY <1>0, SceneIs
<1>2. o = [c \in Cells |-> IF c \in DOMAIN new THEN new[c] ELSE obs[c]]
  BY DEF Changes, Cells, Over
<1>3. /\ obs' = o /\ sCode2Text' = sCode2Text
      /\ box' = [box EXCEPT !.shown = IF told THEN o[box.at] ELSE @, !.have = IF told THEN o[box.at] ELSE @]
      /\ \E own \in BOOLEAN : selection' =
           [selection EXCEPT !.chosen = IF own \/ selection.beside THEN Chosen(selection, o) ELSE @]
      /\ tool' = [tool EXCEPT !.on = checkEnabled(tool.cells, o)]
  <2>1. CASE Tell(new, TRUE)
    BY <2>1 DEF Tell
  <2>2. CASE Tell(new, FALSE)
    BY <2>2 DEF Tell
  <2> QED  BY <2>1, <2>2 DEF Change
<1>4. past' = [first |-> past.first, odd |-> past.odd \cup odd, edits |-> past.edits + 1,
               typed |-> typed, line |-> line]
  BY <1>0 DEF Noted, PastOK
<1> HIDE DEF o
<1>5. Cells' = Cells /\ \A c \in Cells : o[c] \in Shown
  BY <1>1, <1>2, <1>3 DEF Cells, Changes, Shown
<1>6. FirstOK'
  BY <1>0, <1>3, <1>4 DEF FirstOK
<1>7. ObsOK'
  BY <1>1, <1>2, <1>3, <1>4, <1>5 DEF ObsOK
<1>8. PastOK'
  BY <1>4 DEF PastOK
<1>9. BoxOK'
  <2>1. box' = [at |-> box.at, shown |-> IF told THEN o[box.at] ELSE box.shown,
                have |-> IF told THEN o[box.at] ELSE box.have, waiting |-> box.waiting]
    BY <1>0, <1>3 DEF BoxOK
  <2>2. told => box.at \in Cells
    BY DEF Changes
  <2>3. ~told /\ box.at \in Cells => o[box.at] = obs[box.at]
    BY <1>2
  <2> HIDE DEF told
  <2>4. box'.have # NoObs => box'.at \in Cells /\ box'.have = o[box'.at] /\ box'.shown = box'.have
    BY <1>0, <2>1, <2>2, <2>3 DEF BoxOK
  <2>5. box'.waiting => box'.at \in Cells
    BY <1>0, <2>1 DEF BoxOK
  <2> QED  BY <1>3, <1>5, <2>1, <2>4, <2>5 DEF BoxOK
<1>10. SelectionOK'
  <2>. PICK own \in BOOLEAN : selection' =
          [selection EXCEPT !.chosen = IF own \/ selection.beside THEN Chosen(selection, o) ELSE @]
    BY <1>3
  <2> DEFINE s == selection
             ch == IF own \/ s.beside THEN Chosen(s, o) ELSE s.chosen
  <2>1. selection' = [cells |-> s.cells, column |-> s.column, beside |-> s.beside, chosen |-> ch]
    BY <1>0, <1>3 DEF SelectionOK
  <2>2. /\ DOMAIN Chosen(s, o) \subseteq Cells
        /\ \A c \in DOMAIN Chosen(s, o) : Chosen(s, o)[c] \in Observations
    <3>1. s.cells \subseteq Cells
      BY <1>0 DEF SelectionOK
    <3>2. CASE s.column \in {"none", "other"}
      BY <3>2 DEF Chosen, None
    <3>3. CASE s.column \notin {"none", "other"}
      <4>1. Chosen(s, o) = [c \in {d \in s.cells : o[d] # NoObs} |-> o[c]]
        BY <3>3 DEF Chosen
      <4> QED  BY <1>5, <3>1, <4>1 DEF Shown
    <3> QED  BY <3>2, <3>3
  <2>3. DOMAIN ch \subseteq Cells /\ \A c \in DOMAIN ch : ch[c] \in Observations
    BY <1>0, <2>2 DEF SelectionOK
  <2>4. Chosen(selection', o) = Chosen(s, o)
    BY <2>1 DEF Chosen
  <2>5. s.beside => ch = Chosen(s, o)
    OBVIOUS
  <2> HIDE DEF ch
  <2>6. /\ selection'.cells \subseteq Cells /\ selection'.chosen = ch
        /\ selection'.beside => selection'.chosen = Chosen(selection', o)
        /\ ~selection'.beside => selection'.column = "model"
    BY <1>0, <2>1, <2>4, <2>5 DEF SelectionOK
  <2>7. (Chosen(selection, obs))' = Chosen(selection', obs')
    BY DEF Chosen
  <2> QED  BY <1>3, <1>5, <2>1, <2>3, <2>6, <2>7 DEF SelectionOK
<1>11. ToolOK'
  <2>1. tool' = [cells |-> tool.cells, on |-> checkEnabled(tool.cells, o)]
    BY <1>0, <1>3 DEF ToolOK
  <2>2. (checkEnabled(tool.cells, obs))' = checkEnabled(tool'.cells, obs')
    BY DEF checkEnabled, Ends, Sound, Kind, Time
  <2>3. (\A a, b \in tool.cells : Kind(a) = Kind(b))'
    BY <1>0, <2>1 DEF ToolOK, Kind
  <2> QED  BY <1>0, <1>3, <1>5, <2>1, <2>2, <2>3 DEF ToolOK
<1>12. CorrectionsKept'
  <2>1. ASSUME NEW c \in Cells, c \notin past.odd, c \notin odd PROVE KeptAt(c, o[c])
    BY <1>0, <1>2, <2>1, KeptIs DEF Allowed
  <2> QED  BY <1>3, <1>4, <1>5, <2>1 DEF CorrectionsKept, KeptAt
<1> QED  BY <1>2, <1>3, <1>4, <1>5, <1>6, <1>7, <1>8, <1>9, <1>10, <1>11, <1>12 DEF State

-----------------------------------------------------------------------------
(* Steps that change no observation. *)
LEMMA SameResults ==
  ASSUME State, ResultsTrue, UNCHANGED << sCode2Text, obs, past >>, BoxOK', SelectionOK', ToolOK'
  PROVE  IInv'
<1>1. FirstOK' /\ ObsOK' /\ PastOK'
  BY DEF State, FirstOK, ObsOK, PastOK
<1>2. CorrectionsKept'
  BY DEF State, CorrectionsKept, Cells
<1>3. ResultsTrue'
  BY DEF ResultsTrue, ShownVx, Parts, Strength, fromText, asText, shownDecimals, Kind, Time
<1> QED  BY <1>1, <1>2, <1>3 DEF IInv, State

LEMMA SameBox ==
  ASSUME BoxOK, UNCHANGED << obs, box >>
  PROVE  BoxOK'
BY DEF BoxOK, Cells
LEMMA SameSelection ==
  ASSUME SelectionOK, UNCHANGED << obs, selection >>
  PROVE  SelectionOK'
BY DEF SelectionOK, Cells, Chosen
LEMMA SameTool ==
  ASSUME ToolOK, UNCHANGED << obs, tool >>
  PROVE  ToolOK'
BY DEF ToolOK, Cells, checkEnabled, Ends, Sound, Kind, Time

LEMMA NavigateKeeps ==
  ASSUME IInv, NEW c \in Boxed \cap Cells, Navigate(c)
  PROVE  IInv'
<1>1. BoxOK /\ SelectionOK /\ ToolOK /\ State /\ ResultsTrue
  BY DEF IInv, State
<1>2. UNCHANGED << sCode2Text, obs, selection, tool, past >>
  BY DEF Navigate
<1>3. BoxOK'
  <2>1. box' = [at |-> c, shown |-> box.shown, have |-> NoObs, waiting |-> TRUE]
    BY <1>1 DEF BoxOK, Navigate
  <2> QED  BY <1>2, <2>1 DEF BoxOK, Cells
<1> QED  BY <1>1, <1>2, <1>3, SameSelection, SameTool, SameResults

LEMMA CompletedKeeps ==
  ASSUME IInv, BufferCompleted
  PROVE  IInv'
<1>1. BoxOK /\ SelectionOK /\ ToolOK /\ State /\ ResultsTrue
  BY DEF IInv, State
<1>2. UNCHANGED << sCode2Text, obs, selection, tool, past >>
  BY DEF BufferCompleted
<1>3. BoxOK'
  <2>1. box' = [at |-> box.at, shown |-> obs[box.at], have |-> obs[box.at], waiting |-> FALSE]
    BY <1>1 DEF BoxOK, BufferCompleted
  <2>2. box.at \in Cells
    BY <1>1 DEF BoxOK, BufferCompleted
  <2> QED  BY <1>2, <2>1, <2>2 DEF BoxOK, Cells
<1> QED  BY <1>1, <1>2, <1>3, SameSelection, SameTool, SameResults

LEMMA ChosenIs ==
  ASSUME CorrectionsConstants, State, NEW s, s.cells \subseteq Cells
  PROVE  /\ DOMAIN Chosen(s, obs) \subseteq Cells
         /\ \A c \in DOMAIN Chosen(s, obs) :
              Chosen(s, obs)[c] = obs[c] /\ obs[c] # NoObs /\ obs[c] \in Observations
<1>1. \A c \in Cells : obs[c] # NoObs => obs[c] \in Observations
  BY SceneIs DEF State
<1>2. CASE s.column \in {"none", "other"}
  BY <1>2 DEF Chosen, None
<1>3. CASE s.column \notin {"none", "other"}
  <2>1. Chosen(s, obs) = [c \in {d \in s.cells : obs[d] # NoObs} |-> obs[c]]
    BY <1>3 DEF Chosen
  <2> QED  BY <1>1, <2>1
<1> QED  BY <1>2, <1>3

LEMMA SelectKeeps ==
  ASSUME CorrectionsConstants, IInv, NEW cells \in SUBSET Cells, NEW column, NEW beside \in BOOLEAN,
         Select(cells, column, beside)
  PROVE  IInv'
<1>1. BoxOK /\ SelectionOK /\ ToolOK /\ State /\ ResultsTrue
  BY DEF IInv, State
<1>2. UNCHANGED << sCode2Text, obs, box, past >>
  BY DEF Select
<1>3. SelectionOK'
  <2> DEFINE s == [selection EXCEPT !.cells = cells, !.column = column, !.beside = beside]
  <2>1. selection' = [s EXCEPT !.chosen = Chosen(s, obs)] /\ (~beside => column = "model")
    BY DEF Select
  <2>2. s = [cells |-> cells, column |-> column, beside |-> beside, chosen |-> selection.chosen]
    <3>1. selection = [cells |-> selection.cells, column |-> selection.column,
                       beside |-> selection.beside, chosen |-> selection.chosen]
      BY <1>1 DEF SelectionOK
    <3> HIDE DEF s
    <3>2. s = [selection EXCEPT !.cells = cells, !.column = column, !.beside = beside]
      BY DEF s
    <3> DEFINE v == [selection EXCEPT !.cells = cells]
               w == [v EXCEPT !.column = column]
    <3>3. v = [cells |-> cells, column |-> selection.column, beside |-> selection.beside,
               chosen |-> selection.chosen]
      BY <3>1
    <3>4. s = [w EXCEPT !.beside = beside]
      BY <3>2
    <3> HIDE DEF v
    <3>5. w = [cells |-> cells, column |-> column, beside |-> selection.beside, chosen |-> selection.chosen]
      BY <3>3
    <3> HIDE DEF w
    <3> QED  BY <3>4, <3>5
  <2> HIDE DEF s
  <2>3. selection' = [cells |-> cells, column |-> column, beside |-> beside, chosen |-> Chosen(s, obs)]
    BY <2>1, <2>2
  <2>4. /\ DOMAIN Chosen(s, obs) \subseteq Cells
        /\ \A c \in DOMAIN Chosen(s, obs) : Chosen(s, obs)[c] \in Observations
    BY <1>1, <2>2, ChosenIs
  <2>5. Chosen(selection', obs') = Chosen(s, obs)
    BY <1>2, <2>2, <2>3 DEF Chosen
  <2>6. (Chosen(selection, obs))' = Chosen(selection', obs')
    BY DEF Chosen
  <2> DEFINE ch == Chosen(s, obs)
  <2>7. selection' = [cells |-> cells, column |-> column, beside |-> beside, chosen |-> ch]
    BY <2>3
  <2>8. DOMAIN ch \subseteq Cells /\ (\A c \in DOMAIN ch : ch[c] \in Observations) /\ Chosen(selection', obs') = ch
    BY <2>4, <2>5
  <2> HIDE DEF ch
  <2>9. /\ selection'.cells = cells /\ selection'.column = column /\ selection'.beside = beside
        /\ selection'.chosen = ch
    BY <2>7
  <2>10. Cells' = Cells
    BY <1>2 DEF Cells
  <2> QED  BY <2>1, <2>6, <2>7, <2>8, <2>9, <2>10 DEF SelectionOK
<1>4. ToolOK'
  <2>1. \/ /\ tool' = [cells |-> cells, on |-> checkEnabled(cells, obs)]
           /\ \A a, b \in cells : Kind(a) = Kind(b)
        \/ tool' = [tool EXCEPT !.on = FALSE]
    BY DEF Select
  <2>2. CASE /\ tool' = [cells |-> cells, on |-> checkEnabled(cells, obs)]
             /\ \A a, b \in cells : Kind(a) = Kind(b)
    <3>1. tool'.cells = cells /\ tool'.on = checkEnabled(cells, obs)
          /\ tool' = [cells |-> tool'.cells, on |-> tool'.on]
      BY <2>2
    <3>2. (checkEnabled(tool.cells, obs))' = checkEnabled(tool'.cells, obs')
      BY DEF checkEnabled, Ends, Sound, Kind, Time
    <3>3. (\A a, b \in tool.cells : Kind(a) = Kind(b))'
      BY <2>2, <3>1 DEF Kind
    <3> QED  BY <1>2, <3>1, <3>2, <3>3 DEF ToolOK, Cells
  <2>3. CASE tool' = [tool EXCEPT !.on = FALSE]
    <3>1. tool' = [cells |-> tool.cells, on |-> FALSE]
      BY <1>1, <2>3 DEF ToolOK
    <3>2. (\A a, b \in tool.cells : Kind(a) = Kind(b))'
      BY <1>1, <3>1 DEF ToolOK, Kind
    <3> QED  BY <1>1, <1>2, <3>1, <3>2 DEF ToolOK, Cells
  <2> QED  BY <2>1, <2>2, <2>3
<1> QED  BY <1>1, <1>2, <1>3, <1>4, SameBox, SameResults

-----------------------------------------------------------------------------
(* Steps that store observations.  What the buttons offer is not for a     *)
(* daily sum that WatchRR is for.                                          *)
LEMMA OneIs ==
  ASSUME NEW c \in Cells, NEW d \in Shown, NEW u \in Update(c, d)
  PROVE  /\ Changes(One(u)) /\ DOMAIN One(u) = {c} /\ One(u)[c] = DataOf(u)
         /\ One(u)[c].corrected = u.corrected /\ One(u)[c].original = OriginalOf(d)
<1>1. One(u) = [x \in {c} |-> DataOf(u)]
  BY UpdateIs DEF One
<1>2. DataOf(u) \in Observations /\ DataOf(u).corrected = u.corrected /\ DataOf(u).original = OriginalOf(d)
  BY DataIs
<1> QED  BY <1>1, <1>2 DEF Changes

LEMMA StoredIs ==
  ASSUME CorrectionsConstants, State, NEW c \in Cells, NEW u \in Update(c, obs[c]), c \notin past.odd,
         Kind(c) = "rr" /\ obs[c] # NoObs => IsAccumulation(obs[c].ci) = NO,
         Before(obs[c]) => FlagsTell(DataOf(u))
  PROVE  KeptAt(c, DataOf(u)) /\ Before(obs[c])
<1>1. KeptAt(c, obs[c])
  BY KeptIs DEF State
<1>2. Before(obs[c])
  BY <1>1 DEF KeptAt, Before
<1>3. obs[c] \in Shown /\ NoObs \notin Observations
  BY SceneIs DEF State
<1>4. DataOf(u) # NoObs /\ DataOf(u).original = OriginalOf(obs[c])
  BY <1>3, DataIs
<1> QED  BY <1>1, <1>2, <1>4, KeptBy

LEMMA CanDoIs ==
  ASSUME NEW c, NEW d \in Observations, d # NoObs, NEW b \in ALL, b \in CanDo(c, d)
  PROVE  /\ Kind(c) = "rr" => IsAccumulation(d.ci) = NO
         /\ b = "reject" => CanReject(d)
         /\ b = "accept_original" => CanAcceptOriginal(d)
         /\ b = "accept_corrected" => CanAcceptCorrected(d)
<1>1. d.ci.fmis \in {0, 1, 2, 3, 4}
  BY ObservationIs, ControlIs
<1> QED  BY <1>1 DEF CanDo, Possibilities, ALL, CanReject, CanAcceptOriginal, CanAcceptCorrected

LEMMA PressKeeps ==
  ASSUME CorrectionsConstants, IInv, NEW b \in ALL, NEW q \in BOOLEAN, NEW m \in Models \cup {MISSING},
         Press(b, q, m)
  PROVE  IInv'
<1> DEFINE c == box.at
           d == box.have
           u0 == CreateUpdate(c, d)
<1>0. /\ c \in Cells /\ b \in CanDo(c, box.shown) \ {"correct"} /\ d # NoObs
      /\ Noted({}, << >>, << >>)
  BY DEF Press
<1>1. \/ b = "reject" /\ Tell(One(RejectOne(u0, q)), FALSE)
      \/ b = "accept_original" /\ Tell(One(AcceptOriginal(u0)), FALSE)
      \/ b \notin {"reject", "accept_original"} /\ Tell(One(AcceptCorrected(u0, q)), FALSE)
      \/ /\ b \notin {"reject", "accept_original"} /\ m # MISSING
         /\ Tell(One(AcceptCorrected(SetCorrected(u0, m), q)), FALSE)
  BY DEF Press
<1>2. State /\ FirstOK /\ ObsOK /\ BoxOK
  BY DEF IInv, State
<1>3. d = obs[c] /\ box.shown = d /\ d \in Observations /\ d \in Shown
  BY <1>0, <1>1, <1>2, SceneIs DEF BoxOK
<1>4. /\ Kind(c) = "rr" => IsAccumulation(d.ci) = NO
      /\ b = "reject" => CanReject(d)
      /\ b = "accept_original" => CanAcceptOriginal(d)
      /\ b \notin {"reject", "accept_original"} => CanAcceptCorrected(d)
  BY <1>0, <1>1, <1>3, CanDoIs DEF ALL
<1>5. u0 \in Update(c, d) /\ u0.ci = d.ci /\ u0.corrected = d.corrected
  BY <1>0, <1>1, <1>3, CreateIs
<1>6. \E w : /\ w \in Update(c, d) /\ (Before(d) => FlagsTell(DataOf(w))) /\ Tell(One(w), FALSE)
  <2>1. CASE b = "reject" /\ Tell(One(RejectOne(u0, q)), FALSE)
    BY <1>0, <1>1, <1>3, <2>1, RejectOneIs
  <2>2. CASE b = "accept_original" /\ Tell(One(AcceptOriginal(u0)), FALSE)
    BY <1>0, <1>1, <1>3, <1>4, <2>2, AcceptOriginalIs
  <2> HIDE DEF u0, c, d
  <2>3. CASE b \notin {"reject", "accept_original"} /\ Tell(One(AcceptCorrected(u0, q)), FALSE)
    BY <1>0, <1>1, <1>3, <1>4, <1>5, <2>3, AcceptCorrectedIs
  <2>4. CASE /\ b \notin {"reject", "accept_original"} /\ m # MISSING
             /\ Tell(One(AcceptCorrected(SetCorrected(u0, m), q)), FALSE)
    <3> DEFINE w == SetCorrected(u0, m)
    <3>1. m \in Amounts /\ m \in Amount
      BY <2>4, Numbers DEF CorrectionsConstants
    <3>2. w \in Update(c, d) /\ w.corrected = m /\ w.ci = d.ci
      BY <1>5, <3>1, SetCorrectedIs
    <3> HIDE DEF w
    <3>3. AcceptCorrected(w, q) \in Update(c, d) /\ (Before(d) => FlagsTell(DataOf(AcceptCorrected(w, q))))
      BY <1>0, <1>1, <1>3, <1>4, <2>4, <3>1, <3>2, AcceptCorrectedIs
    <3> QED  BY <2>4, <3>3 DEF w
  <2> QED  BY <1>0, <1>1, <2>1, <2>2, <2>3, <2>4
<1> HIDE DEF c, d, u0
<1>7. PICK w : /\ w \in Update(c, d) /\ (Before(d) => FlagsTell(DataOf(w))) /\ Tell(One(w), FALSE)
  BY <1>6
<1>8. Changes(One(w)) /\ DOMAIN One(w) = {c} /\ One(w)[c] = DataOf(w)
  BY <1>0, <1>1, <1>3, <1>7, OneIs
<1>9. Allowed(One(w), {})
  BY <1>0, <1>2, <1>3, <1>4, <1>7, <1>8, StoredIs DEF Allowed
<1>10. Change(One(w), {}, << >>, << >>)
  BY <1>0, <1>7, <1>8, <1>9 DEF Change
<1>11. State' /\ past'.typed = << >> /\ past'.line = << >>
  BY <1>2, <1>10, TellIs
<1> QED  BY <1>11 DEF IInv, ResultsTrue

(* Several updates at once: for each a cell, an observation that it was    *)
(* made from and what is stored; where that is not as the rules are, the   *)
(* cell is odd.                                                            *)
Stored(new, odd) ==
  /\ new = [c \in DOMAIN new |-> new[c]] /\ DOMAIN new \subseteq Cells
  /\ \A c \in DOMAIN new : \E d \in Shown : \E w \in Update(c, d) :
       /\ new[c] = DataOf(w)
       /\ c \in odd \/ /\ d = obs[c]
                       /\ Before(d) => FlagsTell(DataOf(w))
                       /\ Kind(c) = "rr" /\ d # NoObs => IsAccumulation(d.ci) = NO
Storing(new, odd, typed, line) ==
  /\ Stored(new, odd) /\ Noted(odd, typed, line)
  /\ Tell(new, TRUE) \/ Tell(new, FALSE)
LEMMA StoredKeeps ==
  ASSUME CorrectionsConstants, State, NEW new, NEW odd, NEW typed, NEW line,
         Storing(new, odd, typed, line)
  PROVE  /\ State' /\ Cells' = Cells /\ sCode2Text' = sCode2Text
         /\ past'.odd = past.odd \cup odd /\ past'.typed = typed /\ past'.line = line
         /\ \A c \in Cells : obs'[c] = IF c \in DOMAIN new THEN new[c] ELSE obs[c]
<1>. Stored(new, odd) /\ Noted(odd, typed, line) /\ (Tell(new, TRUE) \/ Tell(new, FALSE))
  BY DEF Storing
<1>1. Changes(new)
  BY DataIs DEF Stored, Changes
<1>2. Allowed(new, odd)
  <2>1. ASSUME NEW c \in DOMAIN new, c \notin past.odd, c \notin odd PROVE KeptAt(c, new[c])
    <3>1. c \in Cells
      BY DEF Stored
    <3>2. PICK d \in Shown : \E w \in Update(c, d) :
            /\ new[c] = DataOf(w) /\ d = obs[c]
            /\ Before(d) => FlagsTell(DataOf(w))
            /\ Kind(c) = "rr" /\ d # NoObs => IsAccumulation(d.ci) = NO
      BY <2>1 DEF Stored
    <3>3. PICK w \in Update(c, d) :
            /\ new[c] = DataOf(w) /\ d = obs[c]
            /\ Before(d) => FlagsTell(DataOf(w))
            /\ Kind(c) = "rr" /\ d # NoObs => IsAccumulation(d.ci) = NO
      BY <3>2
    <3> QED  BY <2>1, <3>1, <3>3, StoredIs
  <2> QED  BY <2>1 DEF Allowed
<1>3. Change(new, odd, typed, line)
  BY <1>1, <1>2 DEF Change
<1> QED  BY <1>3, TellIs

LEMMA SelectedHas ==
  ASSUME CorrectionsConstants, State, NEW c \in DOMAIN selection.chosen
  PROVE  /\ c \in Cells /\ selection.chosen[c] \in Observations /\ selection.chosen[c] # NoObs
         /\ selection.chosen[c] \in Shown
         /\ selection.beside => selection.chosen[c] = obs[c]
<1>1. SelectionOK /\ FirstOK /\ ObsOK
  BY DEF State
<1>2. c \in Cells /\ selection.chosen[c] \in Observations /\ NoObs \notin Observations
  BY <1>1, SceneIs DEF SelectionOK
<1>3. selection.beside => selection.chosen[c] = obs[c]
  BY <1>1, ChosenIs DEF SelectionOK
<1> QED  BY <1>2, <1>3 DEF Shown

LEMMA PossibleIs ==
  ASSUME CorrectionsConstants, State, NEW b \in ALL, b \in possible(selection), NEW c \in DOMAIN selection.chosen
  PROVE  LET d == selection.chosen[c]
         IN  /\ Kind(c) = "rr" => IsAccumulation(d.ci) = NO
             /\ b = "reject" => CanReject(d)
             /\ b = "accept_original" => CanAcceptOriginal(d)
             /\ b = "accept_corrected" => CanAcceptCorrected(d)
<1>1. b \in CanDo(c, selection.chosen[c])
  BY DEF possible
<1> QED  BY <1>1, SelectedHas, CanDoIs

LEMMA AcceptSelectedKeeps ==
  ASSUME CorrectionsConstants, IInv, NEW q \in BOOLEAN, NEW m \in Models, NEW known \in SUBSET Cells,
         AcceptSelected(q, m, known)
  PROVE  IInv'
<1> DEFINE ds == selection.chosen
           stale == {c \in DOMAIN ds : ds[c] # obs[c]}
<1>1. State
  BY DEF IInv
<1>2. /\ known \subseteq DOMAIN ds /\ enableAccept(selection, q) /\ Noted(stale, << >>, << >>)
      /\ \/ selection.column = "original" /\ Tell(accept_original(ds), TRUE)
         \/ selection.column = "corrected" /\ Tell(accept_corrected(ds, q), TRUE)
         \/ /\ selection.column \notin {"original", "corrected"}
            /\ Tell(accept_model([c \in known |-> ds[c]], m, q), TRUE)
  BY DEF AcceptSelected
<1>3. /\ selection.column = "original" => "accept_original" \in possible(selection)
      /\ selection.column # "original" => "accept_corrected" \in possible(selection)
  BY <1>2 DEF enableAccept
<1>4. ASSUME NEW c \in DOMAIN ds
      PROVE  /\ c \in Cells /\ ds[c] \in Observations /\ ds[c] # NoObs /\ ds[c] \in Shown
             /\ c \in stale \/ ds[c] = obs[c]
             /\ Kind(c) = "rr" => IsAccumulation(ds[c].ci) = NO
             /\ selection.column # "original" => CanAcceptCorrected(ds[c])
  BY <1>1, <1>3, SelectedHas, PossibleIs DEF ALL
<1> HIDE DEF stale, ds
<1>5. \E new : Stored(new, stale) /\ Tell(new, TRUE)
  <2>1. CASE selection.column = "original" /\ Tell(accept_original(ds), TRUE)
    <3> DEFINE D == {c \in DOMAIN ds : CanAcceptOriginal(ds[c])}
               new == accept_original(ds)
    <3>1. new = [c \in D |-> DataOf(AcceptOriginal(CreateUpdate(c, ds[c])))]
      BY DEF accept_original
    <3> HIDE DEF new
    <3>2. new = [c \in DOMAIN new |-> new[c]] /\ DOMAIN new \subseteq Cells
      BY <1>4, <3>1
    <3>3. ASSUME NEW c \in DOMAIN new
          PROVE  \E d \in Shown : \E w \in Update(c, d) :
                   /\ new[c] = DataOf(w)
                   /\ c \in stale \/ /\ d = obs[c]
                                     /\ Before(d) => FlagsTell(DataOf(w))
                                     /\ Kind(c) = "rr" /\ d # NoObs => IsAccumulation(d.ci) = NO
      <4> DEFINE w == AcceptOriginal(CreateUpdate(c, ds[c]))
      <4>1. c \in DOMAIN ds /\ CanAcceptOriginal(ds[c]) /\ new[c] = DataOf(w)
        BY <3>1
      <4>2. w \in Update(c, ds[c]) /\ (Before(ds[c]) => FlagsTell(DataOf(w)))
        BY <1>4, <4>1, AcceptOriginalIs
      <4> HIDE DEF w
      <4> QED  BY <1>4, <4>1, <4>2
    <3>4. Stored(new, stale)
      BY <3>2, <3>3 DEF Stored
    <3> QED  BY <2>1, <3>4 DEF new
  <2>2. CASE selection.column = "corrected" /\ Tell(accept_corrected(ds, q), TRUE)
    <3> DEFINE D == {c \in DOMAIN ds : CanAcceptCorrected(ds[c])}
               new == accept_corrected(ds, q)
    <3>1. new = [c \in D |-> DataOf(AcceptCorrected(CreateUpdate(c, ds[c]), q))]
      BY DEF accept_corrected
    <3> HIDE DEF new
    <3>2. new = [c \in DOMAIN new |-> new[c]] /\ DOMAIN new \subseteq Cells
      BY <1>4, <3>1
    <3>3. ASSUME NEW c \in DOMAIN new
          PROVE  \E d \in Shown : \E w \in Update(c, d) :
                   /\ new[c] = DataOf(w)
                   /\ c \in stale \/ /\ d = obs[c]
                                     /\ Before(d) => FlagsTell(DataOf(w))
                                     /\ Kind(c) = "rr" /\ d # NoObs => IsAccumulation(d.ci) = NO
      <4> DEFINE u == CreateUpdate(c, ds[c])
                 w == AcceptCorrected(u, q)
      <4>1. c \in DOMAIN ds /\ CanAcceptCorrected(ds[c]) /\ new[c] = DataOf(w)
        BY <3>1
      <4>2. u \in Update(c, ds[c]) /\ u.ci = ds[c].ci /\ u.corrected = ds[c].corrected
        BY <1>4, <4>1, CreateIs
      <4> HIDE DEF u
      <4>3. w \in Update(c, ds[c]) /\ (Before(ds[c]) => FlagsTell(DataOf(w)))
        BY <1>4, <4>1, <4>2, AcceptCorrectedIs
      <4> HIDE DEF w
      <4> QED  BY <1>4, <4>1, <4>3
    <3>4. Stored(new, stale)
      BY <3>2, <3>3 DEF Stored
    <3> QED  BY <2>2, <3>4 DEF new
  <2>3. CASE /\ selection.column \notin {"original", "corrected"}
             /\ Tell(accept_model([c \in known |-> ds[c]], m, q), TRUE)
    <3> DEFINE dk == [c \in known |-> ds[c]]
               new == accept_model(dk, m, q)
               Up(c) == SetCorrected(CreateUpdate(c, dk[c]), m)
    <3>1. new = [c \in known |-> DataOf(IF CanAcceptCorrected(dk[c]) THEN AcceptCorrected(Up(c), q) ELSE Up(c))]
      <4> DOMAIN dk = known
        OBVIOUS
      <4> HIDE DEF dk
      <4> QED  BY DEF accept_model
    <3> HIDE DEF new
    <3>2. new = [c \in DOMAIN new |-> new[c]] /\ DOMAIN new \subseteq Cells
      BY <3>1
    <3>3. ASSUME NEW c \in DOMAIN new
          PROVE  \E d \in Shown : \E w \in Update(c, d) :
                   /\ new[c] = DataOf(w)
                   /\ c \in stale \/ /\ d = obs[c]
                                     /\ Before(d) => FlagsTell(DataOf(w))
                                     /\ Kind(c) = "rr" /\ d # NoObs => IsAccumulation(d.ci) = NO
      <4> DEFINE u0 == CreateUpdate(c, ds[c])
                 u == SetCorrected(u0, m)
                 w == AcceptCorrected(u, q)
      <4>1. c \in DOMAIN ds /\ c \in known /\ dk[c] = ds[c] /\ CanAcceptCorrected(ds[c])
        BY <1>2, <1>4, <2>3, <3>1 DEF ds
      <4>2. new[c] = DataOf(w)
        <5>1. Up(c) = u
          BY <4>1
        <5> HIDE DEF u, dk, Up
        <5> QED  BY <3>1, <4>1, <5>1
      <4>3. m \in Amounts /\ m \in Amount
        BY Numbers DEF CorrectionsConstants
      <4>4. u0 \in Update(c, ds[c]) /\ u0.ci = ds[c].ci
        BY <1>4, <4>1, CreateIs
      <4> HIDE DEF u0
      <4>5. u \in Update(c, ds[c]) /\ u.ci = ds[c].ci /\ u.corrected = m
        BY <4>3, <4>4, SetCorrectedIs
      <4> HIDE DEF u
      <4>6. w \in Update(c, ds[c]) /\ (Before(ds[c]) => FlagsTell(DataOf(w)))
        BY <1>4, <4>1, <4>3, <4>5, AcceptCorrectedIs
      <4> HIDE DEF w
      <4> QED  BY <1>4, <4>1, <4>2, <4>6
    <3>4. Stored(new, stale)
      BY <3>2, <3>3 DEF Stored
    <3> QED  BY <2>3, <3>4 DEF new
  <2> QED  BY <1>2, <2>1, <2>2, <2>3
<1>6. PICK new : Stored(new, stale) /\ Tell(new, TRUE)
  BY <1>5
<1>7. State' /\ past'.typed = << >> /\ past'.line = << >>
  <2> DEFINE e == << >>
  <2>1. Noted(stale, e, e)
    BY <1>2
  <2> HIDE DEF e
  <2>2. Storing(new, stale, e, e)
    BY <1>6, <2>1 DEF Storing
  <2>3. State' /\ past'.typed = e /\ past'.line = e
    BY <1>1, <2>2, StoredKeeps
  <2> QED  BY <2>3 DEF e
<1> QED  BY <1>7 DEF IInv, ResultsTrue

LEMMA RejectSelectedKeeps ==
  ASSUME CorrectionsConstants, IInv, NEW q \in BOOLEAN, RejectSelected(q)
  PROVE  IInv'
<1> DEFINE ds == selection.chosen
           new == reject(ds, q)
           none == {}
           e == << >>
<1>1. State
  BY DEF IInv
<1>2. Noted(none, e, e) /\ Tell(new, TRUE) /\ enableReject(selection)
  BY DEF RejectSelected
<1>3. /\ "reject" \in possible(selection) /\ "reject" \in ALL
      /\ selection.beside
  BY <1>1, <1>2 DEF enableReject, State, SelectionOK, ALL
<1>4. ASSUME NEW c \in DOMAIN ds
      PROVE  /\ c \in Cells /\ ds[c] \in Observations /\ ds[c] # NoObs /\ ds[c] \in Shown /\ ds[c] = obs[c]
             /\ Kind(c) = "rr" => IsAccumulation(ds[c].ci) = NO
  BY <1>1, <1>3, SelectedHas, PossibleIs
<1>5. new = [c \in DOMAIN ds |-> DataOf(RejectOne(CreateUpdate(c, ds[c]), q))] \/ new = None
  BY DEF reject
<1> HIDE DEF none, e, new, ds
<1>6. Stored(new, none)
  <2>1. CASE new = None
    BY <2>1 DEF None, Stored
  <2>2. CASE new = [c \in DOMAIN ds |-> DataOf(RejectOne(CreateUpdate(c, ds[c]), q))]
    <3>2. new = [c \in DOMAIN new |-> new[c]] /\ DOMAIN new \subseteq Cells
      BY <1>4, <2>2
    <3>3. ASSUME NEW c \in DOMAIN new
          PROVE  \E d \in Shown : \E w \in Update(c, d) :
                   /\ new[c] = DataOf(w)
                   /\ c \in none \/ /\ d = obs[c]
                                    /\ Before(d) => FlagsTell(DataOf(w))
                                    /\ Kind(c) = "rr" /\ d # NoObs => IsAccumulation(d.ci) = NO
      <4> DEFINE w == RejectOne(CreateUpdate(c, ds[c]), q)
      <4>1. c \in DOMAIN ds /\ new[c] = DataOf(w)
        BY <2>2
      <4>2. w \in Update(c, ds[c]) /\ (Before(ds[c]) => FlagsTell(DataOf(w)))
        BY <1>4, <4>1, RejectOneIs
      <4> HIDE DEF w
      <4> QED  BY <1>4, <4>1, <4>2
    <3> QED  BY <3>2, <3>3 DEF Stored
  <2> QED  BY <1>5, <2>1, <2>2
<1>7. Storing(new, none, e, e)
  BY <1>2, <1>6 DEF Storing
<1>8. State' /\ past'.typed = e /\ past'.line = e
  BY <1>1, <1>7, StoredKeeps
<1> QED  BY <1>8 DEF IInv, ResultsTrue, e

-----------------------------------------------------------------------------
(* Interpolation.  A whole number of parts, and what is between two of     *)
(* them, rounded.                                                          *)
LEMMA TimesMonotone ==
  ASSUME NEW m \in Nat, NEW x \in Int, NEW y \in Int, x <= y
  PROVE  m * x <= m * y
<1>1. m * (y - x) >= 0
  BY SMTT(30)
<1> QED  BY <1>1, SMTT(30)
LEMMA DivIs ==
  ASSUME NEW a \in Int, NEW m \in Nat \ {0}
  PROVE  /\ a \div m \in Int /\ m * (a \div m) <= a /\ a < m * (a \div m) + m
BY SMTT(30)
LEMMA DivBetween ==
  ASSUME NEW a \in Int, NEW m \in Nat \ {0}, NEW lo \in Int, NEW hi \in Int,
         m * lo <= a, a < m * hi + m
  PROVE  a \div m \in Int /\ lo <= a \div m /\ a \div m <= hi
<1> DEFINE k == a \div m
<1>1. k \in Int /\ m * k <= a /\ a < m * k + m
  BY DivIs
<1> HIDE DEF k
<1>2. ASSUME k + 1 <= lo PROVE FALSE
  <2>1. m * (k + 1) <= m * lo
    BY <1>1, <1>2, TimesMonotone
  <2>2. m * (k + 1) = m * k + m
    BY <1>1
  <2>3. m * k \in Int /\ m * lo \in Int
    BY <1>1
  <2> HIDE DEF k
  <2> QED  BY <1>1, <2>1, <2>2, <2>3
<1>3. ASSUME hi + 1 <= k PROVE FALSE
  <2>1. m * (hi + 1) <= m * k
    BY <1>1, <1>3, TimesMonotone
  <2>2. m * (hi + 1) = m * hi + m
    OBVIOUS
  <2>3. m * k \in Int /\ m * hi \in Int
    BY <1>1
  <2> QED  BY <1>1, <2>1, <2>2, <2>3
<1>4. ~ (k + 1 <= lo) /\ ~ (hi + 1 <= k)
  BY <1>2, <1>3
<1> QED  BY <1>1, <1>4 DEF k

LEMMA RoundedIs ==
  ASSUME NEW d \in Nat \ {0}, NEW n \in Int, NEW lo \in Int, NEW hi \in Int,
         d * lo <= n, n <= d * hi
  PROVE  Rounded(n, d) \in Int /\ lo <= Rounded(n, d) /\ Rounded(n, d) <= hi
<1> DEFINE m == 2 * d
           x == d * lo
           y == d * hi
<1>0. /\ m \in Nat \ {0} /\ x \in Int /\ y \in Int
      /\ m * lo = 2 * x /\ m * hi = 2 * y /\ m * (0 - lo) = 0 - 2 * x /\ m * (0 - hi) = 0 - 2 * y
  <2>1. m \in Nat \ {0} /\ x \in Int /\ y \in Int
    OBVIOUS
  <2>2. m * lo = 2 * x /\ m * hi = 2 * y
    BY SMTT(30)
  <2>3. m * (0 - lo) = 0 - 2 * x
    BY SMTT(30)
  <2>4. m * (0 - hi) = 0 - 2 * y
    BY SMTT(30)
  <2> QED  BY <2>1, <2>2, <2>3, <2>4
<1>1. x <= n /\ n <= y
  OBVIOUS
<1>2. CASE n < 0
  <2> DEFINE a == 2 * (0 - n) + d
             l == 0 - hi
             h == 0 - lo
  <2>1. Rounded(n, d) = 0 - (a \div m)
    <3>1. -((2 * (-n) + d) \div (2 * d)) = 0 - ((2 * (-n) + d) \div (2 * d))
      <4>1. (2 * (-n) + d) \in Int /\ (2 * d) \in Nat \ {0}
        OBVIOUS
      <4>2. (2 * (-n) + d) \div (2 * d) \in Int
        BY <4>1, DivIs
      <4> QED  BY <4>2
    <3>2. 2 * (-n) + d = a
      OBVIOUS
    <3> QED  BY <1>2, <3>1, <3>2 DEF Rounded
  <2> HIDE DEF m, x, y
  <2>2. a \in Int /\ l \in Int /\ h \in Int /\ m * l <= a /\ a < m * h + m
    <3>1. a \in Int /\ l \in Int /\ h \in Int /\ m * l = 0 - 2 * y /\ m * h = 0 - 2 * x
      BY <1>0
    <3>2. m = 2 * d
      BY DEF m
    <3> QED  BY <1>0, <1>1, <3>1, <3>2
  <2> HIDE DEF a, l, h
  <2>3. a \div m \in Int /\ l <= a \div m /\ a \div m <= h
    BY <1>0, <2>2, DivBetween
  <2> DEFINE k == a \div m
  <2>4. k \in Int /\ l <= k /\ k <= h /\ Rounded(n, d) = 0 - k
    BY <2>1, <2>3
  <2> HIDE DEF k
  <2> QED  BY <2>4 DEF l, h
<1>3. CASE ~ (n < 0)
  <2> DEFINE a == 2 * n + d
  <2>1. Rounded(n, d) = a \div m
    BY <1>3 DEF Rounded
  <2> HIDE DEF m, x, y
  <2>2. a \in Int /\ m * lo <= a /\ a < m * hi + m
    <3>2. m = 2 * d
      BY DEF m
    <3> QED  BY <1>0, <1>1, <3>2
  <2> HIDE DEF a
  <2>3. a \div m \in Int /\ lo <= a \div m /\ a \div m <= hi
    BY <1>0, <2>2, DivBetween
  <2> QED  BY <2>1, <2>3
<1> QED  BY <1>2, <1>3

(* Between two values, as far as the time t is between theirs. *)
LEMMA Weighted ==
  ASSUME NEW s \in Int, NEW e \in Int, NEW p \in Nat, NEW r \in Nat, s <= e
  PROVE  /\ p * e + r * s \in Int
         /\ (p + r) * s <= p * e + r * s /\ p * e + r * s <= (p + r) * e
<1>1. p * s <= p * e /\ r * s <= r * e
  BY TimesMonotone
<1>2. (p + r) * s = p * s + r * s
  BY SMTT(30)
<1>3. (p + r) * e = p * e + r * e
  BY SMTT(30)
<1>4. p * s \in Int /\ p * e \in Int /\ r * s \in Int /\ r * e \in Int
  OBVIOUS
<1> QED  BY <1>1, <1>2, <1>3, <1>4
LEMMA LineIs ==
  ASSUME NEW c0 \in Int, NEW c1 \in Int, NEW t0 \in Int, NEW t1 \in Int, NEW t \in Int,
         t0 <= t, t <= t1, t0 < t1
  PROVE  LET v == Rounded((t - t0) * c1 + (t1 - t) * c0, t1 - t0)
         IN  v \in Int /\ ((c0 <= v /\ v <= c1) \/ (c1 <= v /\ v <= c0))
<1> DEFINE p == t - t0
           r == t1 - t
           d == t1 - t0
           n == p * c1 + r * c0
<1>1. p \in Nat /\ r \in Nat /\ d \in Nat \ {0} /\ d = p + r
  OBVIOUS
<1> HIDE DEF p, r, d
<1>2. CASE c0 <= c1
  <2>1. n \in Int /\ d * c0 <= n /\ n <= d * c1
    BY <1>1, <1>2, Weighted
  <2> HIDE DEF n
  <2>2. Rounded(n, d) \in Int /\ c0 <= Rounded(n, d) /\ Rounded(n, d) <= c1
    BY <1>1, <2>1, RoundedIs
  <2> QED  BY <2>2 DEF n, p, r, d
<1>3. CASE ~ (c0 <= c1)
  <2> DEFINE w == r * c0 + p * c1
  <2>1. c1 <= c0 /\ d = r + p
    BY <1>1, <1>3
  <2>2. w \in Int /\ d * c1 <= w /\ w <= d * c0
    BY <1>1, <2>1, Weighted
  <2>3. n = w
    BY <1>1
  <2> HIDE DEF n, w
  <2>4. Rounded(n, d) \in Int /\ c1 <= Rounded(n, d) /\ Rounded(n, d) <= c0
    BY <1>1, <2>2, <2>3, RoundedIs
  <2> QED  BY <2>4 DEF n, p, r, d
<1> QED  BY <1>2, <1>3

LEMMA OnCircleIs ==
  ASSUME CorrectionsConstants, NEW v \in Int
  PROVE  OnCircle(v) \in 1 .. Circle
<1>1. Circle \in Nat \ {0}
  BY DEF CorrectionsConstants
<1>2. v % Circle \in 0 .. Circle - 1
  BY <1>1
<1> QED  BY <1>1, <1>2 DEF OnCircle

LEMMA InterpolatedIs ==
  ASSUME CorrectionsConstants, NEW kind, NEW c0 \in Amounts, NEW c1 \in Amounts,
         NEW t0 \in Int, NEW t1 \in Int, NEW t \in Int, t0 <= t, t <= t1, t0 < t1,
         kind = "direction" => (c0 = 0) = (c1 = 0)
  PROVE  LET v == Interpolated(kind, c0, c1, t0, t1, t)
         IN  /\ v \in Amounts
             /\ IF kind # "direction" THEN (c0 <= v /\ v <= c1) \/ (c1 <= v /\ v <= c0)
                ELSE IF c0 = 0 THEN v = 0 ELSE v \in 1 .. Circle
<1> DEFINE start == IF kind = "direction" /\ c0 # 0 /\ c1 # 0 /\ Abs(c0 + Circle - c1) < Abs(c0 - c1)
                      THEN c0 + Circle ELSE c0
           v == Rounded((t - t0) * c1 + (t1 - t) * start, t1 - t0)
<1>1. c0 \in Int /\ c1 \in Int /\ Circle \in Nat \ {0}
  BY DEF Amounts, CorrectionsConstants
<1>2. start \in Int /\ (kind # "direction" => start = c0)
  BY <1>1
<1>3. Interpolated(kind, c0, c1, t0, t1, t) =
        IF kind # "direction" THEN v ELSE IF c0 = 0 \/ c1 = 0 THEN 0 ELSE OnCircle(v)
  BY DEF Interpolated
<1> HIDE DEF start
<1>4. v \in Int /\ ((start <= v /\ v <= c1) \/ (c1 <= v /\ v <= start))
  BY <1>1, <1>2, LineIs
<1> HIDE DEF v
<1>5. CASE kind # "direction"
  <2>1. Interpolated(kind, c0, c1, t0, t1, t) = v
    BY <1>3, <1>5
  <2>2. v \in Amounts
    BY <1>2, <1>4, <1>5 DEF Amounts, REJECTED
  <2> QED  BY <1>2, <1>4, <1>5, <2>1, <2>2
<1>6. CASE kind = "direction" /\ c0 = 0
  <2>1. Interpolated(kind, c0, c1, t0, t1, t) = 0
    BY <1>3, <1>6
  <2> QED  BY <1>6, <2>1 DEF Amounts, REJECTED
<1>7. CASE kind = "direction" /\ c0 # 0
  <2>1. Interpolated(kind, c0, c1, t0, t1, t) = OnCircle(v)
    BY <1>3, <1>7
  <2>2. OnCircle(v) \in 1 .. Circle
    BY <1>4, OnCircleIs
  <2> QED  BY <1>1, <1>7, <2>1, <2>2 DEF Amounts, REJECTED
<1> QED  BY <1>5, <1>6, <1>7

(* The ends of a selection. *)
LEMMA EndsAre ==
  ASSUME NEW cells, cells # {}, IsFiniteSet(cells), \A c \in cells : Time(c) \in Int
  PROVE  /\ Ends(cells)[1] \in cells /\ \A d \in cells : Time(Ends(cells)[1]) <= Time(d)
         /\ Ends(cells)[2] \in cells /\ \A d \in cells : Time(Ends(cells)[2]) >= Time(d)
<1> DEFINE D == {Time(c) : c \in cells}
           E == {0 - Time(c) : c \in cells}
<1>1. D \in SUBSET Int /\ D # {} /\ E \in SUBSET Int /\ E # {}
  OBVIOUS
<1>2. IsFiniteSet(D)
  <2> DEFINE f == [c \in cells |-> Time(c)]
  <2>1. f \in Surjection(cells, D)
    BY DEF Surjection
  <2> HIDE DEF f, D
  <2> QED  BY <2>1, FS_Surjection
<1> HIDE DEF D
<1>3. PICK b \in Nat : \A d \in D : 0 - b <= d /\ d <= b
  BY <1>1, <1>2, Bounded
<1> DEFINE lo == 0 - b
<1>4. lo \in Int /\ (\A d \in D : lo <= d) /\ \A e \in E : lo <= e
  BY <1>1, <1>3 DEF D
<1> HIDE DEF E, lo
<1>5. (\E m \in D : \A d \in D : m <= d) /\ \E m \in E : \A d \in E : m <= d
  BY <1>1, <1>4, FirstOf
<1>6. (\E c \in cells : \A d \in cells : Time(c) <= Time(d)) /\ \E c \in cells : \A d \in cells : Time(c) >= Time(d)
  <2>1. \E c \in cells : \A d \in cells : Time(c) <= Time(d)
    BY <1>5 DEF D
  <2>2. \E c \in cells : \A d \in cells : 0 - Time(c) <= 0 - Time(d)
    BY <1>5 DEF E
  <2> QED  BY <2>1, <2>2
<1> DEFINE first == CHOOSE c \in cells : \A d \in cells : Time(c) <= Time(d)
           last  == CHOOSE c \in cells : \A d \in cells : Time(c) >= Time(d)
<1>7. first \in cells /\ \A d \in cells : Time(first) <= Time(d)
  BY <1>6
<1>8. last \in cells /\ \A d \in cells : Time(last) >= Time(d)
  BY <1>6
<1>9. Ends(cells) = << first, last >>
  BY DEF Ends
<1> HIDE DEF first, last
<1> QED  BY <1>7, <1>8, <1>9

LEMMA InterpolateKeeps ==
  ASSUME CorrectionsConstants, IInv, Interpolate
  PROVE  IInv'
<1> DEFINE first == Ends(tool.cells)[1]
           last  == Ends(tool.cells)[2]
           c0 == obs[first].corrected
           c1 == obs[last].corrected
           between == tool.cells \ {first, last}
           value == [c \in between |-> Interpolated(Kind(first), c0, c1, Time(first), Time(last), Time(c))]
           owned == {c \in between : Kind(c) = "rr" /\ obs[c] # NoObs}
           new == [c \in between |-> DataOf(AutoCorrect(CreateUpdate(c, obs[c]), obs[c], value[c]))]
           e == << >>
           line == << Kind(first), c0, c1, value >>
<1>1. State /\ FirstOK /\ ObsOK /\ ToolOK
  BY DEF IInv, State
<1>2. Tell(new, FALSE) /\ Noted(owned, e, line) /\ tool.on
  BY DEF Interpolate
<1>3. /\ tool.cells \subseteq Cells /\ tool.cells # {} /\ Sound(obs[first]) /\ Sound(obs[last])
      /\ Kind(first) = "direction" => (c0 = 0) = (c1 = 0)
      /\ \A a, b \in tool.cells : Kind(a) = Kind(b)
  <2>1. checkEnabled(tool.cells, obs)
    BY <1>1, <1>2 DEF ToolOK
  <2>2. Sound(obs[Ends(tool.cells)[1]]) /\ Sound(obs[Ends(tool.cells)[2]])
    BY <2>1 DEF checkEnabled
  <2>3. /\ tool.cells # {}
        /\ Kind(Ends(tool.cells)[1]) = "direction" =>
             (obs[Ends(tool.cells)[1]].corrected = 0) = (obs[Ends(tool.cells)[2]].corrected = 0)
    BY <2>1 DEF checkEnabled
  <2> QED  BY <1>1, <2>2, <2>3 DEF ToolOK
<1>4. IsFiniteSet(tool.cells) /\ \A c \in tool.cells : Time(c) \in Int /\ c = << Kind(c), Time(c) >>
  BY <1>1, <1>3, SceneIs, FS_Subset
<1>5. /\ first \in tool.cells /\ (\A d \in tool.cells : Time(first) <= Time(d))
      /\ last \in tool.cells /\ \A d \in tool.cells : Time(last) >= Time(d)
  BY <1>3, <1>4, EndsAre
<1> HIDE DEF first, last
<1>6. c0 \in Amounts /\ c1 \in Amounts
  <2>1. ASSUME NEW c \in Cells, Sound(obs[c]) PROVE obs[c].corrected \in Amounts
    <3>1. obs[c] \in Observations
      BY <1>1, <2>1, SceneIs DEF Sound
    <3>2. obs[c].corrected \in Amount
      BY <3>1, ObservationIs
    <3> QED  BY <2>1, <3>2, Numbers DEF Sound, IsMissing, IsRejected
  <2> QED  BY <1>3, <1>5, <2>1
<1> HIDE DEF c0, c1
<1>7. ASSUME NEW c \in between
      PROVE  /\ c \in Cells /\ value[c] \in Amounts
             /\ IF Kind(first) # "direction" THEN (c0 <= value[c] /\ value[c] <= c1) \/ (c1 <= value[c] /\ value[c] <= c0)
                ELSE IF c0 = 0 THEN value[c] = 0 ELSE value[c] \in 1 .. Circle
  <2> DEFINE k == Kind(first)
             t0 == Time(first)
             t1 == Time(last)
             t == Time(c)
             v == Interpolated(k, c0, c1, t0, t1, t)
  <2>1. c \in tool.cells /\ c # first /\ value[c] = v
    OBVIOUS
  <2>2. t0 \in Int /\ t1 \in Int /\ t \in Int /\ t0 <= t /\ t <= t1 /\ t # t0
    <3>1. t # t0
      BY <1>3, <1>4, <1>5, <2>1
    <3> QED  BY <1>4, <1>5, <2>1, <3>1
  <2>3. k = "direction" => (c0 = 0) = (c1 = 0)
    BY <1>3 DEF c0, c1
  <2> HIDE DEF k, t0, t1, t, value
  <2>4. t0 < t1
    BY <2>2
  <2>5. /\ v \in Amounts
        /\ IF k # "direction" THEN (c0 <= v /\ v <= c1) \/ (c1 <= v /\ v <= c0)
           ELSE IF c0 = 0 THEN v = 0 ELSE v \in 1 .. Circle
    BY <1>6, <2>2, <2>3, <2>4, InterpolatedIs
  <2> HIDE DEF v
  <2> QED  BY <1>3, <2>1, <2>5 DEF k
<1>8. DOMAIN value = between
  OBVIOUS
<1> HIDE DEF value
<1>9. Stored(new, owned)
  <2>1. new = [c \in DOMAIN new |-> new[c]] /\ DOMAIN new \subseteq Cells /\ DOMAIN new = between
    BY <1>3
  <2>2. ASSUME NEW c \in between
        PROVE  \E d \in Shown : \E w \in Update(c, d) :
                 /\ new[c] = DataOf(w)
                 /\ c \in owned \/ /\ d = obs[c]
                                   /\ Before(d) => FlagsTell(DataOf(w))
                                   /\ Kind(c) = "rr" /\ d # NoObs => IsAccumulation(d.ci) = NO
    <3> DEFINE w == AutoCorrect(CreateUpdate(c, obs[c]), obs[c], value[c])
    <3>1. new[c] = DataOf(w)
      OBVIOUS
    <3>2. obs[c] \in Shown /\ value[c] \in Amounts /\ value[c] \in Amount
      BY <1>1, <1>7, SceneIs, Numbers
    <3>3. w \in Update(c, obs[c]) /\ (Before(obs[c]) => FlagsTell(DataOf(w)))
      BY <3>2, AutoCorrectIs
    <3>4. c \in owned \/ ~ (Kind(c) = "rr" /\ obs[c] # NoObs)
      OBVIOUS
    <3> HIDE DEF w, owned, new
    <3> QED  BY <3>1, <3>2, <3>3, <3>4
  <2> HIDE DEF new, owned, between
  <2> QED  BY <2>1, <2>2 DEF Stored
<1> HIDE DEF new, owned, e, line
<1>10. Storing(new, owned, e, line)
  BY <1>2, <1>9 DEF Storing
<1>11. State' /\ past'.typed = e /\ past'.line = line
  BY <1>1, <1>10, StoredKeeps
<1>12. line[1] = Kind(first) /\ line[2] = c0 /\ line[3] = c1 /\ line[4] = value
  BY DEF line
<1>13. ResultsTrue'
  BY <1>7, <1>8, <1>11, <1>12 DEF ResultsTrue, e
<1> QED  BY <1>11, <1>13 DEF IInv

-----------------------------------------------------------------------------
(* What is typed.  The codes of a kind. *)
LEMMA CodesAre ==
  ASSUME CorrectionsConstants, NEW kind
  PROVE  /\ DOMAIN codesForParam(kind) \subseteq Amounts \cup {NEW_ROW, MISSING, REJECTED}
         /\ MISSING \in DOMAIN codesForParam(kind) /\ codesForParam(kind)[MISSING] = << "mis" >>
<1> DEFINE f == paramCodes(kind)
           g == [v \in {NEW_ROW, MISSING, REJECTED} |->
                   CASE v = NEW_ROW -> << "new" >> [] v = MISSING -> << "mis" >> [] OTHER -> << "rej", "r" >>]
<1>1. codesForParam(kind) = Over(f, g)
  BY DEF codesForParam
<1>2. DOMAIN f \subseteq Amounts
  BY DEF paramCodes, CorrectionsConstants
<1>3. MISSING # NEW_ROW /\ MISSING \notin Amounts
  BY DEF MISSING, NEW_ROW, Amounts, REJECTED
<1>4. DOMAIN g = {NEW_ROW, MISSING, REJECTED} /\ g[MISSING] = << "mis" >>
  BY <1>3
<1> HIDE DEF f, g
<1> QED  BY <1>1, <1>2, <1>3, <1>4 DEF Over

LEMMA FromTextIs ==
  ASSUME CorrectionsConstants, State, NEW c \in Cells, NEW text \in Texts, fromText(Kind(c), text) # << >>
  PROVE  LET codes == sCode2Text[Kind(c)]
             v == fromText(Kind(c), text)[1]
         IN  /\ text.kind # "vx"
             /\ text.kind = "number" => v = text.value /\ v \in Int
             /\ text.kind # "number" => v \in Amounts \cup {REJECTED} /\ v \in DOMAIN codes /\ codes[v] # << >>
             /\ MISSING \in DOMAIN codes /\ codes[MISSING] = << "mis" >>
<1> DEFINE codes == sCode2Text[Kind(c)]
           N == {v \in DOMAIN codes \ {NEW_ROW, MISSING} : text.kind = "word" /\ Contains(codes[v], text.value)}
           x == CHOOSE v \in N : \A w \in N : v <= w
           r == fromText(Kind(c), text)
<1>1. codes = codesForParam(Kind(c))
  <2>1. FirstOK /\ ObsOK
    BY DEF State
  <2>2. Cells = DOMAIN past.first
    BY <2>1, SceneIs
  <2> QED  BY <2>1, <2>2 DEF FirstOK
<1>2. /\ DOMAIN codes \subseteq Amounts \cup {NEW_ROW, MISSING, REJECTED}
      /\ MISSING \in DOMAIN codes /\ codes[MISSING] = << "mis" >>
  BY <1>1, CodesAre
<1>3. /\ N # {} => r = << x >>
      /\ N = {} => text.kind = "number" /\ r = << text.value >>
  <2>1. N # {} => r = << x >>
    <3>1. ASSUME N # {} PROVE ~ (text.kind = "number")
      BY <3>1
    <3> HIDE DEF x, r
    <3> QED  BY <3>1 DEF fromText, r, x
  <2>2. N = {} => text.kind = "number" /\ r = << text.value >>
    BY DEF fromText
  <2> QED  BY <2>1, <2>2
<1> HIDE DEF r
<1>4. /\ text.kind = "number" => text.value \in Int
      /\ N # {} => text.kind = "word"
  BY DEF CorrectionsConstants, TextOK
<1>5. N \in SUBSET (Amounts \cup {REJECTED})
  BY <1>2
<1>6. N # {} => x \in N
  <2>1. N \in SUBSET Int /\ REJECTED \in Int /\ \A v \in N : REJECTED <= v
    BY <1>5 DEF Amounts, REJECTED
  <2>2. N # {} => \E m \in N : \A d \in N : m <= d
    <3> HIDE DEF N
    <3> QED  BY <2>1, FirstOf
  <2> HIDE DEF N
  <2> QED  BY <2>2
<1>7. N # {} => x \in DOMAIN codes /\ codes[x] # << >>
  <2>1. ASSUME NEW v \in N PROVE v \in DOMAIN codes /\ codes[v] # << >>
    <3>1. Contains(codes[v], text.value)
      OBVIOUS
    <3> QED  BY <3>1 DEF Contains
  <2> HIDE DEF N, x
  <2> QED  BY <1>6, <2>1
<1> HIDE DEF N, x, codes
<1>8. CASE N # {}
  BY <1>2, <1>3, <1>4, <1>5, <1>6, <1>7, <1>8 DEF r, codes
<1>9. CASE N = {}
  BY <1>2, <1>3, <1>4, <1>9 DEF r, codes
<1> QED  BY <1>8, <1>9

LEMMA WithinIs ==
  ASSUME CorrectionsConstants, NEW v \in Int, WithinLimits(v)
  PROVE  v \in Amount /\ (v # MISSING /\ v # REJECTED => v \in Amounts)
<1>1. Lowest \in Int /\ Highest \in Int /\ Lowest > REJECTED /\ REJECTED \in Int
  BY Numbers DEF CorrectionsConstants, Amounts
<1>2. v # MISSING /\ v # REJECTED => v \in Amounts
  BY <1>1 DEF WithinLimits, Amounts
<1> QED  BY <1>2 DEF Amount

(* What the table or the box has of each cell: the observation, or none.   *)
Has(o) == \A c \in Cells : o[c] = obs[c] \/ o[c] = NoObs

\* A value for one cell.
ValueIs(w, c, d, v) ==
  /\ Tell(One(w), FALSE)
  /\ Stored(One(w), LostCells(c, d) \cup (IF v = MISSING THEN {c} ELSE {}))
  /\ DOMAIN One(w) = {c} /\ One(w)[c] = DataOf(w)
  /\ v # REJECTED => w.corrected = v
  /\ v = REJECTED /\ c \notin past.odd /\ c \notin LostCells(c, d) =>
       w.corrected = REJECTED \/ (w.corrected = MISSING /\ DataOf(w).original = MISSING)
LEMMA ValueStored ==
  ASSUME CorrectionsConstants, State, NEW o, Has(o), NEW c \in Cells, NEW v \in Int,
         Editable(c, o[c]), SetValue(c, o[c], v)
  PROVE  \E w \in Update(c, o[c]) : ValueIs(w, c, o[c], v)
<1> DEFINE d == o[c]
           u0 == CreateUpdate(c, d)
           w == IF v = REJECTED THEN RejectUpdate(u0, d) ELSE AutoCorrect(u0, d, v)
           odd == LostCells(c, d) \cup (IF v = MISSING THEN {c} ELSE {})
<1>1. v = REJECTED => d # NoObs
  BY DEF SetValue
<1>2. v \in Amount /\ (v # MISSING /\ v # REJECTED => v \in Amounts)
  BY WithinIs DEF SetValue
<1>3. Tell(One(w), FALSE)
  BY DEF SetValue
<1>4. obs[c] \in Shown /\ d \in Shown /\ (d # NoObs => d \in Observations) /\ (d = obs[c] \/ d = NoObs)
  <2>1. FirstOK /\ ObsOK
    BY DEF State
  <2> QED  BY <2>1, SceneIs DEF Has, Shown
<1>5. /\ w \in Update(c, d)
      /\ v # REJECTED => w.corrected = v
      /\ Before(d) /\ v # MISSING => FlagsTell(DataOf(w))
      /\ Before(d) /\ v = REJECTED => w.corrected = REJECTED \/ (w.corrected = MISSING /\ d.original = MISSING)
  <2>1. CASE v = REJECTED
    <3>1. w = RejectUpdate(u0, d)
      BY <2>1
    <3>2. MISSING # REJECTED
      BY Numbers
    <3> HIDE DEF w
    <3> QED  BY <1>1, <1>4, <2>1, <3>1, <3>2, RejectUpdateIs
  <2>2. CASE v # REJECTED
    <3>1. w = AutoCorrect(u0, d, v)
      BY <2>2
    <3> HIDE DEF w
    <3> QED  BY <1>2, <1>4, <2>2, <3>1, AutoCorrectIs
  <2> QED  BY <2>1, <2>2
<1> HIDE DEF w
<1>6. Changes(One(w)) /\ DOMAIN One(w) = {c} /\ One(w)[c] = DataOf(w) /\ DataOf(w).original = OriginalOf(d)
  <2> HIDE DEF d
  <2>1. w \in Update(c, d) /\ d \in Shown
    BY <1>4, <1>5
  <2>2. Changes(One(w)) /\ DOMAIN One(w) = {c} /\ One(w)[c] = DataOf(w)
    BY <2>1, OneIs
  <2>3. DataOf(w).original = OriginalOf(d)
    BY <2>1, DataIs
  <2> QED  BY <2>2, <2>3
<1>7. c \in LostCells(c, d) \/ d = obs[c]
  BY <1>4 DEF LostCells
<1>8. c \notin past.odd /\ d = obs[c] => Before(d)
  <2>1. c \notin past.odd => KeptAt(c, obs[c])
    BY KeptIs DEF State
  <2> QED  BY <2>1 DEF KeptAt, Before
<1>9. Stored(One(w), odd)
  <2>1. One(w) = [x \in DOMAIN One(w) |-> One(w)[x]] /\ DOMAIN One(w) \subseteq Cells
    BY <1>6 DEF Changes
  <2>2. c \in odd \/ /\ d = obs[c]
                     /\ Before(d) => FlagsTell(DataOf(w))
                     /\ Kind(c) = "rr" /\ d # NoObs => IsAccumulation(d.ci) = NO
    <3>1. v = MISSING => c \in odd
      OBVIOUS
    <3>2. c \in LostCells(c, d) => c \in odd
      OBVIOUS
    <3>3. Kind(c) = "rr" => d = NoObs
      BY DEF Editable
    <3> HIDE DEF odd, d
    <3> QED  BY <1>5, <1>7, <3>1, <3>2, <3>3
  <2> HIDE DEF odd, d
  <2> QED  BY <1>4, <1>5, <1>6, <2>1, <2>2 DEF Stored
<1>10. v = REJECTED /\ c \notin past.odd /\ c \notin LostCells(c, d) =>
         w.corrected = REJECTED \/ (w.corrected = MISSING /\ DataOf(w).original = MISSING)
  BY <1>1, <1>5, <1>6, <1>7, <1>8 DEF OriginalOf
<1> HIDE DEF odd, u0
<1> QED  BY <1>3, <1>5, <1>6, <1>9, <1>10 DEF odd, ValueIs

LEMMA EnterValueKeeps ==
  ASSUME CorrectionsConstants, IInv, NEW o, Has(o), NEW c \in Cells, NEW text \in Texts,
         Kind(c) # "vx", Enter(c, o, text)
  PROVE  IInv'
<1> DEFINE k == Kind(c)
           v == fromText(k, text)[1]
           odd == LostCells(c, o[c]) \cup (IF v = MISSING THEN {c} ELSE {})
           e == << >>
           typed == << c, text >>
           codes == sCode2Text[k]
<1>1. State
  BY DEF IInv
<1>2. /\ fromText(k, text) # << >> /\ SetValue(c, o[c], v) /\ Noted(odd, typed, e) /\ Editable(c, o[c])
  BY DEF Enter
<1>3. /\ text.kind # "vx"
      /\ text.kind = "number" => v = text.value /\ v \in Int
      /\ text.kind # "number" => v \in Amounts \cup {REJECTED} /\ v \in DOMAIN codes /\ codes[v] # << >>
      /\ MISSING \in DOMAIN codes /\ codes[MISSING] = << "mis" >>
  BY <1>1, <1>2, FromTextIs
<1> HIDE DEF v
<1>4. v \in Int
  BY <1>3, Numbers
<1>5. PICK w \in Update(c, o[c]) :
         /\ Tell(One(w), FALSE) /\ Stored(One(w), odd)
         /\ DOMAIN One(w) = {c} /\ One(w)[c] = DataOf(w)
         /\ v # REJECTED => w.corrected = v
         /\ v = REJECTED /\ c \notin past.odd /\ c \notin LostCells(c, o[c]) =>
              w.corrected = REJECTED \/ (w.corrected = MISSING /\ DataOf(w).original = MISSING)
  <2>1. \E w \in Update(c, o[c]) : ValueIs(w, c, o[c], v)
    BY <1>1, <1>2, <1>4, ValueStored
  <2> QED  BY <2>1 DEF ValueIs
<1> HIDE DEF odd, e, typed
<1>6. Storing(One(w), odd, typed, e)
  BY <1>2, <1>5 DEF Storing
<1>7. /\ State' /\ sCode2Text' = sCode2Text /\ past'.odd = past.odd \cup odd
      /\ past'.typed = typed /\ past'.line = e /\ obs'[c] = DataOf(w)
  <2> DEFINE new == One(w)
  <2>1. Storing(new, odd, typed, e) /\ DOMAIN new = {c} /\ new[c] = DataOf(w)
    BY <1>5, <1>6
  <2> HIDE DEF new
  <2> QED  BY <1>1, <2>1, StoredKeeps
<1>8. obs'[c].corrected = w.corrected /\ obs'[c].original = DataOf(w).original
  BY <1>7 DEF DataOf
<1>9. fromText(k, text)' = fromText(k, text)
  BY <1>7 DEF fromText, shownDecimals
<1>10. ASSUME c \notin past'.odd
       PROVE  IF text.kind = "number" THEN obs'[c].corrected = text.value \/ text.value = REJECTED
              ELSE \/ asText(k, obs[c].corrected)' = << sCode2Text'[k][v][1] >>
                   \/ v = REJECTED /\ asText(k, obs[c].corrected)' = << "mis" >> /\ obs'[c].original = MISSING
  <2>1. c \notin past.odd /\ c \notin LostCells(c, o[c])
    BY <1>7, <1>10 DEF odd
  <2>2. CASE text.kind = "number"
    BY <1>3, <1>5, <1>8, <2>2
  <2>3. CASE text.kind # "number" /\ w.corrected = v
    <3>1. asText(k, obs[c].corrected)' = << codes[v][1] >>
      BY <1>3, <1>7, <1>8, <2>3 DEF asText
    <3> QED  BY <1>7, <2>3, <3>1
  <2>4. CASE text.kind # "number" /\ v = REJECTED /\ w.corrected = MISSING /\ DataOf(w).original = MISSING
    <3>1. asText(k, obs[c].corrected)' = << codes[MISSING][1] >>
      BY <1>3, <1>7, <1>8, <2>4 DEF asText
    <3> QED  BY <1>3, <1>8, <2>4, <3>1
  <2> QED  BY <1>5, <2>1, <2>2, <2>3, <2>4
<1>11. typed[1] = c /\ typed[2] = text /\ e = << >>
  BY DEF typed, e
<1>12. ResultsTrue'
  BY <1>3, <1>7, <1>9, <1>10, <1>11 DEF ResultsTrue, v, Kind
<1> QED  BY <1>7, <1>12 DEF IInv

\* A Vx: what is stored for its code and for its strength.
LEMMA NoneStored == \A odd : Stored(None, odd)
BY DEF None, Stored
Fits(w, c, d, odd) ==
  c \in odd \/ (d = obs[c] /\ Kind(c) # "rr" /\ (Before(d) => FlagsTell(DataOf(w))))
LEMMA OneStored ==
  ASSUME CorrectionsConstants, NEW odd, NEW c \in Cells, NEW d \in Shown, NEW w \in Update(c, d),
         Fits(w, c, d, odd)
  PROVE  Stored(One(w), odd) /\ DOMAIN One(w) = {c} /\ One(w)[c] = DataOf(w)
<1>1. Changes(One(w)) /\ DOMAIN One(w) = {c} /\ One(w)[c] = DataOf(w)
  BY OneIs
<1> QED  BY <1>1 DEF Changes, Stored, Fits
LEMMA OverStored ==
  ASSUME NEW f, NEW g, NEW odd, Stored(f, odd), Stored(g, odd)
  PROVE  Stored(Over(f, g), odd)
<1> DEFINE h == Over(f, g)
<1>1. h = [x \in DOMAIN f \cup DOMAIN g |-> IF x \in DOMAIN f THEN f[x] ELSE g[x]]
  BY DEF Over
<1> HIDE DEF h
<1>2. h = [x \in DOMAIN h |-> h[x]] /\ DOMAIN h \subseteq Cells
  BY <1>1 DEF Stored
<1>3. ASSUME NEW c \in DOMAIN h
      PROVE  \E d \in Shown : \E w \in Update(c, d) :
               /\ h[c] = DataOf(w)
               /\ c \in odd \/ /\ d = obs[c]
                               /\ Before(d) => FlagsTell(DataOf(w))
                               /\ Kind(c) = "rr" /\ d # NoObs => IsAccumulation(d.ci) = NO
  <2>1. CASE c \in DOMAIN f
    <3>1. h[c] = f[c]
      BY <1>1, <2>1
    <3> QED  BY <2>1, <3>1 DEF Stored
  <2>2. CASE c \notin DOMAIN f
    <3>1. h[c] = g[c] /\ c \in DOMAIN g
      BY <1>1, <2>2
    <3> QED  BY <3>1 DEF Stored
  <2> QED  BY <2>1, <2>2
<1>4. Stored(h, odd)
  BY <1>2, <1>3 DEF Stored
<1> QED  BY <1>4 DEF h

LEMMA PartsAre ==
  ASSUME CorrectionsConstants, State, NEW o, Has(o), NEW c \in Cells, Kind(c) = "vx"
  PROVE  LET s == Strength(c)
             p == Parts(c, o)
         IN  /\ s \in Cells /\ s # c /\ Kind(s) = "strength"
             /\ o[c] \in Shown /\ o[s] \in Shown
             /\ c \in LostCells(c, o[c]) \/ o[c] = obs[c]
             /\ s \in LostCells(s, o[s]) \/ o[s] = obs[s]
             /\ p.one = c \/ p.one = s
             /\ p.obs1 \in Shown /\ p.obs2 \in Shown
             /\ ~ (o[c] = NoObs /\ o[s] # NoObs) => p.one = c /\ p.obs1 = o[c] /\ p.obs2 = o[s]
<1>1. FirstOK /\ ObsOK
  BY DEF State
<1>2. Strength(c) \in Cells /\ obs[c] \in Shown /\ obs[Strength(c)] \in Shown
  BY <1>1, SceneIs
<1>3. Strength(c)[1] = "strength" /\ c[1] = "vx"
  BY DEF Strength, Kind
<1>4. o[c] \in Shown /\ o[Strength(c)] \in Shown /\ NoObs \in Shown
  BY <1>2 DEF Has, Shown
<1>5. /\ c \in LostCells(c, o[c]) \/ o[c] = obs[c]
      /\ Strength(c) \in LostCells(Strength(c), o[Strength(c)]) \/ o[Strength(c)] = obs[Strength(c)]
  BY <1>2 DEF Has, LostCells
<1> QED  BY <1>2, <1>3, <1>4, <1>5 DEF Parts, Kind

LEMMA ClearStored ==
  ASSUME CorrectionsConstants, State, NEW o, Has(o), NEW c \in Cells, Kind(c) = "vx",
         NEW odd, DOMAIN ClearVx(c, o) \subseteq odd
  PROVE  Stored(ClearVx(c, o), odd)
<1> DEFINE s == Strength(c)
           p == Parts(c, o)
           u2 == CreateUpdate(s, p.obs2)
           u1 == CreateUpdate(p.one, p.obs1)
           w2 == SetCorrected(u2, 1)
           w1 == SetCorrected(u1, 0)
           f == IF p.obs2 = NoObs \/ p.obs2.corrected = 1 THEN None ELSE One(w2)
           g == IF p.obs1 = NoObs THEN None ELSE One(w1)
<1>1. /\ s \in Cells /\ p.one \in Cells /\ p.obs1 \in Shown /\ p.obs2 \in Shown
  BY PartsAre
<1>2. 0 \in Amount /\ 1 \in Amount
  BY DEF Amount, Amounts, REJECTED
<1>3. ClearVx(c, o) = Over(f, g)
  BY DEF ClearVx
<1>4. DOMAIN f \subseteq odd /\ DOMAIN g \subseteq odd
  <2> HIDE DEF f, g
  <2> QED  BY <1>3 DEF Over
<1> HIDE DEF s, p
<1>5. Stored(f, odd)
  <2>1. CASE f = None
    BY <2>1, NoneStored
  <2>2. CASE f = One(w2)
    <3>1. u2 \in Update(s, p.obs2)
      BY <1>1, CreateIs
    <3> HIDE DEF u2
    <3>2. w2 \in Update(s, p.obs2)
      BY <1>2, <3>1, SetCorrectedIs
    <3> HIDE DEF w2, f
    <3>3. DOMAIN One(w2) = {s}
      BY <3>2, UpdateIs DEF One
    <3>4. s \in odd
      BY <1>4, <2>2, <3>3
    <3>5. Fits(w2, s, p.obs2, odd)
      BY <3>4 DEF Fits
    <3> QED  BY <1>1, <2>2, <3>2, <3>5, OneStored
  <2> QED  BY <2>1, <2>2
<1>6. Stored(g, odd)
  <2>1. CASE g = None
    BY <2>1, NoneStored
  <2>2. CASE g = One(w1)
    <3> DEFINE x == p.one
               d == p.obs1
    <3>0. x \in Cells /\ d \in Shown
      BY <1>1
    <3>1. u1 \in Update(x, d)
      BY <3>0, CreateIs
    <3> HIDE DEF u1, x, d
    <3>2. w1 \in Update(x, d)
      BY <1>2, <3>1, SetCorrectedIs
    <3> HIDE DEF w1, g
    <3>3. DOMAIN One(w1) = {x}
      BY <3>2, UpdateIs DEF One
    <3>4. x \in odd
      BY <1>4, <2>2, <3>3
    <3>5. Fits(w1, x, d, odd)
      BY <3>4 DEF Fits
    <3> QED  BY <2>2, <3>0, <3>2, <3>5, OneStored
  <2> QED  BY <2>1, <2>2
<1> HIDE DEF f, g
<1> QED  BY <1>3, <1>5, <1>6, OverStored

LEMMA NewStored ==
  ASSUME CorrectionsConstants, State, NEW o, Has(o), NEW c \in Cells, Kind(c) = "vx",
         NEW code \in Amounts, code # 0, NEW level \in 0 .. 2, NEW odd,
         LostCells(c, o[c]) \subseteq odd, LostCells(Strength(c), o[Strength(c)]) \subseteq odd,
         o[c] = NoObs /\ o[Strength(c)] # NoObs => c \in odd /\ Strength(c) \in odd
  PROVE  LET s == Strength(c)
             new == NewVx(c, o, code, level)
             n(x) == IF x \in DOMAIN new THEN new[x] ELSE obs[x]
         IN  /\ Stored(new, odd)
             /\ ~ (o[c] = NoObs /\ o[s] # NoObs) =>
                  /\ n(c) # NoObs /\ n(c).corrected = code
                  /\ n(s) # NoObs /\ n(s).corrected = level
<1> DEFINE s == Strength(c)
           p == Parts(c, o)
           old1 == IF p.obs1 = NoObs THEN 0 ELSE p.obs1.corrected
           old2 == IF p.obs2 = NoObs THEN -1 ELSE p.obs2.corrected
           x1 == p.one
           d1 == p.obs1
           d2 == p.obs2
           w2 == AutoCorrect(CreateUpdate(s, d2), d2, level)
           w1 == AutoCorrect(CreateUpdate(x1, d1), d1, code)
           f == IF level = old2 THEN None ELSE One(w2)
           g == IF code = old1 THEN None ELSE One(w1)
           new == NewVx(c, o, code, level)
           alone == o[c] = NoObs /\ o[s] # NoObs
           n(x) == IF x \in DOMAIN new THEN new[x] ELSE obs[x]
<1>1. new = Over(f, g)
  BY DEF NewVx
<1>2. /\ s \in Cells /\ s # c /\ Kind(s) = "strength" /\ x1 \in Cells /\ d1 \in Shown /\ d2 \in Shown
      /\ c \in LostCells(c, o[c]) \/ o[c] = obs[c]
      /\ s \in LostCells(s, o[s]) \/ o[s] = obs[s]
      /\ x1 = c \/ x1 = s
      /\ ~ alone => x1 = c /\ d1 = o[c] /\ d2 = o[s]
  BY PartsAre
<1>3. level \in Amounts /\ level \in Amount /\ code \in Amount /\ level # -1
  BY Numbers DEF Amounts, Amount, REJECTED
<1>4. /\ s \in odd \/ (d2 = obs[s] /\ Kind(s) # "rr")
      /\ x1 \in odd \/ (d1 = obs[x1] /\ Kind(x1) # "rr")
  <2>1. alone => s \in odd /\ x1 \in odd
    BY <1>2
  <2>2. ~ alone => s \in odd \/ d2 = obs[s]
    BY <1>2
  <2>3. ~ alone => c \in odd \/ d1 = obs[c]
    BY <1>2
  <2> HIDE DEF alone, s, x1, d1, d2
  <2> QED  BY <1>2, <2>1, <2>2, <2>3
<1>5. NoObs \notin Observations
  BY DEF CorrectionsConstants
<1>6. /\ d2 # NoObs /\ ~ alone => obs[s] = d2
      /\ d1 # NoObs /\ ~ alone => obs[c] = d1
  BY <1>2 DEF Has
<1>7. /\ level = old2 => d2 # NoObs /\ d2.corrected = level
      /\ code = old1 => d1 # NoObs /\ d1.corrected = code
  BY <1>3
<1> HIDE DEF old1, old2, s, p, x1, d1, d2, alone
<1>8. w2 \in Update(s, d2) /\ w2.corrected = level /\ (Before(d2) => FlagsTell(DataOf(w2)))
  BY <1>2, <1>3, AutoCorrectIs
<1>9. w1 \in Update(x1, d1) /\ w1.corrected = code /\ (Before(d1) => FlagsTell(DataOf(w1)))
  BY <1>2, <1>3, AutoCorrectIs
<1> HIDE DEF w1, w2
<1>10. Stored(One(w2), odd) /\ DOMAIN One(w2) = {s} /\ One(w2)[s] = DataOf(w2)
  <2>1. Fits(w2, s, d2, odd)
    BY <1>4, <1>8 DEF Fits
  <2>2. s \in Cells /\ d2 \in Shown /\ w2 \in Update(s, d2)
    BY <1>2, <1>8
  <2> QED  BY <2>1, <2>2, OneStored
<1>11. Stored(One(w1), odd) /\ DOMAIN One(w1) = {x1} /\ One(w1)[x1] = DataOf(w1)
  <2>1. Fits(w1, x1, d1, odd)
    BY <1>4, <1>9 DEF Fits
  <2>2. x1 \in Cells /\ d1 \in Shown /\ w1 \in Update(x1, d1)
    BY <1>2, <1>9
  <2> QED  BY <2>1, <2>2, OneStored
<1>12. DataOf(w2) # NoObs /\ DataOf(w1) # NoObs /\ DataOf(w2).corrected = level /\ DataOf(w1).corrected = code
  <2>1. DataOf(w2) \in Observations /\ DataOf(w2).corrected = level
    BY <1>2, <1>8, DataIs
  <2>2. DataOf(w1) \in Observations /\ DataOf(w1).corrected = code
    BY <1>2, <1>9, DataIs
  <2> QED  BY <1>5, <2>1, <2>2
<1>13. Stored(f, odd) /\ Stored(g, odd)
  BY <1>10, <1>11, NoneStored
<1>14. /\ DOMAIN f = IF level = old2 THEN {} ELSE {s}
       /\ DOMAIN g = IF code = old1 THEN {} ELSE {x1}
       /\ level # old2 => f[s] = DataOf(w2)
       /\ code # old1 => g[x1] = DataOf(w1)
  BY <1>10, <1>11 DEF None
<1> HIDE DEF f, g, new
<1>15. Stored(new, odd)
  BY <1>1, <1>13, OverStored
<1>16. ASSUME ~ alone PROVE n(c) # NoObs /\ n(c).corrected = code /\ n(s) # NoObs /\ n(s).corrected = level
  <2>1. x1 = c
    BY <1>2, <1>16
  <2>2. /\ DOMAIN new = DOMAIN f \cup DOMAIN g
        /\ \A x \in DOMAIN new : new[x] = IF x \in DOMAIN f THEN f[x] ELSE g[x]
    BY <1>1 DEF Over
  <2>3. n(c) = IF code = old1 THEN obs[c] ELSE DataOf(w1)
    BY <1>2, <1>14, <2>1, <2>2
  <2>4. n(s) = IF level = old2 THEN obs[s] ELSE DataOf(w2)
    BY <1>2, <1>14, <2>1, <2>2
  <2> HIDE DEF n
  <2> QED  BY <1>6, <1>7, <1>12, <1>16, <2>3, <2>4
<1> HIDE DEF n
<1> QED  BY <1>15, <1>16 DEF n, new, s, alone

LEMMA EnterVxKeeps ==
  ASSUME CorrectionsConstants, IInv, NEW o, Has(o), NEW c \in Cells, NEW text \in Texts,
         Kind(c) = "vx", Enter(c, o, text)
  PROVE  IInv'
<1> DEFINE s == Strength(c)
           new == IF text.kind = "empty" THEN ClearVx(c, o) ELSE NewVx(c, o, text.value, text.level)
           lost == LostCells(c, o[c]) \cup LostCells(s, o[s])
           alone == IF o[c] = NoObs /\ o[s] # NoObs THEN {c, s} ELSE {}
           odd == lost \cup alone \cup (IF text.kind = "empty" THEN DOMAIN new ELSE {})
           e == << >>
           typed == IF text.kind = "vx" /\ alone = {} THEN << c, text >> ELSE << >>
           n(x) == IF x \in DOMAIN new THEN new[x] ELSE obs[x]
           told == text.kind = "vx" /\ ~ (o[c] = NoObs /\ o[s] # NoObs)
<1>1. State
  BY DEF IInv
<1>2. /\ text.kind \in {"empty", "vx"}
      /\ text.kind = "vx" => text.value \in VxCodes \ {0}
      /\ Tell(new, FALSE) /\ Noted(odd, typed, e)
  BY DEF Enter
<1>3. text.kind = "vx" => text.value \in Amounts /\ text.value # 0 /\ text.level \in 0 .. 2
  BY <1>2 DEF CorrectionsConstants, TextOK
<1>4. /\ Stored(new, odd)
      /\ told => n(c) # NoObs /\ n(c).corrected = text.value /\ n(s) # NoObs /\ n(s).corrected = text.level
  <2>1. CASE text.kind = "empty"
    <3>1. new = ClearVx(c, o) /\ DOMAIN ClearVx(c, o) \subseteq odd
      BY <2>1
    <3> HIDE DEF new, odd
    <3>2. Stored(new, odd)
      BY <1>1, <3>1, ClearStored
    <3> QED  BY <2>1, <3>2
  <2>2. CASE text.kind = "vx"
    <3>1. /\ LostCells(c, o[c]) \subseteq odd /\ LostCells(s, o[s]) \subseteq odd
          /\ o[c] = NoObs /\ o[s] # NoObs => c \in odd /\ s \in odd
      OBVIOUS
    <3>2. new = NewVx(c, o, text.value, text.level)
      BY <2>2
    <3> HIDE DEF new, odd
    <3> DEFINE code == text.value
               level == text.level
    <3>3. code \in Amounts /\ code # 0 /\ level \in 0 .. 2 /\ new = NewVx(c, o, code, level)
      BY <1>3, <2>2, <3>2
    <3> HIDE DEF code, level
    <3>4. /\ Stored(new, odd)
          /\ ~ (o[c] = NoObs /\ o[s] # NoObs) =>
               n(c) # NoObs /\ n(c).corrected = code /\ n(s) # NoObs /\ n(s).corrected = level
      BY <1>1, <3>1, <3>3, NewStored
    <3> QED  BY <3>4 DEF code, level
  <2>3. text.kind = "empty" \/ text.kind = "vx"
    BY <1>2
  <2> HIDE DEF new, odd, n, told
  <2> QED  BY <2>1, <2>2, <2>3, Zenon
<1>5. /\ typed # e => told /\ typed[1] = c /\ typed[2] = text
      /\ e = << >>
  OBVIOUS
<1> HIDE DEF new, odd, e, typed
<1>6. Storing(new, odd, typed, e)
  BY <1>2, <1>4 DEF Storing
<1>7. /\ State' /\ past'.typed = typed /\ past'.line = e
      /\ \A x \in Cells : obs'[x] = n(x)
  BY <1>1, <1>6, StoredKeeps
<1>8. s \in Cells /\ c[1] = "vx"
  BY <1>1, PartsAre DEF Kind
<1>9. ASSUME told PROVE ShownVx(c, obs)' = << text.value, text.level >> /\ text.kind = "vx"
  <2>1. /\ text.kind = "vx" /\ text.value \in VxCodes \ {0} /\ text.level \in 0 .. 2
    BY <1>2, <1>3, <1>9
  <2>2. /\ obs'[c] # NoObs /\ obs'[c].corrected = text.value /\ obs'[s] # NoObs /\ obs'[s].corrected = text.level
    <3> HIDE DEF n, told
    <3> QED  BY <1>4, <1>7, <1>8, <1>9
  <2>3. Parts(c, obs)'.obs1 = obs'[c] /\ Parts(c, obs)'.obs2 = obs'[s]
    BY <2>2 DEF Parts
  <2> DEFINE level == IF Parts(c, obs)'.obs2 = NoObs THEN -1 ELSE Parts(c, obs)'.obs2.corrected
  <2>4. ShownVx(c, obs)' = << text.value, IF level \in {0, 2} THEN level ELSE 1 >>
    BY <2>1, <2>2, <2>3 DEF ShownVx
  <2>5. level = text.level
    BY <2>2, <2>3
  <2> HIDE DEF level
  <2> QED  BY <2>1, <2>4, <2>5
<1> HIDE DEF told, n
<1>10. ResultsTrue'
  BY <1>5, <1>7, <1>9 DEF ResultsTrue
<1> QED  BY <1>7, <1>10 DEF IInv

-----------------------------------------------------------------------------
(* All steps. *)
LEMMA EnterKeeps ==
  ASSUME CorrectionsConstants, IInv, NEW o, Has(o), NEW c \in Cells, NEW text \in Texts, Enter(c, o, text)
  PROVE  IInv'
BY EnterValueKeeps, EnterVxKeeps

LEMMA BufferHas ==
  ASSUME IInv
  PROVE  Has(InBuffer) /\ Has(obs)
<1>1. BoxOK
  BY DEF IInv, State
<1>2. ASSUME NEW c \in Cells PROVE InBuffer[c] = obs[c] \/ InBuffer[c] = NoObs
  <2>1. CASE box.waiting
    <3>1. InBuffer[c] = IF c = box.at THEN box.have ELSE NoObs
      BY <2>1 DEF InBuffer
    <3> QED  BY <1>1, <3>1 DEF BoxOK
  <2>2. CASE ~ box.waiting
    BY <2>2 DEF InBuffer
  <2> QED  BY <2>1, <2>2
<1> QED  BY <1>2 DEF Has

LEMMA NextKeeps ==
  ASSUME CorrectionsConstants, IInv, [Next]_vars
  PROVE  IInv'
<1>1. CASE BufferCompleted
  BY <1>1, CompletedKeeps
<1>2. CASE Interpolate
  BY <1>2, InterpolateKeeps
<1>3. ASSUME NEW c \in Boxed \cap Cells, Navigate(c) PROVE IInv'
  BY <1>3, NavigateKeeps
<1>4. ASSUME NEW c \in Cells, NEW t \in Texts, EnterInTable(c, t) PROVE IInv'
  BY <1>4, BufferHas, EnterKeeps DEF EnterInTable
<1>5. ASSUME NEW t \in Texts, EnterInBox(t) PROVE IInv'
  <2>1. box.at \in Cells /\ Enter(box.at, InBuffer, t)
    BY <1>5 DEF EnterInBox
  <2> QED  BY <2>1, BufferHas, EnterKeeps
<1>6. ASSUME NEW b \in ALL, NEW q \in BOOLEAN, NEW m \in Models \cup {MISSING}, Press(b, q, m) PROVE IInv'
  BY <1>6, PressKeeps
<1>7. ASSUME NEW cells \in Selections \cap SUBSET Cells, NEW col \in {"original", "corrected", "model", "other"},
             NEW b \in BOOLEAN, Select(cells, col, b)
      PROVE  IInv'
  <2>1. cells \in SUBSET Cells
    OBVIOUS
  <2> QED  BY <1>7, <2>1, SelectKeeps
<1>8. ASSUME NEW q \in BOOLEAN, RejectSelected(q) PROVE IInv'
  BY <1>8, RejectSelectedKeeps
<1>9. ASSUME NEW q \in BOOLEAN, NEW m \in Models, NEW known \in SUBSET Cells, AcceptSelected(q, m, known)
      PROVE  IInv'
  BY <1>9, AcceptSelectedKeeps
<1>10. CASE UNCHANGED vars
  <2>1. UNCHANGED << sCode2Text, obs, past >> /\ BoxOK' /\ SelectionOK' /\ ToolOK'
    BY <1>10, SameBox, SameSelection, SameTool DEF vars, IInv, State
  <2> QED  BY <2>1, SameResults DEF IInv
<1> QED  BY <1>1, <1>2, <1>3, <1>4, <1>5, <1>6, <1>7, <1>8, <1>9, <1>10 DEF Next

(* What the buttons beside the table offer can be done to all of them. *)
LEMMA ButtonsAre ==
  ASSUME CorrectionsConstants, State
  PROVE  ButtonsInStep
<1> SUFFICES ASSUME selection.beside PROVE ButtonsInStep
  BY DEF ButtonsInStep
<1>1. selection.chosen = Chosen(selection, obs)
  BY DEF State, SelectionOK
<1>2. \A c \in DOMAIN selection.chosen : selection.chosen[c] = obs[c]
  BY SelectedHas
<1>3. ASSUME enableReject(selection), NEW c \in DOMAIN selection.chosen PROVE CanReject(obs[c])
  <2>1. "reject" \in ALL /\ "reject" \in possible(selection)
    BY <1>3 DEF enableReject, ALL
  <2> QED  BY <1>2, <2>1, PossibleIs
<1>4. ASSUME enableAccept(selection, FALSE), NEW c \in DOMAIN selection.chosen
      PROVE  IF selection.column = "original" THEN CanAcceptOriginal(obs[c]) ELSE CanAcceptCorrected(obs[c])
  <2>1. /\ "accept_original" \in ALL /\ "accept_corrected" \in ALL
        /\ selection.column = "original" => "accept_original" \in possible(selection)
        /\ selection.column # "original" => "accept_corrected" \in possible(selection)
    BY <1>4 DEF enableAccept, ALL
  <2> QED  BY <1>2, <2>1, PossibleIs
<1> QED  BY <1>1, <1>3, <1>4 DEF ButtonsInStep

(* Whatever is typed, pressed, selected or interpolated, in whatever       *)
(* order: flags and values of the observations agree and their originals   *)
(* stay, with the exceptions in odd; a code, a word or a number is shown   *)
(* as it was typed and an interpolation lies between its ends; and a       *)
(* button beside a table is enabled only if it can be done to all that are *)
(* selected (DataCorrectedItem, DataVxItem, SimpleCorrections,             *)
(* AcceptRejectButtons, ToolInterpolate).                                  *)
THEOREM EditsKeep ==
  ASSUME CorrectionsConstants
  PROVE  Spec => []EditsKeepRules
<1>1. Init => IInv
  BY FirstEnds
<1>2. IInv /\ [Next]_vars => IInv'
  BY NextKeeps
<1>3. IInv => EditsKeepRules
  BY ButtonsAre DEF IInv, State, EditsKeepRules
<1> QED  BY <1>1, <1>2, <1>3, PTL DEF Spec
=============================================================================
