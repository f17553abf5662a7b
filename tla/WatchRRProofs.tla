----------------------------- MODULE WatchRRProofs -----------------------------
(***************************************************************************)
(* Proofs about WatchRR: the analysis marks what is left of accumulations, *)
(* the buttons follow the card, accepting skips no day, what the card does *)
(* not show completely stays as it is, and what an edit cuts in two is     *)
(* marked and not saved.                                                   *)
(***************************************************************************)
EXTENDS WatchRR, SequenceTheorems, FiniteSetTheorems, WellFoundedInduction, TLAPS

(* Induction over the natural numbers, for a set of them.                  *)
LEMMA AllNumbers ==
  ASSUME NEW S \in SUBSET Nat, 0 \in S, \A n \in S : n + 1 \in S
  PROVE  Nat \subseteq S
<1> DEFINE R == {p \in Nat \X Nat : p[1] < p[2]}
           T == Nat \ S
<1>1. IsWellFoundedOn(R, Nat)
  <2>1. R = OpToRel(<, Nat)
    BY DEF OpToRel
  <2> QED  BY <2>1, NatLessThanWellFounded
<1>2. SUFFICES ASSUME T # {} PROVE FALSE
  OBVIOUS
<1>3. PICK t \in T : \A u \in T : ~ (<< u, t >> \in R)
  <2> HIDE DEF R, T
  <2>1. T \subseteq Nat
    BY DEF T
  <2> QED  BY <1>1, <1>2, <2>1, WFMin
<1>4. t \in Nat /\ t # 0 /\ t - 1 \in Nat /\ << t - 1, t >> \in R /\ (t - 1) + 1 = t
  OBVIOUS
<1>5. t - 1 \in S
  BY <1>3, <1>4
<1> QED  BY <1>4, <1>5

(* The least of some numbers. *)
LEMMA LeastNumber ==
  ASSUME NEW S \in SUBSET Nat, S # {}
  PROVE  \E m \in S : \A k \in S : m <= k
<1> DEFINE R == {p \in Nat \X Nat : p[1] < p[2]}
<1>1. IsWellFoundedOn(R, Nat)
  <2>1. R = OpToRel(<, Nat)
    BY DEF OpToRel
  <2> QED  BY <2>1, NatLessThanWellFounded
<1>2. PICK t \in S : \A u \in S : ~ (<< u, t >> \in R)
  <2> HIDE DEF R
  <2> QED  BY <1>1, WFMin
<1>3. ASSUME NEW k \in S PROVE t <= k
  <2>1. ~ (<< k, t >> \in R) /\ k \in Nat /\ t \in Nat
    BY <1>2
  <2> QED  BY <2>1
<1> QED  BY <1>3

(* The first and the last of some days. *)
LEMMA FirstOf ==
  ASSUME NEW lo \in Int, NEW D \in SUBSET Int, D # {}, \A d \in D : lo <= d
  PROVE  \E m \in D : \A d \in D : m <= d
<1> DEFINE S == {n \in Nat : lo + n \in D}
<1>1. PICK x \in D : TRUE
  OBVIOUS
<1>2. x - lo \in S
  BY <1>1
<1>3. PICK n \in S : \A k \in S : n <= k
  <2>1. S \in SUBSET Nat /\ S # {}
    BY <1>2
  <2> HIDE DEF S
  <2> QED  BY <2>1, LeastNumber
<1>4. ASSUME NEW d \in D PROVE lo + n <= d
  <2>1. d - lo \in S
    OBVIOUS
  <2>2. n <= d - lo
    BY <1>3, <2>1
  <2> QED  BY <2>2
<1> QED  BY <1>3, <1>4
LEMMA LastOf ==
  ASSUME NEW hi \in Int, NEW D \in SUBSET Int, D # {}, \A d \in D : d <= hi
  PROVE  \E m \in D : \A d \in D : d <= m
<1> DEFINE S == {n \in Nat : hi - n \in D}
<1>1. PICK x \in D : TRUE
  OBVIOUS
<1>2. hi - x \in S
  BY <1>1
<1>3. PICK n \in S : \A k \in S : n <= k
  <2>1. S \in SUBSET Nat /\ S # {}
    BY <1>2
  <2> HIDE DEF S
  <2> QED  BY <2>1, LeastNumber
<1>4. ASSUME NEW d \in D PROVE d <= hi - n
  <2>1. hi - d \in S
    OBVIOUS
  <2>2. n <= hi - d
    BY <1>3, <2>1
  <2> QED  BY <2>2
<1> QED  BY <1>3, <1>4

-----------------------------------------------------------------------------
(* The rules.  Apply goes through them in order.                           *)
FlagOK(f, v) == f \in Flags /\ v \in Values /\ (f = "fmis" => v <= 4)
RuleOK(r) == FlagOK(r.flag, r.value)
LEMMA FlagSetTyped ==
  ASSUME NEW ci \in ControlInfo, NEW f, NEW v, FlagOK(f, v)
  PROVE  [ci EXCEPT ![f] = v] \in ControlInfo
<1>1. [ci EXCEPT ![f] = v] \in [Flags -> Values]
  BY DEF ControlInfo, FlagOK
<1>2. [ci EXCEPT ![f] = v].fmis = IF f = "fmis" THEN v ELSE ci.fmis
  BY DEF ControlInfo, Flags
<1>3. ci.fmis <= 4
  BY DEF ControlInfo
<1> QED  BY <1>1, <1>2, <1>3 DEF ControlInfo, FlagOK
LEMMA AppliedIs ==
  ASSUME NEW fc, Len(fc) \in Nat, NEW ci
  PROVE  Applied(fc, ci) =
           [n \in 0 .. Len(fc) |->
              IF n = 0 THEN ci
              ELSE IF Matches(fc[n].matcher, Applied(fc, ci)[n - 1])
                     THEN Updated(Applied(fc, ci)[n - 1], fc[n])
              ELSE Applied(fc, ci)[n - 1]]
<1> DEFINE After(f, n) == IF n = 0 THEN ci
                          ELSE IF Matches(fc[n].matcher, f[n - 1]) THEN Updated(f[n - 1], fc[n])
                          ELSE f[n - 1]
           Solves(f, m) == f = [n \in 0 .. m |-> After(f, n)]
           S == {m \in Nat : \E f : Solves(f, m)}
<1>1. 0 \in S
  <2>1. Solves([n \in 0 .. 0 |-> ci], 0)
    OBVIOUS
  <2> QED  BY <2>1
<1>2. ASSUME NEW m \in S PROVE m + 1 \in S
  <2>1. PICK f : Solves(f, m)
    OBVIOUS
  <2> DEFINE g == [n \in 0 .. m + 1 |-> IF n <= m THEN f[n] ELSE After(f, n)]
  <2>2. ASSUME NEW n \in 0 .. m + 1 PROVE g[n] = After(g, n)
    <3>1. n # 0 => n - 1 \in 0 .. m + 1 /\ n - 1 <= m
      OBVIOUS
    <3>2. After(g, n) = After(f, n)
      BY <3>1
    <3>3. n <= m => f[n] = After(f, n)
      BY <2>1
    <3> QED  BY <3>2, <3>3
  <2>3. Solves(g, m + 1)
    BY <2>2
  <2>4. m + 1 \in Nat /\ \E h : Solves(h, m + 1)
    <3> HIDE DEF g, Solves
    <3> QED  BY <2>3
  <2> QED  BY <2>4
<1>3. Len(fc) \in S
  <2> HIDE DEF S
  <2>1. S \in SUBSET Nat
    BY DEF S
  <2> QED  BY <1>1, <1>2, <2>1, AllNumbers
<1>4. \E f : Solves(f, Len(fc))
  BY <1>3
<1>5. Applied(fc, ci) = CHOOSE f : Solves(f, Len(fc))
  BY DEF Applied
<1> HIDE DEF Solves
<1>6. Solves(Applied(fc, ci), Len(fc))
  BY <1>4, <1>5
<1> QED  BY <1>6 DEF Solves

AppliedBy(fc, ci, A) ==
  A = [n \in 0 .. Len(fc) |->
         IF n = 0 THEN ci
         ELSE IF Matches(fc[n].matcher, A[n - 1]) THEN Updated(A[n - 1], fc[n])
         ELSE A[n - 1]]
LEMMA ByApplied ==
  ASSUME NEW fc, Len(fc) \in Nat, NEW ci
  PROVE  AppliedBy(fc, ci, Applied(fc, ci))
BY AppliedIs DEF AppliedBy

(* Flags stay flags. *)
LEMMA ApplyTyped ==
  ASSUME NEW fc, Len(fc) \in Nat, \A n \in 1 .. Len(fc) : RuleOK(fc[n]),
         NEW ci \in ControlInfo
  PROVE  Apply(fc, ci) \in ControlInfo
<1> DEFINE A == Applied(fc, ci)
           S == {n \in Nat : n <= Len(fc) => A[n] \in ControlInfo}
<1>1. A = [n \in 0 .. Len(fc) |->
              IF n = 0 THEN ci
              ELSE IF Matches(fc[n].matcher, A[n - 1]) THEN Updated(A[n - 1], fc[n])
              ELSE A[n - 1]]
  BY AppliedIs
<1> HIDE DEF A
<1>2. 0 \in S
  BY <1>1
<1>3. ASSUME NEW n \in S PROVE n + 1 \in S
  <2>1. SUFFICES ASSUME n + 1 <= Len(fc) PROVE A[n + 1] \in ControlInfo
    OBVIOUS
  <2>2. A[n] \in ControlInfo /\ (n + 1) - 1 = n /\ n + 1 # 0 /\ n + 1 \in 0 .. Len(fc)
    BY <2>1
  <2>3. \/ A[n + 1] = Updated(A[n], fc[n + 1])
        \/ A[n + 1] = A[n]
    BY <1>1, <2>2
  <2>4. RuleOK(fc[n + 1])
    BY <2>1
  <2>5. Updated(A[n], fc[n + 1]) \in ControlInfo
    BY <2>2, <2>4, FlagSetTyped DEF Updated, RuleOK
  <2> QED  BY <2>2, <2>3, <2>5
<1>4. Len(fc) \in S
  <2>1. S \in SUBSET Nat
    OBVIOUS
  <2> HIDE DEF S
  <2> QED  BY <1>2, <1>3, <2>1, AllNumbers
<1> QED  BY <1>4 DEF Apply, A

LEMMA RulesOK ==
  ASSUME NEW text, NEW f, NEW v, FlagOK(f, v)
  PROVE  RuleOK(Rule(text, f, v)) /\ RuleOK(Always(f, v))
BY DEF RuleOK, Rule, Always

(* Updates, and the observations that they make.                           *)
Shown == Tasked \cup {NoObs}
Update == [at : Cells, obs : Shown, corrected : Int, ci : ControlInfo,
           tasks : SUBSET Tasks]
LEMMA MissingIs ==
  /\ MissingControl \in ControlInfo /\ MissingControl.fd = 0
  /\ MISSING \in Int /\ REJECTED \in Int /\ DRY \in Int
<1>1. MISSING \in Int /\ REJECTED \in Int /\ DRY \in Int
  BY DEF MISSING, REJECTED, DRY
<1>2. MissingControl.fd = 0
  BY DEF MissingControl
<1>3. MissingControl \in ControlInfo
  BY DEF MissingControl, Flags, Values, ControlInfo
<1> QED  BY <1>1, <1>2, <1>3

LEMMA CreateIs ==
  ASSUME NEW c \in Cells, NEW obs \in Shown
  PROVE  LET u == CreateUpdate(c, obs)
         IN  /\ u \in Update /\ u.at = c /\ u.obs = obs
             /\ obs = NoObs => u.tasks = {} /\ u.ci = MissingControl
             /\ obs # NoObs => u.ci = obs.ci /\ u.tasks = obs.tasks /\ u.corrected = obs.corrected
<1>1. CASE obs = NoObs
  BY <1>1, MissingIs DEF CreateUpdate, Update, Shown
<1>2. CASE obs # NoObs
  BY <1>2 DEF CreateUpdate, Update, Shown, Tasked
<1> QED  BY <1>1, <1>2

LEMMA DataIs ==
  ASSUME NEW u \in Update
  PROVE  /\ DataOf(u) \in Tasked /\ DataOf(u) # NoObs /\ DataOf(u) \in Shown
         /\ DataOf(u).ci = u.ci /\ DataOf(u).tasks = u.tasks /\ DataOf(u).corrected = u.corrected
         /\ u.obs # NoObs => DataOf(u).original = u.obs.original
<1> DEFINE orig == IF u.obs = NoObs THEN MISSING ELSE u.obs.original
<1>1. orig \in Int
  BY MissingIs DEF Update, Shown, Tasked
<1>2. DataOf(u) = [original |-> orig, corrected |-> u.corrected, ci |-> u.ci, tasks |-> u.tasks]
  BY DEF DataOf
<1>3. u.corrected \in Int /\ u.ci \in ControlInfo /\ u.tasks \in SUBSET Tasks
  BY DEF Update
<1> HIDE DEF orig
<1>4. DataOf(u) \in Tasked
  BY <1>1, <1>2, <1>3 DEF Tasked
<1>5. u.obs # NoObs => orig = u.obs.original
  BY DEF orig
<1> QED  BY <1>2, <1>4, <1>5, CardAssumption DEF Shown

\* What a change leaves alone.
LEMMA SetCiIs ==
  ASSUME NEW u \in Update, NEW ci \in ControlInfo
  PROVE  /\ [u EXCEPT !.ci = ci] \in Update /\ [u EXCEPT !.ci = ci].obs = u.obs
         /\ [u EXCEPT !.ci = ci].ci = ci /\ [u EXCEPT !.ci = ci].tasks = u.tasks
         /\ [u EXCEPT !.ci = ci].corrected = u.corrected
BY DEF Update
LEMMA SetTasksIs ==
  ASSUME NEW u \in Update, NEW ts \in SUBSET Tasks
  PROVE  /\ [u EXCEPT !.tasks = ts] \in Update /\ [u EXCEPT !.tasks = ts].ci = u.ci
         /\ [u EXCEPT !.tasks = ts].tasks = ts
BY DEF Update
LEMMA SetCorrectedIs ==
  ASSUME NEW u \in Update, NEW x \in Int
  PROVE  /\ SetCorrected(u, x) \in Update /\ SetCorrected(u, x).obs = u.obs
         /\ SetCorrected(u, x).ci = u.ci /\ SetCorrected(u, x).tasks = u.tasks
         /\ SetCorrected(u, x).corrected = x
BY DEF Update, SetCorrected

LEMMA TasksIs ==
  ASSUME NEW u \in Update, NEW ts \in SUBSET Tasks
  PROVE  /\ AddTasks(u, ts) \in Update /\ AddTasks(u, ts).ci = u.ci
         /\ AddTasks(u, ts).tasks = u.tasks \cup ts
         /\ ClearTasks(u, ts) \in Update /\ ClearTasks(u, ts).ci = u.ci
         /\ ClearTasks(u, ts).tasks = u.tasks \ ts
<1>1. u.tasks \in SUBSET Tasks /\ u.tasks \cup ts \in SUBSET Tasks /\ u.tasks \ ts \in SUBSET Tasks
  BY DEF Update
<1>2. AddTasks(u, ts) = [u EXCEPT !.tasks = u.tasks \cup ts]
  BY DEF AddTasks
<1>3. ClearTasks(u, ts) = [u EXCEPT !.tasks = u.tasks \ ts]
  BY DEF ClearTasks
<1> HIDE DEF Update
<1> DEFINE a == u.tasks \cup ts
           b == u.tasks \ ts
<1>4. a \in SUBSET Tasks /\ b \in SUBSET Tasks /\ AddTasks(u, ts) = [u EXCEPT !.tasks = a]
      /\ ClearTasks(u, ts) = [u EXCEPT !.tasks = b]
  BY <1>1, <1>2, <1>3
<1> HIDE DEF a, b
<1>5. /\ AddTasks(u, ts) \in Update /\ AddTasks(u, ts).ci = u.ci /\ AddTasks(u, ts).tasks = a
      /\ ClearTasks(u, ts) \in Update /\ ClearTasks(u, ts).ci = u.ci /\ ClearTasks(u, ts).tasks = b
  BY <1>4, SetTasksIs
<1> QED  BY <1>5 DEF a, b

LEMMA ChangedIs ==
  ASSUME NEW u \in Update, NEW fc, Len(fc) \in Nat, \A n \in 1 .. Len(fc) : RuleOK(fc[n])
  PROVE  /\ Changed(u, fc) \in Update /\ Changed(u, fc).obs = u.obs
         /\ Changed(u, fc).ci = Apply(fc, u.ci) /\ Changed(u, fc).tasks = u.tasks
         /\ Changed(u, fc).corrected = u.corrected
<1>1. u.ci \in ControlInfo
  BY DEF Update
<1>2. Apply(fc, u.ci) \in ControlInfo
  BY <1>1, ApplyTyped
<1>3. Changed(u, fc) = [u EXCEPT !.ci = Apply(fc, u.ci)]
  BY DEF Changed
<1> QED  BY <1>2, <1>3, SetCiIs

LEMMA SetFlagIs ==
  ASSUME NEW u \in Update, NEW f, NEW v, FlagOK(f, v)
  PROVE  /\ SetFlag(u, f, v) \in Update /\ SetFlag(u, f, v).obs = u.obs
         /\ SetFlag(u, f, v).ci = [u.ci EXCEPT ![f] = v] /\ SetFlag(u, f, v).tasks = u.tasks
         /\ SetFlag(u, f, v).corrected = u.corrected
<1>1. u.ci \in ControlInfo
  BY DEF Update
<1>2. [u.ci EXCEPT ![f] = v] \in ControlInfo
  BY <1>1, FlagSetTyped
<1>3. SetFlag(u, f, v) = [u EXCEPT !.ci = [u.ci EXCEPT ![f] = v]]
  BY DEF SetFlag
<1> DEFINE ci == [u.ci EXCEPT ![f] = v]
<1>4. ci \in ControlInfo /\ SetFlag(u, f, v) = [u EXCEPT !.ci = ci]
  BY <1>2, <1>3
<1> HIDE DEF ci
<1>5. /\ SetFlag(u, f, v) \in Update /\ SetFlag(u, f, v).obs = u.obs
      /\ SetFlag(u, f, v).ci = ci /\ SetFlag(u, f, v).tasks = u.tasks
      /\ SetFlag(u, f, v).corrected = u.corrected
  BY <1>4, SetCiIs
<1> QED  BY <1>5 DEF ci
LEMMA FlagNames ==
  /\ "fcc" \in Flags /\ "fd" \in Flags /\ "fmis" \in Flags /\ "fhqc" \in Flags
  /\ \A v \in 0 .. 15 : FlagOK("fcc", v) /\ FlagOK("fd", v) /\ FlagOK("fhqc", v)
  /\ \A v \in 0 .. 4 : FlagOK("fmis", v)
BY DEF Flags, Values, FlagOK

(* The rules that are used, and what they make of an update.               *)
LEMMA OneRule ==
  ASSUME NEW r1, RuleOK(r1)
  PROVE  Len(<< r1 >>) \in Nat /\ \A n \in 1 .. Len(<< r1 >>) : RuleOK(<< r1 >>[n])
OBVIOUS
LEMMA TwoRules ==
  ASSUME NEW r1, RuleOK(r1), NEW r2, RuleOK(r2)
  PROVE  /\ Len(<< r1, r2 >>) \in Nat
         /\ \A n \in 1 .. Len(<< r1, r2 >>) : RuleOK(<< r1, r2 >>[n])
OBVIOUS
LEMMA ThreeRules ==
  ASSUME NEW r1, RuleOK(r1), NEW r2, RuleOK(r2), NEW r3, RuleOK(r3)
  PROVE  /\ Len(<< r1, r2, r3 >>) = 3
         /\ \A n \in 1 .. Len(<< r1, r2, r3 >>) : RuleOK(<< r1, r2, r3 >>[n])
OBVIOUS

\* Each constant list of rules is made of rules.
MissRules == << Always("fd", 9), Always("fhqc", 6), Rule(<< Permit("fmis", {3}) >>, "fmis", 1) >>
EndRules == << Always("fd", 10), Always("fhqc", 6) >>
QC2Rules == << Rule(<< Forbid("fd", {7, 9}) >>, "fd", 2), Rule(<< Permit("fd", {9}) >>, "fd", 7),
               Always("fhqc", 4) >>
PlainRules == << Always("fd", 1) >>
RowRules == << Rule(<< Permit("fhqc", {0, 2, 3, 4}) >>, "fhqc", 1) >>
ConstantRules == {RejectRules, CorrectRules, MissRules, EndRules, QC2Rules, PlainRules, RowRules,
                  FcDryEnd, FcWetEnd}
LEMMA RulesAre ==
  ASSUME NEW fc \in ConstantRules
  PROVE  Len(fc) \in Nat /\ \A n \in 1 .. Len(fc) : RuleOK(fc[n])
<1>1. /\ FlagOK("fmis", 0) /\ FlagOK("fmis", 1) /\ FlagOK("fmis", 2) /\ FlagOK("fmis", 3)
      /\ FlagOK("fmis", 4) /\ FlagOK("fhqc", 1) /\ FlagOK("fhqc", 4) /\ FlagOK("fhqc", 6)
      /\ FlagOK("fhqc", 7) /\ FlagOK("fhqc", 10) /\ FlagOK("fd", 1) /\ FlagOK("fd", 2)
      /\ FlagOK("fd", 7) /\ FlagOK("fd", 9) /\ FlagOK("fd", 10)
  BY FlagNames
<1>2. CASE fc = RejectRules
  <2>1. /\ RuleOK(Rule(<< Permit("fmis", {0, 4}) >>, "fmis", 2))
        /\ RuleOK(Rule(<< Permit("fmis", {1}) >>, "fmis", 3)) /\ RuleOK(Always("fhqc", 10))
    BY <1>1, RulesOK
  <2> QED  BY <1>2, <2>1, ThreeRules DEF RejectRules
<1>3. CASE fc = CorrectRules
  <2>1. /\ RuleOK(Rule(<< Permit("fmis", {3}) >>, "fmis", 1))
        /\ RuleOK(Rule(<< Permit("fmis", {0, 2}) >>, "fmis", 4)) /\ RuleOK(Always("fhqc", 7))
    BY <1>1, RulesOK
  <2> QED  BY <1>3, <2>1, ThreeRules DEF CorrectRules
<1>4. CASE fc = MissRules
  <2>1. /\ RuleOK(Always("fd", 9)) /\ RuleOK(Always("fhqc", 6))
        /\ RuleOK(Rule(<< Permit("fmis", {3}) >>, "fmis", 1))
    BY <1>1, RulesOK
  <2> QED  BY <1>4, <2>1, ThreeRules DEF MissRules
<1>5. CASE fc = EndRules
  <2>1. RuleOK(Always("fd", 10)) /\ RuleOK(Always("fhqc", 6))
    BY <1>1, RulesOK
  <2> QED  BY <1>5, <2>1, TwoRules DEF EndRules
<1>6. CASE fc = QC2Rules
  <2>1. /\ RuleOK(Rule(<< Forbid("fd", {7, 9}) >>, "fd", 2))
        /\ RuleOK(Rule(<< Permit("fd", {9}) >>, "fd", 7)) /\ RuleOK(Always("fhqc", 4))
    BY <1>1, RulesOK
  <2> QED  BY <1>6, <2>1, ThreeRules DEF QC2Rules
<1>7. CASE fc = PlainRules
  <2>1. RuleOK(Always("fd", 1))
    BY <1>1, RulesOK
  <2> QED  BY <1>7, <2>1, OneRule DEF PlainRules
<1>8. CASE fc = RowRules
  <2>1. RuleOK(Rule(<< Permit("fhqc", {0, 2, 3, 4}) >>, "fhqc", 1))
    BY <1>1, RulesOK
  <2> QED  BY <1>8, <2>1, OneRule DEF RowRules
<1>9. CASE fc = FcDryEnd
  <2>1. RuleOK(Rule(<< Permit("fmis", {4}) >>, "fmis", 0))
    BY <1>1, RulesOK
  <2> QED  BY <1>9, <2>1, OneRule DEF FcDryEnd
<1>10. CASE fc = FcWetEnd
  <2>1. RuleOK(Rule(<< Permit("fmis", {0}) >>, "fmis", 4))
    BY <1>1, RulesOK
  <2> QED  BY <1>10, <2>1, OneRule DEF FcWetEnd
<1> QED  BY <1>2, <1>3, <1>4, <1>5, <1>6, <1>7, <1>8, <1>9, <1>10 DEF ConstantRules

LEMMA ByRules ==
  ASSUME NEW u \in Update, NEW fc \in ConstantRules
  PROVE  /\ Changed(u, fc) \in Update /\ Changed(u, fc).obs = u.obs
         /\ Changed(u, fc).ci = Apply(fc, u.ci) /\ Changed(u, fc).tasks = u.tasks
         /\ Changed(u, fc).corrected = u.corrected
BY RulesAre, ChangedIs

LEMMA NewValueIs ==
  ASSUME NEW u \in Update, NEW obs, NEW x \in Int
  PROVE  AutoCorrect(u, obs, x) \in Update /\ RejectUpdate(u, obs) \in Update
<1>1. Changed(u, CorrectRules) \in Update /\ Changed(u, RejectRules) \in Update
  BY ByRules DEF ConstantRules
<1>2. Correct(u, x) \in Update
  BY <1>1, SetCorrectedIs DEF Correct
<1>3. SetFlag(Correct(u, x), "fhqc", 5) \in Update
  <2>1. FlagOK("fhqc", 5)
    BY FlagNames
  <2> QED  BY <1>2, <2>1, SetFlagIs
<1>4. /\ SetCorrected(Changed(u, RejectRules), MISSING) \in Update
      /\ SetCorrected(Changed(u, RejectRules), REJECTED) \in Update
  BY <1>1, SetCorrectedIs, MissingIs
<1> QED  BY <1>2, <1>3, <1>4 DEF AutoCorrect, RejectUpdate

LEMMA SetFhqcIs ==
  ASSUME NEW u \in Update, NEW v \in Values
  PROVE  LET w == SetFlag(u, "fhqc", v)
         IN  /\ w \in Update /\ w.obs = u.obs /\ w.tasks = u.tasks
             /\ w.ci.fhqc = v /\ w.ci.fd = u.ci.fd
<1>1. FlagOK("fhqc", v) /\ u.ci \in [Flags -> Values] /\ "fhqc" \in Flags /\ "fd" \in Flags
  BY FlagNames DEF Values, Update, ControlInfo
<1>2. [u.ci EXCEPT !["fhqc"] = v].fhqc = v /\ [u.ci EXCEPT !["fhqc"] = v].fd = u.ci.fd
  BY <1>1
<1> QED  BY <1>1, <1>2, SetFlagIs
LEMMA SetFmisIs ==
  ASSUME NEW u \in Update, NEW v \in 0 .. 4
  PROVE  LET w == SetFlag(u, "fmis", v)
         IN  /\ w \in Update /\ w.obs = u.obs /\ w.tasks = u.tasks
             /\ w.ci.fhqc = u.ci.fhqc /\ w.ci.fd = u.ci.fd
<1>1. FlagOK("fmis", v) /\ u.ci \in [Flags -> Values] /\ "fhqc" \in Flags /\ "fd" \in Flags
  BY FlagNames DEF Update, ControlInfo
<1>2. [u.ci EXCEPT !["fmis"] = v].fhqc = u.ci.fhqc /\ [u.ci EXCEPT !["fmis"] = v].fd = u.ci.fd
  BY <1>1
<1>3. /\ SetFlag(u, "fmis", v) \in Update /\ SetFlag(u, "fmis", v).obs = u.obs
      /\ SetFlag(u, "fmis", v).ci = [u.ci EXCEPT !["fmis"] = v]
      /\ SetFlag(u, "fmis", v).tasks = u.tasks
  BY <1>1, SetFlagIs
<1> DEFINE w == SetFlag(u, "fmis", v)
           ci == [u.ci EXCEPT !["fmis"] = v]
<1>4. w.ci = ci /\ ci.fhqc = u.ci.fhqc /\ ci.fd = u.ci.fd
  BY <1>2, <1>3
<1>5. w \in Update /\ w.obs = u.obs /\ w.tasks = u.tasks
  BY <1>3
<1> HIDE DEF w, ci
<1>6. w.ci.fhqc = u.ci.fhqc /\ w.ci.fd = u.ci.fd
  BY <1>4
<1> QED  BY <1>5, <1>6 DEF w

(* A corrected value is accepted: one that can be no longer waits.         *)
LEMMA AcceptedIs ==
  ASSUME NEW u \in Update
  PROVE  LET v == AcceptCorrected(u, FALSE)
         IN  /\ v \in Update /\ v.obs = u.obs /\ v.tasks = u.tasks
             /\ v.ci.fhqc \in {1, 5, 7} /\ v.ci.fd = u.ci.fd
<1> DEFINE Good(v) == /\ v \in Update /\ v.obs = u.obs /\ v.tasks = u.tasks
                      /\ v.ci.fhqc \in {1, 5, 7} /\ v.ci.fd = u.ci.fd
<1>1. ASSUME NEW n \in {1, 5, 7} PROVE Good(SetFlag(u, "fhqc", n))
  <2>1. n \in Values
    BY DEF Values
  <2> QED  BY <2>1, SetFhqcIs
<1>2. Good(SetFlag(SetFlag(u, "fhqc", 7), "fmis", 4))
  <2> DEFINE w == SetFlag(u, "fhqc", 7)
  <2>1. Good(w)
    BY <1>1
  <2> HIDE DEF w
  <2>2. 4 \in 0 .. 4
    OBVIOUS
  <2>3. Good(SetFlag(w, "fmis", 4))
    BY <2>1, <2>2, SetFmisIs
  <2> QED  BY <2>3 DEF w
<1> HIDE DEF Good
<1>3. Good(AcceptCorrected(u, FALSE))
  BY <1>1, <1>2 DEF AcceptCorrected
<1> QED  BY <1>3 DEF Good
-----------------------------------------------------------------------------
(* The works of the operations: a card and the cells stored so far.        *)
WorkOK(w) == /\ w.card \in [Cells -> Shown] /\ w.stored \subseteq Cells
             /\ \A c \in w.stored : w.card[c] # NoObs
Follows(w, v) == /\ WorkOK(v) /\ w.stored \subseteq v.stored
                 /\ \A c \in Cells : c \notin v.stored => v.card[c] = w.card[c]
LEMMA FollowsOn ==
  ASSUME NEW w, NEW v, NEW x, Follows(w, v), Follows(v, x)
  PROVE  Follows(w, x)
BY DEF Follows
LEMMA FollowsItself ==
  ASSUME NEW w, WorkOK(w)
  PROVE  Follows(w, w)
BY DEF Follows

LEMMA CellIs ==
  /\ \A d \in Days : Cell(d) \in Cells
  /\ \A d, k : Cell(d) = Cell(k) <=> d = k
  /\ \A days : days \subseteq Days => CellsOf(days) \subseteq Cells
  /\ \A days, d : Cell(d) \in CellsOf(days) <=> d \in days
BY CardAssumption DEF Cell, Cells, CellsOf
LEMMA DayIs ==
  /\ Days \subseteq Int /\ FirstDay \in Int /\ LastDay \in Int
  /\ \A d \in Int : d \in Days <=> FirstDay <= d /\ d <= LastDay
BY DayAssumption DEF Days
LEMMA CreateUIs ==
  ASSUME NEW w, WorkOK(w), NEW c \in Cells
  PROVE  /\ CreateU(w, c) \in Update /\ CreateU(w, c).obs = w.card[c]
         /\ w.card[c] = NoObs => CreateU(w, c).tasks = {} /\ CreateU(w, c).ci = MissingControl
         /\ w.card[c] # NoObs => /\ CreateU(w, c).ci = w.card[c].ci
                                 /\ CreateU(w, c).tasks = w.card[c].tasks
                                 /\ CreateU(w, c).corrected = w.card[c].corrected
<1>1. w.card[c] \in Shown
  BY DEF WorkOK
<1> DEFINE obs == w.card[c]
<1> HIDE DEF obs
<1>2. obs \in Shown
  BY <1>1 DEF obs
<1>3. LET u == CreateUpdate(c, obs)
      IN  /\ u \in Update /\ u.at = c /\ u.obs = obs
          /\ obs = NoObs => u.tasks = {} /\ u.ci = MissingControl
          /\ obs # NoObs => u.ci = obs.ci /\ u.tasks = obs.tasks /\ u.corrected = obs.corrected
  BY <1>2, CreateIs
<1> QED  BY <1>3 DEF CreateU, obs

Updates(us) == DOMAIN us \subseteq Cells /\ \A c \in DOMAIN us : us[c] \in Update
LEMMA PutIs ==
  ASSUME NEW w, WorkOK(w), NEW us, Updates(us)
  PROVE  /\ Follows(w, Put(w, us)) /\ WorkOK(Put(w, us))
         /\ Put(w, us).stored = w.stored \cup DOMAIN us
         /\ \A c \in Cells :
              Put(w, us).card[c] = IF c \in DOMAIN us THEN DataOf(us[c]) ELSE w.card[c]
<1> DEFINE p == Put(w, us)
<1>1. DOMAIN w.card = Cells
  BY DEF WorkOK
<1>2. /\ p.stored = w.stored \cup DOMAIN us
      /\ p.card = [c \in Cells |-> IF c \in DOMAIN us THEN DataOf(us[c]) ELSE w.card[c]]
  BY <1>1 DEF Put
<1> HIDE DEF p
<1>3. ASSUME NEW c \in Cells
      PROVE  /\ p.card[c] = IF c \in DOMAIN us THEN DataOf(us[c]) ELSE w.card[c]
             /\ p.card[c] \in Shown
             /\ c \in p.stored => p.card[c] # NoObs
  <2>1. p.card[c] = IF c \in DOMAIN us THEN DataOf(us[c]) ELSE w.card[c]
    BY <1>2
  <2>2. c \in DOMAIN us => DataOf(us[c]) \in Shown /\ DataOf(us[c]) # NoObs
    BY DataIs DEF Updates
  <2>3. w.card[c] \in Shown /\ (c \in w.stored => w.card[c] # NoObs)
    BY DEF WorkOK
  <2> QED  BY <1>2, <2>1, <2>2, <2>3
<1>4. p.card \in [Cells -> Shown]
  BY <1>2, <1>3
<1>5. p.stored \subseteq Cells
  BY <1>2 DEF WorkOK, Updates
<1>6. WorkOK(p)
  BY <1>3, <1>4, <1>5 DEF WorkOK
<1>7. Follows(w, p)
  BY <1>2, <1>3, <1>6 DEF Follows
<1> QED  BY <1>2, <1>3, <1>6, <1>7 DEF p

(* A day that an operation does not change, but for a task.                *)
Spared(w, v, d) ==
  /\ Here(v, d) <=> Here(w, d)
  /\ Here(w, d) => /\ v.card[Cell(d)].original = w.card[Cell(d)].original
                   /\ v.card[Cell(d)].corrected = w.card[Cell(d)].corrected
                   /\ v.card[Cell(d)].ci = w.card[Cell(d)].ci
                   /\ w.card[Cell(d)].tasks \subseteq v.card[Cell(d)].tasks
LEMMA SparedOn ==
  ASSUME NEW w, NEW v, NEW x, NEW d, Spared(w, v, d), Spared(v, x, d)
  PROVE  Spared(w, x, d)
BY DEF Spared
LEMMA SparedFlags ==
  ASSUME NEW w, NEW v, NEW d, Spared(w, v, d)
  PROVE  /\ Here(v, d) <=> Here(w, d)
         /\ Here(w, d) => /\ Acc(v, d) = Acc(w, d) /\ End(v, d) = End(w, d)
                          /\ Stops(v, d) <=> Stops(w, d)
         /\ Through(v, d) <=> Through(w, d)
         /\ Unended(v, d) <=> Unended(w, d)
BY DEF Spared, Acc, End, Ci, Stops, Through, Unended
LEMMA SparedUntasked ==
  ASSUME NEW w, NEW v, WorkOK(w), WorkOK(v), NEW d \in Days, Spared(w, v, d)
  PROVE  Untasked(v.card[Cell(d)]) = Untasked(w.card[Cell(d)])
<1>1. Cell(d) \in Cells
  BY CellIs
<1>2. w.card[Cell(d)] \in Shown /\ v.card[Cell(d)] \in Shown
  BY <1>1 DEF WorkOK
<1> DEFINE a == w.card[Cell(d)]
           b == v.card[Cell(d)]
<1>3. /\ a \in Shown /\ b \in Shown /\ (a = NoObs <=> b = NoObs)
      /\ a # NoObs => b.original = a.original /\ b.corrected = a.corrected /\ b.ci = a.ci
  BY <1>2 DEF Spared, Here
<1> HIDE DEF a, b
<1>4. CASE a = NoObs
  BY <1>3, <1>4 DEF Untasked, a, b
<1>5. CASE a # NoObs
  <2>1. a \in Tasked /\ b \in Tasked
    BY <1>3, <1>5 DEF Shown
  <2>2. /\ [a EXCEPT !.tasks = {}] = [original |-> a.original, corrected |-> a.corrected,
                                      tasks |-> {}, ci |-> a.ci]
        /\ [b EXCEPT !.tasks = {}] = [original |-> b.original, corrected |-> b.corrected,
                                      tasks |-> {}, ci |-> b.ci]
    BY <2>1 DEF Tasked
  <2>3. [a EXCEPT !.tasks = {}] = [b EXCEPT !.tasks = {}]
    BY <1>3, <1>5, <2>2
  <2>4. Untasked(a) = Untasked(b)
    BY <1>3, <1>5, <2>3 DEF Untasked
  <2> QED  BY <2>4 DEF a, b
<1> QED  BY <1>4, <1>5

(* An update that only adds tasks. *)
LEMMA OnlyTasks ==
  ASSUME NEW w, WorkOK(w), NEW c \in Cells, w.card[c] # NoObs, NEW ts \in SUBSET Tasks,
         NEW obs, obs = DataOf(AddTasks(CreateU(w, c), ts))
  PROVE  /\ obs.original = w.card[c].original /\ obs.corrected = w.card[c].corrected
         /\ obs.ci = w.card[c].ci /\ obs.tasks = w.card[c].tasks \cup ts /\ obs # NoObs
<1> DEFINE u == CreateU(w, c)
           a == AddTasks(u, ts)
<1>1. /\ u \in Update /\ u.obs = w.card[c] /\ u.ci = w.card[c].ci
      /\ u.tasks = w.card[c].tasks /\ u.corrected = w.card[c].corrected
  BY CreateUIs
<1> HIDE DEF u
<1>2. a \in Update /\ a.ci = u.ci /\ a.tasks = u.tasks \cup ts
  BY <1>1, TasksIs
<1>3. a.obs = u.obs /\ a.corrected = u.corrected
  BY <1>1 DEF AddTasks, Update
<1> HIDE DEF a
<1>4. /\ DataOf(a) \in Tasked /\ DataOf(a) # NoObs
      /\ DataOf(a).ci = a.ci /\ DataOf(a).tasks = a.tasks /\ DataOf(a).corrected = a.corrected
      /\ a.obs # NoObs => DataOf(a).original = a.obs.original
  BY <1>2, DataIs
<1>5. obs = DataOf(a)
  BY DEF a, u
<1> QED  BY <1>1, <1>2, <1>3, <1>4, <1>5

(* Days are marked: they get the task, and nothing else changes.           *)
HasMark(w, d) == Here(w, d) /\ "previously_accumulation" \in w.card[Cell(d)].tasks
LEMMA MarkedDays ==
  ASSUME NEW w, WorkOK(w), NEW days, days \subseteq Days, \A d \in days : Here(w, d),
         NEW v, v = MarkDays(w, days)
  PROVE  /\ Follows(w, v) /\ WorkOK(v)
         /\ \A d \in Days : Spared(w, v, d)
         /\ \A d \in days : HasMark(v, d)
         /\ \A c \in Cells : c \notin CellsOf(days) => v.card[c] = w.card[c]
<1> DEFINE ts == {"previously_accumulation"}
<1>1. ts \in SUBSET Tasks /\ CellsOf(days) \subseteq Cells
  <2>1. CellsOf(days) \subseteq Cells
    BY CellIs
  <2>2. ts \in SUBSET Tasks
    BY DEF Tasks, ALL_RR24_TASKS
  <2> QED  BY <2>1, <2>2
<1> DEFINE us == [c \in CellsOf(days) |-> AddTasks(CreateU(w, c), ts)]
<1>2. v = Put(w, us)
  BY DEF MarkDays
<1> HIDE DEF ts
<1>3. ASSUME NEW c \in CellsOf(days) PROVE us[c] \in Update
  BY <1>1, CreateUIs, TasksIs
<1>4. DOMAIN us = CellsOf(days) /\ Updates(us)
  BY <1>1, <1>3 DEF Updates
<1>5. \A c \in CellsOf(days) : us[c] = AddTasks(CreateU(w, c), ts)
  OBVIOUS
<1> HIDE DEF us
<1>6. /\ Follows(w, v) /\ WorkOK(v)
      /\ \A c \in Cells : v.card[c] = IF c \in DOMAIN us THEN DataOf(us[c]) ELSE w.card[c]
  BY <1>2, <1>4, PutIs
<1>7. ASSUME NEW d \in days
      PROVE  Spared(w, v, d) /\ HasMark(v, d)
  <2>1. Cell(d) \in Cells /\ Cell(d) \in CellsOf(days) /\ w.card[Cell(d)] # NoObs
    BY CellIs DEF Here
  <2>2. v.card[Cell(d)] = DataOf(AddTasks(CreateU(w, Cell(d)), ts))
    BY <1>4, <1>5, <1>6, <2>1
  <2>3. /\ v.card[Cell(d)].original = w.card[Cell(d)].original
        /\ v.card[Cell(d)].corrected = w.card[Cell(d)].corrected
        /\ v.card[Cell(d)].ci = w.card[Cell(d)].ci
        /\ v.card[Cell(d)].tasks = w.card[Cell(d)].tasks \cup ts /\ v.card[Cell(d)] # NoObs
    BY <1>1, <2>1, <2>2, OnlyTasks
  <2> QED  BY <2>1, <2>3 DEF Spared, HasMark, Here, ts
<1>8. ASSUME NEW d \in Days, d \notin days PROVE Spared(w, v, d)
  <2>1. Cell(d) \in Cells /\ Cell(d) \notin CellsOf(days)
    BY <1>8, CellIs
  <2>2. v.card[Cell(d)] = w.card[Cell(d)]
    BY <1>4, <1>6, <2>1
  <2> QED  BY <2>2 DEF Spared, Here
<1>9. \A c \in Cells : c \notin CellsOf(days) => v.card[c] = w.card[c]
  BY <1>4, <1>6
<1> QED  BY <1>6, <1>7, <1>8, <1>9

(* What a mark keeps of an earlier mark. *)
LEMMA SparedMark ==
  ASSUME NEW w, NEW v, NEW d, Spared(w, v, d), HasMark(w, d)
  PROVE  HasMark(v, d)
BY DEF Spared, HasMark

RestBefore(w, lo, hi, d) ==
  d \in lo .. hi /\ Here(w, d) /\ ~Stops(w, d) /\ \A k \in d + 1 .. hi : Through(w, k)
RestAfter(w, lo, hi, d) ==
  d \in lo .. hi /\ Here(w, d) /\ Acc(w, d) # NO /\ \A k \in lo .. d - 1 : Through(w, k)
AreDays(lo, hi) == lo .. hi \subseteq Days
SameOutside(w, v, lo, hi) == \A c \in Cells : c \notin CellsOf(lo .. hi) => v.card[c] = w.card[c]
LEMMA MarkedRest ==
  ASSUME NEW w, WorkOK(w), NEW lo, NEW hi, AreDays(lo, hi), NEW before \in BOOLEAN,
         NEW v, v = MarkPreviousAccumulation(w, lo, hi, before)
  PROVE  /\ Follows(w, v) /\ WorkOK(v)
         /\ \A d \in Days : Spared(w, v, d)
         /\ before => \A d : RestBefore(w, lo, hi, d) => HasMark(v, d)
         /\ ~before => \A d : RestAfter(w, lo, hi, d) => HasMark(v, d)
         /\ SameOutside(w, v, lo, hi)
<1> DEFINE rest == Rest(w, lo, hi, before)
<1>1. rest \subseteq lo .. hi /\ \A d \in rest : Here(w, d)
  BY DEF Rest
<1>2. /\ before => \A d : RestBefore(w, lo, hi, d) => d \in rest
      /\ ~before => \A d : RestAfter(w, lo, hi, d) => d \in rest
  BY DEF Rest, RestBefore, RestAfter
<1>3. v = MarkDays(w, rest)
  BY DEF MarkPreviousAccumulation
<1> HIDE DEF rest
<1>0. rest \subseteq Days /\ \A d \in rest : Here(w, d)
  BY <1>1 DEF AreDays
<1>4. /\ Follows(w, v) /\ WorkOK(v)
      /\ \A d \in Days : Spared(w, v, d)
      /\ \A d \in rest : HasMark(v, d)
      /\ \A c \in Cells : c \notin CellsOf(rest) => v.card[c] = w.card[c]
  BY <1>0, <1>3, MarkedDays
<1>5. CellsOf(rest) \subseteq CellsOf(lo .. hi)
  BY <1>1 DEF CellsOf
<1> QED  BY <1>2, <1>4, <1>5 DEF SameOutside

-----------------------------------------------------------------------------
(* What an operation may do to the days: "days" are those it handles.      *)
KeepsMarks(w, v, days) == \A d \in Days \ days : HasMark(w, d) => HasMark(v, d)
KeepsParts(w, v, days) ==
  \A d \in Days \ days :
    Here(w, d) /\ Acc(w, d) # NO =>
      Here(v, d) /\ Acc(v, d) # NO /\ (End(w, d) = NO => End(v, d) = NO)
KeepsEdges(w, v, days) ==
  \A d \in Days \ days : Untasked(v.card[Cell(d)]) = Untasked(w.card[Cell(d)])
MarksCut(w, v, span, days) ==
  \A d \in (span[1] .. span[2]) \ days : Cut(w, d, days) => HasMark(v, d)

LEMMA SparedKeeps ==
  ASSUME NEW w, NEW v, WorkOK(w), WorkOK(v), NEW days, \A d \in Days \ days : Spared(w, v, d)
  PROVE  KeepsMarks(w, v, days) /\ KeepsParts(w, v, days) /\ KeepsEdges(w, v, days)
<1>1. KeepsMarks(w, v, days)
  BY SparedMark DEF KeepsMarks
<1>2. KeepsParts(w, v, days)
  BY SparedFlags DEF KeepsParts
<1>3. KeepsEdges(w, v, days)
  BY SparedUntasked DEF KeepsEdges
<1> QED  BY <1>1, <1>2, <1>3

(* Accepting: every accepted day is handled, and its flag fd and its tasks *)
(* stay.                                                                   *)
Accepted(w, lo, hi) == Accept(w, lo, hi, TRUE)
LEMMA AcceptIs ==
  ASSUME NEW w, WorkOK(w), NEW lo \in Days, NEW hi \in Days, NEW v, v = Accepted(w, lo, hi)
  PROVE  /\ Follows(w, v)
         /\ \A d \in lo .. hi : Here(w, d) /\ CanAcceptCorrected(w.card[Cell(d)]) =>
              Here(v, d) /\ v.card[Cell(d)].ci.fhqc \in {1, 5, 7}
         /\ KeepsMarks(w, v, {}) /\ KeepsParts(w, v, {}) /\ KeepsEdges(w, v, lo .. hi)
<1> DEFINE days == {d \in lo .. hi : Here(w, d) /\ CanAcceptCorrected(w.card[Cell(d)])}
           us == [c \in CellsOf(days) |-> AcceptCorrected(CreateU(w, c), FALSE)]
<1>1. days \subseteq Days /\ CellsOf(days) \subseteq Cells
  <2>1. lo .. hi \subseteq Days
    BY DayIs
  <2> QED  BY <2>1, CellIs
<1>2. v = Put(w, us)
  BY DEF Accept, Accepted
<1>3. ASSUME NEW c \in CellsOf(days) PROVE us[c] \in Update
  BY <1>1, CreateUIs, AcceptedIs
<1>4. DOMAIN us = CellsOf(days) /\ Updates(us)
  BY <1>1, <1>3 DEF Updates
<1>5. \A c \in CellsOf(days) : us[c] = AcceptCorrected(CreateU(w, c), FALSE)
  OBVIOUS
<1> HIDE DEF us, days
<1>6. /\ Follows(w, v) /\ WorkOK(v)
      /\ \A c \in Cells : v.card[c] = IF c \in DOMAIN us THEN DataOf(us[c]) ELSE w.card[c]
  BY <1>2, <1>4, PutIs
<1>7. ASSUME NEW d \in days
      PROVE  /\ Here(w, d) /\ Here(v, d) /\ v.card[Cell(d)].ci.fhqc \in {1, 5, 7}
             /\ v.card[Cell(d)].tasks = w.card[Cell(d)].tasks
             /\ v.card[Cell(d)].ci.fd = w.card[Cell(d)].ci.fd
  <2>1. d \in Days /\ Cell(d) \in Cells /\ Cell(d) \in CellsOf(days) /\ w.card[Cell(d)] # NoObs
    BY <1>1, CellIs DEF Here, days
  <2> DEFINE u == CreateU(w, Cell(d))
             a == AcceptCorrected(u, FALSE)
  <2>2. u \in Update /\ u.ci = w.card[Cell(d)].ci /\ u.tasks = w.card[Cell(d)].tasks
    BY <2>1, CreateUIs
  <2> HIDE DEF u
  <2>3. /\ a \in Update /\ a.tasks = u.tasks /\ a.ci.fhqc \in {1, 5, 7} /\ a.ci.fd = u.ci.fd
    BY <2>2, AcceptedIs
  <2> HIDE DEF a
  <2>4. DataOf(a) # NoObs /\ DataOf(a).ci = a.ci /\ DataOf(a).tasks = a.tasks
    BY <2>3, DataIs
  <2>5. v.card[Cell(d)] = DataOf(a)
    BY <1>4, <1>5, <1>6, <2>1 DEF a, u
  <2> QED  BY <2>1, <2>2, <2>3, <2>4, <2>5 DEF Here
<1>8. ASSUME NEW d \in Days, d \notin days PROVE v.card[Cell(d)] = w.card[Cell(d)]
  BY <1>4, <1>6, <1>8, CellIs
<1>9. KeepsMarks(w, v, {})
  BY <1>7, <1>8 DEF KeepsMarks, HasMark, Here
<1>10. KeepsParts(w, v, {})
  <2>1. SUFFICES ASSUME NEW d \in Days, Here(w, d), Acc(w, d) # NO
                 PROVE  Here(v, d) /\ Acc(v, d) # NO /\ (End(w, d) = NO => End(v, d) = NO)
    BY DEF KeepsParts
  <2>2. v.card[Cell(d)].ci.fd = w.card[Cell(d)].ci.fd /\ Here(v, d)
    BY <1>7, <1>8, <2>1 DEF Here
  <2>3. Acc(v, d) = Acc(w, d) /\ End(v, d) = End(w, d)
    BY <2>2 DEF Acc, End, Ci, IsAccumulation, IsEndpoint
  <2> QED  BY <2>1, <2>2, <2>3
<1>11. KeepsEdges(w, v, lo .. hi)
  <2>1. \A d \in Days \ (lo .. hi) : d \notin days
    BY DEF days
  <2> QED  BY <1>8, <2>1 DEF KeepsEdges
<1>12. \A d \in lo .. hi : Here(w, d) /\ CanAcceptCorrected(w.card[Cell(d)]) => d \in days
  BY DEF days
<1> QED  BY <1>6, <1>7, <1>9, <1>10, <1>11, <1>12

(* Days that are put leave the others alone. *)
LEMMA PutDays ==
  ASSUME NEW w, WorkOK(w), NEW days, days \subseteq Days, NEW us, Updates(us),
         DOMAIN us = CellsOf(days), NEW v, v = Put(w, us)
  PROVE  /\ Follows(w, v) /\ WorkOK(v)
         /\ \A d \in days : v.card[Cell(d)] = DataOf(us[Cell(d)]) /\ Here(v, d)
         /\ \A d \in Days \ days : v.card[Cell(d)] = w.card[Cell(d)] /\ Spared(w, v, d)
<1>1. /\ Follows(w, v) /\ WorkOK(v)
      /\ \A c \in Cells : v.card[c] = IF c \in DOMAIN us THEN DataOf(us[c]) ELSE w.card[c]
  BY PutIs
<1>2. ASSUME NEW d \in days PROVE v.card[Cell(d)] = DataOf(us[Cell(d)]) /\ Here(v, d)
  <2>1. Cell(d) \in Cells /\ Cell(d) \in DOMAIN us
    BY CellIs
  <2>2. us[Cell(d)] \in Update
    BY <2>1 DEF Updates
  <2>3. DataOf(us[Cell(d)]) # NoObs
    BY <2>2, DataIs
  <2> QED  BY <1>1, <2>1, <2>3 DEF Here
<1>3. ASSUME NEW d \in Days \ days PROVE v.card[Cell(d)] = w.card[Cell(d)] /\ Spared(w, v, d)
  <2>1. Cell(d) \in Cells /\ Cell(d) \notin DOMAIN us
    BY CellIs
  <2>2. v.card[Cell(d)] = w.card[Cell(d)]
    BY <1>1, <2>1
  <2> QED  BY <2>2 DEF Spared, Here
<1> QED  BY <1>1, <1>2, <1>3

-----------------------------------------------------------------------------
(* What some rules make of the flags. *)
LEMMA ApplyOne ==
  ASSUME NEW r1, NEW ci
  PROVE  Apply(<< r1 >>, ci) = IF Matches(r1.matcher, ci) THEN Updated(ci, r1) ELSE ci
<1> DEFINE fc == << r1 >>
           A == Applied(fc, ci)
<1>1. Len(fc) = 1 /\ fc[1] = r1
  OBVIOUS
<1> HIDE DEF fc
<1>2. A = [n \in 0 .. Len(fc) |->
              IF n = 0 THEN ci
              ELSE IF Matches(fc[n].matcher, A[n - 1]) THEN Updated(A[n - 1], fc[n])
              ELSE A[n - 1]]
  BY <1>1, AppliedIs
<1> HIDE DEF A
<1>3. A[0] = ci
  BY <1>1, <1>2
<1>4. A[1] = IF Matches(fc[1].matcher, A[0]) THEN Updated(A[0], fc[1]) ELSE A[0]
  BY <1>1, <1>2
<1>5. Apply(fc, ci) = A[1]
  BY <1>1 DEF Apply, A
<1> QED  BY <1>1, <1>3, <1>4, <1>5 DEF fc
LEMMA ApplyThree ==
  ASSUME NEW fc, Len(fc) = 3, NEW ci
  PROVE  \E a, b :
           /\ a = IF Matches(fc[1].matcher, ci) THEN Updated(ci, fc[1]) ELSE ci
           /\ b = IF Matches(fc[2].matcher, a) THEN Updated(a, fc[2]) ELSE a
           /\ Apply(fc, ci) = IF Matches(fc[3].matcher, b) THEN Updated(b, fc[3]) ELSE b
<1>1. Len(fc) \in Nat
  OBVIOUS
<1> DEFINE A == Applied(fc, ci)
<1>2. AppliedBy(fc, ci, A)
  BY <1>1, ByApplied
<1> HIDE DEF A
<1>3. A[0] = ci
  BY <1>2 DEF AppliedBy
<1>4. A[1] = IF Matches(fc[1].matcher, A[0]) THEN Updated(A[0], fc[1]) ELSE A[0]
  BY <1>2 DEF AppliedBy
<1>5. A[2] = IF Matches(fc[2].matcher, A[1]) THEN Updated(A[1], fc[2]) ELSE A[1]
  BY <1>2 DEF AppliedBy
<1>6. A[3] = IF Matches(fc[3].matcher, A[2]) THEN Updated(A[2], fc[3]) ELSE A[2]
  BY <1>2 DEF AppliedBy
<1>7. Apply(fc, ci) = A[3]
  BY DEF Apply, A
<1> QED  BY <1>3, <1>4, <1>5, <1>6, <1>7

LEMMA RuleIs ==
  ASSUME NEW text, NEW f, NEW v
  PROVE  /\ Rule(text, f, v).flag = f /\ Rule(text, f, v).value = v
         /\ Rule(text, f, v).matcher = PatternOf(text)
         /\ Always(f, v).flag = f /\ Always(f, v).value = v
BY DEF Rule, Always

\* A pattern with one part matches what the part names.
LEMMA OnePart ==
  ASSUME NEW f \in Flags, NEW vs \in SUBSET Values, NEW ci \in ControlInfo
  PROVE  /\ ci[f] \in vs => Matches(PatternOf(<< Permit(f, vs) >>), ci)
         /\ ci[f] \notin vs => Matches(PatternOf(<< Forbid(f, vs) >>), ci)
<1>0. ci \in [Flags -> Values]
  BY DEF ControlInfo
<1>1. ASSUME NEW b \in BOOLEAN, NEW text, text = << [flag |-> f, permit |-> b, values |-> vs] >>
      PROVE  \A g \in Flags :
               AllowedBits(PatternOf(text), g) =
                 IF g # f THEN Values
                 ELSE IF b THEN (IF vs = {} THEN Values ELSE vs) ELSE Values \ vs
  <2> DEFINE part(g, p) == UNION {text[i].values : i \in {k \in DOMAIN text :
                              text[k].flag = g /\ text[k].permit = p}}
  <2>1. DOMAIN text = {1} /\ text[1].flag = f /\ text[1].permit = b /\ text[1].values = vs
    BY <1>1
  <2>2. ASSUME NEW g, NEW p \in BOOLEAN
        PROVE  part(g, p) = IF g = f /\ p = b THEN vs ELSE {}
    <3>1. CASE g = f /\ p = b
      <4>1. {k \in DOMAIN text : text[k].flag = g /\ text[k].permit = p} = {1}
        BY <2>1, <3>1
      <4> QED  BY <2>1, <3>1, <4>1
    <3>2. CASE ~ (g = f /\ p = b)
      <4>1. {k \in DOMAIN text : text[k].flag = g /\ text[k].permit = p} = {}
        BY <2>1, <3>2
      <4> QED  BY <3>2, <4>1
    <3> QED  BY <3>1, <3>2
  <2>3. PatternOf(text) = [permitted |-> [g \in Flags |-> part(g, TRUE)],
                           forbidden |-> [g \in Flags |-> part(g, FALSE)]]
    <3>1. ~ \E i, k \in DOMAIN text : i # k /\ text[i].flag = text[k].flag
      BY <2>1
    <3> QED  BY <3>1 DEF PatternOf
  <2> HIDE DEF part
  <2>4. ASSUME NEW g \in Flags
        PROVE  AllowedBits(PatternOf(text), g) =
                 (IF part(g, TRUE) = {} THEN Values ELSE part(g, TRUE)) \ part(g, FALSE)
    BY <2>3 DEF AllowedBits
  <2>5. ASSUME NEW g \in Flags
        PROVE  AllowedBits(PatternOf(text), g) =
                 IF g # f THEN Values
                 ELSE IF b THEN (IF vs = {} THEN Values ELSE vs) ELSE Values \ vs
    BY <2>2, <2>4
  <2> QED  BY <2>5
<1>2. ASSUME ci[f] \in vs PROVE Matches(PatternOf(<< Permit(f, vs) >>), ci)
  <2> DEFINE text == << [flag |-> f, permit |-> TRUE, values |-> vs] >>
  <2>1. text = << Permit(f, vs) >>
    BY DEF Permit
  <2>2. \A g \in Flags : AllowedBits(PatternOf(text), g) = IF g # f THEN Values ELSE vs
    BY <1>1, <1>2
  <2> HIDE DEF text
  <2> QED  BY <1>0, <1>2, <2>1, <2>2 DEF Matches
<1>3. ASSUME ci[f] \notin vs PROVE Matches(PatternOf(<< Forbid(f, vs) >>), ci)
  <2> DEFINE text == << [flag |-> f, permit |-> FALSE, values |-> vs] >>
  <2>1. text = << Forbid(f, vs) >>
    BY DEF Forbid
  <2>2. \A g \in Flags : AllowedBits(PatternOf(text), g) = IF g # f THEN Values ELSE Values \ vs
    BY <1>1
  <2> HIDE DEF text
  <2> QED  BY <1>0, <1>3, <2>1, <2>2 DEF Matches
<1> QED  BY <1>2, <1>3
LEMMA Forbidden ==
  ASSUME NEW f \in Flags, NEW vs \in SUBSET Values, NEW ci \in ControlInfo, ci[f] \notin vs
  PROVE  Matches(PatternOf(<< Forbid(f, vs) >>), ci)
BY OnePart

(* A redistribution in QC2 leaves its days parts of an accumulation that   *)
(* goes on.                                                                *)
LEMMA QC2RulesIs ==
  ASSUME NEW ci \in ControlInfo
  PROVE  Apply(QC2Rules, ci).fd \in {2, 7}
<1> DEFINE r1 == Rule(<< Forbid("fd", {7, 9}) >>, "fd", 2)
           r2 == Rule(<< Permit("fd", {9}) >>, "fd", 7)
           r3 == Always("fhqc", 4)
<1>1. PICK a, b :
        /\ a = IF Matches(r1.matcher, ci) THEN Updated(ci, r1) ELSE ci
        /\ b = IF Matches(r2.matcher, a) THEN Updated(a, r2) ELSE a
        /\ Apply(QC2Rules, ci) = IF Matches(r3.matcher, b) THEN Updated(b, r3) ELSE b
  <2>1. Len(QC2Rules) = 3 /\ QC2Rules[1] = r1 /\ QC2Rules[2] = r2 /\ QC2Rules[3] = r3
    <3>1. QC2Rules = << r1, r2, r3 >>
      BY DEF QC2Rules
    <3> HIDE DEF r1, r2, r3
    <3> QED  BY <3>1
  <2> HIDE DEF r1, r2, r3
  <2> QED  BY <2>1, ApplyThree
<1>2. /\ r1.flag = "fd" /\ r1.value = 2 /\ r1.matcher = PatternOf(<< Forbid("fd", {7, 9}) >>)
      /\ r2.flag = "fd" /\ r2.value = 7 /\ r2.matcher = PatternOf(<< Permit("fd", {9}) >>)
      /\ r3.flag = "fhqc" /\ r3.value = 4
  BY RuleIs
<1>3. /\ "fd" \in Flags /\ "fhqc" \in Flags /\ FlagOK("fd", 2) /\ FlagOK("fd", 7)
      /\ FlagOK("fhqc", 4) /\ {7, 9} \in SUBSET Values /\ {9} \in SUBSET Values
  BY FlagNames DEF Values
<1>4. \A x \in ControlInfo : /\ x \in [Flags -> Values]
                             /\ x.fd \notin {7, 9} => Matches(r1.matcher, x)
                             /\ x.fd = 9 => Matches(r2.matcher, x)
  <2> HIDE DEF r1, r2, r3
  <2>1. SUFFICES ASSUME NEW x \in ControlInfo
                 PROVE  /\ x \in [Flags -> Values]
                        /\ x["fd"] \notin {7, 9} => Matches(r1.matcher, x)
                        /\ x["fd"] \in {9} => Matches(r2.matcher, x)
    OBVIOUS
  <2>2. x["fd"] \notin {7, 9} => Matches(r1.matcher, x)
    <3> DEFINE vs == {7, 9}
    <3>1. r1.matcher = PatternOf(<< Forbid("fd", vs) >>) /\ vs \in SUBSET Values
      BY <1>2, <1>3
    <3> HIDE DEF vs
    <3>2. ASSUME x["fd"] \notin vs PROVE Matches(r1.matcher, x)
      BY <1>3, <3>1, <3>2, Forbidden
    <3> QED  BY <3>2 DEF vs
  <2>3. x["fd"] \in {9} => Matches(r2.matcher, x)
    BY <1>2, <1>3, OnePart
  <2> QED  BY <2>2, <2>3 DEF ControlInfo
<1> HIDE DEF r1, r2, r3
<1>6. a \in ControlInfo /\ a.fd \in {2, 7, 9}
  <2>1. CASE Matches(r1.matcher, ci)
    <3>1. a = [ci EXCEPT !["fd"] = 2]
      BY <1>1, <1>2, <2>1 DEF Updated
    <3> QED  BY <1>3, <1>4, <3>1, FlagSetTyped
  <2>2. CASE ~ Matches(r1.matcher, ci)
    BY <1>1, <1>4, <2>2
  <2> QED  BY <2>1, <2>2
<1>7. b \in ControlInfo /\ b.fd \in {2, 7}
  <2>1. CASE Matches(r2.matcher, a)
    <3>1. b = [a EXCEPT !["fd"] = 7]
      BY <1>1, <1>2, <2>1 DEF Updated
    <3> QED  BY <1>3, <1>4, <1>6, <3>1, FlagSetTyped
  <2>2. CASE ~ Matches(r2.matcher, a)
    BY <1>1, <1>4, <1>6, <2>2
  <2> QED  BY <2>1, <2>2
<1>8. \/ Apply(QC2Rules, ci) = b
      \/ Apply(QC2Rules, ci) = [b EXCEPT !["fhqc"] = 4]
  BY <1>1, <1>2 DEF Updated
<1>9. [b EXCEPT !["fhqc"] = 4].fd = b.fd
  BY <1>3, <1>4, <1>7
<1> QED  BY <1>7, <1>8, <1>9

LEMMA RowRulesIs ==
  ASSUME NEW ci \in ControlInfo
  PROVE  Apply(RowRules, ci).fd = ci.fd
<1> DEFINE r1 == Rule(<< Permit("fhqc", {0, 2, 3, 4}) >>, "fhqc", 1)
<1>1. r1.flag = "fhqc" /\ r1.value = 1
  BY RuleIs
<1>2. Apply(RowRules, ci) = Apply(<< r1 >>, ci)
  BY DEF RowRules
<1> HIDE DEF r1
<1>3. Apply(RowRules, ci) = ci \/ Apply(RowRules, ci) = [ci EXCEPT !["fhqc"] = 1]
  BY <1>1, <1>2, ApplyOne DEF Updated
<1>4. [ci EXCEPT !["fhqc"] = 1].fd = ci.fd
  BY FlagNames DEF ControlInfo
<1> QED  BY <1>3, <1>4

\* Rules and cleared tasks, as the operations put them.
LEMMA ClearedIs ==
  ASSUME NEW u \in Update, NEW fc \in ConstantRules, NEW ts \in SUBSET Tasks,
         NEW v, v = ClearTasks(Changed(u, fc), ts)
  PROVE  /\ v \in Update /\ v.ci = Apply(fc, u.ci) /\ v.tasks = u.tasks \ ts
         /\ DataOf(v) # NoObs /\ DataOf(v).ci = v.ci /\ DataOf(v).tasks = v.tasks
<1> DEFINE x == Changed(u, fc)
<1>1. x \in Update /\ x.ci = Apply(fc, u.ci) /\ x.tasks = u.tasks
  BY ByRules
<1> HIDE DEF x
<1>2. v = ClearTasks(x, ts)
  BY DEF x
<1>3. v \in Update /\ v.ci = x.ci /\ v.tasks = x.tasks \ ts
  BY <1>1, <1>2, TasksIs
<1>4. DataOf(v) # NoObs /\ DataOf(v).ci = v.ci /\ DataOf(v).tasks = v.tasks
  BY <1>3, DataIs
<1> QED  BY <1>1, <1>3, <1>4
LEMMA TaskNames ==
  /\ ALL_RR24_TASKS \in SUBSET Tasks /\ {"fcc_error"} \in SUBSET Tasks
  /\ {"no_endpoint"} \in SUBSET Tasks /\ {"missing_obs"} \in SUBSET Tasks
  /\ "previously_accumulation" # "fcc_error"
  /\ {"no_endpoint", "mixed_redistribution"} \cap {"fcc_error"} = {}
BY DEF Tasks, ALL_RR24_TASKS

(* A row is accepted. *)
LEMMA RowIs ==
  ASSUME NEW w, WorkOK(w), NEW d0 \in Days, NEW v, v = FccAcceptRow(w, d0)
  PROVE  Follows(w, v) /\ KeepsMarks(w, v, {}) /\ KeepsParts(w, v, {})
<1> DEFINE row == Row(w, d0)
           ts == {"fcc_error"}
           us == [c \in row |-> ClearTasks(Changed(CreateU(w, c), RowRules), ts)]
<1>1. row \subseteq Cells /\ \A c \in row : w.card[c] # NoObs
  BY DEF Row, Cells
<1>2. v = Put(w, us)
  BY DEF FccAcceptRow, RowRules
<1>3. ts \in SUBSET Tasks /\ RowRules \in ConstantRules
  BY TaskNames DEF ConstantRules
<1> HIDE DEF row
<1>4. ASSUME NEW c \in row
      PROVE  LET u == CreateU(w, c)
             IN  /\ us[c] \in Update /\ us[c].ci = Apply(RowRules, u.ci)
                 /\ us[c].tasks = u.tasks \ ts
                 /\ DataOf(us[c]) # NoObs /\ DataOf(us[c]).ci = us[c].ci
                 /\ DataOf(us[c]).tasks = us[c].tasks
                 /\ u.ci \in ControlInfo /\ u.ci = w.card[c].ci /\ u.tasks = w.card[c].tasks
  <2> DEFINE u == CreateU(w, c)
  <2>1. u \in Update /\ u.ci = w.card[c].ci /\ u.tasks = w.card[c].tasks
    BY <1>1, CreateUIs
  <2>2. us[c] = ClearTasks(Changed(u, RowRules), ts)
    OBVIOUS
  <2> HIDE DEF u, us
  <2>3. /\ us[c] \in Update /\ us[c].ci = Apply(RowRules, u.ci) /\ us[c].tasks = u.tasks \ ts
        /\ DataOf(us[c]) # NoObs /\ DataOf(us[c]).ci = us[c].ci /\ DataOf(us[c]).tasks = us[c].tasks
    <3> HIDE DEF ts
    <3> QED  BY <1>3, <2>1, <2>2, ClearedIs
  <2>4. u.ci \in ControlInfo
    BY <2>1 DEF Update
  <2> QED  BY <2>1, <2>3, <2>4 DEF u
<1>5. DOMAIN us = row /\ Updates(us)
  BY <1>1, <1>4 DEF Updates
<1> HIDE DEF us
<1>6. /\ Follows(w, v)
      /\ \A c \in Cells : v.card[c] = IF c \in DOMAIN us THEN DataOf(us[c]) ELSE w.card[c]
  BY <1>2, <1>5, PutIs
<1>7. ASSUME NEW d \in Days, Here(w, d)
      PROVE  /\ Here(v, d)
             /\ HasMark(w, d) => HasMark(v, d)
             /\ v.card[Cell(d)].ci.fd = w.card[Cell(d)].ci.fd
  <2> DEFINE c == Cell(d)
  <2>1. c \in Cells
    BY CellIs
  <2>2. CASE c \in row
    <3> HIDE DEF c
    <3>1. v.card[c] # NoObs /\ v.card[c].ci = Apply(RowRules, w.card[c].ci)
          /\ v.card[c].tasks = w.card[c].tasks \ ts /\ w.card[c].ci \in ControlInfo
      BY <1>4, <1>5, <1>6, <2>1, <2>2
    <3>2. v.card[c].ci.fd = w.card[c].ci.fd
      BY <3>1, RowRulesIs
    <3> QED  BY <3>1, <3>2, <1>7, TaskNames DEF HasMark, Here, c
  <2>3. CASE c \notin row
    <3>1. v.card[c] = w.card[c]
      BY <1>5, <1>6, <2>1, <2>3
    <3> QED  BY <3>1, <1>7 DEF HasMark, Here
  <2> QED  BY <2>2, <2>3
<1>8. KeepsMarks(w, v, {})
  BY <1>7 DEF KeepsMarks, HasMark
<1>9. KeepsParts(w, v, {})
  <2>1. SUFFICES ASSUME NEW d \in Days, Here(w, d), Acc(w, d) # NO
                 PROVE  Here(v, d) /\ Acc(v, d) # NO /\ (End(w, d) = NO => End(v, d) = NO)
    BY DEF KeepsParts
  <2>2. v.card[Cell(d)].ci.fd = w.card[Cell(d)].ci.fd /\ Here(v, d)
    BY <1>7, <2>1
  <2>3. Acc(v, d) = Acc(w, d) /\ End(v, d) = End(w, d)
    BY <2>2 DEF Acc, End, Ci, IsAccumulation, IsEndpoint
  <2> QED  BY <2>1, <2>2, <2>3
<1> QED  BY <1>6, <1>8, <1>9

-----------------------------------------------------------------------------
(* Redistributions.  Both mark what is left before, and after if the days  *)
(* did not end at an endpoint.                                             *)
SpanOK(span) == span[1] \in Int /\ span[2] \in Int /\ FirstDay <= span[1] /\ span[2] <= LastDay
LEMMA MarkBothSides ==
  ASSUME NEW w, WorkOK(w), NEW span, SpanOK(span), NEW lo \in Days, NEW hi \in Days, lo <= hi + 1,
         NEW after \in BOOLEAN,
         NEW m, m = MarkPreviousAccumulation(w, span[1], lo - 1, TRUE),
         NEW v, v = IF after THEN MarkPreviousAccumulation(m, hi + 1, span[2], FALSE) ELSE m
  PROVE  /\ Follows(w, v) /\ WorkOK(v) /\ \A d \in Days : Spared(w, v, d)
         /\ \A d : RestBefore(w, span[1], lo - 1, d) => HasMark(v, d)
         /\ after => \A d : RestAfter(w, hi + 1, span[2], d) => HasMark(v, d)
<1>1. span[1] .. lo - 1 \subseteq Days /\ hi + 1 .. span[2] \subseteq Days
      /\ lo \in Int /\ hi \in Int /\ span[1] \in Int /\ span[2] \in Int
  BY DayIs DEF SpanOK
<1>2. /\ Follows(w, m) /\ WorkOK(m) /\ \A d \in Days : Spared(w, m, d)
      /\ \A d : RestBefore(w, span[1], lo - 1, d) => HasMark(m, d)
  <2> DEFINE a == span[1]
             b == lo - 1
  <2>1. AreDays(a, b) /\ m = MarkPreviousAccumulation(w, a, b, TRUE)
    BY <1>1 DEF AreDays
  <2> HIDE DEF a, b
  <2>2. /\ Follows(w, m) /\ WorkOK(m) /\ \A d \in Days : Spared(w, m, d)
        /\ \A d : RestBefore(w, a, b, d) => HasMark(m, d)
    BY <2>1, MarkedRest
  <2> QED  BY <2>2 DEF a, b
<1>3. CASE ~ after
  BY <1>2, <1>3
<1>4. CASE after
  <2> DEFINE a == hi + 1
             b == span[2]
  <2>1. AreDays(a, b) /\ v = MarkPreviousAccumulation(m, a, b, FALSE)
    BY <1>1, <1>4 DEF AreDays
  <2>2. \A d : d \in a .. b => d \in Days
    BY <2>1 DEF AreDays
  <2> HIDE DEF a, b
  <2>3. /\ Follows(m, v) /\ WorkOK(v) /\ \A d \in Days : Spared(m, v, d)
        /\ \A d : RestAfter(m, a, b, d) => HasMark(v, d)
    BY <1>2, <2>1, MarkedRest
  <2>4. ASSUME NEW d, RestAfter(w, a, b, d) PROVE RestAfter(m, a, b, d)
    <3>1. d \in a .. b /\ Here(w, d) /\ Acc(w, d) # NO /\ \A k \in a .. d - 1 : Through(w, k)
      BY <2>4 DEF RestAfter
    <3>2. Here(m, d) /\ Acc(m, d) # NO
      BY <1>2, <2>2, <3>1, SparedFlags
    <3>3. ASSUME NEW k \in a .. d - 1 PROVE Through(m, k)
      <4>1. k \in a .. b
        BY <1>1, <3>1 DEF a, b
      <4>2. Spared(w, m, k) /\ Through(w, k)
        BY <1>2, <2>2, <3>1, <4>1
      <4> QED  BY <4>2, SparedFlags
    <3> QED  BY <3>1, <3>2, <3>3 DEF RestAfter
  <2>5. Follows(w, v)
    BY <1>2, <2>3, FollowsOn
  <2>6. \A d \in Days : Spared(w, v, d)
    BY <1>2, <2>3, SparedOn
  <2>7. ASSUME NEW d, RestBefore(w, span[1], lo - 1, d) PROVE HasMark(v, d)
    <3>1. d \in Days /\ HasMark(m, d)
      BY <1>1, <1>2, <2>7 DEF RestBefore
    <3> QED  BY <2>3, <3>1, SparedMark
  <2> QED  BY <1>4, <2>3, <2>4, <2>5, <2>6, <2>7 DEF a, b
<1> QED  BY <1>3, <1>4

\* What was left alone at first and then only marked.
LEMMA MarkAfter ==
  ASSUME NEW w, NEW x, NEW v, NEW days, NEW d \in Days \ days,
         \A k \in Days \ days : Spared(w, x, k), \A k \in Days : Spared(x, v, k)
  PROVE  Spared(w, v, d)
BY SparedOn

LEMMA RedistQC2Is ==
  ASSUME NEW w, WorkOK(w), NEW span, SpanOK(span), NEW lo \in Days, NEW hi \in Days,
         lo < hi, NEW v, v = RedistributeInQC2(w, lo, hi, span)
  PROVE  /\ Follows(w, v)
         /\ KeepsMarks(w, v, lo .. hi - 1) /\ KeepsParts(w, v, {}) /\ KeepsEdges(w, v, lo .. hi)
<1> DEFINE days == lo .. hi - 1
           us == [c \in CellsOf(days) |->
                    ClearTasks(Changed(CreateU(w, c), QC2Rules), ALL_RR24_TASKS)]
           done == Put(w, us)
           m == MarkPreviousAccumulation(done, span[1], lo - 1, TRUE)
           after == Here(w, hi) /\ End(w, hi) = NO
<1>1. v = IF after THEN MarkPreviousAccumulation(m, hi + 1, span[2], FALSE) ELSE m
  BY DEF RedistributeInQC2, QC2Rules
<1>2. days \subseteq Days /\ CellsOf(days) \subseteq Cells
  <2>1. days \subseteq Days
    BY DayIs
  <2> QED  BY <2>1, CellIs
<1>3. ASSUME NEW c \in CellsOf(days)
      PROVE  us[c] \in Update /\ DataOf(us[c]).ci.fd \in {2, 7}
  <2> DEFINE u == CreateU(w, c)
  <2>1. u \in Update
    BY <1>2, CreateUIs
  <2>2. us[c] = ClearTasks(Changed(u, QC2Rules), ALL_RR24_TASKS)
    OBVIOUS
  <2>3. ALL_RR24_TASKS \in SUBSET Tasks /\ QC2Rules \in ConstantRules
    BY TaskNames DEF ConstantRules
  <2> HIDE DEF u, us
  <2>4. us[c] \in Update /\ us[c].ci = Apply(QC2Rules, u.ci) /\ DataOf(us[c]).ci = us[c].ci
    BY <2>1, <2>2, <2>3, ClearedIs
  <2>5. u.ci \in ControlInfo
    BY <2>1 DEF Update
  <2>6. Apply(QC2Rules, u.ci).fd \in {2, 7}
    BY <2>5, QC2RulesIs
  <2> QED  BY <2>4, <2>6
<1>4. DOMAIN us = CellsOf(days) /\ Updates(us)
  BY <1>2, <1>3 DEF Updates
<1> HIDE DEF us, days
<1>5. /\ Follows(w, done) /\ WorkOK(done)
      /\ \A d \in days : done.card[Cell(d)] = DataOf(us[Cell(d)]) /\ Here(done, d)
      /\ \A d \in Days \ days : done.card[Cell(d)] = w.card[Cell(d)] /\ Spared(w, done, d)
  BY <1>2, <1>4, PutDays
<1>6. ASSUME NEW d \in days PROVE Here(done, d) /\ Acc(done, d) # NO /\ End(done, d) = NO
  <2>1. done.card[Cell(d)].ci.fd \in {2, 7}
    BY <1>3, <1>5, CellIs
  <2> QED  BY <1>5, <2>1 DEF Acc, End, Ci, IsAccumulation, IsEndpoint, NO, BEFORE_REDIST, QC2_REDIST
<1> HIDE DEF done
<1>7. after \in BOOLEAN /\ lo <= hi + 1
  BY DayIs
<1> HIDE DEF after
<1>8. /\ Follows(done, v) /\ WorkOK(v) /\ \A d \in Days : Spared(done, v, d)
  BY <1>1, <1>5, <1>7, MarkBothSides
<1>9. Follows(w, v)
  BY <1>5, <1>8, FollowsOn
<1>10. \A d \in Days \ days : Spared(w, v, d)
  BY <1>5, <1>8, MarkAfter
<1>11. KeepsMarks(w, v, days) /\ KeepsParts(w, v, days) /\ KeepsEdges(w, v, days)
  BY <1>8, <1>10, SparedKeeps
<1>12. KeepsParts(w, v, {})
  <2>1. SUFFICES ASSUME NEW d \in Days, Here(w, d), Acc(w, d) # NO
                 PROVE  Here(v, d) /\ Acc(v, d) # NO /\ (End(w, d) = NO => End(v, d) = NO)
    BY DEF KeepsParts
  <2>2. CASE d \in days
    BY <1>6, <1>8, <2>1, <2>2, SparedFlags
  <2>3. CASE d \notin days
    BY <1>11, <2>1, <2>3 DEF KeepsParts
  <2> QED  BY <2>2, <2>3
<1>13. KeepsEdges(w, v, lo .. hi)
  <2>1. \A d : d \notin lo .. hi => d \notin days
    BY DayIs DEF days
  <2> QED  BY <1>11, <2>1 DEF KeepsEdges
<1> QED  BY <1>9, <1>11, <1>12, <1>13 DEF days

(* A cut day is among the rest on one side of the days. *)
LEMMA CutIsRest ==
  ASSUME NEW w, NEW x, NEW lo \in Days, NEW hi \in Days, NEW span, SpanOK(span),
         \A d \in Days \ (lo .. hi) : Spared(w, x, d),
         NEW d \in (span[1] .. span[2]) \ (lo .. hi), Cut(w, d, lo .. hi)
  PROVE  \/ RestBefore(x, span[1], lo - 1, d)
         \/ RestAfter(x, hi + 1, span[2], d) /\ Unended(w, hi)
<1>1. /\ lo \in Int /\ hi \in Int /\ span[1] \in Int /\ span[2] \in Int /\ d \in Int
      /\ span[1] <= d /\ d <= span[2] /\ d \in Days
  BY DayIs DEF SpanOK
<1>2. Here(w, d) /\ Acc(w, d) # NO
  BY DEF Cut
<1>3. PICK e \in lo .. hi :
        \/ e < d /\ \A k \in e .. d - 1 : Unended(w, k)
        \/ e > d /\ \A k \in d .. e - 1 : Unended(w, k)
  BY DEF Cut
<1>4. ASSUME NEW k \in Days, k \notin lo .. hi
      PROVE  /\ Unended(w, k) => Unended(x, k)
             /\ Here(w, k) => Acc(x, k) = Acc(w, k) /\ Here(x, k)
  <2>1. Spared(w, x, k)
    BY <1>4
  <2> QED  BY <2>1, SparedFlags
<1>5. \A k : Unended(x, k) => Through(x, k) /\ Here(x, k) /\ ~ Stops(x, k)
  BY DEF Unended, Through, Stops
<1>6. CASE e < d
  <2>1. hi < d /\ hi \in e .. d - 1 /\ \A k \in e .. d - 1 : Unended(w, k)
    BY <1>1, <1>3, <1>6
  <2>2. ASSUME NEW k \in hi + 1 .. d - 1 PROVE Through(x, k)
    <3>1. k \in Days /\ k \notin lo .. hi /\ k \in e .. d - 1
      BY <1>1, <1>3, DayIs
    <3> QED  BY <1>4, <1>5, <2>1, <3>1
  <2>3. Here(x, d) /\ Acc(x, d) # NO /\ d \in hi + 1 .. span[2]
    BY <1>1, <1>2, <1>4, <2>1
  <2> QED  BY <2>1, <2>2, <2>3 DEF RestAfter
<1>7. CASE e > d
  <2>1. d < lo /\ d \in d .. e - 1 /\ \A k \in d .. e - 1 : Unended(w, k)
    BY <1>1, <1>3, <1>7
  <2>2. ASSUME NEW k \in d .. lo - 1 PROVE Unended(x, k)
    <3>1. k \in Days /\ k \notin lo .. hi /\ k \in d .. e - 1
      BY <1>1, <1>3, DayIs
    <3> QED  BY <1>4, <2>1, <3>1
  <2>3. d \in span[1] .. lo - 1 /\ d \in d .. lo - 1 /\ d + 1 .. lo - 1 \subseteq d .. lo - 1
    BY <1>1, <2>1
  <2> QED  BY <1>5, <2>2, <2>3 DEF RestBefore
<1> QED  BY <1>3, <1>6, <1>7

LEMMA RedistIs ==
  ASSUME NEW w, WorkOK(w), NEW span, SpanOK(span), NEW lo \in Days, NEW hi \in Days,
         lo <= hi, NEW newCorr \in [1 .. hi - lo + 1 -> Int], Len(newCorr) = hi - lo + 1,
         NEW v, v = Redistribute(w, lo, span, newCorr)
  PROVE  /\ Follows(w, v)
         /\ KeepsMarks(w, v, lo .. hi) /\ KeepsParts(w, v, lo .. hi) /\ KeepsEdges(w, v, lo .. hi)
         /\ MarksCut(w, v, span, lo .. hi)
<1> DEFINE days == lo .. hi
           update(c) ==
             LET u == SetCorrected(CreateU(w, c), newCorr[c[2] - lo + 1])
                 x == IF c[2] < hi THEN Changed(u, MissRules)
                      ELSE Changed(Changed(u, EndRules), IF u.corrected = DRY THEN FcDryEnd ELSE FcWetEnd)
             IN  ClearTasks(x, ALL_RR24_TASKS)
           us == [c \in CellsOf(days) |-> update(c)]
           done == Put(w, us)
           m == MarkPreviousAccumulation(done, span[1], lo - 1, TRUE)
           after == ~Here(w, hi) \/ End(w, hi) = NO
<1>0. lo \in Int /\ hi \in Int /\ lo + Len(newCorr) - 1 = hi
  BY DayIs
<1>1. v = IF after THEN MarkPreviousAccumulation(m, hi + 1, span[2], FALSE) ELSE m
  BY <1>0 DEF Redistribute, MissRules, EndRules
<1>2. days \subseteq Days /\ CellsOf(days) \subseteq Cells
  <2>1. days \subseteq Days
    BY DayIs
  <2> QED  BY <2>1, CellIs
<1>3. ASSUME NEW c \in CellsOf(days)
      PROVE  us[c] \in Update
  <2>1. c[2] \in lo .. hi /\ c \in Cells
    BY <1>2 DEF CellsOf, Cell
  <2>2. newCorr[c[2] - lo + 1] \in Int
    <3>1. c[2] - lo + 1 \in 1 .. hi - lo + 1
      BY <1>0, <2>1
    <3> QED  BY <3>1
  <2>3. CreateU(w, c) \in Update
    BY <2>1, CreateUIs
  <2> DEFINE u == SetCorrected(CreateU(w, c), newCorr[c[2] - lo + 1])
  <2>4. u \in Update
    <3> DEFINE y == newCorr[c[2] - lo + 1]
               z == CreateU(w, c)
    <3>1. y \in Int /\ z \in Update
      BY <2>2, <2>3
    <3> HIDE DEF y, z
    <3>2. SetCorrected(z, y) \in Update
      BY <3>1, SetCorrectedIs
    <3> QED  BY <3>2 DEF y, z
  <2>5. us[c] = ClearTasks(IF c[2] < hi THEN Changed(u, MissRules)
                      ELSE Changed(Changed(u, EndRules), IF u.corrected = DRY THEN FcDryEnd ELSE FcWetEnd),
                      ALL_RR24_TASKS)
    OBVIOUS
  <2> HIDE DEF u, us
  <2>6. /\ MissRules \in ConstantRules /\ EndRules \in ConstantRules
        /\ FcDryEnd \in ConstantRules /\ FcWetEnd \in ConstantRules
        /\ ALL_RR24_TASKS \in SUBSET Tasks
    BY TaskNames DEF ConstantRules
  <2>7. Changed(u, MissRules) \in Update /\ Changed(u, EndRules) \in Update
    BY <2>4, <2>6, ByRules
  <2> DEFINE e == Changed(u, EndRules)
  <2>8. e \in Update
    BY <2>7
  <2> HIDE DEF e
  <2>9. Changed(e, FcDryEnd) \in Update /\ Changed(e, FcWetEnd) \in Update
    BY <2>6, <2>8, ByRules
  <2>10. \A x \in Update : ClearTasks(x, ALL_RR24_TASKS) \in Update
    BY <2>6, TasksIs
  <2> QED  BY <2>5, <2>7, <2>9, <2>10 DEF e
<1>4. DOMAIN us = CellsOf(days) /\ Updates(us)
  BY <1>2, <1>3 DEF Updates
<1> HIDE DEF us, days
<1>5. /\ Follows(w, done) /\ WorkOK(done)
      /\ \A d \in Days \ days : done.card[Cell(d)] = w.card[Cell(d)] /\ Spared(w, done, d)
  BY <1>2, <1>4, PutDays
<1> HIDE DEF done
<1>6. after \in BOOLEAN /\ lo <= hi + 1 /\ (Unended(w, hi) => after)
  BY <1>0 DEF Unended
<1> HIDE DEF after
<1>7. /\ Follows(done, v) /\ WorkOK(v) /\ \A d \in Days : Spared(done, v, d)
      /\ \A d : RestBefore(done, span[1], lo - 1, d) => HasMark(v, d)
      /\ after => \A d : RestAfter(done, hi + 1, span[2], d) => HasMark(v, d)
  BY <1>1, <1>5, <1>6, MarkBothSides
<1>8. Follows(w, v)
  BY <1>5, <1>7, FollowsOn
<1>9. \A d \in Days \ days : Spared(w, v, d)
  BY <1>5, <1>7, MarkAfter
<1>10. KeepsMarks(w, v, days) /\ KeepsParts(w, v, days) /\ KeepsEdges(w, v, days)
  BY <1>7, <1>9, SparedKeeps
<1>11. MarksCut(w, v, span, lo .. hi)
  <2>1. SUFFICES ASSUME NEW d \in (span[1] .. span[2]) \ (lo .. hi), Cut(w, d, lo .. hi)
                 PROVE  HasMark(v, d)
    BY DEF MarksCut
  <2>2. \A k \in Days \ (lo .. hi) : Spared(w, done, k)
    BY <1>5 DEF days
  <2>3. \/ RestBefore(done, span[1], lo - 1, d)
        \/ RestAfter(done, hi + 1, span[2], d) /\ Unended(w, hi)
    BY <2>1, <2>2, CutIsRest
  <2> QED  BY <1>6, <1>7, <2>3
<1> QED  BY <1>8, <1>10, <1>11 DEF days

-----------------------------------------------------------------------------
(* The edit dialog.  A handled day: marks for the days passed over since   *)
(* the last handled one, then the day itself.                              *)
MarkedTo(a, v, hi) ==
  /\ Follows(a, v) /\ WorkOK(v) /\ \A k \in Days : Spared(a, v, k)
  /\ \A k \in Days : k > hi => v.card[Cell(k)] = a.card[Cell(k)]
LEMMA MarkedToBefore ==
  ASSUME NEW a, WorkOK(a), NEW from, NEW hi \in Int, AreDays(from, hi),
         NEW v, v = MarkPreviousAccumulation(a, from, hi, TRUE)
  PROVE  MarkedTo(a, v, hi) /\ \A k : RestBefore(a, from, hi, k) => HasMark(v, k)
<1>1. /\ Follows(a, v) /\ WorkOK(v) /\ \A k \in Days : Spared(a, v, k)
      /\ \A k : RestBefore(a, from, hi, k) => HasMark(v, k)
      /\ SameOutside(a, v, from, hi)
  BY MarkedRest
<1>2. ASSUME NEW k \in Days, k > hi PROVE v.card[Cell(k)] = a.card[Cell(k)]
  <2>1. k \notin from .. hi
    BY <1>2, DayIs
  <2>2. Cell(k) \in Cells /\ Cell(k) \notin CellsOf(from .. hi)
    BY <2>1, CellIs
  <2> QED  BY <1>1, <2>2 DEF SameOutside
<1> QED  BY <1>1, <1>2 DEF MarkedTo
LEMMA MarkedToAfter ==
  ASSUME NEW a, WorkOK(a), NEW from, NEW hi \in Int, AreDays(from, hi),
         NEW v, v = MarkPreviousAccumulation(a, from, hi, FALSE)
  PROVE  MarkedTo(a, v, hi) /\ \A k : RestAfter(a, from, hi, k) => HasMark(v, k)
<1>1. /\ Follows(a, v) /\ WorkOK(v) /\ \A k \in Days : Spared(a, v, k)
      /\ \A k : RestAfter(a, from, hi, k) => HasMark(v, k)
      /\ SameOutside(a, v, from, hi)
  BY MarkedRest
<1>2. ASSUME NEW k \in Days, k > hi PROVE v.card[Cell(k)] = a.card[Cell(k)]
  <2>1. k \notin from .. hi
    BY <1>2, DayIs
  <2>2. Cell(k) \in Cells /\ Cell(k) \notin CellsOf(from .. hi)
    BY <2>1, CellIs
  <2> QED  BY <1>1, <2>2 DEF SameOutside
<1> QED  BY <1>1, <1>2 DEF MarkedTo
LEMMA MarkedToNone ==
  ASSUME NEW a, WorkOK(a), NEW hi
  PROVE  MarkedTo(a, a, hi)
BY FollowsItself DEF MarkedTo, Spared
LEMMA MarkedToOn ==
  ASSUME NEW a, NEW x, NEW v, NEW hi, MarkedTo(a, x, hi), MarkedTo(x, v, hi)
  PROVE  MarkedTo(a, v, hi)
<1>1. Follows(a, v)
  BY FollowsOn DEF MarkedTo
<1>2. \A k \in Days : Spared(a, v, k)
  BY SparedOn DEF MarkedTo
<1> QED  BY <1>1, <1>2 DEF MarkedTo
LEMMA RestAfterMarked ==
  ASSUME NEW a, NEW x, NEW lo, NEW hi \in Int, AreDays(lo, hi), MarkedTo(a, x, hi),
         NEW k, RestAfter(a, lo, hi, k)
  PROVE  RestAfter(x, lo, hi, k)
<1>1. k \in lo .. hi /\ Here(a, k) /\ Acc(a, k) # NO /\ \A j \in lo .. k - 1 : Through(a, j)
  BY DEF RestAfter
<1>2. k \in Days /\ Spared(a, x, k)
  BY <1>1 DEF MarkedTo, AreDays
<1>3. Here(x, k) /\ Acc(x, k) # NO
  BY <1>1, <1>2, SparedFlags
<1>4. ASSUME NEW j \in lo .. k - 1 PROVE Through(x, j)
  <2>1. j \in lo .. hi
    BY <1>1, <1>2, DayIs
  <2>2. Through(a, j) /\ Spared(a, x, j)
    BY <1>1, <2>1 DEF MarkedTo, AreDays
  <2> QED  BY <2>2, SparedFlags
<1> QED  BY <1>1, <1>3, <1>4 DEF RestAfter

LEMMA PassedDays ==
  ASSUME NEW a, WorkOK(a), NEW hi \in Int, NEW before \in BOOLEAN, NEW after \in BOOLEAN,
         NEW from, before \/ after => AreDays(from, hi)
  PROVE  \A x, v :
           /\ x = (IF before THEN MarkPreviousAccumulation(a, from, hi, TRUE) ELSE a)
           /\ v = (IF after THEN MarkPreviousAccumulation(x, from, hi, FALSE) ELSE x)
           => /\ MarkedTo(a, v, hi)
              /\ before => \A k \in Days : RestBefore(a, from, hi, k) => HasMark(v, k)
              /\ after => \A k \in Days : RestAfter(a, from, hi, k) => HasMark(v, k)
<1>1. SUFFICES ASSUME NEW x, NEW v,
                      x = (IF before THEN MarkPreviousAccumulation(a, from, hi, TRUE) ELSE a),
                      v = (IF after THEN MarkPreviousAccumulation(x, from, hi, FALSE) ELSE x)
               PROVE  /\ MarkedTo(a, v, hi)
                      /\ before => \A k \in Days : RestBefore(a, from, hi, k) => HasMark(v, k)
                      /\ after => \A k \in Days : RestAfter(a, from, hi, k) => HasMark(v, k)
  OBVIOUS
<1>2. /\ MarkedTo(a, x, hi)
      /\ before => \A k : RestBefore(a, from, hi, k) => HasMark(x, k)
  <2>1. CASE before
    BY <1>1, <2>1, MarkedToBefore
  <2>2. CASE ~ before
    BY <1>1, <2>2, MarkedToNone
  <2> QED  BY <2>1, <2>2
<1>3. WorkOK(x)
  BY <1>2 DEF MarkedTo
<1>4. /\ MarkedTo(x, v, hi)
      /\ after => \A k : RestAfter(x, from, hi, k) => HasMark(v, k)
  <2>1. CASE after
    BY <1>1, <1>3, <2>1, MarkedToAfter
  <2>2. CASE ~ after
    BY <1>1, <1>3, <2>2, MarkedToNone
  <2> QED  BY <2>1, <2>2
<1>5. MarkedTo(a, v, hi)
  BY <1>2, <1>4, MarkedToOn
<1>6. ASSUME before, NEW k \in Days, RestBefore(a, from, hi, k) PROVE HasMark(v, k)
  <2>1. HasMark(x, k) /\ Spared(x, v, k)
    BY <1>2, <1>4, <1>6 DEF MarkedTo
  <2> QED  BY <2>1, SparedMark
<1>7. ASSUME after, NEW k \in Days, RestAfter(a, from, hi, k) PROVE HasMark(v, k)
  <2>1. RestAfter(x, from, hi, k)
    BY <1>2, <1>7, RestAfterMarked
  <2> QED  BY <1>4, <1>7, <2>1
<1> QED  BY <1>5, <1>6, <1>7

\* The day itself is put.
LEMMA PutDay ==
  ASSUME NEW a, NEW d \in Days, NEW x, MarkedTo(a, x, d - 1), NEW us, DOMAIN us = {Cell(d)},
         us[Cell(d)] \in Update, NEW v, v = Put(x, us)
  PROVE  /\ Follows(a, v) /\ WorkOK(v)
         /\ \A k \in Days \ {d} : Spared(a, v, k)
         /\ \A k \in Days : k > d => v.card[Cell(k)] = a.card[Cell(k)]
         /\ \A k \in Days \ {d} : HasMark(x, k) => HasMark(v, k)
<1> DEFINE days == {d}
<1>1. CellsOf(days) = {Cell(d)} /\ days \subseteq Days
  BY DEF CellsOf
<1>2. Updates(us)
  BY CellIs DEF Updates
<1>3. \A k : k \in Days \ days <=> k \in Days \ {d}
  OBVIOUS
<1> HIDE DEF days
<1>4. WorkOK(x) /\ Follows(a, x) /\ \A k \in Days : Spared(a, x, k)
  BY DEF MarkedTo
<1>5. /\ Follows(x, v) /\ WorkOK(v)
      /\ \A k \in Days \ days : v.card[Cell(k)] = x.card[Cell(k)] /\ Spared(x, v, k)
  BY <1>1, <1>2, <1>4, PutDays
<1>6. Follows(a, v)
  BY <1>4, <1>5, FollowsOn
<1>7. ASSUME NEW k \in Days \ {d}
      PROVE  Spared(a, v, k) /\ (HasMark(x, k) => HasMark(v, k))
  <2>1. Spared(a, x, k) /\ Spared(x, v, k)
    BY <1>3, <1>4, <1>5
  <2> QED  BY <2>1, SparedOn, SparedMark
<1>8. ASSUME NEW k \in Days, k > d PROVE v.card[Cell(k)] = a.card[Cell(k)]
  <2>1. k \in Days \ days /\ k > d - 1
    BY <1>3, <1>8, DayIs
  <2> QED  BY <1>5, <2>1 DEF MarkedTo
<1> QED  BY <1>5, <1>6, <1>7, <1>8

SinglesBy(L, da0, lo, span, newCorr, ars) ==
  L = [i \in 0 .. Len(ars) |->
         IF i = 0 THEN [da |-> da0, single |-> FALSE, acc |-> FALSE, from |-> span[1]]
         ELSE SinglesDay(L[i - 1], lo + i - 1, ars[i], newCorr[i])]
LEMMA SinglesLoopIs ==
  ASSUME NEW da0, NEW lo, NEW span, NEW newCorr, NEW ars, Len(ars) \in Nat
  PROVE  SinglesBy(SinglesLoop(da0, lo, span, newCorr, ars), da0, lo, span, newCorr, ars)
<1> DEFINE After(f, n) ==
             IF n = 0 THEN [da |-> da0, single |-> FALSE, acc |-> FALSE, from |-> span[1]]
             ELSE SinglesDay(f[n - 1], lo + n - 1, ars[n], newCorr[n])
           Solves(f, m) == f = [n \in 0 .. m |-> After(f, n)]
           S == {m \in Nat : \E f : Solves(f, m)}
<1>1. 0 \in S
  <2>1. Solves([n \in 0 .. 0 |-> After(0, 0)], 0)
    OBVIOUS
  <2> QED  BY <2>1
<1>2. ASSUME NEW m \in S PROVE m + 1 \in S
  <2>1. PICK f : Solves(f, m)
    OBVIOUS
  <2> DEFINE g == [n \in 0 .. m + 1 |-> IF n <= m THEN f[n] ELSE After(f, n)]
  <2>2. ASSUME NEW n \in 0 .. m + 1 PROVE g[n] = After(g, n)
    <3>1. n # 0 => n - 1 \in 0 .. m + 1 /\ n - 1 <= m
      OBVIOUS
    <3>2. After(g, n) = After(f, n)
      BY <3>1
    <3>3. n <= m => f[n] = After(f, n)
      <4> HIDE DEF After
      <4> QED  BY <2>1
    <3> QED  BY <3>2, <3>3
  <2>3. Solves(g, m + 1)
    BY <2>2
  <2>4. m + 1 \in Nat /\ \E h : Solves(h, m + 1)
    <3> HIDE DEF g, Solves
    <3> QED  BY <2>3
  <2> QED  BY <2>4
<1>3. Len(ars) \in S
  <2> HIDE DEF S
  <2>1. S \in SUBSET Nat
    BY DEF S
  <2> QED  BY <1>1, <1>2, <2>1, AllNumbers
<1>4. \E f : Solves(f, Len(ars))
  BY <1>3
<1>5. SinglesLoop(da0, lo, span, newCorr, ars) = CHOOSE f : Solves(f, Len(ars))
  BY DEF SinglesLoop
<1> HIDE DEF Solves
<1>6. Solves(SinglesLoop(da0, lo, span, newCorr, ars), Len(ars))
  BY <1>4, <1>5
<1> QED  BY <1>6 DEF Solves, SinglesBy

(* The loop over the rows: T are the days handled so far, next the day of  *)
(* the next row.  Days that were passed over, between two handled ones or  *)
(* before the first, have their marks.                                     *)
CutBefore(w, d, e) ==
  d < e /\ Here(w, e) /\ Acc(w, e) # NO /\ \A k \in d .. e - 1 : Unended(w, k)
CutAfter(w, d, e) ==
  e < d /\ Here(w, d) /\ Acc(w, d) # NO /\ \A k \in e .. d - 1 : Unended(w, k)
PassedMarked(w, v, span, T) ==
  \A d \in (span[1] .. span[2]) \ T : \A e \in T :
    /\ CutBefore(w, d, e) => HasMark(v, d)
    /\ CutAfter(w, d, e) /\ (\E t \in T : d < t) => HasMark(v, d)
LastUnended(w, T) == \E t \in T : (\A u \in T : u <= t) /\ Unended(w, t)
FromIs(span, T, from) ==
  /\ from \in Int /\ FirstDay <= from
  /\ T = {} => from = span[1]
  /\ T # {} => from - 1 \in T /\ \A t \in T : t < from
SinglesInv(w, span, T, next, s) ==
  /\ s = [da |-> s.da, single |-> s.single, acc |-> s.acc, from |-> s.from]
  /\ s.single \in BOOLEAN /\ s.acc \in BOOLEAN
  /\ Follows(w, s.da) /\ WorkOK(s.da)
  /\ \A d \in Days \ T : Spared(w, s.da, d)
  /\ \A d \in Days : d >= next => s.da.card[Cell(d)] = w.card[Cell(d)]
  /\ T \subseteq Days /\ \A t \in T : t < next
  /\ s.single <=> next - 1 \in T
  /\ ~ s.single => FromIs(span, T, s.from)
  /\ s.acc <=> LastUnended(w, T)
  /\ PassedMarked(w, s.da, span, T)

LEMMA SinglesNone ==
  ASSUME NEW w, NEW span, NEW T, NEW next \in Days, NEW s, SinglesInv(w, span, T, next, s),
         NEW value, NEW s1, s1 = SinglesDay(s, next, "none", value)
  PROVE  SinglesInv(w, span, T, next + 1, s1)
<1>1. s = [da |-> s.da, single |-> s.single, acc |-> s.acc, from |-> s.from]
  BY DEF SinglesInv
<1>2. s1 = [s EXCEPT !.from = IF s.single THEN next ELSE s.from, !.single = FALSE]
  BY DEF SinglesDay
<1>3. /\ s1 = [da |-> s1.da, single |-> s1.single, acc |-> s1.acc, from |-> s1.from]
      /\ s1.da = s.da /\ s1.acc = s.acc /\ s1.single = FALSE
      /\ s1.from = IF s.single THEN next ELSE s.from
  BY <1>1, <1>2
<1>4. /\ s.acc \in BOOLEAN /\ Follows(w, s.da) /\ WorkOK(s.da)
      /\ \A d \in Days \ T : Spared(w, s.da, d)
      /\ \A d \in Days : d >= next => s.da.card[Cell(d)] = w.card[Cell(d)]
      /\ T \subseteq Days /\ \A t \in T : t < next
      /\ s.single <=> next - 1 \in T
      /\ ~ s.single => FromIs(span, T, s.from)
      /\ s.acc <=> LastUnended(w, T)
      /\ PassedMarked(w, s.da, span, T)
  BY DEF SinglesInv
<1>5. next \in Int /\ FirstDay <= next /\ T \subseteq Int
  BY <1>4, DayIs
<1>6. FromIs(span, T, s1.from)
  <2>1. CASE s.single
    BY <1>3, <1>4, <1>5, <2>1 DEF FromIs
  <2>2. CASE ~ s.single
    BY <1>3, <1>4, <2>2
  <2> QED  BY <2>1, <2>2
<1>7. \A t \in T : t < next + 1
  BY <1>4, <1>5
<1>8. (next + 1) - 1 \notin T
  BY <1>4, <1>5
<1>9. \A d \in Days : d >= next + 1 => s.da.card[Cell(d)] = w.card[Cell(d)]
  BY <1>4, <1>5, DayIs
<1> QED  BY <1>3, <1>4, <1>6, <1>7, <1>8, <1>9 DEF SinglesInv

\* What is marked when a day is handled.
LEMMA PassedOn ==
  ASSUME NEW w, WorkOK(w), NEW span, SpanOK(span), NEW T, NEW next \in Days, NEW s,
         SinglesInv(w, span, T, next, s), NEW v,
         \A k \in Days \ {next} : Spared(s.da, v, k),
         \A k \in Days \ {next} :
           ~ s.single /\ Here(w, next) /\ Acc(w, next) # NO /\ RestBefore(s.da, s.from, next - 1, k)
             => HasMark(v, k),
         \A k \in Days \ {next} :
           ~ s.single /\ s.acc /\ RestAfter(s.da, s.from, next - 1, k) => HasMark(v, k)
  PROVE  PassedMarked(w, v, span, T \cup {next})
<1>1. /\ T \subseteq Days /\ \A t \in T : t < next
      /\ s.single <=> next - 1 \in T
      /\ ~ s.single => FromIs(span, T, s.from)
      /\ s.acc <=> LastUnended(w, T)
      /\ PassedMarked(w, s.da, span, T)
      /\ \A k \in Days \ T : Spared(w, s.da, k)
  BY DEF SinglesInv
<1>2. /\ next \in Int /\ T \subseteq Int /\ span[1] \in Int /\ span[2] \in Int
      /\ span[1] .. span[2] \subseteq Days /\ Days \subseteq Int
  BY <1>1, DayIs DEF SpanOK
<1>3. SUFFICES ASSUME NEW d \in (span[1] .. span[2]) \ (T \cup {next}), NEW e \in T \cup {next}
               PROVE  /\ CutBefore(w, d, e) => HasMark(v, d)
                      /\ CutAfter(w, d, e) /\ (\E t \in T \cup {next} : d < t) => HasMark(v, d)
  BY DEF PassedMarked
<1>4. d \in Int /\ d \in Days \ {next} /\ d \in (span[1] .. span[2]) \ T /\ span[1] <= d
  BY <1>2
<1>5. HasMark(s.da, d) => HasMark(v, d)
  BY <1>4, SparedMark
<1>6. ASSUME NEW k \in Days, k \notin T, Unended(w, k)
      PROVE  Here(s.da, k) /\ ~ Stops(s.da, k) /\ Through(s.da, k) /\ Acc(s.da, k) # NO
  <2>1. Spared(w, s.da, k)
    BY <1>1, <1>6
  <2>2. Unended(s.da, k)
    BY <1>6, <2>1, SparedFlags
  <2> QED  BY <2>2 DEF Unended, Stops, Through
<1>7. ASSUME \A t \in T : ~ d < t, d < next
      PROVE  ~ s.single /\ s.from \in Int /\ s.from <= d /\ (\A t \in T : t < s.from)
             /\ (T # {} => s.from - 1 \in T) /\ FirstDay <= s.from
  <2>1. next - 1 \notin T
    BY <1>2, <1>3, <1>4, <1>7
  <2>2. FromIs(span, T, s.from) /\ ~ s.single
    BY <1>1, <2>1
  <2>3. CASE T = {}
    BY <1>4, <2>2, <2>3 DEF FromIs
  <2>4. CASE T # {}
    <3>1. s.from - 1 \in T /\ s.from \in Int /\ \A t \in T : t < s.from
      BY <2>2, <2>4 DEF FromIs
    <3>2. s.from - 1 <= d /\ s.from - 1 # d
      BY <1>2, <1>3, <1>4, <1>7, <3>1
    <3> QED  BY <1>4, <2>2, <3>1, <3>2 DEF FromIs
  <2> QED  BY <2>3, <2>4
<1>8. ASSUME CutBefore(w, d, e) PROVE HasMark(v, d)
  <2>1. d < e /\ Here(w, e) /\ Acc(w, e) # NO /\ \A k \in d .. e - 1 : Unended(w, k)
    BY <1>8 DEF CutBefore
  <2>2. CASE \E t \in T : d < t
    <3>1. PICK t \in T : d < t
      BY <2>2
    <3>2. CASE t < e
      <4>1. t \in d .. e - 1
        BY <1>2, <1>4, <3>1, <3>2
      <4>2. Unended(w, t)
        BY <2>1, <4>1
      <4>3. \A k \in d .. t - 1 : Unended(w, k)
        BY <1>2, <1>4, <2>1, <3>2
      <4>4. CutBefore(w, d, t)
        BY <3>1, <4>2, <4>3 DEF CutBefore, Unended
      <4> QED  BY <1>1, <1>4, <1>5, <4>4 DEF PassedMarked
    <3>3. CASE ~ t < e
      <4>1. e \in T
        BY <1>1, <1>2, <3>3
      <4> QED  BY <1>1, <1>4, <1>5, <1>8, <4>1 DEF PassedMarked
    <3> QED  BY <3>2, <3>3
  <2>3. CASE \A t \in T : ~ d < t
    <3>1. e = next /\ d < next
      BY <2>1, <2>3
    <3>2. ~ s.single /\ s.from \in Int /\ s.from <= d
      BY <1>7, <2>3, <3>1
    <3>3. ASSUME NEW k \in d .. next - 1 PROVE Here(s.da, k) /\ ~ Stops(s.da, k) /\ Through(s.da, k)
      <4>1. k \in Days
        BY <1>2, <1>4, DayIs
      <4>2. k \notin T
        BY <1>2, <1>3, <1>4, <2>3
      <4>3. Unended(w, k)
        BY <2>1, <3>1
      <4> QED  BY <1>6, <4>1, <4>2, <4>3
    <3>4. d \in s.from .. next - 1 /\ d \in d .. next - 1 /\ d + 1 .. next - 1 \subseteq d .. next - 1
      BY <1>2, <1>4, <3>1, <3>2
    <3>5. RestBefore(s.da, s.from, next - 1, d)
      BY <3>3, <3>4 DEF RestBefore
    <3> QED  BY <1>4, <2>1, <3>1, <3>2, <3>5
  <2> QED  BY <2>2, <2>3
<1>9. ASSUME CutAfter(w, d, e), NEW t \in T \cup {next}, d < t PROVE HasMark(v, d)
  <2>1. e < d /\ Here(w, d) /\ Acc(w, d) # NO /\ \A k \in e .. d - 1 : Unended(w, k)
    BY <1>9 DEF CutAfter
  <2>2. d < next /\ e \in T
    BY <1>1, <1>2, <1>4, <1>9, <2>1
  <2>3. CASE \E u \in T : d < u
    BY <1>1, <1>4, <1>5, <1>9, <2>2, <2>3 DEF PassedMarked
  <2>4. CASE \A u \in T : ~ d < u
    <3>1. /\ ~ s.single /\ s.from \in Int /\ s.from <= d /\ \A u \in T : u < s.from
          /\ s.from - 1 \in T
      BY <1>7, <2>2, <2>4
    <3>2. s.from - 1 \in e .. d - 1
      BY <1>2, <1>4, <2>2, <3>1
    <3>3. s.acc
      <4>1. Unended(w, s.from - 1)
        BY <2>1, <3>2
      <4>2. \A u \in T : u <= s.from - 1
        BY <1>2, <3>1
      <4> QED  BY <1>1, <3>1, <4>1, <4>2 DEF LastUnended
    <3>4. ASSUME NEW k \in s.from .. d - 1 PROVE Through(s.da, k)
      <4>1. k \in Days
        BY <1>2, <1>4, <1>7, <2>2, <2>4, <3>1, DayIs
      <4>2. k \notin T
        BY <1>2, <3>1
      <4>3. k \in e .. d - 1
        BY <1>2, <3>1, <3>2
      <4>4. Unended(w, k)
        BY <2>1, <4>3
      <4> QED  BY <1>6, <4>1, <4>2, <4>4
    <3>5. d \in s.from .. next - 1
      BY <1>2, <1>4, <2>2, <3>1
    <3>6. Here(s.da, d) /\ Acc(s.da, d) # NO
      <4>1. Spared(w, s.da, d)
        BY <1>1, <1>4
      <4> QED  BY <2>1, <4>1, SparedFlags
    <3>7. RestAfter(s.da, s.from, next - 1, d)
      BY <3>4, <3>5, <3>6 DEF RestAfter
    <3> QED  BY <1>4, <3>1, <3>3, <3>7
  <2> QED  BY <2>3, <2>4
<1> QED  BY <1>8, <1>9

LEMMA SinglesHandled ==
  ASSUME NEW w, WorkOK(w), NEW span, SpanOK(span), NEW T, NEW next \in Days, NEW s,
         SinglesInv(w, span, T, next, s), NEW ar, ar # "none", NEW value \in Int,
         NEW s1, s1 = SinglesDay(s, next, ar, value)
  PROVE  SinglesInv(w, span, T \cup {next}, next + 1, s1)
<1>1. /\ s.single \in BOOLEAN /\ s.acc \in BOOLEAN /\ WorkOK(s.da) /\ Follows(w, s.da)
      /\ T \subseteq Days /\ \A t \in T : t < next
      /\ \A k \in Days \ T : Spared(w, s.da, k)
      /\ \A k \in Days : k >= next => s.da.card[Cell(k)] = w.card[Cell(k)]
      /\ ~ s.single => FromIs(span, T, s.from)
  BY DEF SinglesInv
<1>2. /\ next \in Int /\ T \subseteq Int /\ Days \subseteq Int
      /\ s.da.card[Cell(next)] = w.card[Cell(next)]
  BY <1>1, DayIs
<1> DEFINE obs  == s.da.card[Cell(next)]
           acc  == obs # NoObs /\ Acc(s.da, next) # NO
           open == acc /\ End(s.da, next) = NO
           da1  == IF ~s.single /\ acc
                     THEN MarkPreviousAccumulation(s.da, s.from, next - 1, TRUE) ELSE s.da
           da2  == IF ~s.single /\ s.acc
                     THEN MarkPreviousAccumulation(da1, s.from, next - 1, FALSE) ELSE da1
           new(u) == IF ar = "accept" THEN AutoCorrect(u, obs, value) ELSE RejectUpdate(u, obs)
           us == [c \in {Cell(next)} |->
                    ClearTasks(Changed(new(CreateU(da2, c)), PlainRules), ALL_RR24_TASKS)]
           v  == Put(da2, us)
<1>3. s1 = [da |-> v, single |-> TRUE, acc |-> open, from |-> s.from]
  BY DEF SinglesDay, PlainRules
<1>4. /\ acc <=> Here(w, next) /\ Acc(w, next) # NO
      /\ open <=> Unended(w, next)
  BY <1>2 DEF Here, Acc, End, Ci, Unended
<1>5. ~ s.single => AreDays(s.from, next - 1)
  BY <1>1, <1>2, DayIs DEF AreDays, FromIs
<1>6. /\ MarkedTo(s.da, da2, next - 1)
      /\ \A k \in Days : ~ s.single /\ acc /\ RestBefore(s.da, s.from, next - 1, k) => HasMark(da2, k)
      /\ \A k \in Days : ~ s.single /\ s.acc /\ RestAfter(s.da, s.from, next - 1, k) => HasMark(da2, k)
  <2> DEFINE b == ~ s.single /\ acc
             a == ~ s.single /\ s.acc
             h == next - 1
             x == s.da
             from == s.from
  <2>1. /\ b \in BOOLEAN /\ a \in BOOLEAN /\ h \in Int /\ WorkOK(x)
        /\ b \/ a => AreDays(from, h)
    BY <1>1, <1>2, <1>5
  <2>2. /\ da1 = (IF b THEN MarkPreviousAccumulation(x, from, h, TRUE) ELSE x)
        /\ da2 = (IF a THEN MarkPreviousAccumulation(da1, from, h, FALSE) ELSE da1)
    OBVIOUS
  <2> HIDE DEF b, a, h, x, from, da1, da2
  <2>3. /\ MarkedTo(x, da2, h)
        /\ b => \A k \in Days : RestBefore(x, from, h, k) => HasMark(da2, k)
        /\ a => \A k \in Days : RestAfter(x, from, h, k) => HasMark(da2, k)
    BY <2>1, <2>2, PassedDays
  <2> QED  BY <2>3 DEF b, a, h, x, from
<1>7. DOMAIN us = {Cell(next)} /\ us[Cell(next)] \in Update
  <2>1. WorkOK(da2)
    BY <1>6 DEF MarkedTo
  <2> DEFINE u == CreateU(da2, Cell(next))
  <2>2. u \in Update
    <3> HIDE DEF da2
    <3> QED  BY <2>1, CellIs, CreateUIs
  <2>3. us[Cell(next)] = ClearTasks(Changed(new(u), PlainRules), ALL_RR24_TASKS)
    OBVIOUS
  <2>4. DOMAIN us = {Cell(next)}
    OBVIOUS
  <2> HIDE DEF u, us, obs, da2
  <2>5. AutoCorrect(u, obs, value) \in Update /\ RejectUpdate(u, obs) \in Update
    BY <2>2, NewValueIs
  <2>6. new(u) \in Update
    BY <2>5
  <2> DEFINE y == new(u)
  <2>7. y \in Update /\ us[Cell(next)] = ClearTasks(Changed(y, PlainRules), ALL_RR24_TASKS)
    BY <2>3, <2>6
  <2>8. ALL_RR24_TASKS \in SUBSET Tasks /\ PlainRules \in ConstantRules
    BY TaskNames DEF ConstantRules
  <2> HIDE DEF y
  <2>9. us[Cell(next)] \in Update
    BY <2>7, <2>8, ClearedIs
  <2> QED  BY <2>4, <2>9
<1> HIDE DEF us, da2, da1, open, acc, obs
<1>8. /\ Follows(s.da, v) /\ WorkOK(v)
      /\ \A k \in Days \ {next} : Spared(s.da, v, k)
      /\ \A k \in Days : k > next => v.card[Cell(k)] = s.da.card[Cell(k)]
      /\ \A k \in Days \ {next} : HasMark(da2, k) => HasMark(v, k)
  <2> DEFINE x == s.da
  <2>1. MarkedTo(x, da2, next - 1)
    BY <1>6
  <2> HIDE DEF x
  <2>2. /\ Follows(x, v) /\ WorkOK(v)
        /\ \A k \in Days \ {next} : Spared(x, v, k)
        /\ \A k \in Days : k > next => v.card[Cell(k)] = x.card[Cell(k)]
        /\ \A k \in Days \ {next} : HasMark(da2, k) => HasMark(v, k)
    BY <1>7, <2>1, PutDay
  <2> QED  BY <2>2 DEF x
<1> HIDE DEF v
<1> DEFINE T1 == T \cup {next}
<1>9. PassedMarked(w, v, span, T1)
  <2>1. \A k \in Days \ {next} :
          ~ s.single /\ Here(w, next) /\ Acc(w, next) # NO /\ RestBefore(s.da, s.from, next - 1, k)
            => HasMark(v, k)
    BY <1>4, <1>6, <1>8
  <2>2. \A k \in Days \ {next} :
          ~ s.single /\ s.acc /\ RestAfter(s.da, s.from, next - 1, k) => HasMark(v, k)
    BY <1>6, <1>8
  <2> QED  BY <1>8, <2>1, <2>2, PassedOn
<1>10. Follows(w, v)
  BY <1>1, <1>8, FollowsOn
<1>11. \A k \in Days \ T1 : Spared(w, v, k)
  <2>1. ASSUME NEW k \in Days \ T1 PROVE Spared(w, v, k)
    <3>1. Spared(w, s.da, k) /\ Spared(s.da, v, k)
      BY <1>1, <1>8
    <3> QED  BY <3>1, SparedOn
  <2> QED  BY <2>1
<1>12. \A k \in Days : k >= next + 1 => v.card[Cell(k)] = w.card[Cell(k)]
  <2>1. \A k \in Days : k >= next + 1 => k > next /\ k >= next
    BY <1>2
  <2> QED  BY <1>1, <1>8, <2>1
<1>13. T1 \subseteq Days /\ (\A t \in T1 : t < next + 1) /\ (next + 1) - 1 \in T1
  BY <1>1, <1>2
<1>14. LastUnended(w, T1) <=> Unended(w, next)
  <2>1. \A t \in T1 : t <= next /\ (t # next => ~ next <= t)
    BY <1>1, <1>2
  <2>2. next \in T1
    OBVIOUS
  <2> HIDE DEF T1
  <2> QED  BY <2>1, <2>2 DEF LastUnended
<1>15. /\ s1 = [da |-> s1.da, single |-> s1.single, acc |-> s1.acc, from |-> s1.from]
       /\ s1.da = v /\ s1.single = TRUE /\ s1.acc = open
  BY <1>3
<1>16. open \in BOOLEAN /\ (open <=> LastUnended(w, T1))
  <2>1. open \in BOOLEAN
    BY DEF open, acc
  <2> QED  BY <1>4, <1>14, <2>1
<1> HIDE DEF T1
<1>17. SinglesInv(w, span, T1, next + 1, s1)
  BY <1>8, <1>9, <1>10, <1>11, <1>12, <1>13, <1>15, <1>16 DEF SinglesInv
<1> QED  BY <1>17 DEF T1

\* The days of the rows 1 .. i that are not left alone.
Handled(lo, ars, i) == {lo + j - 1 : j \in {k \in 1 .. i : ars[k] # "none"}}
LEMMA SinglesAll ==
  ASSUME NEW w, WorkOK(w), NEW span, SpanOK(span), NEW lo \in Days, NEW hi \in Days, lo <= hi,
         NEW newCorr \in [1 .. hi - lo + 1 -> Int], NEW ars, Len(ars) = hi - lo + 1,
         NEW L, L = SinglesLoop(w, lo, span, newCorr, ars)
  PROVE  SinglesInv(w, span, Handled(lo, ars, hi - lo + 1), hi + 1, L[hi - lo + 1])
<1>1. lo \in Int /\ hi \in Int /\ Len(ars) \in Nat
  BY DayIs
<1>2. SinglesBy(L, w, lo, span, newCorr, ars)
  BY <1>1, SinglesLoopIs
<1> DEFINE n == hi - lo + 1
           S == {i \in Nat : i <= n => SinglesInv(w, span, Handled(lo, ars, i), lo + i, L[i])}
<1>3. n \in Nat /\ Len(ars) = n /\ lo + n = hi + 1
  BY <1>1
<1>4. /\ L[0] = [da |-> w, single |-> FALSE, acc |-> FALSE, from |-> span[1]]
      /\ \A i \in 1 .. n : L[i] = SinglesDay(L[i - 1], lo + i - 1, ars[i], newCorr[i])
  <2>1. \A i \in 0 .. n :
          L[i] = IF i = 0 THEN [da |-> w, single |-> FALSE, acc |-> FALSE, from |-> span[1]]
                 ELSE SinglesDay(L[i - 1], lo + i - 1, ars[i], newCorr[i])
    <3> HIDE DEF n
    <3> QED  BY <1>2, <1>3 DEF SinglesBy
  <2>2. 0 \in 0 .. n /\ \A i \in 1 .. n : i \in 0 .. n /\ i # 0
    BY <1>3
  <2> HIDE DEF n
  <2> QED  BY <2>1, <2>2
<1>5. 0 \in S
  <2>1. Handled(lo, ars, 0) = {}
    BY DEF Handled
  <2>2. span[1] \in Int /\ FirstDay <= span[1]
    BY DEF SpanOK
  <2>3. Follows(w, w) /\ \A d \in Days : Spared(w, w, d)
    BY FollowsItself DEF Spared
  <2>4. SinglesInv(w, span, {}, lo + 0, L[0])
    BY <1>4, <2>2, <2>3 DEF SinglesInv, FromIs, LastUnended, PassedMarked
  <2> QED  BY <2>1, <2>4
<1>6. ASSUME NEW i \in S PROVE i + 1 \in S
  <2>1. SUFFICES ASSUME i + 1 <= n
                 PROVE  SinglesInv(w, span, Handled(lo, ars, i + 1), lo + (i + 1), L[i + 1])
    OBVIOUS
  <2> DEFINE T == Handled(lo, ars, i)
             next == lo + i
             s == L[i]
             s1 == L[i + 1]
             ar == ars[i + 1]
             value == newCorr[i + 1]
  <2>2. i \in Nat /\ i <= n /\ i + 1 \in 1 .. n /\ (i + 1) - 1 = i
    BY <1>3, <2>1
  <2>3. SinglesInv(w, span, T, next, s)
    BY <2>2
  <2>4. next \in Days /\ lo + (i + 1) - 1 = next /\ lo + (i + 1) = next + 1
    <3>1. FirstDay <= lo /\ hi <= LastDay
      BY <1>1, DayIs
    <3>2. next \in Int /\ lo <= next /\ next <= hi
      BY <1>1, <1>3, <2>1, <2>2
    <3> QED  BY <1>1, <2>2, <3>1, <3>2, DayIs
  <2>5. s1 = SinglesDay(s, next, ar, value)
    BY <1>4, <2>2, <2>4
  <2>6. value \in Int
    BY <2>2
  <2>7. Handled(lo, ars, i + 1) = IF ar = "none" THEN T ELSE T \cup {next}
    <3>1. {k \in 1 .. i + 1 : ars[k] # "none"} =
            {k \in 1 .. i : ars[k] # "none"} \cup (IF ar = "none" THEN {} ELSE {i + 1})
      <4>1. 1 .. i + 1 = (1 .. i) \cup {i + 1}
        BY <2>2
      <4> QED  BY <4>1
    <3> QED  BY <2>4, <3>1 DEF Handled
  <2> HIDE DEF T, next, s, s1, ar, value
  <2>8. CASE ar = "none"
    <3>1. SinglesInv(w, span, T, next + 1, s1)
      BY <2>3, <2>4, <2>5, <2>8, SinglesNone
    <3> QED  BY <2>4, <2>7, <2>8, <3>1 DEF s1
  <2>9. CASE ar # "none"
    <3>1. SinglesInv(w, span, T \cup {next}, next + 1, s1)
      BY <2>3, <2>4, <2>5, <2>6, <2>9, SinglesHandled
    <3> QED  BY <2>4, <2>7, <2>9, <3>1 DEF s1
  <2> QED  BY <2>8, <2>9
<1>7. n \in S
  <2> HIDE DEF S
  <2>1. S \in SUBSET Nat
    BY DEF S
  <2> QED  BY <1>3, <1>5, <1>6, <2>1, AllNumbers
<1> QED  BY <1>3, <1>7

LEMMA SinglesIs ==
  ASSUME NEW w, WorkOK(w), NEW span, SpanOK(span), NEW lo \in Days, NEW hi \in Days, lo <= hi,
         NEW newCorr \in [1 .. hi - lo + 1 -> Int], NEW ars, Len(ars) = hi - lo + 1,
         NEW v, v = Singles(w, lo, span, newCorr, ars),
         NEW days, days = Handled(lo, ars, hi - lo + 1)
  PROVE  /\ Follows(w, v)
         /\ KeepsMarks(w, v, days) /\ KeepsParts(w, v, days) /\ KeepsEdges(w, v, days)
         /\ MarksCut(w, v, span, days)
<1> DEFINE s == SinglesLoop(w, lo, span, newCorr, ars)[hi - lo + 1]
           from == IF s.single THEN hi + 1 ELSE s.from
<1>1. SinglesInv(w, span, days, hi + 1, s)
  BY SinglesAll
<1>2. v = IF s.acc THEN MarkPreviousAccumulation(s.da, from, span[2], FALSE) ELSE s.da
  <2>1. lo + Len(ars) = hi + 1
    BY DayIs
  <2> QED  BY <2>1 DEF Singles
<1> HIDE DEF s
<1>3. /\ s.acc \in BOOLEAN /\ WorkOK(s.da) /\ Follows(w, s.da)
      /\ days \subseteq Days /\ \A t \in days : t < hi + 1
      /\ \A k \in Days \ days : Spared(w, s.da, k)
      /\ s.single <=> (hi + 1) - 1 \in days
      /\ ~ s.single => FromIs(span, days, s.from)
      /\ s.acc <=> LastUnended(w, days)
      /\ PassedMarked(w, s.da, span, days)
  BY <1>1 DEF SinglesInv
<1>4. /\ hi \in Int /\ lo \in Int /\ days \subseteq Int /\ Days \subseteq Int
      /\ FirstDay \in Int /\ LastDay \in Int /\ FirstDay <= hi
      /\ span[1] \in Int /\ span[2] \in Int /\ FirstDay <= span[1] /\ span[2] <= LastDay
      /\ span[1] .. span[2] \subseteq Days
  <2>1. /\ hi \in Int /\ lo \in Int /\ Days \subseteq Int /\ FirstDay \in Int /\ LastDay \in Int
        /\ FirstDay <= hi
    BY DayIs
  <2>2. span[1] \in Int /\ span[2] \in Int /\ FirstDay <= span[1] /\ span[2] <= LastDay
    BY DEF SpanOK
  <2>3. span[1] .. span[2] \subseteq Days
    BY <2>1, <2>2, DayIs
  <2>4. days \subseteq Int
    BY <1>3, <2>1
  <2> QED  BY <2>1, <2>2, <2>3, <2>4
<1>5. from \in Int /\ FirstDay <= from /\ from .. span[2] \subseteq Days
  <2>1. from \in Int /\ FirstDay <= from
    BY <1>3, <1>4 DEF FromIs
  <2> HIDE DEF from
  <2> QED  BY <1>4, <2>1, DayIs
<1>6. /\ Follows(s.da, v) /\ WorkOK(v) /\ \A k \in Days : Spared(s.da, v, k)
      /\ s.acc => \A k : RestAfter(s.da, from, span[2], k) => HasMark(v, k)
  <2>1. CASE s.acc
    <3> DEFINE x == s.da
               b == span[2]
    <3>1. WorkOK(x) /\ b \in Int /\ AreDays(from, b)
          /\ v = MarkPreviousAccumulation(x, from, b, FALSE)
      BY <1>2, <1>3, <1>4, <1>5, <2>1 DEF AreDays
    <3> HIDE DEF x, b, from
    <3>2. MarkedTo(x, v, b) /\ \A k : RestAfter(x, from, b, k) => HasMark(v, k)
      BY <3>1, MarkedToAfter
    <3> QED  BY <3>2 DEF MarkedTo, x, b
  <2>2. CASE ~ s.acc
    BY <1>2, <1>3, <2>2, FollowsItself DEF Spared
  <2> QED  BY <2>1, <2>2
<1>7. Follows(w, v)
  BY <1>3, <1>6, FollowsOn
<1>8. \A k \in Days \ days : Spared(w, v, k)
  BY <1>3, <1>6, MarkAfter
<1>9. KeepsMarks(w, v, days) /\ KeepsParts(w, v, days) /\ KeepsEdges(w, v, days)
  BY <1>6, <1>8, SparedKeeps
<1>10. MarksCut(w, v, span, days)
  <2>1. SUFFICES ASSUME NEW d \in (span[1] .. span[2]) \ days, Cut(w, d, days) PROVE HasMark(v, d)
    BY DEF MarksCut
  <2>2. d \in Int /\ d \in Days /\ d <= span[2] /\ span[1] <= d
    BY <1>4
  <2>3. HasMark(s.da, d) => HasMark(v, d)
    BY <1>6, <2>2, SparedMark
  <2>4. PICK e \in days : CutBefore(w, d, e) \/ CutAfter(w, d, e)
    BY <2>1 DEF Cut, CutBefore, CutAfter
  <2>5. CASE CutBefore(w, d, e) \/ \E t \in days : d < t
    BY <1>3, <2>3, <2>4, <2>5 DEF PassedMarked
  <2>6. CASE CutAfter(w, d, e) /\ \A t \in days : ~ d < t
    <3>1. e < d /\ Here(w, d) /\ Acc(w, d) # NO /\ \A k \in e .. d - 1 : Unended(w, k)
      BY <2>6 DEF CutAfter
    <3>2. /\ from \in Int /\ from - 1 \in days /\ \A t \in days : t < from
      <4>1. CASE s.single
        BY <1>3, <1>4, <4>1
      <4>2. CASE ~ s.single
        BY <1>3, <4>2 DEF FromIs
      <4> QED  BY <4>1, <4>2
    <3> HIDE DEF from
    <3>3. from <= d /\ from - 1 \in e .. d - 1
      <4>1. from - 1 <= d /\ from - 1 # d /\ e < from
        BY <1>4, <2>1, <2>2, <2>4, <2>6, <3>2
      <4> QED  BY <1>4, <2>2, <2>4, <3>2, <4>1
    <3>4. s.acc
      <4>1. Unended(w, from - 1)
        BY <3>1, <3>3
      <4>2. \A u \in days : u <= from - 1
        BY <1>4, <3>2
      <4> QED  BY <1>3, <3>2, <4>1, <4>2 DEF LastUnended
    <3>5. ASSUME NEW k \in from .. d - 1 PROVE Through(s.da, k)
      <4>1. k \in Days
        BY <1>4, <1>5, <2>2, <3>2, DayIs
      <4>2. k \notin days
        BY <1>4, <3>2
      <4>3. k \in e .. d - 1
        BY <1>4, <2>2, <3>2, <3>3
      <4>4. Unended(w, k) /\ Spared(w, s.da, k)
        BY <1>3, <3>1, <4>1, <4>2, <4>3
      <4>5. Unended(s.da, k)
        BY <4>4, SparedFlags
      <4> QED  BY <4>5 DEF Unended, Through, Stops
    <3>6. d \in from .. span[2]
      BY <1>4, <2>2, <3>2, <3>3
    <3>7. Here(s.da, d) /\ Acc(s.da, d) # NO
      <4>1. Spared(w, s.da, d)
        BY <1>3, <2>1, <2>2
      <4> QED  BY <3>1, <4>1, SparedFlags
    <3>8. RestAfter(s.da, from, span[2], d)
      BY <3>5, <3>6, <3>7 DEF RestAfter
    <3> QED  BY <1>6, <3>4, <3>8
  <2> QED  BY <2>4, <2>5, <2>6
<1> QED  BY <1>7, <1>9, <1>10

-----------------------------------------------------------------------------
(* The editable span: within the card, and without the accumulations at    *)
(* its ends.                                                               *)
LEMMA MinIs ==
  ASSUME NEW lo \in Int, NEW D \in SUBSET Int, D # {}, \A d \in D : lo <= d
  PROVE  Min(D) \in D /\ \A d \in D : Min(D) <= d
<1>1. \E m \in D : \A d \in D : m <= d
  BY FirstOf
<1> QED  BY <1>1 DEF Min
LEMMA MaxIs ==
  ASSUME NEW hi \in Int, NEW D \in SUBSET Int, D # {}, \A d \in D : d <= hi
  PROVE  Max(D) \in D /\ \A d \in D : d <= Max(D)
<1>1. \E m \in D : \A d \in D : d <= m
  BY LastOf
<1>2. \E m \in D : \A d \in D : m >= d
  BY <1>1
<1>3. Max(D) \in D /\ \A d \in D : Max(D) >= d
  BY <1>2 DEF Max
<1> QED  BY <1>3

LEMMA SpanIs ==
  ASSUME NEW w, NEW span, span = EditableSpan(w, FirstDay, LastDay)
  PROVE  /\ SpanOK(span) /\ span \in Int \X Int
         /\ \A d \in Days : AtEdge(w, d) => d \notin span[1] .. span[2]
<1> DEFINE first == {d \in FirstDay .. LastDay : Stops(w, d)}
           d0 == Min(first)
           tS == IF first = {} THEN LastDay + 1 ELSE IF Acc(w, d0) = NO THEN d0 ELSE d0 + 1
           last == {d \in tS .. LastDay : Stops(w, d)}
           tE == IF last = {} THEN tS - 1 ELSE Max(last)
<1>1. span = << tS, tE >>
  BY DEF EditableSpan
<1>2. FirstDay \in Int /\ LastDay \in Int /\ FirstDay <= LastDay
  BY DayAssumption
<1>3. first # {} => d0 \in first /\ \A d \in first : d0 <= d
  <2>1. first \in SUBSET Int /\ \A d \in first : FirstDay <= d
    BY <1>2
  <2> HIDE DEF first
  <2> QED  BY <1>2, <2>1, MinIs
<1>4. first # {} => d0 \in Int /\ FirstDay <= d0 /\ d0 <= LastDay
  <2>1. \A d \in first : d \in Int /\ FirstDay <= d /\ d <= LastDay
    BY <1>2
  <2> HIDE DEF first, d0
  <2> QED  BY <1>3, <2>1
<1>5. tS \in Int /\ FirstDay <= tS
  <2> HIDE DEF first, d0
  <2> QED  BY <1>2, <1>4
<1>6. last # {} => tE \in last /\ \A d \in last : d <= tE
  <2>1. last \in SUBSET Int /\ \A d \in last : d <= LastDay
    BY <1>2
  <2> HIDE DEF last
  <2> QED  BY <1>2, <2>1, MaxIs
<1>7. tE \in Int /\ tE <= LastDay
  <2>1. CASE last = {}
    <3>1. tS <= LastDay + 1
      <4> HIDE DEF first, d0
      <4> QED  BY <1>2, <1>4
    <3> QED  BY <1>2, <1>5, <2>1, <3>1
  <2>2. CASE last # {}
    <3>1. \A d \in last : d \in Int /\ d <= LastDay
      BY <1>2, <1>5
    <3> QED  BY <1>6, <2>2, <3>1
  <2> QED  BY <2>1, <2>2
<1>8. ASSUME NEW d \in Days, AtEdge(w, d) PROVE d \notin tS .. tE
  <2>1. /\ d \in Int /\ FirstDay <= d /\ d <= LastDay
    BY DayIs
  <2>2. /\ Here(w, d) /\ Acc(w, d) # NO
        /\ \/ \A k \in FirstDay .. d - 1 : ~ Stops(w, k)
           \/ \A k \in d .. LastDay : ~ Stops(w, k)
    BY <1>8 DEF AtEdge, Through, Stops
  <2>3. CASE \A k \in FirstDay .. d - 1 : ~ Stops(w, k)
    <3>1. first # {} => d <= d0
      <4>1. ASSUME first # {}, d0 < d PROVE FALSE
        <5>1. d0 \in FirstDay .. d - 1 /\ Stops(w, d0)
          BY <1>2, <1>3, <1>4, <2>1, <4>1
        <5> QED  BY <2>3, <5>1
      <4> QED  BY <1>4, <2>1, <4>1
    <3>2. d < tS
      <4> HIDE DEF first, d0
      <4> QED  BY <1>2, <1>4, <2>1, <2>2, <3>1
    <3> HIDE DEF tS, tE
    <3> QED  BY <1>5, <1>7, <2>1, <3>2
  <2>4. CASE \A k \in d .. LastDay : ~ Stops(w, k)
    <3>1. CASE last = {}
      <4>1. tE = tS - 1
        BY <3>1
      <4> HIDE DEF tS, tE
      <4> QED  BY <1>5, <1>7, <2>1, <4>1
    <3>2. CASE last # {}
      <4>1. tE \in last
        BY <1>6, <3>2
      <4>2. Stops(w, tE) /\ tE <= LastDay /\ tE \in Int
        BY <1>7, <4>1
      <4> HIDE DEF tS, tE
      <4> QED  BY <1>2, <1>5, <2>1, <2>4, <4>2
    <3> QED  BY <3>1, <3>2
  <2> QED  BY <2>2, <2>3, <2>4
<1> HIDE DEF tS, tE
<1> QED  BY <1>1, <1>5, <1>7, <1>8 DEF SpanOK
-----------------------------------------------------------------------------
(* One version list, as in EditAccessProofs: what the operations of        *)
(* EditVersions do to a list that shows its last entry not younger than a  *)
(* given version.                                                          *)
LEMMA EntryIs ==
  /\ NoObs \notin Tasked /\ MissingObs \in Tasked /\ EV!Data = Shown
  /\ MissingObs # NoObs /\ MissingObs.tasks = {} /\ MissingObs.ci = MissingControl
<1>1. << RR_24, FirstDay >> \in Cells
  BY CardAssumption, DayAssumption DEF Cells, Days
<1>2. NoObs \in Shown
  BY DEF Shown
<1> DEFINE u == CreateUpdate(<< RR_24, FirstDay >>, NoObs)
<1>3. u \in Update /\ u.tasks = {} /\ u.ci = MissingControl
  BY <1>1, <1>2, CreateIs
<1>4. MissingObs = DataOf(u)
  BY DEF MissingObs
<1> HIDE DEF u
<1>5. MissingObs \in Tasked /\ MissingObs # NoObs /\ MissingObs.tasks = u.tasks /\ MissingObs.ci = u.ci
  BY <1>3, <1>4, DataIs
<1> QED  BY <1>3, <1>5, CardAssumption DEF EV!Data, Shown

(* An entry that is not what the backend holds. *)
IsEdit(e) == e.version > 0 /\ e.data \in Tasked

(* A version list when the EditAccess is at version n and redo can reach   *)
(* version high: PointerMatches for one list, with its type; below the     *)
(* first entry there are edits only.                                       *)
ListOK(ev, n, high) ==
  /\ ev \in EV!VersionList
  /\ ev.current \in 1 .. Len(ev.versions)
  /\ ev.versions[1].version = 0
  /\ \A i, k \in 1 .. Len(ev.versions) :
       i < k => ev.versions[i].version <= ev.versions[k].version
  /\ \A i \in 1 .. Len(ev.versions) :
       ev.versions[i].version <= n <=> i <= ev.current
  /\ \A i \in 1 .. Len(ev.versions) : ev.versions[i].version <= high
  /\ \A i \in 1 .. Len(ev.versions) : i > 1 => IsEdit(ev.versions[i])

(* What the fields of a version list are. *)
LEMMA ListTypes ==
  ASSUME NEW ev, NEW n, NEW high, ListOK(ev, n, high)
  PROVE  /\ ev.versions \in Seq(EV!Version) /\ Len(ev.versions) \in Nat
         /\ ev.current \in Nat
         /\ DOMAIN ev.versions = 1 .. Len(ev.versions)
         /\ \A i \in 1 .. Len(ev.versions) :
              /\ ev.versions[i] \in EV!Version
              /\ ev.versions[i].version \in Nat /\ ev.versions[i].data \in EV!Data
         /\ EV!CurrentVersion(ev) \in Nat
         /\ ev = [versions |-> ev.versions, current |-> ev.current]
<1>1. ev.versions \in Seq(EV!Version) /\ ev.current \in Nat
  BY DEF ListOK, EV!VersionList
<1>2. Len(ev.versions) \in Nat /\ DOMAIN ev.versions = 1 .. Len(ev.versions)
  BY <1>1, LenProperties
<1>3. ASSUME NEW i \in 1 .. Len(ev.versions)
      PROVE  /\ ev.versions[i] \in EV!Version
             /\ ev.versions[i].version \in Nat /\ ev.versions[i].data \in EV!Data
  <2>1. ev.versions[i] \in EV!Version
    BY <1>1, ElementOfSeq
  <2> QED  BY <2>1 DEF EV!Version
<1>4. EV!CurrentVersion(ev) \in Nat
  BY <1>3 DEF ListOK, EV!CurrentVersion
<1>5. ev = [versions |-> ev.versions, current |-> ev.current]
  BY DEF ListOK, EV!VersionList
<1> QED  BY <1>1, <1>2, <1>3, <1>4, <1>5

(* How a list is shown to be well formed. *)
LEMMA ListIntro ==
  ASSUME NEW vs \in Seq(EV!Version), NEW c \in 1 .. Len(vs), NEW n, NEW high,
         vs[1].version = 0,
         \A i, k \in 1 .. Len(vs) : i < k => vs[i].version <= vs[k].version,
         \A i \in 1 .. Len(vs) : vs[i].version <= n <=> i <= c,
         \A i \in 1 .. Len(vs) : vs[i].version <= high,
         \A i \in 1 .. Len(vs) : i > 1 => IsEdit(vs[i])
  PROVE  /\ ListOK([versions |-> vs, current |-> c], n, high)
         /\ EV!CurrentVersion([versions |-> vs, current |-> c]) = vs[c].version
<1> DEFINE r == [versions |-> vs, current |-> c]
<1>1. r.versions = vs /\ r.current = c
  OBVIOUS
<1>2. r \in EV!VersionList
  <2>1. Len(vs) \in Nat
    BY LenProperties
  <2> QED  BY <2>1 DEF EV!VersionList
<1> HIDE DEF r
<1>3. ListOK(r, n, high) /\ EV!CurrentVersion(r) = vs[c].version
  BY <1>1, <1>2 DEF ListOK, EV!CurrentVersion
<1> QED  BY <1>3 DEF r

(* A non-empty set of positions has a last one. *)
LEMMA LastPosition ==
  ASSUME NEW n \in Nat, NEW S, S \subseteq 1 .. n, S # {}
  PROVE  \E m \in S : \A k \in S : k <= m
<1>1. n \in Int /\ S \in SUBSET Int /\ \A k \in S : k <= n
  OBVIOUS
<1> QED  BY <1>1, LastOf

(* The constructor makes a list that shows the first edit. *)
LEMMA NewVersionsOK ==
  ASSUME NEW b \in EV!Data, NEW n \in Nat \ {0}, NEW d \in Tasked
  PROVE  /\ ListOK(EV!NewVersions(b, n, d), n, n)
         /\ EV!CurrentVersion(EV!NewVersions(b, n, d)) = n
         /\ EV!CurrentData(EV!NewVersions(b, n, d)) = d
         /\ EV!BackendData(EV!NewVersions(b, n, d)) = b
<1> DEFINE vs == << [version |-> 0, data |-> b], [version |-> n, data |-> d] >>
<1>1. vs \in Seq(EV!Version) /\ Len(vs) = 2
  BY DEF EV!Version, EV!Data
<1>2. EV!NewVersions(b, n, d) = [versions |-> vs, current |-> 2]
  BY DEF EV!NewVersions
<1>3. /\ vs[1].version = 0 /\ vs[1].data = b
      /\ vs[2].version = n /\ vs[2].data = d
  OBVIOUS
<1> HIDE DEF vs
<1>4. \A i \in 1 .. 2 : i = 1 \/ i = 2
  OBVIOUS
<1>5. \A i \in 1 .. 2 : vs[i].version <= n
  BY <1>3, <1>4
<1>6. \A i, k \in 1 .. 2 : i < k => vs[i].version <= vs[k].version
  BY <1>3, <1>4
<1>7. /\ ListOK([versions |-> vs, current |-> 2], n, n)
      /\ EV!CurrentVersion([versions |-> vs, current |-> 2]) = vs[2].version
  <2>1. /\ 2 \in 1 .. Len(vs)
        /\ \A i \in 1 .. Len(vs) : vs[i].version <= n <=> i <= 2
        /\ \A i \in 1 .. Len(vs) : vs[i].version <= n
    BY <1>1, <1>5
  <2>2. \A i, k \in 1 .. Len(vs) : i < k => vs[i].version <= vs[k].version
    BY <1>1, <1>6
  <2>3. \A i \in 1 .. Len(vs) : i > 1 => IsEdit(vs[i])
    BY <1>1, <1>3, <1>4 DEF IsEdit
  <2> QED  BY <1>1, <1>3, <2>1, <2>2, <2>3, ListIntro
<1>8. d # NoObs
  BY EntryIs
<1> QED  BY <1>2, <1>3, <1>7, <1>8 DEF EV!CurrentData, EV!BackendData

(* addVersion on a list at version n forgets what redo could reach and     *)
(* shows the new entry.                                                    *)
LEMMA AddVersionOK ==
  ASSUME NEW n \in Nat \ {0}, NEW high, NEW ev, ListOK(ev, n, high), NEW d \in Tasked
  PROVE  LET added == EV!AddVersion(ev, n, d)
         IN  /\ ListOK(added, n, n) /\ EV!CurrentVersion(added) = n
             /\ EV!CurrentData(added) = d /\ EV!BackendData(added) = EV!BackendData(ev)
             /\ Len(added.versions) = ev.current + 1
             /\ \A i \in 1 .. ev.current : added.versions[i] = ev.versions[i]
             /\ added.versions[ev.current + 1].version = n
             /\ added.versions[ev.current + 1].data = d
<1> DEFINE e == [version |-> n, data |-> d]
           c == ev.current
           kept == SubSeq(ev.versions, 1, c)
           vs == Append(kept, e)
<1>1. /\ c \in 1 .. Len(ev.versions) /\ Len(ev.versions) \in Nat
      /\ \A i \in 1 .. Len(ev.versions) : ev.versions[i] \in EV!Version
  BY ListTypes DEF ListOK
<1>2. n >= EV!CurrentVersion(ev)
  BY <1>1, ListTypes DEF ListOK, EV!CurrentVersion
<1>3. EV!AddVersion(ev, n, d) = [versions |-> vs, current |-> Len(kept) + 1]
  BY <1>2 DEF EV!AddVersion
<1>4. /\ kept \in Seq(EV!Version) /\ Len(kept) = c
      /\ \A i \in 1 .. c : kept[i] = ev.versions[i]
  BY <1>1, SubSeqProperties, \A i \in 1 .. c : ev.versions[i] \in EV!Version
<1>5. /\ vs \in Seq(EV!Version) /\ Len(vs) = c + 1
      /\ \A i \in 1 .. c : vs[i] = ev.versions[i]
      /\ vs[c + 1] = e
  <2>1. e \in EV!Version
    BY DEF EV!Version, EV!Data
  <2> QED  BY <1>1, <1>4, <2>1, AppendProperties
<1> HIDE DEF vs, kept
<1>6. ASSUME NEW i \in 1 .. c
      PROVE  vs[i].version \in Nat /\ vs[i].version <= n
  <2>1. i \in 1 .. Len(ev.versions) /\ i <= ev.current
    BY <1>1
  <2>2. vs[i] = ev.versions[i]
    BY <1>5
  <2>3. ev.versions[i].version \in Nat
    BY <2>1, ListTypes
  <2>4. ev.versions[i].version <= n
    BY <2>1 DEF ListOK
  <2> QED  BY <2>2, <2>3, <2>4
<1>7. ASSUME NEW i \in 1 .. c, NEW k \in 1 .. c, i < k
      PROVE  vs[i].version <= vs[k].version
  <2>1. i \in 1 .. Len(ev.versions) /\ k \in 1 .. Len(ev.versions)
    BY <1>1
  <2>2. ev.versions[i].version <= ev.versions[k].version
    BY <1>7, <2>1 DEF ListOK
  <2> QED  BY <1>5, <2>2
<1>8. vs[1].version = 0 /\ vs[c + 1].version = n
  <2>1. 1 \in 1 .. c /\ ev.versions[1].version = 0
    BY <1>1 DEF ListOK
  <2>2. vs[1] = ev.versions[1] /\ vs[c + 1].version = n
    BY <1>5, <2>1
  <2> QED  BY <2>1, <2>2
<1>9. ASSUME NEW i \in 1 .. c + 1, NEW k \in 1 .. c + 1, i < k
      PROVE  vs[i].version <= vs[k].version
  <2>1. i \in 1 .. c
    BY <1>1, <1>9
  <2>2. CASE k \in 1 .. c
    BY <1>7, <1>9, <2>1, <2>2
  <2>3. CASE k = c + 1
    BY <1>6, <1>8, <2>1, <2>3
  <2> QED  BY <1>1, <2>2, <2>3
<1>10. \A i \in 1 .. c + 1 : vs[i].version <= n
  BY <1>1, <1>6, <1>8
<1>11. /\ ListOK([versions |-> vs, current |-> c + 1], n, n)
       /\ EV!CurrentVersion([versions |-> vs, current |-> c + 1]) = vs[c + 1].version
  <2>1. /\ c + 1 \in 1 .. Len(vs)
        /\ \A i \in 1 .. Len(vs) : vs[i].version <= n <=> i <= c + 1
        /\ \A i \in 1 .. Len(vs) : vs[i].version <= n
    BY <1>1, <1>5, <1>10
  <2>2. \A i, k \in 1 .. Len(vs) : i < k => vs[i].version <= vs[k].version
    BY <1>5, <1>9
  <2>3. ASSUME NEW i \in 1 .. Len(vs), i > 1 PROVE IsEdit(vs[i])
    <3>1. CASE i = c + 1
      BY <1>5, <3>1 DEF IsEdit
    <3>2. CASE i # c + 1
      <4>1. i \in 1 .. c /\ i \in 1 .. Len(ev.versions)
        BY <1>1, <1>5, <3>2
      <4>2. IsEdit(ev.versions[i])
        BY <2>3, <4>1 DEF ListOK
      <4> QED  BY <1>5, <4>1, <4>2
    <3> QED  BY <3>1, <3>2
  <2> HIDE DEF c
  <2> QED  BY <1>5, <1>8, <2>1, <2>2, <2>3, ListIntro
<1>12. EV!CurrentData([versions |-> vs, current |-> c + 1]) = d
  BY <1>5, EntryIs DEF EV!CurrentData
<1>13. EV!BackendData([versions |-> vs, current |-> c + 1]) = EV!BackendData(ev)
  BY <1>1, <1>5 DEF EV!BackendData
<1> QED  BY <1>3, <1>4, <1>5, <1>8, <1>11, <1>12, <1>13

(* setVersion, to a version below or above the one of the list, shows the  *)
(* last entry that is not younger than the version.                        *)
LEMMA SetVersionOK ==
  ASSUME NEW n \in Nat, NEW m \in Nat, NEW high, NEW ev, ListOK(ev, n, high)
  PROVE  /\ ListOK(EV!SetVersion(ev, m), m, high)
         /\ EV!SetVersion(ev, m).versions = ev.versions
<1> DEFINE vs == ev.versions
           c == ev.current
           L == Len(ev.versions)
           r == EV!SetVersion(ev, m).current
<1>1. /\ L \in Nat /\ c \in 1 .. L /\ vs \in Seq(EV!Version)
      /\ \A i \in 1 .. L : vs[i].version \in Nat
      /\ vs[1].version = 0 /\ EV!CurrentVersion(ev) = vs[c].version
  BY ListTypes DEF ListOK, EV!CurrentVersion
<1>2. ASSUME NEW i \in 1 .. L, NEW k \in 1 .. L, i <= k
      PROVE  vs[i].version <= vs[k].version
  <2>1. CASE i = k
    BY <1>1, <2>1
  <2>2. CASE i < k
    BY <2>2 DEF ListOK
  <2> QED  BY <1>2, <2>1, <2>2
<1>3. EV!SetVersion(ev, m) = [versions |-> vs, current |-> r]
  BY ListTypes DEF EV!SetVersion
<1> HIDE DEF vs, c, L
<1>4. r \in 1 .. L /\ \A i \in 1 .. L : vs[i].version <= m <=> i <= r
  <2>1. CASE m < vs[c].version
    <3> DEFINE S == {i \in 1 .. c : vs[i].version <= m}
               OK(i) == /\ i = 1 \/ vs[i].version <= m
                        /\ \A k \in (i + 1) .. c : vs[k].version > m
    <3>1. r = CHOOSE i \in 1 .. c : OK(i)
      <4>1. r = EV!StepBack(ev, m)
        BY <1>1, <2>1, ListTypes DEF EV!SetVersion
      <4>2. EV!StepBack(ev, m) = CHOOSE i \in 1 .. c : OK(i)
        BY DEF EV!StepBack, vs, c
      <4> QED  BY <4>1, <4>2
    <3>2. 1 \in S
      BY <1>1
    <3>3. PICK p \in S : \A k \in S : k <= p
      <4>1. c \in Nat /\ S \subseteq 1 .. c /\ S # {}
        BY <1>1, <3>2
      <4> HIDE DEF S
      <4> QED  BY <4>1, LastPosition
    <3>4. p \in 1 .. c /\ OK(p)
      <4>1. ASSUME NEW k \in (p + 1) .. c PROVE vs[k].version > m
        <5>1. k \in 1 .. c /\ k \notin S
          BY <1>1, <3>3
        <5>2. vs[k].version \in Nat /\ ~ (vs[k].version <= m)
          BY <1>1, <5>1
        <5> QED  BY <5>2
      <4> QED  BY <3>3, <4>1
    <3>5. r \in 1 .. c /\ OK(r)
      <4> HIDE DEF OK, r
      <4> QED  BY <3>1, <3>4
    <3> HIDE DEF r
    <3>6. vs[r].version <= m
      BY <1>1, <3>5
    <3>7. ASSUME NEW i \in 1 .. L, i <= r PROVE vs[i].version <= m
      <4>1. r \in 1 .. L /\ vs[i].version \in Nat /\ vs[r].version \in Nat
        BY <1>1, <3>5
      <4>2. vs[i].version <= vs[r].version
        BY <1>2, <3>7, <4>1
      <4> QED  BY <3>6, <4>1, <4>2
    <3>8. ASSUME NEW i \in 1 .. L, r < i PROVE vs[i].version > m
      <4>1. CASE i <= c
        <5>1. i \in (r + 1) .. c
          BY <1>1, <3>5, <3>8, <4>1
        <5> QED  BY <3>5, <5>1
      <4>2. CASE c < i
        <5>1. vs[c].version <= vs[i].version
          BY <1>1, <1>2, <4>2
        <5> QED  BY <1>1, <2>1, <5>1
      <4> QED  BY <1>1, <4>1, <4>2
    <3> QED  BY <1>1, <3>5, <3>7, <3>8
  <2>2. CASE ~ (m < vs[c].version)
    <3> DEFINE S == {i \in 1 .. L : vs[i].version <= m}
               OK(i) == /\ i = L \/ vs[i + 1].version > m
                        /\ \A k \in (c + 1) .. i : vs[k].version <= m
    <3>1. r = CHOOSE i \in c .. L : OK(i)
      <4>1. r = EV!StepForward(ev, m)
        BY <1>1, <2>2, ListTypes DEF EV!SetVersion
      <4>2. EV!StepForward(ev, m) = CHOOSE i \in c .. L : OK(i)
        BY DEF EV!StepForward, vs, c, L
      <4> QED  BY <4>1, <4>2
    <3>2. c \in S
      BY <1>1, <2>2
    <3>3. PICK p \in S : \A k \in S : k <= p
      <4>1. S \subseteq 1 .. L /\ S # {}
        BY <3>2
      <4> HIDE DEF S
      <4> QED  BY <1>1, <4>1, LastPosition
    <3>4. p \in c .. L /\ OK(p)
      <4>1. ASSUME NEW k \in (c + 1) .. p PROVE vs[k].version <= m
        <5>1. k \in 1 .. L /\ k <= p /\ p \in 1 .. L /\ vs[p].version <= m
          BY <1>1, <3>3
        <5>2. vs[k].version <= vs[p].version
          BY <1>2, <5>1
        <5> QED  BY <1>1, <5>1, <5>2
      <4>2. CASE p # L
        <5>1. p + 1 \in 1 .. L /\ p + 1 \notin S
          BY <1>1, <3>3, <4>2
        <5>2. vs[p + 1].version > m
          BY <1>1, <5>1
        <5> QED  BY <1>1, <3>2, <3>3, <4>1, <5>2
      <4>3. CASE p = L
        BY <1>1, <3>2, <3>3, <4>1, <4>3
      <4> QED  BY <4>2, <4>3
    <3>5. r \in c .. L /\ OK(r)
      <4> HIDE DEF OK, r
      <4> QED  BY <3>1, <3>4
    <3> HIDE DEF r
    <3>6. ASSUME NEW i \in 1 .. L, i <= r PROVE vs[i].version <= m
      <4>1. CASE i <= c
        <5>1. vs[i].version <= vs[c].version
          BY <1>1, <1>2, <4>1
        <5> QED  BY <1>1, <2>2, <5>1
      <4>2. CASE c < i
        <5>1. i \in (c + 1) .. r
          BY <1>1, <3>5, <3>6, <4>2
        <5> QED  BY <3>5, <5>1
      <4> QED  BY <1>1, <4>1, <4>2
    <3>7. ASSUME NEW i \in 1 .. L, r < i PROVE vs[i].version > m
      <4>1. r + 1 \in 1 .. L /\ vs[r + 1].version > m /\ r + 1 <= i
        BY <1>1, <3>5, <3>7
      <4>2. vs[r + 1].version <= vs[i].version
        BY <1>2, <4>1
      <4> QED  BY <1>1, <4>1, <4>2
    <3> QED  BY <1>1, <3>5, <3>6, <3>7
  <2> QED  BY <2>1, <2>2
<1>5. \A i, k \in 1 .. L : i < k => vs[i].version <= vs[k].version
  BY <1>1, <1>2
<1>6. \A i \in 1 .. L : vs[i].version <= high /\ (i > 1 => IsEdit(vs[i]))
  BY DEF ListOK, vs, L
<1> HIDE DEF r
<1>7. ListOK([versions |-> vs, current |-> r], m, high)
  <2>1. L = Len(vs)
    BY DEF L, vs
  <2> QED  BY <1>1, <1>4, <1>5, <1>6, <2>1, ListIntro
<1> QED  BY <1>3, <1>7 DEF vs

(* dropVersionsFrom for the version after the one of the list cuts off     *)
(* exactly what redo could have reached.                                   *)
LEMMA DropVersionsFromOK ==
  ASSUME NEW n \in Nat, NEW high, NEW ev, ListOK(ev, n, high)
  PROVE  LET left == EV!DropVersionsFrom(ev, n + 1)
         IN  /\ ListOK(left, n + 1, n + 1) /\ EV!CurrentVersion(left) = EV!CurrentVersion(ev)
             /\ EV!CurrentData(left) = EV!CurrentData(ev) /\ EV!BackendData(left) = EV!BackendData(ev)
             /\ Len(left.versions) = ev.current
             /\ \A i \in 1 .. ev.current : left.versions[i] = ev.versions[i]
<1> DEFINE c == ev.current
           L == Len(ev.versions)
           kept == SubSeq(ev.versions, 1, c)
           OK(p) == /\ p = L \/ ev.versions[p + 1].version >= n + 1
                    /\ \A k \in 1 .. p : ev.versions[k].version < n + 1
<1>1. /\ L \in Nat /\ c \in 1 .. L
      /\ \A i \in 1 .. L : /\ ev.versions[i].version \in Nat
                           /\ ev.versions[i] \in EV!Version
                           /\ ev.versions[i].version <= n <=> i <= c
      /\ ev.versions[1].version = 0 /\ EV!CurrentVersion(ev) = ev.versions[c].version
  BY ListTypes DEF ListOK, EV!CurrentVersion
<1>2. EV!KeptBelow(ev, n + 1) = c
  <2>1. EV!KeptBelow(ev, n + 1) = CHOOSE p \in 0 .. L : OK(p)
    BY DEF EV!KeptBelow
  <2>2. c \in 0 .. L /\ OK(c)
    <3>1. \A k \in 1 .. c : ev.versions[k].version < n + 1
      BY <1>1
    <3>2. CASE c # L
      <4>1. c + 1 \in 1 .. L
        BY <1>1, <3>2
      <4>2. ev.versions[c + 1].version \in Nat /\ ~ (ev.versions[c + 1].version <= n)
        BY <1>1, <4>1
      <4> QED  BY <1>1, <3>1, <4>2
    <3> QED  BY <1>1, <3>1, <3>2
  <2>3. ASSUME NEW p \in 0 .. L, OK(p) PROVE p = c
    <3>1. CASE p < c
      <4>1. p + 1 \in 1 .. L /\ p + 1 <= c /\ p # L
        BY <1>1, <3>1
      <4>2. ev.versions[p + 1].version <= n /\ ev.versions[p + 1].version >= n + 1
        BY <1>1, <2>3, <4>1
      <4> QED  BY <1>1, <4>1, <4>2
    <3>2. CASE c < p
      <4>1. c + 1 \in 1 .. p /\ c + 1 \in 1 .. L
        BY <1>1, <3>2
      <4>2. ev.versions[c + 1].version < n + 1 /\ ~ (ev.versions[c + 1].version <= n)
        BY <1>1, <2>3, <4>1
      <4> QED  BY <1>1, <4>1, <4>2
    <3> QED  BY <1>1, <3>1, <3>2
  <2> HIDE DEF OK
  <2> QED  BY <2>1, <2>2, <2>3
<1>3. EV!DropVersionsFrom(ev, n + 1) = [versions |-> kept, current |-> c]
  BY <1>2 DEF EV!DropVersionsFrom
<1>4. /\ kept \in Seq(EV!Version) /\ Len(kept) = c
      /\ \A i \in 1 .. c : kept[i] = ev.versions[i]
  BY <1>1, SubSeqProperties, \A i \in 1 .. c : ev.versions[i] \in EV!Version
<1> HIDE DEF kept
<1>5. /\ c \in 1 .. Len(kept) /\ kept[1].version = 0
      /\ kept[c].version = EV!CurrentVersion(ev)
  BY <1>1, <1>4
<1>6. ASSUME NEW i \in 1 .. Len(kept)
      PROVE  (kept[i].version <= n + 1 <=> i <= c) /\ kept[i].version <= n + 1
  <2>1. i \in 1 .. c /\ i \in 1 .. L /\ i <= c
    BY <1>1, <1>4
  <2>2. kept[i].version \in Nat /\ kept[i].version <= n
    BY <1>1, <1>4, <2>1
  <2> QED  BY <2>1, <2>2
<1>7. ASSUME NEW i \in 1 .. Len(kept), NEW k \in 1 .. Len(kept), i < k
      PROVE  kept[i].version <= kept[k].version
  <2>1. i \in 1 .. L /\ k \in 1 .. L /\ i \in 1 .. c /\ k \in 1 .. c
    BY <1>1, <1>4
  <2>2. ev.versions[i].version <= ev.versions[k].version
    BY <1>7, <2>1 DEF ListOK
  <2> QED  BY <1>4, <2>1, <2>2
<1>8. ASSUME NEW i \in 1 .. Len(kept), i > 1 PROVE IsEdit(kept[i])
  <2>1. i \in 1 .. L /\ i \in 1 .. c
    BY <1>1, <1>4
  <2> QED  BY <1>4, <1>8, <2>1 DEF ListOK
<1>9. /\ EV!CurrentData([versions |-> kept, current |-> c]) = EV!CurrentData(ev)
      /\ EV!BackendData([versions |-> kept, current |-> c]) = EV!BackendData(ev)
  BY <1>1, <1>4 DEF EV!CurrentData, EV!BackendData
<1>10. ListOK([versions |-> kept, current |-> c], n + 1, n + 1)
       /\ EV!CurrentVersion([versions |-> kept, current |-> c]) = kept[c].version
  <2> HIDE DEF c
  <2> QED  BY <1>4, <1>5, <1>6, <1>7, <1>8, ListIntro
<1> QED  BY <1>3, <1>4, <1>5, <1>9, <1>10

(* updateBackend changes what lies below the edits and nothing else. *)
LEMMA UpdateBackendOK ==
  ASSUME NEW n \in Nat, NEW high, NEW ev, ListOK(ev, n, high), NEW d \in EV!Data
  PROVE  LET noted == EV!UpdateBackend(ev, d)
         IN  /\ ListOK(noted, n, high) /\ EV!CurrentVersion(noted) = EV!CurrentVersion(ev)
             /\ EV!BackendData(noted) = d /\ noted.current = ev.current
             /\ Len(noted.versions) = Len(ev.versions)
             /\ \A i \in 2 .. Len(ev.versions) : noted.versions[i] = ev.versions[i]
<1> DEFINE e == [ev.versions[1] EXCEPT !.data = d]
           c == ev.current
           L == Len(ev.versions)
           vs == [ev.versions EXCEPT ![1] = e]
<1>1. /\ L \in Nat /\ c \in 1 .. L /\ 1 \in 1 .. L /\ ev.versions \in Seq(EV!Version)
      /\ ev.versions[1] \in EV!Version
  <2>1. L \in Nat /\ c \in 1 .. L /\ ev.versions \in Seq(EV!Version)
    BY ListTypes DEF ListOK
  <2>2. 1 \in 1 .. L
    BY <2>1
  <2> QED  BY <2>1, <2>2, ListTypes
<1>2. e \in EV!Version /\ e.version = ev.versions[1].version /\ e.data = d
  BY <1>1 DEF EV!Version
<1>3. EV!UpdateBackend(ev, d) = [versions |-> vs, current |-> c]
  BY <1>1 DEF EV!UpdateBackend
<1> HIDE DEF e
<1>4. /\ vs \in Seq(EV!Version) /\ Len(vs) = L
      /\ \A i \in 1 .. L : vs[i] = IF i = 1 THEN e ELSE ev.versions[i]
  BY <1>1, <1>2, ExceptSeq
<1> HIDE DEF vs
<1>5. \A i \in 1 .. L : vs[i].version = ev.versions[i].version
  BY <1>2, <1>4
<1>6. /\ vs[1].version = 0
      /\ \A i, k \in 1 .. L : i < k => vs[i].version <= vs[k].version
      /\ \A i \in 1 .. L : vs[i].version <= n <=> i <= c
      /\ \A i \in 1 .. L : vs[i].version <= high
  BY <1>1, <1>5 DEF ListOK
<1>7. vs[c].version = EV!CurrentVersion(ev) /\ vs[1].data = d
  BY <1>1, <1>2, <1>4, <1>5 DEF EV!CurrentVersion
<1>8. \A i \in 1 .. L : i > 1 => vs[i] = ev.versions[i] /\ IsEdit(vs[i])
  BY <1>4 DEF ListOK
<1>9. /\ ListOK([versions |-> vs, current |-> c], n, high)
      /\ EV!CurrentVersion([versions |-> vs, current |-> c]) = vs[c].version
  <2> HIDE DEF c, L
  <2> QED  BY <1>1, <1>4, <1>6, <1>8, ListIntro
<1> QED  BY <1>1, <1>3, <1>4, <1>7, <1>8, <1>9 DEF EV!BackendData

(* A list shows an edit or, with its first entry, what the backend holds. *)
LEMMA ShownEntry ==
  ASSUME NEW n, NEW high, NEW ev, ListOK(ev, n, high)
  PROVE  /\ EV!CurrentVersion(ev) = 0 <=> ev.current = 1
         /\ EV!CurrentVersion(ev) > 0 => /\ EV!CurrentData(ev) = ev.versions[ev.current].data
                                      /\ EV!CurrentData(ev) \in Tasked
         /\ EV!CurrentVersion(ev) = 0 =>
              EV!CurrentData(ev) = IF EV!HasBackendData(ev) THEN EV!BackendData(ev) ELSE MissingObs
<1>1. ev.current \in 1 .. Len(ev.versions) /\ ev.versions[1].version = 0
  BY DEF ListOK
<1>2. CASE ev.current = 1
  BY <1>1, <1>2 DEF EV!CurrentVersion, EV!CurrentData, EV!BackendData, EV!HasBackendData
<1>3. CASE ev.current # 1
  <2>1. IsEdit(ev.versions[ev.current])
    BY <1>1, <1>3, ListTypes DEF ListOK
  <2> QED  BY <1>3, <2>1, EntryIs, ListTypes
           DEF IsEdit, EV!CurrentVersion, EV!CurrentData
<1> QED  BY <1>2, <1>3

-----------------------------------------------------------------------------
(* What a version list shows at each version.                              *)
DataAt(ev, n) == EV!CurrentData(EV!SetVersion(ev, n))
OrMissing(obs) == IF obs = NoObs THEN MissingObs ELSE obs
LastUpTo(ev, n, i) ==
  /\ i \in 1 .. Len(ev.versions) /\ ev.versions[i].version <= n
  /\ i = Len(ev.versions) \/ ~ (ev.versions[i + 1].version <= n)
LEMMA DataAtIs ==
  ASSUME NEW m \in Nat, NEW n \in Nat, NEW high, NEW ev, ListOK(ev, m, high),
         NEW i, LastUpTo(ev, n, i)
  PROVE  DataAt(ev, n) = OrMissing(ev.versions[i].data)
<1>0. ListOK(EV!SetVersion(ev, n), n, high) /\ EV!SetVersion(ev, n).versions = ev.versions
  BY SetVersionOK
<1> DEFINE moved == EV!SetVersion(ev, n)
<1>1. ListOK(moved, n, high) /\ moved.versions = ev.versions
  BY <1>0
<1> HIDE DEF moved
<1>2. moved.current \in 1 .. Len(ev.versions) /\ Len(ev.versions) \in Nat
  BY <1>1, ListTypes DEF ListOK
<1>7. /\ i \in 1 .. Len(ev.versions) /\ ev.versions[i].version <= n
      /\ i = Len(ev.versions) \/ ~ (ev.versions[i + 1].version <= n)
  BY DEF LastUpTo
<1>3. \A k \in 1 .. Len(ev.versions) : ev.versions[k].version <= n <=> k <= moved.current
  BY <1>1 DEF ListOK
<1>4. i <= moved.current
  BY <1>3, <1>7
<1>5. CASE i = Len(ev.versions)
  <2>1. moved.current = i
    BY <1>2, <1>4, <1>5, <1>7
  <2> QED  BY <1>1, <2>1 DEF DataAt, OrMissing, moved, EV!CurrentData
<1>6. CASE i # Len(ev.versions)
  <2>1. i + 1 \in 1 .. Len(ev.versions) /\ ~ (ev.versions[i + 1].version <= n)
    BY <1>2, <1>6, <1>7
  <2>2. ~ (i + 1 <= moved.current)
    BY <1>3, <2>1
  <2>3. moved.current = i
    BY <1>2, <1>4, <1>7, <2>2
  <2> QED  BY <1>1, <2>3 DEF DataAt, OrMissing, moved, EV!CurrentData
<1> QED  BY <1>5, <1>6

(* Every version shows something. *)
ShownBy(ev, m, n, i) ==
  /\ ev.versions[i].version <= n /\ (n <= m => i <= ev.current)
  /\ i = Len(ev.versions) \/ ~ (ev.versions[i + 1].version <= n)
  /\ DataAt(ev, n) = OrMissing(ev.versions[i].data)
LEMMA DataAtFrom ==
  ASSUME NEW m \in Nat, NEW n \in Nat, NEW high, NEW ev, ListOK(ev, m, high)
  PROVE  /\ DataAt(ev, n) \in Tasked /\ DataAt(ev, n) # NoObs
         /\ n = m => DataAt(ev, n) = EV!CurrentData(ev)
         /\ \E i \in 1 .. Len(ev.versions) : ShownBy(ev, m, n, i)
<1> DEFINE moved == EV!SetVersion(ev, n)
<1>1. ListOK(moved, n, high) /\ moved.versions = ev.versions
  BY SetVersionOK
<1> HIDE DEF moved
<1>2. moved.current \in 1 .. Len(ev.versions) /\ Len(ev.versions) \in Nat
  BY <1>1, ListTypes DEF ListOK
<1>3. \A k \in 1 .. Len(ev.versions) : ev.versions[k].version <= n <=> k <= moved.current
  BY <1>1 DEF ListOK
<1>4. ev.versions[moved.current].version <= n
  BY <1>2, <1>3
<1>5. moved.current = Len(ev.versions) \/ ~ (ev.versions[moved.current + 1].version <= n)
  <2>1. SUFFICES ASSUME moved.current # Len(ev.versions)
                 PROVE  ~ (ev.versions[moved.current + 1].version <= n)
    OBVIOUS
  <2>2. moved.current + 1 \in 1 .. Len(ev.versions) /\ ~ (moved.current + 1 <= moved.current)
    BY <1>2, <2>1
  <2> QED  BY <1>3, <2>2
<1>12. LastUpTo(ev, n, moved.current)
  BY <1>2, <1>4, <1>5 DEF LastUpTo
<1>6. DataAt(ev, n) = OrMissing(ev.versions[moved.current].data)
  BY <1>12, DataAtIs
<1>7. ev.versions[moved.current].data \in Shown /\ ev.versions[moved.current].version \in Nat
  BY <1>2, ListTypes, EntryIs
<1>8. DataAt(ev, n) \in Tasked /\ DataAt(ev, n) # NoObs
  BY <1>6, <1>7, EntryIs DEF OrMissing, Shown
<1>9. n <= m => moved.current <= ev.current
  <2>1. n <= m => ev.versions[moved.current].version <= m
    BY <1>4, <1>7
  <2> QED  BY <1>2, <2>1 DEF ListOK
<1>10. ASSUME n = m PROVE DataAt(ev, n) = EV!CurrentData(ev)
  <2>1. ev.current \in 1 .. Len(ev.versions)
        /\ \A k \in 1 .. Len(ev.versions) : ev.versions[k].version <= n <=> k <= ev.current
    BY <1>10 DEF ListOK
  <2>2. ev.current <= moved.current
    BY <1>3, <2>1, <1>2
  <2>3. ev.current = moved.current
    BY <1>2, <1>9, <1>10, <2>1, <2>2
  <2> QED  BY <1>6, <2>3 DEF OrMissing, EV!CurrentData
<1>11. ShownBy(ev, m, n, moved.current)
  BY <1>4, <1>5, <1>6, <1>9 DEF ShownBy
<1> QED  BY <1>2, <1>8, <1>10, <1>11

(* A new version forgets nothing that undo can reach.                      *)
LEMMA DroppedIs ==
  ASSUME NEW n \in Nat, NEW high, NEW ev, ListOK(ev, n, high),
         NEW left, left = EV!DropVersionsFrom(ev, n + 1)
  PROVE  /\ ListOK(left, n + 1, n + 1) /\ EV!CurrentVersion(left) = EV!CurrentVersion(ev)
         /\ EV!CurrentData(left) = EV!CurrentData(ev) /\ left.current = ev.current
         /\ \A k \in 0 .. n : DataAt(left, k) = DataAt(ev, k)
<1>1. /\ ListOK(left, n + 1, n + 1) /\ EV!CurrentVersion(left) = EV!CurrentVersion(ev)
      /\ EV!CurrentData(left) = EV!CurrentData(ev)
      /\ Len(left.versions) = ev.current
      /\ \A i \in 1 .. ev.current : left.versions[i] = ev.versions[i]
  BY DropVersionsFromOK
<1>2. ev.current \in 1 .. Len(ev.versions) /\ Len(ev.versions) \in Nat
  BY ListTypes DEF ListOK
<1>3. left.current = ev.current
  <2>1. ev.current \in 1 .. Len(left.versions) /\ left.current \in 1 .. Len(left.versions)
    BY <1>1, <1>2 DEF ListOK
  <2>2. left.versions[ev.current].version <= n + 1
    BY <1>1, <2>1 DEF ListOK
  <2>3. ev.current <= left.current
    BY <1>1, <2>1, <2>2 DEF ListOK
  <2> QED  BY <1>1, <1>2, <2>1, <2>3
<1>4. ASSUME NEW k \in 0 .. n PROVE DataAt(left, k) = DataAt(ev, k)
  <2>9. PICK i \in 1 .. Len(ev.versions) : ShownBy(ev, n, k, i)
    BY DataAtFrom
  <2>1. /\ ev.versions[i].version <= k /\ (k <= n => i <= ev.current)
        /\ i = Len(ev.versions) \/ ~ (ev.versions[i + 1].version <= k)
        /\ DataAt(ev, k) = OrMissing(ev.versions[i].data)
    BY <2>9 DEF ShownBy
  <2>2. i \in 1 .. ev.current /\ i \in 1 .. Len(left.versions) /\ k \in Nat /\ n + 1 \in Nat
    BY <1>1, <1>2, <2>1
  <2>3. left.versions[i] = ev.versions[i]
    BY <1>1, <2>2
  <2>4. i = Len(left.versions) \/ ~ (left.versions[i + 1].version <= k)
    <3>1. SUFFICES ASSUME i # Len(left.versions)
                   PROVE  ~ (left.versions[i + 1].version <= k)
      OBVIOUS
    <3>2. i + 1 \in 1 .. ev.current /\ i # Len(ev.versions)
      BY <1>1, <1>2, <2>2, <3>1
    <3> QED  BY <1>1, <2>1, <3>2
  <2>8. LastUpTo(left, k, i)
    BY <1>1, <2>1, <2>2, <2>3, <2>4 DEF LastUpTo
  <2>5. DataAt(left, k) = OrMissing(left.versions[i].data)
    BY <1>1, <2>2, <2>8, DataAtIs
  <2> QED  BY <2>1, <2>3, <2>5
<1> QED  BY <1>1, <1>3, <1>4

LEMMA AddedIs ==
  ASSUME NEW n \in Nat, NEW high, NEW ev, ListOK(ev, n, high), NEW d \in Tasked,
         NEW added, added = EV!AddVersion(EV!DropVersionsFrom(ev, n + 1), n + 1, d)
  PROVE  /\ ListOK(added, n + 1, n + 1) /\ EV!CurrentVersion(added) = n + 1
         /\ EV!CurrentData(added) = d
         /\ \A k \in 0 .. n : DataAt(added, k) = DataAt(ev, k)
<1> DEFINE left == EV!DropVersionsFrom(ev, n + 1)
<1>1. /\ ListOK(left, n + 1, n + 1) /\ left.current = ev.current
      /\ \A k \in 0 .. n : DataAt(left, k) = DataAt(ev, k)
  BY DroppedIs
<1> HIDE DEF left
<1>2. /\ ListOK(added, n + 1, n + 1) /\ EV!CurrentVersion(added) = n + 1
      /\ EV!CurrentData(added) = d
      /\ Len(added.versions) = left.current + 1
      /\ \A i \in 1 .. left.current : added.versions[i] = left.versions[i]
      /\ added.versions[left.current + 1].version = n + 1
  <2>1. n + 1 \in Nat \ {0} /\ added = EV!AddVersion(left, n + 1, d)
    BY DEF left
  <2> QED  BY <1>1, <2>1, AddVersionOK
<1>3. left.current \in 1 .. Len(left.versions) /\ Len(left.versions) \in Nat
  BY <1>1, ListTypes DEF ListOK
<1>4. ASSUME NEW k \in 0 .. n PROVE DataAt(added, k) = DataAt(left, k)
  <2>0. k \in Nat /\ n + 1 \in Nat /\ k <= n + 1 /\ ~ (n + 1 <= k)
    OBVIOUS
  <2>9. PICK i \in 1 .. Len(left.versions) : ShownBy(left, n + 1, k, i)
    BY <1>1, <2>0, DataAtFrom
  <2>1. /\ left.versions[i].version <= k /\ (k <= n + 1 => i <= left.current)
        /\ i = Len(left.versions) \/ ~ (left.versions[i + 1].version <= k)
        /\ DataAt(left, k) = OrMissing(left.versions[i].data)
    BY <2>9 DEF ShownBy
  <2>2. i \in 1 .. left.current /\ i \in 1 .. Len(added.versions)
    BY <1>2, <1>3, <2>0, <2>1
  <2>3. added.versions[i] = left.versions[i]
    BY <1>2, <2>2
  <2>4. ~ (added.versions[i + 1].version <= k)
    <3>1. CASE i = left.current
      BY <1>2, <2>0, <3>1
    <3>2. CASE i # left.current
      <4>1. i + 1 \in 1 .. left.current /\ i # Len(left.versions)
        BY <1>3, <2>2, <3>2
      <4> QED  BY <1>2, <2>1, <4>1
    <3> QED  BY <3>1, <3>2
  <2>8. LastUpTo(added, k, i)
    BY <1>2, <2>0, <2>1, <2>2, <2>3, <2>4 DEF LastUpTo
  <2>5. DataAt(added, k) = OrMissing(added.versions[i].data)
    BY <1>1, <1>2, <2>0, <2>8, DataAtIs
  <2> QED  BY <2>1, <2>3, <2>5
<1> QED  BY <1>1, <1>2, <1>4

LEMMA MadeIs ==
  ASSUME NEW n \in Nat, NEW b \in Shown, NEW d \in Tasked,
         NEW made, made = EV!NewVersions(b, n + 1, d)
  PROVE  /\ ListOK(made, n + 1, n + 1) /\ EV!CurrentVersion(made) = n + 1
         /\ EV!CurrentData(made) = d
         /\ \A k \in 0 .. n : DataAt(made, k) = OrMissing(b)
<1>1. b \in EV!Data /\ n + 1 \in Nat \ {0} /\ n + 1 \in Nat
  BY EntryIs
<1>2. /\ ListOK(made, n + 1, n + 1) /\ EV!CurrentVersion(made) = n + 1
      /\ EV!CurrentData(made) = d
  BY <1>1, NewVersionsOK
<1>3. /\ Len(made.versions) = 2 /\ made.versions[1].version = 0 /\ made.versions[1].data = b
      /\ made.versions[2].version = n + 1
  BY DEF EV!NewVersions
<1>4. ASSUME NEW k \in 0 .. n PROVE DataAt(made, k) = OrMissing(b)
  <2>1. k \in Nat /\ 1 \in 1 .. Len(made.versions) /\ made.versions[1].version <= k
        /\ ~ (made.versions[1 + 1].version <= k)
    BY <1>3
  <2>2. LastUpTo(made, k, 1)
    BY <2>1 DEF LastUpTo
  <2>3. DataAt(made, k) = OrMissing(made.versions[1].data)
    BY <1>1, <1>2, <2>1, <2>2, DataAtIs
  <2> QED  BY <1>3, <2>3
<1> QED  BY <1>2, <1>4

LEMMA MovedListIs ==
  ASSUME NEW m \in Nat, NEW n \in Nat, NEW high, NEW ev, ListOK(ev, m, high),
         NEW moved, moved = EV!SetVersion(ev, n)
  PROVE  /\ ListOK(moved, n, high) /\ EV!CurrentData(moved) = DataAt(ev, n)
         /\ \A k \in Nat : DataAt(moved, k) = DataAt(ev, k)
<1>1. ListOK(moved, n, high) /\ moved.versions = ev.versions
  BY SetVersionOK
<1>2. EV!CurrentData(moved) = DataAt(ev, n)
  BY DEF DataAt
<1>3. ASSUME NEW k \in Nat PROVE DataAt(moved, k) = DataAt(ev, k)
  <2>9. PICK i \in 1 .. Len(ev.versions) : ShownBy(ev, m, k, i)
    BY DataAtFrom
  <2>1. /\ ev.versions[i].version <= k /\ (k <= m => i <= ev.current)
        /\ i = Len(ev.versions) \/ ~ (ev.versions[i + 1].version <= k)
        /\ DataAt(ev, k) = OrMissing(ev.versions[i].data)
    BY <2>9 DEF ShownBy
  <2>8. LastUpTo(moved, k, i)
    BY <1>1, <2>1 DEF LastUpTo
  <2>2. DataAt(moved, k) = OrMissing(moved.versions[i].data)
    BY <1>1, <2>8, DataAtIs
  <2> QED  BY <1>1, <2>1, <2>2
<1> QED  BY <1>1, <1>2, <1>3
-----------------------------------------------------------------------------
(* The whole access: what it shows at each version that undo or redo can   *)
(* reach, over the observations of its parent.                             *)
HiddenIn(a) == {c \in DOMAIN a.edited : EV!CurrentVersion(a.edited[c]) > 0}
IsAccess(a) == /\ a.edited = [c \in DOMAIN a.edited |-> a.edited[c]]
               /\ a = [edited |-> a.edited, current |-> a.current, highest |-> a.highest,
                       updated |-> a.updated]
AccessOK(a) ==
  /\ IsAccess(a) /\ DOMAIN a.edited \subseteq Cells
  /\ a.current \in Nat /\ a.highest \in Nat /\ a.current <= a.highest
  /\ \A c \in DOMAIN a.edited : ListOK(a.edited[c], a.current, a.highest)
  /\ a.updated = Cardinality(HiddenIn(a))
ViewOf(p, a) == [c \in Cells |-> IF c \in DOMAIN a.edited THEN EV!CurrentData(a.edited[c])
                                 ELSE p[c]]
CardAt(p, a, k) == [c \in Cells |-> IF c \in DOMAIN a.edited THEN DataAt(a.edited[c], k)
                                    ELSE p[c]]
SameOrMissing(x, y) == y = x \/ (x = NoObs /\ y = MissingObs)

LEMMA CellsFinite == IsFiniteSet(Cells)
<1>1. IsFiniteSet(Days)
  BY DayAssumption, FS_Interval DEF Days
<1>2. IsFiniteSet(Pars)
  BY CardAssumption
<1> QED  BY <1>1, <1>2, FS_Product DEF Cells

LEMMA NoEditsIs ==
  /\ AccessOK(NoEdits) /\ NoEdits.current = 0 /\ NoEdits.highest = 0
  /\ \A p \in [Cells -> Shown] : ViewOf(p, NoEdits) = p
<1>1. DOMAIN NoEdits.edited = {} /\ NoEdits.current = 0 /\ NoEdits.highest = 0 /\ NoEdits.updated = 0
      /\ IsAccess(NoEdits)
  BY DEF NoEdits, IsAccess
<1>2. HiddenIn(NoEdits) = {}
  BY <1>1 DEF HiddenIn
<1>3. Cardinality(HiddenIn(NoEdits)) = 0
  BY <1>2, FS_EmptySet
<1>4. \A p \in [Cells -> Shown] : ViewOf(p, NoEdits) = p
  BY <1>1 DEF ViewOf
<1> QED  BY <1>1, <1>3, <1>4 DEF AccessOK

LEMMA ViewIs ==
  ASSUME NEW p \in [Cells -> Shown], NEW a, AccessOK(a)
  PROVE  /\ ViewOf(p, a) \in [Cells -> Shown] /\ ViewOf(p, a) = CardAt(p, a, a.current)
         /\ \A k \in Nat : CardAt(p, a, k) \in [Cells -> Shown]
         /\ WorkOK(Fresh(ViewOf(p, a))) /\ Fresh(ViewOf(p, a)).card = ViewOf(p, a)
<1>0. \A c \in DOMAIN a.edited : ListOK(a.edited[c], a.current, a.highest)
      /\ a.current \in Nat
  BY DEF AccessOK
<1>1. ASSUME NEW c \in Cells
      PROVE  /\ ViewOf(p, a)[c] = CardAt(p, a, a.current)[c]
             /\ \A k \in Nat : CardAt(p, a, k)[c] \in Shown
  <2>1. CASE c \in DOMAIN a.edited
    <3>0. ListOK(a.edited[c], a.current, a.highest) /\ a.current \in Nat
      BY <1>0, <2>1 DEF AccessOK
    <3>1. \A k \in Nat : DataAt(a.edited[c], k) \in Tasked
      BY <3>0, DataAtFrom
    <3>2. DataAt(a.edited[c], a.current) = EV!CurrentData(a.edited[c])
      BY <3>0, DataAtFrom
    <3> QED  BY <2>1, <3>1, <3>2 DEF ViewOf, CardAt, Shown
  <2>2. CASE c \notin DOMAIN a.edited
    BY <2>2 DEF ViewOf, CardAt
  <2> QED  BY <2>1, <2>2
<1>2. ViewOf(p, a) = CardAt(p, a, a.current)
  BY <1>1 DEF ViewOf, CardAt
<1>3. \A k \in Nat : CardAt(p, a, k) \in [Cells -> Shown]
  BY <1>1 DEF CardAt
<1>4. ViewOf(p, a) \in [Cells -> Shown]
  BY <1>2, <1>3 DEF AccessOK
<1>5. WorkOK(Fresh(ViewOf(p, a))) /\ Fresh(ViewOf(p, a)).card = ViewOf(p, a)
  BY <1>4 DEF WorkOK, Fresh
<1> QED  BY <1>2, <1>3, <1>4, <1>5

LEMMA NewVersionIs ==
  ASSUME NEW a, AccessOK(a), NEW b, b = NewVersion(a)
  PROVE  /\ b.current = a.current + 1 /\ b.highest = a.current + 1 /\ b.updated = a.updated
         /\ IsAccess(b) /\ DOMAIN b.edited = DOMAIN a.edited
         /\ \A c \in DOMAIN a.edited :
              b.edited[c] = EV!DropVersionsFrom(a.edited[c], a.current + 1)
BY DEF AccessOK, IsAccess, NewVersion

(* An operation: a new version that shows the card of its work; the        *)
(* versions before it show what they showed.                               *)
LEMMA StoredIs ==
  ASSUME parent \in [Cells -> Shown], NEW a, AccessOK(a),
         NEW work, Follows(Fresh(ViewOf(parent, a)), work),
         NEW b, b = Stored(NewVersion(a), work)
  PROVE  /\ AccessOK(b) /\ b.current = a.current + 1 /\ b.highest = a.current + 1
         /\ ViewOf(parent, b) = work.card
         /\ DOMAIN b.edited = DOMAIN a.edited \cup work.stored
         /\ \A k \in 0 .. a.current : \A c \in Cells :
              SameOrMissing(CardAt(parent, a, k)[c], CardAt(parent, b, k)[c])
<1> DEFINE n == NewVersion(a)
           D == DOMAIN a.edited
           S == work.stored
<1>1. /\ n.current = a.current + 1 /\ n.highest = a.current + 1 /\ n.updated = a.updated
      /\ IsAccess(n) /\ DOMAIN n.edited = D
      /\ \A c \in D : n.edited[c] = EV!DropVersionsFrom(a.edited[c], a.current + 1)
  BY NewVersionIs
<1>2. /\ a.current \in Nat /\ D \subseteq Cells
      /\ \A c \in D : ListOK(a.edited[c], a.current, a.highest)
      /\ a.updated = Cardinality(HiddenIn(a))
  BY DEF AccessOK
<1>3. /\ WorkOK(work) /\ S \subseteq Cells
      /\ \A c \in S : work.card[c] \in Tasked
      /\ \A c \in Cells : c \notin S => work.card[c] = ViewOf(parent, a)[c]
      /\ work.card \in [Cells -> Shown]
  BY DEF Follows, WorkOK, Fresh, Shown
<1> HIDE DEF n
<1>4. /\ b.current = a.current + 1 /\ b.highest = a.current + 1
      /\ b.updated = n.updated + Cardinality(S \ {c \in D : EV!CurrentVersion(n.edited[c]) > 0})
      /\ DOMAIN b.edited = D \cup S /\ IsAccess(b)
      /\ \A c \in D \cup S : b.edited[c] =
           IF c \notin S THEN n.edited[c]
           ELSE IF c \in D THEN EV!AddVersion(n.edited[c], a.current + 1, work.card[c])
           ELSE EV!NewVersions(parent[c], a.current + 1, work.card[c])
  BY <1>1 DEF Stored, IsAccess, n
<1> HIDE DEF S, D
<1>5. ASSUME NEW c \in D \cup S
      PROVE  /\ ListOK(b.edited[c], a.current + 1, a.current + 1)
             /\ EV!CurrentData(b.edited[c]) = work.card[c]
             /\ EV!CurrentVersion(b.edited[c]) > 0 <=> c \in S \cup HiddenIn(a)
             /\ \A k \in 0 .. a.current :
                  SameOrMissing(CardAt(parent, a, k)[c], DataAt(b.edited[c], k))
  <2>0. c \in Cells
    BY <1>2, <1>3
  <2>1. CASE c \notin S
    <3>1. c \in D /\ b.edited[c] = EV!DropVersionsFrom(a.edited[c], a.current + 1)
      BY <1>1, <1>4, <1>5, <2>1
    <3>2. ListOK(a.edited[c], a.current, a.highest)
      BY <1>2, <3>1
    <3>3. /\ ListOK(b.edited[c], a.current + 1, a.current + 1)
          /\ EV!CurrentVersion(b.edited[c]) = EV!CurrentVersion(a.edited[c])
          /\ EV!CurrentData(b.edited[c]) = EV!CurrentData(a.edited[c])
          /\ \A k \in 0 .. a.current : DataAt(b.edited[c], k) = DataAt(a.edited[c], k)
      BY <1>2, <3>1, <3>2, DroppedIs
    <3>4. work.card[c] = EV!CurrentData(a.edited[c])
      BY <1>3, <2>0, <2>1, <3>1 DEF ViewOf, D
    <3>5. \A k \in 0 .. a.current : CardAt(parent, a, k)[c] = DataAt(a.edited[c], k)
      BY <2>0, <3>1 DEF CardAt, D
    <3>6. EV!CurrentVersion(a.edited[c]) > 0 <=> c \in HiddenIn(a)
      BY <3>1 DEF HiddenIn, D
    <3> QED  BY <2>1, <3>3, <3>4, <3>5, <3>6 DEF SameOrMissing
  <2>2. CASE c \in S /\ c \in D
    <3>1. b.edited[c] = EV!AddVersion(EV!DropVersionsFrom(a.edited[c], a.current + 1),
                                      a.current + 1, work.card[c])
      BY <1>1, <1>4, <2>2
    <3>2. ListOK(a.edited[c], a.current, a.highest) /\ work.card[c] \in Tasked
      BY <1>2, <1>3, <2>2
    <3>3. /\ ListOK(b.edited[c], a.current + 1, a.current + 1)
          /\ EV!CurrentVersion(b.edited[c]) = a.current + 1
          /\ EV!CurrentData(b.edited[c]) = work.card[c]
          /\ \A k \in 0 .. a.current : DataAt(b.edited[c], k) = DataAt(a.edited[c], k)
      BY <1>2, <3>1, <3>2, AddedIs
    <3>5. \A k \in 0 .. a.current : CardAt(parent, a, k)[c] = DataAt(a.edited[c], k)
      BY <2>0, <2>2 DEF CardAt, D
    <3>6. a.current + 1 > 0
      BY <1>2
    <3> QED  BY <2>2, <3>3, <3>5, <3>6 DEF SameOrMissing
  <2>3. CASE c \in S /\ c \notin D
    <3>1. b.edited[c] = EV!NewVersions(parent[c], a.current + 1, work.card[c])
      BY <1>4, <2>3
    <3>2. parent[c] \in Shown /\ work.card[c] \in Tasked
      BY <1>3, <2>0, <2>3
    <3>3. /\ ListOK(b.edited[c], a.current + 1, a.current + 1)
          /\ EV!CurrentVersion(b.edited[c]) = a.current + 1
          /\ EV!CurrentData(b.edited[c]) = work.card[c]
          /\ \A k \in 0 .. a.current : DataAt(b.edited[c], k) = OrMissing(parent[c])
      BY <1>2, <3>1, <3>2, MadeIs
    <3>5. \A k \in 0 .. a.current : CardAt(parent, a, k)[c] = parent[c]
      BY <2>0, <2>3 DEF CardAt, D
    <3>6. a.current + 1 > 0
      BY <1>2
    <3> QED  BY <2>3, <3>3, <3>5, <3>6 DEF SameOrMissing, OrMissing
  <2> QED  BY <2>1, <2>2, <2>3
<1>6. HiddenIn(b) = HiddenIn(a) \cup S
  <2>1. HiddenIn(a) \subseteq D
    BY DEF HiddenIn, D
  <2>2. \A c : c \in HiddenIn(b) <=> c \in D \cup S /\ EV!CurrentVersion(b.edited[c]) > 0
    BY <1>4 DEF HiddenIn
  <2> QED  BY <1>5, <2>1, <2>2
<1>7. {c \in D : EV!CurrentVersion(n.edited[c]) > 0} = HiddenIn(a)
  <2>1. ASSUME NEW c \in D
        PROVE EV!CurrentVersion(n.edited[c]) = EV!CurrentVersion(a.edited[c])
    <3>1. n.edited[c] = EV!DropVersionsFrom(a.edited[c], a.current + 1)
          /\ ListOK(a.edited[c], a.current, a.highest)
      BY <1>1, <1>2
    <3> QED  BY <1>2, <3>1, DroppedIs
  <2> QED  BY <2>1 DEF HiddenIn, D
<1>8. b.updated = Cardinality(HiddenIn(b))
  <2>1. IsFiniteSet(HiddenIn(a)) /\ IsFiniteSet(S \ HiddenIn(a))
    <3>1. HiddenIn(a) \subseteq Cells /\ S \ HiddenIn(a) \subseteq Cells
      BY <1>2, <1>3 DEF HiddenIn, D
    <3> QED  BY <3>1, CellsFinite, FS_Subset
  <2>2. /\ HiddenIn(b) = HiddenIn(a) \cup (S \ HiddenIn(a))
        /\ HiddenIn(a) \cap (S \ HiddenIn(a)) = {}
    BY <1>6
  <2>3. Cardinality({}) = 0
    BY FS_EmptySet
  <2>4. Cardinality(HiddenIn(a)) \in Nat /\ Cardinality(S \ HiddenIn(a)) \in Nat
    BY <2>1, FS_CardinalityType
  <2>5. Cardinality(HiddenIn(b)) = Cardinality(HiddenIn(a)) + Cardinality(S \ HiddenIn(a))
                                   - Cardinality({})
    BY <2>1, <2>2, FS_Union
  <2>6. b.updated = a.updated + Cardinality(S \ HiddenIn(a))
    BY <1>1, <1>4, <1>7
  <2> QED  BY <1>2, <2>3, <2>4, <2>5, <2>6
<1>9. AccessOK(b)
  BY <1>2, <1>3, <1>4, <1>5, <1>8 DEF AccessOK
<1>10. ViewOf(parent, b) = work.card
  <2>1. \A c \in Cells : ViewOf(parent, b)[c] = work.card[c]
    BY <1>3, <1>4, <1>5 DEF ViewOf, D
  <2> QED  BY <1>3, <2>1 DEF ViewOf
<1>11. ASSUME NEW k \in 0 .. a.current, NEW c \in Cells
       PROVE  SameOrMissing(CardAt(parent, a, k)[c], CardAt(parent, b, k)[c])
  <2>1. CASE c \in D \cup S
    BY <1>4, <1>5, <2>1 DEF CardAt
  <2>2. CASE c \notin D \cup S
    BY <1>4, <2>2 DEF CardAt, SameOrMissing, D
  <2> QED  BY <2>1, <2>2
<1> QED  BY <1>4, <1>9, <1>10, <1>11 DEF D, S

(* Undo and redo show the card of another version. *)
LEMMA MovedToIs ==
  ASSUME NEW p \in [Cells -> Shown], NEW a, AccessOK(a), NEW n \in 0 .. a.highest,
         NEW b, b = MovedTo(a, n)
  PROVE  /\ AccessOK(b) /\ b.current = n /\ b.highest = a.highest
         /\ ViewOf(p, b) = CardAt(p, a, n)
         /\ \A k \in Nat : CardAt(p, b, k) = CardAt(p, a, k)
<1>1. /\ b.current = n /\ b.highest = a.highest /\ IsAccess(b)
      /\ DOMAIN b.edited = DOMAIN a.edited
      /\ \A c \in DOMAIN a.edited : b.edited[c] = EV!SetVersion(a.edited[c], n)
      /\ b.updated = Cardinality(HiddenIn(b))
  BY DEF MovedTo, AccessOK, IsAccess, HiddenIn
<1>2. n \in Nat /\ a.current \in Nat /\ a.highest \in Nat /\ n <= a.highest
  BY DEF AccessOK
<1>3. ASSUME NEW c \in DOMAIN a.edited
      PROVE  /\ ListOK(b.edited[c], n, a.highest)
             /\ EV!CurrentData(b.edited[c]) = DataAt(a.edited[c], n)
             /\ \A k \in Nat : DataAt(b.edited[c], k) = DataAt(a.edited[c], k)
  <2>1. ListOK(a.edited[c], a.current, a.highest) /\ b.edited[c] = EV!SetVersion(a.edited[c], n)
    BY <1>1 DEF AccessOK
  <2> QED  BY <1>2, <2>1, MovedListIs
<1>4. AccessOK(b)
  BY <1>1, <1>2, <1>3 DEF AccessOK
<1>5. ViewOf(p, b) = CardAt(p, a, n)
  BY <1>1, <1>3 DEF ViewOf, CardAt
<1>6. \A k \in Nat : CardAt(p, b, k) = CardAt(p, a, k)
  BY <1>1, <1>3 DEF CardAt
<1> QED  BY <1>1, <1>4, <1>5, <1>6

(* A change of the parent below the edits. *)
LEMMA NotedIs ==
  ASSUME NEW a, AccessOK(a), NEW c \in Cells, NEW d \in Shown,
         NEW b, b = Noted(a, c, d)
  PROVE  /\ AccessOK(b) /\ b.current = a.current /\ b.highest = a.highest
         /\ b.updated = a.updated
<1>1. /\ b.current = a.current /\ b.highest = a.highest /\ b.updated = a.updated
      /\ IsAccess(b) /\ DOMAIN b.edited = DOMAIN a.edited
      /\ \A x \in DOMAIN a.edited :
           b.edited[x] = IF x = c THEN EV!UpdateBackend(a.edited[x], d) ELSE a.edited[x]
  BY DEF AccessOK, IsAccess, Noted
<1>2. ASSUME NEW x \in DOMAIN a.edited
      PROVE  /\ ListOK(b.edited[x], a.current, a.highest)
             /\ EV!CurrentVersion(b.edited[x]) = EV!CurrentVersion(a.edited[x])
  <2>1. ListOK(a.edited[x], a.current, a.highest) /\ a.current \in Nat
    BY DEF AccessOK
  <2>2. d \in EV!Data
    BY EntryIs
  <2>3. CASE x = c
    <3>1. b.edited[x] = EV!UpdateBackend(a.edited[x], d)
      BY <1>1, <2>3
    <3> QED  BY <2>1, <2>2, <3>1, UpdateBackendOK
  <2>4. CASE x # c
    BY <1>1, <2>1, <2>4
  <2> QED  BY <2>3, <2>4
<1>3. HiddenIn(b) = HiddenIn(a)
  BY <1>1, <1>2 DEF HiddenIn
<1> QED  BY <1>1, <1>2, <1>3 DEF AccessOK
-----------------------------------------------------------------------------
(* The rows of the dialogs, and the proposal that RedistDialog makes.      *)
LEMMA RowsLen ==
  ASSUME NEW n \in Nat, NEW S, NEW f \in [1 .. n -> S]
  PROVE  f \in Seq(S) /\ Len(f) = n
<1>1. f \in Seq(S)
  BY SeqDef
<1>2. Len(f) \in Nat /\ DOMAIN f = 1 .. Len(f)
  BY <1>1, LenProperties
<1>3. 1 .. Len(f) = 1 .. n
  BY <1>2
<1> QED  BY <1>1, <1>2, <1>3

LEMMA SumsIs ==
  ASSUME NEW s, Len(s) \in Nat
  PROVE  Sums(s) = [n \in 0 .. Len(s) |->
                      IF n = 0 THEN 0 ELSE Sums(s)[n - 1] + Amount(s[n])]
<1> DEFINE After(f, n) == IF n = 0 THEN 0 ELSE f[n - 1] + Amount(s[n])
           Solves(f, m) == f = [n \in 0 .. m |-> After(f, n)]
           S == {m \in Nat : \E f : Solves(f, m)}
<1>1. 0 \in S
  <2>1. Solves([n \in 0 .. 0 |-> 0], 0)
    OBVIOUS
  <2> QED  BY <2>1
<1>2. ASSUME NEW m \in S PROVE m + 1 \in S
  <2>1. PICK f : Solves(f, m)
    OBVIOUS
  <2> DEFINE g == [n \in 0 .. m + 1 |-> IF n <= m THEN f[n] ELSE After(f, n)]
  <2>2. ASSUME NEW n \in 0 .. m + 1 PROVE g[n] = After(g, n)
    <3>1. n # 0 => n - 1 \in 0 .. m + 1 /\ n - 1 <= m
      OBVIOUS
    <3>2. After(g, n) = After(f, n)
      BY <3>1
    <3>3. n <= m => f[n] = After(f, n)
      <4> HIDE DEF After
      <4> QED  BY <2>1
    <3> QED  BY <3>2, <3>3
  <2>3. Solves(g, m + 1)
    BY <2>2
  <2>4. m + 1 \in Nat /\ \E h : Solves(h, m + 1)
    <3> HIDE DEF g, Solves
    <3> QED  BY <2>3
  <2> QED  BY <2>4
<1>3. Len(s) \in S
  <2> HIDE DEF S
  <2>1. S \in SUBSET Nat
    BY DEF S
  <2> QED  BY <1>1, <1>2, <2>1, AllNumbers
<1>4. \E f : Solves(f, Len(s))
  BY <1>3
<1>5. Sums(s) = CHOOSE f : Solves(f, Len(s))
  BY DEF Sums
<1> HIDE DEF Solves
<1>6. Solves(Sums(s), Len(s))
  BY <1>4, <1>5
<1> QED  BY <1>6 DEF Solves
LEMMA SumsTyped ==
  ASSUME NEW m \in Nat, NEW s \in [1 .. m -> Int], Len(s) = m, NEW n \in 0 .. m
  PROVE  Sums(s)[n] \in Nat /\ \A i \in 1 .. n : s[i] <= Sums(s)[n]
<1> DEFINE A == Sums(s)
           S == {k \in Nat : k <= m => A[k] \in Nat /\ \A i \in 1 .. k : s[i] <= A[k]}
<1>1. A = [k \in 0 .. m |-> IF k = 0 THEN 0 ELSE A[k - 1] + Amount(s[k])]
  BY SumsIs
<1> HIDE DEF A
<1>2. 0 \in S
  BY <1>1
<1>3. ASSUME NEW k \in S PROVE k + 1 \in S
  <2>1. SUFFICES ASSUME k + 1 <= m
                 PROVE  A[k + 1] \in Nat /\ \A i \in 1 .. k + 1 : s[i] <= A[k + 1]
    OBVIOUS
  <2>2. A[k] \in Nat /\ (\A i \in 1 .. k : s[i] <= A[k]) /\ k + 1 \in 0 .. m /\ k + 1 # 0
        /\ (k + 1) - 1 = k /\ k + 1 \in 1 .. m /\ 1 .. k \subseteq 1 .. m
    BY <2>1
  <2>3. A[k + 1] = A[k] + Amount(s[k + 1])
    BY <1>1, <2>2
  <2>4. s[k + 1] \in Int /\ Amount(s[k + 1]) \in Nat /\ s[k + 1] <= Amount(s[k + 1])
    BY <2>2 DEF Amount
  <2>5. \A i \in 1 .. k + 1 : i \in 1 .. k \/ i = k + 1
    BY <2>2
  <2>6. \A i \in 1 .. k : s[i] \in Int
    BY <2>2
  <2> QED  BY <2>2, <2>3, <2>4, <2>5, <2>6
<1>4. n \in S
  <2>1. S \in SUBSET Nat /\ n \in Nat
    OBVIOUS
  <2> HIDE DEF S
  <2>2. Nat \subseteq S
    BY <1>2, <1>3, <2>1, AllNumbers
  <2> QED  BY <2>1, <2>2
<1> QED  BY <1>4 DEF A
LEMMA ProposalIs ==
  ASSUME NEW n \in Nat, NEW values \in [1 .. n -> Int], NEW m \in Nat, n <= m,
         NEW weights \in [1 .. m -> Int]
  PROVE  Proposal(values, weights) \in [1 .. n -> Int]
<1> DEFINE sum == Sums(values)[n]
           all == Sums(weights)[n]
           share(w) == (2 * sum * w + all) \div (2 * all)
<1>1. Len(values) = n /\ Len(weights) = m
  BY RowsLen
<1>2. sum \in Nat
  BY <1>1, SumsTyped
<1>3. all \in Nat /\ \A i \in 1 .. n : weights[i] <= all
  <2>1. n \in 0 .. m
    OBVIOUS
  <2> QED  BY <1>1, <2>1, SumsTyped
<1>4. Proposal(values, weights) =
        [i \in 1 .. n |-> IF sum > 0 /\ weights[i] > 0 THEN share(weights[i]) ELSE DRY]
  BY <1>1 DEF Proposal
<1> HIDE DEF sum, all
<1>5. ASSUME NEW i \in 1 .. n, weights[i] > 0 PROVE share(weights[i]) \in Int
  <2>1. weights[i] \in Int /\ weights[i] <= all
    BY <1>3
  <2>2. all > 0 /\ 2 * all \in Int /\ 2 * all > 0
    BY <1>3, <1>5, <2>1
  <2>3. 2 * sum * weights[i] + all \in Int
    BY <1>2, <1>3, <2>1
  <2> DEFINE p == 2 * sum * weights[i] + all
             q == 2 * all
  <2> HIDE DEF p, q
  <2>4. p \in Int /\ q \in Int /\ q > 0
    BY <2>2, <2>3 DEF p, q
  <2>5. p \div q \in Int
    BY <2>4
  <2> QED  BY <2>5 DEF p, q
<1> HIDE DEF share
<1>6. DRY \in Int
  BY MissingIs
<1> QED  BY <1>4, <1>5, <1>6

-----------------------------------------------------------------------------
(* What the variables hold.                                                *)
ParentOK(p) == p \in [Cells -> Untaskeds \cup {NoObs}]
SelOK(s, span) ==
  /\ s.lo \in Days /\ s.hi \in Days /\ s.lo <= s.hi
  /\ s.col = "corrected" => span[1] <= s.lo /\ s.hi <= span[2]
RowCount(s) == s.hi - s.lo + 1
SubTyped(b, s) ==
  /\ b = [kind |-> b.kind, values |-> b.values, ars |-> b.ars]
  /\ b.kind \in {"edit", "redist"}
  /\ b.values \in [1 .. RowCount(s) -> Int]
  /\ b.ars \in [1 .. RowCount(s) -> {"none", "accept", "reject"}]
Hows == {"analysis", "accept", "redistQC2", "edit", "redist"}
Tooks == [how : Hows, days : SUBSET Days]
ClosedInv ==
  dialog = "closed" => /\ da = NoEdits /\ sel = << >> /\ sub = << >> /\ taken = << >>
                       /\ stale = {} /\ buttons = {}
OpenInv ==
  dialog = "open" => /\ editable = EditableSpan(Fresh(atOpen), FirstDay, LastDay)
                     /\ da.current >= 1 /\ Len(taken) = da.highest
                     /\ "opening" \notin stale => parent = atOpen
SelInv == sel # << >> => SelOK(sel[1], editable)
SubInv == sub # << >> => sel # << >> /\ SubTyped(sub[1], sel[1])
TypeInv ==
  /\ ParentOK(parent) /\ ParentOK(atOpen) /\ AccessOK(da)
  /\ dialog \in {"open", "closed"} /\ (stale # {} => "opening" \in stale)
  /\ taken \in Seq(Tooks)
  /\ ClosedInv /\ OpenInv /\ SelInv /\ SubInv

LEMMA TypedIs ==
  ASSUME TypeInv
  PROVE  /\ parent \in [Cells -> Shown] /\ WorkOK(Work) /\ Work.card = View(da)
         /\ View(da) = ViewOf(parent, da)
         /\ dialog = "open" => SpanOK(editable) /\ editable \in Int \X Int
         /\ sub # << >> => dialog = "open"
<1>1. parent \in [Cells -> Shown]
  BY DEF TypeInv, ParentOK, Shown, Untaskeds
<1>2. View(da) = ViewOf(parent, da)
  BY DEF View, ViewOf
<1>3. WorkOK(Work) /\ Work.card = View(da)
  BY <1>1, <1>2, ViewIs DEF Work, TypeInv
<1>4. dialog = "open" => SpanOK(editable) /\ editable \in Int \X Int
  BY SpanIs DEF TypeInv, OpenInv
<1> QED  BY <1>1, <1>2, <1>3, <1>4 DEF TypeInv, ClosedInv

(* What an operation of the dialog does to the card. *)
OpKeeps(w, v, t, span) ==
  /\ Follows(w, v) /\ t \in Tooks /\ (t.how \in {"edit", "redist", "redistQC2"} \/ t.days = {})
  /\ KeepsMarks(w, v, t.days)
  /\ KeepsParts(w, v, IF t.how \in {"edit", "redist"} THEN t.days ELSE {})
  /\ t.how \in {"edit", "redist"} => MarksCut(w, v, span, t.days)
AnOperation(took) ==
  \E work : Operation(work, took) /\ OpKeeps(Work, work, took, editable) /\ sub' = << >>
NoOperation ==
  ClearSelection(da) /\ UNCHANGED << parent, da, dialog, editable, sub, sessions, atOpen, taken >>

LEMMA AcceptRowIs ==
  ASSUME TypeInv, AcceptRow
  PROVE  /\ dialog = "open" /\ sub = << >>
         /\ NoOperation \/ AnOperation(Took("accept", {}))
<1>1. dialog = "open" /\ sub = << >> /\ sel # << >> /\ sub' = sub
  BY DEF AcceptRow, Pressed
<1>2. SelOK(sel[1], editable) /\ WorkOK(Work)
  BY <1>1, TypedIs DEF TypeInv, SelInv
<1> DEFINE s == sel[1]
           work == IF s.col = "row" THEN FccAcceptRow(Work, s.lo)
                   ELSE Accept(Work, s.lo, s.hi, TRUE)
           t == Took("accept", {})
<1>3. /\ t \in Tooks /\ t.how = "accept" /\ t.days = {}
  BY DEF Tooks, Hows, Took
<1>4. Follows(Work, work) /\ KeepsMarks(Work, work, {}) /\ KeepsParts(Work, work, {})
  <2>1. CASE s.col = "row"
    <3>1. s.lo \in Days /\ work = FccAcceptRow(Work, s.lo)
      BY <1>2, <2>1 DEF SelOK
    <3> HIDE DEF work, s
    <3> QED  BY <1>2, <3>1, RowIs
  <2>2. CASE s.col # "row"
    <3>1. s.lo \in Days /\ s.hi \in Days /\ work = Accepted(Work, s.lo, s.hi)
      BY <1>2, <2>2 DEF SelOK, Accepted
    <3> HIDE DEF work, s
    <3> QED  BY <1>2, <3>1, AcceptIs
  <2> QED  BY <2>1, <2>2
<1>5. OpKeeps(Work, work, t, editable)
  <2> HIDE DEF work, t
  <2> QED  BY <1>3, <1>4 DEF OpKeeps
<1>6. \/ ClearSelection(da) /\ UNCHANGED << parent, da, dialog, editable, sessions, atOpen, taken >>
      \/ Operation(work, t)
  BY DEF AcceptRow
<1>7. NoOperation \/ AnOperation(t)
  <2> HIDE DEF work, t
  <2> QED  BY <1>1, <1>5, <1>6 DEF NoOperation, AnOperation
<1> QED  BY <1>1, <1>7

LEMMA RedistributeQC2Is ==
  ASSUME TypeInv, RedistributeQC2
  PROVE  /\ dialog = "open" /\ sub = << >>
         /\ AnOperation(Took("redistQC2", sel[1].lo .. sel[1].hi - 1))
<1>1. dialog = "open" /\ sub = << >> /\ sel # << >> /\ sub' = sub
  BY DEF RedistributeQC2, Pressed
<1>2. SelOK(sel[1], editable) /\ WorkOK(Work) /\ SpanOK(editable)
  BY <1>1, TypedIs DEF TypeInv, SelInv
<1> DEFINE s == sel[1]
           work == RedistributeInQC2(Work, s.lo, s.hi, editable)
           t == Took("redistQC2", s.lo .. s.hi - 1)
<1>3. s.lo \in Days /\ s.hi \in Days /\ s.lo \in Int /\ s.hi \in Int
  BY <1>2, DayIs DEF SelOK
<1>4. s.lo < s.hi
  <2>1. s.hi > s.lo
    BY DEF RedistributeQC2, CanRedistributeInQC2
  <2> QED  BY <1>3, <2>1
<1>5. Operation(work, t)
  BY DEF RedistributeQC2
<1> HIDE DEF s
<1>6. t \in Tooks /\ t.how = "redistQC2" /\ t.days = s.lo .. s.hi - 1
  <2>1. s.lo .. s.hi - 1 \subseteq Days
    BY <1>3, DayIs
  <2> QED  BY <2>1 DEF Tooks, Hows, Took
<1>7. /\ Follows(Work, work)
      /\ KeepsMarks(Work, work, s.lo .. s.hi - 1) /\ KeepsParts(Work, work, {})
  BY <1>2, <1>3, <1>4, RedistQC2Is
<1>8. OpKeeps(Work, work, t, editable)
  <2> HIDE DEF work, t
  <2> QED  BY <1>6, <1>7 DEF OpKeeps
<1>9. AnOperation(t)
  <2> HIDE DEF work, t
  <2> QED  BY <1>1, <1>5, <1>8 DEF AnOperation
<1> QED  BY <1>1, <1>9 DEF s

(* The open dialog's days: those of its selection, or its handled rows.    *)
LEMMA SubDaysAre ==
  ASSUME TypeInv, sub # << >>
  PROVE  /\ SelOK(sel[1], editable) /\ SubTyped(sub[1], sel[1])
         /\ sel[1].lo \in Int /\ sel[1].hi \in Int /\ RowCount(sel[1]) \in Nat
         /\ Len(sub[1].values) = RowCount(sel[1]) /\ Len(sub[1].ars) = RowCount(sel[1])
         /\ sub[1].kind = "redist" => SubDays(sub[1]) = sel[1].lo .. sel[1].hi
         /\ sub[1].kind = "edit" => SubDays(sub[1]) = Handled(sel[1].lo, sub[1].ars, RowCount(sel[1]))
         /\ SubDays(sub[1]) \in SUBSET (sel[1].lo .. sel[1].hi)
<1> DEFINE s == sel[1]
           b == sub[1]
<1>1. SelOK(s, editable) /\ SubTyped(b, s)
  BY DEF TypeInv, SelInv, SubInv
<1>2. s.lo \in Int /\ s.hi \in Int /\ RowCount(s) \in Nat
  <2>1. s.lo \in Days /\ s.hi \in Days /\ s.lo <= s.hi
    BY <1>1 DEF SelOK
  <2>2. s.lo \in Int /\ s.hi \in Int
    BY <2>1, DayIs
  <2> QED  BY <2>1, <2>2 DEF RowCount
<1>3. Len(b.values) = RowCount(s) /\ Len(b.ars) = RowCount(s) /\ DOMAIN b.ars = 1 .. RowCount(s)
  BY <1>1, <1>2, RowsLen DEF SubTyped
<1>4. SubDays(b) = {s.lo + i - 1 : i \in {k \in 1 .. RowCount(s) : b.kind = "redist" \/ b.ars[k] # "none"}}
  BY <1>3 DEF SubDays
<1> HIDE DEF s, b
<1>5. ASSUME b.kind = "redist" PROVE SubDays(b) = s.lo .. s.hi
  <2>1. SubDays(b) = {s.lo + i - 1 : i \in 1 .. RowCount(s)}
    BY <1>4, <1>5
  <2>2. ASSUME NEW d \in s.lo .. s.hi PROVE d \in {s.lo + i - 1 : i \in 1 .. RowCount(s)}
    <3>1. d - s.lo + 1 \in 1 .. RowCount(s) /\ s.lo + (d - s.lo + 1) - 1 = d
      BY <1>2 DEF RowCount
    <3> QED  BY <3>1
  <2>3. ASSUME NEW i \in 1 .. RowCount(s) PROVE s.lo + i - 1 \in s.lo .. s.hi
    BY <1>2 DEF RowCount
  <2> QED  BY <2>1, <2>2, <2>3
<1>6. ASSUME b.kind = "edit" PROVE SubDays(b) = Handled(s.lo, b.ars, RowCount(s))
  BY <1>4, <1>6 DEF Handled
<1>7. SubDays(b) \in SUBSET (s.lo .. s.hi)
  <2>1. \A i \in 1 .. RowCount(s) : s.lo + i - 1 \in s.lo .. s.hi
    BY <1>2 DEF RowCount
  <2> QED  BY <1>4, <2>1
<1> QED  BY <1>1, <1>2, <1>3, <1>5, <1>6, <1>7 DEF s, b

LEMMA SubOkIs ==
  ASSUME TypeInv, SubOk
  PROVE  /\ dialog = "open" /\ sub # << >>
         /\ AnOperation(Took(sub[1].kind, SubDays(sub[1])))
         /\ \E work : /\ Operation(work, Took(sub[1].kind, SubDays(sub[1])))
                      /\ Follows(Work, work)
                      /\ KeepsEdges(Work, work, SubDays(sub[1]))
                      /\ MarksCut(Work, work, editable, SubDays(sub[1]))
<1>1. sub # << >> /\ sub' = << >> /\ dialog = "open"
  BY TypedIs DEF SubOk
<1> DEFINE s == sel[1]
           b == sub[1]
           days == SubDays(b)
           work == IF b.kind = "edit" THEN Singles(Work, s.lo, editable, b.values, b.ars)
                   ELSE Redistribute(Work, s.lo, editable, b.values)
           t == Took(b.kind, days)
<1>2. WorkOK(Work) /\ SpanOK(editable)
  BY <1>1, TypedIs
<1>3. Operation(work, t)
  BY DEF SubOk
<1>4. /\ SelOK(s, editable) /\ SubTyped(b, s)
      /\ s.lo \in Int /\ s.hi \in Int /\ RowCount(s) \in Nat
      /\ Len(b.values) = RowCount(s) /\ Len(b.ars) = RowCount(s)
      /\ b.kind = "redist" => days = s.lo .. s.hi
      /\ b.kind = "edit" => days = Handled(s.lo, b.ars, RowCount(s))
      /\ days \in SUBSET (s.lo .. s.hi)
  BY <1>1, SubDaysAre
<1> HIDE DEF s, b, days
<1>5. s.lo \in Days /\ s.hi \in Days /\ s.lo <= s.hi
  BY <1>4 DEF SelOK
<1>6. b.values \in [1 .. s.hi - s.lo + 1 -> Int] /\ b.kind \in {"edit", "redist"}
  BY <1>4 DEF SubTyped, RowCount
<1>7. /\ Follows(Work, work)
      /\ KeepsMarks(Work, work, days) /\ KeepsParts(Work, work, days)
      /\ KeepsEdges(Work, work, days) /\ MarksCut(Work, work, editable, days)
  <2>1. CASE b.kind = "edit"
    <3>1. work = Singles(Work, s.lo, editable, b.values, b.ars)
          /\ Len(b.ars) = s.hi - s.lo + 1 /\ days = Handled(s.lo, b.ars, s.hi - s.lo + 1)
      BY <1>4, <2>1 DEF RowCount
    <3> HIDE DEF work
    <3> QED  BY <1>2, <1>5, <1>6, <3>1, SinglesIs
  <2>2. CASE b.kind = "redist"
    <3>1. work = Redistribute(Work, s.lo, editable, b.values)
          /\ Len(b.values) = s.hi - s.lo + 1 /\ days = s.lo .. s.hi
      BY <1>4, <2>2 DEF RowCount
    <3> HIDE DEF work
    <3>2. /\ Follows(Work, work)
          /\ KeepsMarks(Work, work, s.lo .. s.hi) /\ KeepsParts(Work, work, s.lo .. s.hi)
          /\ KeepsEdges(Work, work, s.lo .. s.hi) /\ MarksCut(Work, work, editable, s.lo .. s.hi)
      BY <1>2, <1>5, <1>6, <3>1, RedistIs
    <3> QED  BY <3>1, <3>2
  <2> QED  BY <1>6, <2>1, <2>2
<1>8. t \in Tooks /\ t.how = b.kind /\ t.days = days
  <2>1. days \in SUBSET Days
    <3>1. s.lo .. s.hi \subseteq Days
      BY <1>4, <1>5, DayIs
    <3> QED  BY <1>4, <3>1
  <2> QED  BY <1>6, <2>1 DEF Tooks, Hows, Took
<1> HIDE DEF work, t
<1>9. OpKeeps(Work, work, t, editable)
  BY <1>6, <1>7, <1>8 DEF OpKeeps
<1>10. AnOperation(t)
  BY <1>1, <1>3, <1>9 DEF AnOperation
<1>11. \E v : /\ Operation(v, t) /\ Follows(Work, v)
              /\ KeepsEdges(Work, v, days) /\ MarksCut(Work, v, editable, days)
  BY <1>3, <1>7
<1> QED  BY <1>1, <1>10, <1>11 DEF t, b, days
-----------------------------------------------------------------------------
(* The analysis.  First what its marks mean: a day is broken if it is not  *)
(* followed by days redistributed in the same way, up to an endpoint that  *)
(* was redistributed in that way, too.                                     *)
EndsAt(w, d, e) ==
  Here(w, e) /\ End(w, e) # NO /\ \A k \in d .. e - 1 : Unended(w, k)
EndsWith(w, hi, d, a) == \E e \in d .. hi : EndsAt(w, d, e) /\ End(w, e) = a
Broken(w, hi, d) == ~ (Acc(w, d + 1) = Acc(w, d) /\ EndsWith(w, hi, d + 1, Acc(w, d)))
Whole(w, hi, d) ==
  \E e \in d + 1 .. hi :
    /\ \A k \in d .. e : Here(w, k) /\ Acc(w, k) = Acc(w, d)
    /\ End(w, e) # NO /\ \A k \in d .. e - 1 : End(w, k) = NO
RunHas(w, hi, d, M) ==
  \E k \in d .. hi : k \in M /\ \A j \in d .. k : Unended(w, j)

LEMMA FlagKinds ==
  ASSUME NEW w, NEW d
  PROVE  /\ End(w, d) # NO => Acc(w, d) = End(w, d)
         /\ Acc(w, d) \in Int /\ End(w, d) \in Int
BY DEF Acc, End, Ci, IsAccumulation, IsEndpoint, NO, BEFORE_REDIST, QC2_REDIST, HQC_REDIST

LEMMA OneEnd ==
  ASSUME NEW w, NEW d \in Int, NEW e \in Int, NEW f \in Int, d <= e, d <= f,
         EndsAt(w, d, e), EndsAt(w, d, f)
  PROVE  e = f
<1>1. ASSUME e < f PROVE FALSE
  <2>1. e \in d .. f - 1
    BY <1>1
  <2>2. Unended(w, e)
    BY <2>1 DEF EndsAt
  <2> QED  BY <2>2 DEF EndsAt, Unended
<1>2. ASSUME f < e PROVE FALSE
  <2>1. f \in d .. e - 1
    BY <1>2
  <2>2. Unended(w, f)
    BY <2>1 DEF EndsAt
  <2> QED  BY <2>2 DEF EndsAt, Unended
<1> QED  BY <1>1, <1>2

(* A day that is broken is not part of a whole accumulation. *)
LEMMA BrokenIsNotWhole ==
  ASSUME NEW w, NEW hi \in Int, NEW d \in Int, Unended(w, d), Whole(w, hi, d)
  PROVE  ~Broken(w, hi, d)
<1>1. PICK e \in d + 1 .. hi :
        /\ \A k \in d .. e : Here(w, k) /\ Acc(w, k) = Acc(w, d)
        /\ End(w, e) # NO /\ \A k \in d .. e - 1 : End(w, k) = NO
  BY DEF Whole
<1>2. d + 1 \in d .. e /\ e \in d .. e
  BY <1>1
<1>3. Acc(w, d + 1) = Acc(w, d) /\ Here(w, e) /\ Acc(w, e) = Acc(w, d) /\ Acc(w, d) # NO
  BY <1>1, <1>2 DEF Unended
<1>4. ASSUME NEW k \in d + 1 .. e - 1 PROVE Unended(w, k)
  <2>1. k \in d .. e /\ k \in d .. e - 1
    BY <1>1
  <2> QED  BY <1>1, <1>3, <2>1 DEF Unended
<1>5. EndsAt(w, d + 1, e) /\ End(w, e) = Acc(w, d)
  BY <1>1, <1>3, <1>4, FlagKinds DEF EndsAt
<1>6. EndsWith(w, hi, d + 1, Acc(w, d))
  BY <1>1, <1>5 DEF EndsWith
<1> QED  BY <1>3, <1>6 DEF Broken

(* Going on from a day that is not broken. *)
LEMMA OnFromUnbroken ==
  ASSUME NEW w, NEW hi \in Int, NEW d \in Int, Unended(w, d), ~Broken(w, hi, d)
  PROVE  /\ d + 1 <= hi
         /\ Unended(w, d + 1) => (Whole(w, hi, d) <=> Whole(w, hi, d + 1))
         /\ ~Unended(w, d + 1) => Whole(w, hi, d)
<1>0. Here(w, d) /\ Acc(w, d) # NO /\ End(w, d) = NO
  BY DEF Unended
<1>1. Acc(w, d + 1) = Acc(w, d) /\ EndsWith(w, hi, d + 1, Acc(w, d))
  BY DEF Broken
<1>2. PICK e \in d + 1 .. hi : EndsAt(w, d + 1, e) /\ End(w, e) = Acc(w, d)
  BY <1>1 DEF EndsWith
<1>3. e \in Int /\ d + 1 <= e /\ e <= hi /\ d + 1 <= hi
  BY <1>2
<1>4. ASSUME Unended(w, d + 1), Whole(w, hi, d) PROVE Whole(w, hi, d + 1)
  <2>1. PICK x \in d + 1 .. hi :
          /\ \A k \in d .. x : Here(w, k) /\ Acc(w, k) = Acc(w, d)
          /\ End(w, x) # NO /\ \A k \in d .. x - 1 : End(w, k) = NO
    BY <1>4 DEF Whole
  <2>2. x # d + 1
    BY <1>4, <2>1 DEF Unended
  <2>3. x \in (d + 1) + 1 .. hi /\ d + 1 .. x \subseteq d .. x /\ d + 1 .. x - 1 \subseteq d .. x - 1
    BY <2>1, <2>2
  <2> QED  BY <1>1, <2>1, <2>3 DEF Whole
<1>5. ASSUME Unended(w, d + 1), Whole(w, hi, d + 1) PROVE Whole(w, hi, d)
  <2>1. PICK x \in (d + 1) + 1 .. hi :
          /\ \A k \in d + 1 .. x : Here(w, k) /\ Acc(w, k) = Acc(w, d + 1)
          /\ End(w, x) # NO /\ \A k \in d + 1 .. x - 1 : End(w, k) = NO
    BY <1>5 DEF Whole
  <2>2. x \in d + 1 .. hi /\ (\A k \in d .. x : k = d \/ k \in d + 1 .. x)
        /\ (\A k \in d .. x - 1 : k = d \/ k \in d + 1 .. x - 1)
    BY <2>1
  <2>3. \A k \in d .. x : Here(w, k) /\ Acc(w, k) = Acc(w, d)
    BY <1>0, <1>1, <2>1, <2>2
  <2>4. \A k \in d .. x - 1 : End(w, k) = NO
    BY <1>0, <2>1, <2>2
  <2> QED  BY <2>1, <2>2, <2>3, <2>4 DEF Whole
<1>6. ASSUME ~Unended(w, d + 1) PROVE Whole(w, hi, d)
  <2>1. e = d + 1
    <3>1. SUFFICES ASSUME e # d + 1 PROVE FALSE
      OBVIOUS
    <3>2. d + 1 \in d + 1 .. e - 1
      BY <1>3, <3>1
    <3> QED  BY <1>2, <1>6, <3>2 DEF EndsAt
  <2>2. Here(w, d + 1) /\ End(w, d + 1) # NO
    BY <1>2, <2>1 DEF EndsAt
  <2>3. d + 1 \in d + 1 .. hi /\ (\A k \in d .. d + 1 : k = d \/ k = d + 1)
        /\ (\A k \in d .. (d + 1) - 1 : k = d)
    BY <1>3
  <2>4. \A k \in d .. d + 1 : Here(w, k) /\ Acc(w, k) = Acc(w, d)
    BY <1>0, <1>1, <2>2, <2>3
  <2>5. \A k \in d .. (d + 1) - 1 : End(w, k) = NO
    BY <1>0, <2>3
  <2> QED  BY <2>2, <2>3, <2>4, <2>5 DEF Whole
<1> QED  BY <1>3, <1>4, <1>5, <1>6

(* When the broken days are marked, a run of days has a mark if and only   *)
(* if it is not whole.                                                     *)
CompleteFrom(w, hi, d, M) == Unended(w, d) => (~Whole(w, hi, d) <=> RunHas(w, hi, d, M))
LEMMA MarksAreComplete ==
  ASSUME NEW w, NEW lo \in Int, NEW hi \in Int, NEW M,
         \A d \in lo .. hi : Unended(w, d) => (d \in M <=> Broken(w, hi, d)),
         NEW d0 \in lo .. hi
  PROVE  CompleteFrom(w, hi, d0, M)
<1> DEFINE S == {n \in Nat : lo <= hi - n => CompleteFrom(w, hi, hi - n, M)}
<1>0. ASSUME NEW d \in lo .. hi, d < hi => CompleteFrom(w, hi, d + 1, M)
      PROVE  CompleteFrom(w, hi, d, M)
  <2>1. SUFFICES ASSUME Unended(w, d) PROVE ~Whole(w, hi, d) <=> RunHas(w, hi, d, M)
    BY DEF CompleteFrom
  <2>2. d \in Int /\ d <= hi /\ d \in d .. hi /\ (\A j \in d .. d : j = d) /\ d + 1 \in Int
    OBVIOUS
  <2>3. d \in M <=> Broken(w, hi, d)
    BY <2>1
  <2>4. CASE d \in M
    <3>1. ~Whole(w, hi, d)
      BY <2>1, <2>2, <2>3, <2>4, BrokenIsNotWhole
    <3>2. RunHas(w, hi, d, M)
      BY <2>1, <2>2, <2>4 DEF RunHas
    <3> QED  BY <3>1, <3>2
  <2>5. CASE d \notin M
    <3>1. /\ d + 1 <= hi
          /\ Unended(w, d + 1) => (Whole(w, hi, d) <=> Whole(w, hi, d + 1))
          /\ ~Unended(w, d + 1) => Whole(w, hi, d)
      BY <2>1, <2>2, <2>3, <2>5, OnFromUnbroken
    <3>2. ASSUME RunHas(w, hi, d, M)
          PROVE  Unended(w, d + 1) /\ RunHas(w, hi, d + 1, M)
      <4>1. PICK k \in d .. hi : k \in M /\ \A j \in d .. k : Unended(w, j)
        BY <3>2 DEF RunHas
      <4>2. k # d /\ k \in d + 1 .. hi /\ d + 1 \in d .. k /\ d + 1 .. k \subseteq d .. k
        BY <2>2, <2>5, <4>1
      <4> QED  BY <4>1, <4>2 DEF RunHas
    <3>3. ASSUME RunHas(w, hi, d + 1, M) PROVE RunHas(w, hi, d, M)
      <4>1. PICK k \in d + 1 .. hi : k \in M /\ \A j \in d + 1 .. k : Unended(w, j)
        BY <3>3 DEF RunHas
      <4>2. k \in d .. hi /\ \A j \in d .. k : j = d \/ j \in d + 1 .. k
        BY <2>2, <4>1
      <4> QED  BY <2>1, <4>1, <4>2 DEF RunHas
    <3>4. CASE Unended(w, d + 1)
      <4>1. ~Whole(w, hi, d + 1) <=> RunHas(w, hi, d + 1, M)
        BY <1>0, <2>2, <3>1, <3>4 DEF CompleteFrom
      <4> QED  BY <3>1, <3>2, <3>3, <3>4, <4>1
    <3>5. CASE ~Unended(w, d + 1)
      BY <3>1, <3>2, <3>5
    <3> QED  BY <3>4, <3>5
  <2> QED  BY <2>4, <2>5
<1>1. 0 \in S
  <2>1. SUFFICES ASSUME lo <= hi - 0 PROVE CompleteFrom(w, hi, hi - 0, M)
    OBVIOUS
  <2>2. hi - 0 = hi /\ hi \in lo .. hi
    BY <2>1
  <2> QED  BY <1>0, <2>2
<1>2. ASSUME NEW n \in S PROVE n + 1 \in S
  <2>1. SUFFICES ASSUME lo <= hi - (n + 1) PROVE CompleteFrom(w, hi, hi - (n + 1), M)
    OBVIOUS
  <2>2. hi - (n + 1) \in lo .. hi /\ (hi - (n + 1)) + 1 = hi - n /\ lo <= hi - n
    BY <2>1
  <2>3. CompleteFrom(w, hi, hi - n, M)
    BY <2>2
  <2> QED  BY <1>0, <2>2, <2>3
<1>3. hi - d0 \in S
  <2>1. S \in SUBSET Nat /\ hi - d0 \in Nat
    OBVIOUS
  <2> HIDE DEF S
  <2>2. Nat \subseteq S
    BY <1>1, <1>2, <2>1, AllNumbers
  <2> QED  BY <2>1, <2>2
<1>4. lo <= hi - (hi - d0) /\ hi - (hi - d0) = d0
  OBVIOUS
<1>5. lo <= hi - (hi - d0) => CompleteFrom(w, hi, hi - (hi - d0), M)
  <2> HIDE DEF CompleteFrom
  <2> QED  BY <1>3
<1> QED  BY <1>4, <1>5
-----------------------------------------------------------------------------
(* One day of the backward loop of the analysis. *)
HqcTask(acc, fhqc) ==
  CASE acc = BEFORE_REDIST /\ fhqc \notin {0, 4} -> {"hqc_before_redist"}
    [] acc = QC2_REDIST /\ fhqc \notin {0, 1, 4} -> {"hqc_automatic"}
    [] OTHER -> {}
TaskOf(s, d) ==
  LET acc == Acc(s.da, d)
      endp == End(s.da, d)
      fhqc == Ci(s.da, d).fhqc
  IN  CASE acc = NO -> IF Matches(UncertainFd, Ci(s.da, d)) THEN {"maybe_accumulated"} ELSE {}
        [] acc # NO /\ endp # NO -> HqcTask(acc, fhqc)
        [] acc # NO /\ endp = NO /\ s.have = NO -> {"no_endpoint"}
        [] acc # NO /\ endp = NO /\ s.have # NO ->
             IF s.have # acc \/ s.acc # acc THEN {"mixed_redistribution"} ELSE HqcTask(acc, fhqc)
LoneOf(s, d) ==
  CASE s.endp = NO -> {}
    [] s.endp # NO /\ Acc(s.da, d) = NO -> {"no_endpoint"}
    [] s.endp # NO /\ Acc(s.da, d) # NO ->
         IF End(s.da, d) # NO THEN {"no_accumulation_days"} ELSE {}
DaOf(s, d) ==
  IF LoneOf(s, d) = {} THEN s.da
  ELSE Put(s.da, [c \in {Cell(d + 1)} |-> AddTasks(CreateU(s.da, c), LoneOf(s, d))])
HaveOf(s, d) ==
  IF Acc(s.da, d) = NO THEN NO ELSE IF End(s.da, d) # NO THEN End(s.da, d) ELSE s.have
LEMMA AnalyseHere ==
  ASSUME NEW s, NEW d, Here(s.da, d)
  PROVE  AnalyseDay(s, d) =
           [da |-> DaOf(s, d),
            updates |-> IF TaskOf(s, d) = {} THEN s.updates
                        ELSE With(s.updates, Cell(d),
                                  AddTasks(CreateU(DaOf(s, d), Cell(d)), TaskOf(s, d))),
            acc |-> Acc(s.da, d), endp |-> End(s.da, d), have |-> HaveOf(s, d)]
BY DEF AnalyseDay, DaOf, TaskOf, HaveOf, LoneOf, HqcTask

AnalysisTasks == {"no_endpoint", "mixed_redistribution"}
LEMMA TasksOfDay ==
  ASSUME NEW s, NEW d
  PROVE  /\ TaskOf(s, d) \in SUBSET Tasks /\ LoneOf(s, d) \in SUBSET Tasks
         /\ LoneOf(s, d) # {} => s.endp # NO
         /\ Acc(s.da, d) # NO /\ End(s.da, d) = NO =>
              (TaskOf(s, d) \cap AnalysisTasks # {}
                 <=> s.have = NO \/ s.have # Acc(s.da, d) \/ s.acc # Acc(s.da, d))
<1> DEFINE acc == Acc(s.da, d)
           endp == End(s.da, d)
           fhqc == Ci(s.da, d).fhqc
           unc == Matches(UncertainFd, Ci(s.da, d))
<1>1. HqcTask(acc, fhqc) \in SUBSET Tasks /\ HqcTask(acc, fhqc) \cap AnalysisTasks = {}
  BY DEF HqcTask, Tasks, ALL_RR24_TASKS, AnalysisTasks
<1>2. \/ acc = NO /\ unc /\ TaskOf(s, d) = {"maybe_accumulated"}
      \/ acc = NO /\ ~unc /\ TaskOf(s, d) = {}
      \/ acc # NO /\ endp # NO /\ TaskOf(s, d) = HqcTask(acc, fhqc)
      \/ acc # NO /\ endp = NO /\ s.have = NO /\ TaskOf(s, d) = {"no_endpoint"}
      \/ /\ acc # NO /\ endp = NO /\ s.have # NO /\ (s.have # acc \/ s.acc # acc)
         /\ TaskOf(s, d) = {"mixed_redistribution"}
      \/ /\ acc # NO /\ endp = NO /\ s.have # NO /\ ~(s.have # acc \/ s.acc # acc)
         /\ TaskOf(s, d) = HqcTask(acc, fhqc)
  BY DEF TaskOf
<1>3. \/ s.endp = NO /\ LoneOf(s, d) = {}
      \/ s.endp # NO /\ LoneOf(s, d) = {"no_endpoint"}
      \/ s.endp # NO /\ LoneOf(s, d) = {"no_accumulation_days"}
      \/ s.endp # NO /\ LoneOf(s, d) = {}
  BY DEF LoneOf
<1>4. /\ {"no_endpoint"} \in SUBSET Tasks /\ {"mixed_redistribution"} \in SUBSET Tasks
      /\ {"maybe_accumulated"} \in SUBSET Tasks /\ {"no_accumulation_days"} \in SUBSET Tasks
      /\ {} \in SUBSET Tasks
      /\ {"no_endpoint"} \cap AnalysisTasks # {} /\ {"mixed_redistribution"} \cap AnalysisTasks # {}
  BY DEF Tasks, ALL_RR24_TASKS, AnalysisTasks
<1> HIDE DEF acc, endp, fhqc, unc
<1>5. TaskOf(s, d) \in SUBSET Tasks
  BY <1>1, <1>2, <1>4
<1>6. LoneOf(s, d) \in SUBSET Tasks /\ (LoneOf(s, d) # {} => s.endp # NO)
  BY <1>3, <1>4
<1>7. acc # NO /\ endp = NO =>
        (TaskOf(s, d) \cap AnalysisTasks # {} <=> s.have = NO \/ s.have # acc \/ s.acc # acc)
  BY <1>1, <1>2, <1>4
<1> QED  BY <1>5, <1>6, <1>7 DEF acc, endp

\* An update that a day's analysis makes of what was there before.
UpdateOf(w, u, d) ==
  /\ u \in Update
  /\ Here(w, d) => /\ DataOf(u).original = w.card[Cell(d)].original
                   /\ DataOf(u).corrected = w.card[Cell(d)].corrected
                   /\ DataOf(u).ci = w.card[Cell(d)].ci
                   /\ w.card[Cell(d)].tasks \subseteq DataOf(u).tasks
  /\ ~Here(w, d) => DataOf(u).ci = MissingControl
LEMMA UpdateOfIs ==
  ASSUME NEW w, WorkOK(w), NEW v, WorkOK(v), NEW d \in Days, Spared(w, v, d),
         NEW ts \in SUBSET Tasks, NEW u, u = AddTasks(CreateU(v, Cell(d)), ts)
  PROVE  UpdateOf(w, u, d) /\ u.tasks = CreateU(v, Cell(d)).tasks \cup ts
<1> DEFINE c == Cell(d)
           x == CreateU(v, c)
<1>1. c \in Cells
  BY CellIs
<1> HIDE DEF c
<1>2. /\ x \in Update
      /\ v.card[c] = NoObs => x.ci = MissingControl
  BY <1>1, CreateUIs
<1> HIDE DEF x
<1>3. u = AddTasks(x, ts)
  BY DEF x, c
<1>4. u \in Update /\ u.ci = x.ci /\ u.tasks = x.tasks \cup ts
  BY <1>2, <1>3, TasksIs
<1>5. DataOf(u).ci = u.ci
  BY <1>4, DataIs
<1>6. CASE Here(w, d)
  <2>1. v.card[c] # NoObs
    BY <1>6 DEF Spared, Here, c
  <2>2. u = AddTasks(CreateU(v, c), ts)
    BY <1>3 DEF x
  <2> DEFINE obs == DataOf(u)
  <2>3. obs = DataOf(AddTasks(CreateU(v, c), ts))
    BY <2>2
  <2> HIDE DEF obs
  <2>4. /\ obs.original = v.card[c].original /\ obs.corrected = v.card[c].corrected
        /\ obs.ci = v.card[c].ci /\ obs.tasks = v.card[c].tasks \cup ts
    BY <1>1, <2>1, <2>3, OnlyTasks
  <2> QED  BY <1>4, <1>6, <2>4 DEF UpdateOf, Spared, c, x, obs
<1>7. CASE ~Here(w, d)
  <2>1. v.card[c] = NoObs
    BY <1>7 DEF Spared, Here, c
  <2> QED  BY <1>2, <1>4, <1>5, <1>7, <2>1 DEF UpdateOf, x, c
<1> QED  BY <1>6, <1>7

(* What the loop has done when the day nx is done, up to the last day hi.  *)
Plain(w) == \A c \in Cells : w.card[c] # NoObs => w.card[c].tasks = {}
Marked(us, d) == Cell(d) \in DOMAIN us /\ us[Cell(d)].tasks \cap AnalysisTasks # {}
LoopCard(w, v) ==
  /\ Follows(w, v)
  /\ \A d \in Days : Spared(w, v, d)
  /\ \A d \in Days : Unended(w, d) => v.card[Cell(d)] = w.card[Cell(d)]
LoopUpdates(w, hi, nx, us) ==
  /\ Updates(us) /\ DOMAIN us \subseteq CellsOf(nx .. hi)
  /\ \A d \in nx .. hi : Cell(d) \in DOMAIN us => UpdateOf(w, us[Cell(d)], d)
  /\ \A d \in nx .. hi : ~Here(w, d) => Cell(d) \in DOMAIN us
  /\ \A d \in nx .. hi : Unended(w, d) => (Broken(w, hi, d) <=> Marked(us, d))
LoopSeen(w, hi, nx, s) ==
  /\ nx <= hi /\ Here(w, nx) => s.acc = Acc(w, nx)
  /\ s.endp # NO => nx <= hi /\ Here(w, nx) /\ End(w, nx) # NO
LoopHave(w, hi, nx, have) ==
  \/ have = NO /\ \A e \in nx .. hi : ~EndsAt(w, nx, e)
  \/ have # NO /\ \E e \in nx .. hi : EndsAt(w, nx, e) /\ End(w, e) = have
LoopInv(w, hi, nx, s) ==
  /\ LoopCard(w, s.da) /\ LoopUpdates(w, hi, nx, s.updates)
  /\ LoopSeen(w, hi, nx, s) /\ LoopHave(w, hi, nx, s.have)

LEMMA HaveHere ==
  ASSUME NEW w, NEW hi \in Int, NEW d \in Int, d <= hi, NEW have, LoopHave(w, hi, d + 1, have),
         Here(w, d), NEW have1,
         have1 = IF Acc(w, d) = NO THEN NO ELSE IF End(w, d) # NO THEN End(w, d) ELSE have
  PROVE  LoopHave(w, hi, d, have1)
<1>1. \A e \in d .. hi : EndsAt(w, d, e) => (e = d \/ (e \in d + 1 .. hi /\ Unended(w, d)))
  <2>1. SUFFICES ASSUME NEW e \in d .. hi, EndsAt(w, d, e), e # d PROVE e \in d + 1 .. hi /\ Unended(w, d)
    OBVIOUS
  <2>2. d \in d .. e - 1 /\ e \in d + 1 .. hi
    BY <2>1
  <2> QED  BY <2>1, <2>2 DEF EndsAt
<1>2. CASE Acc(w, d) = NO
  <2>1. \A e \in d .. hi : ~EndsAt(w, d, e)
    BY <1>1, <1>2, FlagKinds DEF EndsAt, Unended
  <2> QED  BY <1>2, <2>1 DEF LoopHave
<1>3. CASE Acc(w, d) # NO /\ End(w, d) # NO
  <2>1. EndsAt(w, d, d) /\ d \in d .. hi
    BY <1>3 DEF EndsAt
  <2>2. have1 = End(w, d) /\ have1 # NO
    BY <1>3
  <2> QED  BY <2>1, <2>2 DEF LoopHave
<1>4. CASE Acc(w, d) # NO /\ End(w, d) = NO
  <2>0. have1 = have /\ Unended(w, d)
    BY <1>4 DEF Unended
  <2>1. \A e \in d .. hi : EndsAt(w, d, e) => e \in d + 1 .. hi /\ EndsAt(w, d + 1, e)
    <3>1. SUFFICES ASSUME NEW e \in d .. hi, EndsAt(w, d, e) PROVE e \in d + 1 .. hi /\ EndsAt(w, d + 1, e)
      OBVIOUS
    <3>2. e # d
      BY <1>4, <3>1 DEF EndsAt
    <3>3. e \in d + 1 .. hi /\ d + 1 .. e - 1 \subseteq d .. e - 1
      BY <3>2
    <3> QED  BY <3>1, <3>3 DEF EndsAt
  <2>2. \A e \in d + 1 .. hi : EndsAt(w, d + 1, e) => e \in d .. hi /\ EndsAt(w, d, e)
    <3>1. SUFFICES ASSUME NEW e \in d + 1 .. hi, EndsAt(w, d + 1, e) PROVE e \in d .. hi /\ EndsAt(w, d, e)
      OBVIOUS
    <3>2. e \in d .. hi /\ \A k \in d .. e - 1 : k = d \/ k \in d + 1 .. e - 1
      OBVIOUS
    <3> QED  BY <2>0, <3>1, <3>2 DEF EndsAt
  <2> QED  BY <2>0, <2>1, <2>2 DEF LoopHave
<1> QED  BY <1>2, <1>3, <1>4

\* A day with accumulation that goes on is broken, or the loop has seen that
\* it is not.
LEMMA SeenBroken ==
  ASSUME NEW w, NEW hi \in Int, NEW d \in Int, d <= hi, NEW s,
         LoopSeen(w, hi, d + 1, s), LoopHave(w, hi, d + 1, s.have), Unended(w, d)
  PROVE  Broken(w, hi, d) <=> s.have = NO \/ s.have # Acc(w, d) \/ s.acc # Acc(w, d)
<1>0. Acc(w, d) # NO /\ d + 1 \in Int
  BY DEF Unended
<1>1. CASE s.have = NO
  <2>1. \A e \in d + 1 .. hi : ~EndsAt(w, d + 1, e)
    BY <1>1 DEF LoopHave
  <2> QED  BY <1>1, <2>1 DEF Broken, EndsWith
<1>2. CASE s.have # NO
  <2>1. PICK e \in d + 1 .. hi : EndsAt(w, d + 1, e) /\ End(w, e) = s.have
    BY <1>2 DEF LoopHave
  <2>2. e \in Int /\ d + 1 <= e /\ d + 1 <= hi
    BY <2>1
  <2>3. Here(w, d + 1)
    <3>1. CASE e = d + 1
      BY <2>1, <3>1 DEF EndsAt
    <3>2. CASE e # d + 1
      <4>1. d + 1 \in d + 1 .. e - 1
        BY <2>2, <3>2
      <4> QED  BY <2>1, <4>1 DEF EndsAt, Unended
    <3> QED  BY <3>1, <3>2
  <2>4. s.acc = Acc(w, d + 1)
    BY <2>2, <2>3 DEF LoopSeen
  <2>5. ASSUME NEW f \in d + 1 .. hi, EndsAt(w, d + 1, f) PROVE f = e
    <3>1. f \in Int /\ d + 1 <= f
      OBVIOUS
    <3> QED  BY <1>0, <2>1, <2>2, <2>5, <3>1, OneEnd
  <2>6. EndsWith(w, hi, d + 1, Acc(w, d)) <=> s.have = Acc(w, d)
    BY <2>1, <2>5 DEF EndsWith
  <2> QED  BY <1>2, <2>4, <2>6 DEF Broken
<1> QED  BY <1>1, <1>2

\* What the day after gets.
LEMMA LoneCard ==
  ASSUME NEW w, WorkOK(w), NEW hi \in Days, NEW d \in Days, d <= hi, NEW s, LoopCard(w, s.da),
         LoopSeen(w, hi, d + 1, s)
  PROVE  LoopCard(w, DaOf(s, d)) /\ WorkOK(DaOf(s, d))
         /\ s.da.card[Cell(d)] = DaOf(s, d).card[Cell(d)]
<1> DEFINE ts == LoneOf(s, d)
           v == s.da
           x == DaOf(s, d)
           c1 == Cell(d + 1)
<1>0. WorkOK(v)
  BY DEF LoopCard, Follows
<1>1. CASE ts = {}
  BY <1>0, <1>1 DEF DaOf
<1>2. CASE ts # {}
  <2>1. s.endp # NO /\ ts \in SUBSET Tasks
    BY <1>2, TasksOfDay
  <2>2. d + 1 <= hi /\ Here(w, d + 1) /\ End(w, d + 1) # NO /\ d + 1 \in Days
    BY <2>1, DayIs DEF LoopSeen
  <2>3. c1 \in Cells /\ v.card[c1] # NoObs
    BY <2>2, CellIs DEF LoopCard, Spared, Here
  <2> DEFINE us == [c \in {c1} |-> AddTasks(CreateU(v, c), ts)]
  <2>4. x = Put(v, us)
    BY <1>2 DEF DaOf
  <2> HIDE DEF ts, c1, v, x
  <2>5. CreateU(v, c1) \in Update
    BY <1>0, <2>3, CreateUIs
  <2>6. us[c1] = AddTasks(CreateU(v, c1), ts) /\ us[c1] \in Update /\ DOMAIN us = {c1}
    BY <2>1, <2>5, TasksIs
  <2>7. Updates(us)
    BY <2>3, <2>6 DEF Updates
  <2> HIDE DEF us
  <2>8. /\ Follows(v, x) /\ WorkOK(x)
        /\ \A c \in Cells : x.card[c] = IF c \in DOMAIN us THEN DataOf(us[c]) ELSE v.card[c]
    BY <1>0, <2>4, <2>7, PutIs
  <2>9. /\ x.card[c1].original = v.card[c1].original /\ x.card[c1].corrected = v.card[c1].corrected
        /\ x.card[c1].ci = v.card[c1].ci /\ x.card[c1].tasks = v.card[c1].tasks \cup ts
        /\ x.card[c1] # NoObs
    <3> DEFINE obs == x.card[c1]
    <3>1. obs = DataOf(AddTasks(CreateU(v, c1), ts))
      BY <2>3, <2>6, <2>8
    <3> HIDE DEF obs
    <3>2. /\ obs.original = v.card[c1].original /\ obs.corrected = v.card[c1].corrected
          /\ obs.ci = v.card[c1].ci /\ obs.tasks = v.card[c1].tasks \cup ts /\ obs # NoObs
      BY <1>0, <2>1, <2>3, <3>1, OnlyTasks
    <3> QED  BY <3>2 DEF obs
  <2>10. ASSUME NEW k \in Days, k # d + 1
         PROVE  x.card[Cell(k)] = v.card[Cell(k)] /\ Spared(v, x, k)
    <3>1. Cell(k) \in Cells /\ Cell(k) # c1
      BY <2>10, CellIs DEF c1
    <3>2. x.card[Cell(k)] = v.card[Cell(k)]
      BY <2>6, <2>8, <3>1
    <3> QED  BY <3>2 DEF Spared, Here
  <2>11. Spared(v, x, d + 1)
    BY <2>3, <2>9 DEF Spared, Here, c1
  <2>12. Follows(w, x)
    <3>1. Follows(w, v)
      BY DEF LoopCard, v
    <3> QED  BY <2>8, <3>1, FollowsOn
  <2>13. ASSUME NEW k \in Days PROVE Spared(w, x, k)
    <3>1. Spared(w, v, k)
      BY DEF LoopCard, v
    <3>2. Spared(v, x, k)
      BY <2>10, <2>11
    <3> QED  BY <3>1, <3>2, SparedOn
  <2>14. ASSUME NEW k \in Days, Unended(w, k) PROVE x.card[Cell(k)] = w.card[Cell(k)]
    <3>1. k # d + 1
      BY <2>2, <2>14 DEF Unended
    <3>2. v.card[Cell(k)] = w.card[Cell(k)]
      BY <2>14 DEF LoopCard, v
    <3> QED  BY <2>10, <3>1, <3>2
  <2>15. d # d + 1
    BY DayIs
  <2> QED  BY <2>8, <2>10, <2>12, <2>13, <2>14, <2>15 DEF LoopCard, x, v
<1> QED  BY <1>1, <1>2

\* The pending updates with the one of a day more.
LEMMA WithUpdate ==
  ASSUME NEW w, NEW hi \in Days, NEW d \in Days, d <= hi, NEW us,
         LoopUpdates(w, hi, d + 1, us), NEW u, UpdateOf(w, u, d),
         Unended(w, d) => (Broken(w, hi, d) <=> u.tasks \cap AnalysisTasks # {})
  PROVE  LoopUpdates(w, hi, d, With(us, Cell(d), u))
<1> DEFINE c == Cell(d)
           vs == With(us, c, u)
<1>1. /\ DOMAIN vs = DOMAIN us \cup {c} /\ vs[c] = u
      /\ \A x \in DOMAIN us : x # c => vs[x] = us[x]
  BY DEF With
<1>2. c \in Cells /\ u \in Update
  BY CellIs DEF UpdateOf
<1>3. d \in d .. hi /\ d \in Int /\ hi \in Int /\ d + 1 .. hi \subseteq d .. hi
      /\ (\A k \in d .. hi : k = d \/ (k \in d + 1 .. hi /\ k # d))
  BY DayIs
<1>4. \A k : Cell(k) = c <=> k = d
  BY CellIs
<1> HIDE DEF vs, c
<1>5. Updates(vs)
  BY <1>1, <1>2 DEF Updates, LoopUpdates
<1>6. DOMAIN vs \subseteq CellsOf(d .. hi)
  <2>1. c \in CellsOf(d .. hi)
    BY <1>3 DEF CellsOf, c
  <2>2. CellsOf(d + 1 .. hi) \subseteq CellsOf(d .. hi)
    BY <1>3 DEF CellsOf
  <2> QED  BY <1>1, <2>1, <2>2 DEF LoopUpdates
<1>7. ASSUME NEW k \in d .. hi
      PROVE  /\ Cell(k) \in DOMAIN vs => UpdateOf(w, vs[Cell(k)], k)
             /\ ~Here(w, k) => Cell(k) \in DOMAIN vs
             /\ Unended(w, k) => (Broken(w, hi, k) <=> Marked(vs, k))
  <2>1. CASE k = d
    <3>1. Cell(k) = c /\ c \in DOMAIN vs
      BY <1>1, <1>4, <2>1
    <3> QED  BY <1>1, <2>1, <3>1 DEF Marked
  <2>2. CASE k \in d + 1 .. hi /\ k # d
    <3>1. Cell(k) # c
      BY <1>4, <2>2
    <3>2. /\ Cell(k) \in DOMAIN vs <=> Cell(k) \in DOMAIN us
          /\ Cell(k) \in DOMAIN us => vs[Cell(k)] = us[Cell(k)]
      BY <1>1, <3>1
    <3>3. Marked(vs, k) <=> Marked(us, k)
      BY <3>2 DEF Marked
    <3> QED  BY <2>2, <3>2, <3>3 DEF LoopUpdates
  <2> QED  BY <1>3, <2>1, <2>2
<1>8. LoopUpdates(w, hi, d, vs)
  BY <1>5, <1>6, <1>7 DEF LoopUpdates
<1> QED  BY <1>8 DEF vs, c
LEMMA WithoutUpdate ==
  ASSUME NEW w, NEW hi \in Days, NEW d \in Days, d <= hi, NEW us,
         LoopUpdates(w, hi, d + 1, us), Here(w, d), Unended(w, d) => ~Broken(w, hi, d)
  PROVE  LoopUpdates(w, hi, d, us)
<1>3. d + 1 .. hi \subseteq d .. hi /\ (\A k \in d .. hi : k = d \/ k \in d + 1 .. hi)
      /\ d \notin d + 1 .. hi
  BY DayIs
<1>4. \A k : Cell(k) = Cell(d) <=> k = d
  BY CellIs
<1>5. Cell(d) \notin DOMAIN us
  BY <1>3, <1>4 DEF LoopUpdates, CellsOf
<1>6. DOMAIN us \subseteq CellsOf(d .. hi)
  BY <1>3 DEF LoopUpdates, CellsOf
<1>7. ASSUME NEW k \in d .. hi
      PROVE  /\ Cell(k) \in DOMAIN us => UpdateOf(w, us[Cell(k)], k)
             /\ ~Here(w, k) => Cell(k) \in DOMAIN us
             /\ Unended(w, k) => (Broken(w, hi, k) <=> Marked(us, k))
  <2>1. CASE k = d
    BY <1>5, <2>1 DEF Marked
  <2>2. CASE k \in d + 1 .. hi
    BY <2>2 DEF LoopUpdates
  <2> QED  BY <1>3, <2>1, <2>2
<1> QED  BY <1>6, <1>7 DEF LoopUpdates

LEMMA LoopStep ==
  ASSUME NEW w, WorkOK(w), Plain(w), NEW hi \in Days, NEW d \in Days, d <= hi,
         NEW s, LoopInv(w, hi, d + 1, s), NEW s1, s1 = AnalyseDay(s, d)
  PROVE  LoopInv(w, hi, d, s1)
<1>0. /\ LoopCard(w, s.da) /\ LoopUpdates(w, hi, d + 1, s.updates)
      /\ LoopSeen(w, hi, d + 1, s) /\ LoopHave(w, hi, d + 1, s.have) /\ WorkOK(s.da)
  BY DEF LoopInv, LoopCard, Follows
<1>1. Spared(w, s.da, d) /\ (Here(s.da, d) <=> Here(w, d)) /\ d \in Int /\ hi \in Int
  BY <1>0, DayIs DEF LoopCard, Spared
<1>2. CASE ~Here(s.da, d)
  <2> DEFINE ts == {"missing_obs"}
             u == AddTasks(CreateU(s.da, Cell(d)), ts)
  <2>1. /\ s1.da = s.da /\ s1.updates = With(s.updates, Cell(d), u)
        /\ s1.acc = NO /\ s1.endp = NO /\ s1.have = NO
    <3> DEFINE t == [s EXCEPT !.updates = With(@, Cell(d), u), !.acc = NO, !.endp = NO, !.have = NO]
    <3>1. s1 = t
      BY <1>2 DEF AnalyseDay
    <3> QED  BY <3>1
  <2>2. ts \in SUBSET Tasks /\ ~Here(w, d)
    BY <1>1, <1>2, TaskNames
  <2> HIDE DEF ts
  <2> DEFINE v == s.da
  <2>3. u = AddTasks(CreateU(v, Cell(d)), ts) /\ WorkOK(v) /\ Spared(w, v, d)
    BY <1>0, <1>1
  <2> HIDE DEF u, v
  <2>4. UpdateOf(w, u, d)
    BY <2>2, <2>3, UpdateOfIs
  <2>5. ~Unended(w, d)
    BY <2>2 DEF Unended
  <2> DEFINE us == s.updates
  <2>6. LoopUpdates(w, hi, d + 1, us)
    BY <1>0
  <2> HIDE DEF us
  <2>7. LoopUpdates(w, hi, d, With(us, Cell(d), u))
    BY <2>4, <2>5, <2>6, WithUpdate
  <2>8. LoopSeen(w, hi, d, s1)
    BY <2>1, <2>2 DEF LoopSeen
  <2>9. ASSUME NEW e \in d .. hi, EndsAt(w, d, e) PROVE FALSE
    <3>1. CASE e = d
      BY <2>2, <2>9, <3>1 DEF EndsAt
    <3>2. CASE e # d
      <4>1. d \in d .. e - 1
        BY <1>1, <3>2
      <4> QED  BY <2>5, <2>9, <4>1 DEF EndsAt
    <3> QED  BY <3>1, <3>2
  <2>10. LoopHave(w, hi, d, s1.have)
    BY <2>1, <2>9 DEF LoopHave
  <2> QED  BY <1>0, <2>1, <2>7, <2>8, <2>10 DEF LoopInv, us
<1>3. CASE Here(s.da, d)
  <2> DEFINE ts == TaskOf(s, d)
             v == DaOf(s, d)
             u == AddTasks(CreateU(v, Cell(d)), ts)
             us == s.updates
  <2>1. /\ s1.da = v
        /\ s1.updates = IF ts = {} THEN us ELSE With(us, Cell(d), u)
        /\ s1.acc = Acc(s.da, d) /\ s1.endp = End(s.da, d) /\ s1.have = HaveOf(s, d)
    BY <1>3, AnalyseHere
  <2>2. Here(w, d) /\ Acc(s.da, d) = Acc(w, d) /\ End(s.da, d) = End(w, d)
    <3> DEFINE x == s.da
    <3>1. Spared(w, x, d) /\ Here(w, d)
      BY <1>1, <1>3
    <3> HIDE DEF x
    <3>2. Acc(x, d) = Acc(w, d) /\ End(x, d) = End(w, d)
      BY <3>1, SparedFlags
    <3> QED  BY <3>1, <3>2 DEF x
  <2>3. LoopCard(w, v) /\ WorkOK(v) /\ s.da.card[Cell(d)] = v.card[Cell(d)]
    BY <1>0, LoneCard
  <2>4. /\ ts \in SUBSET Tasks
        /\ Unended(w, d) =>
             (ts \cap AnalysisTasks # {} <=> s.have = NO \/ s.have # Acc(w, d) \/ s.acc # Acc(w, d))
    BY <2>2, TasksOfDay DEF Unended
  <2>5. Unended(w, d) => (Broken(w, hi, d) <=> ts \cap AnalysisTasks # {})
    <3>1. SUFFICES ASSUME Unended(w, d) PROVE Broken(w, hi, d) <=> ts \cap AnalysisTasks # {}
      OBVIOUS
    <3>2. Broken(w, hi, d) <=> s.have = NO \/ s.have # Acc(w, d) \/ s.acc # Acc(w, d)
      BY <1>0, <1>1, <3>1, SeenBroken
    <3> QED  BY <2>4, <3>1, <3>2
  <2> HIDE DEF ts, v, us
  <2>6. Spared(w, v, d)
    BY <2>3 DEF LoopCard
  <2>7. UpdateOf(w, u, d) /\ u.tasks = CreateU(v, Cell(d)).tasks \cup ts
    BY <2>3, <2>4, <2>6, UpdateOfIs
  <2>8. Unended(w, d) => u.tasks = ts
    <3>1. SUFFICES ASSUME Unended(w, d) PROVE CreateU(v, Cell(d)).tasks = {}
      BY <2>7
    <3>2. Cell(d) \in Cells /\ v.card[Cell(d)] = w.card[Cell(d)] /\ w.card[Cell(d)] # NoObs
      BY <2>2, <2>3, <3>1, CellIs DEF LoopCard, Here
    <3>3. CreateU(v, Cell(d)).tasks = v.card[Cell(d)].tasks
      BY <2>3, <3>2, CreateUIs
    <3> QED  BY <3>2, <3>3 DEF Plain
  <2> HIDE DEF u
  <2>9. LoopUpdates(w, hi, d + 1, us)
    BY <1>0 DEF us
  <2>10. LoopUpdates(w, hi, d, s1.updates)
    <3>1. CASE ts = {}
      <4>1. Unended(w, d) => ~Broken(w, hi, d)
        BY <2>5, <3>1
      <4>2. LoopUpdates(w, hi, d, us)
        BY <2>2, <2>9, <4>1, WithoutUpdate
      <4> QED  BY <2>1, <3>1, <4>2
    <3>2. CASE ts # {}
      <4>1. Unended(w, d) => (Broken(w, hi, d) <=> u.tasks \cap AnalysisTasks # {})
        BY <2>5, <2>8
      <4>2. LoopUpdates(w, hi, d, With(us, Cell(d), u))
        BY <2>7, <2>9, <4>1, WithUpdate
      <4> QED  BY <2>1, <3>2, <4>2
    <3> QED  BY <3>1, <3>2
  <2>11. LoopSeen(w, hi, d, s1)
    BY <2>1, <2>2 DEF LoopSeen
  <2>12. LoopHave(w, hi, d, s1.have)
    <3> DEFINE have == s.have
               have1 == s1.have
    <3>1. /\ LoopHave(w, hi, d + 1, have)
          /\ have1 = IF Acc(w, d) = NO THEN NO ELSE IF End(w, d) # NO THEN End(w, d) ELSE have
      BY <1>0, <2>1, <2>2 DEF HaveOf
    <3> HIDE DEF have, have1
    <3>2. LoopHave(w, hi, d, have1)
      BY <1>1, <2>2, <3>1, HaveHere
    <3> QED  BY <3>2 DEF have1
  <2> QED  BY <2>1, <2>3, <2>10, <2>11, <2>12 DEF LoopInv
<1> QED  BY <1>2, <1>3
-----------------------------------------------------------------------------
(* The whole loop, from the last day of the span to the first.             *)
LoopBy(L, w, span) ==
  L = [n \in 0 .. DayCount(span[1], span[2]) |->
         IF n = 0
           THEN [da |-> w, updates |-> [c \in {} |-> NoObs], acc |-> NO, endp |-> NO, have |-> NO]
           ELSE AnalyseDay(L[n - 1], span[2] - n + 1)]
LEMMA AnalyseLoopIs ==
  ASSUME NEW w, NEW span, DayCount(span[1], span[2]) \in Nat
  PROVE  LoopBy(AnalyseLoop(w, span), w, span)
<1> DEFINE First == [da |-> w, updates |-> [c \in {} |-> NoObs], acc |-> NO, endp |-> NO, have |-> NO]
           After(f, n) == IF n = 0 THEN First ELSE AnalyseDay(f[n - 1], span[2] - n + 1)
           Solves(f, m) == f = [n \in 0 .. m |-> After(f, n)]
           S == {m \in Nat : \E f : Solves(f, m)}
<1>1. 0 \in S
  <2>1. Solves([n \in 0 .. 0 |-> After(0, 0)], 0)
    OBVIOUS
  <2> QED  BY <2>1
<1>2. ASSUME NEW m \in S PROVE m + 1 \in S
  <2>1. PICK f : Solves(f, m)
    OBVIOUS
  <2> DEFINE g == [n \in 0 .. m + 1 |-> IF n <= m THEN f[n] ELSE After(f, n)]
  <2>2. ASSUME NEW n \in 0 .. m + 1 PROVE g[n] = After(g, n)
    <3>1. n # 0 => n - 1 \in 0 .. m + 1 /\ n - 1 <= m
      OBVIOUS
    <3>2. After(g, n) = After(f, n)
      BY <3>1
    <3>3. n <= m => f[n] = After(f, n)
      <4> HIDE DEF After
      <4> QED  BY <2>1
    <3> QED  BY <3>2, <3>3
  <2>3. Solves(g, m + 1)
    BY <2>2
  <2>4. m + 1 \in Nat /\ \E h : Solves(h, m + 1)
    <3> HIDE DEF g, Solves
    <3> QED  BY <2>3
  <2> QED  BY <2>4
<1> DEFINE count == DayCount(span[1], span[2])
<1>3. count \in S
  <2> HIDE DEF S
  <2>1. S \in SUBSET Nat
    BY DEF S
  <2> QED  BY <1>1, <1>2, <2>1, AllNumbers
<1>4. \E f : Solves(f, count)
  BY <1>3
<1>5. AnalyseLoop(w, span) = CHOOSE f : Solves(f, count)
  BY DEF AnalyseLoop
<1> HIDE DEF Solves
<1>6. Solves(AnalyseLoop(w, span), count)
  BY <1>4, <1>5
<1> QED  BY <1>6 DEF Solves, LoopBy, After, First

LEMMA LoopStart ==
  ASSUME NEW w, WorkOK(w), NEW hi \in Int, NEW s,
         s = [da |-> w, updates |-> [c \in {} |-> NoObs], acc |-> NO, endp |-> NO, have |-> NO]
  PROVE  LoopInv(w, hi, hi + 1, s)
<1>1. \A d \in hi + 1 .. hi : FALSE
  OBVIOUS
<1>2. LoopCard(w, s.da)
  BY FollowsItself DEF LoopCard, Spared
<1>3. LoopUpdates(w, hi, hi + 1, s.updates)
  BY <1>1 DEF LoopUpdates, Updates
<1>4. LoopSeen(w, hi, hi + 1, s) /\ LoopHave(w, hi, hi + 1, s.have)
  BY <1>1 DEF LoopSeen, LoopHave
<1> QED  BY <1>2, <1>3, <1>4 DEF LoopInv

LEMMA LoopEnd ==
  ASSUME NEW w, WorkOK(w), Plain(w), NEW span \in Int \X Int, SpanOK(span), span[1] <= span[2]
  PROVE  LoopInv(w, span[2], span[1], AnalyseLoop(w, span)[DayCount(span[1], span[2])])
<1> DEFINE lo == span[1]
           hi == span[2]
           count == DayCount(lo, hi)
           L == AnalyseLoop(w, span)
           S == {n \in Nat : n <= count => LoopInv(w, hi, hi + 1 - n, L[n])}
<1>1. /\ lo \in Int /\ hi \in Int /\ FirstDay <= lo /\ hi <= LastDay /\ lo <= hi
      /\ hi \in Days /\ count \in Nat /\ count = hi - lo + 1
  BY DayIs DEF SpanOK, DayCount
<1>2. LoopBy(L, w, span)
  BY <1>1, AnalyseLoopIs
<1>3. /\ L[0] = [da |-> w, updates |-> [c \in {} |-> NoObs], acc |-> NO, endp |-> NO, have |-> NO]
      /\ \A n \in 1 .. count : L[n] = AnalyseDay(L[n - 1], hi - n + 1)
  <2>1. \A n \in 0 .. count :
          L[n] = IF n = 0 THEN [da |-> w, updates |-> [c \in {} |-> NoObs], acc |-> NO,
                                endp |-> NO, have |-> NO]
                 ELSE AnalyseDay(L[n - 1], hi - n + 1)
    <3> HIDE DEF L
    <3> QED  BY <1>2 DEF LoopBy
  <2>2. 0 \in 0 .. count /\ \A n \in 1 .. count : n \in 0 .. count /\ n # 0
    BY <1>1
  <2> HIDE DEF count, L, lo, hi
  <2> QED  BY <2>1, <2>2
<1> HIDE DEF L, count
<1>4. 0 \in S
  <2>1. LoopInv(w, hi, hi + 1, L[0])
    <3> HIDE DEF lo, hi
    <3> QED  BY <1>1, <1>3, LoopStart
  <2>2. hi + 1 - 0 = hi + 1
    BY <1>1
  <2> QED  BY <2>1, <2>2
<1>5. ASSUME NEW n \in S PROVE n + 1 \in S
  <2>1. SUFFICES ASSUME n + 1 <= count PROVE LoopInv(w, hi, hi + 1 - (n + 1), L[n + 1])
    OBVIOUS
  <2> DEFINE d == hi - n
  <2>2. /\ n + 1 \in 1 .. count /\ (n + 1) - 1 = n /\ hi - (n + 1) + 1 = d /\ hi + 1 - (n + 1) = d
        /\ hi + 1 - n = d + 1 /\ n <= count /\ d \in Days /\ d <= hi
    BY <1>1, <2>1, DayIs
  <2>3. L[n + 1] = AnalyseDay(L[n], d)
    BY <1>3, <2>2
  <2>4. LoopInv(w, hi, d + 1, L[n])
    BY <2>2
  <2> HIDE DEF d, hi
  <2>5. LoopInv(w, hi, d, L[n + 1])
    BY <1>1, <2>2, <2>3, <2>4, LoopStep
  <2> QED  BY <2>2, <2>5
<1>6. count \in S
  <2>1. S \in SUBSET Nat
    OBVIOUS
  <2> HIDE DEF S
  <2> QED  BY <1>1, <1>4, <1>5, <2>1, AllNumbers
<1>7. LoopInv(w, hi, hi + 1 - count, L[count]) /\ hi + 1 - count = lo
  BY <1>1, <1>6
<1> QED  BY <1>7 DEF L, count

(* What the analysis makes of a card without tasks. *)
Analysed(w, v, lo, hi) ==
  /\ Follows(w, v)
  /\ \A d \in Days : Here(w, d) \/ d \notin lo .. hi => Spared(w, v, d)
  /\ \A d \in lo .. hi : Here(v, d)
  /\ \A d \in lo .. hi : ~Here(w, d) => v.card[Cell(d)].ci.fd = 0
  /\ \A d \in lo .. hi : Unended(w, d) =>
       (Broken(w, hi, d) <=> v.card[Cell(d)].tasks \cap AnalysisTasks # {})
LEMMA AnalyseIs ==
  ASSUME NEW w, WorkOK(w), Plain(w), NEW span \in Int \X Int, SpanOK(span)
  PROVE  Analysed(w, Analyse(w, span), span[1], span[2])
<1> DEFINE lo == span[1]
           hi == span[2]
           s == AnalyseLoop(w, span)[DayCount(lo, hi)]
           v == s.da
           us == s.updates
           x == Put(v, us)
<1>1. lo \in Int /\ hi \in Int /\ FirstDay <= lo /\ hi <= LastDay
  BY DEF SpanOK
<1>2. Analyse(w, span) = x
  BY DEF Analyse
<1>3. \/ lo <= hi /\ LoopInv(w, hi, lo, s)
      \/ hi < lo /\ LoopInv(w, hi, hi + 1, s)
  <2>1. CASE lo <= hi
    <3> HIDE DEF s
    <3> QED  BY <2>1, LoopEnd DEF s
  <2>2. CASE hi < lo
    <3>1. DayCount(lo, hi) = 0
      BY <2>2 DEF DayCount
    <3>2. LoopBy(AnalyseLoop(w, span), w, span)
      BY <3>1, AnalyseLoopIs
    <3> DEFINE L == AnalyseLoop(w, span)
    <3>3. L[0] = [da |-> w, updates |-> [c \in {} |-> NoObs], acc |-> NO, endp |-> NO, have |-> NO]
      <4>1. 0 \in 0 .. DayCount(span[1], span[2])
        BY <3>1
      <4> HIDE DEF L
      <4> QED  BY <3>2, <4>1 DEF LoopBy, L
    <3>4. s = [da |-> w, updates |-> [c \in {} |-> NoObs], acc |-> NO, endp |-> NO, have |-> NO]
      BY <3>1, <3>3
    <3> HIDE DEF s, lo, hi
    <3>5. LoopInv(w, hi, hi + 1, s)
      BY <1>1, <3>4, LoopStart
    <3> QED  BY <2>2, <3>5
  <2> QED  BY <1>1, <2>1, <2>2
<1> HIDE DEF s
<1>4. PICK nx \in Int : LoopInv(w, hi, nx, s) /\ (nx = lo \/ (hi < lo /\ hi < nx))
  <2>1. CASE lo <= hi /\ LoopInv(w, hi, lo, s)
    BY <1>1, <2>1
  <2>2. CASE hi < lo /\ LoopInv(w, hi, hi + 1, s)
    BY <1>1, <2>2
  <2> QED  BY <1>3, <2>1, <2>2
<1>5. LoopCard(w, v) /\ LoopUpdates(w, hi, nx, us)
  BY <1>4 DEF LoopInv
<1>6. /\ \A d \in lo .. hi : d \in nx .. hi
      /\ \A d \in nx .. hi : d \in lo .. hi
  BY <1>1, <1>4
<1> HIDE DEF v, us, x, lo, hi
<1>7. WorkOK(v) /\ Updates(us) /\ Follows(w, v) /\ \A d \in Days : Spared(w, v, d)
  BY <1>5 DEF LoopCard, LoopUpdates, Follows
<1>8. /\ Follows(v, x)
      /\ \A c \in Cells : x.card[c] = IF c \in DOMAIN us THEN DataOf(us[c]) ELSE v.card[c]
  BY <1>7, PutIs DEF x
<1>9. Follows(w, x)
  BY <1>7, <1>8, FollowsOn
<1>10. \A d \in Int : d \in nx .. hi => d \in Days
  BY <1>1, <1>6, DayIs
<1>11. ASSUME NEW d \in Days, Cell(d) \notin DOMAIN us
       PROVE  Spared(w, x, d) /\ x.card[Cell(d)] = v.card[Cell(d)]
  <2>1. Cell(d) \in Cells
    BY CellIs
  <2>2. x.card[Cell(d)] = v.card[Cell(d)]
    BY <1>8, <1>11, <2>1
  <2>3. Spared(w, v, d)
    BY <1>7
  <2> QED  BY <2>2, <2>3 DEF Spared, Here
<1>12. ASSUME NEW d \in nx .. hi, Cell(d) \in DOMAIN us
       PROVE  LET u == us[Cell(d)]
              IN  /\ UpdateOf(w, u, d) /\ x.card[Cell(d)] = DataOf(u) /\ Here(x, d)
                  /\ x.card[Cell(d)].tasks = u.tasks
                  /\ Here(w, d) => Spared(w, x, d)
                  /\ ~Here(w, d) => x.card[Cell(d)].ci.fd = 0
  <2> DEFINE u == us[Cell(d)]
  <2>1. d \in Days
    BY <1>10
  <2>2. Cell(d) \in Cells
    BY <2>1, CellIs
  <2>3. UpdateOf(w, u, d) /\ x.card[Cell(d)] = DataOf(u)
    BY <1>5, <1>8, <1>12, <2>2 DEF LoopUpdates
  <2> HIDE DEF u
  <2>4. u \in Update
    BY <2>3 DEF UpdateOf
  <2>5. DataOf(u) # NoObs /\ DataOf(u).tasks = u.tasks
    BY <2>4, DataIs
  <2>6. Here(x, d) /\ x.card[Cell(d)].tasks = u.tasks
    BY <2>3, <2>5 DEF Here
  <2>7. Here(w, d) => Spared(w, x, d)
    BY <2>3, <2>6 DEF Spared, UpdateOf
  <2>8. ~Here(w, d) => x.card[Cell(d)].ci.fd = 0
    BY <2>3, MissingIs DEF UpdateOf
  <2> QED  BY <2>3, <2>6, <2>7, <2>8 DEF u
<1>13. ASSUME NEW d \in Days, d \notin nx .. hi PROVE Cell(d) \notin DOMAIN us
  BY <1>5, <1>13, CellIs DEF LoopUpdates, CellsOf
<1>14. ASSUME NEW d \in Days, Here(w, d) \/ d \notin lo .. hi PROVE Spared(w, x, d)
  <2>1. CASE Cell(d) \notin DOMAIN us
    BY <1>11, <2>1
  <2>2. CASE Cell(d) \in DOMAIN us
    <3>1. d \in nx .. hi
      BY <1>13, <2>2
    <3>2. Here(w, d)
      BY <1>6, <1>14, <3>1
    <3> QED  BY <1>12, <2>2, <3>1, <3>2
  <2> QED  BY <2>1, <2>2
<1>15. ASSUME NEW d \in lo .. hi
       PROVE  /\ Here(x, d)
              /\ ~Here(w, d) => x.card[Cell(d)].ci.fd = 0
              /\ Unended(w, d) => (Broken(w, hi, d) <=> x.card[Cell(d)].tasks \cap AnalysisTasks # {})
  <2>1. d \in nx .. hi /\ d \in Days
    BY <1>6, <1>10
  <2>2. CASE Cell(d) \in DOMAIN us
    <3>1. /\ Here(x, d) /\ (~Here(w, d) => x.card[Cell(d)].ci.fd = 0)
          /\ x.card[Cell(d)].tasks = us[Cell(d)].tasks
      BY <1>12, <2>1, <2>2
    <3> QED  BY <1>5, <2>1, <2>2, <3>1 DEF LoopUpdates, Marked
  <2>3. CASE Cell(d) \notin DOMAIN us
    <3>1. Here(w, d)
      BY <1>5, <2>1, <2>3 DEF LoopUpdates
    <3>2. Spared(w, x, d) /\ x.card[Cell(d)] = v.card[Cell(d)]
      BY <1>11, <2>1, <2>3
    <3>3. Here(x, d)
      BY <3>1, <3>2 DEF Spared
    <3>4. ASSUME Unended(w, d)
          PROVE  ~Broken(w, hi, d) /\ x.card[Cell(d)].tasks \cap AnalysisTasks = {}
      <4>1. ~Broken(w, hi, d)
        BY <1>5, <2>1, <2>3, <3>4 DEF LoopUpdates, Marked
      <4>2. x.card[Cell(d)] = w.card[Cell(d)] /\ Cell(d) \in Cells
        BY <1>5, <2>1, <3>2, <3>4, CellIs DEF LoopCard
      <4> QED  BY <3>1, <4>1, <4>2 DEF Plain, Here
    <3> QED  BY <3>1, <3>3, <3>4
  <2> QED  BY <2>2, <2>3
<1>16. Analysed(w, x, lo, hi)
  BY <1>9, <1>14, <1>15 DEF Analysed
<1> QED  BY <1>2, <1>16 DEF lo, hi

(* The consistency check only adds its own task. *)
LEMMA FccIs ==
  ASSUME NEW w, WorkOK(w), NEW lo \in Int, NEW hi \in Int, FirstDay <= lo, hi <= LastDay,
         NEW v, v = FccAnalyse(w, lo, hi)
  PROVE  /\ Follows(w, v) /\ \A d \in Days : Spared(w, v, d)
         /\ \A d \in Days : Here(w, d) =>
              v.card[Cell(d)].tasks \cap AnalysisTasks = w.card[Cell(d)].tasks \cap AnalysisTasks
<1> DEFINE bad == UNION {Row(w, d) : d \in {k \in lo .. hi : BadRow(w, k)}}
           ts == {"fcc_error"}
           us == [c \in bad |-> AddTasks(CreateU(w, c), ts)]
<1>1. bad \subseteq Cells /\ \A c \in bad : w.card[c] # NoObs
  <2>1. SUFFICES ASSUME NEW d \in lo .. hi, NEW c \in Row(w, d) PROVE c \in Cells /\ w.card[c] # NoObs
    OBVIOUS
  <2>2. d \in Days
    BY DayIs
  <2> QED  BY <2>2 DEF Row, Cells
<1>2. v = Put(w, us)
  BY DEF FccAnalyse
<1>3. ts \in SUBSET Tasks /\ ts \cap AnalysisTasks = {}
  BY TaskNames DEF AnalysisTasks
<1> HIDE DEF bad, ts
<1>4. ASSUME NEW c \in bad PROVE us[c] \in Update
  <2>1. CreateU(w, c) \in Update
    BY <1>1, CreateUIs
  <2> QED  BY <1>3, <2>1, TasksIs
<1>5. DOMAIN us = bad /\ \A c \in bad : us[c] = AddTasks(CreateU(w, c), ts)
  OBVIOUS
<1> HIDE DEF us
<1>6. Updates(us)
  BY <1>1, <1>4, <1>5 DEF Updates
<1>7. /\ Follows(w, v)
      /\ \A c \in Cells : v.card[c] = IF c \in DOMAIN us THEN DataOf(us[c]) ELSE w.card[c]
  BY <1>2, <1>6, PutIs
<1>8. ASSUME NEW d \in Days
      PROVE  /\ Spared(w, v, d)
             /\ Here(w, d) => v.card[Cell(d)].tasks \cap AnalysisTasks
                                = w.card[Cell(d)].tasks \cap AnalysisTasks
  <2> DEFINE c == Cell(d)
  <2>1. c \in Cells
    BY CellIs
  <2>2. CASE c \notin bad
    <3>1. v.card[c] = w.card[c]
      BY <1>5, <1>7, <2>1, <2>2
    <3> QED  BY <3>1 DEF Spared, Here
  <2>3. CASE c \in bad
    <3> HIDE DEF c
    <3> DEFINE obs == v.card[c]
    <3>1. obs = DataOf(AddTasks(CreateU(w, c), ts)) /\ w.card[c] # NoObs
      BY <1>1, <1>5, <1>7, <2>1, <2>3
    <3> HIDE DEF obs
    <3>2. /\ obs.original = w.card[c].original /\ obs.corrected = w.card[c].corrected
          /\ obs.ci = w.card[c].ci /\ obs.tasks = w.card[c].tasks \cup ts /\ obs # NoObs
      BY <1>3, <2>1, <3>1, OnlyTasks
    <3> QED  BY <1>3, <3>1, <3>2 DEF Spared, Here, c, obs
  <2> QED  BY <2>2, <2>3
<1> QED  BY <1>7, <1>8

\* The dialog's analysis of the card that the parent holds.
Opened(p, span) == FccAnalyse(Analyse(Fresh(p), span), span[1], span[2])
LEMMA FreshIs ==
  ASSUME NEW p \in [Cells -> Untaskeds \cup {NoObs}]
  PROVE  WorkOK(Fresh(p)) /\ Plain(Fresh(p)) /\ Fresh(p).card = p /\ Fresh(p).stored = {}
<1>1. Fresh(p).card = p /\ Fresh(p).stored = {}
  BY DEF Fresh
<1>2. Untaskeds \cup {NoObs} \subseteq Shown /\ \A obs \in Untaskeds : obs.tasks = {}
  BY DEF Untaskeds, Shown
<1>3. p \in [Cells -> Shown]
  BY <1>2
<1>4. WorkOK(Fresh(p))
  BY <1>1, <1>3 DEF WorkOK
<1>5. Plain(Fresh(p))
  BY <1>1, <1>2 DEF Plain
<1> QED  BY <1>1, <1>4, <1>5
LEMMA OpenedIs ==
  ASSUME NEW p \in [Cells -> Untaskeds \cup {NoObs}], NEW span \in Int \X Int, SpanOK(span)
  PROVE  Analysed(Fresh(p), Opened(p, span), span[1], span[2])
<1> DEFINE w == Fresh(p)
           a == Analyse(w, span)
           v == Opened(p, span)
           lo == span[1]
           hi == span[2]
<1>1. WorkOK(w) /\ Plain(w)
  BY FreshIs
<1>2. Analysed(w, a, lo, hi)
  <2> HIDE DEF w
  <2> QED  BY <1>1, AnalyseIs
<1>3. lo \in Int /\ hi \in Int /\ FirstDay <= lo /\ hi <= LastDay /\ v = FccAnalyse(a, lo, hi)
  BY DEF SpanOK, Opened
<1> HIDE DEF w, a, v, lo, hi
<1>4. WorkOK(a) /\ Follows(w, a)
  BY <1>2 DEF Analysed, Follows
<1>5. /\ Follows(a, v) /\ \A d \in Days : Spared(a, v, d)
      /\ \A d \in Days : Here(a, d) =>
           v.card[Cell(d)].tasks \cap AnalysisTasks = a.card[Cell(d)].tasks \cap AnalysisTasks
  BY <1>3, <1>4, FccIs
<1>6. Follows(w, v)
  BY <1>4, <1>5, FollowsOn
<1>7. ASSUME NEW d \in Days, Here(w, d) \/ d \notin lo .. hi PROVE Spared(w, v, d)
  <2>1. Spared(w, a, d) /\ Spared(a, v, d)
    BY <1>2, <1>5, <1>7 DEF Analysed
  <2> QED  BY <2>1, SparedOn
<1>8. ASSUME NEW d \in lo .. hi
      PROVE  /\ Here(v, d)
             /\ ~Here(w, d) => v.card[Cell(d)].ci.fd = 0
             /\ Unended(w, d) => (Broken(w, hi, d) <=> v.card[Cell(d)].tasks \cap AnalysisTasks # {})
  <2>1. d \in Days /\ Here(a, d)
    BY <1>2, <1>3, DayIs DEF Analysed
  <2>2. Spared(a, v, d) /\ v.card[Cell(d)].tasks \cap AnalysisTasks = a.card[Cell(d)].tasks \cap AnalysisTasks
    BY <1>5, <2>1
  <2> QED  BY <1>2, <2>1, <2>2 DEF Analysed, Spared
<1>9. Analysed(w, v, lo, hi)
  BY <1>6, <1>7, <1>8 DEF Analysed
<1> QED  BY <1>9 DEF w, v, lo, hi
-----------------------------------------------------------------------------
(* The variables hold what they should.                                    *)
LEMMA InitTyped == Init => TypeInv
<1> SUFFICES ASSUME Init PROVE TypeInv
  OBVIOUS
<1>1. ParentOK(parent) /\ ParentOK(atOpen)
  BY CardAssumption DEF Init, ParentOK
<1>2. AccessOK(da)
  BY NoEditsIs DEF Init
<1>3. taken \in Seq(Tooks)
  BY DEF Init
<1> QED  BY <1>1, <1>2, <1>3 DEF Init, TypeInv, ClosedInv, OpenInv, SelInv, SubInv

\* An operation: its version after those that were not undone.
LEMMA TakenIs ==
  ASSUME NEW old \in Seq(Tooks), NEW n \in 0 .. Len(old), NEW t \in Tooks,
         NEW new, new = Append(SubSeq(old, 1, n), t)
  PROVE  /\ new \in Seq(Tooks) /\ Len(new) = n + 1 /\ new[n + 1] = t
         /\ \A k \in 1 .. n : new[k] = old[k] /\ old[k] \in Tooks
<1>1. /\ SubSeq(old, 1, n) \in Seq(Tooks) /\ Len(SubSeq(old, 1, n)) = n
      /\ \A k \in 1 .. n : SubSeq(old, 1, n)[k] = old[k] /\ old[k] \in Tooks
  <2>1. Len(old) \in Nat /\ DOMAIN old = 1 .. Len(old) /\ \A k \in 1 .. Len(old) : old[k] \in Tooks
    BY LenProperties, ElementOfSeq
  <2>2. 1 \in Int /\ n \in Int /\ \A k \in 1 .. n : k \in 1 .. Len(old)
    BY <2>1
  <2> QED  BY <2>1, <2>2
<1> DEFINE part == SubSeq(old, 1, n)
<1> HIDE DEF part
<1>2. /\ part \in Seq(Tooks) /\ Len(part) = n /\ new = Append(part, t)
      /\ \A k \in 1 .. n : part[k] = old[k] /\ old[k] \in Tooks
  BY <1>1 DEF part
<1>3. /\ new \in Seq(Tooks) /\ Len(new) = n + 1 /\ new[n + 1] = t
      /\ \A k \in 1 .. n : new[k] = part[k]
  BY <1>2
<1> QED  BY <1>2, <1>3

LEMMA OperationIs ==
  ASSUME TypeInv, dialog = "open", NEW took \in Tooks, NEW work, Follows(Work, work),
         Operation(work, took)
  PROVE  /\ AccessOK(da') /\ da'.current = da.current + 1 /\ da'.highest = da.current + 1
         /\ parent' = parent /\ dialog' = "open" /\ editable' = editable /\ atOpen' = atOpen
         /\ sel' = << >> /\ stale' = stale \ {"selection"}
         /\ View(da)' = work.card /\ View(da)' = CardAt(parent, da', da.current + 1)
         /\ \A k \in 0 .. da.current : \A c \in Cells :
              SameOrMissing(CardAt(parent, da, k)[c], CardAt(parent, da', k)[c])
         /\ taken' \in Seq(Tooks) /\ Len(taken') = da.current + 1
         /\ taken'[da.current + 1] = took
         /\ \A k \in 1 .. da.current : taken'[k] = taken[k] /\ taken[k] \in Tooks
<1>1. /\ da' = Stored(NewVersion(da), work)
      /\ taken' = Append(SubSeq(taken, 1, da.current), took)
      /\ parent' = parent /\ dialog' = "open" /\ editable' = editable /\ atOpen' = atOpen
      /\ sel' = << >> /\ stale' = stale \ {"selection"}
  BY DEF Operation, ClearSelection
<1>2. parent \in [Cells -> Shown] /\ AccessOK(da) /\ Work = Fresh(ViewOf(parent, da))
  BY TypedIs DEF TypeInv, Work
<1>3. /\ AccessOK(da') /\ da'.current = da.current + 1 /\ da'.highest = da.current + 1
      /\ ViewOf(parent, da') = work.card
      /\ \A k \in 0 .. da.current : \A c \in Cells :
           SameOrMissing(CardAt(parent, da, k)[c], CardAt(parent, da', k)[c])
  <2> DEFINE a == da
             b == da'
  <2>1. AccessOK(a) /\ Follows(Fresh(ViewOf(parent, a)), work) /\ b = Stored(NewVersion(a), work)
    BY <1>1, <1>2
  <2> HIDE DEF a, b
  <2>2. /\ AccessOK(b) /\ b.current = a.current + 1 /\ b.highest = a.current + 1
        /\ ViewOf(parent, b) = work.card
        /\ \A k \in 0 .. a.current : \A c \in Cells :
             SameOrMissing(CardAt(parent, a, k)[c], CardAt(parent, b, k)[c])
    BY <1>2, <2>1, StoredIs
  <2> QED  BY <2>2 DEF a, b
<1>4. View(da)' = ViewOf(parent, da')
  BY <1>1 DEF View, ViewOf
<1>5. ViewOf(parent, da') = CardAt(parent, da', da.current + 1)
  <2>1. ViewOf(parent, da') = CardAt(parent, da', da'.current)
    BY <1>2, <1>3, ViewIs
  <2> QED  BY <1>3, <2>1
<1>6. da.current \in 0 .. Len(taken) /\ taken \in Seq(Tooks)
  BY DEF TypeInv, OpenInv, AccessOK
<1>7. /\ taken' \in Seq(Tooks) /\ Len(taken') = da.current + 1 /\ taken'[da.current + 1] = took
      /\ \A k \in 1 .. da.current : taken'[k] = taken[k] /\ taken[k] \in Tooks
  <2> DEFINE n == da.current
             new == taken'
  <2>1. n \in 0 .. Len(taken) /\ taken \in Seq(Tooks) /\ new = Append(SubSeq(taken, 1, n), took)
    BY <1>1, <1>6
  <2> HIDE DEF n, new
  <2>2. /\ new \in Seq(Tooks) /\ Len(new) = n + 1 /\ new[n + 1] = took
        /\ \A k \in 1 .. n : new[k] = taken[k] /\ taken[k] \in Tooks
    BY <2>1, TakenIs
  <2> QED  BY <2>2 DEF n, new
<1> QED  BY <1>1, <1>3, <1>4, <1>5, <1>7

LEMMA OpTyped ==
  ASSUME TypeInv, dialog = "open", NEW took, AnOperation(took)
  PROVE  TypeInv'
<1>1. PICK work : Operation(work, took) /\ OpKeeps(Work, work, took, editable) /\ sub' = << >>
  BY DEF AnOperation
<1>2. took \in Tooks /\ Follows(Work, work)
  BY <1>1 DEF OpKeeps
<1>3. /\ AccessOK(da') /\ da'.current = da.current + 1 /\ da'.highest = da.current + 1
      /\ parent' = parent /\ dialog' = "open" /\ editable' = editable /\ atOpen' = atOpen
      /\ sel' = << >> /\ stale' = stale \ {"selection"}
      /\ taken' \in Seq(Tooks) /\ Len(taken') = da.current + 1
  BY <1>1, <1>2, OperationIs
<1>4. da.current \in Nat
  BY DEF TypeInv, AccessOK
<1>5. ParentOK(parent)' /\ ParentOK(atOpen)'
  BY <1>3 DEF TypeInv, ParentOK
<1>6. OpenInv'
  BY <1>3, <1>4 DEF TypeInv, OpenInv
<1>7. ClosedInv' /\ SelInv' /\ SubInv'
  BY <1>1, <1>3 DEF ClosedInv, SelInv, SubInv
<1>8. dialog' \in {"open", "closed"} /\ (stale' # {} => "opening" \in stale')
  BY <1>3 DEF TypeInv
<1> QED  BY <1>3, <1>5, <1>6, <1>7, <1>8 DEF TypeInv

LEMMA NoOpTyped ==
  ASSUME TypeInv, dialog = "open", sub = << >>, NoOperation
  PROVE  TypeInv'
<1>1. /\ parent' = parent /\ da' = da /\ dialog' = dialog /\ editable' = editable
      /\ sub' = << >> /\ atOpen' = atOpen /\ taken' = taken
      /\ sel' = << >> /\ stale' = stale \ {"selection"}
  BY DEF NoOperation, ClearSelection
<1>2. ParentOK(parent)' /\ ParentOK(atOpen)'
  BY <1>1 DEF TypeInv, ParentOK
<1>3. OpenInv' /\ ClosedInv'
  BY <1>1 DEF TypeInv, OpenInv, ClosedInv
<1>4. SelInv' /\ SubInv'
  BY <1>1 DEF SelInv, SubInv
<1>5. dialog' \in {"open", "closed"} /\ (stale' # {} => "opening" \in stale')
  BY <1>1 DEF TypeInv
<1> QED  BY <1>1, <1>2, <1>3, <1>4, <1>5 DEF TypeInv

\* The open dialog changes.
LEMMA SubTypedOn ==
  ASSUME TypeInv, NEW b, SubTyped(b, sel[1]), sel # << >>, dialog = "open", SubChange(b)
  PROVE  TypeInv'
<1>1. UNCHANGED << parent, da, dialog, editable, sel, buttons, sessions, atOpen, taken, stale >>
      /\ sub' = << b >>
  BY DEF SubChange
<1>2. SubInv'
  BY <1>1 DEF SubInv, SubTyped, RowCount
<1> QED  BY <1>1, <1>2 DEF TypeInv, ParentOK, ClosedInv, OpenInv, SelInv, SelOK

LEMMA OpenTyped ==
  ASSUME TypeInv, Open
  PROVE  /\ TypeInv'
         /\ da' = Stored(NewVersion(NoEdits), Opened(parent, editable'))
         /\ SpanOK(editable') /\ editable' \in Int \X Int
         /\ View(da)' = Opened(parent, editable').card /\ da'.current = 1 /\ da'.highest = 1
<1>1. /\ dialog = "closed" /\ dialog' = "open"
      /\ editable' = EditableSpan(Fresh(parent), FirstDay, LastDay)
      /\ da' = Stored(NewVersion(NoEdits), Opened(parent, editable'))
      /\ sel' = << >> /\ sub' = << >> /\ atOpen' = parent
      /\ taken' = << Took("analysis", {}) >> /\ stale' = {} /\ parent' = parent
  BY DEF Open, Opened
<1>2. SpanOK(editable') /\ editable' \in Int \X Int
  <2> DEFINE span == editable'
  <2>1. span = EditableSpan(Fresh(parent), FirstDay, LastDay)
    BY <1>1
  <2> HIDE DEF span
  <2>2. SpanOK(span) /\ span \in Int \X Int
    BY <2>1, SpanIs
  <2> QED  BY <2>2 DEF span
<1>3. parent \in [Cells -> Untaskeds \cup {NoObs}] /\ parent \in [Cells -> Shown]
  BY TypedIs DEF TypeInv, ParentOK
<1>4. Follows(Fresh(ViewOf(parent, NoEdits)), Opened(parent, editable'))
  <2> DEFINE span == editable'
  <2>1. span \in Int \X Int /\ SpanOK(span)
    BY <1>2
  <2> HIDE DEF span
  <2>2. Analysed(Fresh(parent), Opened(parent, span), span[1], span[2])
    BY <1>3, <2>1, OpenedIs
  <2>3. ViewOf(parent, NoEdits) = parent
    BY <1>3, NoEditsIs
  <2>4. Follows(Fresh(parent), Opened(parent, span))
    BY <2>2 DEF Analysed
  <2> QED  BY <2>3, <2>4 DEF span
<1>5. /\ AccessOK(da') /\ da'.current = 1 /\ da'.highest = 1
      /\ ViewOf(parent, da') = Opened(parent, editable').card
  <2> DEFINE b == da'
             a == NoEdits
             work == Opened(parent, editable')
  <2>1. AccessOK(a) /\ a.current = 0
    BY NoEditsIs
  <2>2. Follows(Fresh(ViewOf(parent, a)), work) /\ b = Stored(NewVersion(a), work)
    BY <1>1, <1>4
  <2> HIDE DEF a, b, work
  <2>3. /\ AccessOK(b) /\ b.current = a.current + 1 /\ b.highest = a.current + 1
        /\ ViewOf(parent, b) = work.card
    BY <1>3, <2>1, <2>2, StoredIs
  <2> QED  BY <2>1, <2>3 DEF b, work
<1>6. View(da)' = Opened(parent, editable').card
  BY <1>1, <1>5 DEF View, ViewOf
<1>7. taken' \in Seq(Tooks) /\ Len(taken') = 1
  <2>1. Took("analysis", {}) \in Tooks
    BY DEF Took, Tooks, Hows
  <2> QED  BY <1>1, <2>1
<1>8. ParentOK(parent)' /\ ParentOK(atOpen)'
  BY <1>1 DEF TypeInv, ParentOK
<1>9. OpenInv' /\ ClosedInv' /\ SelInv' /\ SubInv'
  BY <1>1, <1>5, <1>7 DEF OpenInv, ClosedInv, SelInv, SubInv
<1>10. TypeInv'
  BY <1>1, <1>5, <1>7, <1>8, <1>9 DEF TypeInv
<1> QED  BY <1>1, <1>2, <1>5, <1>6, <1>10

\* The dialogs' rows.
LEMMA RowsTyped ==
  ASSUME TypeInv, sub # << >>
  PROVE  /\ sel # << >> /\ SubTyped(sub[1], sel[1]) /\ dialog = "open" /\ RowCount(sel[1]) \in Nat
         /\ \A i \in 1 .. RowCount(sel[1]) :
              LET obs == Work.card[Cell(sel[1].lo + i - 1)]
              IN  obs \in Shown /\ (obs # NoObs => obs.corrected \in Int)
<1>1. sel # << >> /\ SubTyped(sub[1], sel[1]) /\ dialog = "open" /\ SelOK(sel[1], editable)
      /\ RowCount(sel[1]) \in Nat
  BY TypedIs, SubDaysAre DEF TypeInv, SubInv
<1> DEFINE s == sel[1]
<1>2. s.lo \in Days /\ s.hi \in Days /\ WorkOK(Work)
  BY <1>1, TypedIs DEF SelOK
<1> HIDE DEF s
<1>3. ASSUME NEW i \in 1 .. RowCount(s)
      PROVE  LET obs == Work.card[Cell(s.lo + i - 1)]
             IN  obs \in Shown /\ (obs # NoObs => obs.corrected \in Int)
  <2>1. s.lo + i - 1 \in Days
    <3>1. s.lo \in Int /\ s.hi \in Int /\ FirstDay <= s.lo /\ s.hi <= LastDay
      BY <1>2, DayIs
    <3>2. i \in 1 .. s.hi - s.lo + 1
      BY DEF RowCount
    <3> QED  BY <3>1, <3>2, DayIs
  <2> DEFINE c == Cell(s.lo + i - 1)
             obs == Work.card[c]
  <2>2. c \in Cells
    BY <2>1, CellIs
  <2> HIDE DEF c
  <2>3. obs \in Shown
    BY <1>2, <2>2 DEF WorkOK
  <2> HIDE DEF obs
  <2>4. obs # NoObs => obs.corrected \in Int
    BY <2>3 DEF Shown, Tasked
  <2> QED  BY <2>3, <2>4 DEF obs, c
<1> QED  BY <1>1, <1>3 DEF s

LEMMA RowsIntro ==
  ASSUME NEW s, NEW kind \in {"edit", "redist"}, NEW values \in [1 .. RowCount(s) -> Int],
         NEW ars \in [1 .. RowCount(s) -> {"none", "accept", "reject"}],
         NEW b, b = [kind |-> kind, values |-> values, ars |-> ars]
  PROVE  SubTyped(b, s)
BY DEF SubTyped

LEMMA RowsChange ==
  ASSUME NEW kind, NEW values, NEW ars, NEW x, x = [kind |-> kind, values |-> values, ars |-> ars],
         NEW vs, NEW rs
  PROVE  /\ [x EXCEPT !.values = vs, !.ars = rs] = [kind |-> kind, values |-> vs, ars |-> rs]
         /\ [x EXCEPT !.values = vs] = [kind |-> kind, values |-> vs, ars |-> ars]
         /\ [x EXCEPT !.ars = rs] = [kind |-> kind, values |-> values, ars |-> rs]
<1>1. [x EXCEPT !.values = vs, !.ars = rs] = [kind |-> kind, values |-> vs, ars |-> rs]
  <2> DEFINE y == [x EXCEPT !.values = vs]
  <2>1. y = [kind |-> kind, values |-> vs, ars |-> ars]
    OBVIOUS
  <2>2. [x EXCEPT !.values = vs, !.ars = rs] = [y EXCEPT !.ars = rs]
    OBVIOUS
  <2> HIDE DEF y
  <2>3. [y EXCEPT !.ars = rs] = [kind |-> kind, values |-> vs, ars |-> rs]
    BY <2>1
  <2> QED  BY <2>2, <2>3
<1>2. [x EXCEPT !.values = vs] = [kind |-> kind, values |-> vs, ars |-> ars]
  OBVIOUS
<1>3. [x EXCEPT !.ars = rs] = [kind |-> kind, values |-> values, ars |-> rs]
  OBVIOUS
<1> QED  BY <1>1, <1>2, <1>3

LEMMA DialogTyped ==
  ASSUME TypeInv,
         \/ \E i \in 1 .. LastDay - FirstDay + 1 : \/ \E v \in Amounts : EnterValue(i, v)
                                                   \/ RejectRow(i) \/ AcceptOneRow(i)
         \/ AcceptAll \/ RejectAll \/ \E w \in Weights : ButtonAuto(w)
  PROVE  TypeInv'
<1> DEFINE s == sel[1]
           x == sub[1]
           n == RowCount(s)
<1>1. sub # << >>
  BY DEF EnterValue, RejectRow, AcceptOneRow, AcceptAll, RejectAll, ButtonAuto
<1>2. /\ sel # << >> /\ SubTyped(x, s) /\ dialog = "open" /\ n \in Nat
      /\ \A i \in 1 .. n :
           LET obs == Work.card[Cell(s.lo + i - 1)]
           IN  obs \in Shown /\ (obs # NoObs => obs.corrected \in Int)
  BY <1>1, RowsTyped
<1>3. /\ x = [kind |-> x.kind, values |-> x.values, ars |-> x.ars]
      /\ x.kind \in {"edit", "redist"} /\ x.values \in [1 .. n -> Int]
      /\ x.ars \in [1 .. n -> {"none", "accept", "reject"}]
      /\ DOMAIN x.ars = 1 .. n /\ DOMAIN x.values = 1 .. n
  BY <1>2 DEF SubTyped
<1>4. SUFFICES \E b : SubTyped(b, s) /\ SubChange(b)
  <2>1. PICK b : SubTyped(b, s) /\ SubChange(b)
    BY <1>4
  <2> QED  BY <1>2, <2>1, SubTypedOn
<1>5. CASE \E i \in 1 .. LastDay - FirstDay + 1 : \/ \E v \in Amounts : EnterValue(i, v)
                                                  \/ RejectRow(i) \/ AcceptOneRow(i)
  <2>1. PICK i \in 1 .. LastDay - FirstDay + 1 : \/ \E v \in Amounts : EnterValue(i, v)
                                                 \/ RejectRow(i) \/ AcceptOneRow(i)
    BY <1>5
  <2>2. CASE \E v \in Amounts : EnterValue(i, v)
    <3>1. PICK v \in Amounts : EnterValue(i, v)
      BY <2>2
    <3> DEFINE b == [x EXCEPT !.values[i] = v,
                              !.ars[i] = IF x.kind = "edit" THEN "accept" ELSE @]
               values == [x.values EXCEPT ![i] = v]
               ars == [x.ars EXCEPT ![i] = IF x.kind = "edit" THEN "accept" ELSE @]
    <3>2. SubChange(b) /\ v \in Int
      BY <3>1, InputAssumption DEF EnterValue
    <3>3. b = [kind |-> x.kind, values |-> values, ars |-> ars]
      <4>1. b = [x EXCEPT !.values = values, !.ars = ars]
        OBVIOUS
      <4> HIDE DEF b, values, ars, x
      <4> QED  BY <1>3, <4>1, RowsChange
    <3>4. values \in [1 .. n -> Int] /\ ars \in [1 .. n -> {"none", "accept", "reject"}]
      BY <1>3, <3>2
    <3> HIDE DEF b, values, ars
    <3>5. SubTyped(b, s)
      BY <1>3, <3>3, <3>4, RowsIntro
    <3> QED  BY <3>2, <3>5
  <2>3. CASE RejectRow(i)
    <3> DEFINE b == [x EXCEPT !.values[i] = REJECTED, !.ars[i] = "reject"]
               values == [x.values EXCEPT ![i] = REJECTED]
               ars == [x.ars EXCEPT ![i] = "reject"]
    <3>2. SubChange(b)
      BY <2>3 DEF RejectRow
    <3>3. b = [kind |-> x.kind, values |-> values, ars |-> ars]
      <4>1. b = [x EXCEPT !.values = values, !.ars = ars]
        OBVIOUS
      <4> HIDE DEF b, values, ars, x
      <4> QED  BY <1>3, <4>1, RowsChange
    <3>4. values \in [1 .. n -> Int] /\ ars \in [1 .. n -> {"none", "accept", "reject"}]
      BY <1>3, MissingIs
    <3> HIDE DEF b, values, ars
    <3>5. SubTyped(b, s)
      BY <1>3, <3>3, <3>4, RowsIntro
    <3> QED  BY <3>2, <3>5
  <2>4. CASE AcceptOneRow(i)
    <3> DEFINE b == [x EXCEPT !.ars[i] = "accept"]
               ars == [x.ars EXCEPT ![i] = "accept"]
    <3>2. SubChange(b)
      BY <2>4 DEF AcceptOneRow
    <3>3. b = [kind |-> x.kind, values |-> x.values, ars |-> ars]
      BY <1>3
    <3>4. ars \in [1 .. n -> {"none", "accept", "reject"}]
      BY <1>3
    <3> HIDE DEF b, ars
    <3>5. SubTyped(b, s)
      BY <1>3, <3>3, <3>4, RowsIntro
    <3> QED  BY <3>2, <3>5
  <2> QED  BY <2>1, <2>2, <2>3, <2>4
<1>6. CASE AcceptAll
  <2> DEFINE obs(i) == Work.card[Cell(s.lo + i - 1)]
             back == {i \in DOMAIN x.ars : x.ars[i] = "reject" /\ obs(i) # NoObs}
             ok   == {i \in DOMAIN x.ars : x.ars[i] = "none" /\ CanBeAccepted(x.values[i])}
             b == [x EXCEPT
                     !.values = [i \in DOMAIN @ |-> IF i \in back THEN obs(i).corrected ELSE @[i]],
                     !.ars = [i \in DOMAIN @ |-> IF i \in back \cup ok THEN "accept" ELSE @[i]]]
             values == [i \in 1 .. n |-> IF i \in back THEN obs(i).corrected ELSE x.values[i]]
             ars == [i \in 1 .. n |-> IF i \in back \cup ok THEN "accept" ELSE x.ars[i]]
  <2>1. SubChange(b)
    BY <1>6 DEF AcceptAll
  <2>2. \A i \in 1 .. n : i \in back => obs(i).corrected \in Int
    BY <1>2
  <2> HIDE DEF obs, back, ok
  <2>3. b = [kind |-> x.kind, values |-> values, ars |-> ars]
    <3>1. b = [x EXCEPT !.values = values, !.ars = ars]
      BY <1>3
    <3> HIDE DEF b, values, ars, x
    <3> QED  BY <1>3, <3>1, RowsChange
  <2>4. values \in [1 .. n -> Int] /\ ars \in [1 .. n -> {"none", "accept", "reject"}]
    BY <1>3, <2>2
  <2> HIDE DEF b, values, ars
  <2>5. SubTyped(b, s)
    BY <1>3, <2>3, <2>4, RowsIntro
  <2> QED  BY <2>1, <2>5
<1>7. CASE RejectAll
  <2> DEFINE b == [x EXCEPT !.values = [i \in DOMAIN @ |-> IF x.ars[i] = "reject"
                                                            THEN @[i] ELSE REJECTED],
                            !.ars = [i \in DOMAIN @ |-> "reject"]]
             values == [i \in 1 .. n |-> IF x.ars[i] = "reject" THEN x.values[i] ELSE REJECTED]
             ars == [i \in 1 .. n |-> "reject"]
  <2>1. SubChange(b)
    BY <1>7 DEF RejectAll
  <2>3. b = [kind |-> x.kind, values |-> values, ars |-> ars]
    <3>1. b = [x EXCEPT !.values = values, !.ars = ars]
      BY <1>3
    <3> HIDE DEF b, values, ars, x
    <3> QED  BY <1>3, <3>1, RowsChange
  <2>4. values \in [1 .. n -> Int] /\ ars \in [1 .. n -> {"none", "accept", "reject"}]
    BY <1>3, MissingIs
  <2> HIDE DEF b, values, ars
  <2>5. SubTyped(b, s)
    BY <1>3, <2>3, <2>4, RowsIntro
  <2> QED  BY <2>1, <2>5
<1>8. CASE \E w \in Weights : ButtonAuto(w)
  <2>1. PICK w \in Weights : ButtonAuto(w)
    BY <1>8
  <2> DEFINE values == Proposal(x.values, w)
             b == [x EXCEPT !.values = Proposal(@, w)]
  <2>2. SubChange(b)
    BY <2>1 DEF ButtonAuto
  <2>3. b = [kind |-> x.kind, values |-> values, ars |-> x.ars]
    BY <1>3
  <2>4. values \in [1 .. n -> Int]
    <3> DEFINE m == LastDay - FirstDay + 1
               old == x.values
    <3>1. w \in [1 .. m -> Int] /\ m \in Nat
      BY DayAssumption, InputAssumption
    <3>2. n <= m
      <4>1. SelOK(s, editable)
        BY <1>2 DEF TypeInv, SelInv
      <4>2. s.lo \in Days /\ s.hi \in Days
        BY <4>1 DEF SelOK
      <4>3. s.lo \in Int /\ s.hi \in Int /\ FirstDay <= s.lo /\ s.hi <= LastDay
        BY <4>2, DayIs
      <4>4. n = s.hi - s.lo + 1
        BY DEF RowCount
      <4> HIDE DEF n, s
      <4> QED  BY <4>3, <4>4, DayIs
    <3>3. old \in [1 .. n -> Int]
      BY <1>3
    <3> HIDE DEF n, m, old
    <3>4. Proposal(old, w) \in [1 .. n -> Int]
      BY <1>2, <3>1, <3>2, <3>3, ProposalIs
    <3> QED  BY <3>4 DEF old
  <2> HIDE DEF b, values
  <2>5. SubTyped(b, s)
    BY <1>3, <2>3, <2>4, RowsIntro
  <2> QED  BY <2>2, <2>5
<1> QED  BY <1>5, <1>6, <1>7, <1>8

LEMMA OpenDialogTyped ==
  ASSUME TypeInv, NEW kind \in {"edit", "redist"}, OpenDialog(kind)
  PROVE  TypeInv'
<1> DEFINE s == sel[1]
           n == RowCount(s)
           row(i) == Work.card[Cell(s.lo + i - 1)]
           values == [i \in 1 .. n |-> IF row(i) = NoObs THEN MISSING ELSE row(i).corrected]
           ars == [i \in 1 .. n |-> RowAr(row(i))]
           b == [kind |-> kind, values |-> values, ars |-> ars]
<1>1. dialog = "open" /\ sel # << >> /\ SubChange(b)
  <2>1. /\ dialog = "open" /\ sel # << >> /\ sub = << >> /\ sub' = << b >>
        /\ UNCHANGED << parent, da, dialog, editable, sel, buttons, sessions, atOpen, taken, stale >>
    BY DEF OpenDialog, Pressed, RowCount
  <2>2. sub' # sub
    BY <2>1
  <2> QED  BY <2>1, <2>2 DEF SubChange
<1>2. SelOK(s, editable) /\ WorkOK(Work)
  BY <1>1, TypedIs DEF TypeInv, SelInv
<1>3. s.lo \in Int /\ s.hi \in Int /\ FirstDay <= s.lo /\ s.hi <= LastDay
  BY <1>2, DayIs DEF SelOK
<1>4. ASSUME NEW i \in 1 .. n
      PROVE  values[i] \in Int /\ ars[i] \in {"none", "accept", "reject"}
  <2>1. s.lo + i - 1 \in Days
    <3>1. i \in 1 .. s.hi - s.lo + 1
      BY DEF RowCount
    <3> HIDE DEF s, n
    <3> QED  BY <1>3, <3>1, DayIs
  <2> DEFINE c == Cell(s.lo + i - 1)
             obs == Work.card[c]
  <2>2. c \in Cells
    BY <2>1, CellIs
  <2>3. values[i] = (IF obs = NoObs THEN MISSING ELSE obs.corrected) /\ ars[i] = RowAr(obs)
    OBVIOUS
  <2> HIDE DEF c, values, ars
  <2>4. obs \in Shown
    BY <1>2, <2>2 DEF WorkOK
  <2> HIDE DEF obs
  <2>5. obs # NoObs => obs.corrected \in Int
    BY <2>4 DEF Shown, Tasked
  <2> QED  BY <2>3, <2>5, MissingIs DEF RowAr
<1>5. values \in [1 .. n -> Int] /\ ars \in [1 .. n -> {"none", "accept", "reject"}]
  BY <1>4
<1> HIDE DEF b, values, ars, s, n
<1>6. SubTyped(b, s)
  <2>1. b = [kind |-> kind, values |-> values, ars |-> ars]
    BY DEF b
  <2> QED  BY <1>5, <2>1, RowsIntro DEF n
<1> QED  BY <1>1, <1>6, SubTypedOn DEF s

LEMMA SelectTyped ==
  ASSUME TypeInv, NEW lo \in Days, NEW hi \in Days, NEW col, Select(lo, hi, col)
  PROVE  TypeInv'
<1>1. /\ dialog = "open" /\ sub = << >> /\ lo <= hi /\ {lo, hi} \subseteq Selectable(col)
      /\ sel' = << [lo |-> lo, hi |-> hi, col |-> col] >> /\ stale' = stale \ {"selection"}
      /\ UNCHANGED << parent, da, dialog, editable, sub, sessions, atOpen, taken >>
  BY DEF Select
<1>2. col = "corrected" => editable[1] <= lo /\ hi <= editable[2]
  <2>1. SpanOK(editable)
    BY <1>1, TypedIs
  <2> QED  BY <1>1, <2>1 DEF Selectable, SpanOK
<1>3. SelOK(sel'[1], editable')
  <2> DEFINE s == [lo |-> lo, hi |-> hi, col |-> col]
  <2>1. s.lo = lo /\ s.hi = hi /\ s.col = col /\ sel'[1] = s /\ editable' = editable
    BY <1>1
  <2> HIDE DEF s
  <2> QED  BY <1>1, <1>2, <2>1 DEF SelOK
<1>4. SelInv' /\ SubInv'
  BY <1>1, <1>3 DEF SelInv, SubInv
<1>5. OpenInv' /\ ClosedInv'
  BY <1>1 DEF TypeInv, OpenInv, ClosedInv
<1> QED  BY <1>1, <1>4, <1>5 DEF TypeInv, ParentOK

LEMMA CancelTyped ==
  ASSUME TypeInv, SubCancel
  PROVE  TypeInv'
BY DEF TypeInv, SubCancel, ParentOK, ClosedInv, OpenInv, SelInv, SubInv, SelOK

LEMMA UndoRedoIs ==
  ASSUME TypeInv, Undo \/ Redo
  PROVE  \E n \in 1 .. da.highest :
           /\ da' = MovedTo(da, n) /\ UndoRedo(n) /\ dialog = "open" /\ sub = << >>
           /\ AccessOK(da') /\ da'.current = n /\ da'.highest = da.highest
           /\ \A k \in Nat : CardAt(parent, da', k) = CardAt(parent, da, k)
<1>1. da.current \in Nat /\ da.highest \in Nat /\ da.current <= da.highest
  BY DEF TypeInv, AccessOK
<1>2. PICK n \in 1 .. da.highest : UndoRedo(n) /\ dialog = "open" /\ sub = << >>
  <2>1. CASE Undo
    <3>1. da.current - 1 \in 1 .. da.highest
      BY <1>1, <2>1 DEF Undo
    <3> QED  BY <2>1, <3>1 DEF Undo
  <2>2. CASE Redo
    <3>1. da.current + 1 \in 1 .. da.highest
      BY <1>1, <2>2 DEF Redo
    <3> QED  BY <2>2, <3>1 DEF Redo
  <2> QED  BY <2>1, <2>2
<1>3. da' = MovedTo(da, n) /\ n \in 0 .. da.highest
  BY <1>2 DEF UndoRedo
<1>4. parent \in [Cells -> Shown] /\ AccessOK(da)
  BY TypedIs DEF TypeInv
<1> DEFINE a == da
           b == da'
<1>5. AccessOK(a) /\ n \in 0 .. a.highest /\ b = MovedTo(a, n)
  BY <1>3, <1>4
<1> HIDE DEF a, b
<1>6. /\ AccessOK(b) /\ b.current = n /\ b.highest = a.highest
      /\ \A k \in Nat : CardAt(parent, b, k) = CardAt(parent, a, k)
  BY <1>4, <1>5, MovedToIs
<1> QED  BY <1>2, <1>3, <1>6 DEF a, b

LEMMA UndoRedoTyped ==
  ASSUME TypeInv, Undo \/ Redo
  PROVE  TypeInv'
<1>1. PICK n \in 1 .. da.highest :
        /\ UndoRedo(n) /\ dialog = "open" /\ sub = << >>
        /\ AccessOK(da') /\ da'.current = n /\ da'.highest = da.highest
  BY UndoRedoIs
<1>2. /\ parent' = parent /\ dialog' = dialog /\ editable' = editable /\ sub' = sub
      /\ atOpen' = atOpen /\ taken' = taken /\ sel' = << >> /\ stale' = stale \ {"selection"}
  BY <1>1 DEF UndoRedo, ClearSelection
<1>3. OpenInv' /\ ClosedInv'
  BY <1>1, <1>2 DEF TypeInv, OpenInv, ClosedInv
<1>4. SelInv' /\ SubInv'
  BY <1>1, <1>2 DEF SelInv, SubInv
<1> QED  BY <1>1, <1>2, <1>3, <1>4 DEF TypeInv, ParentOK

\* What the edits of a cell show.
LEMMA EditShows ==
  ASSUME TypeInv, NEW c \in DOMAIN da.edited
  PROVE  /\ c \in Cells /\ EV!CurrentData(da.edited[c]) \in Tasked
         /\ View(da)[c] = EV!CurrentData(da.edited[c])
<1>1. /\ c \in Cells /\ ListOK(da.edited[c], da.current, da.highest) /\ da.current \in Nat
  BY DEF TypeInv, AccessOK
<1> DEFINE ev == da.edited[c]
           n == da.current
           high == da.highest
<1>2. ListOK(ev, n, high) /\ n \in Nat
  BY <1>1
<1> HIDE DEF ev, n, high
<1>3. DataAt(ev, n) \in Tasked /\ DataAt(ev, n) = EV!CurrentData(ev)
  BY <1>2, DataAtFrom
<1>4. View(da)[c] = EV!CurrentData(da.edited[c])
  BY <1>1 DEF View
<1> QED  BY <1>1, <1>3, <1>4 DEF ev

LEMMA CloseTyped ==
  ASSUME TypeInv, Close, ParentOK(parent')
  PROVE  TypeInv'
<1>1. /\ dialog' = "closed" /\ da' = NoEdits /\ buttons' = {} /\ sel' = << >> /\ taken' = << >>
      /\ stale' = {} /\ sub' = << >> /\ atOpen' = atOpen
  BY DEF Close
<1>2. AccessOK(da')
  BY <1>1, NoEditsIs
<1>3. ClosedInv' /\ OpenInv' /\ SelInv' /\ SubInv'
  BY <1>1 DEF ClosedInv, OpenInv, SelInv, SubInv
<1>4. taken' \in Seq(Tooks)
  BY <1>1
<1> QED  BY <1>1, <1>2, <1>3, <1>4 DEF TypeInv, ParentOK
LEMMA SaveTyped ==
  ASSUME TypeInv, Save \/ Discard
  PROVE  TypeInv'
<1>1. Close
  BY DEF Save, Discard
<1>2. ParentOK(parent)
  BY DEF TypeInv
<1>3. CASE parent' = parent
  BY <1>1, <1>2, <1>3, CloseTyped
<1>4. CASE parent' = [c \in Cells |-> IF c \in DOMAIN da.edited
                                        THEN Untasked(EV!CurrentData(da.edited[c]))
                                        ELSE parent[c]]
  <2>1. ASSUME NEW c \in Cells PROVE parent'[c] \in Untaskeds \cup {NoObs}
    <3>1. CASE c \in DOMAIN da.edited
      <4> DEFINE obs == EV!CurrentData(da.edited[c])
      <4>1. obs \in Tasked
        BY <3>1, EditShows
      <4>2. parent'[c] = Untasked(obs)
        BY <1>4, <3>1
      <4> HIDE DEF obs
      <4>3. Untasked(obs) \in Untaskeds
        BY <4>1, CardAssumption DEF Untasked, Untaskeds, Tasked
      <4> QED  BY <4>2, <4>3
    <3>2. CASE c \notin DOMAIN da.edited
      BY <1>2, <1>4, <3>2 DEF ParentOK
    <3> QED  BY <3>1, <3>2
  <2>2. ParentOK(parent')
    BY <1>4, <2>1 DEF ParentOK
  <2> QED  BY <1>1, <2>2, CloseTyped
<1> QED  BY <1>3, <1>4 DEF Save, Discard

LEMMA ChangeTyped ==
  ASSUME TypeInv, NEW c, NEW d, << c, d >> \in Changes, ParentChange(c, d)
  PROVE  TypeInv'
<1>1. c \in Cells /\ d \in Untaskeds /\ d \in Shown
  BY CardAssumption DEF Shown, Untaskeds
<1>2. /\ dialog = "open" /\ parent' = [parent EXCEPT ![c] = d] /\ da' = Noted(da, c, d)
      /\ stale' = {"opening", "selection"}
      /\ UNCHANGED << dialog, editable, sel, buttons, sub, sessions, atOpen, taken >>
  BY DEF ParentChange
<1>3. AccessOK(da') /\ da'.current = da.current /\ da'.highest = da.highest
  <2> DEFINE a == da
             b == da'
  <2>1. AccessOK(a) /\ b = Noted(a, c, d)
    BY <1>2 DEF TypeInv
  <2> HIDE DEF a, b
  <2>2. AccessOK(b) /\ b.current = a.current /\ b.highest = a.highest
    BY <1>1, <2>1, NotedIs
  <2> QED  BY <2>2 DEF a, b
<1>4. ParentOK(parent)' /\ ParentOK(atOpen)'
  BY <1>1, <1>2 DEF TypeInv, ParentOK
<1>5. OpenInv' /\ ClosedInv'
  BY <1>2, <1>3 DEF TypeInv, OpenInv, ClosedInv
<1>6. SelInv' /\ SubInv'
  BY <1>2 DEF TypeInv, SelInv, SubInv, SelOK, SubTyped
<1> QED  BY <1>2, <1>3, <1>4, <1>5, <1>6 DEF TypeInv

LEMMA NextTyped ==
  ASSUME TypeInv, [Next]_vars
  PROVE  TypeInv'
<1>1. CASE Open
  BY <1>1, OpenTyped
<1>2. CASE \E lo, hi \in Days, col \in {"corrected", "original", "row"} : Select(lo, hi, col)
  BY <1>2, SelectTyped
<1>3. CASE AcceptRow
  BY <1>3, AcceptRowIs, OpTyped, NoOpTyped
<1>4. CASE RedistributeQC2
  BY <1>4, RedistributeQC2Is, OpTyped
<1>5. CASE OpenDialog("edit") \/ OpenDialog("redist")
  BY <1>5, OpenDialogTyped
<1>6. CASE \/ \E i \in 1 .. LastDay - FirstDay + 1 : \/ \E v \in Amounts : EnterValue(i, v)
                                                     \/ RejectRow(i) \/ AcceptOneRow(i)
           \/ AcceptAll \/ RejectAll \/ \E w \in Weights : ButtonAuto(w)
  BY <1>6, DialogTyped
<1>7. CASE SubOk
  BY <1>7, SubOkIs, OpTyped
<1>8. CASE SubCancel
  BY <1>8, CancelTyped
<1>9. CASE Undo \/ Redo
  BY <1>9, UndoRedoTyped
<1>10. CASE Save \/ Discard
  BY <1>10, SaveTyped
<1>11. CASE \E ch \in Changes : ParentChange(ch[1], ch[2])
  <2>1. PICK ch \in Changes : ParentChange(ch[1], ch[2])
    BY <1>11
  <2>2. ch = << ch[1], ch[2] >>
    BY CardAssumption
  <2> DEFINE c == ch[1]
             d == ch[2]
  <2>3. << c, d >> \in Changes /\ ParentChange(c, d)
    BY <2>1, <2>2
  <2> HIDE DEF c, d
  <2> QED  BY <2>3, ChangeTyped
<1>12. CASE UNCHANGED vars
  BY <1>12 DEF vars, TypeInv, ParentOK, ClosedInv, OpenInv, SelInv, SubInv, SelOK
<1> QED  BY <1>1, <1>2, <1>3, <1>4, <1>5, <1>6, <1>7, <1>8, <1>9, <1>10, <1>11, <1>12 DEF Next

(* Every state of the dialog is of the types that the proofs below use:    *)
(* the version lists of its TaskAccess fit its current and highest version *)
(* over undo, redo and the changes of others, the span that was computed   *)
(* from the card stays, a selection in the corrected column lies in it,    *)
(* and an open dialog has a row for each day of the selection.             *)
THEOREM WatchTyped == Spec => []TypeInv
<1>1. Init => TypeInv
  BY InitTyped
<1>2. TypeInv /\ [Next]_vars => TypeInv'
  BY NextTyped
<1> QED  BY <1>1, <1>2, PTL DEF Spec
-----------------------------------------------------------------------------
(* The buttons.                                                            *)
ButtonsInv ==
  dialog = "open" =>
    /\ "selection" \notin stale =>
         buttons \cap SelButtons = IF sel = << >> THEN {} ELSE ButtonsFor(da, sel[1])
    /\ "save" \in buttons <=> da.updated > 0
    /\ "redo" \in buttons <=> da.current < da.highest

LEMMA EnabledIs ==
  ASSUME NEW b, NEW a
  PROVE  /\ "save" \in EnableSave(b, a) <=> a.updated > 0
         /\ "redo" \in EnableSave(b, a) <=> a.current < a.highest
         /\ EnableSave(b, a) \cap SelButtons = b \cap SelButtons
BY DEF EnableSave, SelButtons

LEMMA ButtonNames ==
  /\ "save" \notin SelButtons /\ "redo" \notin SelButtons /\ "accept" \in SelButtons
  /\ \A a, s : ButtonsFor(a, s) \subseteq SelButtons
BY DEF SelButtons, ButtonsFor

LEMMA NoSelButtons ==
  ASSUME sel' = << >>, \E b : b \cap SelButtons = {} /\ buttons' = EnableSave(b, da')
  PROVE  ButtonsInv'
<1>1. PICK b : b \cap SelButtons = {} /\ buttons' = EnableSave(b, da')
  OBVIOUS
<1>2. /\ "save" \in EnableSave(b, da') <=> da'.updated > 0
      /\ "redo" \in EnableSave(b, da') <=> da'.current < da'.highest
      /\ EnableSave(b, da') \cap SelButtons = b \cap SelButtons
  BY EnabledIs
<1>3. (SelButtons)' = SelButtons
  BY DEF SelButtons
<1> QED  BY <1>1, <1>2, <1>3 DEF ButtonsInv

LEMMA ClearedButtons ==
  ASSUME ClearSelection(da')
  PROVE  ButtonsInv'
<1>1. sel' = << >> /\ buttons' = EnableSave(buttons \ SelButtons, da')
  BY DEF ClearSelection
<1>2. (buttons \ SelButtons) \cap SelButtons = {}
  OBVIOUS
<1> QED  BY <1>1, <1>2, NoSelButtons

LEMMA SameButtons ==
  ASSUME ButtonsInv, UNCHANGED << parent, da, dialog, sel, buttons, stale >>
  PROVE  ButtonsInv'
<1>1. ASSUME sel # << >> PROVE ButtonsFor(da, sel[1])' = ButtonsFor(da, sel[1])
  BY DEF ButtonsFor, View
<1> QED  BY <1>1 DEF ButtonsInv, SelButtons

LEMMA NextButtons ==
  ASSUME TypeInv, ButtonsInv, [Next]_vars
  PROVE  ButtonsInv'
<1>1. CASE Open
  <2>1. sel' = << >> /\ buttons' = EnableSave({}, da')
    BY <1>1 DEF Open
  <2> QED  BY <2>1, NoSelButtons
<1>2. ASSUME NEW lo \in Days, NEW hi \in Days, NEW col, Select(lo, hi, col)
      PROVE  ButtonsInv'
  <2>1. /\ sel' # << >> /\ dialog = "open" /\ dialog' = "open"
        /\ buttons' = (buttons \ SelButtons) \cup ButtonsFor(da, sel'[1])
        /\ UNCHANGED << parent, da >>
    BY <1>2 DEF Select
  <2>2. ButtonsFor(da, sel[1])' = ButtonsFor(da, sel'[1])
    BY <2>1 DEF ButtonsFor, View
  <2>3. buttons' \cap SelButtons = ButtonsFor(da, sel'[1])
    BY <2>1, ButtonNames
  <2>4. /\ "save" \in buttons' <=> "save" \in buttons
        /\ "redo" \in buttons' <=> "redo" \in buttons
    BY <2>1, ButtonNames DEF SelButtons, ButtonsFor
  <2>5. (SelButtons)' = SelButtons
    BY DEF SelButtons
  <2> QED  BY <2>1, <2>2, <2>3, <2>4, <2>5 DEF ButtonsInv
<1>3. CASE AcceptRow \/ RedistributeQC2 \/ SubOk
  <2>1. ClearSelection(da')
    <3>1. CASE AcceptRow
      <4>1. NoOperation \/ AnOperation(Took("accept", {}))
        BY <3>1, AcceptRowIs
      <4>2. CASE NoOperation
        <5>1. ClearSelection(da) /\ da' = da
          BY <4>2 DEF NoOperation
        <5> QED  BY <5>1 DEF ClearSelection
      <4> QED  BY <4>1, <4>2 DEF AnOperation, Operation
    <3>2. CASE RedistributeQC2
      BY <3>2 DEF RedistributeQC2, Operation
    <3>3. CASE SubOk
      BY <3>3 DEF SubOk, Operation
    <3> QED  BY <1>3, <3>1, <3>2, <3>3
  <2> QED  BY <2>1, ClearedButtons
<1>4. CASE \/ OpenDialog("edit") \/ OpenDialog("redist") \/ SubCancel
           \/ \E i \in 1 .. LastDay - FirstDay + 1 : \/ \E v \in Amounts : EnterValue(i, v)
                                                     \/ RejectRow(i) \/ AcceptOneRow(i)
           \/ AcceptAll \/ RejectAll \/ \E w \in Weights : ButtonAuto(w)
  <2>1. UNCHANGED << parent, da, dialog, sel, buttons, stale >>
    BY <1>4 DEF OpenDialog, SubCancel, EnterValue, RejectRow, AcceptOneRow, AcceptAll, RejectAll,
                ButtonAuto, SubChange
  <2> QED  BY <2>1, SameButtons
<1>5. CASE Undo \/ Redo
  <2>1. ClearSelection(da')
    BY <1>5 DEF Undo, Redo, UndoRedo
  <2> QED  BY <2>1, ClearedButtons
<1>6. CASE Save \/ Discard
  BY <1>6 DEF Save, Discard, Close, ButtonsInv
<1>7. ASSUME NEW c, NEW d, << c, d >> \in Changes, ParentChange(c, d)
      PROVE  ButtonsInv'
  <2>1. /\ dialog = "open" /\ da' = Noted(da, c, d) /\ stale' = {"opening", "selection"}
        /\ UNCHANGED << dialog, buttons >>
    BY <1>7 DEF ParentChange
  <2>2. da'.current = da.current /\ da'.highest = da.highest /\ da'.updated = da.updated
    BY <2>1 DEF Noted, TypeInv, AccessOK, IsAccess
  <2> QED  BY <2>1, <2>2 DEF ButtonsInv
<1>8. CASE UNCHANGED vars
  BY <1>8, SameButtons DEF vars
<1>9. CASE \E ch \in Changes : ParentChange(ch[1], ch[2])
  <2>1. PICK ch \in Changes : ParentChange(ch[1], ch[2])
    BY <1>9
  <2>2. ch = << ch[1], ch[2] >>
    BY CardAssumption
  <2> DEFINE c == ch[1]
             d == ch[2]
  <2>3. << c, d >> \in Changes /\ ParentChange(c, d)
    BY <2>1, <2>2
  <2> HIDE DEF c, d
  <2> QED  BY <2>3, <1>7
<1> QED  BY <1>1, <1>2, <1>3, <1>4, <1>5, <1>6, <1>8, <1>9 DEF Next

(* The buttons fit the selection and the card, over operations, undo and   *)
(* redo (onSelectionChanged, enableSave of WatchRRDialog.cc); the save     *)
(* button is enabled when some edit is shown, which mUpdated counts.       *)
THEOREM ButtonsFollow == Spec => []ButtonsCurrent
<1>1. Init => ButtonsInv
  BY DEF Init, ButtonsInv
<1>2. TypeInv /\ ButtonsInv => ButtonsCurrent
  <2>1. SUFFICES ASSUME TypeInv, ButtonsInv PROVE ButtonsCurrent
    OBVIOUS
  <2>2. da.updated = Cardinality(HiddenIn(da)) /\ HiddenIn(da) \subseteq Cells
    BY <2>1 DEF TypeInv, AccessOK, HiddenIn
  <2>3. IsFiniteSet(HiddenIn(da))
    BY <2>2, CellsFinite, FS_Subset
  <2>4. Cardinality(HiddenIn(da)) \in Nat /\ (Cardinality(HiddenIn(da)) = 0 <=> HiddenIn(da) = {})
    BY <2>3, FS_CardinalityType, FS_EmptySet
  <2>5. da.updated > 0 <=> \E c \in DOMAIN da.edited : EV!CurrentVersion(da.edited[c]) > 0
    BY <2>2, <2>4 DEF HiddenIn
  <2> QED  BY <2>1, <2>5 DEF ButtonsInv, ButtonsCurrent
<1>3. TypeInv /\ ButtonsInv /\ [Next]_vars => ButtonsInv'
  BY NextButtons
<1> QED  BY <1>1, <1>2, <1>3, WatchTyped, PTL DEF Spec

(* A row whose possibilities include "accept" has a value that can be.     *)
LEMMA AcceptableIs ==
  ASSUME NEW obs \in Tasked, "accept_corrected" \in Possibilities(obs, TRUE, TRUE)
  PROVE  CanAcceptCorrected(obs)
<1>1. obs.ci.fmis \in 0 .. 15 /\ obs.ci.fmis <= 4 /\ obs # NoObs
  <2>1. obs.ci \in ControlInfo /\ obs # NoObs
    BY CardAssumption DEF Tasked
  <2>2. obs.ci["fmis"] \in Values
    BY <2>1, FlagNames DEF ControlInfo
  <2> QED  BY <2>1, <2>2 DEF ControlInfo, Values
<1>2. obs.ci.fmis # 3
  BY <1>1 DEF Possibilities
<1>3. obs.ci.fmis # 2
  BY <1>1, <1>2 DEF Possibilities
<1> QED  BY <1>1, <1>2, <1>3 DEF CanAcceptCorrected

AcceptedDay(w, v, d) ==
  Here(w, d) /\ CanAcceptCorrected(w.card[Cell(d)]) => v.card[Cell(d)].ci.fhqc \in {1, 5, 7}
LEMMA AcceptDay ==
  ASSUME NEW w, WorkOK(w), NEW lo \in Days, NEW hi \in Days, NEW d \in lo .. hi,
         NEW v, v = Accepted(w, lo, hi)
  PROVE  Follows(w, v) /\ AcceptedDay(w, v, d)
<1> DEFINE Fine(k) == Here(w, k) /\ CanAcceptCorrected(w.card[Cell(k)]) =>
                        Here(v, k) /\ v.card[Cell(k)].ci.fhqc \in {1, 5, 7}
<1>1. Follows(w, v) /\ \A k \in lo .. hi : Fine(k)
  BY AcceptIs
<1>2. Fine(d)
  <2> HIDE DEF Fine
  <2> QED  BY <1>1
<1> QED  BY <1>1, <1>2 DEF AcceptedDay

LEMMA AcceptTakesAll ==
  ASSUME TypeInv, ButtonsInv, da'.current = da.current + 1, Pressed("accept"),
         sel[1].col # "row", stale = {}, AcceptRow,
         NEW d \in sel[1].lo .. sel[1].hi, Here(Work, d)
  PROVE  View(da)'[Cell(d)].ci.fhqc \in {1, 5, 7}
<1> DEFINE s == sel[1]
           work == Accepted(Work, s.lo, s.hi)
           took == Took("accept", {})
<1>1. dialog = "open" /\ sel # << >> /\ "accept" \in buttons
  BY DEF Pressed
<1>2. SelOK(s, editable) /\ WorkOK(Work)
  BY <1>1, TypedIs DEF TypeInv, SelInv
<1>3. s.lo \in Days /\ s.hi \in Days /\ d \in Days
  <2>1. s.lo \in Days /\ s.hi \in Days
    BY <1>2 DEF SelOK
  <2>2. s.lo \in Int /\ s.hi \in Int /\ FirstDay <= s.lo /\ s.hi <= LastDay /\ d \in s.lo .. s.hi
    BY <2>1, DayIs
  <2> HIDE DEF s
  <2> QED  BY <2>1, <2>2, DayIs
<1>4. CanAccept(Work, s.lo, s.hi, TRUE)
  <2>1. "accept" \in ButtonsFor(da, s)
    BY <1>1, ButtonNames DEF ButtonsInv
  <2>2. Work = Fresh(View(da))
    BY DEF Work
  <2> QED  BY <2>1, <2>2 DEF ButtonsFor
<1>5. Operation(work, took)
  <2>1. da' # da
    BY DEF TypeInv, AccessOK
  <2> QED  BY <2>1 DEF AcceptRow, Accepted
<1>6. CanAcceptCorrected(Work.card[Cell(d)])
  <2> DEFINE obs == Work.card[Cell(d)]
  <2>1. obs \in Tasked
    <3>1. Cell(d) \in Cells
      BY <1>3, CellIs
    <3> QED  BY <1>2, <3>1 DEF WorkOK, Shown, Here
  <2>2. "accept_corrected" \in Possibilities(obs, TRUE, TRUE)
    BY <1>4 DEF CanAccept
  <2> HIDE DEF obs
  <2>3. CanAcceptCorrected(obs)
    BY <2>1, <2>2, AcceptableIs
  <2> QED  BY <2>3 DEF obs
<1>7. took \in Tooks
  BY DEF Took, Tooks, Hows
<1>10. work = Accepted(Work, s.lo, s.hi)
  OBVIOUS
<1> HIDE DEF s, work, took
<1>8. Follows(Work, work) /\ AcceptedDay(Work, work, d)
  <2> DEFINE w == Work
             lo == s.lo
             hi == s.hi
  <2>1. /\ WorkOK(w) /\ lo \in Days /\ hi \in Days /\ d \in lo .. hi
        /\ work = Accepted(w, lo, hi)
    BY <1>2, <1>3, <1>10 DEF s
  <2> HIDE DEF w, lo, hi
  <2>2. Follows(w, work) /\ AcceptedDay(w, work, d)
    BY <2>1, AcceptDay
  <2> QED  BY <2>2 DEF w
<1>9. View(da)' = work.card
  BY <1>1, <1>5, <1>7, <1>8, OperationIs
<1> QED  BY <1>6, <1>8, <1>9 DEF AcceptedDay

(* The accept button is enabled only when all selected days can be         *)
(* accepted (canAccept), so that accept leaves out none of them.           *)
THEOREM AcceptedAreAll == Spec => AcceptSkipsNone
<1>1. Init => ButtonsInv
  BY DEF Init, ButtonsInv
<1>2. TypeInv /\ ButtonsInv /\ [Next]_vars => ButtonsInv'
  BY NextButtons
<1> DEFINE A == da'.current = da.current + 1 /\ Pressed("accept") /\ sel[1].col # "row"
                  /\ stale = {} /\ AcceptRow =>
                    \A d \in sel[1].lo .. sel[1].hi :
                      Here(Work, d) => View(da)'[Cell(d)].ci.fhqc \in {1, 5, 7}
<1>3. TypeInv /\ ButtonsInv /\ [Next]_vars => [A]_vars
  <2>1. SUFFICES ASSUME TypeInv, ButtonsInv PROVE A
    OBVIOUS
  <2> QED  BY <2>1, AcceptTakesAll
<1>4. [][A]_vars => AcceptSkipsNone
  BY PTL DEF AcceptSkipsNone
<1> HIDE DEF A
<1> QED  BY <1>1, <1>2, <1>3, <1>4, WatchTyped, PTL DEF Spec

(* A day at an end of the card is outside the editable span.               *)
LEMMA EdgeKept ==
  ASSUME TypeInv, dialog = "open", NEW took \in Tooks, NEW work, Follows(Work, work),
         Operation(work, took), NEW days, KeepsEdges(Work, work, days),
         NEW d \in Days, d \notin days
  PROVE  Untasked(View(da)'[Cell(d)]) = Untasked(View(da)[Cell(d)])
<1>1. View(da)' = work.card
  BY OperationIs
<1>2. Work.card = View(da)
  BY TypedIs
<1> QED  BY <1>1, <1>2 DEF KeepsEdges
LEMMA EdgesKept ==
  ASSUME TypeInv, da'.current = da.current + 1, sel # << >>, "opening" \notin stale,
         sel[1].col = "corrected", SubOk \/ AcceptRow \/ RedistributeQC2,
         NEW d \in Days, AtEdge(Fresh(atOpen), d)
  PROVE  Untasked(View(da)'[Cell(d)]) = Untasked(View(da)[Cell(d)])
<1> DEFINE s == sel[1]
<1>1. dialog = "open"
  BY SubOkIs, AcceptRowIs, RedistributeQC2Is
<1>2. editable = EditableSpan(Fresh(atOpen), FirstDay, LastDay)
  BY <1>1 DEF TypeInv, OpenInv
<1>3. SpanOK(editable) /\ d \notin editable[1] .. editable[2]
  <2> DEFINE w == Fresh(atOpen)
             span == editable
  <2>1. span = EditableSpan(w, FirstDay, LastDay) /\ AtEdge(w, d)
    BY <1>2
  <2> HIDE DEF w, span
  <2>2. SpanOK(span) /\ d \notin span[1] .. span[2]
    BY <2>1, SpanIs
  <2> QED  BY <2>2 DEF span
<1>4. SelOK(s, editable) /\ WorkOK(Work) /\ s.col = "corrected"
  BY TypedIs DEF TypeInv, SelInv
<1>5. s.lo \in Days /\ s.hi \in Days /\ s.lo \in Int /\ s.hi \in Int
      /\ editable[1] <= s.lo /\ s.hi <= editable[2]
  BY <1>4, DayIs DEF SelOK
<1> HIDE DEF s
<1>6. d \notin s.lo .. s.hi
  <2>1. d \in Int /\ editable[1] \in Int /\ editable[2] \in Int
    BY <1>3, DayIs DEF SpanOK
  <2> QED  BY <1>3, <1>5, <2>1
<1>7. CASE SubOk
  <2>1. PICK work : /\ Operation(work, Took(sub[1].kind, SubDays(sub[1])))
                    /\ Follows(Work, work)
                    /\ KeepsEdges(Work, work, SubDays(sub[1]))
    BY <1>7, SubOkIs
  <2> DEFINE took == Took(sub[1].kind, SubDays(sub[1]))
             days == SubDays(sub[1])
  <2>2. took \in Tooks
    BY <1>7, SubOkIs DEF AnOperation, OpKeeps
  <2>3. days \in SUBSET (s.lo .. s.hi)
    <3>1. sub # << >>
      BY <1>7, SubOkIs
    <3> QED  BY <3>1, SubDaysAre DEF s
  <2>4. Operation(work, took) /\ KeepsEdges(Work, work, days) /\ d \notin days
    BY <1>6, <2>1, <2>3
  <2> HIDE DEF took, days
  <2> QED  BY <1>1, <2>1, <2>2, <2>4, EdgeKept
<1>8. CASE AcceptRow
  <2> DEFINE work == Accepted(Work, s.lo, s.hi)
             took == Took("accept", {})
             days == s.lo .. s.hi
  <2>1. Operation(work, took)
    <3>1. da' # da
      BY DEF TypeInv, AccessOK
    <3> QED  BY <1>4, <1>8, <3>1 DEF AcceptRow, Accepted, s
  <2>2. took \in Tooks
    BY DEF Took, Tooks, Hows
  <2> HIDE DEF work, took
  <2>3. Follows(Work, work) /\ KeepsEdges(Work, work, days)
    BY <1>4, <1>5, AcceptIs DEF work
  <2> HIDE DEF days
  <2>4. d \notin days
    BY <1>6 DEF days
  <2> QED  BY <1>1, <2>1, <2>2, <2>3, <2>4, EdgeKept
<1>9. CASE RedistributeQC2
  <2> DEFINE work == RedistributeInQC2(Work, s.lo, s.hi, editable)
             took == Took("redistQC2", s.lo .. s.hi - 1)
             days == s.lo .. s.hi
  <2>1. Operation(work, took)
    BY <1>9 DEF RedistributeQC2, s
  <2>2. took \in Tooks
    <3>1. s.lo .. s.hi - 1 \subseteq Days
      BY <1>5, DayIs
    <3> QED  BY <3>1 DEF Took, Tooks, Hows
  <2>3. s.lo < s.hi
    <3>1. s.hi > s.lo
      BY <1>9 DEF RedistributeQC2, CanRedistributeInQC2, s
    <3> QED  BY <1>5, <3>1
  <2> HIDE DEF work, took
  <2>4. Follows(Work, work) /\ KeepsEdges(Work, work, days)
    BY <1>3, <1>4, <1>5, <2>3, RedistQC2Is DEF work
  <2> HIDE DEF days
  <2>5. d \notin days
    BY <1>6 DEF days
  <2> QED  BY <1>1, <2>1, <2>2, <2>4, <2>5, EdgeKept
<1> QED  BY <1>7, <1>8, <1>9

(* The accumulations cut off by the ends of the card stay as they are:     *)
(* their days are outside the editable span (analyse), and an operation    *)
(* changes nothing but tasks outside its own days.                         *)
THEOREM EdgesStay == Spec => EdgesUntouched
<1> DEFINE A == da'.current = da.current + 1 /\ sel # << >> /\ "opening" \notin stale
                  /\ sel[1].col = "corrected" /\ (SubOk \/ AcceptRow \/ RedistributeQC2) =>
                  \A d \in Days : AtEdge(Fresh(atOpen), d) =>
                    Untasked(View(da)'[Cell(d)]) = Untasked(View(da)[Cell(d)])
<1>1. TypeInv /\ [Next]_vars => [A]_vars
  <2>1. SUFFICES ASSUME TypeInv PROVE A
    OBVIOUS
  <2> QED  BY <2>1, EdgesKept
<1>2. [][A]_vars => EdgesUntouched
  BY PTL DEF EdgesUntouched
<1> HIDE DEF A
<1> QED  BY <1>1, <1>2, WatchTyped, PTL DEF Spec
-----------------------------------------------------------------------------
(* What an edit or a redistribution cuts off is marked at once.            *)
LEMMA CutMarked ==
  ASSUME TypeInv, sub # << >>, sub' = << >>, da' # da, Next
  PROVE  \A d \in (editable[1] .. editable[2]) \ SubDays(sub[1]) :
           Cut(Work, d, SubDays(sub[1])) =>
             "previously_accumulation" \in View(da)'[Cell(d)].tasks
<1>1. dialog = "open" /\ SubOk
  <2>1. dialog = "open"
    BY TypedIs
  <2>2. ~Open /\ ~AcceptRow /\ ~RedistributeQC2 /\ ~Undo /\ ~Redo /\ ~Save /\ ~Discard
    BY <2>1 DEF Open, AcceptRow, RedistributeQC2, Pressed, Undo, Redo, Save, Discard, Close
  <2>3. \A lo, hi, col : ~Select(lo, hi, col)
    BY DEF Select
  <2>4. ~OpenDialog("edit") /\ ~OpenDialog("redist") /\ ~SubCancel
    BY DEF OpenDialog, Pressed, SubCancel
  <2>5. \A i, v : ~EnterValue(i, v) /\ ~RejectRow(i) /\ ~AcceptOneRow(i)
    BY DEF EnterValue, RejectRow, AcceptOneRow, SubChange
  <2>6. ~AcceptAll /\ ~RejectAll /\ \A w : ~ButtonAuto(w)
    BY DEF AcceptAll, RejectAll, ButtonAuto, SubChange
  <2>7. \A c, d : ~ParentChange(c, d)
    BY DEF ParentChange
  <2> QED  BY <2>1, <2>2, <2>3, <2>4, <2>5, <2>6, <2>7 DEF Next
<1> DEFINE days == SubDays(sub[1])
           took == Took(sub[1].kind, days)
<1>2. PICK work : /\ Operation(work, took) /\ Follows(Work, work)
                  /\ MarksCut(Work, work, editable, days)
  BY <1>1, SubOkIs
<1>3. took \in Tooks
  BY <1>1, SubOkIs DEF AnOperation, OpKeeps
<1> HIDE DEF days, took
<1>4. View(da)' = work.card
  BY <1>1, <1>2, <1>3, OperationIs
<1> QED  BY <1>2, <1>4 DEF MarksCut, HasMark, days

(* When an edit or a redistribution takes days out of an accumulation, its *)
(* other days within the editable span have the task at once               *)
(* (markPreviousAccumulation, called by redistribute and singles).         *)
THEOREM CutsAreMarked == Spec => CutIsMarked
<1> DEFINE A == sub # << >> /\ sub' = << >> /\ da' # da =>
                  \A d \in (editable[1] .. editable[2]) \ SubDays(sub[1]) :
                    Cut(Work, d, SubDays(sub[1])) =>
                      "previously_accumulation" \in View(da)'[Cell(d)].tasks
<1>1. TypeInv /\ [Next]_vars => [A]_vars
  <2>1. SUFFICES ASSUME TypeInv, Next PROVE A
    OBVIOUS
  <2> QED  BY <2>1, CutMarked
<1>2. [][A]_vars => CutIsMarked
  BY PTL DEF CutIsMarked
<1> HIDE DEF A
<1> QED  BY <1>1, <1>2, WatchTyped, PTL DEF Spec

(* What is left, in a version's card v, of the accumulations of the card p *)
(* after edits and redistributions of the days es; ts are all the days     *)
(* that the user took in hand.                                             *)
Remains(p, v, es, ts, span) ==
  /\ \A d \in Days \ es :
       Here(p, d) /\ Acc(p, d) # NO =>
         Here(v, d) /\ Acc(v, d) # NO /\ (End(p, d) = NO => End(v, d) = NO)
  /\ \A d \in (span[1] .. span[2]) \ ts : Cut(p, d, es) => HasMark(v, d)

LEMMA RemainsMissing ==
  ASSUME NEW p, NEW v, NEW x, NEW es, NEW ts, NEW span, SpanOK(span), Remains(p, v, es, ts, span),
         \A c \in Cells : SameOrMissing(v.card[c], x.card[c])
  PROVE  Remains(p, x, es, ts, span)
<1>1. ASSUME NEW d \in Days, Here(v, d) PROVE x.card[Cell(d)] = v.card[Cell(d)]
  <2>1. Cell(d) \in Cells
    BY CellIs
  <2> QED  BY <1>1, <2>1 DEF SameOrMissing, Here
<1>2. ASSUME NEW d \in Days \ es, Here(p, d), Acc(p, d) # NO
      PROVE  Here(x, d) /\ Acc(x, d) # NO /\ (End(p, d) = NO => End(x, d) = NO)
  <2>1. Here(v, d) /\ Acc(v, d) # NO /\ (End(p, d) = NO => End(v, d) = NO)
    BY <1>2 DEF Remains
  <2>2. x.card[Cell(d)] = v.card[Cell(d)]
    BY <1>1, <2>1
  <2> QED  BY <2>1, <2>2 DEF Here, Acc, End, Ci
<1>3. ASSUME NEW d \in (span[1] .. span[2]) \ ts, Cut(p, d, es) PROVE HasMark(x, d)
  <2>1. HasMark(v, d) /\ Here(v, d)
    BY <1>3 DEF Remains, HasMark
  <2>2. d \in Days
    BY DayIs DEF SpanOK
  <2>3. x.card[Cell(d)] = v.card[Cell(d)]
    BY <1>1, <2>1, <2>2
  <2> QED  BY <2>1, <2>3 DEF HasMark, Here
<1> QED  BY <1>2, <1>3 DEF Remains

Joined(w, lo, hi) == \A k \in lo .. hi : Unended(w, k)
CutBy(w, d, e) ==
  /\ Here(w, e) /\ Acc(w, e) # NO
  /\ \/ e < d /\ Joined(w, e, d - 1)
     \/ e > d /\ Joined(w, d, e - 1)
LEMMA CutIs ==
  ASSUME NEW w, NEW d, NEW es
  PROVE  Cut(w, d, es) <=> Here(w, d) /\ Acc(w, d) # NO /\ \E e \in es : CutBy(w, d, e)
BY DEF Cut, CutBy, Joined

\* No day between is cut out if the nearest that is cut out is further away.
LEMMA NoneBetween ==
  ASSUME NEW p, NEW d \in Int, NEW e \in Int, NEW es, Here(p, d), Acc(p, d) # NO,
         CutBy(p, d, e), e \notin es, d \notin es, ~Cut(p, d, es)
  PROVE  /\ e < d => \A k \in e .. d : k \notin es
         /\ e > d => \A k \in d .. e : k \notin es
<1>1. ASSUME NEW k \in Int, k \in es, CutBy(p, d, k) PROVE FALSE
  BY <1>1, CutIs
<1>2. ASSUME e < d, NEW k \in e .. d, k \in es PROVE FALSE
  <2>1. Joined(p, e, d - 1) /\ k # d /\ k \in e .. d - 1 /\ k \in Int /\ k < d
    BY <1>2 DEF CutBy
  <2>2. Unended(p, k)
    BY <2>1 DEF Joined
  <2>3. Joined(p, k, d - 1)
    <3>1. k .. d - 1 \subseteq e .. d - 1
      BY <2>1
    <3> QED  BY <2>1, <3>1 DEF Joined
  <2>4. CutBy(p, d, k)
    BY <2>1, <2>2, <2>3 DEF CutBy, Unended
  <2> QED  BY <1>1, <1>2, <2>1, <2>4
<1>3. ASSUME e > d, NEW k \in d .. e, k \in es PROVE FALSE
  <2>1. Joined(p, d, e - 1) /\ k # d /\ k # e /\ k \in d .. e - 1 /\ k \in Int /\ k > d
    BY <1>3 DEF CutBy
  <2>2. Unended(p, k)
    BY <2>1 DEF Joined
  <2>3. Joined(p, d, k - 1)
    <3>1. d .. k - 1 \subseteq d .. e - 1
      BY <2>1
    <3> QED  BY <2>1, <3>1 DEF Joined
  <2>4. CutBy(p, d, k)
    BY <2>1, <2>2, <2>3 DEF CutBy, Unended
  <2> QED  BY <1>1, <1>3, <2>1, <2>4
<1> QED  BY <1>2, <1>3

LEMMA RemainsOn ==
  ASSUME NEW p, NEW w, NEW v, NEW es, NEW ts, es \subseteq ts, NEW span, SpanOK(span),
         Remains(p, w, es, ts, span), NEW t, OpKeeps(w, v, t, span),
         NEW es1, es1 = es \cup (IF t.how \in {"edit", "redist"} THEN t.days ELSE {}),
         NEW ts1, ts1 = ts \cup (IF t.how \in {"edit", "redist", "redistQC2"} THEN t.days ELSE {})
  PROVE  Remains(p, v, es1, ts1, span)
<1> DEFINE cut == IF t.how \in {"edit", "redist"} THEN t.days ELSE {}
<1>1. /\ t.days \subseteq Days /\ (t.how \in {"edit", "redist", "redistQC2"} \/ t.days = {})
      /\ KeepsMarks(w, v, t.days) /\ KeepsParts(w, v, cut)
      /\ cut # {} => cut = t.days /\ MarksCut(w, v, span, t.days)
      /\ cut \subseteq Days /\ es1 = es \cup cut /\ ts1 = ts \cup t.days
  BY DEF OpKeeps, Tooks
<1> HIDE DEF cut
<1>2. ASSUME NEW d \in Days \ es1, Here(p, d), Acc(p, d) # NO
      PROVE  Here(v, d) /\ Acc(v, d) # NO /\ (End(p, d) = NO => End(v, d) = NO)
  <2>1. d \in Days \ es /\ d \in Days \ cut
    BY <1>1
  <2>2. Here(w, d) /\ Acc(w, d) # NO /\ (End(p, d) = NO => End(w, d) = NO)
    BY <1>2, <2>1 DEF Remains
  <2> QED  BY <1>1, <2>1, <2>2 DEF KeepsParts
<1>3. ASSUME NEW d \in (span[1] .. span[2]) \ ts1, Cut(p, d, es1) PROVE HasMark(v, d)
  <2>1. d \in Days /\ d \in Int /\ d \in (span[1] .. span[2]) \ ts /\ d \notin t.days /\ d \notin es
    BY <1>1, DayIs DEF SpanOK
  <2>2. CASE Cut(p, d, es)
    <3>1. HasMark(w, d)
      BY <2>1, <2>2 DEF Remains
    <3> QED  BY <1>1, <2>1, <3>1 DEF KeepsMarks
  <2>3. CASE ~Cut(p, d, es)
    <3>1. Here(p, d) /\ Acc(p, d) # NO /\ \E e \in es1 : CutBy(p, d, e)
      BY <1>3, CutIs
    <3>2. PICK e \in es1 : CutBy(p, d, e)
      BY <3>1
    <3>3. e \notin es /\ e \in cut /\ e \in Days /\ e \in Int
      <4>1. e \notin es
        BY <2>3, <3>1, <3>2, CutIs
      <4> QED  BY <1>1, <4>1, DayIs
    <3>4. /\ e < d => \A k \in e .. d : k \notin es
          /\ e > d => \A k \in d .. e : k \notin es
      BY <2>1, <2>3, <3>1, <3>2, <3>3, NoneBetween
    <3>5. ASSUME NEW k \in Days, k \notin es, Here(p, k), Acc(p, k) # NO
          PROVE  Here(w, k) /\ Acc(w, k) # NO /\ (End(p, k) = NO => End(w, k) = NO)
      BY <3>5 DEF Remains
    <3>6. Here(w, d) /\ Acc(w, d) # NO
      BY <2>1, <3>1, <3>5
    <3>7. Here(w, e) /\ Acc(w, e) # NO
      BY <3>2, <3>3, <3>5 DEF CutBy
    <3>8. ASSUME NEW k \in Days, k \notin es, Unended(p, k) PROVE Unended(w, k)
      BY <3>5, <3>8 DEF Unended
    <3>9. CutBy(w, d, e)
      <4>1. CASE e < d
        <5>1. Joined(p, e, d - 1)
          BY <2>1, <3>2, <3>3, <4>1 DEF CutBy
        <5>2. \A k \in e .. d - 1 : k \in Days /\ k \notin es
          BY <2>1, <3>3, <3>4, <4>1, DayIs
        <5>3. Joined(w, e, d - 1)
          BY <3>8, <5>1, <5>2 DEF Joined
        <5> QED  BY <3>7, <4>1, <5>3 DEF CutBy
      <4>2. CASE e > d
        <5>1. Joined(p, d, e - 1)
          BY <2>1, <3>2, <3>3, <4>2 DEF CutBy
        <5>2. \A k \in d .. e - 1 : k \in Days /\ k \notin es
          BY <2>1, <3>3, <3>4, <4>2, DayIs
        <5>3. Joined(w, d, e - 1)
          BY <3>8, <5>1, <5>2 DEF Joined
        <5> QED  BY <3>7, <4>2, <5>3 DEF CutBy
      <4> QED  BY <3>2, <4>1, <4>2 DEF CutBy
    <3>10. Cut(w, d, t.days) /\ cut # {} /\ e \in t.days
      BY <1>1, <3>3, <3>6, <3>9, CutIs
    <3> QED  BY <1>1, <2>1, <3>10 DEF MarksCut
  <2> QED  BY <2>2, <2>3
<1> QED  BY <1>2, <1>3 DEF Remains

\* Only the card counts.
LEMMA RemainsOf ==
  ASSUME NEW p, NEW v, NEW x, NEW es, NEW ts, NEW span, Remains(p, v, es, ts, span),
         x.card = v.card
  PROVE  Remains(p, x, es, ts, span)
BY DEF Remains, Here, Acc, End, Ci, HasMark
-----------------------------------------------------------------------------
(* The versions of a session: what is left of the opened card's            *)
(* accumulations is as it was, and marked, after each of them.             *)
CutHows == {"edit", "redist"}
TakeHows == {"edit", "redist", "redistQC2"}
DaysOf(tk, n, hows) == UNION {tk[k].days : k \in {j \in 1 .. n : tk[j].how \in hows}}
RestAt(p, a, tk, span, k) ==
  Remains(Fresh(p), Fresh(CardAt(p, a, k)), DaysOf(tk, k, CutHows), DaysOf(tk, k, TakeHows), span)
HistInv ==
  dialog = "open" /\ "opening" \notin stale =>
    \A k \in 1 .. da.highest : RestAt(parent, da, taken, editable, k)

SameUpTo(tk, tm, n) == \A k \in 1 .. n : tm[k] = tk[k]
LEMMA SameDays ==
  ASSUME NEW tk, NEW n, NEW tm, NEW hows, SameUpTo(tk, tm, n)
  PROVE  DaysOf(tm, n, hows) = DaysOf(tk, n, hows)
BY DEF DaysOf, SameUpTo
LEMMA MoreDays ==
  ASSUME NEW tk, NEW n \in Nat, NEW tm, NEW hows, SameUpTo(tk, tm, n)
  PROVE  DaysOf(tm, n + 1, hows)
           = DaysOf(tk, n, hows) \cup (IF tm[n + 1].how \in hows THEN tm[n + 1].days ELSE {})
<1>1. DaysOf(tm, n, hows) = DaysOf(tk, n, hows)
  BY SameDays
<1>2. \A k \in 1 .. n + 1 : k \in 1 .. n \/ k = n + 1
  OBVIOUS
<1>3. 1 .. n \subseteq 1 .. n + 1 /\ n + 1 \in 1 .. n + 1
  OBVIOUS
<1> DEFINE new == IF tm[n + 1].how \in hows THEN tm[n + 1].days ELSE {}
<1>4. ASSUME NEW d \in DaysOf(tm, n + 1, hows) PROVE d \in DaysOf(tm, n, hows) \cup new
  <2>1. PICK k \in 1 .. n + 1 : tm[k].how \in hows /\ d \in tm[k].days
    BY DEF DaysOf
  <2> QED  BY <1>2, <2>1 DEF DaysOf
<1>5. ASSUME NEW d \in DaysOf(tm, n, hows) \cup new PROVE d \in DaysOf(tm, n + 1, hows)
  <2>1. CASE d \in DaysOf(tm, n, hows)
    <3>1. PICK k \in 1 .. n : tm[k].how \in hows /\ d \in tm[k].days
      BY <2>1 DEF DaysOf
    <3> QED  BY <1>3, <3>1 DEF DaysOf
  <2>2. CASE d \in new
    BY <1>3, <2>2 DEF DaysOf
  <2> QED  BY <2>1, <2>2
<1> QED  BY <1>1, <1>4, <1>5

LEMMA DaysOfNested ==
  ASSUME NEW tk, NEW n \in Nat
  PROVE  DaysOf(tk, n, CutHows) \subseteq DaysOf(tk, n, TakeHows)
BY DEF DaysOf, CutHows, TakeHows

\* One more operation.
LEMMA HistStep ==
  ASSUME NEW p, NEW a, NEW b, NEW tk, NEW tm, NEW span, SpanOK(span), NEW t, NEW n \in Nat, n >= 1,
         NEW w, NEW v, OpKeeps(w, v, t, span),
         \A k \in 1 .. n : RestAt(p, a, tk, span, k),
         \A k \in 0 .. n : \A c \in Cells : SameOrMissing(CardAt(p, a, k)[c], CardAt(p, b, k)[c]),
         w.card = CardAt(p, a, n), v.card = CardAt(p, b, n + 1),
         tm[n + 1] = t, \A k \in 1 .. n : tm[k] = tk[k],
         NEW m \in 1 .. n + 1
  PROVE  RestAt(p, b, tm, span, m)
<1>1. CASE m \in 1 .. n
  <2> DEFINE x == Fresh(CardAt(p, a, m))
             y == Fresh(CardAt(p, b, m))
             es == DaysOf(tk, m, CutHows)
             ts == DaysOf(tk, m, TakeHows)
             q == Fresh(p)
  <2>1. Remains(q, x, es, ts, span)
    BY <1>1 DEF RestAt
  <2>2. \A c \in Cells : SameOrMissing(x.card[c], y.card[c])
    <3>1. m \in 0 .. n
      BY <1>1
    <3> QED  BY <3>1 DEF Fresh
  <2>3. DaysOf(tm, m, CutHows) = es /\ DaysOf(tm, m, TakeHows) = ts
    <3>1. m \in Nat /\ SameUpTo(tk, tm, m)
      BY <1>1 DEF SameUpTo
    <3> QED  BY <3>1, SameDays
  <2> HIDE DEF x, y, es, ts, q
  <2>4. Remains(q, y, es, ts, span)
    BY <2>1, <2>2, RemainsMissing
  <2> QED  BY <2>3, <2>4 DEF RestAt, q, y
<1>2. CASE m = n + 1
  <2> DEFINE q == Fresh(p)
             x == Fresh(CardAt(p, a, n))
             y == Fresh(CardAt(p, b, n + 1))
             es == DaysOf(tk, n, CutHows)
             ts == DaysOf(tk, n, TakeHows)
             es1 == DaysOf(tm, n + 1, CutHows)
             ts1 == DaysOf(tm, n + 1, TakeHows)
  <2>1. Remains(q, x, es, ts, span)
    <3>1. n \in 1 .. n
      OBVIOUS
    <3> QED  BY <3>1 DEF RestAt
  <2>2. w.card = x.card /\ v.card = y.card
    BY DEF Fresh
  <2>3. /\ es1 = es \cup (IF t.how \in {"edit", "redist"} THEN t.days ELSE {})
        /\ ts1 = ts \cup (IF t.how \in {"edit", "redist", "redistQC2"} THEN t.days ELSE {})
    <3> DEFINE ch == CutHows
               th == TakeHows
    <3> HIDE DEF ch, th
    <3>0. SameUpTo(tk, tm, n)
      BY DEF SameUpTo
    <3>1. DaysOf(tm, n + 1, ch)
            = DaysOf(tk, n, ch) \cup (IF tm[n + 1].how \in ch THEN tm[n + 1].days ELSE {})
      BY <3>0, MoreDays
    <3>2. DaysOf(tm, n + 1, th)
            = DaysOf(tk, n, th) \cup (IF tm[n + 1].how \in th THEN tm[n + 1].days ELSE {})
      BY <3>0, MoreDays
    <3>3. ch = {"edit", "redist"} /\ th = {"edit", "redist", "redistQC2"}
      BY DEF ch, th, CutHows, TakeHows
    <3> HIDE DEF es, ts, es1, ts1
    <3>4. /\ es1 = DaysOf(tm, n + 1, ch) /\ es = DaysOf(tk, n, ch)
          /\ ts1 = DaysOf(tm, n + 1, th) /\ ts = DaysOf(tk, n, th)
      BY DEF es, ts, es1, ts1, ch, th
    <3> QED  BY <3>1, <3>2, <3>3, <3>4
  <2>4. es \subseteq ts
    BY DaysOfNested
  <2> HIDE DEF x, y, es, ts, es1, ts1, q
  <2>5. Remains(q, w, es, ts, span)
    BY <2>1, <2>2, RemainsOf
  <2>6. Remains(q, v, es1, ts1, span)
    BY <2>3, <2>4, <2>5, RemainsOn
  <2>7. Remains(q, y, es1, ts1, span)
    BY <2>2, <2>6, RemainsOf
  <2> QED  BY <1>2, <2>7 DEF RestAt, q, y, es1, ts1
<1> QED  BY <1>1, <1>2

LEMMA HistOp ==
  ASSUME TypeInv, dialog = "open", HistInv, NEW took, AnOperation(took)
  PROVE  HistInv'
<1>1. PICK work : Operation(work, took) /\ OpKeeps(Work, work, took, editable)
  BY DEF AnOperation
<1>2. took \in Tooks /\ Follows(Work, work)
  BY <1>1 DEF OpKeeps
<1>3. /\ da'.current = da.current + 1 /\ da'.highest = da.current + 1
      /\ parent' = parent /\ editable' = editable /\ stale' = stale \ {"selection"}
      /\ work.card = CardAt(parent, da', da.current + 1)
      /\ \A k \in 0 .. da.current : \A c \in Cells :
           SameOrMissing(CardAt(parent, da, k)[c], CardAt(parent, da', k)[c])
      /\ taken'[da.current + 1] = took
      /\ \A k \in 1 .. da.current : taken'[k] = taken[k]
  BY <1>1, <1>2, OperationIs
<1>4. da.current \in Nat /\ da.current >= 1 /\ da.current <= da.highest /\ da.highest \in Nat
      /\ SpanOK(editable)
  BY TypedIs DEF TypeInv, AccessOK, OpenInv
<1>5. Work.card = CardAt(parent, da, da.current)
  BY TypedIs, ViewIs DEF TypeInv
<1>6. SUFFICES ASSUME "opening" \notin stale, NEW m \in 1 .. da.current + 1
               PROVE  RestAt(parent, da', taken', editable, m)
  BY <1>3 DEF HistInv
<1>7. \A k \in 1 .. da.current : RestAt(parent, da, taken, editable, k)
  BY <1>4, <1>6 DEF HistInv
<1> DEFINE a == da
           b == da'
           n == da.current
           w == Work
           tm == taken'
<1>8. /\ SpanOK(editable) /\ n \in Nat /\ n >= 1 /\ OpKeeps(w, work, took, editable)
      /\ \A k \in 1 .. n : RestAt(parent, a, taken, editable, k)
      /\ \A k \in 0 .. n : \A c \in Cells :
           SameOrMissing(CardAt(parent, a, k)[c], CardAt(parent, b, k)[c])
      /\ w.card = CardAt(parent, a, n) /\ work.card = CardAt(parent, b, n + 1)
      /\ tm[n + 1] = took /\ (\A k \in 1 .. n : tm[k] = taken[k]) /\ m \in 1 .. n + 1
  BY <1>1, <1>3, <1>4, <1>5, <1>6, <1>7
<1> HIDE DEF a, b, n, w, tm
<1>9. RestAt(parent, b, tm, editable, m)
  BY <1>8, HistStep
<1> QED  BY <1>9 DEF b, tm

\* The version that the analysis makes.
LEMMA OpenedVersion ==
  ASSUME TypeInv, Open
  PROVE  /\ CardAt(parent, da', 1) = Opened(parent, editable').card
         /\ Analysed(Fresh(parent), Opened(parent, editable'), editable'[1], editable'[2])
         /\ parent' = parent /\ da'.highest = 1 /\ SpanOK(editable')
<1>1. /\ SpanOK(editable') /\ editable' \in Int \X Int
      /\ View(da)' = Opened(parent, editable').card /\ da'.current = 1 /\ da'.highest = 1
      /\ TypeInv'
  BY OpenTyped
<1>2. parent' = parent
  BY DEF Open
<1>3. CardAt(parent, da', 1) = Opened(parent, editable').card
  <2>1. View(da)' = ViewOf(parent, da') /\ AccessOK(da')
    BY <1>1, <1>2 DEF View, ViewOf, TypeInv
  <2>2. parent \in [Cells -> Shown]
    BY TypedIs
  <2>3. ViewOf(parent, da') = CardAt(parent, da', da'.current)
    BY <2>1, <2>2, ViewIs
  <2> QED  BY <1>1, <2>1, <2>3
<1>4. Analysed(Fresh(parent), Opened(parent, editable'), editable'[1], editable'[2])
  <2> DEFINE span == editable'
  <2>1. parent \in [Cells -> Untaskeds \cup {NoObs}]
    BY DEF TypeInv, ParentOK
  <2>2. span \in Int \X Int /\ SpanOK(span)
    BY <1>1
  <2> HIDE DEF span
  <2>3. Analysed(Fresh(parent), Opened(parent, span), span[1], span[2])
    BY <2>1, <2>2, OpenedIs
  <2> QED  BY <2>3 DEF span
<1> QED  BY <1>1, <1>2, <1>3, <1>4

LEMMA HistOpen ==
  ASSUME TypeInv, Open
  PROVE  HistInv'
<1> DEFINE p == Fresh(parent)
           span == editable'
           v == Opened(parent, editable')
<1>1. /\ CardAt(parent, da', 1) = v.card /\ Analysed(p, v, span[1], span[2])
      /\ parent' = parent /\ da'.highest = 1
  BY OpenedVersion
<1>2. \A hows : DaysOf(taken', 1, hows) = {}
  <2>1. taken'[1].days = {} /\ \A k \in 1 .. 1 : k = 1
    BY DEF Open, Took
  <2> QED  BY <2>1 DEF DaysOf
<1> HIDE DEF p, span, v
<1>3. Remains(p, v, {}, {}, span)
  <2>1. ASSUME NEW d \in Days, Here(p, d)
        PROVE  Here(v, d) /\ Acc(v, d) = Acc(p, d) /\ End(v, d) = End(p, d)
    <3>1. Spared(p, v, d)
      BY <1>1, <2>1 DEF Analysed
    <3> QED  BY <2>1, <3>1, SparedFlags
  <2>2. \A d : ~Cut(p, d, {})
    BY CutIs
  <2> QED  BY <2>1, <2>2 DEF Remains
<1>4. RestAt(parent, da', taken', span, 1)
  <2> DEFINE x == Fresh(CardAt(parent, da', 1))
  <2>1. x.card = v.card
    BY <1>1 DEF Fresh
  <2> HIDE DEF x
  <2>2. Remains(p, x, {}, {}, span)
    BY <1>3, <2>1, RemainsOf
  <2>3. DaysOf(taken', 1, CutHows) = {} /\ DaysOf(taken', 1, TakeHows) = {}
    BY <1>2
  <2> QED  BY <2>2, <2>3 DEF RestAt, x, p
<1>5. \A k \in 1 .. 1 : k = 1
  OBVIOUS
<1> QED  BY <1>1, <1>4, <1>5 DEF HistInv, span

LEMMA HistUndo ==
  ASSUME TypeInv, HistInv, Undo \/ Redo
  PROVE  HistInv'
<1>1. PICK n \in 1 .. da.highest :
        /\ UndoRedo(n) /\ dialog = "open" /\ da'.highest = da.highest
        /\ \A k \in Nat : CardAt(parent, da', k) = CardAt(parent, da, k)
  BY UndoRedoIs
<1>2. /\ parent' = parent /\ editable' = editable /\ taken' = taken /\ stale' = stale \ {"selection"}
  BY <1>1 DEF UndoRedo, ClearSelection
<1>3. ASSUME NEW k \in 1 .. da.highest, RestAt(parent, da, taken, editable, k)
      PROVE  RestAt(parent, da', taken, editable, k)
  <2>1. CardAt(parent, da', k) = CardAt(parent, da, k)
    BY <1>1
  <2> QED  BY <1>3, <2>1 DEF RestAt
<1> QED  BY <1>1, <1>2, <1>3 DEF HistInv

LEMMA HistSame ==
  ASSUME HistInv, UNCHANGED << parent, da, dialog, editable, taken >>,
         "opening" \in stale => "opening" \in stale'
  PROVE  HistInv'
BY DEF HistInv

\* The dialogs alone change nothing of the card.
LEMMA DialogsKeep ==
  (\/ OpenDialog("edit") \/ OpenDialog("redist") \/ SubCancel
   \/ \E i \in 1 .. LastDay - FirstDay + 1 : \/ \E v \in Amounts : EnterValue(i, v)
                                             \/ RejectRow(i) \/ AcceptOneRow(i)
   \/ AcceptAll \/ RejectAll \/ \E w \in Weights : ButtonAuto(w))
    => UNCHANGED << parent, da, dialog, editable, taken, stale >>
<1>1. ASSUME NEW b, SubChange(b)
      PROVE  UNCHANGED << parent, da, dialog, editable, taken, stale >>
  BY <1>1 DEF SubChange
<1>2. ASSUME OpenDialog("edit") \/ OpenDialog("redist") \/ SubCancel
      PROVE  UNCHANGED << parent, da, dialog, editable, taken, stale >>
  BY <1>2 DEF OpenDialog, SubCancel
<1>3. ASSUME NEW i, NEW v, EnterValue(i, v) \/ RejectRow(i) \/ AcceptOneRow(i)
      PROVE  UNCHANGED << parent, da, dialog, editable, taken, stale >>
  BY <1>1, <1>3 DEF EnterValue, RejectRow, AcceptOneRow
<1>4. ASSUME AcceptAll \/ RejectAll \/ \E w \in Weights : ButtonAuto(w)
      PROVE  UNCHANGED << parent, da, dialog, editable, taken, stale >>
  BY <1>1, <1>4 DEF AcceptAll, RejectAll, ButtonAuto
<1> QED  BY <1>2, <1>3, <1>4

LEMMA NextHist ==
  ASSUME TypeInv, HistInv, [Next]_vars
  PROVE  HistInv'
<1>1. CASE Open
  BY <1>1, HistOpen
<1>2. CASE AcceptRow \/ RedistributeQC2 \/ SubOk
  <2>1. /\ dialog = "open"
        /\ NoOperation \/ \E took : AnOperation(took)
    BY <1>2, AcceptRowIs, RedistributeQC2Is, SubOkIs
  <2>2. CASE NoOperation
    <3>1. UNCHANGED << parent, da, dialog, editable, taken >> /\ stale' = stale \ {"selection"}
      BY <2>2 DEF NoOperation, ClearSelection
    <3> QED  BY <3>1, HistSame
  <2> QED  BY <2>1, <2>2, HistOp
<1>3. CASE Undo \/ Redo
  BY <1>3, HistUndo
<1>4. CASE Save \/ Discard
  BY <1>4 DEF Save, Discard, Close, HistInv
<1>5. CASE \E ch \in Changes : ParentChange(ch[1], ch[2])
  BY <1>5 DEF ParentChange, HistInv
<1>6. CASE \E lo, hi \in Days, col \in {"corrected", "original", "row"} : Select(lo, hi, col)
  <2>1. UNCHANGED << parent, da, dialog, editable, taken >> /\ stale' = stale \ {"selection"}
    BY <1>6 DEF Select
  <2> QED  BY <2>1, HistSame
<1>7. CASE \/ OpenDialog("edit") \/ OpenDialog("redist") \/ SubCancel
           \/ \E i \in 1 .. LastDay - FirstDay + 1 : \/ \E v \in Amounts : EnterValue(i, v)
                                                     \/ RejectRow(i) \/ AcceptOneRow(i)
           \/ AcceptAll \/ RejectAll \/ \E w \in Weights : ButtonAuto(w)
  <2>1. UNCHANGED << parent, da, dialog, editable, taken, stale >>
    BY <1>7, DialogsKeep
  <2> QED  BY <2>1, HistSame
<1>8. CASE UNCHANGED vars
  BY <1>8, HistSame DEF vars
<1> QED  BY <1>1, <1>2, <1>3, <1>4, <1>5, <1>6, <1>7, <1>8 DEF Next

\* A day of the parent's card that has a mark cannot be saved.
LEMMA MarkIsRefused ==
  ASSUME TypeInv, NEW d \in Days, HasMark(Work, d)
  PROVE  Refused(da) # {}
<1> DEFINE c == Cell(d)
<1>1. c \in Cells /\ Work.card[c] = View(da)[c] /\ Work.card[c] # NoObs
      /\ "previously_accumulation" \in Work.card[c].tasks
  BY CellIs, TypedIs DEF HasMark, Here
<1> HIDE DEF c
<1>2. CASE c \in DOMAIN da.edited
  <2>1. View(da)[c] = EV!CurrentData(da.edited[c])
    BY <1>2, EditShows
  <2>2. c \in Refused(da)
    BY <1>1, <1>2, <2>1 DEF Refused, RequiredTasks
  <2> QED  BY <2>2
<1>3. CASE c \notin DOMAIN da.edited
  <2>1. View(da)[c] = parent[c]
    BY <1>1, <1>3 DEF View
  <2>2. parent[c] \in Untaskeds
    BY <1>1, <2>1 DEF TypeInv, ParentOK
  <2>3. parent[c].tasks = {}
    BY <2>2 DEF Untaskeds
  <2> QED  BY <1>1, <2>1, <2>3
<1> QED  BY <1>2, <1>3

LEMMA SavedWhole ==
  ASSUME TypeInv, HistInv, Next, dialog = "open", dialog' = "closed", parent' # parent,
         "opening" \notin stale,
         NEW d \in (editable[1] .. editable[2])
                     \ TakenDays(da.current, {"edit", "redist", "redistQC2"})
  PROVE  ~Cut(Fresh(parent), d, TakenDays(da.current, {"edit", "redist"}))
<1>1. Save
  <2>1. ~Open /\ ~AcceptRow /\ ~RedistributeQC2 /\ ~Undo /\ ~Redo /\ ~Discard /\ ~SubOk
    BY DEF Open, AcceptRow, RedistributeQC2, Operation, Undo, Redo, UndoRedo, Discard, SubOk
  <2>2. \A lo, hi, col : ~Select(lo, hi, col)
    BY DEF Select
  <2>3. ~OpenDialog("edit") /\ ~OpenDialog("redist") /\ ~SubCancel
    BY DEF OpenDialog, SubCancel
  <2>4. \A i, v : ~EnterValue(i, v) /\ ~RejectRow(i) /\ ~AcceptOneRow(i)
    BY DEF EnterValue, RejectRow, AcceptOneRow, SubChange
  <2>5. ~AcceptAll /\ ~RejectAll /\ \A w : ~ButtonAuto(w)
    BY DEF AcceptAll, RejectAll, ButtonAuto, SubChange
  <2>6. \A c, x : ~ParentChange(c, x)
    BY DEF ParentChange
  <2> QED  BY <2>1, <2>2, <2>3, <2>4, <2>5, <2>6 DEF Next
<1>2. Refused(da) = {}
  BY <1>1 DEF Save
<1>3. da.current \in 1 .. da.highest /\ SpanOK(editable)
  BY TypedIs DEF TypeInv, AccessOK, OpenInv
<1>4. RestAt(parent, da, taken, editable, da.current)
  BY <1>3 DEF HistInv
<1>5. SUFFICES ASSUME Cut(Fresh(parent), d, TakenDays(da.current, {"edit", "redist"})) PROVE FALSE
  OBVIOUS
<1> DEFINE n == da.current
           es == DaysOf(taken, n, CutHows)
           ts == DaysOf(taken, n, TakeHows)
           p == Fresh(parent)
           x == Fresh(CardAt(parent, da, n))
<1>6. TakenDays(n, {"edit", "redist"}) = es /\ TakenDays(n, {"edit", "redist", "redistQC2"}) = ts
  BY DEF TakenDays, DaysOf, CutHows, TakeHows
<1>7. Remains(p, x, es, ts, editable)
  BY <1>4 DEF RestAt
<1>8. x.card = Work.card
  BY TypedIs, ViewIs DEF TypeInv, Fresh
<1> HIDE DEF es, ts, p, x
<1>9. HasMark(x, d)
  BY <1>5, <1>6, <1>7 DEF Remains, n, p
<1>10. HasMark(Work, d)
  BY <1>8, <1>9 DEF HasMark, Here
<1>11. d \in Days
  BY <1>3, DayIs DEF SpanOK
<1> QED  BY <1>2, <1>10, <1>11, MarkIsRefused

(* What a session saves leaves no rest of an accumulation that an edit or  *)
(* a redistribution cut in two: over every version, undo and redo, such a  *)
(* day keeps its required task until the user takes it in hand, and        *)
(* storeToBackend refuses to save it (markPreviousAccumulation,            *)
(* fillBackendupdate).                                                     *)
THEOREM SavesAreWhole == Spec => NoRemnantSaved
<1> DEFINE A == dialog = "open" /\ dialog' = "closed" /\ parent' # parent /\ "opening" \notin stale =>
                  \A d \in (editable[1] .. editable[2])
                             \ TakenDays(da.current, {"edit", "redist", "redistQC2"}) :
                    ~Cut(Fresh(parent), d, TakenDays(da.current, {"edit", "redist"}))
<1>1. Init => HistInv
  BY DEF Init, HistInv
<1>2. TypeInv /\ HistInv /\ [Next]_vars => HistInv'
  BY NextHist
<1>3. TypeInv /\ HistInv /\ [Next]_vars => [A]_vars
  <2>1. SUFFICES ASSUME TypeInv, HistInv, Next PROVE A
    OBVIOUS
  <2> QED  BY <2>1, SavedWhole
<1>4. [][A]_vars => NoRemnantSaved
  BY PTL DEF NoRemnantSaved
<1> HIDE DEF A
<1> QED  BY <1>1, <1>2, <1>3, <1>4, WatchTyped, PTL DEF Spec
-----------------------------------------------------------------------------
(* What the analysis has marked when the dialog is opened.                 *)
LEMMA NoFdNoAccumulation ==
  ASSUME NEW w, NEW d, w.card[Cell(d)].ci.fd = 0
  PROVE  Acc(w, d) = NO /\ ~Unended(w, d)
BY DEF Acc, Ci, IsAccumulation, Unended, NO, BEFORE_REDIST, QC2_REDIST, HQC_REDIST

\* The days of the card x that are shown are those that the analysis made.
Shows(v, x, lo, hi) == \A d \in lo .. hi : x.card[Cell(d)] = v.card[Cell(d)]
LEMMA ShownDays ==
  ASSUME NEW lo \in Int, NEW hi \in Int, lo .. hi \subseteq Days, NEW w, NEW v, NEW x,
         Analysed(w, v, lo, hi), Shows(v, x, lo, hi), NEW d \in lo .. hi
  PROVE  /\ Unended(x, d) <=> Unended(w, d)
         /\ Acc(x, d) # NO => Here(w, d)
         /\ Here(w, d) => Here(x, d) /\ Acc(x, d) = Acc(w, d) /\ End(x, d) = End(w, d)
<1>1. x.card[Cell(d)] = v.card[Cell(d)] /\ d \in Days
  BY DEF Shows
<1>2. CASE Here(w, d)
  <2>1. Spared(w, v, d)
    BY <1>1, <1>2 DEF Analysed
  <2>2. Spared(w, x, d)
    BY <1>1, <2>1 DEF Spared, Here
  <2> QED  BY <1>2, <2>2, SparedFlags
<1>3. CASE ~Here(w, d)
  <2>1. x.card[Cell(d)].ci.fd = 0
    BY <1>1, <1>3 DEF Analysed
  <2>2. Acc(x, d) = NO /\ ~Unended(x, d)
    BY <2>1, NoFdNoAccumulation
  <2> QED  BY <1>3, <2>2 DEF Unended
<1> QED  BY <1>2, <1>3

MarkedBy(v, lo, hi) == {d \in lo .. hi : v.card[Cell(d)].tasks \cap AnalysisTasks # {}}
LEMMA ShownComplete ==
  ASSUME NEW lo \in Int, NEW hi \in Int, lo .. hi \subseteq Days, NEW w, NEW v, NEW x,
         Analysed(w, v, lo, hi), Shows(v, x, lo, hi), NEW d \in lo .. hi
  PROVE  CompleteFrom(x, hi, d, MarkedBy(x, lo, hi))
<1>1. SUFFICES ASSUME Unended(x, d)
               PROVE  ~Whole(x, hi, d) <=> RunHas(x, hi, d, MarkedBy(x, lo, hi))
  BY DEF CompleteFrom
<1> DEFINE M == MarkedBy(v, lo, hi)
<1>2. MarkedBy(x, lo, hi) = M
  BY DEF Shows, MarkedBy
<1>3. d \in Int /\ \A k \in Int : d <= k /\ k <= hi => k \in lo .. hi
  OBVIOUS
<1>4. ASSUME NEW k \in lo .. hi
      PROVE  /\ Unended(x, k) <=> Unended(w, k)
             /\ Acc(x, k) # NO => Here(w, k)
             /\ Here(w, k) => Here(x, k) /\ Acc(x, k) = Acc(w, k) /\ End(x, k) = End(w, k)
  BY ShownDays
<1>5. CompleteFrom(w, hi, d, M)
  <2>1. ASSUME NEW k \in lo .. hi, Unended(w, k) PROVE k \in M <=> Broken(w, hi, k)
    BY <2>1 DEF Analysed, MarkedBy
  <2> HIDE DEF M
  <2> QED  BY <2>1, MarksAreComplete
<1>6. Unended(w, d) /\ Acc(x, d) = Acc(w, d) /\ Acc(w, d) # NO
  BY <1>1, <1>4 DEF Unended
<1>7. Whole(x, hi, d) <=> Whole(w, hi, d)
  <2>1. ASSUME NEW e \in d + 1 .. hi
        PROVE  (/\ \A k \in d .. e : Here(x, k) /\ Acc(x, k) = Acc(x, d)
                /\ End(x, e) # NO /\ \A k \in d .. e - 1 : End(x, k) = NO)
               <=> (/\ \A k \in d .. e : Here(w, k) /\ Acc(w, k) = Acc(w, d)
                    /\ End(w, e) # NO /\ \A k \in d .. e - 1 : End(w, k) = NO)
    <3>1. d .. e \subseteq lo .. hi /\ d .. e - 1 \subseteq d .. e /\ e \in d .. e
      BY <1>3
    <3>2. (\A k \in d .. e : Here(x, k) /\ Acc(x, k) = Acc(x, d))
          <=> (\A k \in d .. e : Here(w, k) /\ Acc(w, k) = Acc(w, d))
      BY <1>4, <1>6, <3>1
    <3>3. ASSUME \A k \in d .. e : Here(w, k)
          PROVE  (End(x, e) # NO /\ \A k \in d .. e - 1 : End(x, k) = NO)
                 <=> (End(w, e) # NO /\ \A k \in d .. e - 1 : End(w, k) = NO)
      BY <1>4, <3>1, <3>3
    <3> QED  BY <3>2, <3>3
  <2> QED  BY <2>1 DEF Whole
<1>8. RunHas(x, hi, d, M) <=> RunHas(w, hi, d, M)
  <2>1. ASSUME NEW k \in d .. hi
        PROVE  (\A j \in d .. k : Unended(x, j)) <=> (\A j \in d .. k : Unended(w, j))
    <3>1. d .. k \subseteq lo .. hi
      BY <1>3
    <3> QED  BY <1>4, <3>1
  <2> HIDE DEF M
  <2> QED  BY <2>1 DEF RunHas
<1> HIDE DEF M
<1> QED  BY <1>2, <1>5, <1>6, <1>7, <1>8 DEF CompleteFrom

\* The version of the analysis stays as it is within the editable span.
AnaInv ==
  dialog = "open" /\ "opening" \notin stale =>
    \A d \in editable[1] .. editable[2] :
      CardAt(parent, da, 1)[Cell(d)] = Opened(parent, editable).card[Cell(d)]

LEMMA AnaOp ==
  ASSUME TypeInv, dialog = "open", AnaInv, NEW took, AnOperation(took)
  PROVE  AnaInv'
<1>1. PICK work : Operation(work, took) /\ OpKeeps(Work, work, took, editable)
  BY DEF AnOperation
<1>2. took \in Tooks /\ Follows(Work, work)
  BY <1>1 DEF OpKeeps
<1>3. /\ parent' = parent /\ editable' = editable /\ stale' = stale \ {"selection"}
      /\ \A k \in 0 .. da.current : \A c \in Cells :
           SameOrMissing(CardAt(parent, da, k)[c], CardAt(parent, da', k)[c])
  BY <1>1, <1>2, OperationIs
<1>4. SUFFICES ASSUME "opening" \notin stale, NEW d \in editable[1] .. editable[2]
               PROVE  CardAt(parent, da', 1)[Cell(d)] = Opened(parent, editable).card[Cell(d)]
  BY <1>3 DEF AnaInv
<1>5. CardAt(parent, da, 1)[Cell(d)] = Opened(parent, editable).card[Cell(d)]
  BY <1>4 DEF AnaInv
<1>6. SpanOK(editable) /\ editable \in Int \X Int
  BY TypedIs
<1>7. Opened(parent, editable).card[Cell(d)] # NoObs
  <2>1. parent \in [Cells -> Untaskeds \cup {NoObs}]
    BY DEF TypeInv, ParentOK
  <2>2. Analysed(Fresh(parent), Opened(parent, editable), editable[1], editable[2])
    BY <1>6, <2>1, OpenedIs
  <2> QED  BY <2>2 DEF Analysed, Here
<1>8. Cell(d) \in Cells
  BY <1>6, DayIs, CellIs DEF SpanOK
<1>9. 1 \in 0 .. da.current
  BY DEF TypeInv, OpenInv, AccessOK
<1>10. SameOrMissing(CardAt(parent, da, 1)[Cell(d)], CardAt(parent, da', 1)[Cell(d)])
  BY <1>3, <1>8, <1>9
<1> QED  BY <1>5, <1>7, <1>10 DEF SameOrMissing

LEMMA AnaSame ==
  ASSUME AnaInv, UNCHANGED << parent, da, dialog, editable >>,
         "opening" \in stale => "opening" \in stale'
  PROVE  AnaInv'
BY DEF AnaInv

LEMMA NextAna ==
  ASSUME TypeInv, AnaInv, [Next]_vars
  PROVE  AnaInv'
<1>1. CASE Open
  BY <1>1, OpenedVersion DEF AnaInv
<1>2. CASE AcceptRow \/ RedistributeQC2 \/ SubOk
  <2>1. /\ dialog = "open"
        /\ NoOperation \/ \E took : AnOperation(took)
    BY <1>2, AcceptRowIs, RedistributeQC2Is, SubOkIs
  <2>2. CASE NoOperation
    <3>1. UNCHANGED << parent, da, dialog, editable >> /\ stale' = stale \ {"selection"}
      BY <2>2 DEF NoOperation, ClearSelection
    <3> QED  BY <3>1, AnaSame
  <2> QED  BY <2>1, <2>2, AnaOp
<1>3. CASE Undo \/ Redo
  <2>1. PICK n \in 1 .. da.highest :
          UndoRedo(n) /\ \A k \in Nat : CardAt(parent, da', k) = CardAt(parent, da, k)
    BY <1>3, UndoRedoIs
  <2>2. /\ parent' = parent /\ editable' = editable /\ dialog' = dialog
        /\ stale' = stale \ {"selection"}
    BY <2>1 DEF UndoRedo, ClearSelection
  <2>3. CardAt(parent, da', 1) = CardAt(parent, da, 1)
    BY <2>1
  <2> QED  BY <2>2, <2>3 DEF AnaInv
<1>4. CASE Save \/ Discard
  BY <1>4 DEF Save, Discard, Close, AnaInv
<1>5. CASE \E ch \in Changes : ParentChange(ch[1], ch[2])
  BY <1>5 DEF ParentChange, AnaInv
<1>6. CASE \E lo, hi \in Days, col \in {"corrected", "original", "row"} : Select(lo, hi, col)
  <2>1. UNCHANGED << parent, da, dialog, editable >> /\ stale' = stale \ {"selection"}
    BY <1>6 DEF Select
  <2> QED  BY <2>1, AnaSame
<1>7. CASE \/ OpenDialog("edit") \/ OpenDialog("redist") \/ SubCancel
           \/ \E i \in 1 .. LastDay - FirstDay + 1 : \/ \E v \in Amounts : EnterValue(i, v)
                                                     \/ RejectRow(i) \/ AcceptOneRow(i)
           \/ AcceptAll \/ RejectAll \/ \E w \in Weights : ButtonAuto(w)
  <2>1. UNCHANGED << parent, da, dialog, editable, stale >>
    BY <1>7, DialogsKeep
  <2> QED  BY <2>1, AnaSame
<1>8. CASE UNCHANGED vars
  BY <1>8, AnaSame DEF vars
<1> QED  BY <1>1, <1>2, <1>3, <1>4, <1>5, <1>6, <1>7, <1>8 DEF Next

LEMMA AnaShown ==
  ASSUME TypeInv, AnaInv
  PROVE  AnalysisComplete
<1>1. SUFFICES ASSUME dialog = "open", da.current = 1, "opening" \notin stale,
                      NEW d \in editable[1] .. editable[2], Unended(Work, d)
               PROVE  (~WholeAccumulation(Work, d)
                        <=> \E k \in d .. editable[2] :
                              /\ \A j \in d .. k : Unended(Work, j)
                              /\ View(da)[Cell(k)].tasks \cap {"no_endpoint", "mixed_redistribution"} # {})
  BY DEF AnalysisComplete
<1> DEFINE p == Fresh(parent)
           v == Opened(parent, editable)
           lo == editable[1]
           hi == editable[2]
           x == Work
<1>2. SpanOK(editable) /\ editable \in Int \X Int
  BY <1>1, TypedIs
<1>3. Analysed(p, v, lo, hi)
  <2>1. parent \in [Cells -> Untaskeds \cup {NoObs}]
    BY DEF TypeInv, ParentOK
  <2> QED  BY <1>2, <2>1, OpenedIs
<1>4. x.card = View(da) /\ x.card = CardAt(parent, da, 1)
  BY <1>1, TypedIs, ViewIs DEF TypeInv
<1>5. Shows(v, x, lo, hi)
  BY <1>1, <1>4 DEF AnaInv, Shows
<1>6. lo \in Int /\ hi \in Int /\ lo .. hi \subseteq Days
  BY <1>2, DayIs DEF SpanOK
<1>7. d \in lo .. hi /\ Unended(x, d)
  BY <1>1
<1> HIDE DEF p, v, lo, hi, x
<1>8. CompleteFrom(x, hi, d, MarkedBy(x, lo, hi))
  BY <1>3, <1>5, <1>6, <1>7, ShownComplete
<1>9. ~Whole(x, hi, d) <=> RunHas(x, hi, d, MarkedBy(x, lo, hi))
  BY <1>7, <1>8 DEF CompleteFrom
<1>10. Whole(x, hi, d) <=> WholeAccumulation(x, d)
  BY DEF Whole, WholeAccumulation, hi
<1>11. RunHas(x, hi, d, MarkedBy(x, lo, hi))
       <=> \E k \in d .. hi : /\ \A j \in d .. k : Unended(x, j)
                              /\ View(da)[Cell(k)].tasks \cap AnalysisTasks # {}
  <2>1. d .. hi \subseteq lo .. hi
    BY <1>6, <1>7
  <2>2. \A k \in d .. hi : k \in MarkedBy(x, lo, hi) <=> View(da)[Cell(k)].tasks \cap AnalysisTasks # {}
    BY <1>4, <2>1 DEF MarkedBy
  <2> QED  BY <2>2 DEF RunHas
<1> QED  BY <1>9, <1>10, <1>11 DEF AnalysisTasks, x, hi

(* When the dialog has been opened, or everything was undone, the analysis *)
(* has marked a day of what is left of each accumulation that is not whole *)
(* from there on, and no day of one that is (analyse of AnalyseRR24.cc).   *)
THEOREM AnalysisMarks == Spec => []AnalysisComplete
<1>1. Init => AnaInv
  BY DEF Init, AnaInv
<1>2. TypeInv /\ AnaInv /\ [Next]_vars => AnaInv'
  BY NextAna
<1>3. TypeInv /\ AnaInv => AnalysisComplete
  BY AnaShown
<1> QED  BY <1>1, <1>2, <1>3, WatchTyped, PTL DEF Spec
=============================================================================
