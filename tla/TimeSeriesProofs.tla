---------------------------- MODULE TimeSeriesProofs ----------------------------
(***************************************************************************)
(* What TimeSeries plots is what the view says that it plots, for all      *)
(* sensors, neighbours, times and gaps, and any order of what the user and *)
(* the answers do, seen or hidden.                                         *)
(***************************************************************************)
EXTENDS TimeSeries, SequenceTheorems, WellFoundedInduction, TLAPS

(* Induction over the natural numbers, for a set of them. *)
LEMMA AllNumbers ==
  ASSUME NEW N \in SUBSET Nat, 0 \in N, \A n \in N : n + 1 \in N
  PROVE  Nat \subseteq N
<1> DEFINE R == {p \in Nat \X Nat : p[1] < p[2]}
           T == Nat \ N
<1>1. IsWellFoundedOn(R, Nat)
  <2>1. R = OpToRel(<, Nat)
    BY DEF OpToRel
  <2> QED  BY <2>1, NatLessThanWellFounded
<1>2. SUFFICES ASSUME T # {} PROVE FALSE
  OBVIOUS
<1>3. PICK t \in T : \A u \in T : ~ (<< u, t >> \in R)
  <2> HIDE DEF R, T
  <2>1. T \subseteq Nat
    BY DEF T
  <2> QED  BY <1>1, <1>2, <2>1, WFMin
<1>4. t \in Nat /\ t # 0 /\ t - 1 \in Nat /\ << t - 1, t >> \in R /\ (t - 1) + 1 = t
  OBVIOUS
<1>5. t - 1 \in N
  BY <1>3, <1>4
<1> QED  BY <1>4, <1>5

(* Loops: a function of the number of turns with a step for each, and      *)
(* what holds before a turn and after it.                                  *)
Turns(f, n, x0, F) == f = [i \in 0 .. n |-> IF i = 0 THEN x0 ELSE F[<< i, f[i - 1] >>]]
LEMMA Loop ==
  ASSUME NEW n \in Nat, NEW X, NEW x0 \in X, NEW F \in [(1 .. n) \X X -> X]
  PROVE  \E f \in [0 .. n -> X] : Turns(f, n, x0, F)
<1> DEFINE Solves(f, m) ==
             /\ f \in [0 .. n -> X] /\ f[0] = x0
             /\ \A i \in 1 .. n : i <= m => f[i] = F[<< i, f[i - 1] >>]
           N == {m \in Nat : m <= n => \E f : Solves(f, m)}
<1>1. 0 \in N
  <2>1. Solves([i \in 0 .. n |-> x0], 0)
    OBVIOUS
  <2> QED  BY <2>1
<1>2. ASSUME NEW m \in N PROVE m + 1 \in N
  <2>1. SUFFICES ASSUME m + 1 <= n PROVE \E f : Solves(f, m + 1)
    OBVIOUS
  <2>2. PICK f : Solves(f, m)
    BY <2>1
  <2> DEFINE g == [f EXCEPT ![m + 1] = F[<< m + 1, f[m] >>]]
  <2>3. m \in 0 .. n /\ m + 1 \in 1 .. n /\ m + 1 \in 0 .. n /\ f[m] \in X
    BY <2>1, <2>2
  <2>4. F[<< m + 1, f[m] >>] \in X
    BY <2>3
  <2>5. g \in [0 .. n -> X] /\ g[0] = x0
    BY <2>2, <2>3, <2>4
  <2>6. ASSUME NEW i \in 1 .. n, i <= m + 1 PROVE g[i] = F[<< i, g[i - 1] >>]
    <3>1. i - 1 \in 0 .. n /\ i \in 0 .. n /\ i - 1 # m + 1
      BY <2>6
    <3>2. g[i - 1] = f[i - 1]
      BY <2>2, <3>1
    <3>3. CASE i = m + 1
      <4>1. g[m + 1] = F[<< m + 1, f[m] >>]
        BY <2>2, <2>3
      <4>2. g[i - 1] = f[m]
        BY <3>2, <3>3
      <4> QED  BY <3>3, <4>1, <4>2
    <3>4. CASE i # m + 1
      <4>1. i <= m /\ g[i] = f[i]
        BY <2>2, <2>6, <3>1, <3>4
      <4> QED  BY <2>2, <3>2, <4>1
    <3> QED  BY <3>3, <3>4
  <2> QED  BY <2>5, <2>6
<1>3. n \in N
  <2> HIDE DEF N
  <2>1. N \subseteq Nat
    BY DEF N
  <2> QED  BY <1>1, <1>2, <2>1, AllNumbers
<1>4. PICK f : Solves(f, n)
  BY <1>3
<1>5. ASSUME NEW i \in 0 .. n PROVE f[i] = IF i = 0 THEN x0 ELSE F[<< i, f[i - 1] >>]
  BY <1>4
<1> QED  BY <1>4, <1>5 DEF Turns

LEMMA EachTurn ==
  ASSUME NEW n \in Nat, NEW X, NEW f, f[0] \in X, \A i \in 1 .. n : f[i - 1] \in X => f[i] \in X
  PROVE  \A i \in 0 .. n : f[i] \in X
<1> DEFINE N == {m \in Nat : m <= n => f[m] \in X}
<1>1. 0 \in N
  OBVIOUS
<1>2. ASSUME NEW m \in N PROVE m + 1 \in N
  <2>1. SUFFICES ASSUME m + 1 <= n PROVE f[m + 1] \in X
    OBVIOUS
  <2>2. m + 1 \in 1 .. n /\ (m + 1) - 1 = m /\ f[m] \in X
    BY <2>1
  <2> QED  BY <2>2
<1>3. Nat \subseteq N
  <2> HIDE DEF N
  <2>1. N \subseteq Nat
    BY DEF N
  <2> QED  BY <1>1, <1>2, <2>1, AllNumbers
<1> QED  BY <1>3

(* What is drawn of the lines is some of them. *)
LEMMA DrawnAreLines ==
  ASSUME NEW sensors, sensors \in Seq(ToSet(sensors)), NEW good
  PROVE  PlottedUpTo(sensors, good)[Len(sensors)] \in Seq(ToSet(sensors))
<1> DEFINE n == Len(sensors)
           X == Seq(ToSet(sensors))
           Turn(i, x) == IF sensors[i] \in good /\ Len(x) < MaxLines THEN << sensors[i] >> \o x ELSE x
           F == [z \in (1 .. n) \X X |-> Turn(z[1], z[2])]
           f == PlottedUpTo(sensors, good)
           Solves(g) == g = [i \in 0 .. n |-> IF i = 0 THEN << >> ELSE Turn(i, g[i - 1])]
<1>1. n \in Nat /\ << >> \in X
  OBVIOUS
<1>2. ASSUME NEW i \in 1 .. n, NEW x \in X PROVE Turn(i, x) \in X
  <2>1. sensors[i] \in ToSet(sensors)
    BY DEF ToSet
  <2>2. << sensors[i] >> \in X
    BY <2>1
  <2>3. << sensors[i] >> \o x \in X
    BY <2>2, ConcatProperties
  <2> QED  BY <2>3
<1> HIDE DEF n, X, Turn
<1>3. F \in [(1 .. n) \X X -> X]
  BY <1>2
<1> HIDE DEF F
<1>4. PICK g \in [0 .. n -> X] : Turns(g, n, << >>, F)
  BY <1>1, <1>3, Loop
<1>5. Solves(g)
  <2>1. ASSUME NEW i \in 0 .. n, i # 0 PROVE F[<< i, g[i - 1] >>] = Turn(i, g[i - 1])
    <3>1. i \in 1 .. n /\ i - 1 \in 0 .. n
      BY <1>1, <2>1
    <3>2. << i, g[i - 1] >> \in (1 .. n) \X X
      BY <1>4, <3>1
    <3> QED  BY <3>2 DEF F
  <2> QED  BY <1>4, <2>1 DEF Turns
<1>6. f = CHOOSE h : Solves(h)
  BY DEF PlottedUpTo, n, Turn
<1> HIDE DEF f
<1>7. Solves(f)
  <2> HIDE DEF Solves
  <2> QED  BY <1>5, <1>6
<1>8. f[0] \in X
  BY <1>1, <1>7
<1>9. ASSUME NEW i \in 1 .. n, f[i - 1] \in X PROVE f[i] \in X
  <2>1. f[i] = Turn(i, f[i - 1])
    BY <1>1, <1>7
  <2> QED  BY <1>2, <1>9, <2>1
<1>10. \A i \in 0 .. n : f[i] \in X
  BY <1>1, <1>8, <1>9, EachTurn
<1> QED  BY <1>1, <1>10 DEF f, n, X

(* Removing lines leaves a sequence of them, and the lines of a sensor and *)
(* its neighbours are sensors.                                             *)
AllSensors ==
  {o.sensor : o \in Obs} \cup Added \cup UNION {ToSet(LinesOf[n]) : n \in DOMAIN LinesOf}

LEMMA KeptAreLines ==
  ASSUME NEW Q, NEW sensors \in Seq(Q), NEW rows
  PROVE  KeptUpTo(sensors, rows)[Len(sensors)] \in Seq(Q)
<1> DEFINE n == Len(sensors)
           X == Seq(Q)
           Turn(i, x) == IF i \in rows THEN x ELSE Append(x, sensors[i])
           F == [z \in (1 .. n) \X X |-> Turn(z[1], z[2])]
           f == KeptUpTo(sensors, rows)
           Solves(g) == g = [i \in 0 .. n |-> IF i = 0 THEN << >> ELSE Turn(i, g[i - 1])]
<1>1. n \in Nat /\ << >> \in X
  OBVIOUS
<1>2. ASSUME NEW i \in 1 .. n, NEW x \in X PROVE Turn(i, x) \in X
  <2>1. sensors[i] \in Q
    OBVIOUS
  <2>2. Append(x, sensors[i]) \in X
    BY <2>1
  <2> QED  BY <2>2
<1> HIDE DEF n, X, Turn
<1>3. F \in [(1 .. n) \X X -> X]
  BY <1>2
<1> HIDE DEF F
<1>4. PICK g \in [0 .. n -> X] : Turns(g, n, << >>, F)
  BY <1>1, <1>3, Loop
<1>5. Solves(g)
  <2>1. ASSUME NEW i \in 0 .. n, i # 0 PROVE F[<< i, g[i - 1] >>] = Turn(i, g[i - 1])
    <3>1. i \in 1 .. n /\ i - 1 \in 0 .. n
      BY <1>1, <2>1
    <3>2. << i, g[i - 1] >> \in (1 .. n) \X X
      BY <1>4, <3>1
    <3> QED  BY <3>2 DEF F
  <2> QED  BY <1>4, <2>1 DEF Turns
<1>6. f = CHOOSE h : Solves(h)
  BY DEF KeptUpTo, n, Turn
<1> HIDE DEF f
<1>7. Solves(f)
  <2> HIDE DEF Solves
  <2> QED  BY <1>5, <1>6
<1>8. f[0] \in X
  BY <1>1, <1>7
<1>9. ASSUME NEW i \in 1 .. n, f[i - 1] \in X PROVE f[i] \in X
  <2>1. f[i] = Turn(i, f[i - 1])
    BY <1>1, <1>7
  <2> QED  BY <1>2, <1>9, <2>1
<1>10. \A i \in 0 .. n : f[i] \in X
  BY <1>1, <1>8, <1>9, EachTurn
<1> QED  BY <1>1, <1>10 DEF f, n, X

LEMMA LinesAreSensors ==
  ASSUME PlotConstants, NEW st \in Obs, NEW got
  PROVE  Lines(st.sensor, got) \in Seq(AllSensors)
<1> DEFINE s == st.sensor
           near == Neighbours[s.station]
           n == Len(near)
           X == Seq(AllSensors)
           Turn(i, x) == x \o (IF near[i] \in got THEN LinesOf[near[i]] ELSE << >>)
           F == [z \in (1 .. n) \X X |-> Turn(z[1], z[2])]
           f == LinesUpTo(s, got)
           Solves(g) == g = [i \in 0 .. n |-> IF i = 0 THEN << s >> ELSE Turn(i, g[i - 1])]
<1>1. near \in Seq(DOMAIN LinesOf) /\ n \in Nat
  BY DEF PlotConstants
<1>2. << s >> \in X
  BY DEF AllSensors
<1>3. ASSUME NEW i \in 1 .. n, NEW x \in X PROVE Turn(i, x) \in X
  <2>1. near[i] \in DOMAIN LinesOf
    BY <1>1
  <2>2. LinesOf[near[i]] \in Seq(ToSet(LinesOf[near[i]]))
    BY <2>1 DEF PlotConstants
  <2>3. ToSet(LinesOf[near[i]]) \subseteq AllSensors
    BY <2>1 DEF AllSensors
  <2>4. LinesOf[near[i]] \in X
    BY <2>2, <2>3
  <2>5. << >> \in X
    OBVIOUS
  <2> HIDE DEF X
  <2>6. (IF near[i] \in got THEN LinesOf[near[i]] ELSE << >>) \in X
    BY <2>4, <2>5
  <2> QED  BY <2>6, ConcatProperties DEF X
<1> HIDE DEF n, X, Turn, s
<1>4. F \in [(1 .. n) \X X -> X]
  BY <1>3
<1> HIDE DEF F
<1>5. PICK g \in [0 .. n -> X] : Turns(g, n, << s >>, F)
  BY <1>1, <1>2, <1>4, Loop
<1>6. Solves(g)
  <2>1. ASSUME NEW i \in 0 .. n, i # 0 PROVE F[<< i, g[i - 1] >>] = Turn(i, g[i - 1])
    <3>1. i \in 1 .. n /\ i - 1 \in 0 .. n
      BY <1>1, <2>1
    <3>2. << i, g[i - 1] >> \in (1 .. n) \X X
      BY <1>5, <3>1
    <3> QED  BY <3>2 DEF F
  <2> QED  BY <1>5, <2>1 DEF Turns
<1>7. f = CHOOSE h : Solves(h)
  BY DEF LinesUpTo, n, Turn
<1> HIDE DEF f
<1>8. Solves(f)
  <2> HIDE DEF Solves
  <2> QED  BY <1>6, <1>7
<1>9. f[0] \in X
  BY <1>1, <1>2, <1>8
<1>10. ASSUME NEW i \in 1 .. n, f[i - 1] \in X PROVE f[i] \in X
  <2>1. f[i] = Turn(i, f[i - 1])
    BY <1>1, <1>8
  <2> QED  BY <1>3, <1>10, <2>1
<1>11. \A i \in 0 .. n : f[i] \in X
  BY <1>1, <1>9, <1>10, EachTurn
<1> QED  BY <1>1, <1>11 DEF f, n, X, s, Lines

-----------------------------------------------------------------------------
(* The editors.  A span that keeps the gap is shown as it is, and editing  *)
(* one end moves the other as far as the gap wants it.                     *)
Span == Int \X Int

LEMMA ShownInEditors ==
  ASSUME PlotConstants, NEW e \in Span, NEW span \in Span, S!GapKept(span, Gaps)
  PROVE  S!SetBoth(e, span, Gaps, EditRange) = span
BY DEF PlotConstants, Span, S!GapKept, S!SetBoth, S!SetT0, S!SetT1, S!Followed0, S!Followed1

LEMMA Edited ==
  ASSUME PlotConstants, NEW e \in Span, S!GapKept(e, Gaps), NEW t \in EditTimes
  PROVE  /\ S!SetT0(e, t, Gaps, EditRange) \in Span
         /\ S!GapKept(S!SetT0(e, t, Gaps, EditRange), Gaps)
         /\ S!SetT1(e, t, Gaps, EditRange) \in Span
         /\ S!GapKept(S!SetT1(e, t, Gaps, EditRange), Gaps)
<1>1. /\ t \in Int /\ Gaps[1] \in Nat /\ Gaps[2] \in Nat
      /\ EditRange[1] \in Int /\ EditRange[2] \in Int
      /\ EditRange[1] <= t - Gaps[1] /\ t + Gaps[1] <= EditRange[2]
      /\ EditRange[1] <= t - Gaps[2] /\ t + Gaps[2] <= EditRange[2]
  BY DEF PlotConstants
<1>7. Gaps[2] > 0 => Gaps[1] <= Gaps[2]
  BY DEF PlotConstants
<1>2. e[1] \in Int /\ e[2] \in Int
  BY DEF Span
<1>3. S!SetT0(e, t, Gaps, EditRange) \in Span
  BY <1>1, <1>2 DEF S!SetT0, S!Followed0, Span
<1>4. S!SetT1(e, t, Gaps, EditRange) \in Span
  BY <1>1, <1>2 DEF S!SetT1, S!Followed1, Span
<1> DEFINE g1 == Gaps[1]
           g2 == Gaps[2]
           e1 == e[1]
           e2 == e[2]
           r1 == EditRange[1]
           r2 == EditRange[2]
<1>8. (g1 > 0 => e2 - e1 >= g1) /\ (g2 > 0 => e2 - e1 <= g2)
  BY DEF S!GapKept
<1>5. S!GapKept(S!SetT0(e, t, Gaps, EditRange), Gaps)
  <2>1. CASE t = e1
    BY <2>1, <1>8 DEF S!SetT0, S!GapKept
  <2>2. CASE t # e1
    <3> DEFINE m == IF g1 > 0 /\ t + g1 > e2 /\ t + g1 <= r2 THEN t + g1 ELSE e2
               x == IF g2 > 0 /\ t + g2 < m /\ t + g2 >= r1 THEN t + g2 ELSE m
    <3>1. S!SetT0(e, t, Gaps, EditRange) = << t, x >>
      BY <2>2 DEF S!SetT0, S!Followed0
    <3> HIDE DEF g1, g2, e1, e2, r1, r2
    <3>2. (g1 > 0 => x - t >= g1) /\ (g2 > 0 => x - t <= g2)
      BY <1>1, <1>2, <1>7 DEF g1, g2, e1, e2, r1, r2
    <3> HIDE DEF x
    <3> QED  BY <3>1, <3>2 DEF S!GapKept, g1, g2
  <2> QED  BY <2>1, <2>2
<1>6. S!GapKept(S!SetT1(e, t, Gaps, EditRange), Gaps)
  <2>1. CASE t = e2
    BY <2>1, <1>8 DEF S!SetT1, S!GapKept
  <2>2. CASE t # e2
    <3> DEFINE m == IF g1 > 0 /\ t - g1 < e1 /\ t - g1 >= r1 THEN t - g1 ELSE e1
               x == IF g2 > 0 /\ t - g2 > m /\ t - g2 <= r2 THEN t - g2 ELSE m
    <3>1. S!SetT1(e, t, Gaps, EditRange) = << x, t >>
      BY <2>2 DEF S!SetT1, S!Followed1
    <3>2. (g1 > 0 => t - x >= g1) /\ (g2 > 0 => t - x <= g2)
      BY <1>1, <1>2, <1>7
    <3> HIDE DEF x
    <3> QED  BY <3>1, <3>2 DEF S!GapKept
  <2> QED  BY <2>1, <2>2
<1> QED  BY <1>3, <1>4, <1>5, <1>6

-----------------------------------------------------------------------------
(* The inductive invariant.  Before the first navigation that reaches the  *)
(* plot it is fresh, and what it shows is not claimed; after that it is    *)
(* kept: the editors, the buffer and what has been drawn agree, seen or    *)
(* not.  Only the current time may be another one, and only while the view *)
(* is hidden and its helper has noted that.                                *)
Plots ==
  [store : Obs \cup {NoObs}, limits : Span, original : Span, editors : Span,
   sensors : Seq(AllSensors), originalSensors : Seq(AllSensors),
   reset : BOOLEAN, busy : BOOLEAN,
   buffer : {<< >>} \cup (Seq(AllSensors) \X Span),
   drawn : {<< >>} \cup (Seq(AllSensors) \X Span \X Int)]

Fresh(p, req) == req = << >> /\ p.store = NoObs /\ p.sensors = << >> /\ p.buffer = << >>
Kept(p, req, ed) ==
  /\ p.editors = p.limits
  /\ S!GapKept(p.limits, Gaps) /\ S!GapKept(p.original, Gaps)
  /\ req = << >> => p.buffer = << p.sensors, p.limits >>
  /\ ~ed => p.limits = p.original
  /\ req = << >> /\ p.drawn # << >> =>
       ~p.busy /\ ToSet(p.drawn[1]) \subseteq ToSet(p.sensors) /\ p.drawn[2] = p.limits
AtTime(p, req, ed, st) ==
  /\ ~ed => S!Contains(p.limits, st.time)
  /\ req = << >> /\ p.drawn # << >> => p.drawn[3] = st.time

Types ==
  /\ visible \in BOOLEAN /\ edited \in BOOLEAN
  /\ nav \in [last : Obs \cup {NoObs}, blocks : {IF visible THEN 0 ELSE 1}, changed : BOOLEAN]
  /\ plot \in Plots
  /\ nav.changed => nav.last # NoObs
Behind == ~visible /\ nav.changed
Shown ==
  /\ Kept(plot, request, edited) \/ Fresh(plot, request)
  /\ ~Fresh(plot, request) => nav.last # NoObs
  /\ nav.last # NoObs /\ ~Behind =>
       Kept(plot, request, edited) /\ AtTime(plot, request, edited, nav.last)

IInv == Types /\ Shown

-----------------------------------------------------------------------------
(* The steps of the view: what each makes of a plot. *)
Ready(p, ed) ==
  /\ p \in Plots /\ p.editors = p.limits
  /\ S!GapKept(p.limits, Gaps) /\ S!GapKept(p.original, Gaps)
  /\ ~ed => p.limits = p.original

LEMMA EditorsUpdated ==
  ASSUME PlotConstants, NEW p \in Plots, S!GapKept(p.limits, Gaps), S!GapKept(p.original, Gaps),
         NEW ed \in BOOLEAN, ~ed => p.limits = p.original
  PROVE  /\ Ready(UpdateEditors(p), ed)
         /\ UpdateEditors(p) = [p EXCEPT !.editors = p.limits]
<1>1. p.editors \in Span /\ p.limits \in Span
  BY DEF Plots
<1>2. S!SetBoth(p.editors, p.limits, Gaps, EditRange) = p.limits
  BY <1>1, ShownInEditors
<1>3. UpdateEditors(p) = [p EXCEPT !.editors = p.limits]
  <2>1. UpdateEditors(p) = [p EXCEPT !.editors = S!SetBoth(p.editors, p.limits, Gaps, EditRange)]
    BY DEF UpdateEditors
  <2> QED  BY <1>2, <2>1
<1> DEFINE q == [p EXCEPT !.editors = p.limits]
<1>4. q \in Plots /\ q.editors = q.limits /\ q.limits = p.limits /\ q.original = p.original
  BY <1>1 DEF Plots
<1> QED  BY <1>3, <1>4 DEF Ready

LEMMA TimeUpdated ==
  ASSUME NEW ed \in BOOLEAN, NEW p, Ready(p, ed), NEW req
  PROVE  /\ UpdateTime(p) \in Plots /\ Kept(UpdateTime(p), req, ed)
         /\ UpdateTime(p).limits = p.limits /\ UpdateTime(p).drawn = << >>
<1> DEFINE q == UpdateTime(p)
<1>1. p \in Plots /\ p.sensors \in Seq(AllSensors) /\ p.limits \in Span
  BY DEF Ready, Plots
<1>2. q = [p EXCEPT !.buffer = << p.sensors, p.limits >>, !.busy = TRUE, !.drawn = << >>]
  BY DEF UpdateTime
<1> HIDE DEF q
<1>3. << p.sensors, p.limits >> \in {<< >>} \cup (Seq(AllSensors) \X Span)
  BY <1>1
<1>4. << >> \in {<< >>} \cup (Seq(AllSensors) \X Span \X Int)
  OBVIOUS
<1>5. /\ q \in Plots /\ q.buffer = << p.sensors, p.limits >> /\ q.drawn = << >>
      /\ q.limits = p.limits /\ q.sensors = p.sensors /\ q.original = p.original
      /\ q.editors = p.editors
  <2> DEFINE b == << p.sensors, p.limits >>
             d == << >>
             B == {<< >>} \cup (Seq(AllSensors) \X Span)
             D == {<< >>} \cup (Seq(AllSensors) \X Span \X Int)
  <2>1. b \in B /\ d \in D /\ q = [p EXCEPT !.buffer = b, !.busy = TRUE, !.drawn = d]
    BY <1>2, <1>3, <1>4
  <2> HIDE DEF b, d
  <2>2. /\ q \in Plots /\ q.buffer = b /\ q.drawn = d
        /\ q.limits = p.limits /\ q.sensors = p.sensors /\ q.original = p.original
        /\ q.editors = p.editors
    BY <1>1, <2>1 DEF Plots
  <2> QED  BY <2>2 DEF b, d
<1>6. Kept(q, req, ed)
  BY <1>5 DEF Kept, Ready
<1> QED  BY <1>5, <1>6 DEF q

LEMMA NeighborsCome ==
  ASSUME PlotConstants, NEW p \in Plots, S!GapKept(p.original, Gaps), NEW st \in Obs, NEW got,
         NEW ed \in BOOLEAN, NEW req
  PROVE  /\ HaveNeighbors(p, st, got) \in Plots /\ Kept(HaveNeighbors(p, st, got), req, ed)
         /\ HaveNeighbors(p, st, got).limits = p.original
         /\ HaveNeighbors(p, st, got).drawn = << >>
<1> DEFINE lines == Lines(st.sensor, got)
           q == [p EXCEPT !.sensors = lines, !.originalSensors = lines,
                          !.limits = p.original, !.reset = FALSE]
<1>1. lines \in Seq(AllSensors)
  BY LinesAreSensors
<1>2. HaveNeighbors(p, st, got) = UpdateTime(UpdateEditors(q))
  BY DEF HaveNeighbors
<1> HIDE DEF lines
<1>3. q \in Plots /\ q.limits = p.original /\ q.original = p.original
  BY <1>1 DEF Plots
<1> HIDE DEF q
<1>4. Ready(UpdateEditors(q), ed) /\ UpdateEditors(q) = [q EXCEPT !.editors = q.limits]
  BY <1>3, EditorsUpdated
<1>5. UpdateEditors(q).limits = q.limits
  BY <1>3, <1>4 DEF Plots
<1> QED  BY <1>2, <1>3, <1>4, <1>5, TimeUpdated

(* The span of a navigation. *)
LEMMA SpanOf ==
  ASSUME PlotConstants, NEW st \in Obs
  PROVE  /\ << st.time - Hours, st.time + Hours >> \in Span
         /\ S!GapKept(<< st.time - Hours, st.time + Hours >>, Gaps)
         /\ S!Contains(<< st.time - Hours, st.time + Hours >>, st.time)
<1>1. st.time \in Int /\ Hours \in Nat /\ Gaps[1] \in Nat /\ Gaps[2] \in Nat
  BY DEF PlotConstants
<1>2. Gaps[1] <= 2 * Hours /\ (Gaps[2] > 0 => 2 * Hours <= Gaps[2])
  BY DEF PlotConstants
<1> QED  BY <1>1, <1>2 DEF Span, S!GapKept, S!Contains

(* TimeSeriesView::doNavigateTo: the plot is kept and at the time of what  *)
(* was navigated to, or the lines are awaited.                             *)
LEMMA NavigateDone ==
  ASSUME PlotConstants, Types, Kept(plot, request, edited) \/ Fresh(plot, request),
         NEW st \in Obs, DoNavigateTo(st)
  PROVE  /\ plot' \in Plots /\ edited' \in BOOLEAN
         /\ Kept(plot', request', edited') /\ AtTime(plot', request', edited', st)
<1> DEFINE sensor == plot.store = NoObs \/ plot.store.sensor # st.sensor
           time   == sensor \/ ~S!Contains(plot.limits, st.time)
           span   == << st.time - Hours, st.time + Hours >>
           p      == [plot EXCEPT !.limits = span, !.original = span]
           moved  == IF time THEN UpdateEditors(p) ELSE plot
           ed     == edited /\ ~time
<1>1. plot \in Plots /\ edited \in BOOLEAN
  BY DEF Types
<1>2. sensor \in BOOLEAN /\ time \in BOOLEAN /\ ed \in BOOLEAN
  BY <1>1
<1>3. edited' = ed
  BY Zenon DEF DoNavigateTo
<1>4. span \in Span /\ S!GapKept(span, Gaps) /\ S!Contains(span, st.time)
  BY SpanOf
<1>5. CASE sensor /\ StationIds(st.sensor) \subseteq known
  <2>1. plot' = HaveNeighbors(moved, st, known) /\ request' = << >>
    BY <1>5, Zenon DEF DoNavigateTo
  <2>2. time /\ ~ed /\ moved = UpdateEditors(p)
    BY <1>5
  <2> HIDE DEF sensor, time, ed, moved, span
  <2>3. p \in Plots /\ p.limits = span /\ p.original = span
    BY <1>1, <1>4 DEF Plots
  <2> HIDE DEF p
  <2>4. Ready(moved, ed) /\ moved = [p EXCEPT !.editors = p.limits]
    BY <1>2, <1>4, <2>2, <2>3, EditorsUpdated
  <2>5. moved \in Plots /\ moved.original = span
    BY <2>3, <2>4 DEF Plots
  <2>6. /\ plot' \in Plots /\ Kept(plot', request', ed)
        /\ plot'.limits = span /\ plot'.drawn = << >>
    BY <1>2, <1>4, <2>1, <2>5, NeighborsCome
  <2> QED  BY <1>2, <1>3, <1>4, <2>6 DEF AtTime
<1>6. CASE sensor /\ ~(StationIds(st.sensor) \subseteq known)
  <2>1. plot' = moved /\ request' = << StationIds(st.sensor) >>
    BY <1>6, Zenon DEF DoNavigateTo
  <2>2. time /\ ~ed /\ moved = UpdateEditors(p)
    BY <1>6
  <2> HIDE DEF sensor, time, ed, moved, span
  <2>3. p \in Plots /\ p.limits = span /\ p.original = span
    BY <1>1, <1>4 DEF Plots
  <2> HIDE DEF p
  <2>4. Ready(moved, ed) /\ moved = [p EXCEPT !.editors = p.limits]
    BY <1>2, <1>4, <2>2, <2>3, EditorsUpdated
  <2>5. moved \in Plots /\ moved.limits = span
    BY <2>3, <2>4 DEF Plots
  <2>6. request' # << >>
    BY <2>1
  <2> QED  BY <1>2, <1>3, <1>4, <2>1, <2>4, <2>5, <2>6 DEF AtTime, Kept, Ready
<1>7. CASE ~sensor /\ time
  <2>1. plot' = UpdateTime(moved)
    BY <1>7, Zenon DEF DoNavigateTo
  <2>2. ~ed /\ moved = UpdateEditors(p)
    BY <1>7
  <2> HIDE DEF sensor, time, ed, moved, span
  <2>3. p \in Plots /\ p.limits = span /\ p.original = span
    BY <1>1, <1>4 DEF Plots
  <2> HIDE DEF p
  <2>4. Ready(moved, ed) /\ moved = [p EXCEPT !.editors = p.limits]
    BY <1>2, <1>4, <2>2, <2>3, EditorsUpdated
  <2>5. moved.limits = span
    BY <2>3, <2>4 DEF Plots
  <2>6. /\ plot' \in Plots /\ Kept(plot', request', ed)
        /\ plot'.limits = span /\ plot'.drawn = << >>
    BY <1>2, <2>1, <2>4, <2>5, TimeUpdated
  <2> QED  BY <1>2, <1>3, <1>4, <2>6 DEF AtTime
<1>8. CASE ~sensor /\ ~time
  <2>1. /\ plot' = [plot EXCEPT !.drawn = IF @ = << >> THEN @ ELSE << @[1], @[2], st.time >>]
        /\ request' = request
    BY <1>8, Zenon DEF DoNavigateTo
  <2>2. S!Contains(plot.limits, st.time) /\ plot.store # NoObs /\ ed = edited
    BY <1>1, <1>8
  <2>3. Kept(plot, request, edited)
    BY <2>2 DEF Fresh
  <2> HIDE DEF sensor, time, ed, moved, span, p
  <2> DEFINE d == IF plot.drawn = << >> THEN << >> ELSE << plot.drawn[1], plot.drawn[2], st.time >>
  <2>4. plot' = [plot EXCEPT !.drawn = d]
    BY <2>1
  <2>5. st.time \in Int /\ plot.drawn \in {<< >>} \cup (Seq(AllSensors) \X Span \X Int)
    BY <1>1 DEF PlotConstants, Plots
  <2>6. d \in {<< >>} \cup (Seq(AllSensors) \X Span \X Int)
    BY <2>5
  <2>7. d # << >> => plot.drawn # << >> /\ d[1] = plot.drawn[1] /\ d[2] = plot.drawn[2]
                     /\ d[3] = st.time
    BY <2>5
  <2> HIDE DEF d
  <2>8. /\ plot' \in Plots /\ plot'.drawn = d /\ plot'.limits = plot.limits
        /\ plot'.original = plot.original /\ plot'.editors = plot.editors
        /\ plot'.sensors = plot.sensors /\ plot'.buffer = plot.buffer /\ plot'.busy = plot.busy
    BY <1>1, <2>4, <2>6 DEF Plots
  <2>9. Kept(plot', request', edited')
    BY <1>3, <2>1, <2>2, <2>3, <2>7, <2>8 DEF Kept
  <2>10. AtTime(plot', request', edited', st)
    BY <2>2, <2>7, <2>8 DEF AtTime
  <2> QED  BY <1>2, <1>3, <2>8, <2>9, <2>10
<1> QED  BY <1>2, <1>5, <1>6, <1>7, <1>8

-----------------------------------------------------------------------------
(* Each action keeps the invariant. *)
LEMMA InvInit == ASSUME PlotConstants, Init PROVE IInv
<1>1. << 0, Gaps[1] >> \in Span /\ << 0, 0 >> \in Span
  BY DEF PlotConstants, Span
<1>2. plot \in Plots
  BY <1>1 DEF Init, Plots
<1>3. Types
  BY <1>2 DEF Init, Types, NavigateHelper
<1>4. Fresh(plot, request) /\ nav.last = NoObs
  BY DEF Init, Fresh, NavigateHelper
<1> QED  BY <1>3, <1>4 DEF IInv, Shown

(* Reached by a navigation, the plot is where its helper is. *)
LEMMA ReachedIsShown ==
  ASSUME PlotConstants, IInv, NEW st \in Obs, DoNavigateTo(st),
         visible' \in BOOLEAN, nav'.last = st,
         nav' \in [last : Obs \cup {NoObs}, blocks : {IF visible' THEN 0 ELSE 1}, changed : BOOLEAN]
  PROVE  IInv'
<1>1. /\ plot' \in Plots /\ edited' \in BOOLEAN
      /\ Kept(plot', request', edited') /\ AtTime(plot', request', edited', st)
  BY NavigateDone DEF IInv, Shown
<1>2. st # NoObs
  BY DEF PlotConstants
<1>3. Types'
  BY <1>1, <1>2 DEF Types
<1>4. Shown'
  BY <1>1, <1>2, Zenon DEF Shown
<1> QED  BY <1>3, <1>4 DEF IInv

LEMMA InvNavigateTo ==
  ASSUME PlotConstants, IInv, NEW st \in Obs, NavigateTo(st) PROVE IInv'
<1> DEFINE Place == Obs \cup {NoObs}
           n == Nested(nav, FALSE)
<1>1. nav \in [last : Place, blocks : {IF visible THEN 0 ELSE 1}, changed : BOOLEAN]
      /\ visible \in BOOLEAN
  BY DEF IInv, Types
<1>2. n = [nav EXCEPT !.blocks = nav.blocks + 1]
  BY DEF Nested, Block
<1>3. /\ n.last = nav.last /\ n.changed = nav.changed
      /\ n.blocks = IF visible THEN 1 ELSE 2
      /\ n \in [last : Place, blocks : {1, 2}, changed : BOOLEAN]
  <2> HIDE DEF n
  <2>1. nav.blocks = IF visible THEN 0 ELSE 1
    BY <1>1
  <2>2. nav \in [last : Place, blocks : {0, 1}, changed : BOOLEAN]
    BY <1>1
  <2> QED  BY <1>1, <1>2, <2>1, <2>2
<1>4. Blocked(n) <=> ~visible
  <2> HIDE DEF n
  <2> QED  BY <1>1, <1>3 DEF Blocked
<1>5. Navigates(nav, st, FALSE) <=> visible /\ (nav.changed \/ st # nav.last)
  BY <1>3, <1>4 DEF Navigates, Goes, Changed
<1> DEFINE c == ~visible /\ (nav.changed \/ st # nav.last)
<1>6. nav' = [n EXCEPT !.last = st, !.changed = c, !.blocks = nav.blocks]
  <2>1. nav' = [Go(n, st) EXCEPT !.blocks = nav.blocks]
    BY DEF NavigateTo, Navigated
  <2>2. Go(n, st) = [n EXCEPT !.last = st, !.changed = Blocked(n) /\ Changed(n, st)]
    BY DEF Go
  <2>3. (Blocked(n) /\ Changed(n, st)) = c
    BY <1>3, <1>4 DEF Changed, Blocked
  <2> HIDE DEF n, c
  <2>4. Go(n, st) = [n EXCEPT !.last = st, !.changed = c]
    BY <2>2, <2>3
  <2> QED  BY <1>3, <2>1, <2>4
<1>7. c \in BOOLEAN
  BY <1>1
<1>8. visible' = visible
  BY DEF NavigateTo
<1> HIDE DEF n
<1>9. /\ nav' \in [last : Place, blocks : {IF visible' THEN 0 ELSE 1}, changed : BOOLEAN]
      /\ nav'.last = st /\ nav'.changed = c
  <2> HIDE DEF c
  <2> QED  BY <1>1, <1>3, <1>6, <1>7, <1>8
<1>10. CASE Navigates(nav, st, FALSE)
  <2>1. DoNavigateTo(st)
    BY <1>10, Zenon DEF NavigateTo
  <2> QED  BY <1>1, <1>8, <1>9, <2>1, ReachedIsShown
<1>11. CASE ~Navigates(nav, st, FALSE)
  <2>1. plot' = plot /\ request' = request /\ edited' = edited
    BY <1>11, Zenon DEF NavigateTo
  <2>2. st # NoObs
    BY DEF PlotConstants
  <2>3. Types'
    BY <1>1, <1>8, <1>9, <2>1, <2>2 DEF IInv, Types
  <2>4. ~Behind' => ~Behind /\ nav.last = st
    BY <1>5, <1>8, <1>9, <1>11 DEF Behind
  <2>5. Shown'
    BY <1>9, <2>1, <2>2, <2>4 DEF IInv, Shown
  <2> QED  BY <2>3, <2>5 DEF IInv
<1> QED  BY <1>10, <1>11

LEMMA InvVisibility == ASSUME PlotConstants, IInv, Visibility PROVE IInv'
<1>1. /\ nav \in [last : Obs \cup {NoObs}, blocks : {IF visible THEN 0 ELSE 1}, changed : BOOLEAN]
      /\ visible \in BOOLEAN /\ visible' = ~visible /\ (nav.changed => nav.last # NoObs)
  BY DEF IInv, Types, Visibility
<1>2. CASE visible
  <2>1. nav' = Hide(nav) /\ plot' = plot /\ request' = request /\ edited' = edited
    BY <1>2, Zenon DEF Visibility
  <2>2. nav' = [nav EXCEPT !.blocks = nav.blocks + 1]
    BY <2>1 DEF Hide, Block
  <2>3. /\ nav' \in [last : Obs \cup {NoObs}, blocks : {1}, changed : BOOLEAN]
        /\ nav'.last = nav.last /\ nav'.changed = nav.changed
    BY <1>1, <1>2, <2>2
  <2>4. Types'
    BY <1>1, <1>2, <2>1, <2>3 DEF IInv, Types
  <2>5. Shown'
    BY <1>1, <1>2, <2>1, <2>3 DEF IInv, Shown, Behind
  <2> QED  BY <2>4, <2>5 DEF IInv
<1>3. CASE ~visible
  <2>1. nav' = Show(nav)
    BY <1>3, Zenon DEF Visibility
  <2>2. nav' = [nav EXCEPT !.blocks = 0] /\ Unblock(nav) = nav'
    BY <1>1, <1>3, <2>1 DEF Show, Unblock
  <2>3. /\ nav' \in [last : Obs \cup {NoObs}, blocks : {0}, changed : BOOLEAN]
        /\ nav'.last = nav.last /\ nav'.changed = nav.changed
    BY <1>1, <1>3, <2>2
  <2>4. ShowNavigates(nav) <=> nav.changed
    BY <2>2, <2>3 DEF ShowNavigates, Blocked
  <2>5. CASE nav.changed
    <3>1. DoNavigateTo(nav.last) /\ nav.last \in Obs
      BY <1>1, <1>3, <2>4, <2>5, Zenon DEF Visibility
    <3> QED  BY <1>1, <1>3, <2>3, <3>1, ReachedIsShown
  <2>6. CASE ~nav.changed
    <3>1. plot' = plot /\ request' = request /\ edited' = edited
      BY <1>3, <2>4, <2>6, Zenon DEF Visibility
    <3>2. Types'
      BY <1>1, <1>3, <2>3, <3>1 DEF IInv, Types
    <3>3. Shown'
      BY <1>1, <1>3, <2>3, <2>6, <3>1 DEF IInv, Shown, Behind
    <3> QED  BY <3>2, <3>3 DEF IInv
  <2> QED  BY <2>5, <2>6
<1> QED  BY <1>1, <1>2, <1>3

LEMMA InvObsPgmsComplete ==
  ASSUME PlotConstants, IInv, NEW failed \in BOOLEAN, ObsPgmsComplete(failed) PROVE IInv'
<1>1. /\ plot' = HaveNeighbors(plot, nav.last, known') /\ request' = << >> /\ request # << >>
      /\ nav' = nav /\ visible' = visible /\ edited' = edited
  BY DEF ObsPgmsComplete
<1>2. plot \in Plots /\ edited \in BOOLEAN
  BY DEF IInv, Types
<1>3. Kept(plot, request, edited) /\ nav.last # NoObs
  BY <1>1 DEF IInv, Shown, Fresh
<1>4. nav.last \in Obs /\ S!GapKept(plot.original, Gaps)
  BY <1>3 DEF IInv, Types, Kept
<1>5. /\ plot' \in Plots /\ Kept(plot', request', edited)
      /\ plot'.limits = plot.original /\ plot'.drawn = << >>
  BY <1>1, <1>2, <1>4, NeighborsCome
<1>6. Types'
  BY <1>1, <1>5 DEF IInv, Types
<1>7. ~Behind => AtTime(plot', request', edited, nav.last)
  <2>1. ASSUME ~Behind, ~edited PROVE S!Contains(plot'.limits, nav.last.time)
    BY <1>3, <1>5, <2>1 DEF IInv, Shown, AtTime, Kept
  <2> QED  BY <1>5, <2>1 DEF AtTime
<1>8. Shown'
  BY <1>1, <1>3, <1>5, <1>7 DEF Shown, Behind
<1> QED  BY <1>6, <1>8 DEF IInv

(* What the user does to a plot that is seen: the view stores its changes  *)
(* and asks for the data of what it has then.                              *)
LEMMA ChangedIsShown ==
  ASSUME PlotConstants, IInv, NEW p, NEW ed \in BOOLEAN, Ready(p, ed),
         ~ed => ~edited /\ p.limits = plot.limits,
         visible, nav.last # NoObs, plot' = UpdateTime(p), edited' = ed,
         UNCHANGED << nav, visible, request >>
  PROVE  IInv'
<1>1. /\ plot' \in Plots /\ Kept(plot', request', ed)
      /\ plot'.limits = p.limits /\ plot'.drawn = << >>
  BY TimeUpdated
<1>2. AtTime(plot, request, edited, nav.last)
  BY DEF IInv, Shown, Behind
<1>3. AtTime(plot', request', ed, nav.last)
  BY <1>1, <1>2 DEF AtTime
<1>4. Types'
  BY <1>1 DEF IInv, Types
<1>5. Shown'
  BY <1>1, <1>3 DEF Shown
<1> QED  BY <1>4, <1>5 DEF IInv

LEMMA ChangesStored ==
  ASSUME IInv, nav.last # NoObs, NEW p \in Plots
  PROVE  /\ StoreChanges(p) \in Plots /\ StoreChanges(p) = [p EXCEPT !.store = nav.last]
         /\ StoreChanges(p).limits = p.limits /\ StoreChanges(p).original = p.original
         /\ StoreChanges(p).editors = p.editors
<1>1. nav.last \in Obs
  BY DEF IInv, Types
<1> QED  BY <1>1 DEF StoreChanges, Plots

LEMMA SeenIsKept ==
  ASSUME IInv, visible, nav.last # NoObs
  PROVE  Kept(plot, request, edited) /\ plot \in Plots /\ edited \in BOOLEAN
BY DEF IInv, Types, Shown, Behind

LEMMA InvSetTimeSpan ==
  ASSUME PlotConstants, IInv, NEW e \in Span, S!GapKept(e, Gaps), SetTimeSpan(e) PROVE IInv'
<1> DEFINE p == [plot EXCEPT !.editors = e, !.limits = e]
<1>1. /\ visible /\ nav.last # NoObs /\ edited' = TRUE
      /\ plot' = UpdateTime(StoreChanges(p)) /\ UNCHANGED << nav, visible, request >>
  BY DEF SetTimeSpan
<1>2. plot \in Plots /\ S!GapKept(plot.original, Gaps)
  BY <1>1, SeenIsKept DEF Kept
<1>3. p \in Plots /\ p.editors = e /\ p.limits = e /\ p.original = plot.original
  BY <1>2 DEF Plots
<1> HIDE DEF p
<1>4. Ready(StoreChanges(p), TRUE)
  BY <1>1, <1>2, <1>3, ChangesStored DEF Ready
<1> QED  BY <1>1, <1>4, ChangedIsShown

LEMMA InvChangeLines ==
  ASSUME PlotConstants, IInv, NEW lines \in Seq(AllSensors), ChangeLines(lines) PROVE IInv'
<1> DEFINE p == [plot EXCEPT !.sensors = lines, !.reset = TRUE]
<1>1. /\ visible /\ nav.last # NoObs /\ edited' = edited
      /\ plot' = UpdateTime(StoreChanges(p)) /\ UNCHANGED << nav, visible, request >>
  BY DEF ChangeLines
<1>2. plot \in Plots /\ edited \in BOOLEAN /\ Kept(plot, request, edited)
  BY <1>1, SeenIsKept
<1>3. /\ p \in Plots /\ p.editors = plot.editors /\ p.limits = plot.limits
      /\ p.original = plot.original
  BY <1>2 DEF Plots
<1> HIDE DEF p
<1>4. StoreChanges(p).limits = plot.limits
  BY <1>1, <1>3, ChangesStored
<1>5. Ready(StoreChanges(p), edited)
  BY <1>1, <1>2, <1>3, ChangesStored DEF Ready, Kept
<1> QED  BY <1>1, <1>2, <1>4, <1>5, ChangedIsShown

LEMMA InvResetLines == ASSUME PlotConstants, IInv, ResetLines PROVE IInv'
<1> DEFINE p == [plot EXCEPT !.limits = plot.original, !.sensors = plot.originalSensors,
                             !.reset = FALSE]
<1>1. /\ visible /\ nav.last # NoObs /\ edited' = TRUE
      /\ plot' = UpdateTime(UpdateEditors(StoreChanges(p)))
      /\ UNCHANGED << nav, visible, request >>
  BY DEF ResetLines
<1>2. plot \in Plots /\ S!GapKept(plot.original, Gaps)
  BY <1>1, SeenIsKept DEF Kept
<1>3. p \in Plots /\ p.limits = plot.original /\ p.original = plot.original
  BY <1>2 DEF Plots
<1> HIDE DEF p
<1> DEFINE s == StoreChanges(p)
<1>4. s \in Plots /\ s.limits = plot.original /\ s.original = plot.original
  BY <1>1, <1>3, ChangesStored
<1> HIDE DEF s
<1>5. Ready(UpdateEditors(s), TRUE)
  BY <1>2, <1>4, EditorsUpdated
<1> QED  BY <1>1, <1>5, ChangedIsShown DEF s

LEMMA InvUpdatePlot ==
  ASSUME PlotConstants, IInv, NEW good, UpdatePlot(good) PROVE IInv'
<1> DEFINE lines == Plotted(plot, good)
           d == IF lines = << >> THEN << >> ELSE << lines, plot.buffer[2], nav.last.time >>
<1>1. /\ plot' = [plot EXCEPT !.busy = FALSE, !.drawn = d] /\ plot.buffer # << >>
      /\ nav' = nav /\ visible' = visible /\ request' = request /\ edited' = edited
  BY DEF UpdatePlot, Draw
<1>2. /\ plot \in Plots /\ plot.sensors \in Seq(AllSensors)
      /\ plot.buffer \in Seq(AllSensors) \X Span
  BY <1>1 DEF IInv, Types, Plots
<1>3. Kept(plot, request, edited) /\ nav.last \in Obs
  BY <1>1 DEF IInv, Types, Shown, Fresh
<1>4. /\ lines \in Seq(AllSensors) /\ ToSet(lines) \subseteq ToSet(plot.sensors)
  <2> DEFINE s == plot.sensors
  <2>1. s \in Seq(ToSet(s)) /\ ToSet(s) \subseteq AllSensors
    BY <1>2 DEF ToSet
  <2>2. lines \in Seq(ToSet(s))
    <3> HIDE DEF s
    <3>1. PlottedUpTo(s, good)[Len(s)] \in Seq(ToSet(s))
      BY <2>1, DrawnAreLines
    <3> QED  BY <3>1 DEF Plotted, s
  <2> HIDE DEF lines, s
  <2>3. ToSet(lines) \subseteq ToSet(s)
    BY <2>2 DEF ToSet
  <2> QED  BY <2>1, <2>2, <2>3 DEF s
<1>5. nav.last.time \in Int
  BY <1>3 DEF PlotConstants
<1> HIDE DEF lines
<1>6. /\ d \in {<< >>} \cup (Seq(AllSensors) \X Span \X Int)
      /\ d # << >> => d[1] = lines /\ d[2] = plot.buffer[2] /\ d[3] = nav.last.time
  BY <1>2, <1>4, <1>5
<1> HIDE DEF d
<1>7. /\ plot' \in Plots /\ plot'.drawn = d /\ plot'.busy = FALSE
      /\ plot'.limits = plot.limits /\ plot'.original = plot.original
      /\ plot'.editors = plot.editors /\ plot'.sensors = plot.sensors
      /\ plot'.buffer = plot.buffer /\ plot'.store = plot.store
  BY <1>1, <1>2, <1>6 DEF Plots
<1>8. Types'
  BY <1>1, <1>7 DEF IInv, Types
<1>9. Kept(plot', request', edited')
  <2>1. request = << >> => plot.buffer[2] = plot.limits
    BY <1>3 DEF Kept
  <2> QED  BY <1>1, <1>3, <1>4, <1>6, <1>7, <2>1 DEF Kept
<1>10. ~Behind => AtTime(plot', request', edited', nav.last)
  <2>1. ASSUME ~Behind, ~edited PROVE S!Contains(plot'.limits, nav.last.time)
    <3>1. nav.last # NoObs
      BY <1>3 DEF PlotConstants
    <3> QED  BY <1>7, <2>1, <3>1 DEF IInv, Shown, AtTime
  <2> QED  BY <1>1, <1>6, <1>7, <2>1 DEF AtTime
<1>11. nav.last # NoObs
  BY <1>3 DEF PlotConstants
<1>12. Shown'
  BY <1>1, <1>9, <1>10, <1>11 DEF Shown, Behind
<1> QED  BY <1>8, <1>12 DEF IInv

LEMMA InvNext == ASSUME PlotConstants, IInv, [Next]_vars PROVE IInv'
<1>1. CASE \E st \in Obs : NavigateTo(st)
  BY <1>1, InvNavigateTo
<1>2. CASE Visibility
  BY <1>2, InvVisibility
<1>3. CASE \E failed \in BOOLEAN : ObsPgmsComplete(failed)
  BY <1>3, InvObsPgmsComplete
<1>4. CASE \E t \in EditTimes : EditFrom(t) \/ EditTo(t)
  <2>1. PICK t \in EditTimes : EditFrom(t) \/ EditTo(t)
    BY <1>4
  <2>2. visible /\ nav.last # NoObs
    BY <2>1 DEF EditFrom, EditTo, SetTimeSpan
  <2>3. plot.editors \in Span /\ S!GapKept(plot.editors, Gaps)
    BY <2>2, SeenIsKept DEF Kept, Plots
  <2> QED  BY <2>1, <2>3, Edited, InvSetTimeSpan DEF EditFrom, EditTo
<1>5. CASE \E s \in Added : AddLine(s)
  <2>1. PICK s \in Added : ChangeLines(Append(plot.sensors, s))
    BY <1>5 DEF AddLine
  <2>2. plot.sensors \in Seq(AllSensors) /\ s \in AllSensors
    BY DEF IInv, Types, Plots, AllSensors
  <2>3. Append(plot.sensors, s) \in Seq(AllSensors)
    BY <2>2
  <2> QED  BY <2>1, <2>3, InvChangeLines
<1>6. CASE \E i \in DOMAIN plot.sensors : RemoveLines({i})
  <2>1. PICK i \in DOMAIN plot.sensors :
               ChangeLines(KeptUpTo(plot.sensors, {i})[Len(plot.sensors)])
    BY <1>6 DEF RemoveLines
  <2>2. plot.sensors \in Seq(AllSensors)
    BY DEF IInv, Types, Plots
  <2>3. KeptUpTo(plot.sensors, {i})[Len(plot.sensors)] \in Seq(AllSensors)
    BY <2>2, KeptAreLines
  <2> QED  BY <2>1, <2>3, InvChangeLines
<1>7. CASE ResetLines
  BY <1>7, InvResetLines
<1>8. CASE \E good \in SUBSET ToSet(plot.sensors) : UpdatePlot(good)
  BY <1>8, InvUpdatePlot
<1>9. CASE UNCHANGED vars
  BY <1>9 DEF vars, IInv, Types, Shown, Behind
<1> QED  BY <1>1, <1>2, <1>3, <1>4, <1>5, <1>6, <1>7, <1>8, <1>9 DEF Next

(* IInv is the property and more: only the hidden view may have another    *)
(* current time, and a fresh plot has no lines.                            *)
LEMMA InvIsProperty == ASSUME IInv PROVE PlotIsOfView
<1>1. SUFFICES ASSUME nav.last # NoObs, plot.sensors # << >>
               PROVE  Kept(plot, request, edited)
                      /\ (visible => AtTime(plot, request, edited, nav.last))
  BY DEF PlotIsOfView, Kept, AtTime
<1>2. ~Fresh(plot, request)
  BY <1>1 DEF Fresh
<1> QED  BY <1>1, <1>2 DEF IInv, Shown, Behind

(* TimeSeriesView::doNavigateTo, haveNeighbors, the two editors of the     *)
(* time span, updateTime and updatePlot: whatever the user navigates to,   *)
(* edits, adds, removes or resets, seen or hidden, and however late the    *)
(* neighbours' sensors and the data arrive, the plot is of the lines and   *)
(* the span that the view shows, and a span that nobody edited contains    *)
(* the current observation.                                                *)
THEOREM PlotShowsView ==
  ASSUME PlotConstants PROVE Spec => []PlotIsOfView
<1>1. Init => IInv
  BY InvInit
<1>2. IInv /\ [Next]_vars => IInv'
  BY InvNext
<1>3. IInv => PlotIsOfView
  BY InvIsProperty
<1> QED  BY <1>1, <1>2, <1>3, PTL DEF Spec
=============================================================================
