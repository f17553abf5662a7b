--------------------------------- MODULE RR24 ---------------------------------
(***************************************************************************)
(* src/src/watchrr/AnalyseRR24.cc and AnalyseFCC.cc: the checks of a       *)
(* station's daily precipitation and the changes the WatchRR dialogs make. *)
(*                                                                         *)
(* A card is what a TaskAccess shows: one observation, or none, for each   *)
(* cell, a parameter on a day.  An operation works on [card, stored] and   *)
(* adds the cells it passes to storeUpdates to "stored"; the updates of    *)
(* one call, which never has two of a cell, are a function from cells.     *)
(* Amounts are in tenths of a millimetre, with DRY, MISSING and REJECTED   *)
(* below zero.  The parameters that FCC reads at earlier hours are cells   *)
(* of their day.                                                           *)
(***************************************************************************)
EXTENDS ControlFlags, FiniteSets

CONSTANT Pars   \* parameters on the card, RR_24 among them
RR_24 == "RR_24"

Cell(d) == << RR_24, d >>
CellsOf(days) == {Cell(d) : d \in days}
Put(da, us) ==   \* storeUpdates
  [card   |-> [c \in DOMAIN da.card |-> IF c \in DOMAIN us THEN DataOf(us[c]) ELSE da.card[c]],
   stored |-> da.stored \cup DOMAIN us]
CreateU(da, c) == CreateUpdate(c, da.card[c])
AddTasks(u, ts) == [u EXCEPT !.tasks = @ \cup ts]
ClearTasks(u, ts) == [u EXCEPT !.tasks = @ \ ts]
DayCount(lo, hi) == IF hi < lo THEN 0 ELSE hi - lo + 1

RequiredTasks == {"previously_accumulation"}
ALL_RR24_TASKS ==
  {"missing_obs", "hqc_before_redist", "hqc_automatic", "no_accumulation_days",
   "no_endpoint", "mixed_redistribution", "maybe_accumulated",
   "previously_accumulation"}

Here(da, d) == da.card[Cell(d)] # NoObs
Ci(da, d) == da.card[Cell(d)].ci
Acc(da, d) == IsAccumulation(Ci(da, d))
End(da, d) == IsEndpoint(Ci(da, d))
\* A day on which a run of accumulation days ends, seen from either side.
Stops(da, d) == Here(da, d) /\ (Acc(da, d) = NO \/ End(da, d) # NO)

-----------------------------------------------------------------------------
(* analyse: the accumulation days at both ends of the span cannot be       *)
(* edited, as their accumulation may not be seen completely.               *)
EditableSpanAll(da, t0, t1) == << t0, t1 >>   \* mistake: nothing is cut off
EditableSpan(da, t0, t1) ==
  LET first == {d \in t0 .. t1 : Stops(da, d)}
      d0 == Min(first)
      tS == IF first = {} THEN t1 + 1 ELSE IF Acc(da, d0) = NO THEN d0 ELSE d0 + 1
      last == {d \in tS .. t1 : Stops(da, d)}
  IN  << tS, IF last = {} THEN tS - 1 ELSE Max(last) >>

UncertainFd == PatternOf(<< Permit("fd", {3}), Permit("fhqc", {0, 4}) >>)

(* One day of the backward loop of analyse; s also holds the pending       *)
(* updates and what the loop remembers of the days after this one.  A      *)
(* pending update replaces what the loop has stored for its day meanwhile. *)
With(us, c, u) == [x \in DOMAIN us \cup {c} |-> IF x = c THEN u ELSE us[x]]
AnalyseDayForgetful(s, d) ==   \* mistake: an endpoint counts for all days before it
  LET acc == IF Here(s.da, d) THEN Acc(s.da, d) ELSE NO
      endp == IF acc = NO THEN NO ELSE End(s.da, d)
  IN  [s EXCEPT !.acc = acc, !.endp = endp, !.have = IF endp # NO THEN endp ELSE @,
         !.updates = IF acc # NO /\ endp = NO /\ s.have = NO
                       THEN With(@, Cell(d), AddTasks(CreateU(s.da, Cell(d)), {"no_endpoint"}))
                       ELSE @]
AnalyseDay(s, d) ==
  IF ~Here(s.da, d)
    THEN [s EXCEPT !.updates = With(@, Cell(d), AddTasks(CreateU(s.da, Cell(d)), {"missing_obs"})),
                   !.acc = NO, !.endp = NO, !.have = NO]
    ELSE
      LET acc  == Acc(s.da, d)
          endp == End(s.da, d)
          fhqc == Ci(s.da, d).fhqc
          byHqc == CASE acc = BEFORE_REDIST /\ fhqc \notin {0, 4} -> {"hqc_before_redist"}
                     [] acc = QC2_REDIST /\ fhqc \notin {0, 1, 4} -> {"hqc_automatic"}
                     [] OTHER -> {}
          task == CASE acc = NO ->
                         IF Matches(UncertainFd, Ci(s.da, d)) THEN {"maybe_accumulated"} ELSE {}
                    [] acc # NO /\ endp # NO -> byHqc
                    [] acc # NO /\ endp = NO /\ s.have = NO -> {"no_endpoint"}
                    [] acc # NO /\ endp = NO /\ s.have # NO ->
                         IF s.have # acc \/ s.acc # acc THEN {"mixed_redistribution"} ELSE byHqc
          lone == CASE s.endp = NO -> {}
                    [] s.endp # NO /\ acc = NO -> {"no_endpoint"}
                    [] s.endp # NO /\ acc # NO ->
                         IF endp # NO THEN {"no_accumulation_days"} ELSE {}
          da2  == IF lone = {} THEN s.da
                  ELSE Put(s.da, [c \in {Cell(d + 1)} |-> AddTasks(CreateU(s.da, c), lone)])
      IN  [da |-> da2,
           updates |-> IF task = {} THEN s.updates
                       ELSE With(s.updates, Cell(d), AddTasks(CreateU(da2, Cell(d)), task)),
           acc |-> acc, endp |-> endp,
           have |-> IF acc = NO THEN NO ELSE IF endp # NO THEN endp ELSE s.have]

\* The loop after n turns; its last day comes first.
AnalyseLoop(da, span) ==
  LET after[n \in 0 .. DayCount(span[1], span[2])] ==
        IF n = 0
          THEN [da |-> da, updates |-> [c \in {} |-> NoObs], acc |-> NO, endp |-> NO, have |-> NO]
          ELSE AnalyseDay(after[n - 1], span[2] - n + 1)
  IN  after
Analyse(da, span) ==
  LET s == AnalyseLoop(da, span)[DayCount(span[1], span[2])]
  IN  Put(s.da, s.updates)

-----------------------------------------------------------------------------
(* markPreviousAccumulation: the rest of an accumulation that a change cut *)
(* in two.  Before: back to the endpoint of the one before; after: up to   *)
(* and with the endpoint.  Gaps are passed over.                           *)
Through(da, d) == ~Here(da, d) \/ ~Stops(da, d)
Rest(da, lo, hi, before) ==
  IF before
    THEN {d \in lo .. hi : /\ Here(da, d) /\ ~Stops(da, d)
                           /\ \A k \in d + 1 .. hi : Through(da, k)}
    ELSE {d \in lo .. hi : /\ Here(da, d) /\ Acc(da, d) # NO
                           /\ \A k \in lo .. d - 1 : Through(da, k)}
MarkDays(da, days) ==
  Put(da, [c \in CellsOf(days) |-> AddTasks(CreateU(da, c), {"previously_accumulation"})])
MarkOneOnly(da, lo, hi, before) ==   \* mistake: only the nearest day
  LET rest == Rest(da, lo, hi, before)
  IN  MarkDays(da, IF rest = {} THEN {} ELSE {IF before THEN Max(rest) ELSE Min(rest)})
MarkPreviousAccumulation(da, lo, hi, before) == MarkDays(da, Rest(da, lo, hi, before))

FcDryEnd == << Rule(<< Permit("fmis", {4}) >>, "fmis", 0) >>
FcWetEnd == << Rule(<< Permit("fmis", {0}) >>, "fmis", 4) >>

(* redistribute: newCorr[1] is for day t0, the last one for the endpoint.  *)
(* The old corrected value is read after the new one was set.              *)
Redistribute(da, t0, editable, newCorr) ==
  LET last == t0 + Len(newCorr) - 1
      newEndpoint == ~Here(da, last) \/ End(da, last) = NO
      miss == << Always("fd", 9), Always("fhqc", 6), Rule(<< Permit("fmis", {3}) >>, "fmis", 1) >>
      end  == << Always("fd", 10), Always("fhqc", 6) >>
      update(c) ==
        LET u == SetCorrected(CreateU(da, c), newCorr[c[2] - t0 + 1])
            v == IF c[2] < last THEN Changed(u, miss)
                 ELSE Changed(Changed(u, end), IF u.corrected = DRY THEN FcDryEnd ELSE FcWetEnd)
        IN  ClearTasks(v, ALL_RR24_TASKS)
      done   == Put(da, [c \in CellsOf(t0 .. last) |-> update(c)])
      marked == MarkPreviousAccumulation(done, editable[1], t0 - 1, TRUE)
  IN  IF newEndpoint THEN MarkPreviousAccumulation(marked, last + 1, editable[2], FALSE)
      ELSE marked

CanRedistributeInQC2(da, t0, t1) ==
  LET days == {d \in t0 .. t1 - 1 : Here(da, d)}
  IN  /\ t1 > t0 /\ Here(da, t1)
      /\ \A d \in days : Ci(da, d).fmis \in {1, 3}
      /\ Ci(da, t1).fmis \in {0, 2, 4} /\ da.card[Cell(t1)].original >= DRY
      /\ Cardinality({Acc(da, d) : d \in days \cup {t1}}) = 1

(* redistributeInQC2: the update that it makes for the endpoint is not     *)
(* among those it stores.                                                  *)
RedistributeInQC2(da, t0, t1, editable) ==
  LET miss == << Rule(<< Forbid("fd", {7, 9}) >>, "fd", 2),
                 Rule(<< Permit("fd", {9}) >>, "fd", 7), Always("fhqc", 4) >>
      newEndpoint == Here(da, t1) /\ End(da, t1) = NO
      done   == Put(da, [c \in CellsOf(t0 .. t1 - 1) |->
                   ClearTasks(Changed(CreateU(da, c), miss), ALL_RR24_TASKS)])
      marked == MarkPreviousAccumulation(done, editable[1], t0 - 1, TRUE)
  IN  IF newEndpoint THEN MarkPreviousAccumulation(marked, t1 + 1, editable[2], FALSE)
      ELSE marked

-----------------------------------------------------------------------------
(* singles: each row of the edit dialog is accepted with its new value,    *)
(* rejected, or left alone.                                                *)
SinglesDay(s, d, ar, value) ==
  IF ar = "none"
    THEN [s EXCEPT !.from = IF s.single THEN d ELSE @, !.single = FALSE]
    ELSE
      LET obs  == s.da.card[Cell(d)]
          acc  == obs # NoObs /\ Acc(s.da, d) # NO
          open == acc /\ End(s.da, d) = NO
          da1  == IF ~s.single /\ acc
                    THEN MarkPreviousAccumulation(s.da, s.from, d - 1, TRUE) ELSE s.da
          da2  == IF ~s.single /\ s.acc
                    THEN MarkPreviousAccumulation(da1, s.from, d - 1, FALSE) ELSE da1
          new(u) == IF ar = "accept" THEN AutoCorrect(u, obs, value) ELSE RejectUpdate(u, obs)
      IN  [da |-> Put(da2, [c \in {Cell(d)} |->
                    ClearTasks(Changed(new(CreateU(da2, c)), << Always("fd", 1) >>), ALL_RR24_TASKS)]),
           single |-> TRUE, acc |-> open, from |-> s.from]

\* The loop after i rows.
SinglesLoop(da, t0, editable, newCorr, ars) ==
  LET after[i \in 0 .. Len(ars)] ==
        IF i = 0 THEN [da |-> da, single |-> FALSE, acc |-> FALSE, from |-> editable[1]]
        ELSE SinglesDay(after[i - 1], t0 + i - 1, ars[i], newCorr[i])
  IN  after
Singles(da, t0, editable, newCorr, ars) ==
  LET s == SinglesLoop(da, t0, editable, newCorr, ars)[Len(ars)]
      from == IF s.single THEN t0 + Len(ars) ELSE s.from
  IN  IF s.acc THEN MarkPreviousAccumulation(s.da, from, editable[2], FALSE) ELSE s.da

-----------------------------------------------------------------------------
(* calculateSum and calculateOriginalSum, for the information texts. *)
Amount(v) == IF v > 0 THEN v ELSE 0
CalculateSum(da, t0, t1) ==
  FoldLeft(LAMBDA sum, d :
             sum + (IF ~Here(da, d) \/ IsMissing(Ci(da, d), da.card[Cell(d)].corrected) THEN 0
                    ELSE Amount(da.card[Cell(d)].corrected)),
           0, [i \in 1 .. DayCount(t0, t1) |-> t0 + i - 1])
CalculateOriginalSum(da, t0, t1) ==
  IF t1 > t0 /\ Here(da, t1) /\ ~ObsOrigMissing(da.card[Cell(t1)])
     /\ \A d \in t0 .. t1 - 1 : Here(da, d) => ObsOrigMissing(da.card[Cell(d)])
    THEN Amount(da.card[Cell(t1)].original) ELSE MISSING

(* canAccept and accept of a selection in a column of RR_24. *)
CanAccept(da, t0, t1, corrected) ==
  LET days == {d \in t0 .. t1 : Here(da, d)}
      kind == IF corrected THEN "accept_corrected" ELSE "accept_original"
  IN  \A d \in days : LET obs == da.card[Cell(d)]
                      IN  /\ obs.ci.fhqc \in 0 .. 4
                          /\ obs.tasks \cap ALL_RR24_TASKS = {}
                          /\ kind \in Possibilities(obs, TRUE, TRUE)

Accept(da, t0, t1, corrected) ==
  LET ok(obs) == IF corrected THEN CanAcceptCorrected(obs) ELSE CanAcceptOriginal(obs)
      new(u)  == IF corrected THEN AcceptCorrected(u, FALSE) ELSE AcceptOriginal(u)
      days    == {d \in t0 .. t1 : Here(da, d) /\ ok(da.card[Cell(d)])}
  IN  Put(da, [c \in CellsOf(days) |-> new(CreateU(da, c))])

-----------------------------------------------------------------------------
(* FCC::analyse and FCC::acceptRow: a day with a bad consistency check. *)
BadFcc == PatternOf(<< Permit("fcc", {3, 4}), Permit("fhqc", {0}) >>)
Row(da, d) == {c \in Pars \X {d} : da.card[c] # NoObs}
BadRow(da, d) == \E c \in Row(da, d) : Matches(BadFcc, da.card[c].ci)
FccAnalyse(da, t0, t1) ==
  LET bad == UNION {Row(da, d) : d \in {k \in t0 .. t1 : BadRow(da, k)}}
  IN  Put(da, [c \in bad |-> AddTasks(CreateU(da, c), {"fcc_error"})])

FccAcceptRow(da, d) ==
  LET ok == << Rule(<< Permit("fhqc", {0, 2, 3, 4}) >>, "fhqc", 1) >>
  IN  Put(da, [c \in Row(da, d) |-> ClearTasks(Changed(CreateU(da, c), ok), {"fcc_error"})])
=============================================================================
