------------------------------- MODULE TimeSpans -------------------------------
(***************************************************************************)
(* TimeSpan, and TimeSpanControl, which keeps the two editors of a time    *)
(* span a minimum and a maximum number of hours apart: editors are         *)
(* << T0, T1 >>.  A time that is "not a date time" is NoTime.              *)
(***************************************************************************)
EXTENDS Integers

NoTime == -1000000   \* no time of the model

Contains(span, t) ==
  (span[1] = NoTime \/ span[1] <= t) /\ (span[2] = NoTime \/ t <= span[2])
Undefined(span) == span = << NoTime, NoTime >>
Closed(span) == span[1] # NoTime /\ span[2] # NoTime /\ span[1] <= span[2]

(* An undefined end of one is the end of the other; an empty intersection  *)
(* is an undefined span.                                                   *)
Intersection(s, t) ==
  LET start == IF s[1] = NoTime THEN t[1] ELSE IF t[1] = NoTime THEN s[1]
               ELSE IF s[1] >= t[1] THEN s[1] ELSE t[1]
      end   == IF s[2] = NoTime THEN t[2] ELSE IF t[2] = NoTime THEN s[2]
               ELSE IF s[2] <= t[2] THEN s[2] ELSE t[2]
  IN  IF start = NoTime \/ end = NoTime \/ start <= end THEN << start, end >>
      ELSE << NoTime, NoTime >>

(* setMinimumGap and setMaximumGap: the one set last wins; 0 is no limit.  *)
MinimumGapSet(gaps, h) ==
  << h, IF h > 0 /\ gaps[2] > 0 /\ h > gaps[2] THEN h ELSE gaps[2] >>
MaximumGapSet(gaps, h) ==
  << IF gaps[1] > 0 /\ h > 0 /\ gaps[1] > h THEN h ELSE gaps[1], h >>

(* changedT0: T1 follows, unless an editor's range, << first, last >>,     *)
(* forbids it, and changedT1.                                              *)
Followed0(t, e, gaps, range) ==
  LET near == t + gaps[1]  far == t + gaps[2]
      moved == IF gaps[1] > 0 /\ near > e[2] /\ near <= range[2] THEN near ELSE e[2]
  IN  << t, IF gaps[2] > 0 /\ far < moved /\ far >= range[1] THEN far ELSE moved >>
Followed1(t, e, gaps, range) ==
  LET near == t - gaps[1]  far == t - gaps[2]
      moved == IF gaps[1] > 0 /\ near < e[1] /\ near >= range[1] THEN near ELSE e[1]
  IN  << IF gaps[2] > 0 /\ far > moved /\ far <= range[2] THEN far ELSE moved, t >>

\* setDateTime of one editor, by the user or by the program; no change, no signal
SetT0(e, t, gaps, range) == IF t = e[1] THEN e ELSE Followed0(t, e, gaps, range)
SetT1(e, t, gaps, range) == IF t = e[2] THEN e ELSE Followed1(t, e, gaps, range)
SetBoth(e, span, gaps, range) == SetT1(SetT0(e, span[1], gaps, range), span[2], gaps, range)

GapKept(e, gaps) ==
  /\ gaps[1] > 0 => e[2] - e[1] >= gaps[1]
  /\ gaps[2] > 0 => e[2] - e[1] <= gaps[2]
================================================================================
