----------------------------- MODULE ControlFlags -----------------------------
(***************************************************************************)
(* Observations with their control flags, and the rules by which the user  *)
(* interface changes them: FlagPattern, FlagUpdate and FlagChange, the     *)
(* predicates of KvHelpers.cc, the corrections of ObsHelpers.cc and the    *)
(* accept and reject rules of AcceptReject.cc (src/src/common).            *)
(*                                                                         *)
(* Of the sixteen flags only the four that the rules read or write are     *)
(* kept.  A rule text is the sequence of its parts, not of its characters. *)
(***************************************************************************)
EXTENDS Integers, Sequences, SequencesExt

CONSTANT NoObs   \* the null ObsData_p

Flags == {"fcc", "fd", "fmis", "fhqc"}
Values == 0 .. 15
REJECTED == -32766
MISSING == -32767
DRY == -1

\* FlagPattern: what is permitted and forbidden for each flag.
NoConstraint == [permitted |-> [f \in Flags |-> {}], forbidden |-> [f \in Flags |-> {}]]

AllowedBits(p, f) ==
  (IF p.permitted[f] = {} THEN Values ELSE p.permitted[f]) \ p.forbidden[f]

Matches(p, ci) == \A f \in Flags : ci[f] \in AllowedBits(p, f)

\* The parts "f=[..]" and "f=)..(" of a pattern text.
Permit(f, vs) == [flag |-> f, permit |-> TRUE, values |-> vs]
Forbid(f, vs) == [flag |-> f, permit |-> FALSE, values |-> vs]

(* FlagPattern::parseNames: a flag may be named once only.  The            *)
(* constructor ignores a failure, and parsePattern, tried next, has reset  *)
(* everything: a wrong text then matches all flags.                        *)
PatternOf(text) ==
  IF \E i, k \in DOMAIN text : i # k /\ text[i].flag = text[k].flag
    THEN NoConstraint
    ELSE LET part(f, permit) ==
               UNION {text[i].values : i \in {k \in DOMAIN text :
                        text[k].flag = f /\ text[k].permit = permit}}
         IN  [permitted |-> [f \in Flags |-> part(f, TRUE)],
              forbidden |-> [f \in Flags |-> part(f, FALSE)]]

\* FlagUpdate: "f=v", here with the pattern before the arrow.
Rule(text, f, v) == [matcher |-> PatternOf(text), flag |-> f, value |-> v]
Always(f, v) == Rule(<< >>, f, v)

\* FlagUpdate::apply
Updated(ci, r) == [ci EXCEPT ![r.flag] = r.value]

(* FlagChange::apply: the rules in order, each on what those before made. *)
Applied(fc, ci) ==
  LET after[n \in 0 .. Len(fc)] ==
        IF n = 0 THEN ci
        ELSE IF Matches(fc[n].matcher, after[n - 1]) THEN Updated(after[n - 1], fc[n])
        ELSE after[n - 1]
  IN  after
Apply(fc, ci) == Applied(fc, ci)[Len(fc)]

-----------------------------------------------------------------------------
(* KvHelpers.cc: what the flags say of a 24 hour precipitation. *)
NO == 0  BEFORE_REDIST == 1  QC2_REDIST == 2  HQC_REDIST == 3

IsAccumulation(ci) ==
  CASE ci.fd \in {2, 4}  -> BEFORE_REDIST
    [] ci.fd \in {7, 8}  -> QC2_REDIST
    [] ci.fd \in {9, 10} -> HQC_REDIST
    [] OTHER             -> NO

IsEndpoint(ci) ==
  CASE ci.fd = 4  -> BEFORE_REDIST
    [] ci.fd = 8  -> QC2_REDIST
    [] ci.fd = 10 -> HQC_REDIST
    [] OTHER      -> NO

IsRejected(ci, corr) == ci.fmis = 2 \/ corr = REJECTED
IsMissing(ci, corr) == ci.fmis = 3 \/ corr = MISSING
IsOrigMissing(ci, orig) == ci.fmis % 2 = 1 \/ orig = MISSING

(* An ObsUpdate: the observation it was made from, and what it changes.    *)
(* Without one it starts as kvalobs::getMissingKvData does.                *)
MissingControl == [fcc |-> 0, fd |-> 0, fmis |-> 3, fhqc |-> 0]
CreateUpdate(o, obs) ==
  IF obs = NoObs
    THEN [at |-> o, obs |-> NoObs, corrected |-> MISSING, ci |-> MissingControl, tasks |-> {}]
    ELSE [at |-> o, obs |-> obs, corrected |-> obs.corrected, ci |-> obs.ci, tasks |-> obs.tasks]

\* createDataForUpdate with createdData or modifiedData
DataOf(u) ==
  [original |-> IF u.obs = NoObs THEN MISSING ELSE u.obs.original,
   corrected |-> u.corrected, ci |-> u.ci, tasks |-> u.tasks]

Changed(u, fc) == [u EXCEPT !.ci = Apply(fc, @)]
SetFlag(u, f, v) == [u EXCEPT !.ci[f] = v]
SetCorrected(u, c) == [u EXCEPT !.corrected = c]

-----------------------------------------------------------------------------
(* ObsHelpers.cc.  is_orig_missing of an observation asks is_missing with  *)
(* the original value; of an update it looks at the lowest bit of fmis.    *)
ObsOrigMissing(obs) == IsMissing(obs.ci, obs.original)
UpdateOrigMissing(u, obs) == obs = NoObs \/ IsOrigMissing(u.ci, obs.original)

RejectRules ==
  << Rule(<< Permit("fmis", {0, 4}) >>, "fmis", 2),
     Rule(<< Permit("fmis", {1}) >>, "fmis", 3), Always("fhqc", 10) >>
RejectUpdate(u, obs) ==
  IF IsMissing(u.ci, u.corrected) THEN u
  ELSE LET c == Changed(u, RejectRules)
       IN  SetCorrected(c, IF UpdateOrigMissing(c, obs) THEN MISSING ELSE REJECTED)

CorrectRules ==
  << Rule(<< Permit("fmis", {3}) >>, "fmis", 1),
     Rule(<< Permit("fmis", {0, 2}) >>, "fmis", 4), Always("fhqc", 7) >>
Correct(u, newC) == SetCorrected(Changed(u, CorrectRules), newC)

AutoCorrect(u, obs, newC) ==
  LET c == Correct(u, newC)
  IN  IF UpdateOrigMissing(u, obs) THEN SetFlag(c, "fhqc", 5) ELSE c

-----------------------------------------------------------------------------
(* AcceptReject.cc *)
ALL == {"correct", "accept_original", "accept_corrected", "reject"}

PossibilitiesRejected(obs, isRR24, forWatchRR) ==   \* mistake: of a rejected one as well
  IF obs = NoObs \/ obs.ci.fmis = 3 THEN {"correct"} ELSE ALL
Possibilities(obs, isRR24, forWatchRR) ==
  IF obs = NoObs THEN {"correct"}
  ELSE IF ~forWatchRR /\ isRR24 /\ IsAccumulation(obs.ci) # NO THEN {}
  ELSE IF obs.ci.fmis = 3 THEN {"correct"}
  ELSE ALL \ ((IF obs.ci.fhqc = 10 THEN {"reject"} ELSE {})
              \cup (IF obs.ci.fmis = 2 THEN {"accept_corrected"} ELSE {})
              \cup (IF obs.ci.fmis = 1 THEN {"reject"} ELSE {}))

(* accept_original, for one observation: no update, or one. *)
CanAcceptOriginal(obs) == obs.ci.fmis \in {0, 1, 2, 4}
AcceptOriginal(u) ==
  LET o == SetFlag(SetCorrected(u, u.obs.original), "fhqc", 1)
  IN  CASE u.obs.ci.fmis \in {2, 4} -> SetFlag(o, "fmis", 0)
        [] u.obs.ci.fmis = 1        -> SetFlag(o, "fmis", 3)
        [] OTHER                    -> o

(* do_accept_corrected; it looks at the flags of the observation, and at   *)
(* the corrected value of the update, which accept_model has changed.      *)
CanAcceptCorrected(obs) == obs.ci.fmis \in {0, 1, 4}
AcceptCorrected(u, qc2ok) ==
  LET fmis == u.obs.ci.fmis
      same == u.obs.original = u.corrected
      a == CASE fmis = 0 /\ same  -> SetFlag(u, "fhqc", 1)
             [] fmis = 0 /\ ~same -> SetFlag(SetFlag(u, "fhqc", 7), "fmis", 4)
             [] fmis = 1          -> SetFlag(u, "fhqc", 5)
             [] OTHER             -> SetFlag(u, "fhqc", 7)
  IN  IF qc2ok THEN SetFlag(a, "fhqc", 4) ELSE a

(* reject: one observation that cannot be rejected ends it for all. *)
CanReject(obs) == obs.ci.fmis \notin {1, 3}
RejectOne(u, qc2ok) ==
  LET r == RejectUpdate(u, u.obs) IN IF qc2ok THEN SetFlag(r, "fhqc", 4) ELSE r
=============================================================================
