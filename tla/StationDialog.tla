------------------------------ MODULE StationDialog ------------------------------
(***************************************************************************)
(* StationDialog: chooses the station, the type and the time span for the  *)
(* check of daily precipitation, opened by HqcAppWindow::onNewWatchRR with *)
(* the sensor and the days checked last.  The types are those of obs_pgm,  *)
(* which answers while the user goes on editing.                           *)
(***************************************************************************)
EXTENDS Integers, Sequences, FiniteSetsExt

CONSTANTS
  Stations,      \* numbers typed, 0 for what is no Norwegian station
  Programs,      \* rows of obs_pgm of stations: type, manual or automatic hours, from, to,
                 \* and whether the parameter is RR_24 ("own"), made from it ("parts") or another
  Cached,        \* stations obs_pgm is known of already
  Days,          \* times are days
  Now,           \* today
  MinDays,       \* minimal gap of TimeSpanControl, 4 days
  LastChecked    \* mLastNavigatedWatchRR: station, type and day, or station 0 before the first

VARIABLES
  dialog,        \* mSensor, the box of types, the dates and the OK button; << >> when closed
  request,       \* mObsPgmRequest: its station and progress
  checks         \* the check that was started last, if any


NoRequest == [station |-> 0, complete |-> FALSE]
Init == dialog = << >> /\ request = NoRequest /\ checks = {}

Rows(req) == IF req.complete /\ req.station \in DOMAIN Programs THEN Programs[req.station] ELSE {}
During(span, r) == r.from <= span[2] /\ span[1] <= r.to

(* acceptThisObsPgm: observed in the morning or collected, and daily       *)
(* precipitation or what it is made from.                                  *)
AcceptThisObsPgm(r) ==
  IF ~r.hours THEN 0
  ELSE CASE r.param = "own" -> r.type [] r.param = "parts" -> -r.type [] OTHER -> 0
Types(station, req, span) ==
  IF station = 0 THEN {}
  ELSE {AcceptThisObsPgm(r) : r \in {q \in Rows(req) : During(span, q)}} \ {0}

FirstOf(types) == Min(types)

valid(d) == d.station # 0 /\ d.type # 0 /\ d.span[1] <= d.span[2]
EnableOk(d) == [d EXCEPT !.ok = valid(d)]

(* updateTypeList.  When the chosen type is in a list that changed, its    *)
(* place is counted from the wrong end of the list: nothing is selected in *)
(* the box, the type stays, and an exception ends the slot that was        *)
(* running, before it looks at the OK button.                              *)
Throws(d, types) == types # d.types /\ d.boxed # 0 /\ d.boxed \in types
KeepsType(d, types) ==
  CASE types = d.types -> d
    [] types # d.types /\ Throws(d, types) -> [d EXCEPT !.types = types, !.boxed = 0]
    [] types # d.types /\ ~Throws(d, types) /\ types # {} ->
         EnableOk([d EXCEPT !.types = types, !.boxed = FirstOf(types), !.type = FirstOf(types)])
    [] OTHER -> [d EXCEPT !.types = types, !.boxed = 0]
UpdateTypeList(d, types) ==
  CASE types = d.types -> d
    [] types # d.types /\ Throws(d, types) -> [d EXCEPT !.types = types, !.boxed = 0]
    [] types # d.types /\ ~Throws(d, types) /\ types # {} ->
         EnableOk([d EXCEPT !.types = types, !.boxed = FirstOf(types), !.type = FirstOf(types)])
    [] OTHER -> [d EXCEPT !.types = types, !.boxed = 0, !.type = 0]
Updated(d, req) ==
  LET types == Types(d.station, req, d.span) IN
  IF Throws(d, types) THEN UpdateTypeList(d, types) ELSE EnableOk(UpdateTypeList(d, types))

(* onEditStation: with programs that are known the request is complete     *)
(* before post returns, and the list is up to date.                        *)
Requested(station) ==
  IF station = 0 THEN request ELSE [station |-> station, complete |-> station \in Cached]
EditStation(station) ==
  /\ dialog # << >> /\ station # dialog.station
  /\ request' = Requested(station)
  /\ dialog' = Updated([dialog EXCEPT !.station = station], request')
  /\ UNCHANGED checks

ObsPgmDone ==
  /\ dialog # << >>
  /\ request.station # 0 /\ ~request.complete
  /\ request' = [request EXCEPT !.complete = TRUE]
  /\ dialog' = UpdateTypeList(dialog, Types(dialog.station, request', dialog.span))
  /\ UNCHANGED checks

(* onEditTime, after TimeSpanControl has moved the other end.              *)
EditTime(span) ==
  /\ dialog # << >> /\ span # dialog.span
  /\ span[2] - span[1] >= MinDays
  /\ dialog' = Updated([dialog EXCEPT !.span = span], request)
  /\ UNCHANGED << request, checks >>

SelectType(t) ==
  /\ dialog # << >> /\ t \in dialog.types \ {dialog.boxed}
  /\ dialog' = EnableOk([dialog EXCEPT !.boxed = t, !.type = t])
  /\ UNCHANGED << request, checks >>

(* onNewWatchRR: a week after and two before the day checked last, but     *)
(* nothing in the future.  The types are looked up before the dates are    *)
(* set, for the four weeks the dialog starts with.                         *)
DefaultSpan == << Now - 28, Now >>
LastSpan    == << LastChecked.day - 14, Min({LastChecked.day + 7, Now}) >>
Open ==
  /\ dialog = << >>
  /\ request' = Requested(LastChecked.station)
  /\ LET d == [station |-> LastChecked.station, type |-> LastChecked.type, types |-> {}, boxed |-> 0,
               span |-> DefaultSpan, ok |-> FALSE]
     IN dialog' = [Updated(d, request') EXCEPT !.span = LastSpan]
  /\ UNCHANGED checks

Accept ==
  /\ dialog # << >> /\ dialog.ok
  /\ checks' = {[station |-> dialog.station, type |-> dialog.type, listed |-> dialog.types,
                            answered |-> request.complete]}
  /\ dialog' = << >> /\ request' = NoRequest

Cancel ==
  /\ dialog # << >>
  /\ dialog' = << >> /\ request' = NoRequest
  /\ UNCHANGED checks

Next ==
  \/ \E s \in Stations : EditStation(s)
  \/ ObsPgmDone
  \/ \E span \in Days \X Days : EditTime(span)
  \/ \E t \in IF dialog = << >> THEN {} ELSE dialog.types : SelectType(t)
  \/ Open
  \/ Accept
  \/ Cancel

-----------------------------------------------------------------------------
(* A check is only started for a type the station reports daily            *)
(* precipitation with, at some time, whatever was edited before obs_pgm    *)
(* answered; the one exception is the type checked last, which stays, also *)
(* for another station, as long as no list of types has been shown.        *)
Reports(station) ==
  Types(station, [station |-> station, complete |-> TRUE], << -Now * 100, Now * 100 >>)
CheckOfReported ==
  \A c \in checks :
    \/ c.type \in Reports(c.station)
    \/ c.type = LastChecked.type /\ c.listed = {}
=============================================================================
