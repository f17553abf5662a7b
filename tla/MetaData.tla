--------------------------------- MODULE MetaData ---------------------------------
(***************************************************************************)
(* KvMetaDataBuffer and ObsPgmRequest.  The tables of stations, parameters *)
(* and types are read once, when the main window starts, each in a nested  *)
(* event loop in which windows already ask for observation programs.       *)
(* Those are kept per station, and a station without any is asked again.   *)
(*                                                                         *)
(* And CachedParamLimits, at the end, with a state of its own: the limits  *)
(* a corrected value is coloured by.                                       *)
(***************************************************************************)
EXTENDS Integers, Sequences

CONSTANTS
  Stations,   \* the stations windows ask about
  ObsPgm,     \* the rows of obs_pgm kvalobs has of each of them
  Params,     \* the rows of param, with the words found in the unit
  Makers,     \* the windows that make observation program requests
  Sensors, Times,
  DayOf(_),   \* day of the year of a time
  RowsOf(_),  \* rows of a sensor: from, days, limits, and whether the text names max and high
  ParamOf(_), \* parameter of a sensor
  Slimits,    \* table slimits of the system database: parameter, low and high
  Values,     \* corrected values; Missing stands for missing and rejected
  Missing,
  CacheSize   \* 64

VARIABLES
  tables,     \* task of each table: "none", "asked", "rows" or "failed"
  codes,      \* mCodeParams and mDirectionParams
  pgms,       \* mObsPgms: how often each row is kept, for the stations it has
  requests,   \* of every maker: what it asked, what it has, its progress
  broken,     \* (history) stations of a query that ended early
  limits,     \* sensor_limits, the least recently used first
  checked     \* the last check: observation, value, answer, and the entry it used


Tables == << "stations", "params", "types" >>
Kinds  == {Tables[i] : i \in 1 .. 3}
NoCodes == [code |-> {}, direction |-> {}]
None    == [of |-> {}, asked |-> {}, has |-> << >>, state |-> "none"]

Init ==
  /\ tables = [k \in Kinds |-> "none"]
  /\ codes = NoCodes
  /\ pgms = << >>
  /\ requests = [m \in Makers |-> None]
  /\ broken = {}

(* allStations, allParams, allTypes: nothing before the task is done.      *)
Have(kind)  == tables[kind] \in {"rows", "failed"}
Empty(kind) == tables[kind] # "rows"
isComplete  == \A k \in Kinds : Have(k)

-----------------------------------------------------------------------------
(* reload, called by HqcAppWindow::startup, clears everything and asks the *)
(* first table; the next one is asked when the loop of the one before ends.*)
Reload ==
  /\ \A k \in Kinds : tables[k] = "none"
  /\ tables' = [tables EXCEPT !["stations"] = "asked"]
  /\ codes' = NoCodes
  /\ pgms' = << >>
  /\ UNCHANGED << requests, broken >>

(* taskDoneStations, taskDoneParams, taskDoneTypes: an error is not looked *)
(* at, the table is then empty.  The parameters that are codes or          *)
(* directions are found anew.                                              *)
CodeParams(rows)      == {r.id : r \in {s \in rows : "kode" \in s.unit}}
DirectionParams(rows) == {r.id : r \in {s \in rows : "grader" \in s.unit /\ ~s.position}}

TableDone(i, outcome) ==
  LET rows == IF outcome = "rows" THEN Params ELSE {} IN
  /\ tables[Tables[i]] = "asked"
  /\ tables' = [k \in Kinds |-> CASE k = Tables[i] -> outcome
                                  [] i < 3 /\ k = Tables[i + 1] -> "asked"
                                  [] OTHER -> tables[k]]
  /\ codes' = IF Tables[i] = "params"
              THEN [code |-> CodeParams(rows),
                    direction |-> codes.direction \cup DirectionParams(rows)]
              ELSE codes
  /\ UNCHANGED << pgms, requests, broken >>

-----------------------------------------------------------------------------
(* putObsPgm: every row is appended, whether it is there or not.           *)
Put(kept, rows) ==
  [s \in DOMAIN kept \cup {r.station : r \in rows} |->
    [r \in {q \in ObsPgm : q.station = s} |->
      (IF s \in DOMAIN kept THEN kept[s][r] ELSE 0) + (IF r \in rows THEN 1 ELSE 0)]]

(* ObsPgmRequest::init: what is kept is copied, the other stations asked.  *)
(* post without a query is complete at once.                               *)
Unknown(stations) == {s \in stations : s \notin DOMAIN pgms}

Request(m, stations) ==
  LET asked == Unknown(stations) IN
  /\ requests[m] = None
  /\ requests' = [requests EXCEPT ![m] =
       [of |-> stations, asked |-> asked, has |-> [s \in stations \ asked |-> pgms[s]],
        state |-> IF asked = {} THEN "complete" ELSE "asked"]]
  /\ UNCHANGED << tables, codes, pgms, broken >>

(* onTaskDone: the rows go to the buffer and to the request, also those of *)
(* a query that failed on the way.                                         *)
ForMaker(m, rows) == [requests[m] EXCEPT !.has = Put(@, rows), !.state = "complete"]

PgmsDone(m, rows) ==
  LET all == {r \in ObsPgm : r.station \in requests[m].asked} IN
  /\ requests[m].state = "asked"
  /\ rows \subseteq all
  /\ pgms' = Put(pgms, rows)
  /\ requests' = [requests EXCEPT ![m] = ForMaker(m, rows)]
  /\ broken' = broken \cup {r.station : r \in all \ rows}
  /\ UNCHANGED << tables, codes >>

(* ~ObsPgmRequest, before or after the answer.                             *)
Delete(m) ==
  /\ requests[m] # None
  /\ requests' = [requests EXCEPT ![m] = None]
  /\ UNCHANGED << tables, codes, pgms, broken >>

Next ==
  \/ Reload
  \/ \E i \in 1 .. 3, outcome \in {"rows", "failed"} : TableDone(i, outcome)
  \/ \E m \in Makers, stations \in (SUBSET Stations) \ {{}} : Request(m, stations)
  \/ \E m \in Makers, rows \in SUBSET ObsPgm : PgmsDone(m, rows)
  \/ \E m \in Makers : Delete(m)

-----------------------------------------------------------------------------
(* A request that is complete has every row of its stations, whoever asked *)
(* for them and when the tables were reloaded, unless a query ended early; *)
(* and the two sets of parameters are those of the table that was read.    *)
ProgramsAnswered ==
  /\ \A m \in Makers : requests[m].state = "complete" =>
       \A r \in ObsPgm : r.station \in requests[m].of \ broken =>
         r.station \in DOMAIN requests[m].has /\ requests[m].has[r.station][r] > 0
  /\ isComplete => codes.code = IF Empty("params") THEN {} ELSE CodeParams(Params)
-----------------------------------------------------------------------------
(* CachedParamLimits.  The rows of station_param that apply on the day of  *)
(* the year are read in a nested event loop, and kept per sensor with the  *)
(* time span between the row in force and the next one; what the row does  *)
(* not say is taken from the system database.                              *)
Undefined == -1     \* not_a_date_time
Year1800  == 0
LimitsInit == limits = << >> /\ checked = << >>

Entry(sensor) == CHOOSE i \in 1 .. Len(limits) : limits[i].sensor = sensor
Has(sensor)   == \E i \in 1 .. Len(limits) : limits[i].sensor = sensor
Without(sensor) == SelectSeq(limits, LAMBDA e : e.sensor # sensor)
PutLimits(entry) ==
  LET rest == Without(entry.sensor) IN
  Append(IF Len(rest) = CacheSize THEN Tail(rest) ELSE rest, entry)

(* StationParamSQLTask: an error clears the rows.                          *)
Applicable(sensor, time) == {r \in RowsOf(sensor) : DayOf(time) \in r.days}
Rows(sensor, time, failed) ==
  IF failed THEN {} ELSE {r \in Applicable(sensor, time) : r.named}

(* fetchMetaData, parseMetadata and fetchLimitsFromSystemDB.  Limits from  *)
(* the system database are taken to be valid from 1800 on, also when the   *)
(* row in force, which has the high and low limits, is not.                *)
paramLimits(param) == {r \in Slimits : r.param = param}
Latest(rows)   == CHOOSE r \in rows : \A q \in rows : q.from <= r.from
Earliest(rows) == CHOOSE r \in rows : \A q \in rows : r.from <= q.from
Over(f, g)     == [k \in DOMAIN f \cup DOMAIN g |-> IF k \in DOMAIN g THEN g[k] ELSE f[k]]
BothEnds(l)    == {"min", "max"} \subseteq DOMAIN l

Fetched(sensor, time, failed) ==
  LET rows   == Rows(sensor, time, failed)
      before == {r \in rows : r.from <= time}
      after  == rows \ before
      own    == IF before = {} THEN << >> ELSE Latest(before).limits
      slimits == paramLimits(ParamOf(sensor))
      system == ~BothEnds(own) /\ slimits # {}
  IN [sensor |-> sensor, failed |-> failed,
      from |-> IF system THEN Year1800 ELSE IF before = {} THEN Undefined ELSE Latest(before).from,
      to |-> IF after = {} THEN Undefined ELSE Earliest(after).from,
      limits |-> IF system THEN Over(own, LET r == CHOOSE x \in slimits : TRUE IN [min |-> r.low, max |-> r.high]) ELSE own]

Judge(l, value) ==
  CASE \/ "max" \in DOMAIN l /\ value > l["max"]
       \/ "min" \in DOMAIN l /\ value < l["min"] -> "OutsideMinMax"
    [] \/ "high" \in DOMAIN l /\ value > l["high"]
       \/ "low" \in DOMAIN l /\ value < l["low"] -> "OutsideHighLow"
    [] OTHER -> "Ok"

ForgetsEnd(sensor, time) ==
  Has(sensor) /\ LET e == limits[Entry(sensor)] IN e.from # Undefined /\ time >= e.from
Usable(sensor, time) ==
  Has(sensor) /\ LET e == limits[Entry(sensor)] IN
  e.from # Undefined /\ time >= e.from /\ (e.to = Undefined \/ time < e.to)

Check(sensor, time, value, failed) ==
  LET fetch == ~Usable(sensor, time)
      entry == IF fetch THEN Fetched(sensor, time, failed) ELSE limits[Entry(sensor)]
  IN
  /\ failed => fetch
  /\ limits' = PutLimits(entry)
  /\ checked' = [sensor |-> sensor, time |-> time, value |-> value,
                 failed |-> entry.failed, answer |-> Judge(entry.limits, value)]

(* Neither missing nor rejected values are looked up.                      *)
CheckMissing(sensor, time) ==
  /\ checked' = << >>
  /\ UNCHANGED limits

LimitsNext ==
  \/ \E s \in Sensors, t \in Times, v \in Values \ {Missing}, failed \in BOOLEAN : Check(s, t, v, failed)
  \/ \E s \in Sensors, t \in Times : checked # << >> /\ CheckMissing(s, t)

-----------------------------------------------------------------------------
(* For a sensor with limits that do not depend on the day of the year, and *)
(* with both ends in every row, the answer is the one the database gives   *)
(* for that observation, whatever was asked and thrown out before, unless  *)
(* the query that filled the entry failed.                                 *)
Regular(sensor) ==
  \A r \in RowsOf(sensor) : /\ \A t \in Times : DayOf(t) \in r.days
                            /\ r.named => BothEnds(r.limits)

LimitsInForce ==
  checked # << >> /\ ~checked.failed /\ Regular(checked.sensor) =>
    checked.answer = Judge(Fetched(checked.sensor, checked.time, FALSE).limits, checked.value)
=============================================================================
