------------------------------ MODULE SensorChooser ------------------------------
(***************************************************************************)
(* SensorChooser: a line for the station and boxes for parameter, type,    *)
(* level and sensor number, each filled by the choice in the one before.   *)
(* It is part of the dialogs that add a column or a plot, and of the one   *)
(* that jumps to an observation.  An edit of the station fetches obs_pgm   *)
(* in a nested event loop that holds user input back, and may fail to.     *)
(***************************************************************************)
EXTENDS Integers, Sequences, FiniteSetsExt

CONSTANTS
  Texts,            \* numbers in the line; 0 stands for what is no number
  KnownStations,    \* of the table of stations
  ObsPgm,           \* of stations: rows of param, type, level, sensors
  Aggregated,       \* table of aggregated parameters, pairs of from and to
  Hidden,           \* V4S, V5S, V6S
  Navigations,      \* observations the dialog is set to: station, param, type, level, nr
  Existing          \* observations that exist

VARIABLES
  chooser,          \* the widgets, the preferred choice, and valid as it was last reported
  fetched,          \* stations obs_pgm has been fetched of
  jumped            \* the observation of the last signalNavigateTo


(* HqcSystemDB::aggregatedParameters, from a parameter.                    *)
AggregatedTo(p) == {a[2] : a \in {b \in Aggregated : b[1] = p}}

Nothing == [station |-> 0, param |-> -1, type |-> 0, level |-> 0, nr |-> 0]

Init ==
  /\ chooser = [text |-> 0, preferred |-> Nothing, params |-> {}, param |-> -1,
                types |-> {}, type |-> 0, levels |-> {}, level |-> 0, nr |-> 0, good |-> FALSE]
  /\ fetched = {}
  /\ jumped = Nothing

Preferred(c) == c.preferred # Nothing
RowsIn(stations, s) == IF s \in stations \cap DOMAIN ObsPgm THEN ObsPgm[s] ELSE {}
Rows == RowsIn(fetched, chooser.text)

(* The box keeps what is in the new list, and shows the first otherwise.   *)
Choice(wanted, list, none) ==
  IF wanted \in list THEN wanted ELSE IF list = {} THEN none ELSE Min(list)

Measures(row, param, type) ==
  \/ row.param = param /\ row.type = type
  \/ param \in AggregatedTo(row.param) /\ row.type = -type

-----------------------------------------------------------------------------
(* onLevelSelected: the number of the sensor is kept if the level has it.  *)
Good(c) == c.text >= 60 /\ c.param >= 0 /\ c.type # 0
MaxSensor(c, level, rows) ==
  IF ~Good(c) THEN 0
  ELSE Max({0} \cup {r.sensors - 1 : r \in {q \in rows : q.level = level /\ Measures(q, c.param, c.type)}})
LevelSelected(c, level, rows) ==
  [c EXCEPT !.level = level, !.nr = IF @ <= MaxSensor(c, level, rows) THEN @ ELSE 0, !.good = Good(c)]

(* onTypeSelected: the box of levels always has level 0, and shows it      *)
(* while it is filled.                                                     *)
TypeSelected(c, type, rows) ==
  LET d == [c EXCEPT !.type = type]
      levels == IF Good(d) THEN {r.level : r \in {q \in rows : Measures(q, d.param, type)}} ELSE {}
      level  == Choice(c.level, levels \cup {0}, 0)
  IN LevelSelected(LevelSelected([d EXCEPT !.levels = levels \cup {0}], 0, rows), level, rows)

(* onParameterSelected *)
TypesOf(param, rows) ==
  {r.type : r \in {q \in rows : q.param = param}}
    \cup {-r.type : r \in {q \in rows : param \in AggregatedTo(q.param)}}
ParameterSelected(c, param, rows) ==
  LET types == IF param >= 0 THEN TypesOf(param, rows) ELSE {}
      type  == IF Preferred(c) THEN c.preferred.type ELSE c.type
  IN TypeSelected([c EXCEPT !.param = param, !.types = types], Choice(type, types, 0), rows)

(* onStationEdited *)
ParamsOf(rows) ==
  LET shown == {r \in rows : r.param \notin Hidden}
  IN {r.param : r \in shown} \cup UNION {AggregatedTo(r.param) : r \in shown}
StationEdited(c, station, known) ==
  LET params == ParamsOf(RowsIn(known, station))
      param  == IF Preferred(c) THEN c.preferred.param ELSE c.param
  IN ParameterSelected([c EXCEPT !.params = params], Choice(param, params, -1), RowsIn(known, station))

(* The rest of setSensor, after the station was put in the line.           *)
SensorSet(c, s, known) ==
  LET rows  == RowsIn(known, c.text)
      par   == ParameterSelected(c, Choice(s.param, c.params, -1), rows)
      typ   == TypeSelected(par, Choice(s.type, par.types, 0), rows)
      level == LevelSelected(typ, IF s.level \in typ.levels THEN s.level ELSE typ.level, rows)
      all   == [level EXCEPT !.nr = IF s.nr <= MaxSensor(level, level.level, rows) THEN s.nr ELSE @]
  IN StationEdited(all, c.text, known)

-----------------------------------------------------------------------------
(* The line changes, and with it what is in the boxes; setSensor sets the  *)
(* rest.  Rows that were fetched are kept.                                 *)
Lookup(station, fails) ==
  fetched' = IF station \in KnownStations /\ ~fails THEN fetched \cup {station} ELSE fetched
Edited(c) == IF c.text # chooser.text THEN StationEdited(c, c.text, fetched') ELSE c

EditStation(text, fails) ==
  /\ text # chooser.text
  /\ Lookup(text, fails)
  /\ chooser' = Edited([chooser EXCEPT !.text = text])
  /\ UNCHANGED jumped

(* setSensorTime has a time and is preferred from then on; setSensor of    *)
(* the dialogs that add something is not.                                  *)
SetSensorTime(st, fails) ==
  /\ Lookup(st.station, fails)
  /\ chooser' = SensorSet(Edited([chooser EXCEPT !.text = st.station, !.preferred = st]), st, fetched')
  /\ UNCHANGED jumped

SetSensor(s, fails) ==
  /\ chooser.preferred = Nothing
  /\ Lookup(s.station, fails)
  /\ chooser' = SensorSet(Edited([chooser EXCEPT !.text = s.station]), s, fetched')
  /\ UNCHANGED jumped

SelectParameter(p) ==
  /\ p \in chooser.params \ {chooser.param}
  /\ chooser' = ParameterSelected(chooser, p, Rows)
  /\ UNCHANGED << fetched, jumped >>
SelectType(t) ==
  /\ t \in chooser.types \ {chooser.type}
  /\ chooser' = TypeSelected(chooser, t, Rows)
  /\ UNCHANGED << fetched, jumped >>
SelectLevel(l) ==
  /\ l \in chooser.levels \ {chooser.level}
  /\ chooser' = LevelSelected(chooser, l, Rows)
  /\ UNCHANGED << fetched, jumped >>
SelectNr(n) ==
  /\ n # chooser.nr
  /\ n <= MaxSensor(chooser, chooser.level, Rows)
  /\ chooser' = [chooser EXCEPT !.nr = n]
  /\ UNCHANGED << fetched, jumped >>

(* accept of JumpToObservation: only to an observation that is found.      *)
Chosen == [station |-> chooser.text, param |-> chooser.param, type |-> chooser.type,
           level |-> chooser.level, nr |-> chooser.nr]
Jump ==
  /\ chooser.good
  /\ Chosen \in Existing /\ jumped # Chosen
  /\ jumped' = Chosen
  /\ UNCHANGED << chooser, fetched >>

Next ==
  \/ \E t \in Texts, fails \in BOOLEAN : EditStation(t, fails)
  \/ \E st \in Navigations, fails \in BOOLEAN : SetSensorTime(st, fails)
  \/ \E st \in Navigations, fails \in BOOLEAN : SetSensor(st, fails)
  \/ \E p \in chooser.params : SelectParameter(p)
  \/ \E t \in chooser.types : SelectType(t)
  \/ \E l \in chooser.levels : SelectLevel(l)
  \/ \E n \in 0 .. 2 : SelectNr(n)
  \/ Jump

-----------------------------------------------------------------------------
(* What the dialogs accept is measured at the station in the line, at that *)
(* level unless it is 0, and by as many sensors, in whatever order the     *)
(* line and the boxes were changed, and set from outside; and the box of   *)
(* parameters is the one of the station, or empty where there is none.     *)
ChoiceExists ==
  /\ chooser.good =>
       \E r \in RowsIn(DOMAIN ObsPgm, chooser.text) :
         /\ Measures(r, chooser.param, chooser.type)
         /\ r.level = chooser.level \/ chooser.level = 0
         /\ chooser.nr < r.sensors \/ chooser.nr = 0
  /\ chooser.params \subseteq ParamsOf(RowsIn(DOMAIN ObsPgm, chooser.text))
=============================================================================
