------------------------------ MODULE DataListView ------------------------------
(***************************************************************************)
(* The list of related observations: AutoDataList, with the ObsPgmDataList *)
(* TimespanDataList, DataList and DynamicDataView it is derived from, and  *)
(* the user's changes to it, kept by ViewChanges per station and parameter *)
(* and put on top of what the program suggests by ChangeReplay.            *)
(*                                                                         *)
(* The columns of a new sensor come only when obs_pgm is known for it and  *)
(* its neighbours, through an ObsPgmRequest; until then the list shows the *)
(* old columns and the user may go on changing them.                       *)
(*                                                                         *)
(* A sensor is a record [station, param, level, type], a column a record   *)
(* [sensor, type, offset].                                                 *)
(***************************************************************************)
EXTENDS Navigation, SequencesExt, FiniteSets

CONSTANTS
  Obs,         \* the observations that may be navigated to: records [sensor, time]
  Neighbours,  \* of each station the sequence of its neighbours
  ObsPgm,      \* of each station the sequence of its sensors in obs_pgm
  Related,     \* table param_related: group, param, sortkey, excluded view types
  Aggregated,  \* table param_aggregated, pairs of from and to
  MaxNeighbours, \* 8
  Hours,       \* ViewChanges::defaultTimeLimits, before and after the time
  TimeSteps,   \* the steps of the menu that changes start and end
  Added,       \* the columns that the user may add: columns
  MaxEdits     \* bound on the changes by the user

VARIABLES
  nav,      \* mNavigate
  visible,  \* whether the list is visible
  list,     \* the list's own state, see Init
  request,  \* the stations that mObsPgmRequest has asked for, or << >>
  known,    \* the stations whose obs_pgm KvMetaDataBuffer has
  changes,  \* the table user_view_changes: of each station the stored changes
  edits     \* the number of changes by the user

vars == << nav, visible, list, request, known, changes, edits >>

Stations == DOMAIN ObsPgm
NoChanges == [shift |-> << 0, 0 >>, columns |-> << >>]

Init ==
  /\ nav = NavigateHelper /\ visible = TRUE
  /\ list = [store |-> NoObs,            \* mStoreST
             limits |-> << 0, 0 >>,      \* mTimeLimits
             original |-> << 0, 0 >>,    \* mOriginalTimeLimits
             columns |-> << >>,          \* mColumns
             originalColumns |-> << >>,  \* mOriginalColumns
             shown |-> << >>,            \* the table's columns, each with its time span
             reset |-> FALSE]            \* mColumnReset is enabled
  /\ request = << >> /\ known = {} /\ edits = 0
  /\ changes = [s \in Stations |-> NoChanges]

-----------------------------------------------------------------------------
(* ChangeReplay *)
Removals(original, actual) == ToSet(original) \ ToSet(actual)
ReplayAll(original, actual, removed) ==   \* mistake: the removals are not heeded
  actual \o SelectSeq(original, LAMBDA c : c \notin ToSet(actual))
Replay(original, actual, removed) ==
  actual \o SelectSeq(original, LAMBDA c : c \notin ToSet(actual) \cup removed)

HasChangedColumns(l) == l.columns # l.originalColumns

\* Column::toText and fromText: level and offset are written if they are not 0
toText(c) ==
  [station |-> c.sensor.station, param |-> c.sensor.param, typeid |-> c.sensor.type, ctype |-> c.type]
    @@ (IF c.sensor.level # 0 THEN "level" :> c.sensor.level ELSE << >>)
    @@ (IF c.offset # 0 THEN "toffset" :> c.offset ELSE << >>)
Attribute(t, a) == IF a \in DOMAIN t THEN t[a] ELSE 0
fromText(t) ==
  [sensor |-> [station |-> t.station, param |-> t.param, level |-> Attribute(t, "level"), type |-> t.typeid],
   type |-> t.ctype, offset |-> Attribute(t, "toffset")]

\* storeChangesXML of TimespanDataList and of AutoDataList
ShiftOf(l) == << l.limits[1] - l.original[1], l.limits[2] - l.original[2] >>
ColumnChangesOf(l) ==
  IF HasChangedColumns(l)
  THEN << [actual |-> [i \in DOMAIN l.columns |-> toText(l.columns[i])],
           removed |-> {toText(c) : c \in Removals(l.originalColumns, l.columns)}] >>
  ELSE << >>
ChangesOf(l) == [shift |-> ShiftOf(l), columns |-> ColumnChangesOf(l)]

\* loadChangesXML of TimespanDataList and of AutoDataList
LoadShift(l, c) == [l EXCEPT !.limits = << l.original[1] + c.shift[1], l.original[2] + c.shift[2] >>]
LoadColumns(l, c) ==
  LET cols == IF c.columns = << >> THEN Replay(l.originalColumns, << >>, {})
              ELSE LET text == c.columns[1].actual
                   IN  Replay(l.originalColumns, [i \in DOMAIN text |-> fromText(text[i])],
                              {fromText(t) : t \in c.columns[1].removed})
  IN  [l EXCEPT !.columns = cols, !.reset = cols # l.originalColumns]

(* ViewChanges and its table, one row for a station and a parameter        *)
Store(c, s, ch) == [c EXCEPT ![s] = ch]
Forget(c, s)    == [c EXCEPT ![s] = NoChanges]
Fetch(c, s)     == c[s]

\* DynamicDataView::loadChanges and storeChanges
LoadChanges(l, c) == IF c = NoChanges THEN l ELSE LoadColumns(LoadShift(l, c), c)
StoreChanges(l) ==
  LET s == l.store.sensor.station
  IN  IF ChangesOf(l) = NoChanges THEN Forget(changes, s) ELSE Store(changes, s, ChangesOf(l))

\* AutoDataList::makeColumn and updateModel
makeColumn(c, span) ==
  [sensor |-> c.sensor, span |-> span, offset |-> c.offset,
   item |-> CASE c.type = "MODEL" -> "model" [] c.type = "ORIGINAL" -> "original"
              [] c.type = "FLAGS" -> "new controlinfo" [] OTHER -> "new corrected"]
UpdateModel(l) == [l EXCEPT !.shown = [i \in DOMAIN l.columns |-> makeColumn(l.columns[i], l.limits)]]

-----------------------------------------------------------------------------
(* HqcSystemDB::relatedParameters: those of the group of the parameter,    *)
(* but for those that are excluded from this view.                         *)
relatedParameters(param) ==
  LET group == {r.group : r \in {q \in Related : q.param = param}}
      rows  == {r \in Related : r.group \in group /\ "DataList" \notin r.excluded}
      order == SetToSortSeq(rows, LAMBDA a, b : a.sortkey < b.sortkey)
  IN  [i \in DOMAIN order |-> order[i].param]

(* KvMetaDataBuffer::relatedSensors and addNeighbors, from what the        *)
(* request holds: the parameter at the station, by the first row that has  *)
(* it, or from which it is aggregated; and the parameter of the sensor at  *)
(* the neighbours.                                                         *)
Programs(station, got) == IF station \in got THEN ObsPgm[station] ELSE << >>
Rows(station, param, got) ==
  SelectSeq(Programs(station, got), LAMBDA op : op.param = param \/ << op.param, param >> \in Aggregated)
TypeFor(op, param) == IF op.param = param THEN op.type ELSE -op.type
AtStation(s, param, got) ==
  LET rows == Rows(s.station, param, got)
  IN  IF param = s.param THEN << s >>
      ELSE IF rows = << >> THEN << >> ELSE << [s EXCEPT !.param = param, !.type = TypeFor(rows[1], param)] >>
AtNeighbour(station, s, got) ==
  LET rows == Rows(station, s.param, got)
  IN  [i \in DOMAIN rows |-> [station |-> station, param |-> s.param, level |-> rows[i].level,
                              type |-> TypeFor(rows[i], s.param)]]
RelatedSensors(s, got) ==
  LET related == relatedParameters(s.param)
      params  == IF related = << >> THEN << s.param >> ELSE related
      near    == Neighbours[s.station]
      all     == FlattenSeq([i \in DOMAIN near |-> AtNeighbour(near[i], s, got)])
  IN  FlattenSeq([i \in DOMAIN params |-> AtStation(s, params[i], got)])
        \o SubSeq(all, 1, IF Len(all) < MaxNeighbours THEN Len(all) ELSE MaxNeighbours)

\* onObsPgmsComplete
ColumnsFor(s, got) ==
  LET related == RelatedSensors(s, got)
      column(r, type) == [sensor |-> r, type |-> type, offset |-> 0]
      own(r) == r.station = s.station /\ r.param = s.param
  IN  FlattenSeq([i \in DOMAIN related |->
        (IF own(related[i]) THEN << column(related[i], "ORIGINAL") >> ELSE << >>)
          \o << column(related[i], "CORRECTED") >>])

\* onObsPgmsComplete and doSensorSwitchEnd; the changes loaded are those of
\* mStoreST, the columns those of where the user is by now
SwitchEnd(l, current, got) ==
  LET cols == ColumnsFor(current.sensor, got)
      fresh == [l EXCEPT !.columns = cols, !.originalColumns = cols]
  IN  UpdateModel(LoadChanges(fresh, Fetch(changes, l.store.sensor.station)))

InSpan(span, t) == span[1] <= t /\ t <= span[2]
SensorSwitch(st) == IF list.store # NoObs /\ list.store.sensor = st.sensor
                       /\ InSpan(list.limits, st.time) THEN list.store ELSE st
StationIds(st) == {st.sensor.station} \cup ToSet(Neighbours[st.sensor.station])

\* DynamicDataView::doNavigateTo and ObsPgmDataList::doSensorSwitch
DoNavigateTo(st) ==
  LET span == << st.time - Hours, st.time + Hours >>
      switched == [list EXCEPT !.store = st, !.limits = span, !.original = span]
  IN  IF SensorSwitch(st) = list.store /\ list.store # NoObs THEN UNCHANGED << list, request >>
      ELSE IF StationIds(st) \subseteq known
        THEN list' = SwitchEnd(switched, st, StationIds(st)) /\ request' = << >>
        ELSE list' = switched /\ request' = << StationIds(st) >>

(* ObsPgmRequest::onTaskDone; a query that failed brings no rows *)
ObsPgmsComplete(failed) ==
  /\ request # << >>
  /\ LET got == IF failed THEN request[1] \cap known ELSE request[1]
     IN  /\ known' = known \cup got
         /\ list' = SwitchEnd(list, nav.last, got)
  /\ request' = << >>
  /\ UNCHANGED << nav, visible, changes, edits >>

-----------------------------------------------------------------------------
(* AbstractDataView::navigateTo; own: through sendNavigateTo, by a click in *)
(* a column of the list (onCurrentChanged)                                  *)
NavigateTo(st, own) ==
  /\ own => visible /\ \E i \in DOMAIN list.columns : list.columns[i].sensor = st.sensor
  /\ nav' = Navigated(nav, st, own)
  /\ IF Navigates(nav, st, own) THEN DoNavigateTo(st) ELSE UNCHANGED << list, request >>
  /\ UNCHANGED << visible, known, changes, edits >>

Visibility ==
  /\ visible' = ~visible
  /\ IF visible THEN nav' = Hide(nav) /\ UNCHANGED << list, request >>
     ELSE /\ nav' = Show(nav)
          /\ IF ShowNavigates(nav) THEN DoNavigateTo(nav.last) ELSE UNCHANGED << list, request >>
  /\ UNCHANGED << known, changes, edits >>

\* Each change ends with storeChanges, for mStoreST.
Edit(l) ==
  /\ visible /\ list.store # NoObs /\ edits < MaxEdits /\ edits' = edits + 1
  /\ list' = l /\ changes' = StoreChanges(l)
  /\ UNCHANGED << nav, visible, request, known >>

\* onChangeStart and onChangeEnd: an end that is passed is pushed on
ChangeStart(step) ==
  LET t0 == list.limits[1] + step
      t1 == IF t0 >= list.limits[2] THEN t0 + step ELSE list.limits[2]
  IN  Edit(UpdateModel([list EXCEPT !.limits = << t0, t1 >>]))
ChangeEnd(step) ==
  LET t1 == list.limits[2] + step
      t0 == IF t1 <= list.limits[1] THEN t1 + step ELSE list.limits[1]
  IN  Edit(UpdateModel([list EXCEPT !.limits = << t0, t1 >>]))
ResetTime ==
  /\ list.limits # list.original
  /\ Edit(UpdateModel([list EXCEPT !.limits = list.original]))

AddColumnBefore(i, c) ==
  Edit([list EXCEPT !.columns = InsertAt(@, i, c), !.reset = TRUE,
                    !.shown = InsertAt(@, i, makeColumn(c, list.limits))])
RemoveColumn(i) ==
  Edit([list EXCEPT !.columns = RemoveAt(@, i), !.reset = TRUE, !.shown = RemoveAt(@, i)])
Moved(s, from, to) == InsertAt(RemoveAt(s, from), to, s[from])
MoveColumn(from, to) ==
  /\ from # to
  /\ Edit([list EXCEPT !.columns = Moved(@, from, to), !.reset = TRUE,
                       !.shown = Moved(@, from, to)])
ResetColumns ==
  /\ list.reset
  /\ Edit([UpdateModel([list EXCEPT !.columns = list.originalColumns]) EXCEPT !.reset = FALSE])

Next ==
  \/ \E st \in Obs, own \in BOOLEAN : NavigateTo(st, own)
  \/ Visibility
  \/ \E failed \in BOOLEAN : ObsPgmsComplete(failed)
  \/ \E step \in TimeSteps : ChangeStart(step) \/ ChangeEnd(step)
  \/ ResetTime \/ ResetColumns
  \/ \E c \in Added, i \in 1 .. Len(list.columns) + 1 : AddColumnBefore(i, c)
  \/ \E i \in DOMAIN list.columns : RemoveColumn(i)
  \/ \E i, j \in DOMAIN list.columns : MoveColumn(i, j)

Spec == Init /\ [][Next]_vars

-----------------------------------------------------------------------------
Loaded == request = << >> /\ list.store # NoObs

\* What a user arranged for a station comes back: when the list is loaded,
\* replaying the stored changes on what is suggested gives what it shows,
\* whatever was changed while columns were waited for, and whichever other
\* sensors were looked at since.
ArrangementKept ==
  Loaded => LET fresh == [list EXCEPT !.limits = list.original, !.columns = list.originalColumns]
                again == LoadChanges(fresh, Fetch(changes, list.store.sensor.station))
            IN  again.columns = list.columns /\ again.limits = list.limits

\* The table shows exactly the columns of the list, every one for the time
\* span of the list: none keeps the span it was made for before.
TableShowsList ==
  Loaded => list.shown = [i \in DOMAIN list.columns |-> makeColumn(list.columns[i], list.limits)]

\* Changed columns can always be reset, also those that were stored before.
ResetOffered == Loaded /\ HasChangedColumns(list) => list.reset

\* The list is of where the user is, unless a click in it led there; also
\* after it was hidden, and with a query that was overtaken by another.
ListFollows ==
  visible /\ ~nav.changed /\ nav.last # NoObs => list.store.sensor = nav.last.sensor
=============================================================================
