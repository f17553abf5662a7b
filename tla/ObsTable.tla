-------------------------------- MODULE ObsTable --------------------------------
(***************************************************************************)
(* The table of a data list: ObsTableModel and DataListModel with their    *)
(* DataColumns, each of which fills a TimeBuffer with the answers to a     *)
(* request of its own, and the selection that DataList keeps in the table. *)
(*                                                                         *)
(* The rows are the times of the observations, or, with a time step and    *)
(* without the filter, the times of a grid on the time span.  A reset of   *)
(* the model clears the selection of the table.                            *)
(***************************************************************************)
EXTENDS Integers, Sequences, FiniteSets

CONSTANTS
  Sensors,     \* the sensors that columns are made for
  Times,       \* the times of observations
  Spans,       \* the time spans that may be set, as << t0, t1 >>
  Steps,       \* the time steps that the user may choose, 0 for none
  DayStart,    \* the hour that the rows of the grid start from, 6 UTC
  MaxColumns   \* bound on the number of columns

VARIABLES
  columns,   \* mColumns, see NewColumn
  table,     \* the model's own state, see Init
  current,   \* mNavigate.current() of the list
  selected,  \* whether the cells of the current observation are selected
  loose      \* history: a reset was not followed by a selection of the current

vars == << columns, table, current, selected, loose >>

\* mRequestBusy, the times in mBuffer, and those it had when it was completed
NewColumn(s) == [sensor |-> s, busy |-> TRUE, times |-> {}, brought |-> {}]

Init ==
  /\ columns = << >>
  /\ table = [span |-> << 0, 0 >>, step |-> 0, filter |-> TRUE,
              time0 |-> 0, count |-> 0, seen |-> {}, busy |-> FALSE]
  /\ current \in Sensors \X Times
  /\ selected = FALSE /\ loose = FALSE

-----------------------------------------------------------------------------
(* ObsTableModel::updateTimes and DataListModel::updateTimes; seen is      *)
(* mTimes before the filter.                                               *)
CountWithoutRest(len, step, r) == 1 + len \div step   \* mistake: the first row is not counted
Count(len, step, r) == 1 + len \div step + (IF r # 0 THEN 1 ELSE 0)
UpdateTimes(t, cols) ==
  LET r   == (t.span[1] - DayStart) % t.step
      all == [t EXCEPT !.seen = UNION {cols[i].times : i \in DOMAIN cols}]
  IN  IF t.step > 0
      THEN [all EXCEPT !.time0 = t.span[1] - r,
                       !.count = Count(t.span[2] - t.span[1], t.step, r)]
      ELSE [all EXCEPT !.count = 0]

Grid(t) == t.step > 0 /\ ~t.filter
OnGrid(t, time) == (time - t.time0) % t.step = 0
Filtered(t) == IF t.step > 0 /\ t.filter THEN {x \in t.seen : OnGrid(t, x)} ELSE t.seen

\* timeAtRow and rowAtTime
RowTimes(t) == IF Grid(t) THEN {t.time0 + (r - 1) * t.step : r \in 1 .. t.count} ELSE Filtered(t)
HasRow(t, time) == time \in RowTimes(t)

\* countBusyColumns
AnyBusy(cols) == \E i \in DOMAIN cols : cols[i].busy

\* DataListModel::findIndexes and DataList::selectCurrent
Found(t, cols, o) == HasRow(t, o[2]) /\ \E i \in DOMAIN cols : cols[i].sensor = o[1]

-----------------------------------------------------------------------------
(* DataList::doNavigateTo, with the columns of DynamicDataView: all are    *)
(* removed and new ones attached.  cached: CachingAccess has all the data  *)
(* of the time span and completes each request before postRequest returns. *)
Load(span, sensors, cached, o) ==
  LET times == {x \in Times : span[1] <= x /\ x <= span[2]}
      fresh(s) == IF cached THEN [NewColumn(s) EXCEPT !.busy = FALSE, !.times = times,
                                                      !.brought = times]
                  ELSE NewColumn(s)
      cols == [i \in DOMAIN sensors |-> fresh(sensors[i])]
      t == [UpdateTimes([table EXCEPT !.span = span], cols) EXCEPT !.busy = AnyBusy(cols)]
  IN  /\ current' = o /\ columns' = cols /\ table' = t
      /\ selected' = Found(t, cols, o) /\ loose' = FALSE

\* DataList::onCurrentChanged; the cell is an observation in the row of its time
Click(i, time) ==
  /\ i \in DOMAIN columns /\ HasRow(table, time)
  /\ current' = << columns[i].sensor, time >> /\ selected' = TRUE /\ loose' = FALSE
  /\ UNCHANGED << columns, table >>

\* AbstractDataView::navigateTo within the span: reselectCurrent
Navigate(o) ==
  /\ o # current /\ current' = o
  /\ selected' = Found(table, columns, o)
  /\ loose' = FALSE
  /\ UNCHANGED << columns, table >>

(* DataColumn::onBufferCompleted: first the times of the column, which     *)
(* reset the model, then the end of its request; when it was the last one, *)
(* the list selects the current observation again (onBusyStatus).          *)
Completed(i, times) ==
  LET cols == [columns EXCEPT ![i].times = @ \cup times, ![i].brought = @ \cup times,
                              ![i].busy = FALSE]
      t == [UpdateTimes(table, cols) EXCEPT !.busy = AnyBusy(cols)]
  IN  /\ columns' = cols /\ table' = t
      /\ selected' = (table.busy # t.busy /\ Found(t, cols, current))
BufferCompleted(i, times) ==
  /\ i \in DOMAIN columns /\ columns[i].busy
  /\ Completed(i, times)
  /\ loose' = (loose /\ AnyBusy(columns'))
  /\ UNCHANGED current

(* New and dropped observations after that change cells, but no rows.      *)
NewData(i, time) ==
  /\ i \in DOMAIN columns /\ ~columns[i].busy /\ time \notin columns[i].times
  /\ columns' = [columns EXCEPT ![i].times = @ \cup {time}]
  /\ UNCHANGED << table, current, selected, loose >>
DropData(i, time) ==
  /\ i \in DOMAIN columns /\ time \in columns[i].times
  /\ columns' = [columns EXCEPT ![i].times = @ \ {time}, ![i].brought = @ \ {time}]
  /\ UNCHANGED << table, current, selected, loose >>

-----------------------------------------------------------------------------
(* insertColumn, moveColumn, removeColumn by the user: each ends with      *)
(* onColumnTimesChanged.                                                   *)
Shape(cols) ==
  /\ columns' = cols
  /\ table' = [UpdateTimes(table, cols) EXCEPT !.busy = AnyBusy(cols)]
  /\ selected' = FALSE /\ loose' = TRUE /\ UNCHANGED current

InsertColumn(before, s) ==
  /\ Len(columns) < MaxColumns
  /\ Shape(SubSeq(columns, 1, before - 1) \o << NewColumn(s) >>
             \o SubSeq(columns, before, Len(columns)))
Without(at) == SubSeq(columns, 1, at - 1) \o SubSeq(columns, at + 1, Len(columns))
RemoveColumn(at) == Shape(Without(at))
MoveColumn(from, to) ==
  /\ from # to
  /\ Shape(SubSeq(Without(from), 1, to - 1) \o << columns[from] >>
             \o SubSeq(Without(from), to, Len(columns) - 1))

\* a reset without a change of columns
Reset(t) ==
  /\ table' = UpdateTimes(t, columns)
  /\ selected' = FALSE /\ loose' = TRUE /\ UNCHANGED << columns, current >>
SetTimeStep(step) == table.step # step /\ Reset([table EXCEPT !.step = step])
SetFilterByTimestep(on) == table.filter # on /\ Reset([table EXCEPT !.filter = on])
SetTimeInRows == selected' = FALSE /\ loose' = TRUE /\ UNCHANGED << columns, table, current >>

Next ==
  \/ \E sensors \in [1 .. MaxColumns -> Sensors], span \in Spans, cached \in BOOLEAN,
       i \in 1 .. MaxColumns, time \in Times : Load(span, sensors, cached, << sensors[i], time >>)
  \/ \E i \in DOMAIN columns, time \in Times : Click(i, time) \/ NewData(i, time) \/ DropData(i, time)
  \/ \E o \in Sensors \X Times : Navigate(o)
  \/ \E i \in DOMAIN columns, times \in SUBSET Times : BufferCompleted(i, times)
  \/ \E s \in Sensors, i \in 1 .. Len(columns) + 1 : InsertColumn(i, s)
  \/ \E i \in DOMAIN columns : RemoveColumn(i) \/ \E j \in DOMAIN columns : MoveColumn(i, j)
  \/ \E step \in Steps : SetTimeStep(step)
  \/ \E on \in BOOLEAN : SetFilterByTimestep(on)
  \/ SetTimeInRows

Spec == Init /\ [][Next]_vars

-----------------------------------------------------------------------------
\* The list knows whether it waits for a column, and every observation that a
\* request brought is among the times of the rows, in whatever order requests
\* end while columns are added, moved and removed.
BroughtIsSeen ==
  /\ table.busy = AnyBusy(columns)
  /\ \A i \in DOMAIN columns : ~columns[i].busy => columns[i].brought \subseteq table.seen

\* Turning the filter off hides no observation of the time span: the grid has
\* a row for every time that the filter lets through.
GridCovers ==
  table.step > 0 =>
    \A x \in Filtered([table EXCEPT !.filter = TRUE]) :
      table.span[1] <= x /\ x <= table.span[2] => HasRow([table EXCEPT !.filter = FALSE], x)

\* When the last column came in, the current observation is selected again,
\* unless the user has reshaped the table since.
CurrentSelected == ~table.busy /\ ~loose /\ Found(table, columns, current) => selected
=============================================================================
