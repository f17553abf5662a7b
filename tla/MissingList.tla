------------------------------- MODULE MissingList -------------------------------
(***************************************************************************)
(* The list of missing daily precipitation (src/src/missingobs): a task    *)
(* compares obs_pgm with the data, a table shows its rows, and a view goes *)
(* to the observation in the selected row.  Times are hours.               *)
(***************************************************************************)
EXTENDS Integers, SequencesExt, FiniteSets

CONSTANTS
  ObsPgm,       \* rows of obs_pgm: [station, type, hours, from, to], to may be NoTime
  Changing,     \* those of its observations that come or go while the view is used
  ManualTypes,  \* getManualTypes
  TypeChoices,  \* what comboType offers: "any", "manual" or a type, as << type >>
  EditTimes, Default,  \* times that are entered, the time span at the start
  Clicked       \* the rows that the user selects, when they are there

S == INSTANCE TimeSpans

VARIABLES
  editors,   \* timeFrom and timeTo
  choice,    \* comboType
  present,   \* the observations in the data
  asked,     \* [span, types] of the last search, << >> for none
  tasks,     \* tasks that will be done, the one of the model last
  shown,     \* mMissing
  row, last, \* the selected row, 0 for none; mLastSelectedRow
  gone,      \* what signalNavigateTo was last sent for
  busy,      \* mBusy
  early      \* whether a row was selected while a search was going on

vars == << editors, choice, present, asked, tasks, shown, row, last, gone, busy, early >>

Gaps == S!MaximumGapSet(S!MinimumGapSet(<< 0, 0 >>, 24), 72)
AnyTime == << -1000, 1000 >>
Day(t) == t \div 24

-----------------------------------------------------------------------------
(* MissingObsQuery: at 6 and 7 of all days that the time span touches *)
Times(span) == {24 * d + h : d \in Day(span[1]) .. Day(span[2]), h \in {6, 7}}
Missing(q) ==
  {o \in {[station |-> op.station, type |-> op.type, time |-> t] : op \in ObsPgm, t \in Times(q.span)} :
     /\ q.types # {} => o.type \in q.types
     /\ \E op \in ObsPgm :
          op.station = o.station /\ op.type = o.type /\ o.time % 24 \in op.hours
          /\ S!Contains(<< op.from, op.to >>, o.time)
     /\ o \notin present}
InOrder(a, b) ==
  \/ a.station < b.station
  \/ a.station = b.station /\ a.type < b.type
  \/ a.station = b.station /\ a.type = b.type /\ a.time < b.time
Rows(q) == SortSeq(FoldSet(LAMBDA o, s : Append(s, o), << >>, Missing(q)), InOrder)

Init ==
  /\ editors = Default /\ choice = "any" /\ present \in SUBSET Changing
  /\ asked = << >> /\ tasks = << >> /\ shown = << >>
  /\ row = 0 /\ last = 0 /\ gone = << >> /\ busy = FALSE /\ early = FALSE

-----------------------------------------------------------------------------
Edit(e) == e # editors /\ editors' = e
           /\ UNCHANGED << choice, present, asked, tasks, shown, row, last, gone, busy, early >>
Choose(c) == c # choice /\ choice' = c
             /\ UNCHANGED << editors, present, asked, tasks, shown, row, last, gone, busy, early >>
\* an observation arrives in the data, or is set missing there
DataChange(o) ==
  /\ present' = (IF o \in present THEN present \ {o} ELSE present \cup {o})
  /\ UNCHANGED << editors, choice, asked, tasks, shown, row, last, gone, busy, early >>

TypeIds(c) == IF c = "any" THEN {} ELSE ManualTypes

\* search: the old task is dropped, done or not
KeepTask(q) == tasks' = Append(tasks, [query |-> q, rows |-> << >>])   \* mistake: it is not
Post(q) == tasks' = << [query |-> q, rows |-> << >>] >>

(* onUpdateClicked *)
Update ==
  /\ last' = 0 /\ busy' = TRUE /\ early' = FALSE
  /\ LET q == [span |-> editors, types |-> TypeIds(choice)] IN asked' = << q >> /\ Post(q)
  /\ UNCHANGED << editors, choice, present, shown, row, gone >>

(* The handler's thread runs the query of a task; one that fails has no rows *)
Run(i, failed) ==
  /\ i \in DOMAIN tasks /\ tasks[i].rows = << >>
  /\ tasks' = [tasks EXCEPT ![i].rows = << IF failed THEN << >> ELSE Rows(tasks[i].query) >>]
  /\ UNCHANGED << editors, choice, present, asked, shown, row, last, gone, busy, early >>

(* onQueryDone, onModelReset *)
QueryDone(i) ==
  /\ i \in DOMAIN tasks /\ tasks[i].rows # << >>
  /\ shown' = tasks[i].rows[1] /\ tasks' = SubSeq(tasks, 1, i - 1)
  /\ row' = 0 /\ busy' = FALSE
  /\ UNCHANGED << editors, choice, present, asked, last, gone, early >>

(* onSelectionChanged *)
Select(r) ==
  /\ r \in DOMAIN shown /\ r # row /\ row' = r
  /\ early' = (early \/ busy)
  /\ IF r = last THEN UNCHANGED << last, gone >> ELSE last' = r /\ gone' = << shown[r] >>
  /\ UNCHANGED << editors, choice, present, asked, tasks, shown, busy >>

Next ==
  \/ \E t \in EditTimes : Edit(S!SetT0(editors, t, Gaps, AnyTime)) \/ Edit(S!SetT1(editors, t, Gaps, AnyTime))
  \/ \E c \in TypeChoices : Choose(c)
  \/ \E o \in Changing : DataChange(o)
  \/ Update
  \/ \E i \in DOMAIN tasks : QueryDone(i) \/ \E failed \in BOOLEAN : Run(i, failed)
  \/ \E r \in Clicked : Select(r)

Spec == Init /\ [][Next]_vars

-----------------------------------------------------------------------------
\* What is shown after a search belongs to that search and to no other, though
\* searches are started while the task of an earlier one is running or done.
ShownIsAsked ==
  ~busy /\ asked # << >> =>
    \A i \in DOMAIN shown :
      /\ shown[i].time \in Times(asked[1].span)
      /\ asked[1].types # {} => shown[i].type \in asked[1].types

\* If no row was selected while the search went on, the observation that was gone
\* to is the one in the selected row.
SelectedIsGoneTo == row # 0 /\ ~busy /\ ~early => gone = << shown[row] >>

\* A search looks at one to four days, however the editors were set.
DaysSearched ==
  asked # << >> => Cardinality(Times(asked[1].span)) \in 4 .. 8
=============================================================================
