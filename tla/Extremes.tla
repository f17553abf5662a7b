-------------------------------- MODULE Extremes --------------------------------
(***************************************************************************)
(* The list of extreme values (src/src/extremes): a query with a filter    *)
(* for the stations with the most extreme values of a group of parameters, *)
(* a buffer sorted by value, a table of what is in it, and a view that     *)
(* goes to the observation in the selected row.  An observation is the     *)
(* number of its SensorTime in lt_SensorTime.                              *)
(***************************************************************************)
EXTENDS SortedBuffer, FiniteSets

CONSTANTS
  Ids, StationOf, ParamOf, TimeOf,   \* the observations
  GroupOf,    \* the parameters that are searched for one of comboParam
  Maximum,    \* those of comboParam whose extreme is the maximum
  Special,    \* of each parameter the values that say something else
  Excluded,   \* stations that are not searched
  Values,     \* corrected values
  Untrusted,  \* observations whose useinfo excludes them, before and after edits
  Count,      \* mExtremesCount
  EditTimes, Default   \* times that are entered, the time span at the start

S == INSTANCE TimeSpans

VARIABLES
  editors,   \* timeFrom and timeTo
  value,     \* the corrected value of each observation that exists
  query,     \* [param, span, waiting] of mBuffer, waiting for the answer of its request
  answer,    \* what the query returned, and still exists
  data,      \* mData of mBuffer
  shown,     \* mCountShown
  row, last, \* the selected row, 0 for none; mLastSelectedRow
  gone,      \* what signalNavigateTo was last sent for, 0 for nothing
  busy,      \* mBusy
  changed    \* whether the rows changed after the last navigation or search

vars == << editors, value, query, answer, data, shown, row, last, gone, busy, changed >>

Gaps == S!MaximumGapSet(S!MinimumGapSet(<< 0, 0 >>, 8), 96)
AnyTime == << -1000, 1000 >>

-----------------------------------------------------------------------------
(* ExtremesFilter *)
Accept(id, p) ==   \* afterSQL is false
  /\ StationOf[id] \notin Excluded /\ ParamOf[id] \in GroupOf[p]
  /\ id \notin Untrusted /\ value[id] \notin Special[ParamOf[id]]

\* acceptingSqlExtraTables: of each station the extreme, of these the first Count
Candidates(p, span) ==
  {id \in DOMAIN value : Accept(id, p) /\ S!Contains(span, TimeOf[id])}
Better(p, v, w) == IF p \in Maximum THEN v > w ELSE v < w
Extreme(p, ids) == CHOOSE v \in {value[id] : id \in ids} : \A id \in ids : ~Better(p, value[id], v)
ExtremeOf(p, span, s) == Extreme(p, {id \in Candidates(p, span) : StationOf[id] = s})
Selections(p, span) ==
  LET stations == {StationOf[id] : id \in Candidates(p, span)}
      size == IF Cardinality(stations) <= Count THEN Cardinality(stations) ELSE Count
  IN  {chosen \in SUBSET stations :
         /\ Cardinality(chosen) = size
         /\ \A s \in chosen : \A t \in stations \ chosen :
              ~Better(p, ExtremeOf(p, span, t), ExtremeOf(p, span, s))}

\* acceptingSql: of these stations what has the extreme value, not looking at useinfo
Answer(p, span, stations) ==
  {id \in DOMAIN value :
     /\ StationOf[id] \in stations /\ ParamOf[id] \in GroupOf[p] /\ S!Contains(span, TimeOf[id])
     /\ value[id] = ExtremeOf(p, span, StationOf[id])}

-----------------------------------------------------------------------------
(* CorrectedOrdering, and the buffer with it *)
Sign(p, o) == [id |-> o.id, value |-> IF p \in Maximum THEN 0 - o.value ELSE o.value]
Signed(p, s) == [i \in DOMAIN s |-> Sign(p, s[i])]
Kept(p, d, batch, new) ==
  LET signed == Signed(p, d)  told == Signed(p, batch)
  IN  Signed(p, IF new THEN OnNewData(signed, told, FALSE) ELSE OnUpdateData(signed, told, FALSE))
Obs(ids) == [i \in 1 .. Cardinality(ids) |->
               [id |-> SetToSortSeq(ids, <)[i], value |-> value[SetToSortSeq(ids, <)[i]]]]

\* onBufferChangeBegin, onBufferChangeEnd, onModelReset
RowsChanged ==
  /\ shown' = Len(data') /\ row' = 0 /\ busy' = FALSE /\ changed' = TRUE
  /\ UNCHANGED << last, gone, editors >>

Init ==
  /\ editors = Default /\ value \in [Ids -> Values]
  /\ query = [param |-> 0, span |-> Default, waiting |-> FALSE] /\ answer = {}
  /\ data = << >> /\ shown = 0 /\ row = 0 /\ last = 0 /\ gone = 0 /\ busy = FALSE /\ changed = FALSE

Edit(e) == e # editors /\ editors' = e
           /\ UNCHANGED << value, query, answer, data, shown, row, last, gone, busy, changed >>

(* onUpdateClicked, search: the model is not reset *)
Search(p) ==
  /\ last' = 0 /\ busy' = TRUE /\ changed' = FALSE
  /\ query' = [param |-> p, span |-> editors, waiting |-> TRUE]
  /\ answer' = {} /\ data' = << >>
  /\ UNCHANGED << editors, value, shown, row, gone >>

(* onNewData with the answer; no answer, no signal *)
Answered ==
  /\ query.waiting /\ query' = [query EXCEPT !.waiting = FALSE]
  /\ \E stations \in Selections(query.param, query.span) :
       answer' = Answer(query.param, query.span, stations)
  /\ UNCHANGED value
  /\ IF answer' = {} THEN UNCHANGED << editors, data, shown, row, last, gone, busy, changed >>
     ELSE data' = Kept(query.param, data, Obs(answer'), TRUE) /\ RowsChanged

\* an update is sent to every request whose time span it is in, since the
\* request's sensors are one invalid sensor; the filter is not asked
Reaches(id) == query.param # 0 /\ S!Contains(query.span, TimeOf[id])
Correct(id, v) ==
  /\ id \in DOMAIN value /\ v # value[id]
  /\ value' = [value EXCEPT ![id] = v] /\ UNCHANGED << query, answer >>
  /\ IF Reaches(id) THEN data' = Kept(query.param, data, << [id |-> id, value |-> v] >>, FALSE) /\ RowsChanged
     ELSE UNCHANGED << editors, data, shown, row, last, gone, busy, changed >>

(* The creation of an observation is undone: onDropData may not find it *)
Drop(id) ==
  /\ id \in DOMAIN value /\ Cardinality(DOMAIN value) > 1
  /\ value' = [i \in DOMAIN value \ {id} |-> value[i]]
  /\ answer' = answer \ {id} /\ UNCHANGED query
  /\ IF Reaches(id)
     THEN data' = OnDropData(data, << id >>) /\ RowsChanged
     ELSE UNCHANGED << editors, data, shown, row, last, gone, busy, changed >>

(* onSelectionChanged; rowCount is 0 until the new buffer has data *)
RowCount == IF shown < Len(data) THEN shown ELSE Len(data)
Select(r) ==
  /\ r \in 1 .. RowCount /\ r # row /\ row' = r
  /\ IF r = last THEN UNCHANGED << last, gone, changed >>
     ELSE last' = r /\ gone' = data[r].id /\ changed' = FALSE
  /\ UNCHANGED << editors, value, query, answer, data, shown, busy >>

Next ==
  \/ \E t \in EditTimes : Edit(S!SetT0(editors, t, Gaps, AnyTime)) \/ Edit(S!SetT1(editors, t, Gaps, AnyTime))
  \/ \E p \in DOMAIN GroupOf : Search(p)
  \/ Answered
  \/ \E id \in Ids : Drop(id) \/ \E v \in Values : Correct(id, v)
  \/ \E r \in 1 .. Cardinality(Ids) : Select(r)

Spec == Init /\ [][Next]_vars

-----------------------------------------------------------------------------
\* No extreme that the search found is lost from the list, each observation is
\* in it once and with its value of now, and what is shown is all of it.
ExtremesKept ==
  /\ \A id \in answer : [id |-> id, value |-> value[id]] \in ToSet(data)
  /\ \A i, j \in DOMAIN data : data[i].id = data[j].id => i = j
  /\ \A i \in DOMAIN data : data[i].id \in DOMAIN value => data[i].value = value[data[i].id]
  /\ ~query.waiting /\ data # << >> => shown = Len(data) /\ ~busy

\* As long as the rows do not change below the user, the observation that was
\* gone to is the one in the selected row.
SelectedIsGoneTo == row # 0 /\ data # << >> /\ ~changed => gone = data[row].id

\* The gap between the editors is one that a search may have.
SearchGap == query.param # 0 => S!GapKept(query.span, Gaps)
=============================================================================
