--------------------------------- MODULE MCViews ---------------------------------
(***************************************************************************)
(* Four machines of a search window in one run: the navigation between its *)
(* views, the list with its columns, the table of a list, and the plot of  *)
(* time series.  They share no state here; part says which one a behaviour *)
(* is of, and what it does not use is << >>.                               *)
(***************************************************************************)
EXTENDS Integers, Sequences

CONSTANT NoObs

VARIABLES
  part,
  window, view, tab, history, selected, hist, rr, listed, ids, settings,    \* SearchWindow
  nav, visible, request, known, list, changes, edits,        \* DataListView
  columns, table, current, loose,                            \* ObsTable
  plot, edited                                               \* TimeSeries

-----------------------------------------------------------------------------
A1 == [station |-> 1, type |-> 1]
A2 == [station |-> 1, type |-> 2]
B1 == [station |-> 2, type |-> 1]
O(s, t) == [sensor |-> s, time |-> t]

WindowObs == {O("a", 1), O("a", 2), O("r", 1)}
W == INSTANCE SearchWindow WITH
       Views <- {"related", "station"}, Obs <- WindowObs, RR24Obs <- {O("r", 1)},
       Existing <- WindowObs \ {O("a", 2)}, Recent <- << O("r", 1) >>,
       Others <- {<< O("a", 2) >>}, Ids <- {0, 1}, MaximumSize <- 2

\* What the theorems of SearchWindowProofs assume of the constants.
ASSUME WindowAssumption == W!WindowConstants

Sen(station, param, level, type) == [station |-> station, param |-> param, level |-> level, type |-> type]
Wind == Sen(1, 81, 0, 1)
Gust == Sen(2, 83, 0, 1)
Rel(param, sortkey, excluded) == [group |-> 1, param |-> param, sortkey |-> sortkey, excluded |-> excluded]
L == INSTANCE DataListView WITH
       Obs <- {O(Wind, 0), O(Wind, 5), O(Gust, 0)}, Neighbours <- << << 2 >>, << >> >>,
       ObsPgm <- << << Wind, Sen(1, 90, 0, 2) >>, << Gust, Sen(2, 81, 2, 1), Sen(2, 81, 0, 3) >> >>,
       Related <- {Rel(81, 2, {}), Rel(83, 1, {}), Rel(84, 3, {"DataList"})},
       Aggregated <- {<< 90, 83 >>}, MaxNeighbours <- 1, Hours <- 2, TimeSteps <- {-4, 3},
       Added <- {[sensor |-> Sen(2, 81, 2, 1), type |-> "FLAGS", offset |-> -3]}, MaxEdits <- 1

T == INSTANCE ObsTable WITH
       Sensors <- {"s1", "s2"}, Times <- {4, 6}, Spans <- {<< 1, 6 >>}, Steps <- {0, 2},
       DayStart <- 0, MaxColumns <- 2

S == INSTANCE TimeSeries WITH
       Obs <- {O(A1, 0), O(A1, 8), O(B1, 3)}, Neighbours <- << << 2 >>, << 1 >> >>,
       LinesOf <- << << A1, A2 >>, << B1 >> >>, Hours <- 2, Gaps <- << 2, 8 >>,
       EditTimes <- {1, 4, 12}, EditRange <- << -1000, 1000 >>,
       Added <- {[station |-> 3, type |-> 1]}, MaxLines <- 2

\* What the theorem of TimeSeriesProofs assumes of the constants.
ASSUME PlotAssumption == S!PlotConstants

-----------------------------------------------------------------------------
vars == << part, window, view, tab, history, selected, hist, rr, listed, ids, settings, nav, visible, request,
           known, list, changes, edits, columns, table, current, loose, plot, edited >>
no == << >>

NoWindow  == window = no /\ view = no /\ tab = no /\ history = no /\ hist = no /\ rr = no /\ listed = no
             /\ ids = no /\ settings = no
NoVisible == nav = no /\ visible = no /\ request = no /\ known = no
NoList    == list = no /\ changes = no /\ edits = no
NoTable   == columns = no /\ table = no /\ current = no /\ loose = no
NoPlot    == plot = no /\ edited = no

Init ==
  \/ part = "window" /\ W!Init /\ NoVisible /\ NoList /\ NoTable /\ NoPlot
  \/ part = "list" /\ L!Init /\ NoWindow /\ selected = no /\ NoTable /\ NoPlot
  \/ part = "table" /\ T!Init /\ NoWindow /\ NoVisible /\ NoList /\ NoPlot
  \/ part = "plot" /\ S!Init /\ NoWindow /\ selected = no /\ NoList /\ NoTable

KeepWindow  == UNCHANGED << window, view, tab, history, hist, rr, listed, ids, settings >>
KeepVisible == UNCHANGED << nav, visible, request, known >>
KeepList    == UNCHANGED << list, changes, edits >>
KeepTable   == UNCHANGED << columns, table, current, loose >>
KeepPlot    == UNCHANGED << plot, edited >>

Next ==
  \/ part = "window" /\ W!Next /\ KeepVisible /\ KeepList /\ KeepTable /\ KeepPlot /\ UNCHANGED part
  \/ part = "list" /\ L!Next /\ KeepWindow /\ KeepTable /\ KeepPlot /\ UNCHANGED << part, selected >>
  \/ part = "table" /\ T!Next /\ KeepWindow /\ KeepVisible /\ KeepList /\ KeepPlot /\ UNCHANGED part
  \/ part = "plot" /\ S!Next /\ KeepWindow /\ KeepList /\ KeepTable /\ UNCHANGED << part, selected >>

Spec == Init /\ [][Next]_vars

-----------------------------------------------------------------------------
\* Whoever starts a navigation, in the views, the list of recent observations
\* or a search, all helpers of a search window agree on where the user is, a
\* view that is shown catches up, and the recent observations hold the current
\* one, once, also after the oldest was dropped.
WindowConsistent ==
  part = "window" =>
    W!ViewsAgree /\ W!VisibleFollows /\ W!RecentHoldsCurrent /\ W!SelectedIsCurrent

\* What the user arranged comes back when a list is loaded again, and the table
\* shows that list and no older one, though the columns of a sensor arrive
\* later than the navigation and the user goes on changing the old ones.
ListIsArrangement ==
  part = "list" => L!ArrangementKept /\ L!TableShowsList /\ L!ResetOffered /\ L!ListFollows

\* The rows of the table have every observation that a column brought, the grid
\* hides none, and the last column that arrives selects the current one again.
TableHasRows == part = "table" => T!BroughtIsSeen /\ T!GridCovers /\ T!CurrentSelected

\* The plot is of the lines and the time span that its view shows, through
\* edits of the span, changes of the lines and answers that come late.
PlotIsOfView == part = "plot" => S!PlotIsOfView
=============================================================================
