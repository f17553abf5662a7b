--------------------------------- MODULE MCLists ---------------------------------
(***************************************************************************)
(* The lists of a search window in one run: errors, the dialog and the     *)
(* filter of their search, extremes, missing observations, the windows of  *)
(* text data and rejected messages, and the buffers below.  They share no  *)
(* state here; part says which one a behaviour is of, and what it does not *)
(* use is << >>.                                                           *)
(***************************************************************************)
EXTENDS Integers, Sequences

CONSTANT NoObs

VARIABLES
  part,
  dialog, asked, editors, shown, row, last, gone, busy,       \* of several
  open, sensors, error, tree, selected, nav,                  \* ErrorList
  check, chosen, available, made, group, ok, saved,                 \* its dialog
  salen, obs, listed,                                         \* its filter
  have, byTime, byValue, index, single, missed,               \* ObsBuffers
  value, query, answer, data, changed,                        \* Extremes
  choice, present, tasks, early,                              \* MissingList
  windows, rows, result                                       \* ReportWindows

-----------------------------------------------------------------------------
NoTime == -1000000
C(st, ps, off) == [stations |-> st, params |-> ps, official |-> off, span |-> << 1, 4 >>]
Pgm(p, t, off, span) == [param |-> p, type |-> t, official |-> off, span |-> span]
O(s, t) == [sensor |-> s, time |-> t]
County(name, region, label) == [name |-> name, region |-> region, label |-> label]
Ordered(g, p, auxiliary, sortkey) ==
  [group |-> g, param |-> p, auxiliary |-> auxiliary, sortkey |-> sortkey]
E == INSTANCE ErrorList WITH
       Searches <- {C({1}, {1}, TRUE), C({1, 2}, {1}, FALSE)},
       ObsPgm <- << {Pgm(1, 5, FALSE, << 0, NoTime >>), Pgm(2, 3, TRUE, << 0, 9 >>)},
                    {Pgm(1, 5, TRUE, << 0, 9 >>), Pgm(1, 6, TRUE, << 7, 9 >>)} >>,
       Aggregated <- {<< 2, 1 >>},
       Existing <- {O(<< 1, 1, -3 >>, t) : t \in 1 .. 3} \cup {O(<< 2, 1, 5 >>, 1)},
       HqcFlags <- [fhqc : {0, 4}, fpre : {0, 4}, ftime : {0, 2}, fd : {0, 7}, fmis : {0, 2, 3},
                    ui2 : {0, 3}, fr : {1, 2}, fs : {0}, fcombi : {0}, ui3 : {0}],
       SalenFlags <- [fhqc : {0, 4}, fpre : {0}, ftime : {0}, fd : {0}, fmis : {0}, ui2 : {0},
                      fr : {1, 4}, fs : {0, 8}, fcombi : {0, 9}, ui3 : {0, 2}],
       Kinds <- {"RR_24", "half-daily", "precipitation type"}, Hours <- {6, 12},
       RegionTable <- {[id |-> "north", label |-> "Nord"], [id |-> "sea", label |-> ""]},
       CountyTable <- {County("c1", "north", "A"), County("c2", "north", "B"), County("c3", "sea", "C"),
                       County("c4", "north", "")},
       StationList <- {[station |-> "s1", county |-> "c1"], [station |-> "s2", county |-> "c1"],
                       [station |-> "s4", county |-> "c4"]},
       GroupTable <- {[id |-> 1, label |-> "wind", sortkey |-> 2], [id |-> 2, label |-> "", sortkey |-> 1]},
       ParamOrder <- {Ordered(1, 2, FALSE, 1), Ordered(1, 1, FALSE, 2), Ordered(1, 3, TRUE, 3), Ordered(2, 3, FALSE, 1)},
       ObsPgmParams <- << 1 >>, AllParams <- << 1, 2 >>,
       EditTimes <- {36}, Recent <- << 0, 40 >>

B == INSTANCE ObsBuffers WITH
       Ids <- 1 .. 4, TimeOf <- << 0, 3, 9, 4 >>, SensorOf <- << 1, 1, 1, 2 >>, Values <- {1, 2},
       End <- 10, Step <- 3, Single <- 2

X == INSTANCE Extremes WITH
       Ids <- 1 .. 4, StationOf <- << 1, 1, 2, 3 >>, ParamOf <- << 1, 2, 1, 1 >>,
       TimeOf <- << 0, 0, 24, 26 >>, GroupOf <- << {1, 2}, {2} >>, Maximum <- {1},
       Special <- << {0}, {} >>, Excluded <- {}, Values <- {0, 2}, Untrusted <- {4}, Count <- 1,
       EditTimes <- {20}, Default <- << 0, 24 >>

Op(s, t, hours, from, to) == [station |-> s, type |-> t, hours |-> hours, from |-> from, to |-> to]
M == INSTANCE MissingList WITH
       ObsPgm <- {Op(1, 302, {6}, 0, NoTime), Op(1, 4, {7}, 0, 20)},
       Changing <- {[station |-> 1, type |-> 302, time |-> 6]}, ManualTypes <- {302},
       TypeChoices <- {"any", "manual"}, EditTimes <- {100}, Default <- << 0, 24 >>, Clicked <- {1, 2}

R(k, s, t) == [kind |-> k, station |-> s, time |-> t]
W == INSTANCE ReportWindows WITH
       Rows <- {R("text", 1, 2900), R("rejected", 0, 2800), R("text", 1, 100)}, Known <- {1},
       Current <- {[station |-> 0, time |-> 3000], [station |-> 1, time |-> 2910]},
       Stations <- {0, 1}, EditTimes <- {95, 2910}, Now <- 3000, MaxWindows <- 2

-----------------------------------------------------------------------------
vars == << part, dialog, asked, editors, shown, row, last, gone, busy,
           open, sensors, error, tree, selected, nav, check, chosen, available, made, group, ok, saved,
           salen, obs, listed, have, byTime, byValue, index, single, missed,
           value, query, answer, data, changed, choice, present, tasks, early, windows, rows, result >>
no == << >>

NoDialog  == dialog = no
NoAsked   == asked = no
NoEditors == editors = no
NoTable   == shown = no /\ row = no /\ last = no /\ gone = no /\ busy = no
NoE == open = no /\ sensors = no /\ error = no /\ tree = no /\ selected = no /\ nav = no
NoQ == check = no /\ chosen = no /\ available = no /\ made = no /\ group = no /\ ok = no /\ saved = no
NoF == salen = no /\ obs = no /\ listed = no
NoB == have = no /\ byTime = no /\ byValue = no /\ index = no /\ single = no /\ missed = no
NoX == value = no /\ query = no /\ answer = no /\ data = no /\ changed = no
NoM == choice = no /\ present = no /\ tasks = no /\ early = no
NoW == windows = no /\ rows = no /\ result = no

Init ==
  \/ part = "errors" /\ E!Init /\ NoEditors /\ NoTable /\ NoQ /\ NoF /\ NoB /\ NoX /\ NoM /\ NoW
  \/ part = "search" /\ E!DialogInit /\ NoDialog /\ NoAsked /\ NoTable /\ NoE /\ NoF /\ NoB /\ NoX /\ NoM /\ NoW
  \/ part = "filter" /\ E!FilterInit /\ NoDialog /\ NoAsked /\ NoEditors /\ NoTable
     /\ NoE /\ NoQ /\ NoB /\ NoX /\ NoM /\ NoW
  \/ part = "buffers" /\ B!Init /\ NoDialog /\ NoAsked /\ NoEditors /\ NoTable
     /\ NoE /\ NoQ /\ NoF /\ NoX /\ NoM /\ NoW
  \/ part = "extremes" /\ X!Init /\ NoDialog /\ NoAsked /\ NoE /\ NoQ /\ NoF /\ NoB /\ NoM /\ NoW
  \/ part = "missing" /\ M!Init /\ NoDialog /\ NoE /\ NoQ /\ NoF /\ NoB /\ NoX /\ NoW
  \/ part = "windows" /\ W!Init /\ NoAsked /\ NoEditors /\ NoTable /\ NoE /\ NoQ /\ NoF /\ NoB /\ NoX /\ NoM

KeepTable == UNCHANGED << shown, row, last, gone, busy >>
KeepE == UNCHANGED << open, sensors, error, tree, selected, nav >>
KeepQ == UNCHANGED << check, chosen, available, made, group, ok, saved >>
KeepF == UNCHANGED << salen, obs, listed >>
KeepB == UNCHANGED << have, byTime, byValue, index, single, missed >>
KeepX == UNCHANGED << value, query, answer, data, changed >>
KeepM == UNCHANGED << choice, present, tasks, early >>
KeepW == UNCHANGED << windows, rows, result >>

Next ==
  /\ UNCHANGED part
  /\ \/ part = "errors" /\ E!Next /\ UNCHANGED editors
        /\ KeepTable /\ KeepQ /\ KeepF /\ KeepB /\ KeepX /\ KeepM /\ KeepW
     \/ part = "search" /\ E!DialogNext /\ UNCHANGED << dialog, asked >>
        /\ KeepTable /\ KeepE /\ KeepF /\ KeepB /\ KeepX /\ KeepM /\ KeepW
     \/ part = "filter" /\ E!FilterNext /\ UNCHANGED << dialog, asked, editors >>
        /\ KeepTable /\ KeepE /\ KeepQ /\ KeepB /\ KeepX /\ KeepM /\ KeepW
     \/ part = "buffers" /\ B!Next /\ UNCHANGED << dialog, asked, editors >>
        /\ KeepTable /\ KeepE /\ KeepQ /\ KeepF /\ KeepX /\ KeepM /\ KeepW
     \/ part = "extremes" /\ X!Next /\ UNCHANGED << dialog, asked >>
        /\ KeepE /\ KeepQ /\ KeepF /\ KeepB /\ KeepM /\ KeepW
     \/ part = "missing" /\ M!Next /\ UNCHANGED dialog
        /\ KeepE /\ KeepQ /\ KeepF /\ KeepB /\ KeepX /\ KeepW
     \/ part = "windows" /\ W!Next /\ UNCHANGED << asked, editors >>
        /\ KeepTable /\ KeepE /\ KeepQ /\ KeepF /\ KeepB /\ KeepX /\ KeepM

Spec == Init /\ [][Next]_vars

-----------------------------------------------------------------------------
\* The list of errors is what its filter says of the observations in its buffer,
\* in order, while errors come, change and go below it, and the filter of the
\* query and that of updates differ only where the SQL says less.
ErrorsListed ==
  /\ part = "errors" => E!TreeIsErrors /\ E!SelectedIsError
  /\ part = "filter" => E!FiltersAgree

\* The dialog of the search for errors agrees with itself after every change,
\* and brings back what was saved.
SearchAgrees == part = "search" => E!ChecksAgree /\ E!ParametersSplit /\ E!SavedComesBack

\* The buffers hold what the access told of, and the tables above them and the
\* windows of reports show the answers to their own questions: nothing that was
\* found is lost, and selecting a row goes to the observation in it.
AnswersShown ==
  /\ part = "buffers" => B!BuffersAgree
  /\ part = "extremes" => X!ExtremesKept /\ X!SelectedIsGoneTo /\ X!SearchGap
  /\ part = "missing" => M!ShownIsAsked /\ M!SelectedIsGoneTo /\ M!DaysSearched
  /\ part = "windows" => W!WindowsShowTheirs
=============================================================================
