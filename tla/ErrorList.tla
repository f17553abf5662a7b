-------------------------------- MODULE ErrorList --------------------------------
(***************************************************************************)
(* The list of errors (src/src/errorlist/ErrorList.cc, ErrorListModel.cc): *)
(* a search asks for the obs_pgm of the stations in its dialog, makes      *)
(* sensors of it when the answer is there, and fills a tree with those     *)
(* observations of its TimeBuffer that are errors.  A root of the tree is  *)
(* the earliest error of a sensor, its children are the later ones: a      *)
(* group is the sequence of them.                                          *)
(***************************************************************************)
EXTENDS Navigation, SequencesExt, FiniteSets

CONSTANTS
  Searches,   \* what may be chosen in the dialog: [stations, params, official, span]
  ObsPgm,     \* of each station the set of its rows [param, type, official, span]
  Aggregated, \* pairs of a parameter and one that it is aggregated to
  Existing,   \* the observations [sensor, time] that there may be
  HqcFlags, SalenFlags,   \* the flags of observations, as either list may look at them
  Kinds,      \* kinds of parameters: RR_24, other daily ones, half-daily, and the rest
  Hours,      \* the hours of observations
  RegionTable,    \* regions, and counties with their region; one may have no label
  CountyTable,
  StationList,    \* of StationInfoBuffer: stations with their county
  GroupTable,     \* groups of parameters: id, label, sortkey; one may have no label
  ParamOrder,     \* their parameters: group, param, auxiliary, sortkey
  ObsPgmParams,   \* parameters in obs_pgm, and all that are defined, by number
  AllParams,
  EditTimes,  \* the times that the user enters
  Recent      \* the time span of onSetRecentTimes

S == INSTANCE TimeSpans

VARIABLES
  dialog,    \* what is chosen in mDialog
  open,      \* whether mDialog is open
  asked,     \* the stations of mObsPgmRequest, or << >>
  sensors,   \* the sensors of mObsBuffer
  error,     \* the observations in mObsBuffer; TRUE for those that are errors
  tree,      \* the groups below mRootItem
  selected,  \* the observation in the selected row
  nav,       \* mNavigate
  salen,     \* of the filter: mErrorsForSalen,
  obs,       \* an observation: its flags and what else the filter looks at,
  listed,    \* whether it is listed; "unknown" before the first query
  check,     \* of the dialog: the check states of stations, counties and regions
  chosen,    \* mParamSelectedModel
  available, \* mParamAvailableModel
  made,      \* the tree, and mParameterGroups by label
  group,     \* label of the current group
  editors,   \* fromTime and toTime
  ok,        \* whether buttonOk is enabled
  saved      \* the saved selection, << >> for none

vars == << dialog, open, asked, sensors, error, tree, selected, nav >>
filterVars == << salen, obs, listed >>
dialogVars == << check, chosen, available, made, group, editors, ok, saved >>

Init ==
  /\ dialog \in Searches /\ open = FALSE /\ asked = << >>
  /\ sensors = {} /\ error = << >> /\ tree = << >> /\ selected = NoObs /\ nav = NavigateHelper

-----------------------------------------------------------------------------
\* lt_Sensor, by station, parameter and type
Before(a, b) ==
  \/ a[1] < b[1]
  \/ a[1] = b[1] /\ a[2] < b[2]
  \/ a[1] = b[1] /\ a[2] = b[2] /\ a[3] < b[3]

Put(s, i, x) == SubSeq(s, 1, i - 1) \o << x >> \o SubSeq(s, i, Len(s))
Take(s, i)   == SubSeq(s, 1, i - 1) \o SubSeq(s, i + 1, Len(s))
Position(s, later) ==   \* where a row that comes before the later ones is put
  CHOOSE i \in later \cup {Len(s) + 1} : \A j \in later : i <= j

\* insertErrorItem; an earlier observation changes places with the root of its group
InsertErrorItem(t, o) ==
  LET i == Position(t, {g \in DOMAIN t : ~Before(t[g][1].sensor, o.sensor)})
  IN  IF i <= Len(t) /\ t[i][1].sensor = o.sensor
      THEN LET at == Position(t[i], {e \in DOMAIN t[i] : o.time < t[i][e].time})
           IN  [t EXCEPT ![i] = Put(t[i], at, o)]
      ELSE Put(t, i, << o >>)

Places(t, o) == {p \in (DOMAIN t) \X (1 .. Cardinality(Existing)) : p[2] <= Len(t[p[1]]) /\ t[p[1]][p[2]] = o}
Listed(t, o) == Places(t, o) # {}   \* findSensorTime

\* removeErrorItem; the root of a group is replaced by its first child
RemoveWithChildren(t, o) ==   \* mistake: its children go with the root
  LET p == CHOOSE p \in Places(t, o) : TRUE
  IN  IF p[2] = 1 THEN Take(t, p[1]) ELSE [t EXCEPT ![p[1]] = Take(t[p[1]], p[2])]
RemoveErrorItem(t, o) ==
  LET p == CHOOSE p \in Places(t, o) : TRUE
  IN  IF Len(t[p[1]]) = 1 THEN Take(t, p[1]) ELSE [t EXCEPT ![p[1]] = Take(t[p[1]], p[2])]

-----------------------------------------------------------------------------
(* onButtonSearch: the dialog is modal, but answers arrive while it is open *)
OpenDialog == ~open /\ open' = TRUE
              /\ UNCHANGED << dialog, asked, sensors, error, tree, selected, nav >>
Choose(c) == open /\ c # dialog /\ dialog' = c
             /\ UNCHANGED << open, asked, sensors, error, tree, selected, nav >>
Cancel == open /\ open' = FALSE
          /\ UNCHANGED << dialog, asked, sensors, error, tree, selected, nav >>
Search ==
  /\ open /\ open' = FALSE
  /\ asked' = << dialog.stations >>
  /\ UNCHANGED << dialog, sensors, error, tree, selected, nav >>

\* the type of a row of obs_pgm that has the parameter, or is aggregated to it
TypesOf(op, param) ==
  IF op.param = param THEN {op.type}
  ELSE IF << op.param, param >> \in Aggregated THEN {-op.type} ELSE {}
Types == UNION {{op.type, -op.type} : op \in UNION {ObsPgm[s] : s \in DOMAIN ObsPgm}}
Sensors(got) ==
  {<< s, p, t >> \in dialog.stations \X dialog.params \X Types :
     \E op \in (IF s \in got THEN ObsPgm[s] ELSE {}) :
       /\ dialog.official => op.official
       /\ ~S!Undefined(S!Intersection(dialog.span, op.span))
       /\ t \in TypesOf(op, p)}

\* ErrorListModel::search: a new tree and a new buffer
StartSearch == error' = << >> /\ tree' = << >>

(* onObsPgmsComplete, which reads the dialog again, updateModel and search. *)
(* A time span that is not closed brings no buffer.                         *)
ObsPgmsComplete(failed) ==
  /\ asked # << >> /\ asked' = << >>
  /\ sensors' = IF S!Closed(dialog.span) THEN Sensors(IF failed THEN {} ELSE asked[1]) ELSE {}
  /\ StartSearch /\ selected' = NoObs
  /\ nav' = Invalidate(nav)
  /\ UNCHANGED << dialog, open >>

-----------------------------------------------------------------------------
(* onBeginDataChange .. onEndDataChange: the selection is cleared, and     *)
(* signalStationSelected finds nothing selected.                           *)
ClearSelection ==
  /\ selected' = NoObs
  /\ nav' = IF selected = NoObs THEN nav ELSE Invalidate(nav)

With(o, e) == [p \in DOMAIN error \cup {o} |-> IF p = o THEN e ELSE error[p]]

\* onFetchDataEnd: an observation that was not in the buffer
DataNew(o, e) ==
  /\ o \notin DOMAIN error /\ error' = With(o, e)
  /\ tree' = (IF e THEN InsertErrorItem(tree, o) ELSE tree)
  /\ ClearSelection /\ UNCHANGED << dialog, open, asked, sensors >>

\* onUpdateDataEnd; mHideResolved is set
DataUpdate(o, e) ==
  /\ o \in DOMAIN error /\ error' = With(o, e)
  /\ tree' = (IF Listed(tree, o) /\ ~e THEN RemoveErrorItem(tree, o)
              ELSE IF ~Listed(tree, o) /\ e THEN InsertErrorItem(tree, o) ELSE tree)
  /\ ClearSelection /\ UNCHANGED << dialog, open, asked, sensors >>

\* onDropDataEnd
DataDrop(o) ==
  /\ o \in DOMAIN error /\ error' = [p \in DOMAIN error \ {o} |-> error[p]]
  /\ tree' = (IF Listed(tree, o) THEN RemoveErrorItem(tree, o) ELSE tree)
  /\ ClearSelection /\ UNCHANGED << dialog, open, asked, sensors >>

-----------------------------------------------------------------------------
(* onSelectionChanged by the user, signalStationSelected *)
Select(o) ==
  /\ ~open /\ o # selected /\ Listed(tree, o) /\ selected' = o
  /\ nav' = (IF Goes(Block(nav), o) THEN Go(nav, o) ELSE Invalidate(Go(nav, o)))
  /\ UNCHANGED << dialog, open, asked, sensors, error, tree >>

(* navigateTo: a row that is selected here makes signalStationSelected     *)
(* run with two blocks, so that it does not go anywhere and invalidates.   *)
NavigateTo(o) ==
  /\ Goes(nav, o)
  /\ IF Listed(tree, o) /\ selected # o
     THEN selected' = o /\ nav' = Invalidate(Go(nav, o))
     ELSE selected' = selected /\ nav' = Go(nav, o)
  /\ UNCHANGED << dialog, open, asked, sensors, error, tree >>

Next ==
  \/ OpenDialog \/ Cancel \/ Search
  \/ \E c \in Searches : Choose(c)
  \/ \E failed \in BOOLEAN : ObsPgmsComplete(failed)
  \/ \E o \in Existing :
       \/ \E e \in BOOLEAN : o.sensor \in sensors /\ (DataNew(o, e) \/ DataUpdate(o, e))
       \/ DataDrop(o) \/ Select(o) \/ NavigateTo(o)

Spec == Init /\ [][Next]_vars

-----------------------------------------------------------------------------
(* What is taken for an error (ErrorFilter.cc) is said twice: acceptingSql *)
(* narrows the query to the database, and accept is asked about what it    *)
(* returns, and again whenever an observation has changed.  This is a      *)
(* machine of its own: one observation, and whether it is in the list.     *)

Observations ==
  [flag : IF salen THEN SalenFlags ELSE HqcFlags, kind : Kinds, hour : Hours,
   ignoredType : BOOLEAN, norwegian : BOOLEAN, inObsPgm : BOOLEAN]

\* paramid_hour_6 and paramid_hour_6_18
Daily(o)     == o.kind \in {"RR_24", "daily"}
HalfDaily(o) == o.kind = "half-daily"
Official(o)  == ~o.ignoredType /\ o.norwegian

AcceptSalen(o) ==
  /\ o.flag.fhqc = 0 /\ Official(o)
  /\ Daily(o) => o.hour = 6
  /\ HalfDaily(o) => o.hour \in {6, 18}
  /\ o.inObsPgm
  /\ o.flag.fr \in 4 .. 6 \/ o.flag.fs = 8 \/ o.flag.fcombi \in 9 .. 11

AcceptHQC(o) ==
  /\ o.flag.fhqc = 0 /\ Official(o)
  /\ IF o.flag.fpre \in {4, 6}
     THEN (HalfDaily(o) /\ o.hour \in {6, 18}) \/ (Daily(o) /\ o.hour = 6)
     ELSE /\ o.flag.ftime <= 1
          /\ ~(o.flag.fd \in {7, 8} /\ o.kind = "RR_24")
          /\ ~(o.flag.fmis # 0 /\ o.kind = "precipitation type")
          /\ o.flag.ui2 \in {2, 3} \/ o.flag.fr \in {2, 3} \/ o.flag.fmis = 3

Accept(o) == IF salen THEN AcceptSalen(o) ELSE AcceptHQC(o)

AcceptingSql(o) ==
  /\ o.flag.fhqc = 0
  /\ IF salen THEN o.flag.ui3 = 2 \/ o.flag.fr \in 4 .. 6
     ELSE /\ o.flag.ftime \in {0, 1} /\ ~(o.flag.fd \in {7, 8} /\ o.kind = "RR_24")
          /\ o.flag.ui2 \in {2, 3} \/ o.flag.fr \in {2, 3} \/ o.flag.fmis = 3

FilterInit == salen \in BOOLEAN /\ listed = "unknown" /\ obs \in Observations

In(b) == IF b THEN "in" ELSE "out"

SearchOne == listed' = In(AcceptingSql(obs) /\ Accept(obs)) /\ UNCHANGED << salen, obs >>

\* a correction sets fhqc; other controls set other flags
FlagUpdate(g, v) ==
  /\ obs' = [obs EXCEPT !.flag[g] = v]
  /\ listed' = (IF listed = "unknown" THEN listed ELSE In(Accept(obs')))
  /\ UNCHANGED salen

FilterNext == SearchOne \/ FlagUpdate("fhqc", 4) \/ \E v \in {1, 2, 4} : FlagUpdate("fr", v)

FilterSpec == FilterInit /\ [][FilterNext]_filterVars

-----------------------------------------------------------------------------
(* The dialog of a search (ErrorSearchDialog.cc): a tree of regions,       *)
(* counties and stations with check boxes, two lists of parameters, a time *)
(* span, and selections that are saved and restored.  It is a machine of   *)
(* its own as well: what the search takes from it is dialog.               *)

(* HqcSystemDB::regions: what has no label is not in the tree, and neither *)
(* are stations of a county that is not.                                   *)
Labelled(table) == {x \in table : x.label # ""}
Regions == [r \in {x.id : x \in Labelled(RegionTable)} |->
             {c.name : c \in {x \in Labelled(CountyTable) : x.region = r}}]
Counties == [c \in UNION {Regions[r] : r \in DOMAIN Regions} |->
              {s.station : s \in {x \in StationList : x.county = c}}]

(* HqcSystemDB::paramGroups, without the auxiliary parameters, and two     *)
(* more groups: findAllParameters, which takes all that are defined if the *)
(* query of obs_pgm fails, and those.                                      *)
InOrder(rows) == SetToSortSeq(rows, LAMBDA a, b : a.sortkey < b.sortkey)
ParamsOf(g) ==
  LET rows == InOrder({p \in ParamOrder : p.group = g /\ ~p.auxiliary})
  IN  [i \in DOMAIN rows |-> rows[i].param]
findAllParameters(failed) == IF failed THEN AllParams ELSE ObsPgmParams
LabelledGroups == InOrder(Labelled(GroupTable))
ParameterGroups(failed) ==
  LET labels == {g.label : g \in Labelled(GroupTable)}
  IN  [l \in labels \cup {"All in obs pgm", "All defined"} |->
        CASE l = "All in obs pgm" -> findAllParameters(failed)
          [] l = "All defined"    -> AllParams
          [] OTHER -> ParamsOf((CHOOSE g \in Labelled(GroupTable) : g.label = l).id)]

Gaps == S!MinimumGapSet(<< 0, 0 >>, 6)
AnyTime == << -1000, 1000 >>
Stations == UNION {made.counties[c] : c \in DOMAIN made.counties}
Items == Stations \cup DOMAIN made.counties \cup DOMAIN made.regions

SelectedStations == {s \in Stations : check[s] # "unchecked"}
SelectedCounties == {c \in DOMAIN made.counties : check[c] # "unchecked"}

\* showParamGroup
Available(g, sel) == SelectSeq(made.groups[g], LAMBDA p : p \notin ToSet(sel))
EnableButtons(ch, sel) == (\E s \in Stations : ch[s] # "unchecked") /\ sel # << >>

DialogInit ==
  /\ made \in {[regions |-> Regions, counties |-> Counties, groups |-> ParameterGroups(failed)] :
                failed \in BOOLEAN}
  /\ check = [i \in Items |-> "unchecked"]
  /\ chosen = << >> /\ group = LabelledGroups[1].label /\ available = Available(group, << >>)
  /\ editors = Recent /\ ok = FALSE /\ saved = << >>

-----------------------------------------------------------------------------
Opposite(state) == IF state = "checked" THEN "unchecked" ELSE "checked"

\* setChildren, the parent given as the set of all items below it
SetChildren(ch, below, on) ==
  [i \in Items |-> IF i \in below THEN (IF on THEN "checked" ELSE "unchecked") ELSE ch[i]]
\* checkChildren
CheckChildren(ch, parent, children) ==
  [ch EXCEPT ![parent] =
     IF \A i \in children : ch[i] = "checked" THEN "checked"
     ELSE IF \E i \in children : ch[i] # "unchecked" THEN "partially" ELSE "unchecked"]
CheckRegion(ch, c) ==
  LET r == CHOOSE x \in DOMAIN made.regions : c \in made.regions[x] IN CheckChildren(ch, r, made.regions[r])

Below(r) == made.regions[r] \cup UNION {made.counties[c] : c \in made.regions[r]}

(* onItemChanged, for an item that has been set already *)
StationToggled(ch, s) ==
  LET c == CHOOSE x \in DOMAIN made.counties : s \in made.counties[x]
  IN  CheckRegion(CheckChildren(ch, c, made.counties[c]), c)
CountyToggledAlone(ch, c) ==   \* mistake: the region is not looked at
  SetChildren(ch, made.counties[c], ch[c] # "unchecked")
CountyToggled(ch, c) == CheckRegion(SetChildren(ch, made.counties[c], ch[c] # "unchecked"), c)
RegionToggled(ch, r) == SetChildren(ch, Below(r), ch[r] # "unchecked")

Toggle(i) ==
  /\ LET set == [check EXCEPT ![i] = Opposite(@)]
     IN  check' = IF i \in Stations THEN StationToggled(set, i)
                  ELSE IF i \in DOMAIN made.counties THEN CountyToggled(set, i)
                  ELSE RegionToggled(set, i)
  /\ ok' = EnableButtons(check', chosen)
  /\ UNCHANGED << chosen, available, made, group, editors, saved >>

-----------------------------------------------------------------------------
ChooseParameters(sel) ==
  /\ chosen' = sel /\ available' = Available(group, sel)
  /\ ok' = EnableButtons(check, sel)
  /\ UNCHANGED << check, made, group, editors, saved >>

ShowParamGroup(g) ==
  /\ g # group /\ group' = g
  /\ available' = Available(g, chosen) /\ ok' = EnableButtons(check, chosen)
  /\ UNCHANGED << check, chosen, made, editors, saved >>

\* selectParameters, of the selected rows; addParameter2Click, selectAllParameters
SelectParameters(rows) ==
  rows # {} /\ ChooseParameters(chosen \o SelectSeq(available, LAMBDA p : p \in rows \ ToSet(chosen)))
SelectAllParameters == SelectParameters(ToSet(available))
\* deselectParameters; delParameter2Click, deselectAllParameters
DeselectParameters(rows) ==
  rows # {} /\ ChooseParameters(SelectSeq(chosen, LAMBDA p : p \notin rows))
DeselectAllParameters == DeselectParameters(ToSet(chosen))

-----------------------------------------------------------------------------
SetTimes(e) ==
  e # editors /\ editors' = e /\ UNCHANGED << check, chosen, available, made, group, ok, saved >>
EditFrom(t) == SetTimes(S!SetT0(editors, t, Gaps, AnyTime))
EditTo(t)   == SetTimes(S!SetT1(editors, t, Gaps, AnyTime))
SetRecentTimes == SetTimes(S!SetBoth(editors, Recent, Gaps, AnyTime))

(* saveSettings and onSaveSettings; of the tree only counties are saved *)
SaveSettings(remember) ==
  /\ saved' = << [params |-> chosen, counties |-> SelectedCounties,
                  times |-> editors, remember |-> remember] >>
  /\ UNCHANGED << check, chosen, available, made, group, editors, ok >>

\* setSelectedCounties, county by county; one that has its state already does
\* not send itemChanged
SelectedCountiesSet(counties) ==
  LET order == SetToSeq(DOMAIN made.counties)
      upTo[i \in 0 .. Len(order)] ==
        IF i = 0 THEN check
        ELSE LET c == order[i]
                 state == IF c \in counties THEN "checked" ELSE "unchecked"
             IN  IF upTo[i - 1][c] = state THEN upTo[i - 1]
                 ELSE CountyToggled([upTo[i - 1] EXCEPT ![c] = state], c)
  IN  upTo[Len(order)]

(* restoreSettings and onRestoreSettings *)
RestoreSettings ==
  /\ saved # << >>
  /\ chosen' = saved[1].params /\ available' = Available(group, saved[1].params)
  /\ check' = SelectedCountiesSet(saved[1].counties)
  /\ editors' = (IF saved[1].remember THEN S!SetBoth(editors, saved[1].times, Gaps, AnyTime) ELSE editors)
  /\ ok' = EnableButtons(check', chosen')
  /\ UNCHANGED << made, group, saved >>

DialogNext ==
  \/ \E i \in Items : Toggle(i)
  \/ \E g \in DOMAIN made.groups : ShowParamGroup(g)
  \/ \E p \in ToSet(available) : SelectParameters({p})
  \/ \E p \in ToSet(chosen) : DeselectParameters({p})
  \/ SelectAllParameters \/ DeselectAllParameters
  \/ \E t \in EditTimes : EditFrom(t) \/ EditTo(t)
  \/ SetRecentTimes \/ RestoreSettings
  \/ \E remember \in BOOLEAN : SaveSettings(remember)

DialogSpec == DialogInit /\ [][DialogNext]_vars

-----------------------------------------------------------------------------
\* The tree holds exactly the errors of the buffer, each once: one group for a
\* sensor, groups in the order of sensors, a group in the order of time, though
\* roots change places with children when errors come and go.
TreeIsErrors ==
  /\ \A o \in DOMAIN error : Cardinality(Places(tree, o)) = (IF error[o] THEN 1 ELSE 0)
  /\ \A i, j \in DOMAIN tree : i < j => Before(tree[i][1].sensor, tree[j][1].sensor)
  /\ \A i \in DOMAIN tree : \A j, k \in DOMAIN tree[i] :
       /\ tree[i][j].sensor = tree[i][1].sensor /\ tree[i][j] \in DOMAIN error
       /\ j < k => tree[i][j].time < tree[i][k].time

\* The selected row is an error of now, and the program does not take another
\* one for it: after a removal no row stays selected.
SelectedIsError == selected # NoObs => Listed(tree, selected)

\* The two filters agree: what is listed is an error by accept, and an error
\* that a search misses is one of the two kinds that the SQL has no words for.
FiltersAgree ==
  /\ listed = "in" => Accept(obs)
  /\ listed = "out" /\ Accept(obs) =>
       IF salen THEN obs.flag.fs = 8 \/ obs.flag.fcombi \in 9 .. 11 ELSE obs.flag.fpre \in {4, 6}
  /\ ~salen /\ AcceptingSql(obs) /\ ~Accept(obs) =>
       ~Official(obs) \/ obs.flag.fpre \in {4, 6} \/ obs.kind = "precipitation type"

\* The boxes of counties and regions say what is checked below them, though
\* each change of one sends the signals of all that it changes.
ChecksAgree ==
  /\ \A c \in DOMAIN made.counties : made.counties[c] # {} => CheckChildren(check, c, made.counties[c]) = check
  /\ \A r \in DOMAIN made.regions : made.regions[r] # {} => CheckChildren(check, r, made.regions[r]) = check

\* A parameter is in one of the lists, once; what may be searched is enabled.
ParametersSplit ==
  /\ IsInjective(chosen) /\ available = Available(group, chosen)
  /\ ok = (SelectedStations # {} /\ chosen # << >>)

\* Saving loses no station, and a saved time span comes back as it was,
\* whatever the editors show and the gap between them then.
SavedComesBack ==
  /\ SelectedStations \subseteq UNION {made.counties[c] : c \in SelectedCounties}
  /\ saved # << >> => S!SetBoth(editors, saved[1].times, Gaps, AnyTime) = saved[1].times
=============================================================================
