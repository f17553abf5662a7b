------------------------------ MODULE StationCards ------------------------------
(***************************************************************************)
(* What is shown of one station and of those around it: StationDataList,   *)
(* the list of all parameters of a station (StationDataList.cc,            *)
(* ObsPgmDataList.cc), and the cards of its neighbours in the dialog for   *)
(* daily precipitation (NeighborCardsModel.cc, NeighborRR24Model.cc,       *)
(* WatchRRDialog.cc, with the selection of neighbours of KvHelpers.cc).    *)
(***************************************************************************)
EXTENDS Integers, Sequences, SequencesExt, FiniteSetsExt

CONSTANTS
  Programs,        \* obs_pgm of each station, in the order it is read: param, type, level, from, to
  NearBy,          \* of each station, the Norwegian ones around it by distance
  Aggregated,      \* table of aggregated parameters, pairs of from and to
  GroupTable,      \* groups of parameters: id, label, sortkey; one may have no label
  ParamOrder,      \* their parameters: group, param, auxiliary, sortkey
  Obs,             \* observations navigated to: station, type, level, time
  Hours,           \* half the default time span
  RRParam,         \* the parameter of the cards
  MaxNeighbors,    \* 20
  CardSpan, DayLength, RemoteTimes

VARIABLES
  shown,           \* current observation, store observation and time span of the list
  options,         \* aggregated, all types, group
  request,         \* station of mObsPgmRequest, and whether it is complete
  columns,         \* columns of the table
  cards            \* the dialog: sensors, time, date and the time sent to Diana


(* HqcSystemDB::aggregatedParameters, from a parameter.                    *)
AggregatedTo(p) == {a[2] : a \in {b \in Aggregated : b[1] = p}}

(* HqcSystemDB::paramGroups: groups that have a label, all their           *)
(* parameters.  The last choice of the box is all parameters.              *)
InOrder(rows) == SetToSortSeq(rows, LAMBDA a, b : a.sortkey < b.sortkey)
LabelledGroups == InOrder({g \in GroupTable : g.label # ""})
Groups ==
  [i \in DOMAIN LabelledGroups |-> {p.param : p \in {q \in ParamOrder : q.group = LabelledGroups[i].id}}]

Nowhere == [station |-> 0, type |-> 0, level |-> 0, time |-> 0]
NoSpan  == << 0, 0 >>
NoCards == [sensors |-> << >>, time |-> 0, date |-> 0, diana |-> 0]

Init ==
  /\ shown = [current |-> Nowhere, stored |-> Nowhere, span |-> NoSpan]
  /\ options = [aggregated |-> TRUE, allTypes |-> FALSE, group |-> Len(Groups) + 1]
  /\ request = [station |-> 0, complete |-> FALSE]
  /\ columns = {}
  /\ cards = NoCards

Abs(n) == IF n < 0 THEN -n ELSE n
Overlaps(op, span) == op.from <= span[2] /\ span[1] <= op.to
ProgramsOf(req) == IF req.complete THEN Programs[req.station] ELSE << >>

-----------------------------------------------------------------------------
(* addSensorColumns: original and corrected values of what is measured,    *)
(* corrected values of what is made of it.                                 *)
Column(station, param, level, type, kind) ==
  [station |-> station, param |-> param, level |-> level, type |-> type, kind |-> kind]
ColumnsOf(obs, op, opt) ==
  {Column(obs.station, op.param, obs.level, op.type, k) : k \in {"ORIGINAL", "CORRECTED"}}
    \cup {Column(obs.station, a, obs.level, -op.type, "CORRECTED") :
            a \in IF opt.aggregated THEN AggregatedTo(op.param) ELSE {}}

(* updateModel: the level is the one of the current observation.           *)
OfGroup(op, opt) == opt.group > Len(Groups) \/ op.param \in Groups[opt.group]
UpdateModel(obs, span, opt, ops) ==
  UNION {ColumnsOf(obs, ops[i], opt) :
           i \in {j \in 1 .. Len(ops) : /\ OfGroup(ops[j], opt)
                                        /\ opt.allTypes \/ ops[j].type = Abs(obs.type)
                                        /\ Overlaps(ops[j], span)}}

(* sensorSwitch: the list stays as long as station, type and time span do. *)
Stays(obs) ==
  /\ obs.station = shown.stored.station
  /\ Abs(obs.type) = Abs(shown.stored.type)
  /\ shown.span[1] <= obs.time /\ obs.time <= shown.span[2]
DefaultSpan(obs) == << obs.time - Hours, obs.time + Hours >>

NavigateTo(obs) ==
  /\ obs # shown.current
  /\ IF Stays(obs)
     THEN /\ shown' = [shown EXCEPT !.current = obs]
          /\ UNCHANGED << request, columns >>
     ELSE /\ shown' = [current |-> obs, span |-> DefaultSpan(obs),
                       stored |-> [obs EXCEPT !.type = Abs(@), !.level = 0]]
          /\ request' = [station |-> obs.station, complete |-> FALSE]
          /\ UNCHANGED columns
  /\ UNCHANGED << options, cards >>

ObsPgmsComplete ==
  /\ request.station # 0 /\ ~request.complete
  /\ request' = [request EXCEPT !.complete = TRUE]
  /\ columns' = UpdateModel(shown.current, shown.span, options, ProgramsOf(request'))
  /\ UNCHANGED << shown, options, cards >>

(* The boxes update the table at once, with the programs there are.        *)
SetOptions(opt) ==
  /\ opt # options
  /\ options' = opt
  /\ columns' = IF request.station = 0 THEN {}
                ELSE UpdateModel(shown.current, shown.span, opt, ProgramsOf(request))
  /\ UNCHANGED << shown, request, cards >>

-----------------------------------------------------------------------------
(* Helpers::addNeighbors, nearest station first.  A row of obs_pgm counts, *)
(* so a station with several rows in the time span comes several times.    *)
Observes(op, param, span) ==
  Overlaps(op, span) /\ (op.param = param \/ param \in AggregatedTo(op.param))
AsNeighbor(station, op, param) ==
  [station |-> station, level |-> op.level, type |-> IF op.param = param THEN op.type ELSE -op.type]
NeighborsAt(station, param, span) ==
  LET ops == SelectSeq(Programs[station], LAMBDA op : Observes(op, param, span))
  IN [i \in 1 .. Len(ops) |-> AsNeighbor(station, ops[i], param)]
AddNeighbors(station, param, span) ==
  LET all == FlattenSeq([i \in 1 .. Len(NearBy[station]) |->
                          NeighborsAt(NearBy[station][i], param, span)])
  IN SubSeq(all, 1, Min({Len(all), MaxNeighbors}))

(* setTime of the cards, and the date box, whose change of date is a call  *)
(* of onNeighborDataDateChanged inside the one that set the time.          *)
DayOf(t)  == t \div DayLength
InSpan(t) == CardSpan[1] <= t /\ t <= CardSpan[2]
Clamped(day) == Max({DayOf(CardSpan[1]), Min({day, DayOf(CardSpan[2])})})
AtDate(day) == day * DayLength + (CardSpan[1] % DayLength)
SetTime(time, t) == IF InSpan(t) THEN t ELSE time

OnTime(c, t) ==
  LET day    == Clamped(DayOf(t))
      byDate == IF day = c.date THEN c.time ELSE SetTime(c.time, AtDate(day))
  IN [c EXCEPT !.date = day, !.diana = t, !.time = SetTime(byDate, t)]

OpenDialog(obs) ==
  /\ cards = NoCards
  /\ obs.type > 0 /\ obs.level = 0
  /\ cards' = OnTime([sensors |-> << [station |-> obs.station, level |-> 0, type |-> obs.type] >>
                                    \o AddNeighbors(obs.station, RRParam, CardSpan),
                      time |-> CardSpan[1], date |-> DayOf(CardSpan[1]), diana |-> 0],
                     CardSpan[2] - DayLength)
  /\ UNCHANGED << shown, options, request, columns >>

SelectDate(day) ==
  /\ cards # NoCards
  /\ day = Clamped(day) /\ day # cards.date
  /\ cards' = [cards EXCEPT !.date = day, !.diana = AtDate(day), !.time = SetTime(@, AtDate(day))]
  /\ UNCHANGED << shown, options, request, columns >>

RemoteTime(t) ==
  /\ cards # NoCards
  /\ cards' = OnTime(cards, t)
  /\ UNCHANGED << shown, options, request, columns >>

CloseDialog ==
  /\ cards # NoCards
  /\ cards' = NoCards
  /\ UNCHANGED << shown, options, request, columns >>

Next ==
  \/ \E o \in Obs : NavigateTo(o)
  \/ ObsPgmsComplete
  \/ \E a, t \in BOOLEAN, g \in 1 .. Len(Groups) + 1 :
       SetOptions([aggregated |-> a, allTypes |-> t, group |-> g])
  \/ \E o \in Obs : OpenDialog(o)
  \/ \E t \in RemoteTimes : SelectDate(DayOf(t))
  \/ \E t \in RemoteTimes : RemoteTime(t)
  \/ CloseDialog

-----------------------------------------------------------------------------
(* Once the programs are there, the list has exactly what its options say  *)
(* of the station, of the type navigated to, and of the time span, though  *)
(* observations of other levels were visited and boxes changed meanwhile.  *)
SameButLevel(c) == [c EXCEPT !.level = 0]
ListOfStation ==
  request.complete =>
    {SameButLevel(c) : c \in columns}
      = {SameButLevel(c) : c \in UpdateModel(shown.stored, shown.span, options,
                                             Programs[shown.stored.station])}

(* The cards are of the station and of the nearest ones that report daily  *)
(* precipitation, as many as fit, and of the day in the date box.          *)
CardsOfNearest ==
  cards # NoCards =>
    LET at == {cards.sensors[i].station : i \in 2 .. Len(cards.sensors)}
        near == NearBy[cards.sensors[1].station]
        reports(s) == \E i \in 1 .. Len(Programs[s]) : Observes(Programs[s][i], RRParam, CardSpan)
    IN /\ Len(cards.sensors) <= MaxNeighbors + 1
       /\ \A i \in 1 .. Len(near) : near[i] \in at => reports(near[i])
       /\ \A i, j \in 1 .. Len(near) :
            i < j /\ near[j] \in at /\ reports(near[i]) => near[i] \in at
       /\ Len(cards.sensors) <= MaxNeighbors =>
            \A i \in 1 .. Len(near) : reports(near[i]) => near[i] \in at
       /\ DayOf(cards.time) = cards.date
=============================================================================
