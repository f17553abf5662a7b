-------------------------------- MODULE MCSources --------------------------------
(***************************************************************************)
(* What windows get their data and their choices from, in one run: model   *)
(* values, the tables of kvalobs, limits, station details, the choosers    *)
(* and dialogs, the link to Diana, the main window, and corrections made   *)
(* by hand.  They share no state here; part says which one a behaviour is  *)
(* of, and what it does not use is << >>.                                  *)
(***************************************************************************)
EXTENDS Integers, Sequences, TLC

CONSTANT NoObs

VARIABLES
  part,
  checked, shown, request,       \* of several
  found, buffers, queued, lost,                                 \* ModelData
  tables, codes, pgms, requests, broken, limits,                \* MetaData
  stations, listStat, manual, disk, age,                        \* StationInfo
  options, columns, cards,                                      \* StationCards
  chooser, fetched, jumped,                                     \* SensorChooser
  dialog, checks,                                               \* StationDialog
  clients, active, helper, sent, letters,                       \* DianaTimes
  window, edits, buttons, service, dialogs, settings, history,  \* MainWindow
  sCode2Text, obs, box, selection, tool, past                               \* Corrections

-----------------------------------------------------------------------------
D == INSTANCE ModelData WITH
       Buffers <- {"column", "plot"}, Wanted <- 1 .. 3, InKvalobs <- {1, 2}

LRow(from, days, l, named) == [from |-> from, days |-> days, limits |-> l, named |-> named]
LFour(a, b, c, d) == [min |-> a, low |-> b, high |-> c, max |-> d]
LRows(s) == CASE s = "reg" -> {LRow(2, {0, 1}, LFour(1, 2, 4, 5), TRUE), LRow(5, {0, 1}, LFour(2, 3, 3, 4), TRUE)}
              [] s = "days" -> {LRow(1, {0}, LFour(1, 2, 4, 5), TRUE), LRow(3, {1}, [max |-> 3, high |-> 2], TRUE)}
              [] OTHER -> {LRow(1, {0, 1}, LFour(3, 3, 3, 3), FALSE)}
LParam(s) == CASE s = "reg" -> 211 [] s = "days" -> 110 [] OTHER -> 262
LDay(t) == t % 2
T == INSTANCE MetaData WITH
       Stations <- {1, 2}, Makers <- {"list", "chooser"},
       ObsPgm <- {[station |-> 1, row |-> 1], [station |-> 1, row |-> 2]},
       Params <- {[id |-> 1, unit |-> {"kode"}, position |-> FALSE],
                  [id |-> 2, unit |-> {"grader"}, position |-> FALSE]},
       Sensors <- {"reg", "days", "plain"}, Times <- 1 .. 6, DayOf <- LDay, RowsOf <- LRows,
       ParamOf <- LParam, Slimits <- {[param |-> 211, low |-> 0, high |-> 6], [param |-> 262, low |-> 2, high |-> 4]},
       Values <- -1 .. 6, Missing <- -1, CacheSize <- 2

Muni(id, country, name) == [id |-> id, country |-> country, code |-> id, name |-> name]
I == INSTANCE StationInfo WITH
       StationTable <- << 1, 2, 1, 3, 4 >>, MunicipOf <- (1 :> 301 @@ 2 :> 402 @@ 4 :> 900),
       Municips <- << Muni(0, 1, "?"), Muni(3, 1, "Oslo"), Muni(4, 1, "Hedmark"), Muni(301, 1, "Oslo k"),
                      Muni(402, 1, ""), Muni(900, 2, "Kiruna") >>,
       CountyMap <- {[country |-> 1, divide |-> 100, code |-> 4, county |-> "Innlandet"]}, Priorities <- (1 :> 2), Coastal <- {2}, Manual <- {7},
       Norway <- 1, NorwayRemap <- 100, MaxLength <- 9

Op(p, t, l, a, b) == [param |-> p, type |-> t, level |-> l, from |-> a, to |-> b]
Agg == {<< 1, 2 >>}
At(s, t, l, h) == [station |-> s, type |-> t, level |-> l, time |-> h]
Ordered(g, p, auxiliary, sortkey) ==
  [group |-> g, param |-> p, auxiliary |-> auxiliary, sortkey |-> sortkey]
S == INSTANCE StationCards WITH
       Programs <- << << Op(1, 3, 0, 0, 99), Op(2, 3, 0, 0, 99), Op(1, 4, 0, 0, 9), Op(3, 3, 0, 12, 99) >>,
                      << Op(1, 3, 0, 0, 5), Op(2, 3, 0, 0, 99), Op(2, 3, 0, 4, 99) >>,
                      << Op(1, 4, 0, 0, 9) >>, << Op(2, 3, 1, 0, 99) >> >>,
       NearBy <- << << 3, 2, 4 >>, << 1 >>, << >>, << 1 >> >>, Aggregated <- Agg,
       GroupTable <- {[id |-> 1, label |-> "wind", sortkey |-> 2], [id |-> 2, label |-> "", sortkey |-> 1]},
       ParamOrder <- {Ordered(1, 1, FALSE, 1), Ordered(1, 3, TRUE, 2), Ordered(2, 2, FALSE, 1)},
       Obs <- {At(1, 3, 0, 10), At(1, -3, 1, 12), At(1, 4, 0, 8), At(2, 3, 0, 8)}, Hours <- 3,
       RRParam <- 2, MaxNeighbors <- 3, CardSpan <- << 6, 14 >>, DayLength <- 4,
       RemoteTimes <- {3, 5, 7, 9, 14, 17}

Row(p, t, l, n) == [param |-> p, type |-> t, level |-> l, sensors |-> n]
Nav(s, p, t, l, n) == [station |-> s, param |-> p, type |-> t, level |-> l, nr |-> n]
H == INSTANCE SensorChooser WITH
       Texts <- {0, 6, 60, 61, 62}, KnownStations <- {60, 61, 62},
       ObsPgm <- (60 :> {Row(1, 3, 0, 1), Row(1, 3, 5, 2), Row(2, 4, 0, 1), Row(4, 3, 0, 1)}
                  @@ 61 :> {Row(1, 4, 5, 2), Row(3, 4, 0, 1)}),
       Aggregated <- Agg, Hidden <- {4}, Navigations <- {Nav(60, 2, -3, 5, 1), Nav(61, 3, 4, 0, 0)},
       Existing <- {Nav(60, 2, -3, 5, 1), Nav(61, 1, 4, 5, 1)}

Of(p, t, h, a, b) == [param |-> p, type |-> t, hours |-> h, from |-> a, to |-> b]
G == INSTANCE StationDialog WITH
       Stations <- {0, 60, 61, 62}, Cached <- {61}, Days <- {28, 40, 46, 51, 60}, Now <- 60, MinDays <- 4,
       Programs <- (60 :> {Of("own", 302, TRUE, 0, 50), Of("parts", 330, TRUE, 30, 100), Of("other", 308, TRUE, 0, 100)}
                    @@ 61 :> {Of("own", 302, FALSE, 0, 99), Of("own", 402, TRUE, 0, 60), Of("own", 302, TRUE, 52, 59)}),
       LastChecked <- [station |-> 60, type |-> 302, day |-> 45]

N == INSTANCE DianaTimes WITH
       Searches <- {"w1"}, Cards <- {"rr"}, Sensors <- {1, 2}, Times <- {2, 9}, Hours <- 2,
       CardTimes <- << 1, 10 >>, Dianas <- {"d1"}, MaxLetters <- 1

W == INSTANCE MainWindow WITH
       Obs <- {1, 2}, MaxEdits <- 2, MaxNews <- 1, Version <- "3.8"

Mis == -32767
Rej == -32766
Data(o, c, fd, fmis, fhqc) ==
  [original |-> o, corrected |-> c, tasks |-> {}, ci |-> [fcc |-> 0, fd |-> fd, fmis |-> fmis, fhqc |-> fhqc]]
Good(v) == Data(v, v, 0, 0, 0)
Lost == Data(Mis, Mis, 0, 3, 0)
Line(k, a, b, c) ==
  [x \in {<< k, 0 >>, << k, 1 >>, << k, 3 >>} |-> CASE x[2] = 0 -> a [] x[2] = 1 -> b [] OTHER -> c]
Alone(k, a, b) == [x \in {<< k, 5 >>, << k, 6 >>} |-> IF x[2] = 5 THEN a ELSE b]
Pair(a, b) == [x \in {<< "vx", 0 >>, << "strength", 0 >>} |-> IF x[1] = "vx" THEN a ELSE b]
Vx(value, level) == [kind |-> "vx", value |-> value, level |-> level]
Word(word) == [kind |-> "word", value |-> word]
Number(value, decimals) == [kind |-> "number", value |-> value, decimals |-> decimals]
Short(id, language, text, sortkey) == [id |-> id, language |-> language, text |-> text, sortkey |-> sortkey]
CodeTables ==
  [codes |-> {[kind |-> "plain", id |-> 1, value |-> 2], [kind |-> "plain", id |-> 2, value |-> 6]},
   long  |-> {[id |-> 1, language |-> "en"], [id |-> 1, language |-> "nb"], [id |-> 2, language |-> "nn"]},
   short |-> {Short(1, "nb", "dis", 2), Short(1, "nb", "d", 1), Short(1, "en", "haze", 1), Short(2, "nn", "r", 1)},
   decimals |-> [k \in {"plain"} |-> 0]]
C == INSTANCE Corrections WITH
       Scenes <- {Line("direction", Good(1), NoObs, Good(7)), Line("direction", Good(0), Good(3), Data(5, Rej, 0, 2, 10)),
                  Line("plain", Good(-1), Lost, Data(Mis, 4, 0, 1, 5)),
                  Line("rr", Good(3), Data(Mis, Mis, 2, 3, 0), Good(6)),
                  Alone("plain", Good(3), Lost), Alone("rr", Data(5, 2, 4, 4, 7), NoObs),
                  Pair(Good(3), Lost), Pair(NoObs, Good(1)), Pair(NoObs, NoObs)},
       Boxed <- {<< "plain", 5 >>, << "plain", 6 >>, << "rr", 5 >>, << "rr", 6 >>, << "vx", 0 >>},
       Selections <- {{<< k, 0 >>, << k, 1 >>, << k, 3 >>} : k \in {"direction", "plain", "rr"}}
                     \cup {{<< "plain", 1 >>}, {<< "rr", 1 >>}},
       Texts <- {[kind |-> "empty"], Word("r"), Word("dis"), Word("haze"), Number(0, 0), Number(5, 1), Number(Mis, 0),
                 Vx(3, 2), Vx(2, 1)},
       Tables <- CodeTables, Languages <- << "nb", "en" >>, WholeKinds <- {"direction"}, VxCodes <- {0, 1, 3},
       Models <- {4}, Lowest <- -3, Highest <- 8, Circle <- 8, MaxEdits <- 3
ASSUME CorrectionsAssumption == C!CorrectionsConstants

-----------------------------------------------------------------------------
vars == << part, checked, shown, request, found, buffers, queued, lost, tables, codes,
           pgms, requests, broken, limits, stations, listStat, manual, disk,
           age, options, columns, cards, chooser, fetched, jumped, dialog,
           checks, clients, active, helper, sent, letters, window, edits,
           buttons, service, dialogs, settings, history, sCode2Text, obs, box,
           selection, tool, past >>
no == << >>

NoChecked == checked = no
NoShown == shown = no
NoRequest == request = no
NoD == found = no /\ buffers = no /\ queued = no /\ lost = no
NoT == tables = no /\ codes = no /\ pgms = no /\ requests = no /\ broken = no
NoL == limits = no
NoI == stations = no /\ listStat = no /\ manual = no /\ disk = no /\ age = no
NoS == options = no /\ columns = no /\ cards = no
NoH == chooser = no /\ fetched = no /\ jumped = no
NoG == dialog = no /\ checks = no
NoN == clients = no /\ active = no /\ helper = no /\ sent = no /\ letters = no
NoW == window = no /\ edits = no /\ buttons = no /\ service = no /\ dialogs = no /\ settings = no /\ history = no
NoC == sCode2Text = no /\ obs = no /\ box = no /\ selection = no /\ tool = no /\ past = no

Init ==
  \/ part = "models" /\ D!Init
     /\ NoChecked /\ NoShown /\ NoRequest /\ NoT /\ NoL /\ NoI /\ NoS /\ NoH /\
     NoG /\ NoN /\ NoW /\ NoC
  \/ part = "tables" /\ T!Init
     /\ NoChecked /\ NoShown /\ NoRequest /\ NoD /\ NoL /\ NoI /\ NoS /\ NoH /\
     NoG /\ NoN /\ NoW /\ NoC
  \/ part = "limits" /\ T!LimitsInit
     /\ NoShown /\ NoRequest /\ NoD /\ NoT /\ NoI /\ NoS /\ NoH /\ NoG /\ NoN /\
     NoW /\ NoC
  \/ part = "stations" /\ I!Init
     /\ NoChecked /\ NoShown /\ NoRequest /\ NoD /\ NoT /\ NoL /\ NoS /\ NoH /\
     NoG /\ NoN /\ NoW /\ NoC
  \/ part = "cards" /\ S!Init
     /\ NoChecked /\ NoD /\ NoT /\ NoL /\ NoI /\ NoH /\ NoG /\ NoN /\ NoW /\ NoC
  \/ part = "chooser" /\ H!Init
     /\ NoChecked /\ NoShown /\ NoRequest /\ NoD /\ NoT /\ NoL /\ NoI /\ NoS /\
     NoG /\ NoN /\ NoW /\ NoC
  \/ part = "dialog" /\ G!Init
     /\ NoChecked /\ NoShown /\ NoD /\ NoT /\ NoL /\ NoI /\ NoS /\ NoH /\ NoN /\
     NoW /\ NoC
  \/ part = "diana" /\ N!Init
     /\ NoShown /\ NoRequest /\ NoD /\ NoT /\ NoL /\ NoI /\ NoS /\ NoH /\ NoG /\
     NoW /\ NoC
  \/ part = "window" /\ W!Init
     /\ NoChecked /\ NoRequest /\ NoD /\ NoT /\ NoL /\ NoI /\ NoS /\ NoH /\ NoG
     /\ NoN /\ NoC
  \/ part = "corrections" /\ C!Init
     /\ NoChecked /\ NoShown /\ NoRequest /\ NoD /\ NoT /\ NoL /\ NoI /\ NoS /\
     NoH /\ NoG /\ NoN /\ NoW

KeepD == UNCHANGED << found, buffers, queued, lost >>
KeepT == UNCHANGED << tables, codes, pgms, requests, broken >>
KeepL == UNCHANGED << limits >>
KeepI == UNCHANGED << stations, listStat, manual, disk, age >>
KeepS == UNCHANGED << options, columns, cards >>
KeepH == UNCHANGED << chooser, fetched, jumped >>
KeepG == UNCHANGED << dialog, checks >>
KeepN == UNCHANGED << clients, active, helper, sent, letters >>
KeepW == UNCHANGED << window, edits, buttons, service, dialogs, settings, history >>
KeepC == UNCHANGED << sCode2Text, obs, box, selection, tool, past >>

Next ==
  /\ UNCHANGED part
  /\ \/ part = "models" /\ D!Next
        /\ UNCHANGED << checked, shown, request >> /\ KeepT /\ KeepL /\ KeepI /\
        KeepS /\ KeepH /\ KeepG /\ KeepN /\ KeepW /\ KeepC
     \/ part = "tables" /\ T!Next
        /\ UNCHANGED << checked, shown, request >> /\ KeepD /\ KeepL /\ KeepI /\
        KeepS /\ KeepH /\ KeepG /\ KeepN /\ KeepW /\ KeepC
     \/ part = "limits" /\ T!LimitsNext
        /\ UNCHANGED << shown, request >> /\ KeepD /\ KeepT /\ KeepI /\ KeepS /\
        KeepH /\ KeepG /\ KeepN /\ KeepW /\ KeepC
     \/ part = "stations" /\ I!Next
        /\ UNCHANGED << checked, shown, request >> /\ KeepD /\ KeepT /\ KeepL /\
        KeepS /\ KeepH /\ KeepG /\ KeepN /\ KeepW /\ KeepC
     \/ part = "cards" /\ S!Next
        /\ UNCHANGED << checked >> /\ KeepD /\ KeepT /\ KeepL /\ KeepI /\ KeepH
        /\ KeepG /\ KeepN /\ KeepW /\ KeepC
     \/ part = "chooser" /\ H!Next
        /\ UNCHANGED << checked, shown, request >> /\ KeepD /\ KeepT /\ KeepL /\
        KeepI /\ KeepS /\ KeepG /\ KeepN /\ KeepW /\ KeepC
     \/ part = "dialog" /\ G!Next
        /\ UNCHANGED << checked, shown >> /\ KeepD /\ KeepT /\ KeepL /\ KeepI /\
        KeepS /\ KeepH /\ KeepN /\ KeepW /\ KeepC
     \/ part = "diana" /\ N!Next
        /\ UNCHANGED << shown, request >> /\ KeepD /\ KeepT /\ KeepL /\ KeepI /\
        KeepS /\ KeepH /\ KeepG /\ KeepW /\ KeepC
     \/ part = "window" /\ W!Next
        /\ UNCHANGED << checked, request >> /\ KeepD /\ KeepT /\ KeepL /\ KeepI
        /\ KeepS /\ KeepH /\ KeepG /\ KeepN /\ KeepC
     \/ part = "corrections" /\ C!Next
        /\ UNCHANGED << checked, shown, request >> /\ KeepD /\ KeepT /\ KeepL /\
        KeepI /\ KeepS /\ KeepH /\ KeepG /\ KeepN /\ KeepW

Spec == Init /\ [][Next]_vars

-----------------------------------------------------------------------------
(* What is asked is answered with what the databases have: model values    *)
(* and observation programs whoever asks first, limits of the time of the  *)
(* observation, details of stations also from the copy on disk, and the    *)
(* columns of the station that was navigated to, whichever answer comes    *)
(* last (KvalobsModelAccess, KvMetaDataBuffer, CachedParamLimits,          *)
(* StationInfoBuffer, StationDataList, StationCardModel).                  *)
SourcesAnswer ==
  /\ part = "models"   => D!NoValueForgotten
  /\ part = "tables"   => T!ProgramsAnswered
  /\ part = "limits"   => T!LimitsInForce
  /\ part = "stations" => I!DetailsTrue
  /\ part = "cards"    => S!ListOfStation /\ S!CardsOfNearest

(* What can be chosen fits together: the boxes of the sensor chooser, the  *)
(* check the station dialog starts, the client Diana is in step with, and  *)
(* what the main window shows, offers and asks (SensorChooser,             *)
(* WatchRRStationDialog, DianaHelper, HqcAppWindow).                       *)
DialogsAgree ==
  /\ part = "chooser" => H!ChoiceExists
  /\ part = "dialog"  => G!CheckOfReported
  /\ part = "diana"   => N!ClientInStep
  /\ part = "window"  => W!WindowInStep

(* Corrections made by hand in any order leave flags that agree with the   *)
(* values, originals as they were and daily sums to their own dialog; what *)
(* is typed or interpolated is stored; and the buttons beside a table can  *)
(* be done to all that is selected (DataCorrectedItem, DataVxItem,         *)
(* SimpleCorrections, AcceptRejectButtons, ToolInterpolate).               *)
EditsKeepRules == part = "corrections" => C!EditsKeepRules
=============================================================================
