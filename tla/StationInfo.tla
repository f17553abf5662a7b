------------------------------- MODULE StationInfo -------------------------------
(***************************************************************************)
(* StationInfoBuffer and StInfoSysBuffer: the list of stations that the    *)
(* search dialogs show, with municipality, county, priority and coast, and *)
(* the types that are entered by hand.  It is read at most once an hour    *)
(* from stinfosys, and from the copy kept on disk when that fails.  A list *)
(* read from the copy is appended to what is there.                        *)
(***************************************************************************)
EXTENDS Integers, Sequences

CONSTANTS
  StationTable,    \* stations of kvalobs as listed, a number may come twice
  MunicipOf,       \* of the stations of stinfosys that have programs, their municipality
  Municips,        \* rows of the table of municipalities: id, country, code, name
  CountyMap,       \* stationinfo_county_map: country, divide, code, county
  Priorities,      \* stationinfo_priorities, a function of stations, empty without the table
  Coastal,         \* stationinfo_coastal
  Manual,          \* message formats that are read manually
  Norway, NorwayRemap,   \* its country, and its first municipality (100)
  MaxLength        \* bound on the list

VARIABLES
  stations,        \* KvMetaDataBuffer::allStations has been filled
  listStat, manual,
  disk,            \* the tables of the configuration database, << >> before they are made
  age              \* hours since mLastStationListUpdate: "never", "fresh" or "old"


Init ==
  /\ stations = FALSE
  /\ listStat = << >> /\ manual = {} /\ disk = << >> /\ age = "never"

(* County of a municipality: its own entry in the map, else the name of    *)
(* the row with the number of its county, which has come before it.        *)
Other == "OTHER"
Remappings(row) ==
  {m \in CountyMap : m.country = row.country /\ m.code = row.code \div m.divide}
Remapped(row) ==
  IF Remappings(row) = {} THEN "" ELSE (CHOOSE m \in Remappings(row) : TRUE).county
CountyRow(i) == {j \in 1 .. i - 1 : Municips[j].id = Municips[i].id \div 100}
CountyName(i) ==
  LET row == Municips[i]
      own == row.country = Norway /\ row.id >= NorwayRemap
  IN CASE row.id = 0 -> Other
       [] row.id # 0 /\ Remapped(row) # "" -> Remapped(row)
       [] row.id # 0 /\ Remapped(row) = "" /\ own /\ CountyRow(i) # {} ->
            Municips[CHOOSE j \in CountyRow(i) : TRUE].name
       [] OTHER -> Other
Info == [id \in {Municips[i].id : i \in 1 .. Len(Municips)} |->
          LET i == CHOOSE j \in 1 .. Len(Municips) : Municips[j].id = id
          IN [county |-> CountyName(i),
              municip |-> IF id = 0 \/ Municips[i].name = "" THEN Other ELSE Municips[i].name]]

Details(s) ==
  [station |-> s, county |-> Info[MunicipOf[s]].county, municip |-> Info[MunicipOf[s]].municip,
   id |-> MunicipOf[s], prio |-> IF s \in DOMAIN Priorities THEN Priorities[s] ELSE 0,
   coast |-> s \in Coastal]

(* readFromStInfoSys: stations without a municipality are left out, and a  *)
(* number is taken once.                                                   *)
Known(s)   == s \in DOMAIN MunicipOf /\ MunicipOf[s] \in DOMAIN Info
Listed     == IF stations THEN StationTable ELSE << >>
FirstAt(i) == \A j \in 1 .. i - 1 : Listed[j] # Listed[i]
FromStInfoSys ==
  LET at == SelectSeq([i \in 1 .. Len(Listed) |-> i], LAMBDA i : Known(Listed[i]) /\ FirstAt(i))
  IN [k \in 1 .. Len(at) |-> Details(Listed[at[k]])]

(* readFromStationFile: details of a station that kvalobs does not list    *)
(* are skipped (findStation throws); the manual types are replaced.        *)
FromFile ==
  IF disk = << >> THEN << >>
  ELSE SelectSeq(disk.stations,
                 LAMBDA d : \E i \in 1 .. Len(Listed) : Listed[i] = d.station)

-----------------------------------------------------------------------------
StationsRead == ~stations /\ stations' = TRUE /\ UNCHANGED << listStat, manual, disk, age >>

HourPasses == age = "fresh" /\ age' = "old" /\ UNCHANGED << stations, listStat, manual, disk >>

(* getStationDetails and getManualTypes: the time is noted before reading, *)
(* so a failure too is looked at again after an hour.  Where stinfosys     *)
(* fails: not connected, no priorities and no coast, the municipalities or *)
(* the stations cannot be read, or, with the list already replaced and the *)
(* copy not written, the manual types.                                     *)
ReadAll ==
  /\ listStat' = FromStInfoSys
  /\ manual' = Manual
  /\ disk' = [stations |-> FromStInfoSys, manual |-> Manual]

ReadFile(before) ==
  /\ Len(before \o FromFile) <= MaxLength
  /\ listStat' = before \o FromFile
  /\ manual' = IF disk = << >> THEN manual ELSE disk.manual
  /\ UNCHANGED disk

NothingToRead == DOMAIN Priorities = {} /\ Coastal = {}

Refresh(fails) ==
  /\ age # "fresh"
  /\ age' = "fresh"
  /\ CASE fails = "none" /\ ~NothingToRead -> ReadAll
       [] fails = "types" /\ ~NothingToRead -> ReadFile(FromStInfoSys)
       [] OTHER -> ReadFile(listStat)
  /\ UNCHANGED stations

(* The program starts again, with the copy of the session before.          *)
Restart ==
  /\ age # "never"
  /\ stations' = FALSE /\ listStat' = << >> /\ manual' = {} /\ age' = "never"
  /\ UNCHANGED disk

Next == \/ StationsRead
        \/ HourPasses
        \/ \E fails \in {"none", "first", "types"} : Refresh(fails)
        \/ Restart

-----------------------------------------------------------------------------
(* What is listed of a station is what stinfosys says of it, also when it  *)
(* comes from the copy on disk; the copy lists no station twice, and the   *)
(* manual types are all of them or, before the first success, none.        *)
DetailsTrue ==
  /\ \A i \in 1 .. Len(listStat) : listStat[i] = Details(listStat[i].station)
  /\ disk # << >> => \A i, j \in 1 .. Len(disk.stations) :
       disk.stations[i].station = disk.stations[j].station => i = j
  /\ manual \in {{}, Manual} /\ (disk # << >> /\ age # "never" => manual = Manual)
=============================================================================
