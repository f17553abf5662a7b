------------------------------- MODULE DianaTimes -------------------------------
(***************************************************************************)
(* DianaHelper and its clients: the search windows and dialogs for daily   *)
(* precipitation of the program, one of which, at most, shares its time    *)
(* with the Diana weather maps on the coserver.  Letters of Diana wait in  *)
(* a queue while the user navigates.                                       *)
(***************************************************************************)
EXTENDS Integers, Sequences, FiniteSets

CONSTANTS
  Searches, Cards,   \* clients: of search windows, and of dialogs (WatchRRDianaClient)
  Sensors, Times,
  Hours,             \* half the default time span of a sensor
  CardTimes,         \* the days of a dialog
  Dianas,            \* Diana programs on the coserver
  MaxLetters         \* bound on the queue

VARIABLES
  clients,           \* of each client that exists: sensor, time, times (first, last)
  active,            \* mActiveClient, or "none"
  checked,           \* clients whose tool button is checked
  helper,            \* mDianaTime and mConnected
  sent,              \* the last list of times and the last time sent
  letters            \* from the coserver


Clients   == Searches \cup Cards
None      == "none"
Undefined == 0                    \* not a date and time; no sensor
NoTimes   == << >>

Init ==
  /\ clients = << >>
  /\ active = None /\ checked = {}
  /\ helper = [time |-> Undefined, connected |-> {}]
  /\ sent = [times |-> NoTimes, time |-> Undefined]
  /\ letters = << >>

-----------------------------------------------------------------------------
(* sendTimes and sendTime, to all or to one that is connected; a time that *)
(* is thought to be known is not sent.                                     *)
Told(h, s, t) ==
  IF t = Undefined \/ h.time = t THEN << h, s >> ELSE << [h EXCEPT !.time = t], [s EXCEPT !.time = t] >>

SendActiveTimes(h, s, client) ==
  IF client.times = NoTimes THEN << h, s >> ELSE Told(h, [s EXCEPT !.times = client.times], client.time)
Activated(h, s, client) == SendActiveTimes(h, s, client)

Sends(pair) == helper' = pair[1] /\ sent' = pair[2]

(* replaceActiveClient: the button of the one before is unchecked, which   *)
(* makes no client active on the way, and the button of the new one is     *)
(* checked.                                                                *)
Others(c) == checked \ {active, c}

(* The constructor of a client makes it active, before it has any times;   *)
(* those of a dialog are set afterwards, and not sent.                     *)
Create(c) ==
  /\ c \notin DOMAIN clients
  /\ clients' = [d \in DOMAIN clients \cup {c} |->
       IF d = c THEN [sensor |-> Undefined, time |-> Undefined,
                      times |-> IF c \in Cards THEN CardTimes ELSE NoTimes]
       ELSE clients[d]]
  /\ active' = c
  /\ checked' = Others(c) \cup {c}
  /\ UNCHANGED << helper, sent, letters >>

(* The tool button.                                                        *)
Toggle(c) ==
  /\ c \in DOMAIN clients
  /\ IF c = active
     THEN active' = None /\ checked' = checked \ {c} /\ UNCHANGED << helper, sent >>
     ELSE active' = c /\ checked' = Others(c) \cup {c} /\ Sends(Activated(helper, sent, clients[c]))
  /\ UNCHANGED << clients, letters >>

Close(c) ==
  /\ c \in DOMAIN clients
  /\ clients' = [d \in DOMAIN clients \ {c} |-> clients[d]]
  /\ active' = IF c = active THEN None ELSE active
  /\ checked' = checked \ {c}
  /\ UNCHANGED << helper, sent, letters >>

-----------------------------------------------------------------------------
(* navigateTo of a client: a search window makes a new list for another    *)
(* sensor, or for a time outside of its list; a dialog keeps its days.     *)
NewList(c, sensor, time) ==
  LET client == clients[c] IN
  /\ c \in Searches
  /\ sensor # client.sensor \/ client.times = NoTimes
       \/ time < client.times[1] \/ client.times[2] < time
Navigated(c, sensor, time) ==
  [sensor |-> sensor, time |-> time,
   times |-> IF NewList(c, sensor, time) THEN << time - Hours, time + Hours >> ELSE clients[c].times]

NavigateTo(c, sensor, time) ==
  /\ c \in DOMAIN clients
  /\ << sensor, time >> # << clients[c].sensor, clients[c].time >>
  /\ LET client == Navigated(c, sensor, time)
         listed == IF NewList(c, sensor, time) THEN [sent EXCEPT !.times = client.times] ELSE sent
     IN /\ clients' = [clients EXCEPT ![c] = client]
        /\ IF c = active THEN Sends(Told(helper, listed, time)) ELSE UNCHANGED << helper, sent >>
  /\ UNCHANGED << active, checked, letters >>

-----------------------------------------------------------------------------
(* Diana connects, changes its time, leaves; the coserver goes away.       *)
Letter(command, diana, time) ==
  /\ Len(letters) < MaxLetters
  /\ letters' = Append(letters, [command |-> command, from |-> diana, time |-> time])
  /\ UNCHANGED << clients, active, checked, helper, sent >>

HandleDisconnect ==
  /\ helper.connected # {}
  /\ helper' = [helper EXCEPT !.connected = {}]
  /\ letters' = << >>
  /\ UNCHANGED << clients, active, checked, sent >>

(* processLetter: a new Diana gets the list and, unless some Diana already *)
(* has it, the time.  A time selected in Diana goes to the active client,  *)
(* whose window navigates there and is asked to tell Diana nothing new.    *)
NewClient(letter) ==
  LET h == [helper EXCEPT !.connected = @ \cup {letter.from}] IN
  /\ letter.command = "newclient"
  /\ IF active = None THEN helper' = h /\ UNCHANGED sent
     ELSE Sends(SendActiveTimes(h, sent, clients[active]))
  /\ UNCHANGED clients

RemoveClient(letter) ==
  /\ letter.command = "removeclient"
  /\ helper' = [helper EXCEPT !.connected = @ \ {letter.from}]
  /\ UNCHANGED << clients, sent >>

TimeChanged(letter) ==
  /\ letter.command = "timechanged"
  /\ IF letter.from \in helper.connected /\ letter.time # helper.time
     THEN /\ helper' = [helper EXCEPT !.time = letter.time]
          /\ clients' = IF active = None THEN clients
                        ELSE [clients EXCEPT ![active].time = letter.time]
     ELSE UNCHANGED << helper, clients >>
  /\ UNCHANGED sent

ProcessLetter ==
  /\ letters # << >>
  /\ \/ NewClient(Head(letters))
     \/ RemoveClient(Head(letters))
     \/ TimeChanged(Head(letters))
  /\ letters' = Tail(letters)
  /\ UNCHANGED << active, checked >>

Next ==
  \/ \E c \in Clients : Create(c)
  \/ \E c \in Clients : Toggle(c)
  \/ \E c \in Clients : Close(c)
  \/ \E c \in Clients, s \in Sensors, t \in Times : NavigateTo(c, s, t)
  \/ \E d \in Dianas, k \in {"newclient", "removeclient"} : Letter(k, d, Undefined)
  \/ \E d \in Dianas, t \in Times : Letter("timechanged", d, t)
  \/ HandleDisconnect
  \/ ProcessLetter

-----------------------------------------------------------------------------
(* The tool buttons show which client is active, and what the helper takes *)
(* to be the time of Diana is the time of that client, through changes of  *)
(* the client and letters that cross the user's navigation; the list that  *)
(* was sent last is the one of an active search window.  (A search window  *)
(* has nothing to tell until it has been navigated to.)                    *)
ClientInStep ==
  /\ checked = {active} \ {None}
  /\ active # None => active \in DOMAIN clients
  /\ active # None /\ clients[active].times # NoTimes /\ clients[active].time # Undefined =>
       helper.time = clients[active].time
  /\ active \in Searches /\ clients[active].times # NoTimes =>
       sent.times = clients[active].times
=============================================================================
