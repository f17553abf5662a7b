-------------------------------- MODULE MainWindow --------------------------------
(***************************************************************************)
(* HqcAppWindow and HqcApplication, with the login of the reinserter       *)
(* (KvalobsReinserter, identifyUser, Authenticator, KvServiceHelper).  The *)
(* first save opens the login dialog in an event loop inside               *)
(* EditAccess::storeToBackend, whose changes are set aside as long; other  *)
(* programs' changes to kvalobs go on arriving.  The versions themselves   *)
(* are those of module EditAccess, here only as far as windows see them.   *)
(***************************************************************************)
EXTENDS Integers, Sequences, FiniteSets

CONSTANTS
  Obs,            \* observations
  MaxEdits,       \* bound on the changes made
  MaxNews,        \* bound on the changes of other programs
  Version         \* of the running program

VARIABLES
  window,         \* "start", "open", "login", "closed", "ended" or "aborted"
  edits,          \* versions, each a function of the changed observations, and the current one
  shown,          \* value of each observation in the views, and what kvalobs has
  buttons,        \* save, undo and redo
  service,        \* availability, its label, the operator logged in
  dialogs,        \* changes in the dialog for daily precipitation, if it is open
  settings,       \* saved version and language, and the timer of the check of the version
  history         \* changes made and news, what was set aside, agreed to lose and stored


None == << >>
Untouched == [o \in Obs |-> 0]

NoEdits == [versions |-> << >>, current |-> 0]
Buttons0 == [save |-> FALSE, undo |-> FALSE, redo |-> FALSE]
Service0 == [available |-> TRUE, label |-> TRUE, login |-> FALSE]
NoDialog == [open |-> FALSE, changed |-> None]

Init ==
  /\ window = "start"
  /\ edits = NoEdits
  /\ shown = [views |-> Untouched, kvalobs |-> Untouched]
  /\ buttons = Buttons0
  /\ service = Service0
  /\ dialogs = NoDialog
  /\ settings = [version |-> "??", timer |-> FALSE, language |-> ""]
  /\ history = [made |-> 0, news |-> 0, overtaken |-> {}, agreed |-> FALSE, stored |-> {}]

Fresh == history.made + 1
Now(e) == {o \in Obs : \E i \in 1 .. e.current : o \in DOMAIN e.versions[i]}
LastOf(e, o) ==
  LET at == {i \in 1 .. e.current : o \in DOMAIN e.versions[i]}
  IN e.versions[CHOOSE i \in at : \A j \in at : j <= i][o]
Value(e, k, o) == IF o \in Now(e) THEN LastOf(e, o) ELSE k[o]
Seen(e, k) == [o \in Obs |-> Value(e, k, o)]

(* onEditVersionChanged, on every currentVersionChanged of EditAccess.     *)
canUndo(e) == e.current > 0
canRedo(e) == e.current < Len(e.versions)
VersionChanged(e) == [save |-> canUndo(e), undo |-> canUndo(e), redo |-> canRedo(e)]

Edits(e) ==
  LET told == {o \in Obs : Value(e, shown.kvalobs, o) # Value(edits, shown.kvalobs, o)} IN
  /\ edits' = e
  /\ buttons' = VersionChanged(e)
  /\ shown' = [shown EXCEPT !.views = [o \in Obs |->
                 IF o \in told THEN Value(e, shown.kvalobs, o) ELSE @[o]]]

-----------------------------------------------------------------------------
(* startup: the news and the box about a changed version, with the version *)
(* saved before they are shown.                                            *)
Startup ==
  /\ window = "start"
  /\ window' = "open"
  /\ settings' = [settings EXCEPT !.version = Version, !.timer = TRUE]
  /\ UNCHANGED << edits, shown, buttons, service, dialogs, history >>

(* onVersionCheckTimeout: the timer is renewed when the file can be read.  *)
VersionCheck(readable) ==
  /\ window \in {"open", "login"} /\ settings.timer
  /\ settings' = [settings EXCEPT !.timer = readable]
  /\ UNCHANGED << window, edits, shown, buttons, service, dialogs, history >>

(* newVersion and storeUpdates of any view, with a change of o.            *)
WithVersion(e, change) ==
  [versions |-> Append(SubSeq(e.versions, 1, e.current), change), current |-> e.current + 1]
Change(o) ==
  /\ window = "open"
  /\ Fresh <= MaxEdits
  /\ Edits(WithVersion(edits, [p \in {o} |-> Fresh]))
  /\ history' = [history EXCEPT !.made = Fresh]
  /\ UNCHANGED << window, service, dialogs, settings >>

Undo ==
  /\ window = "open" /\ buttons.undo
  /\ canUndo(edits)
  /\ Edits([edits EXCEPT !.current = @ - 1])
  /\ UNCHANGED << window, service, dialogs, settings, history >>
Redo ==
  /\ window = "open" /\ buttons.redo
  /\ canRedo(edits)
  /\ Edits([edits EXCEPT !.current = @ + 1])
  /\ UNCHANGED << window, service, dialogs, settings, history >>

-----------------------------------------------------------------------------
(* storeToBackend: without an operator the login dialog comes first.  What *)
(* is stored is told to the views, and the versions are cleared; after a   *)
(* failure they are back, and nobody is told.                              *)
Cleared == [versions |-> << >>, current |-> 0]
Stored ==
  LET k == Seen(edits, shown.kvalobs) IN
  /\ edits' = Cleared
  /\ buttons' = VersionChanged(Cleared)
  /\ shown' = [views |-> k, kvalobs |-> k]
  /\ history' = [history EXCEPT !.stored = @ \cup {k[o] : o \in Now(edits)}, !.overtaken = {}]
NotStored == UNCHANGED << edits, buttons, shown, history >>

(* KvalobsReinserter::storeChanges, with an operator if kvalobs takes them *)
storeChanges(s, taken) == IF s.login /\ taken THEN Stored ELSE NotStored

Save(taken) ==
  /\ window = "open" /\ buttons.save
  /\ window' = IF service.login THEN "open" ELSE "login"
  /\ storeChanges(service, taken)
  /\ UNCHANGED << service, dialogs, settings >>

(* The login dialog stays until it is cancelled or name and password are   *)
(* right; then kvalobs is asked for the operator of that name, and may not *)
(* answer, or not know any.                                                *)
Available(s, a) == [s EXCEPT !.available = a, !.label = IF a # s.available THEN a ELSE @]
identifyOperator(s, who) == Available(s, who # "no answer")
authenticate(s, who) ==
  IF who = "cancelled" THEN s ELSE [identifyOperator(s, who) EXCEPT !.login = who = "operator"]
LoginEnds(outcome, taken) ==
  /\ window = "login"
  /\ window' = "open"
  /\ service' = authenticate(service, outcome)
  /\ storeChanges(service', taken)
  /\ UNCHANGED << dialogs, settings >>

(* checkKvalobsAvailability, every two minutes. *)
CheckAvailability(a) ==
  /\ window \in {"open", "login"}
  /\ a # service.available
  /\ service' = Available(service, a)
  /\ UNCHANGED << window, edits, shown, buttons, dialogs, settings, history >>

(* UserSettings: an accepted language is saved and installed, the label is *)
(* written anew.                                                           *)
AcceptLanguage ==
  /\ window = "open"
  /\ settings' = [settings EXCEPT !.language = IF @ = "" THEN "nb" ELSE ""]
  /\ service' = [service EXCEPT !.label = service.available]
  /\ UNCHANGED << window, edits, shown, buttons, dialogs, history >>

(* A change of another program.  EditAccess goes on showing its own, but   *)
(* while the login dialog is open it has none.                             *)
News(o) ==
  LET k == [shown.kvalobs EXCEPT ![o] = -history.news - 1]
      setAside == window = "login" /\ o \in Now(edits)
  IN
  /\ window \in {"open", "login"}
  /\ history.news < MaxNews
  /\ shown' = [kvalobs |-> k,
               views |-> [shown.views EXCEPT ![o] = IF setAside THEN k[o] ELSE Value(edits, k, o)]]
  /\ history' = [history EXCEPT !.news = @ + 1,
                                !.overtaken = IF setAside THEN @ \cup {o} ELSE @]
  /\ UNCHANGED << window, edits, buttons, service, dialogs, settings >>

-----------------------------------------------------------------------------
(* The dialog for daily precipitation works beside the window.  Saving it  *)
(* makes a version of EditAccess, cancelling asks when there are changes.  *)
OpenDialog ==
  /\ window = "open" /\ ~dialogs.open
  /\ dialogs' = [open |-> TRUE, changed |-> None]
  /\ UNCHANGED << window, edits, shown, buttons, service, settings, history >>
ChangeInDialog(o) ==
  /\ window = "open" /\ dialogs.open
  /\ Fresh <= MaxEdits
  /\ dialogs' = [dialogs EXCEPT !.changed =
                   [p \in DOMAIN @ \cup {o} |-> IF p = o THEN Fresh ELSE @[p]]]
  /\ history' = [history EXCEPT !.made = Fresh]
  /\ UNCHANGED << window, edits, shown, buttons, service, settings >>
AcceptDialog ==
  /\ window = "open" /\ dialogs.open /\ dialogs.changed # None
  /\ Edits(WithVersion(edits, dialogs.changed))
  /\ dialogs' = [open |-> FALSE, changed |-> None]
  /\ UNCHANGED << window, service, settings, history >>
RejectDialog ==
  /\ window = "open" /\ dialogs.open
  /\ dialogs' = NoDialog
  /\ UNCHANGED << window, edits, shown, buttons, service, settings, history >>

(* closeEvent asks when there are changes, of EditAccess: a change in an   *)
(* open dialog for daily precipitation goes unasked.                       *)
countU(e) == Cardinality(Now(e))
Close(discard) ==
  /\ window = "open"
  /\ discard \/ countU(edits) = 0
  /\ window' = "closed"
  /\ dialogs' = [open |-> FALSE, changed |-> None]
  /\ history' = [history EXCEPT !.agreed = countU(edits) # 0]
  /\ UNCHANGED << edits, shown, buttons, service, settings >>

(* fatalError, when a database cannot be opened: the program exits.        *)
FatalError ==
  /\ window \in {"start", "open", "login"}
  /\ window' = "aborted"
  /\ UNCHANGED << edits, shown, buttons, service, dialogs, settings, history >>

(* main goes on to finish when the window is closed.  Started again, the   *)
(* program has what was saved in its settings and stored in kvalobs.       *)
Finish ==
  /\ window = "closed"
  /\ window' = "ended"
  /\ UNCHANGED << edits, shown, buttons, service, dialogs, settings, history >>
Restart ==
  /\ window \in {"ended", "aborted"}
  /\ window' = "start"
  /\ edits' = NoEdits /\ buttons' = Buttons0 /\ service' = Service0 /\ dialogs' = NoDialog
  /\ shown' = [shown EXCEPT !.views = shown.kvalobs]
  /\ settings' = [settings EXCEPT !.timer = FALSE]
  /\ history' = [history EXCEPT !.overtaken = {}, !.agreed = FALSE]

Next ==
  \/ AcceptLanguage \/ Finish \/ Restart
  \/ Startup \/ Undo \/ Redo \/ OpenDialog \/ AcceptDialog \/ RejectDialog \/ FatalError
  \/ \E o \in Obs : Change(o) \/ ChangeInDialog(o) \/ News(o)
  \/ \E b \in BOOLEAN : VersionCheck(b) \/ Save(b) \/ CheckAvailability(b) \/ Close(b)
  \/ \E who \in {"cancelled", "no answer", "unknown", "operator"}, taken \in BOOLEAN : LoginEnds(who, taken)

-----------------------------------------------------------------------------
(* The buttons offer what can be done, the label tells what is known of    *)
(* kvalobs, and the views show the changes, also after a save that failed, *)
(* except of observations another program changed while the operator was   *)
(* logging in; the window is not closed on changes without asking; and     *)
(* what has been stored is not among the changes, also after a restart.    *)
WindowInStep ==
  /\ buttons = VersionChanged(edits)
  /\ service.label = service.available
  /\ window = "open" => \A o \in Obs \ history.overtaken :
       shown.views[o] = Value(edits, shown.kvalobs, o)
  /\ window = "closed" => history.agreed \/ Now(edits) = {}
  /\ \A o \in Now(edits) : LastOf(edits, o) \notin history.stored
=============================================================================
