-------------------------------- MODULE WatchRR --------------------------------
(***************************************************************************)
(* The WatchRR dialog (src/src/watchrr/WatchRRDialog.cc) with the edit and *)
(* redistribution dialogs it opens, over a TaskAccess of its own, which is *)
(* an EditAccess whose edits carry tasks.  The tasks stay in the dialog:   *)
(* the parent access knows nothing of them, and an edit with a required    *)
(* task cannot be saved into it.                                           *)
(*                                                                         *)
(* The entries that one version makes for a cell are kept as one, its last *)
(* one; the dialogs' own TaskAccess, which holds one version and is stored *)
(* as a whole, is the [card, stored] that RR24's operations work on.       *)
(***************************************************************************)
EXTENDS RR24

CONSTANTS
  FirstDay, LastDay,   \* the days of the card
  Cards,         \* the cards that the parent access may hold at first
  Changes,       \* what other windows may store: set of << cell, data >>
  Amounts,       \* the values that the user may enter
  Weights,       \* the neighbours' mean precipitation of each day, negative for dry
  MaxRows,       \* bound on the days of a selection
  MaxVersion,    \* bound on the versions of a session
  MaxSessions    \* bound on the times the dialog is opened

Days == FirstDay .. LastDay
Cells == Pars \X Days

\* Observations as the dialog sees them, and as the parent access holds them.
\* The flag fmis has five values.
ControlInfo == {ci \in [Flags -> Values] : ci.fmis <= 4}
Tasks == ALL_RR24_TASKS \cup {"fcc_error"}
Tasked == [original : Int, corrected : Int, tasks : SUBSET Tasks, ci : ControlInfo]
Untaskeds == {obs \in Tasked : obs.tasks = {}}

ASSUME DayAssumption == FirstDay \in Int /\ LastDay \in Int /\ FirstDay <= LastDay
ASSUME CardAssumption ==
  /\ IsFiniteSet(Pars) /\ RR_24 \in Pars /\ NoObs \notin Tasked
  /\ Cards \subseteq [Cells -> Untaskeds \cup {NoObs}] /\ Changes \subseteq Cells \X Untaskeds
ASSUME InputAssumption ==
  Amounts \subseteq Int /\ Weights \subseteq [1 .. LastDay - FirstDay + 1 -> Int]

VARIABLES
  parent,    \* what mParentDA holds
  da,        \* mDA: its version lists, current and highest version, mUpdated
  dialog,    \* "closed" or "open"
  editable,  \* mEditableTime
  sel,       \* the selection in the station card, << >> or << [lo, hi, col] >>
  buttons,   \* which buttons are enabled
  sub,       \* the open edit or redistribution dialog, << >> or << [...] >>
  sessions,  \* how often the dialog was opened
  atOpen,    \* history: the card when the dialog was opened
  taken,     \* history: of each version, what the user did to which days of RR_24
  stale      \* history: what others' changes came after: selection, opening

vars == << parent, da, dialog, editable, sel, buttons, sub, sessions, atOpen, taken, stale >>

MissingObs == DataOf(CreateUpdate(<< RR_24, FirstDay >>, NoObs))
EV == INSTANCE EditVersions WITH Val <- Tasked, NoData <- NoObs, Missing <- MissingObs

Untasked(obs) == IF obs = NoObs THEN NoObs ELSE [obs EXCEPT !.tasks = {}]
SelButtons == {"edit", "accept", "redist", "redistQC2"}

\* What TaskAccess::findE gives for every cell, and the start of an operation.
View(a) == [c \in Cells |-> IF c \in DOMAIN a.edited THEN EV!CurrentData(a.edited[c])
                            ELSE parent[c]]
Fresh(card) == [card |-> card, stored |-> {}]
Work == Fresh(View(da))

NoEdits == [edited |-> [c \in {} |-> NoObs], current |-> 0, highest |-> 0, updated |-> 0]

\* EditAccess::newVersion, then storeUpdates of what the operation stored.
NewVersion(a) ==
  [a EXCEPT !.current = @ + 1, !.highest = a.current + 1,
            !.edited = [c \in DOMAIN @ |-> EV!DropVersionsFrom(@[c], a.current + 1)]]
Stored(a, work) ==
  LET hidden == {c \in DOMAIN a.edited : EV!CurrentVersion(a.edited[c]) > 0}
  IN  [a EXCEPT
        !.edited = [c \in DOMAIN @ \cup work.stored |->
           IF c \notin work.stored THEN @[c]
           ELSE IF c \in DOMAIN @ THEN EV!AddVersion(@[c], a.current, work.card[c])
           ELSE EV!NewVersions(parent[c], a.current, work.card[c])],
        !.updated = @ + Cardinality(work.stored \ hidden)]

\* updateToPreviousVersion and updateToNextVersion
MovedTo(a, n) ==
  LET moved == [c \in DOMAIN a.edited |-> EV!SetVersion(a.edited[c], n)]
  IN  [a EXCEPT !.current = n, !.edited = moved,
         !.updated = Cardinality({c \in DOMAIN moved : EV!CurrentVersion(moved[c]) > 0})]

\* enableSave, connected to currentVersionChanged
EnableSave(b, a) ==
  (b \ {"save", "undo", "redo"})
    \cup (IF a.updated > 0 THEN {"save"} ELSE {})
    \cup (IF a.current > 1 THEN {"undo"} ELSE {})
    \cup (IF a.current < a.highest THEN {"redo"} ELSE {})

Init ==
  /\ parent \in Cards
  /\ da = NoEdits /\ dialog = "closed" /\ editable = << FirstDay, LastDay >>
  /\ sel = << >> /\ buttons = {} /\ sub = << >> /\ sessions = 0
  /\ atOpen = parent /\ taken = << >> /\ stale = {}

Took(how, days) == [how |-> how, days |-> days]

(* The constructor and initializeRR24Data. *)
Open ==
  /\ dialog = "closed" /\ sessions < MaxSessions
  /\ dialog' = "open" /\ sessions' = sessions + 1
  /\ editable' = EditableSpan(Fresh(parent), FirstDay, LastDay)
  /\ LET rr  == Analyse(Fresh(parent), editable')
         fcc == FccAnalyse(rr, editable'[1], editable'[2])
     IN  da' = Stored(NewVersion(NoEdits), fcc)
  /\ buttons' = EnableSave({}, da') /\ sel' = << >> /\ sub' = << >>
  /\ atOpen' = parent /\ taken' = << Took("analysis", {}) >> /\ stale' = {}
  /\ UNCHANGED parent

-----------------------------------------------------------------------------
(* onSelectionChanged.  Only the corrected column has flags that follow    *)
(* the editable span (EditTimeColumn), and isRR24Selection calls a         *)
(* selection in the original column one in the corrected column as well.   *)
ButtonsFor(a, s) ==
  LET card == Fresh(View(a))
  IN  IF s.col = "row" THEN {"accept"}
      ELSE {"edit"}
           \cup (IF CanAccept(card, s.lo, s.hi, TRUE) THEN {"accept"} ELSE {})
           \cup (IF s.hi > s.lo THEN {"redist"} ELSE {})
           \cup (IF CanRedistributeInQC2(card, s.lo, s.hi) THEN {"redistQC2"} ELSE {})

Selectable(col) == IF col = "corrected" THEN editable[1] .. editable[2] ELSE Days

Select(lo, hi, col) ==
  /\ dialog = "open" /\ sub = << >>
  /\ lo <= hi /\ hi - lo < MaxRows /\ {lo, hi} \subseteq Selectable(col) /\ (col = "row" => lo = hi)
  /\ sel' = << [lo |-> lo, hi |-> hi, col |-> col] >>
  /\ sel' # sel
  /\ buttons' = (buttons \ SelButtons) \cup ButtonsFor(da, sel'[1])
  /\ stale' = stale \ {"selection"}
  /\ UNCHANGED << parent, da, dialog, editable, sub, sessions, atOpen, taken >>

\* After each operation the selection is cleared, and its buttons with it.
KeepSelection(a) == \* mistake: clearSelection is forgotten
  sel' = sel /\ buttons' = EnableSave(buttons, a) /\ stale' = stale
ClearSelection(a) ==
  /\ sel' = << >> /\ buttons' = EnableSave(buttons \ SelButtons, a)
  /\ stale' = stale \ {"selection"}

Operation(work, took) ==
  /\ da.current < MaxVersion
  /\ da' = Stored(NewVersion(da), work)
  /\ taken' = Append(SubSeq(taken, 1, da.current), took)
  /\ ClearSelection(da')
  /\ UNCHANGED << parent, dialog, editable, sessions, atOpen >>

Pressed(b) == dialog = "open" /\ sub = << >> /\ sel # << >> /\ b \in buttons

(* onAcceptRow *)
AcceptRow ==
  /\ Pressed("accept") /\ UNCHANGED sub
  /\ LET s == sel[1]
         work == IF s.col = "row" THEN FccAcceptRow(Work, s.lo)
                 ELSE Accept(Work, s.lo, s.hi, TRUE)
     IN  IF s.col = "row" /\ work.stored = {}   \* no observation, no new version
           THEN /\ ClearSelection(da)
                /\ UNCHANGED << parent, da, dialog, editable, sessions, atOpen, taken >>
           ELSE Operation(work, Took("accept", {}))

(* onRedistributeQC2.  redistributeInQC2 throws when the card has changed  *)
(* since the button was enabled; nothing is changed then.                  *)
RedistributeQC2 ==
  /\ Pressed("redistQC2") /\ CanRedistributeInQC2(Work, sel[1].lo, sel[1].hi)
  /\ Operation(RedistributeInQC2(Work, sel[1].lo, sel[1].hi, editable),
               Took("redistQC2", sel[1].lo .. sel[1].hi - 1))
  /\ UNCHANGED sub

-----------------------------------------------------------------------------
(* The dialogs.  EditTableModel starts with what was done to a row before. *)
RowAr(obs) ==
  IF obs = NoObs \/ obs.ci.fhqc \in {0, 4} THEN "none"
  ELSE IF IsRejected(obs.ci, obs.corrected) THEN "reject" ELSE "accept"

OpenDialog(kind) ==
  /\ Pressed(kind) /\ da.current < MaxVersion
  /\ LET row(i) == Work.card[Cell(sel[1].lo + i - 1)]
         rows   == 1 .. sel[1].hi - sel[1].lo + 1
     IN  sub' = << [kind |-> kind,
                    values |-> [i \in rows |-> IF row(i) = NoObs THEN MISSING ELSE row(i).corrected],
                    ars |-> [i \in rows |-> RowAr(row(i))]] >>
  /\ UNCHANGED << parent, da, dialog, editable, sel, buttons, sessions, atOpen, taken, stale >>

SubChange(s) ==
  /\ sub' = << s >> /\ sub' # sub
  /\ UNCHANGED << parent, da, dialog, editable, sel, buttons, sessions, atOpen, taken, stale >>

(* EditTableModel::setData and RedistTableModel::setData *)
EnterValue(i, v) ==
  /\ sub # << >> /\ i \in DOMAIN sub[1].values /\ v # sub[1].values[i]
  /\ SubChange([sub[1] EXCEPT !.values[i] = v,
                  !.ars[i] = IF sub[1].kind = "edit" THEN "accept" ELSE @])

RejectRow(i) ==
  /\ sub # << >> /\ sub[1].kind = "edit" /\ i \in DOMAIN sub[1].ars
  /\ sub[1].ars[i] # "reject"
  /\ SubChange([sub[1] EXCEPT !.values[i] = REJECTED, !.ars[i] = "reject"])

CanBeAccepted(v) == v = DRY \/ v >= 0
AcceptOneRow(i) ==
  /\ sub # << >> /\ sub[1].kind = "edit" /\ i \in DOMAIN sub[1].ars
  /\ sub[1].ars[i] # "accept" /\ CanBeAccepted(sub[1].values[i])
  /\ SubChange([sub[1] EXCEPT !.ars[i] = "accept"])

(* acceptAll: a rejected row gets its corrected value back, whatever it is.*)
AcceptAll ==
  /\ sub # << >> /\ sub[1].kind = "edit"
  /\ LET s == sub[1]
         obs(i) == Work.card[Cell(sel[1].lo + i - 1)]
         back == {i \in DOMAIN s.ars : s.ars[i] = "reject" /\ obs(i) # NoObs}
         ok   == {i \in DOMAIN s.ars : s.ars[i] = "none" /\ CanBeAccepted(s.values[i])}
     IN  SubChange([s EXCEPT
           !.values = [i \in DOMAIN @ |-> IF i \in back THEN obs(i).corrected ELSE @[i]],
           !.ars = [i \in DOMAIN @ |-> IF i \in back \cup ok THEN "accept" ELSE @[i]]])

RejectAll ==
  /\ sub # << >> /\ sub[1].kind = "edit"
  /\ SubChange([sub[1] EXCEPT !.values = [i \in DOMAIN @ |-> IF sub[1].ars[i] = "reject"
                                                            THEN @[i] ELSE REJECTED],
                              !.ars = [i \in DOMAIN @ |-> "reject"]])

(* RedistDialog::onButtonAuto with redistributeProposal: the sum of the    *)
(* new values is divided like the neighbours' precipitation.               *)
Sums(s) ==
  LET upTo[n \in 0 .. Len(s)] == IF n = 0 THEN 0 ELSE upTo[n - 1] + Amount(s[n])
  IN  upTo
Proposal(values, weights) ==
  LET sum == Sums(values)[Len(values)]
      all == Sums(weights)[Len(values)]
      share(w) == (2 * sum * w + all) \div (2 * all)
  IN  [i \in DOMAIN values |-> IF sum > 0 /\ weights[i] > 0 THEN share(weights[i]) ELSE DRY]

ButtonAuto(weights) ==
  /\ sub # << >> /\ sub[1].kind = "redist"
  /\ SubChange([sub[1] EXCEPT !.values = Proposal(@, weights)])

\* The days that the open dialog will change.
SubDays(s) == {sel[1].lo + i - 1 : i \in {k \in DOMAIN s.ars : s.kind = "redist" \/ s.ars[k] # "none"}}

(* onButtonOk, accept and the rest of onEdit and onRedistribute. *)
SubOk ==
  /\ sub # << >> /\ sub' = << >>
  /\ Operation(IF sub[1].kind = "edit"
                THEN Singles(Work, sel[1].lo, editable, sub[1].values, sub[1].ars)
                ELSE Redistribute(Work, sel[1].lo, editable, sub[1].values),
               Took(sub[1].kind, SubDays(sub[1])))

SubCancel ==
  /\ sub # << >> /\ sub' = << >>
  /\ UNCHANGED << parent, da, dialog, editable, sel, buttons, sessions, atOpen, taken, stale >>

-----------------------------------------------------------------------------
(* onUndo; version 1 is the analysis. *)
UndoRedo(n) ==
  /\ da' = MovedTo(da, n) /\ ClearSelection(da')
  /\ UNCHANGED << parent, dialog, editable, sub, sessions, atOpen, taken >>
Undo ==
  /\ dialog = "open" /\ sub = << >> /\ da.current > 1 /\ UndoRedo(da.current - 1)
Redo ==
  /\ dialog = "open" /\ sub = << >> /\ da.current < da.highest /\ UndoRedo(da.current + 1)

Close ==
  /\ dialog = "open" /\ sub = << >> /\ dialog' = "closed"
  /\ da' = NoEdits /\ buttons' = {} /\ sel' = << >> /\ taken' = << >> /\ stale' = {}
  /\ UNCHANGED << sub, editable, sessions, atOpen >>

(* The edits that TaskAccess::fillBackendupdate cannot give to the parent; *)
(* one of them, and storeToBackend puts everything back.                   *)
RefuseNone(a) == {}   \* mistake: the required tasks are not looked at
Refused(a) ==
  {c \in DOMAIN a.edited : EV!CurrentData(a.edited[c]).tasks \cap RequiredTasks # {}}

(* WatchRRDialog::accept: the dialog closes, also when nothing was saved.  *)
Save ==
  /\ "save" \in buttons /\ Close
  /\ parent' = IF Refused(da) # {} THEN parent
               ELSE [c \in Cells |-> IF c \in DOMAIN da.edited
                                       THEN Untasked(EV!CurrentData(da.edited[c]))
                                       ELSE parent[c]]

(* WatchRRDialog::reject *)
Discard == Close /\ UNCHANGED parent

(* Others change the parent; handleBackendUpdate of mDA. *)
Noted(a, c, d) ==
  [a EXCEPT !.edited = [x \in DOMAIN @ |-> IF x = c THEN EV!UpdateBackend(@[x], d) ELSE @[x]]]
ParentChange(c, d) ==
  /\ dialog = "open" /\ stale = {} /\ parent[c] # d
  /\ parent' = [parent EXCEPT ![c] = d]
  /\ da' = Noted(da, c, d)
  /\ stale' = {"opening", "selection"}
  /\ UNCHANGED << dialog, editable, sel, buttons, sub, sessions, atOpen, taken >>

Next ==
  \/ Open
  \/ \E lo, hi \in Days, col \in {"corrected", "original", "row"} : Select(lo, hi, col)
  \/ AcceptRow \/ RedistributeQC2
  \/ OpenDialog("edit") \/ OpenDialog("redist")
  \/ \E i \in 1 .. LastDay - FirstDay + 1 : \/ \E v \in Amounts : EnterValue(i, v)
                                      \/ RejectRow(i) \/ AcceptOneRow(i)
  \/ AcceptAll \/ RejectAll \/ SubOk \/ SubCancel
  \/ \E w \in Weights : ButtonAuto(w)
  \/ Undo \/ Redo \/ Save \/ Discard
  \/ \E ch \in Changes : ParentChange(ch[1], ch[2])

Spec == Init /\ [][Next]_vars
-----------------------------------------------------------------------------
(* An accumulation of the opened card is whole, from a day on, if it goes  *)
(* on without a gap to an endpoint, redistributed in the same way as all   *)
(* its days.  The analysis marks a day of what is left of each that is not *)
(* whole, and none of those that are (analyse, AnalyseRR24.cc).            *)
Unended(card, d) == Here(card, d) /\ Acc(card, d) # NO /\ End(card, d) = NO
WholeAccumulation(card, d) ==
  \E e \in d + 1 .. editable[2] :
    /\ \A k \in d .. e : Here(card, k) /\ Acc(card, k) = Acc(card, d)
    /\ End(card, e) # NO /\ \A k \in d .. e - 1 : End(card, k) = NO
AnalysisComplete ==
  dialog = "open" /\ da.current = 1 /\ "opening" \notin stale =>
    \A d \in editable[1] .. editable[2] : Unended(Work, d) =>
      (~WholeAccumulation(Work, d)
         <=> \E k \in d .. editable[2] :
               /\ \A j \in d .. k : Unended(Work, j)
               /\ View(da)[Cell(k)].tasks \cap {"no_endpoint", "mixed_redistribution"} # {})

(* The buttons fit the selection and the card, over operations, undo and   *)
(* redo; only a change made by others can leave them behind.               *)
ButtonsCurrent ==
  dialog = "open" =>
    /\ "selection" \notin stale =>
         buttons \cap SelButtons = IF sel = << >> THEN {} ELSE ButtonsFor(da, sel[1])
    /\ "save" \in buttons
         <=> \E c \in DOMAIN da.edited : EV!CurrentVersion(da.edited[c]) > 0
    /\ "redo" \in buttons <=> da.current < da.highest

(* The day d belongs to the same accumulation as one of the days es. *)
Cut(card, d, es) ==
  LET joined(lo, hi) == \A k \in lo .. hi : Unended(card, k)
  IN  /\ Here(card, d) /\ Acc(card, d) # NO
      /\ \E e \in es : /\ Here(card, e) /\ Acc(card, e) # NO
                        /\ \/ e < d /\ joined(e, d - 1)
                           \/ e > d /\ joined(d, e - 1)

(* When an edit or a redistribution takes days out of an accumulation, its *)
(* other days within the editable span get a task, so that they are not    *)
(* forgotten ("mark all accumulation rows around period with task").       *)
CutIsMarked ==
  [][sub # << >> /\ sub' = << >> /\ da' # da =>
       \A d \in (editable[1] .. editable[2]) \ SubDays(sub[1]) :
         Cut(Work, d, SubDays(sub[1])) =>
           "previously_accumulation" \in View(da)'[Cell(d)].tasks]_vars

(* What a session saves does not leave the rest of an accumulation that it *)
(* cut in two: a day that the user did not handle himself.  A              *)
(* redistribution in QC2 alone is no cut, as it leaves its endpoint        *)
(* (hazard at AnalyseRR24.cc:260).                                         *)
TakenDays(n, hows) == UNION {taken[k].days : k \in {j \in 1 .. n : taken[j].how \in hows}}
NoRemnantSaved ==
  [][dialog = "open" /\ dialog' = "closed" /\ parent' # parent /\ "opening" \notin stale =>
       \A d \in (editable[1] .. editable[2])
                  \ TakenDays(da.current, {"edit", "redist", "redistQC2"}) :
         ~Cut(Fresh(parent), d, TakenDays(da.current, {"edit", "redist"}))]_vars

(* The accumulations cut off by the ends of the card cannot be changed     *)
(* from a selection in the corrected column.                               *)
AtEdge(card, d) ==
  /\ Here(card, d) /\ Acc(card, d) # NO
  /\ \/ \A k \in FirstDay .. d - 1 : Through(card, k)
     \/ \A k \in d .. LastDay : Through(card, k)
EdgesUntouched ==
  [][da'.current = da.current + 1 /\ sel # << >> /\ "opening" \notin stale
       /\ sel[1].col = "corrected" /\ (SubOk \/ AcceptRow \/ RedistributeQC2) =>
       \A d \in Days : AtEdge(Fresh(atOpen), d) =>
         Untasked(View(da)'[Cell(d)]) = Untasked(View(da)[Cell(d)])]_vars

(* The accept button is enabled only when all selected days are accepted:  *)
(* afterwards none of them still waits for the user.                       *)
AcceptSkipsNone ==
  [][da'.current = da.current + 1 /\ Pressed("accept") /\ sel[1].col # "row" /\ stale = {}
       /\ AcceptRow =>
       \A d \in sel[1].lo .. sel[1].hi :
         Here(Work, d) => View(da)'[Cell(d)].ci.fhqc \in {1, 5, 7}]_vars
=============================================================================
