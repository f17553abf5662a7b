------------------------------ MODULE SearchWindow ------------------------------
(***************************************************************************)
(* Navigation in one search window (src/src/hqc/SearchWindow.cc): its data *)
(* views, of which one tab is visible, the list of recent observations     *)
(* (NavigationHistory) with its dialog JumpToObservation, searches and     *)
(* Diana, and what the main window keeps for its next WatchRR dialog.      *)
(* A signal runs through all its slots in one step.  Other search windows  *)
(* share the settings with it.                                             *)
(***************************************************************************)
EXTENDS Navigation, SequencesExt, FiniteSets

CONSTANTS
  Views,       \* the data views
  Obs,         \* observations: records [sensor, time]
  RR24Obs,     \* those of RR_24, with a type of WatchRR
  Existing,    \* those that kvalobs has
  Recent,      \* the history in the settings at start
  Others,      \* the histories that other windows leave in the settings
  Ids,         \* the ids of windows, numbers from 0
  MaximumSize  \* NavigationHistoryModel::mMaximumSize

VARIABLES
  window,    \* SearchWindow::mNavigate
  view,      \* of each data view its helper, and the observation it shows
  tab,       \* the visible data view
  history,   \* NavigationHistoryModel::mHistory
  selected,  \* the row selected in the table of the history, 0 for none
  hist,      \* NavigationHistory::mNavigate
  rr,        \* HqcAppWindow::mLastNavigatedWatchRR, the sensor
  listed,    \* history: the list was not cleared since the window navigated last
  ids,       \* this window's mId, or -1 when it is closed, and sUsedIds
  settings   \* the tab of each id, and the rows of the recent observations

vars == << window, view, tab, history, selected, hist, rr, listed, ids, settings >>

\* The recent observations that a window writes to the settings, and how it and
\* the other windows start with them; the senders of a navigation are distinct.
Listing(rows) == rows \in Seq(Obs) /\ Len(rows) <= MaximumSize /\ IsInjective(rows)
WindowConstants ==
  /\ MaximumSize \in Nat \ {0} /\ Ids \in SUBSET Nat /\ 0 \in Ids
  /\ Listing(Recent) /\ \A rows \in Others : Listing(rows)
  /\ NoObs \notin Obs /\ {"search", "history"} \cap Views = {}

\* The views of a new window, of which v is visible
FreshViews(v) == [w \in Views |-> [nav |-> IF w = v THEN NavigateHelper ELSE Hide(NavigateHelper),
                                   shown |-> NoObs]]
Init ==
  /\ window = NavigateHelper /\ tab \in Views
  /\ view = FreshViews(tab)
  /\ history = Recent /\ selected = 0 /\ hist = NavigateHelper
  /\ rr = NoObs /\ listed = FALSE
  /\ ids = [own |-> 0, used |-> {0}]
  /\ settings = [tabs |-> [i \in Ids |-> tab], recent |-> Recent]
Open == ids.own >= 0
KeepWindows == UNCHANGED << ids, settings >>

(* NavigationHistoryModel::add; the table moves its selection with the     *)
(* rows when the oldest one is removed.                                    *)
InList(st) == \E i \in DOMAIN history : history[i] = st
Full == Len(history) = MaximumSize
Add(st) ==
  IF InList(st) THEN history
  ELSE IF Full THEN Append(Tail(history), st) ELSE Append(history, st)
SelectedAfterAdd(st) == IF ~InList(st) /\ Full /\ selected > 0 THEN selected - 1 ELSE selected

(* NavigationHistory::navigateTo.  The index that add returns has the row  *)
(* as its column, and is in the first row: that is the row selected.  If   *)
(* it was not, onSelectionChanged takes its observation for the current    *)
(* one, but does not send it on as the helper is blocked twice.            *)
OldestForIt(st) ==
  LET h == Go(hist, st)
  IN  IF SelectedAfterAdd(st) = 1 THEN h
      ELSE [Go(Block(Block(h)), Add(st)[1]) EXCEPT !.blocks = hist.blocks]
HistoryNavigateTo(st, open) ==
  /\ history' = Add(st)
  /\ IF Navigates(hist, st, open)
     THEN selected' = 1 /\ hist' = OldestForIt(st)
     ELSE selected' = SelectedAfterAdd(st) /\ hist' = Navigated(hist, st, open)

ViewNavigateTo(v, st, open) ==
  [nav |-> Navigated(view[v].nav, st, open),
   shown |-> IF Navigates(view[v].nav, st, open) THEN st ELSE view[v].shown]

AppNavigateTo(st) == rr' = IF st \in RR24Obs THEN st.sensor ELSE rr

(* SearchWindow::navigateTo, called by a view, by the history or otherwise *)
NavigateTo(st, from) ==
  /\ Open /\ KeepWindows
  /\ window' = Go(window, st)
  /\ IF Goes(window, st)
     THEN /\ view' = [v \in Views |-> ViewNavigateTo(v, st, v = from)]
          /\ HistoryNavigateTo(st, from = "history") /\ AppNavigateTo(st)
          /\ listed' = TRUE
     ELSE UNCHANGED << view, history, selected, hist, rr, listed >>

\* ErrorList, ExtremesView, MissingView or HqcDianaClient
Search(st) == NavigateTo(st, "search") /\ UNCHANGED tab

\* DataList::onCurrentChanged and sendNavigateTo
Click(v, st) == v = tab /\ NavigateTo(st, v) /\ UNCHANGED tab

(* NavigationHistory::onSelectionChanged, by the user *)
SelectRecent(i) ==
  /\ Open /\ KeepWindows
  /\ i \in DOMAIN history /\ i # selected
  /\ LET st == history[i] IN
     IF Goes(Block(hist), st)
     THEN /\ window' = Go(window, st)
          /\ IF Goes(window, st)
             THEN /\ view' = [v \in Views |-> ViewNavigateTo(v, st, FALSE)]
                  /\ AppNavigateTo(st) /\ listed' = TRUE
                  /\ hist' = Navigated([hist EXCEPT !.last = st, !.changed = FALSE], st, TRUE)
             ELSE /\ hist' = [hist EXCEPT !.last = st, !.changed = FALSE]
                  /\ UNCHANGED << view, rr, listed >>
     ELSE /\ hist' = Go(hist, st)
          /\ UNCHANGED << window, view, rr, listed >>
  /\ selected' = i
  /\ UNCHANGED << tab, history >>

(* JumpToObservation::accept: only for an observation that kvalobs has *)
Jump(st) == st \in Existing /\ NavigateTo(st, "search") /\ UNCHANGED tab

ClearHistory ==
  /\ Open /\ KeepWindows
  /\ history # << >>
  /\ hist' = Invalidate(hist) /\ history' = << >> /\ selected' = 0 /\ listed' = FALSE
  /\ UNCHANGED << window, view, tab, rr >>

\* onVisibilityUpdate of the view that goes and of the one that comes
ShowTab(v) ==
  /\ Open /\ KeepWindows
  /\ v # tab /\ tab' = v
  /\ view' = [view EXCEPT
       ![tab].nav = Hide(@),
       ![v] = [nav |-> Show(@.nav),
               shown |-> IF ShowNavigates(@.nav) THEN @.nav.last ELSE @.shown]]
  /\ UNCHANGED << window, history, selected, hist, rr, listed >>

(* readSettings and writeSettings: a window has the tab its id had last,   *)
(* and the recent observations of the window that was closed last.         *)
findId == IF ids.used = Ids THEN 0 ELSE CHOOSE i \in Ids \ ids.used : \A j \in Ids \ ids.used : i <= j
releaseId(i) == ids.used \ {i}
NewHistory == selected' = 0 /\ hist' = NavigateHelper /\ listed' = FALSE /\ window' = NavigateHelper

CloseWindow ==
  /\ Open
  /\ settings' = [tabs |-> [settings.tabs EXCEPT ![ids.own] = tab], recent |-> history]
  /\ ids' = [own |-> -1, used |-> releaseId(ids.own)]
  /\ NewHistory /\ history' = << >> /\ view' = FreshViews(tab)
  /\ UNCHANGED << tab, rr >>

OpenWindow ==
  /\ ~Open
  /\ ids' = [own |-> findId, used |-> ids.used \cup {findId}]
  /\ tab' = settings.tabs[findId] /\ view' = FreshViews(tab')
  /\ NewHistory /\ history' = settings.recent
  /\ UNCHANGED << rr, settings >>

OtherOpens ==
  /\ ids.used # Ids
  /\ ids' = [ids EXCEPT !.used = @ \cup {findId}]
  /\ UNCHANGED << window, view, tab, history, selected, hist, rr, listed, settings >>
OtherCloses(i, t, rows) ==
  /\ i \in ids.used \ {ids.own}
  /\ ids' = [ids EXCEPT !.used = releaseId(i)]
  /\ settings' = [tabs |-> [settings.tabs EXCEPT ![i] = t], recent |-> rows]
  /\ UNCHANGED << window, view, tab, history, selected, hist, rr, listed >>

Next ==
  \/ \E st \in Obs : Search(st) \/ Jump(st) \/ \E v \in Views : Click(v, st)
  \/ \E i \in 1 .. MaximumSize : SelectRecent(i)
  \/ \E v \in Views : ShowTab(v)
  \/ ClearHistory
  \/ CloseWindow \/ OpenWindow \/ OtherOpens
  \/ \E i \in Ids, v \in Views, rows \in Others : OtherCloses(i, v, rows)

Spec == Init /\ [][Next]_vars

-----------------------------------------------------------------------------
\* The helpers of all views agree with the window on where the user is,
\* whoever started the navigation, and whether the view was seen or not.
ViewsAgree == \A v \in Views : view[v].nav.last = window.last

\* The visible view shows that observation, or it was the user's click in it
\* that led there: a view that was hidden when others navigated catches up
\* when it is shown, and by then no step in between may have been forgotten.
VisibleFollows ==
  view[tab].shown # window.last => view[tab].nav.changed

\* The list of recent observations never loses the one the user is at, though
\* it drops the oldest, and never lists one twice.
RecentHoldsCurrent ==
  /\ IsInjective(history)
  /\ listed => \E i \in DOMAIN history : history[i] = window.last

\* The row selected in the list of recent observations is the one the list
\* takes for the current one, or the oldest; the list is that of the settings
\* after a restart, and the windows that are open have ids of their own.
SelectedIsCurrent ==
  /\ selected > 1 => history[selected] = hist.last
  /\ Open => ids.own \in ids.used
=============================================================================
