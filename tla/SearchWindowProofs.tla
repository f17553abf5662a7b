-------------------------- MODULE SearchWindowProofs --------------------------
(***************************************************************************)
(* The helpers of a search window agree, its visible view follows, and its *)
(* list of recent observations holds the current one, for every number of  *)
(* views, windows and observations, and every size of the list.            *)
(***************************************************************************)
EXTENDS SearchWindow, SequenceTheorems, WellFoundedInduction, TLAPS

Helper == [last : Obs \cup {NoObs}, blocks : Int, changed : BOOLEAN]

-----------------------------------------------------------------------------
(* The inductive invariant.  The window and its list of recent             *)
(* observations are never blocked and have nothing to catch up with when   *)
(* they go somewhere; a view, seen or not, that does not show where its    *)
(* helper is has that noted.                                               *)
Types ==
  /\ window \in Helper /\ hist \in Helper
  /\ view \in [Views -> [nav : Helper, shown : Obs \cup {NoObs}]]
  /\ tab \in Views /\ selected \in Nat /\ listed \in BOOLEAN
  /\ settings.tabs \in [Ids -> Views]
Unblocked == window.blocks = 0 /\ ~window.changed /\ hist.blocks = 0
Noted == \A v \in Views : view[v].shown # view[v].nav.last => view[v].nav.changed
Lists ==
  /\ Listing(history) /\ Listing(settings.recent)
  /\ listed => \E i \in DOMAIN history : history[i] = window.last
Selection == selected > 1 => selected \in DOMAIN history /\ history[selected] = hist.last
OwnId == ids.used \subseteq Ids /\ (Open => ids.own \in ids.used)

IInv == Types /\ Unblocked /\ ViewsAgree /\ Noted /\ Lists /\ Selection /\ OwnId

-----------------------------------------------------------------------------
(* The helpers. *)
Place == Obs \cup {NoObs}

LEMMA NewHelper == NavigateHelper \in Helper
BY DEF NavigateHelper, Helper

(* A helper that goes somewhere is there, blocked or not, and one that is  *)
(* not blocked has nothing to catch up with afterwards.                    *)
LEMMA Going ==
  ASSUME NEW n \in Helper, NEW st \in Place
  PROVE  /\ Go(n, st) \in Helper
         /\ Go(n, st).last = st /\ Go(n, st).blocks = n.blocks
         /\ Go(n, st).changed <=> Blocked(n) /\ Changed(n, st)
         /\ n.blocks = 0 => ~Blocked(n)
         /\ ~Goes(n, st) => Blocked(n) \/ (n.last = st /\ ~n.changed)
<1> DEFINE c == Blocked(n) /\ Changed(n, st)
<1>1. c \in BOOLEAN
  OBVIOUS
<1>2. Go(n, st) = [n EXCEPT !.last = st, !.changed = c]
  BY Zenon DEF Go
<1>3. n.blocks = 0 => ~Blocked(n)
  BY DEF Blocked
<1>4. ~Goes(n, st) => Blocked(n) \/ (n.last = st /\ ~n.changed)
  BY Zenon DEF Goes, Changed
<1> HIDE DEF c
<1>5. Go(n, st) \in Helper /\ Go(n, st).last = st /\ Go(n, st).blocks = n.blocks
      /\ Go(n, st).changed = c
  BY <1>1, <1>2 DEF Helper, Place
<1> QED  BY <1>3, <1>4, <1>5 DEF c

LEMMA Blocking ==
  ASSUME NEW n \in Helper
  PROVE  /\ Block(n) \in Helper /\ Block(n).last = n.last
         /\ Block(n).changed = n.changed /\ Block(n).blocks = n.blocks + 1
         /\ Unblock(n) \in Helper /\ Unblock(n).last = n.last
         /\ Unblock(n).changed = n.changed
BY DEF Block, Unblock, Helper

LEMMA Fresh ==
  ASSUME NEW t \in Views
  PROVE  /\ FreshViews(t) \in [Views -> [nav : Helper, shown : Place]]
         /\ \A v \in Views : /\ FreshViews(t)[v].nav.last = NoObs
                             /\ FreshViews(t)[v].shown = NoObs
<1>1. NavigateHelper \in Helper /\ NavigateHelper.last = NoObs
  BY NewHelper DEF NavigateHelper
<1>2. Hide(NavigateHelper) \in Helper /\ Hide(NavigateHelper).last = NoObs
  BY <1>1, Blocking DEF Hide
<1> QED  BY <1>1, <1>2 DEF FreshViews, Place

(* AbstractDataView::navigateTo and NavigationHistory::navigateTo *)
LEMMA NavigatedTo ==
  ASSUME NEW n \in Helper, NEW st \in Place, NEW open \in BOOLEAN
  PROVE  /\ Navigated(n, st, open) \in Helper
         /\ Navigated(n, st, open).last = st
         /\ Navigated(n, st, open).blocks = n.blocks
         /\ ~Navigates(n, st, open) /\ (n.changed \/ n.last # st) =>
              Navigated(n, st, open).changed
         /\ ~Navigates(n, st, FALSE) /\ n.blocks = 0 => n.last = st
<1> DEFINE m == Nested(n, open)
<1>1. m \in Helper /\ m.last = n.last /\ m.changed = n.changed
  BY Blocking DEF Nested
<1>2. Nested(n, FALSE) = Block(n) /\ (n.blocks = 0 => ~Blocked(Block(n)))
  BY Blocking DEF Nested, Blocked
<1>3. ~Navigates(n, st, FALSE) /\ n.blocks = 0 => n.last = st
  BY <1>2, Blocking DEF Navigates, Goes, Changed
<1>4. Navigated(n, st, open) = [Go(m, st) EXCEPT !.blocks = n.blocks]
  BY DEF Navigated
<1>5. Navigates(n, st, open) <=> Goes(m, st)
  BY DEF Navigates
<1> HIDE DEF m
<1>6. /\ Go(m, st) \in Helper /\ Go(m, st).last = st
      /\ Go(m, st).changed <=> Blocked(m) /\ (n.changed \/ st # n.last)
      /\ ~Goes(m, st) => Blocked(m) \/ (n.last = st /\ ~n.changed)
  BY <1>1, Going DEF Changed
<1>7. /\ Navigated(n, st, open) \in Helper /\ Navigated(n, st, open).last = st
      /\ Navigated(n, st, open).blocks = n.blocks
      /\ Navigated(n, st, open).changed = Go(m, st).changed
  BY <1>4, <1>6 DEF Helper
<1> QED  BY <1>3, <1>5, <1>6, <1>7

(* A view that did not show where its helper was had that noted, and so it *)
(* has afterwards, whether the navigation reached it or not.               *)
LEMMA ViewStays ==
  ASSUME Types, Noted, NEW v \in Views, NEW st \in Obs, NEW open \in BOOLEAN
  PROVE  /\ ViewNavigateTo(v, st, open) \in [nav : Helper, shown : Place]
         /\ ViewNavigateTo(v, st, open).nav.last = st
         /\ ViewNavigateTo(v, st, open).shown # st => ViewNavigateTo(v, st, open).nav.changed
<1> DEFINE n == view[v].nav
           m == Navigated(n, st, open)
           s == IF Navigates(n, st, open) THEN st ELSE view[v].shown
<1>1. n \in Helper /\ view[v].shown \in Place /\ st \in Place
  BY DEF Types, Place
<1>2. view[v].shown # n.last => n.changed
  BY DEF Noted
<1>3. ViewNavigateTo(v, st, open) = [nav |-> m, shown |-> s]
  BY Zenon DEF ViewNavigateTo
<1> HIDE DEF n
<1>4. /\ m \in Helper /\ m.last = st
      /\ ~Navigates(n, st, open) /\ (n.changed \/ n.last # st) => m.changed
  BY <1>1, NavigatedTo
<1>5. s \in Place /\ (s # st => m.changed)
  BY <1>1, <1>2, <1>4
<1> HIDE DEF m, s
<1> QED  BY <1>3, <1>4, <1>5

-----------------------------------------------------------------------------
(* The list of recent observations. *)
LEMMA Added ==
  ASSUME WindowConstants, Listing(history), NEW st \in Obs
  PROVE  /\ Listing(Add(st)) /\ Len(Add(st)) > 0
         /\ \E i \in DOMAIN Add(st) : Add(st)[i] = st
         /\ InList(st) => Add(st) = history
<1>1. history \in Seq(Obs) /\ Len(history) \in Nat /\ Len(history) <= MaximumSize
      /\ \A i, j \in 1 .. Len(history) : history[i] = history[j] => i = j
  BY DEF Listing, IsInjective
<1>2. MaximumSize \in Nat /\ MaximumSize > 0
  BY DEF WindowConstants
<1>3. CASE InList(st)
  <2>1. Add(st) = history
    BY <1>3 DEF Add
  <2> QED  BY <1>1, <1>3, <2>1 DEF InList, Listing
<1>4. CASE ~InList(st)
  <2>1. \A i \in 1 .. Len(history) : history[i] # st
    BY <1>1, <1>4 DEF InList
  <2>2. PICK s : /\ s \in Seq(Obs) /\ Add(st) = Append(s, st) /\ Len(s) < MaximumSize
                 /\ \A i, j \in 1 .. Len(s) : s[i] = s[j] => i = j
                 /\ \A i \in 1 .. Len(s) : s[i] # st
    <3>1. CASE Full
      <4>1. Len(history) = MaximumSize /\ history # << >>
        BY <1>1, <1>2, <3>1 DEF Full
      <4>2. /\ Tail(history) \in Seq(Obs) /\ Len(Tail(history)) = Len(history) - 1
            /\ \A i \in 1 .. Len(Tail(history)) : Tail(history)[i] = history[i + 1]
        BY <1>1, <4>1
      <4>3. \A i, j \in 1 .. Len(Tail(history)) :
              Tail(history)[i] = Tail(history)[j] => i = j
        <5> SUFFICES ASSUME NEW i \in 1 .. Len(Tail(history)), NEW j \in 1 .. Len(Tail(history)),
                            Tail(history)[i] = Tail(history)[j]
                     PROVE  i = j
          OBVIOUS
        <5>1. i + 1 \in 1 .. Len(history) /\ j + 1 \in 1 .. Len(history)
              /\ history[i + 1] = history[j + 1]
          BY <1>1, <4>2
        <5>2. i + 1 = j + 1
          BY <1>1, <5>1
        <5> QED  BY <5>2
      <4>4. \A i \in 1 .. Len(Tail(history)) : Tail(history)[i] # st
        BY <1>1, <2>1, <4>2
      <4>5. Add(st) = Append(Tail(history), st)
        BY <1>4, <3>1 DEF Add
      <4>6. Len(Tail(history)) < MaximumSize
        BY <1>2, <4>1, <4>2
      <4> WITNESS Tail(history)
      <4> QED  BY <4>2, <4>3, <4>4, <4>5, <4>6
    <3>2. CASE ~Full
      <4>1. Add(st) = Append(history, st) /\ Len(history) < MaximumSize
        BY <1>1, <1>2, <1>4, <3>2 DEF Add, Full
      <4> QED  BY <1>1, <2>1, <4>1
    <3> QED  BY <3>1, <3>2
  <2>3. /\ Len(Add(st)) = Len(s) + 1 /\ Add(st) \in Seq(Obs) /\ Len(s) \in Nat
        /\ \A i \in 1 .. Len(s) : Add(st)[i] = s[i]
        /\ Add(st)[Len(s) + 1] = st
    BY <2>2
  <2>4. \A i, j \in 1 .. Len(Add(st)) : Add(st)[i] = Add(st)[j] => i = j
    <3> SUFFICES ASSUME NEW i \in 1 .. Len(s) + 1, NEW j \in 1 .. Len(s) + 1,
                        Add(st)[i] = Add(st)[j]
                 PROVE  i = j
      BY <2>3
    <3>1. CASE i \in 1 .. Len(s) /\ j \in 1 .. Len(s)
      BY <2>2, <2>3, <3>1
    <3>2. CASE i = Len(s) + 1 /\ j \in 1 .. Len(s)
      BY <2>2, <2>3, <3>2
    <3>3. CASE j = Len(s) + 1 /\ i \in 1 .. Len(s)
      BY <2>2, <2>3, <3>3
    <3> QED  BY <2>3, <3>1, <3>2, <3>3
  <2>5. Len(s) + 1 \in DOMAIN Add(st) /\ DOMAIN Add(st) = 1 .. Len(Add(st))
    BY <2>3
  <2>6. Len(Add(st)) <= MaximumSize /\ Len(Add(st)) > 0
    BY <1>2, <2>2, <2>3
  <2> QED  BY <1>4, <2>3, <2>4, <2>5, <2>6 DEF Listing, IsInjective
<1> QED  BY <1>3, <1>4

(* NavigationHistory::navigateTo, when it was not the list itself that     *)
(* sent the navigation.  If the list does not follow, it was there already *)
(* and its rows do not move.                                               *)
LEMMA HistoryFollows ==
  ASSUME WindowConstants, IInv, NEW st \in Obs, HistoryNavigateTo(st, FALSE)
  PROVE  /\ hist' \in Helper /\ hist'.blocks = 0
         /\ Listing(history') /\ \E i \in DOMAIN history' : history'[i] = st
         /\ selected' \in Nat /\ Selection'
<1>1. /\ hist \in Helper /\ hist.blocks = 0 /\ st \in Place /\ selected \in Nat
      /\ Listing(history) /\ Selection
  BY DEF IInv, Types, Unblocked, Lists, Place
<1>2. /\ history' = Add(st) /\ Listing(Add(st)) /\ Len(Add(st)) > 0
      /\ \E i \in DOMAIN Add(st) : Add(st)[i] = st
      /\ InList(st) => Add(st) = history
  BY <1>1, Added DEF HistoryNavigateTo
<1>3. SelectedAfterAdd(st) \in Nat
  BY <1>1 DEF SelectedAfterAdd
<1>4. CASE Navigates(hist, st, FALSE)
  <2>1. selected' = 1 /\ hist' = OldestForIt(st)
    BY <1>4 DEF HistoryNavigateTo
  <2>2. Go(hist, st) \in Helper /\ Go(hist, st).blocks = 0
    BY <1>1, Going
  <2>3. Add(st)[1] \in Place
    BY <1>2 DEF Listing, Place
  <2> DEFINE b == Block(Block(Go(hist, st)))
  <2>4. b \in Helper
    BY <2>2, Blocking
  <2>5. Go(b, Add(st)[1]) \in Helper
    BY <2>3, <2>4, Going
  <2>6. [Go(b, Add(st)[1]) EXCEPT !.blocks = hist.blocks] \in Helper
        /\ [Go(b, Add(st)[1]) EXCEPT !.blocks = hist.blocks].blocks = 0
    <3> HIDE DEF b
    <3> QED  BY <1>1, <2>5 DEF Helper
  <2>7. OldestForIt(st) = IF SelectedAfterAdd(st) = 1 THEN Go(hist, st)
                          ELSE [Go(b, Add(st)[1]) EXCEPT !.blocks = hist.blocks]
    BY DEF OldestForIt
  <2>8. hist' \in Helper /\ hist'.blocks = 0
    BY <2>1, <2>2, <2>6, <2>7
  <2> QED  BY <1>2, <2>1, <2>8 DEF Selection
<1>5. CASE ~Navigates(hist, st, FALSE)
  <2>1. selected' = SelectedAfterAdd(st) /\ hist' = Navigated(hist, st, FALSE)
    BY <1>5 DEF HistoryNavigateTo
  <2>2. hist' \in Helper /\ hist'.blocks = 0 /\ hist'.last = hist.last /\ hist.last = st
    BY <1>1, <1>5, <2>1, NavigatedTo
  <2>3. Selection'
    <3> SUFFICES ASSUME selected' > 1
                 PROVE  selected' \in DOMAIN history' /\ history'[selected'] = hist'.last
      BY DEF Selection
    <3>1. selected > 1
      BY <1>1, <2>1 DEF SelectedAfterAdd
    <3>2. selected \in DOMAIN history /\ history[selected] = st
      BY <1>1, <2>2, <3>1 DEF Selection
    <3>3. InList(st)
      BY <3>2 DEF InList
    <3> QED  BY <1>2, <2>1, <2>2, <3>2, <3>3 DEF SelectedAfterAdd
  <2> QED  BY <1>2, <1>3, <2>1, <2>2, <2>3
<1> QED  BY <1>4, <1>5

-----------------------------------------------------------------------------
(* Every step keeps the invariant. *)
LEMMA InitInv == ASSUME WindowConstants, Init PROVE IInv
<1>1. NavigateHelper \in Helper /\ NavigateHelper.last = NoObs
      /\ NavigateHelper.blocks = 0 /\ ~NavigateHelper.changed
  BY NewHelper DEF NavigateHelper
<1>2. \A v \in Views : /\ view[v].nav \in Helper /\ view[v].nav.last = NoObs
                       /\ view[v].shown = NoObs
  BY <1>1, Fresh DEF Init
<1>3. Types
  BY <1>1, Fresh DEF Init, Types
<1>4. Unblocked /\ ViewsAgree /\ Noted
  BY <1>1, <1>2 DEF Init, Unblocked, ViewsAgree, Noted
<1>5. Lists /\ Selection /\ OwnId
  BY DEF Init, WindowConstants, Lists, Selection, OwnId, Open
<1> QED  BY <1>3, <1>4, <1>5 DEF IInv

(* SearchWindow::navigateTo *)
LEMMA NavigateInv ==
  ASSUME WindowConstants, IInv, NEW st \in Obs, NEW from \in Views \cup {"search"},
         NavigateTo(st, from), UNCHANGED tab
  PROVE  IInv'
<1>1. st \in Place /\ from # "history" /\ Types /\ Unblocked /\ Noted /\ Lists
  BY DEF Place, WindowConstants, IInv
<1>2. window' = Go(window, st) /\ UNCHANGED << tab, ids, settings >>
  BY DEF NavigateTo, KeepWindows
<1>3. /\ window' \in Helper /\ window'.last = st /\ window'.blocks = 0 /\ ~window'.changed
      /\ ~Goes(window, st) => window.last = st
  BY <1>1, <1>2, Going DEF Types, Unblocked
<1>4. OwnId'
  BY <1>2 DEF IInv, OwnId, Open
<1>5. CASE Goes(window, st)
  <2>1. /\ view' = [v \in Views |-> ViewNavigateTo(v, st, v = from)]
        /\ HistoryNavigateTo(st, FALSE) /\ listed' = TRUE
    BY <1>1, <1>5 DEF NavigateTo
  <2>2. /\ hist' \in Helper /\ hist'.blocks = 0
        /\ Listing(history') /\ \E i \in DOMAIN history' : history'[i] = st
        /\ selected' \in Nat /\ Selection'
    BY <2>1, HistoryFollows
  <2>3. \A v \in Views : /\ view'[v] \in [nav : Helper, shown : Place]
                         /\ view'[v].nav.last = st
                         /\ view'[v].shown # st => view'[v].nav.changed
    BY <1>1, <2>1, ViewStays
  <2>4. Types'
    BY <1>1, <1>2, <1>3, <2>1, <2>2, <2>3 DEF Types, Place
  <2>5. Unblocked' /\ ViewsAgree' /\ Noted'
    BY <1>3, <2>2, <2>3 DEF Unblocked, ViewsAgree, Noted
  <2>6. Lists'
    BY <1>1, <1>2, <1>3, <2>2 DEF Lists
  <2> QED  BY <1>4, <2>2, <2>4, <2>5, <2>6 DEF IInv
<1>6. CASE ~Goes(window, st)
  <2>1. UNCHANGED << view, history, selected, hist, listed >> /\ window'.last = window.last
    BY <1>3, <1>6 DEF NavigateTo
  <2>2. Types' /\ Unblocked'
    BY <1>1, <1>2, <1>3, <2>1 DEF Types, Unblocked
  <2>3. ViewsAgree' /\ Noted' /\ Selection'
    BY <2>1 DEF IInv, ViewsAgree, Noted, Selection
  <2>4. Lists'
    BY <1>1, <1>2, <2>1 DEF Lists
  <2> QED  BY <1>4, <2>2, <2>3, <2>4 DEF IInv
<1> QED  BY <1>5, <1>6

(* NavigationHistory::onSelectionChanged, by the user *)
LEMMA SelectInv ==
  ASSUME WindowConstants, IInv, NEW i, SelectRecent(i)
  PROVE  IInv'
<1> DEFINE st == history[i]
           h == [hist EXCEPT !.last = st, !.changed = FALSE]
<1>1. /\ i \in DOMAIN history /\ selected' = i /\ UNCHANGED << tab, history, ids, settings >>
      /\ Types /\ Unblocked /\ Noted /\ Lists
  BY DEF SelectRecent, KeepWindows, IInv
<1>2. i \in Nat /\ st \in Obs /\ st \in Place
  BY <1>1 DEF Lists, Listing, Place
<1>3. h \in Helper /\ h.last = st /\ h.blocks = 0
  BY <1>1, <1>2 DEF Types, Unblocked, Helper, Place
<1>4. /\ Go(hist, st) \in Helper /\ Go(hist, st).last = st /\ Go(hist, st).blocks = 0
  BY <1>1, <1>2, Going DEF Types, Unblocked
<1>5. /\ Navigated(h, st, TRUE) \in Helper /\ Navigated(h, st, TRUE).last = st
      /\ Navigated(h, st, TRUE).blocks = 0
  <2> HIDE DEF h
  <2> QED  BY <1>2, <1>3, NavigatedTo
<1>6. /\ Go(window, st) \in Helper /\ Go(window, st).last = st /\ Go(window, st).blocks = 0
      /\ ~Go(window, st).changed
      /\ ~Goes(window, st) => window.last = st
  BY <1>1, <1>2, Going DEF Types, Unblocked
<1>7. hist' \in {Go(hist, st), h, Navigated(h, st, TRUE)}
  BY DEF SelectRecent
<1> HIDE DEF h, st
<1>8. hist' \in Helper /\ hist'.last = st /\ hist'.blocks = 0
  BY <1>3, <1>4, <1>5, <1>7
<1>9. Selection' /\ OwnId'
  BY <1>1, <1>8 DEF Selection, OwnId, IInv, Open, st
<1>10. CASE Goes(Block(hist), st) /\ Goes(window, st)
  <2>1. /\ window' = Go(window, st) /\ listed' = TRUE
        /\ view' = [v \in Views |-> ViewNavigateTo(v, st, FALSE)]
    BY <1>10 DEF SelectRecent, st
  <2>2. \A v \in Views : /\ view'[v] \in [nav : Helper, shown : Place]
                         /\ view'[v].nav.last = st
                         /\ view'[v].shown # st => view'[v].nav.changed
    BY <1>1, <1>2, <2>1, ViewStays
  <2>3. Types'
    BY <1>1, <1>2, <1>6, <1>8, <2>1, <2>2 DEF Types, Place
  <2>4. Unblocked' /\ ViewsAgree' /\ Noted'
    BY <1>6, <1>8, <2>1, <2>2 DEF Unblocked, ViewsAgree, Noted
  <2>5. Lists'
    BY <1>1, <1>6, <2>1 DEF Lists, st
  <2> QED  BY <1>9, <2>3, <2>4, <2>5 DEF IInv
<1>11. CASE ~(Goes(Block(hist), st) /\ Goes(window, st))
  <2>1. UNCHANGED << view, listed >> /\ window' \in {window, Go(window, st)}
    BY <1>11 DEF SelectRecent, st
  <2>2. window' = Go(window, st) => ~Goes(window, st) \/ window' = window
    BY <1>11 DEF SelectRecent, st
  <2>3. /\ window' \in Helper /\ window'.last = window.last /\ window'.blocks = 0
        /\ ~window'.changed
    BY <1>1, <1>6, <2>1, <2>2 DEF Types, Unblocked
  <2>4. Types' /\ Unblocked'
    BY <1>1, <1>2, <1>8, <2>1, <2>3 DEF Types, Unblocked
  <2>5. ViewsAgree' /\ Noted'
    BY <2>1, <2>3 DEF IInv, ViewsAgree, Noted
  <2>6. Lists'
    BY <1>1, <2>1, <2>3 DEF Lists
  <2> QED  BY <1>9, <2>4, <2>5, <2>6 DEF IInv
<1> QED  BY <1>10, <1>11

(* ShowTab: the view that comes catches up, or shows where its helper is. *)
LEMMA ShowInv ==
  ASSUME WindowConstants, IInv, NEW t \in Views, ShowTab(t)
  PROVE  IInv'
<1>1. /\ Types /\ Noted /\ ViewsAgree /\ tab \in Views /\ tab' = t
      /\ UNCHANGED << window, history, selected, hist, listed, ids, settings >>
  BY DEF ShowTab, KeepWindows, IInv, Types
<1> DEFINE new(n, s) == [nav |-> Show(n), shown |-> IF ShowNavigates(n) THEN n.last ELSE s]
<1>2. view' = [view EXCEPT ![tab].nav = Hide(@), ![t] = new(view[t].nav, view[t].shown)]
  BY DEF ShowTab
<1>3. \A v \in Views : /\ view[v].nav \in Helper /\ view[v].shown \in Place
                       /\ view[v] = [nav |-> view[v].nav, shown |-> view[v].shown]
  BY <1>1 DEF Types, Place
<1>4. ASSUME NEW v \in Views
      PROVE  /\ view'[v] \in [nav : Helper, shown : Place]
             /\ view'[v].nav.last = view[v].nav.last
             /\ view'[v].shown # view[v].nav.last => view'[v].nav.changed
  <2>1. view[v].shown # view[v].nav.last => view[v].nav.changed
    BY <1>1 DEF Noted
  <2>2. CASE v = t
    <3> DEFINE n == view[v].nav
               s == view[v].shown
    <3>1. view'[v] = new(n, s)
      BY <1>1, <1>2, <2>2 DEF Types
    <3>2. n \in Helper /\ s \in Place /\ (s # n.last => n.changed)
      BY <1>3, <2>1
    <3> HIDE DEF n, s
    <3>3. Show(n) \in Helper /\ Show(n).last = n.last /\ Show(n).changed = n.changed
      BY <3>2, Blocking DEF Show
    <3>4. n.last \in Place
      BY <3>2 DEF Helper, Place
    <3>5. /\ new(n, s).nav = Show(n)
          /\ new(n, s).shown = IF ShowNavigates(n) THEN n.last ELSE s
          /\ new(n, s) \in [nav : Helper, shown : Place]
      BY <3>2, <3>3, <3>4
    <3> QED  BY <3>1, <3>2, <3>3, <3>5 DEF n
  <2>3. CASE v # t /\ v = tab
    <3> DEFINE n == view[v].nav
               s == view[v].shown
    <3>1. view'[v] = [view[v] EXCEPT !.nav = Hide(n)] /\ view[v] = [nav |-> n, shown |-> s]
      BY <1>1, <1>2, <1>3, <2>3 DEF Types
    <3>2. n \in Helper /\ s \in Place /\ (s # n.last => n.changed)
      BY <1>3, <2>1
    <3> HIDE DEF n, s
    <3>3. Hide(n) \in Helper /\ Hide(n).last = n.last /\ Hide(n).changed = n.changed
      BY <3>2, Blocking DEF Hide
    <3>4. view'[v] = [nav |-> Hide(n), shown |-> s]
      BY <3>1
    <3> QED  BY <3>2, <3>3, <3>4 DEF n
  <2>4. CASE v # t /\ v # tab
    <3>1. view'[v] = view[v] /\ view[v] \in [nav : Helper, shown : Place]
      BY <1>1, <1>2, <2>4 DEF Types, Place
    <3> HIDE DEF new
    <3> QED  BY <2>1, <3>1
  <2> QED  BY <2>2, <2>3, <2>4
<1>5. DOMAIN view' = Views /\ view' = [v \in Views |-> view'[v]]
  BY <1>1, <1>2 DEF Types
<1> HIDE DEF new
<1>6. Types'
  BY <1>1, <1>4, <1>5 DEF Types, Place
<1>7. ViewsAgree' /\ Noted'
  BY <1>1, <1>4 DEF ViewsAgree, Noted
<1>8. Unblocked' /\ Lists' /\ Selection' /\ OwnId'
  BY <1>1 DEF IInv, Unblocked, Lists, Selection, OwnId, Open
<1> QED  BY <1>6, <1>7, <1>8 DEF IInv

(* NavigationHistory::clear *)
LEMMA ClearInv ==
  ASSUME WindowConstants, IInv, ClearHistory
  PROVE  IInv'
<1>1. /\ Types /\ Unblocked /\ hist' = Invalidate(hist) /\ history' = << >>
      /\ selected' = 0 /\ listed' = FALSE
      /\ UNCHANGED << window, view, tab, ids, settings >>
  BY DEF ClearHistory, KeepWindows, IInv
<1>2. hist' \in Helper /\ hist'.blocks = 0
  BY <1>1 DEF Types, Unblocked, Invalidate, Helper
<1>3. Types' /\ Unblocked'
  BY <1>1, <1>2 DEF Types, Unblocked
<1>4. ViewsAgree' /\ Noted' /\ OwnId'
  BY <1>1 DEF IInv, ViewsAgree, Noted, OwnId, Open
<1>5. Lists' /\ Selection'
  BY <1>1 DEF IInv, Lists, Selection, Listing, IsInjective, WindowConstants
<1> QED  BY <1>3, <1>4, <1>5 DEF IInv

(* A window that is closed keeps nothing, and one that is opened starts    *)
(* with the list of the window that was closed last.                       *)
LEMMA RestartInv ==
  ASSUME WindowConstants, IInv, NewHistory, NEW t \in Views, tab' = t,
         view' = FreshViews(t), Listing(history'), Listing(settings'.recent),
         settings'.tabs \in [Ids -> Views], OwnId'
  PROVE  IInv'
<1>1. NavigateHelper \in Helper /\ NavigateHelper.last = NoObs
      /\ NavigateHelper.blocks = 0 /\ ~NavigateHelper.changed
  BY NewHelper DEF NavigateHelper
<1>2. window' = NavigateHelper /\ hist' = NavigateHelper /\ selected' = 0 /\ listed' = FALSE
  BY DEF NewHistory
<1>3. Types'
  BY <1>1, <1>2, Fresh DEF Types, Place
<1>4. \A v \in Views : view'[v].nav.last = NoObs /\ view'[v].shown = NoObs
  BY Fresh
<1>5. Unblocked' /\ ViewsAgree' /\ Noted'
  BY <1>1, <1>2, <1>4 DEF Unblocked, ViewsAgree, Noted
<1>6. Lists' /\ Selection'
  BY <1>2 DEF Lists, Selection
<1> QED  BY <1>3, <1>5, <1>6 DEF IInv

(* findId *)
LEMMA IdFound == ASSUME WindowConstants, ids.used \subseteq Ids PROVE findId \in Ids
<1>1. CASE ids.used = Ids
  BY <1>1 DEF findId, WindowConstants
<1>2. CASE ids.used # Ids
  <2> DEFINE S == Ids \ ids.used
             R == {p \in Nat \X Nat : p[1] < p[2]}
  <2>1. S # {} /\ S \subseteq Nat
    BY <1>2 DEF WindowConstants
  <2>2. IsWellFoundedOn(R, Nat)
    <3>1. R = OpToRel(<, Nat)
      BY DEF OpToRel
    <3> QED  BY <3>1, NatLessThanWellFounded
  <2>3. PICK t \in S : \A u \in S : ~ (<< u, t >> \in R)
    <3> HIDE DEF R, S
    <3> QED  BY <2>1, <2>2, WFMin
  <2>4. \A u \in S : t <= u
    <3> SUFFICES ASSUME NEW u \in S PROVE t <= u
      OBVIOUS
    <3>1. ~ (<< u, t >> \in R) /\ u \in Nat /\ t \in Nat
      BY <2>1, <2>3
    <3> QED  BY <3>1
  <2>5. findId = CHOOSE i \in S : \A j \in S : i <= j
    BY <1>2 DEF findId
  <2> HIDE DEF S
  <2>6. findId \in S
    BY <2>4, <2>5
  <2> QED  BY <2>6 DEF S
<1> QED  BY <1>1, <1>2

(* What the other windows do, and what is of no concern here. *)
LEMMA OthersInv ==
  ASSUME WindowConstants, IInv, OwnId',
         UNCHANGED << window, view, tab, history, selected, hist, listed >>,
         Listing(settings'.recent), settings'.tabs \in [Ids -> Views]
  PROVE  IInv'
<1>1. Types' /\ Unblocked'
  BY DEF IInv, Types, Unblocked
<1>2. ViewsAgree' /\ Noted' /\ Lists' /\ Selection'
  BY DEF IInv, ViewsAgree, Noted, Lists, Selection
<1> QED  BY <1>1, <1>2 DEF IInv

LEMMA StepInv == ASSUME WindowConstants, IInv, [Next]_vars PROVE IInv'
<1>1. /\ Listing(history) /\ Listing(settings.recent) /\ tab \in Views
      /\ settings.tabs \in [Ids -> Views] /\ ids.used \subseteq Ids /\ OwnId
      /\ findId \in Ids
  BY IdFound DEF IInv, Lists, Types, OwnId
<1>2. ASSUME NEW st \in Obs, Search(st) \/ Jump(st) \/ \E v \in Views : Click(v, st)
      PROVE  IInv'
  <2>1. PICK from \in Views \cup {"search"} : NavigateTo(st, from) /\ UNCHANGED tab
    BY <1>2 DEF Search, Jump, Click
  <2> QED  BY <2>1, NavigateInv
<1>3. ASSUME NEW i \in 1 .. MaximumSize, SelectRecent(i) PROVE IInv'
  BY <1>3, SelectInv
<1>4. ASSUME NEW v \in Views, ShowTab(v) PROVE IInv'
  BY <1>4, ShowInv
<1>5. CASE ClearHistory
  BY <1>5, ClearInv
<1>6. CASE CloseWindow
  <2>1. /\ NewHistory /\ tab' = tab /\ view' = FreshViews(tab)
        /\ settings' = [tabs |-> [settings.tabs EXCEPT ![ids.own] = tab], recent |-> history]
        /\ history' = << >> /\ ids' = [own |-> -1, used |-> ids.used \ {ids.own}]
    BY <1>6 DEF CloseWindow, releaseId
  <2>2. Listing(history')
    BY <2>1 DEF Listing, IsInjective, WindowConstants
  <2>3. settings'.tabs \in [Ids -> Views] /\ settings'.recent = history
    BY <1>1, <2>1
  <2>4. OwnId'
    BY <1>1, <2>1 DEF OwnId, Open
  <2> QED  BY <1>1, <2>1, <2>2, <2>3, <2>4, RestartInv
<1>7. CASE OpenWindow
  <2>1. /\ NewHistory /\ view' = FreshViews(tab') /\ settings' = settings
        /\ history' = settings.recent /\ tab' = settings.tabs[findId]
        /\ ids' = [own |-> findId, used |-> ids.used \cup {findId}]
    BY <1>7 DEF OpenWindow
  <2>2. OwnId' /\ tab' \in Views
    BY <1>1, <2>1 DEF OwnId
  <2> QED  BY <1>1, <2>1, <2>2, RestartInv
<1>8. CASE OtherOpens
  <2>1. /\ ids' = [ids EXCEPT !.used = @ \cup {findId}]
        /\ UNCHANGED << window, view, tab, history, selected, hist, listed, settings >>
    BY <1>8 DEF OtherOpens
  <2>2. OwnId'
    BY <1>1, <2>1 DEF OwnId, Open
  <2> QED  BY <1>1, <2>1, <2>2, OthersInv
<1>9. ASSUME NEW i \in Ids, NEW v \in Views, NEW rows \in Others, OtherCloses(i, v, rows)
      PROVE  IInv'
  <2>1. /\ i # ids.own /\ ids' = [ids EXCEPT !.used = @ \ {i}]
        /\ settings' = [tabs |-> [settings.tabs EXCEPT ![i] = v], recent |-> rows]
        /\ UNCHANGED << window, view, tab, history, selected, hist, listed >>
    BY <1>9 DEF OtherCloses, releaseId
  <2>2. settings'.tabs \in [Ids -> Views] /\ Listing(settings'.recent)
    BY <1>1, <2>1 DEF WindowConstants
  <2>3. OwnId'
    BY <1>1, <2>1 DEF OwnId, Open
  <2> QED  BY <2>1, <2>2, <2>3, OthersInv
<1>10. CASE UNCHANGED vars
  <2>1. UNCHANGED << window, view, tab, history, selected, hist, listed, ids, settings >>
    BY <1>10 DEF vars
  <2>2. OwnId'
    BY <1>1, <2>1 DEF OwnId, Open
  <2> QED  BY <1>1, <2>1, <2>2, OthersInv
<1> QED  BY <1>2, <1>3, <1>4, <1>5, <1>6, <1>7, <1>8, <1>9, <1>10 DEF Next

(* The invariant holds in every window, whatever its views, its user, the  *)
(* searches, Diana and the other windows do, and in which order.           *)
THEOREM WindowInductive == ASSUME WindowConstants PROVE Spec => []IInv
<1>1. Init => IInv
  BY InitInv
<1>2. IInv /\ [Next]_vars => IInv'
  BY StepInv
<1> QED  BY <1>1, <1>2, PTL DEF Spec

-----------------------------------------------------------------------------
(* All helpers of a window agree on where the user is (NavigateHelper,     *)
(* AbstractDataView::navigateTo, SearchWindow::navigateTo).                *)
THEOREM HelpersAgree == ASSUME WindowConstants PROVE Spec => []ViewsAgree
<1>1. IInv => ViewsAgree
  BY DEF IInv
<1> QED  BY <1>1, WindowInductive, PTL

(* The visible view shows that observation, or has noted that it does not, *)
(* however often it was hidden while others navigated (NavigateVisible).   *)
THEOREM VisibleCatchesUp == ASSUME WindowConstants PROVE Spec => []VisibleFollows
<1>1. IInv => VisibleFollows
  BY DEF IInv, Types, Noted, ViewsAgree, VisibleFollows
<1> QED  BY <1>1, WindowInductive, PTL

(* The recent observations hold the current one, each of them once, also   *)
(* when the oldest was dropped for it (NavigationHistoryModel::add).       *)
THEOREM RecentComplete == ASSUME WindowConstants PROVE Spec => []RecentHoldsCurrent
<1>1. IInv => RecentHoldsCurrent
  BY DEF IInv, Lists, Listing, RecentHoldsCurrent
<1> QED  BY <1>1, WindowInductive, PTL

(* The selected row, unless it is the first, is what the list takes for    *)
(* the current observation; open windows have ids that are in use.         *)
THEOREM SelectionCurrent == ASSUME WindowConstants PROVE Spec => []SelectedIsCurrent
<1>1. IInv => SelectedIsCurrent
  BY DEF IInv, Selection, OwnId, SelectedIsCurrent
<1> QED  BY <1>1, WindowInductive, PTL
=============================================================================
