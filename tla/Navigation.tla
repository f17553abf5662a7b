------------------------------- MODULE Navigation -------------------------------
(***************************************************************************)
(* NavigateHelper and NavigateVisible (src/src/common/NavigateHelper.cc):  *)
(* what keeps a view from answering its own navigation, and from           *)
(* following one while nobody sees it.  A helper is a record; its methods  *)
(* are operators, those that return a value split into that value and the  *)
(* record left behind.                                                     *)
(***************************************************************************)
EXTENDS Integers

CONSTANT NoObs   \* the invalid SensorTime

NavigateHelper == [last |-> NoObs, blocks |-> 0, changed |-> FALSE]

Block(n) == [n EXCEPT !.blocks = @ + 1]
Unblock(n) == [n EXCEPT !.blocks = IF @ > 0 THEN @ - 1 ELSE 0]
Blocked(n) == n.blocks > 1

Changed(n, st) == n.changed \/ st # n.last
Goes(n, st) == ~Blocked(n) /\ Changed(n, st)
GoUnnoted(n, st) ==   \* mistake: what was navigated while blocked is not noted
  [n EXCEPT !.last = st, !.changed = Blocked(n) /\ @]
Go(n, st) == [n EXCEPT !.last = st, !.changed = Blocked(n) /\ Changed(n, st)]

Invalidate(n) == IF n.last = NoObs THEN n ELSE [n EXCEPT !.last = NoObs, !.changed = TRUE]

\* NavigateVisible::updateVisible(true) and (false)
Hide(n) == Block(n)
Show(n) == Unblock(n)
ShowNavigates(n) == ~Blocked(Unblock(n)) /\ n.changed

\* AbstractDataView::navigateTo; "open" when it is called from the view's own
\* sendNavigateTo, whose Blocker is still there.
Nested(n, open) == IF open THEN Block(Block(n)) ELSE Block(n)
Navigates(n, st, open) == Goes(Nested(n, open), st)
Navigated(n, st, open) == [Go(Nested(n, open), st) EXCEPT !.blocks = n.blocks]
=============================================================================
