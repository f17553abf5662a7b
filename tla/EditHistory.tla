----------------------------- MODULE EditHistory ------------------------------
(***************************************************************************)
(* What an EditAccess promises about undo and redo, without its pointers:  *)
(* a stack of layers, one per version, each holding what was stored in     *)
(* that version.  The user sees the layers up to the position, the         *)
(* youngest one on top; opening a version forgets the layers above.        *)
(***************************************************************************)
EXTENDS Integers, Sequences, FiniteSets

CONSTANTS Obs, Val, NoData

VARIABLES
  layers,   \* layers[n][o]: the value stored in version n, NoData for none
  pos,      \* the version that is shown
  shown,    \* the visible edit of each observation, NoData for none
  count     \* the number of visible edits

hvars == << layers, pos, shown, count >>

Blank == [o \in Obs |-> NoData]

(* The youngest of the layers 1 .. n of ls that holds something for o. *)
Overlay(ls, n) ==
  [o \in Obs |->
     LET at == {k \in 1 .. n : ls[k][o] # NoData}
     IN  IF at = {} THEN NoData
         ELSE ls[CHOOSE k \in at : \A j \in at : j <= k][o]]

Show(ls, n) ==
  /\ layers' = ls /\ pos' = n
  /\ shown' = Overlay(ls, n)
  /\ count' = Cardinality({o \in Obs : Overlay(ls, n)[o] # NoData})

HInit == layers = << >> /\ pos = 0 /\ shown = Blank /\ count = 0

HNewVersion == Show(Append(SubSeq(layers, 1, pos), Blank), pos + 1)

HStore(S, d) ==
  /\ pos > 0 /\ pos = Len(layers)
  /\ Show([layers EXCEPT ![pos] = [o \in Obs |-> IF o \in S THEN d ELSE @[o]]], pos)

HUndo == pos > 0 /\ Show(layers, pos - 1)
HRedo == pos < Len(layers) /\ Show(layers, pos + 1)

(* Reset, and a save that the backend accepted. *)
HClear == Show(<< >>, 0)

HNext == \/ HNewVersion \/ HUndo \/ HRedo \/ HClear
         \/ \E S \in (SUBSET Obs) \ {{}}, d \in Val : HStore(S, d)

HSpec == HInit /\ [][HNext]_hvars
=============================================================================
