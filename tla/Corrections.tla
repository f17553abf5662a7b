------------------------------- MODULE Corrections -------------------------------
(***************************************************************************)
(* Correcting observations by hand: the items of a table column and of the *)
(* box for one observation (DataCorrectedItem, DataRR24Item, DataVxItem,   *)
(* SimpleCorrections), the buttons beside a table (AcceptRejectButtons)    *)
(* and the interpolation of a selection (ToolInterpolate).                 *)
(*                                                                         *)
(* A cell is << kind, time >>; cells of a kind are of one sensor, and of   *)
(* "vx" and "strength" the second parameter is the first plus one.  Values *)
(* are in the last shown decimal.                                          *)
(***************************************************************************)
EXTENDS ControlFlags, FiniteSets, SequencesExt

CONSTANTS
  Scenes,         \* what there is at first, each a function of cells
  Texts,          \* what is typed: a word, a number with its decimals, a Vx or nothing
  Tables,         \* of the system database: codes, long and short texts, decimals
  Languages,      \* those of the user, best first
  WholeKinds,     \* kinds of code parameters, and of directions
  VxCodes,        \* vxdata_312, the codes
  Models,         \* model values
  Lowest, Highest,\* the physical limits
  Boxed,          \* cells the box is sent to
  Selections,     \* the sets of cells that are selected
  Circle,         \* a full circle of a direction, 360
  MaxEdits        \* bound on the changes

VARIABLES
  sCode2Text,     \* ColumnFactory: of each kind its codes, each with its texts
  obs,            \* observation of each cell, or NoObs
  box,            \* SimpleCorrections: cell, what it shows, what its buffer has
  selection,      \* AcceptRejectButtons: cells, column, and the selected observations
  tool,           \* ToolInterpolate: first, last and the cells between, button
  past            \* what was at first, exceptions, number and results of the changes


Cells == DOMAIN obs
Kind(c) == c[1]
Time(c) == c[2]
NEW_ROW == -32768
CanDo(c, d) == Possibilities(d, Kind(c) = "rr", FALSE)
NoTool == [cells |-> {}, on |-> FALSE]
None == [c \in {} |-> NoObs]
Over(f, g) == [x \in DOMAIN f \cup DOMAIN g |-> IF x \in DOMAIN f THEN f[x] ELSE g[x]]

(* HqcSystemDB::paramCodes: a code of a parameter has short texts in the   *)
(* language of its best long text.                                         *)
LanguageOf(id) ==
  LET rank(l) == IF Contains(Languages, l) THEN CHOOSE i \in DOMAIN Languages : Languages[i] = l
                 ELSE Len(Languages) + 1
      rows == {r \in Tables.long : r.id = id}
  IN  {r.language : r \in {q \in rows : \A p \in rows : rank(q.language) <= rank(p.language)}}
ShortTexts(id) ==
  LET rows == SetToSortSeq({r \in Tables.short : r.id = id /\ r.language \in LanguageOf(id)},
                           LAMBDA a, b : a.sortkey < b.sortkey)
  IN  [i \in DOMAIN rows |-> rows[i].text]
paramCodes(kind) ==
  LET rows == {r \in Tables.codes : r.kind = kind}
  IN  [v \in {r.value : r \in rows} |-> ShortTexts((CHOOSE r \in rows : r.value = v).id)]

\* codesForParam, with the codes of every parameter, which its own replace; it
\* is asked once, and the tables never change
codesForParam(kind) ==
  Over(paramCodes(kind), [v \in {NEW_ROW, MISSING, REJECTED} |->
    CASE v = NEW_ROW -> << "new" >> [] v = MISSING -> << "mis" >> [] OTHER -> << "rej", "r" >>])

Init ==
  /\ obs \in Scenes
  /\ sCode2Text = [k \in {Kind(c) : c \in Cells} |-> codesForParam(k)]
  /\ box = [at |-> << >>, shown |-> NoObs, have |-> NoObs, waiting |-> FALSE]
  /\ selection = [cells |-> {}, column |-> "none", beside |-> TRUE, chosen |-> None]
  /\ tool = NoTool
  /\ past = [first |-> obs, odd |-> {}, edits |-> 0, typed |-> << >>, line |-> << >>]

-----------------------------------------------------------------------------
(* What the tools make of the observations o. *)

\* checkEnabled, for the cells the tool has taken from a selection
Ends(cells) ==
  LET first == CHOOSE c \in cells : \A d \in cells : Time(c) <= Time(d)
      last  == CHOOSE c \in cells : \A d \in cells : Time(c) >= Time(d)
  IN << first, last >>
Sound(d) == d # NoObs /\ ~IsMissing(d.ci, d.corrected) /\ ~IsRejected(d.ci, d.corrected)
checkEnabled(cells, o) ==
  /\ cells # {}
  /\ \A i \in 1 .. 2 : Sound(o[Ends(cells)[i]])
  /\ Kind(Ends(cells)[1]) = "direction" =>
       (o[Ends(cells)[1]].corrected = 0) = (o[Ends(cells)[2]].corrected = 0)

\* enableButtons of AcceptRejectButtons
Chosen(s, o) ==
  IF s.column \in {"none", "other"} THEN None
  ELSE [c \in {d \in s.cells : o[d] # NoObs} |-> o[c]]
possible(s) == {p \in ALL : \A c \in DOMAIN s.chosen : p \in CanDo(c, s.chosen[c])}
enableAccept(s, qc2) ==
  CASE s.column = "original" -> ~qc2 /\ "accept_original" \in possible(s)
    [] s.column \in {"corrected", "model"} -> "accept_corrected" \in possible(s)
    [] OTHER -> FALSE
enableReject(s) == s.column \in {"original", "corrected"} /\ "reject" \in possible(s)

(* A change of observations comes to the box with the data of its buffer,  *)
(* and to both tools with dataChanged of the table.  A table with only the *)
(* model column tells the buttons nothing, unless the change is their own. *)
Tell(new, own) ==
  LET o == Over(new, obs)
      told == box.at \in DOMAIN new
  IN
  /\ obs' = o /\ UNCHANGED sCode2Text
  /\ box' = [box EXCEPT !.shown = IF told THEN o[box.at] ELSE @, !.have = IF told THEN o[box.at] ELSE @]
  /\ selection' = [selection EXCEPT !.chosen = IF own \/ selection.beside THEN Chosen(selection, o) ELSE @]
  /\ tool' = [tool EXCEPT !.on = checkEnabled(tool.cells, o)]

Noted(odd, typed, line) ==
  /\ past.edits < MaxEdits
  /\ past' = [past EXCEPT !.edits = @ + 1, !.odd = @ \cup odd, !.typed = typed, !.line = line]

One(u) == [c \in {u.at} |-> DataOf(u)]

-----------------------------------------------------------------------------
shownDecimals(kind) ==
  IF kind \in WholeKinds THEN 0
  ELSE IF kind \in DOMAIN Tables.decimals THEN Tables.decimals[kind] ELSE 1

(* The items.  Code2Text::asText, and fromText for a code or a number; new *)
(* rows and missing values have codes that are not found by name, but by   *)
(* number.  A word that is no code, and a number that is too precise,      *)
(* change nothing: << >>.                                                  *)
asText(kind, v) ==
  LET codes == sCode2Text[kind]
  IN  IF v \in DOMAIN codes /\ codes[v] # << >> THEN << codes[v][1] >> ELSE << v >>
fromText(kind, text) ==
  LET codes == sCode2Text[kind]
      named == {v \in DOMAIN codes \ {NEW_ROW, MISSING} : text.kind = "word" /\ Contains(codes[v], text.value)}
  IN  CASE named # {} -> << CHOOSE v \in named : \A w \in named : v <= w >>
        [] text.kind = "number" /\ text.decimals <= shownDecimals(kind) -> << text.value >>
        [] OTHER -> << >>
WithinLimits(v) == v = MISSING \/ v = REJECTED \/ (v >= Lowest /\ v <= Highest)

\* flags: a daily precipitation of the types WatchRR is for cannot be edited
Editable(c, d) == Kind(c) # "rr" \/ d = NoObs

\* DataCorrectedItem::setData, with the observation d
SetValue(c, d, value) ==
  /\ value = REJECTED => d # NoObs
  /\ WithinLimits(value)
  /\ LET u == CreateUpdate(c, d) IN
     Tell(One(IF value = REJECTED THEN RejectUpdate(u, d) ELSE AutoCorrect(u, d, value)), FALSE)

(* DataVxItem::setData.  obs1 is the first observation there is, which may *)
(* be the one of the strength; what is stored last for a cell counts.      *)
Strength(c) == << "strength", Time(c) >>
Parts(c, o) ==
  LET s == Strength(c)
      none == o[c] = NoObs
  IN [one |-> IF none /\ o[s] # NoObs THEN s ELSE c, obs1 |-> IF none THEN o[s] ELSE o[c],
      obs2 |-> IF none THEN NoObs ELSE o[s]]

ClearVx(c, o) ==
  LET p == Parts(c, o)
      strength == IF p.obs2 = NoObs \/ p.obs2.corrected = 1 THEN None
                  ELSE One(SetCorrected(CreateUpdate(Strength(c), p.obs2), 1))
      code == IF p.obs1 = NoObs THEN None ELSE One(SetCorrected(CreateUpdate(p.one, p.obs1), 0))
  IN  Over(strength, code)

NewVx(c, o, code, level) ==
  LET p == Parts(c, o)
      old1 == IF p.obs1 = NoObs THEN 0 ELSE p.obs1.corrected
      old2 == IF p.obs2 = NoObs THEN -1 ELSE p.obs2.corrected
  IN  Over(IF level = old2 THEN None ELSE One(AutoCorrect(CreateUpdate(Strength(c), p.obs2), p.obs2, level)),
           IF code = old1 THEN None ELSE One(AutoCorrect(CreateUpdate(p.one, p.obs1), p.obs1, code)))

(* DataVxItem::data, what is shown of a code that is in the table. *)
ShownVx(c, o) ==
  LET p == Parts(c, o)
      code  == IF p.obs1 = NoObs THEN 0 ELSE p.obs1.corrected
      level == IF p.obs2 = NoObs THEN -1 ELSE p.obs2.corrected
  IN  IF p.obs1 = NoObs \/ code \notin VxCodes \ {0} THEN << code >>
      ELSE << code, IF level \in {0, 2} THEN level ELSE 1 >>

LostCells(c, d) == IF obs[c] # NoObs /\ d = NoObs THEN {c} ELSE {}

(* A text for the cell c, typed in the table, where d is the observation,  *)
(* or in the box, where it is what the buffer has.  The second parameter   *)
(* alone has no codes, and its column cannot be edited without a crash.    *)
Enter(c, o, text) ==
  /\ Kind(c) # "strength"
  /\ Editable(c, o[c])
  /\ IF Kind(c) # "vx"
       THEN /\ fromText(Kind(c), text) # << >>
            /\ LET v == fromText(Kind(c), text)[1] IN
               /\ SetValue(c, o[c], v)
               /\ Noted(LostCells(c, o[c]) \cup (IF v = MISSING THEN {c} ELSE {}), << c, text >>, << >>)
       ELSE /\ text.kind \in {"empty", "vx"}
            /\ text.kind = "vx" => text.value \in VxCodes \ {0}
            /\ LET new == IF text.kind = "empty" THEN ClearVx(c, o) ELSE NewVx(c, o, text.value, text.level)
                   lost == LostCells(c, o[c]) \cup LostCells(Strength(c), o[Strength(c)])
                   alone == IF o[c] = NoObs /\ o[Strength(c)] # NoObs THEN {c, Strength(c)} ELSE {}
               IN
               /\ Tell(new, FALSE)
               /\ Noted(lost \cup alone \cup (IF text.kind = "empty" THEN DOMAIN new ELSE {}),
                        IF text.kind = "vx" /\ alone = {} THEN << c, text >> ELSE << >>, << >>)

EnterInTable(c, text) == Enter(c, obs, text)

-----------------------------------------------------------------------------
(* SimpleCorrections.  navigateTo makes a new buffer, and the box shows    *)
(* the old observation until that is complete; what it does in between is  *)
(* for the new one.                                                        *)
Navigate(c) ==
  /\ c # box.at
  /\ box' = [box EXCEPT !.at = c, !.have = NoObs, !.waiting = TRUE]
  /\ UNCHANGED << sCode2Text, obs, selection, tool, past >>

BufferCompleted ==
  /\ box.waiting
  /\ box' = [box EXCEPT !.shown = obs[box.at], !.have = obs[box.at], !.waiting = FALSE]
  /\ UNCHANGED << sCode2Text, obs, selection, tool, past >>

InBuffer == IF box.waiting THEN [c \in Cells |-> IF c = box.at THEN box.have ELSE NoObs] ELSE obs
EnterInBox(text) == box.at \in Cells /\ "correct" \in CanDo(box.at, box.shown) /\ Enter(box.at, InBuffer, text)

Press(button, qc2, model) ==
  LET u == CreateUpdate(box.at, box.have) IN
  /\ box.at \in Cells /\ button \in CanDo(box.at, box.shown) \ {"correct"}
  /\ box.have # NoObs
  /\ \/ button = "reject" /\ CanReject(box.have) /\ Tell(One(RejectOne(u, qc2)), FALSE)
     \/ button = "accept_original" /\ CanAcceptOriginal(box.have) /\ Tell(One(AcceptOriginal(u)), FALSE)
     \/ /\ button = "accept_corrected" /\ CanAcceptCorrected(box.have)
        /\ \/ model = MISSING /\ Tell(One(AcceptCorrected(u, qc2)), FALSE)
           \/ model # MISSING /\ Tell(One(AcceptCorrected(SetCorrected(u, model), qc2)), FALSE)
  /\ Noted({}, << >>, << >>)

-----------------------------------------------------------------------------
(* selectionChanged comes to the buttons and to fetchData of the tool.     *)
(* beside tells whether the table has columns of observations as well.     *)
Select(cells, column, beside) ==
  LET s == [selection EXCEPT !.cells = cells, !.column = column, !.beside = beside]
      between(c) == \E a, b \in cells : Time(a) < Time(c) /\ Time(c) < Time(b)
      fits == /\ column = "corrected" /\ Cardinality(cells) >= 3
              /\ \A a, b \in cells : Kind(a) = Kind(b)
              /\ \A c \in Cells : Kind(c) \in {Kind(d) : d \in cells} /\ between(c) => c \in cells
  IN
  /\ ~beside => column = "model"
  /\ column = "other" => cells = Cells
  /\ selection' = [s EXCEPT !.chosen = Chosen(s, obs)]
  /\ tool' = IF fits THEN [cells |-> cells, on |-> checkEnabled(cells, obs)] ELSE [tool EXCEPT !.on = FALSE]
  /\ UNCHANGED << sCode2Text, obs, box, past >>

(* The functions of AcceptReject: what each stores for observations ds.    *)
accept_original(ds) ==
  [c \in {d \in DOMAIN ds : CanAcceptOriginal(ds[d])} |-> DataOf(AcceptOriginal(CreateUpdate(c, ds[c])))]
accept_corrected(ds, qc2ok) ==
  [c \in {d \in DOMAIN ds : CanAcceptCorrected(ds[d])} |-> DataOf(AcceptCorrected(CreateUpdate(c, ds[c]), qc2ok))]
accept_model(ds, model, qc2ok) ==
  [c \in DOMAIN ds |-> LET update == SetCorrected(CreateUpdate(c, ds[c]), model) IN
     DataOf(IF CanAcceptCorrected(ds[c]) THEN AcceptCorrected(update, qc2ok) ELSE update)]
reject(ds, qc2ok) ==
  IF \A c \in DOMAIN ds : CanReject(ds[c])
  THEN [c \in DOMAIN ds |-> DataOf(RejectOne(CreateUpdate(c, ds[c]), qc2ok))] ELSE None

AcceptSelected(qc2, model, known) ==
  LET chosen == selection.chosen
      stale == {c \in DOMAIN chosen : chosen[c] # obs[c]}
  IN
  /\ enableAccept(selection, qc2) /\ DOMAIN chosen # {}
  /\ known \subseteq DOMAIN chosen
  /\ CASE selection.column = "original"  -> known = {} /\ Tell(accept_original(chosen), TRUE)
       [] selection.column = "corrected" -> known = {} /\ Tell(accept_corrected(chosen, qc2), TRUE)
       [] OTHER -> Tell(accept_model([c \in known |-> chosen[c]], model, qc2), TRUE)
  /\ Noted(stale, << >>, << >>)

RejectSelected(qc2) ==
  /\ enableReject(selection) /\ DOMAIN selection.chosen # {}
  /\ Tell(reject(selection.chosen, qc2), TRUE)
  /\ Noted({}, << >>, << >>)

-----------------------------------------------------------------------------
(* onInterpolate, for the cells taken last, also when others are selected. *)
Rounded(n, d) == IF n < 0 THEN -((2 * (-n) + d) \div (2 * d)) ELSE (2 * n + d) \div (2 * d)
OffCircle(v) == v % Circle   \* mistake: north is not 360
OnCircle(v) == LET m == v % Circle IN IF m = 0 THEN Circle ELSE m
Abs(n) == IF n < 0 THEN -n ELSE n
Interpolated(kind, c0, c1, t0, t1, t) ==
  LET start == IF kind = "direction" /\ c0 # 0 /\ c1 # 0 /\ Abs(c0 + Circle - c1) < Abs(c0 - c1)
                 THEN c0 + Circle ELSE c0
      v == Rounded((t - t0) * c1 + (t1 - t) * start, t1 - t0)
  IN IF kind # "direction" THEN v ELSE IF c0 = 0 \/ c1 = 0 THEN 0 ELSE OnCircle(v)

Interpolate ==
  LET first == Ends(tool.cells)[1]
      last  == Ends(tool.cells)[2]
      c0 == obs[first].corrected
      c1 == obs[last].corrected
      between == tool.cells \ {first, last}
      value == [c \in between |-> Interpolated(Kind(first), c0, c1, Time(first), Time(last), Time(c))]
      owned == {c \in between : Kind(c) = "rr" /\ obs[c] # NoObs}
  IN
  /\ tool.on
  /\ Tell([c \in between |-> DataOf(AutoCorrect(CreateUpdate(c, obs[c]), obs[c], value[c]))], FALSE)
  /\ Noted(owned, << >>, << Kind(first), c0, c1, value >>)

Next ==
  \/ BufferCompleted \/ Interpolate
  \/ \E c \in Boxed \cap Cells : Navigate(c)
  \/ \E c \in Cells, t \in Texts : EnterInTable(c, t)
  \/ \E t \in Texts : EnterInBox(t)
  \/ \E b \in ALL, q \in BOOLEAN, m \in Models \cup {MISSING} : Press(b, q, m)
  \/ \E cells \in Selections \cap SUBSET Cells, col \in {"original", "corrected", "model", "other"}, b \in BOOLEAN :
       Select(cells, col, b)
  \/ \E q \in BOOLEAN : RejectSelected(q) \/ \E m \in Models, known \in SUBSET Cells : AcceptSelected(q, m, known)

-----------------------------------------------------------------------------
(* What the flags of an observation say of its values. *)
FlagsTell(d) ==
  /\ d.ci.fmis = 0 => d.original # MISSING /\ d.corrected \notin {MISSING, REJECTED}
  /\ d.ci.fmis = 1 => d.original = MISSING /\ d.corrected \notin {MISSING, REJECTED}
  /\ d.ci.fmis = 2 => d.original # MISSING /\ d.corrected = REJECTED
  /\ d.ci.fmis = 3 => d.original = MISSING /\ d.corrected = MISSING
  /\ d.ci.fmis = 4 => d.original # MISSING /\ d.corrected \notin {MISSING, REJECTED}

(* Whatever is typed, pressed or interpolated, flags and values agree, the *)
(* originals stay, and what WatchRR is for is left to it.  Not so (odd):   *)
(* an emptied Vx, a typed -32767, a strength without its code, what the    *)
(* box does before it has the observation, a model value accepted for what *)
(* has changed since it was selected, and an interpolation over daily sums. *)
CorrectionsKept ==
  \A c \in Cells \ past.odd :
    /\ obs[c] # NoObs => FlagsTell(obs[c])
    /\ past.first[c] # NoObs => obs[c] # NoObs /\ obs[c].original = past.first[c].original
    /\ Kind(c) = "rr" /\ past.first[c] # NoObs /\ IsAccumulation(past.first[c].ci) # NO => obs[c] = past.first[c]

(* A code and its strength are shown as they were typed; a word as itself, *)
(* or as the word for the same code, and what is rejected without having   *)
(* been observed is missing.  An interpolation lies between its ends; of   *)
(* directions it is calm only between calms.                               *)
ResultsTrue ==
  /\ past.typed # << >> => LET c == past.typed[1] text == past.typed[2] IN
       c \notin past.odd =>
         CASE text.kind = "vx"     -> ShownVx(c, obs) = << text.value, text.level >>
           [] text.kind = "number" -> obs[c].corrected = text.value \/ text.value = REJECTED
           [] OTHER -> LET v == fromText(Kind(c), text)[1] IN
                \/ asText(Kind(c), obs[c].corrected) = << sCode2Text[Kind(c)][v][1] >>
                \/ v = REJECTED /\ asText(Kind(c), obs[c].corrected) = << "mis" >> /\ obs[c].original = MISSING
  /\ past.line # << >> => \A c \in DOMAIN past.line[4] :
       LET v == past.line[4][c] c0 == past.line[2] c1 == past.line[3] IN
       IF past.line[1] # "direction" THEN (c0 <= v /\ v <= c1) \/ (c1 <= v /\ v <= c0)
       ELSE IF c0 = 0 THEN v = 0 ELSE v \in 1 .. Circle

(* A button beside the table is enabled only if it can be done to all that *)
(* are selected; but a table of model values alone may be behind.          *)
ButtonsInStep ==
  selection.beside =>
    /\ selection.chosen = Chosen(selection, obs)
    /\ enableReject(selection) => \A c \in DOMAIN selection.chosen : CanReject(obs[c])
    /\ enableAccept(selection, FALSE) => \A c \in DOMAIN selection.chosen :
         IF selection.column = "original" THEN CanAcceptOriginal(obs[c]) ELSE CanAcceptCorrected(obs[c])

EditsKeepRules == CorrectionsKept /\ ResultsTrue /\ ButtonsInStep

vars == << sCode2Text, obs, box, selection, tool, past >>
Spec == Init /\ [][Next]_vars

-----------------------------------------------------------------------------
(* What the constants are.  An amount is not one of the two values that    *)
(* stand for none; what is there at first has flags that agree with its    *)
(* values, and a Vx its strength.                                          *)
Amounts == {v \in Int : v > REJECTED}
ControlInfo == {ci \in [Flags -> Values] : ci.fmis <= 4}
Observations == [original : Amounts \cup {MISSING}, corrected : Amounts \cup {MISSING, REJECTED},
                 ci : ControlInfo, tasks : SUBSET STRING]
SceneOK(s) ==
  /\ IsFiniteSet(DOMAIN s)
  /\ s = [c \in DOMAIN s |-> s[c]]
  /\ \A c \in DOMAIN s :
       /\ c = << Kind(c), Time(c) >> /\ Time(c) \in Int
       /\ Kind(c) = "vx" => << "strength", Time(c) >> \in DOMAIN s
       /\ s[c] # NoObs => s[c] \in Observations /\ FlagsTell(s[c])
TextOK(t) ==
  /\ t.kind \in {"empty", "word", "number", "vx"}
  /\ t.kind = "number" => t.value \in Int
  /\ t.kind = "vx" => t.level \in 0 .. 2
CorrectionsConstants ==
  /\ NoObs \notin Observations
  /\ \A s \in Scenes : SceneOK(s)
  /\ \A t \in Texts : TextOK(t)
  /\ \A r \in Tables.codes : r.value \in Amounts
  /\ VxCodes \subseteq Amounts /\ Models \subseteq Amounts
  /\ Lowest \in Amounts /\ Highest \in Int
  /\ Circle \in Nat \ {0}
=============================================================================
