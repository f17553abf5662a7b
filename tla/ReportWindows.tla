------------------------------- MODULE ReportWindows -------------------------------
(***************************************************************************)
(* Text data of a station and rejected messages (src/src/textdata,         *)
(* src/src/rejectedobs): a modal dialog asks for a time span, and a window *)
(* of its own posts a task and shows what it returns.  Times are minutes.  *)
(***************************************************************************)
EXTENDS Integers, Sequences, FiniteSets

CONSTANTS
  Rows,       \* [kind, station, time] in the database; rejected messages have station 0
  Known,      \* the stations of isKnownStation
  Current,    \* the [station, time] that a text data dialog may be opened for
  Stations,   \* what is entered as a station, 0 for what is no number
  EditTimes,  \* the times that are entered
  Now,        \* nowWithMinutes0Seconds0
  MaxWindows  \* bound on the windows open at a time

Hour == 60
Days2 == 48 * Hour

VARIABLES
  dialog,   \* << >> or [kind, station, from, to, latestFrom, earliestTo]
  windows,  \* [kind, station, span, task], task "queued", "done" or "taken"
  rows,     \* what the windows show, "busy" before their task is done
  result    \* what their tasks read

vars == << dialog, windows, rows, result >>

Init == dialog = << >> /\ windows = << >> /\ rows = << >> /\ result = << >>

-----------------------------------------------------------------------------
(* The limits of the editors are set once, from the first values *)
DialogFor(kind, station, to) ==
  << [kind |-> kind, station |-> station, from |-> to - Days2, to |-> to,
      latestFrom |-> to, earliestTo |-> to - Days2] >>

ShowRejected == dialog = << >> /\ dialog' = DialogFor("rejected", 0, Now) /\ UNCHANGED << windows, rows, result >>
ShowTextData(st) ==
  dialog = << >> /\ dialog' = DialogFor("text", st.station, st.time) /\ UNCHANGED << windows, rows, result >>

EditDialog(d) == dialog # << >> /\ dialog' = << d >> /\ UNCHANGED << windows, rows, result >>
SetStation(s) == dialog # << >> /\ dialog[1].kind = "text" /\ EditDialog([dialog[1] EXCEPT !.station = s])
SetFromTime(t) ==
  dialog # << >> /\ t <= dialog[1].latestFrom /\ EditDialog([dialog[1] EXCEPT !.from = t])
SetToTime(t) ==
  dialog # << >> /\ t >= dialog[1].earliestTo /\ EditDialog([dialog[1] EXCEPT !.to = t])

\* clearedMinutesAndSeconds, for text data only
Cleared(t) == Hour * (t \div Hour)
GetTimeSpan(d) ==
  IF d.kind = "text" THEN << Cleared(d.from), Cleared(d.to) >> ELSE << d.from, d.to >>

(* An unknown station is refused, and the dialog stays open *)
Accept ==
  /\ dialog # << >> /\ Len(windows) < MaxWindows
  /\ dialog[1].kind = "text" => dialog[1].station \in Known
  /\ windows' = Append(windows, [kind |-> dialog[1].kind, station |-> dialog[1].station,
                                 span |-> GetTimeSpan(dialog[1]), task |-> "queued"])
  /\ rows' = Append(rows, << >>) /\ result' = Append(result, << >>)
  /\ dialog' = << >>
Reject == dialog # << >> /\ dialog' = << >> /\ UNCHANGED << windows, rows, result >>

-----------------------------------------------------------------------------
Found(w) == {r \in Rows : r.kind = w.kind /\ r.station = w.station /\ w.span[1] <= r.time /\ r.time <= w.span[2]}

(* The thread runs the query; notifyDone with an error clears the rows *)
NotifyDone(w, failed) == IF failed THEN {} ELSE Found(w)
Run(i, failed) ==
  /\ i \in DOMAIN windows /\ windows[i].task = "queued"
  /\ result' = [result EXCEPT ![i] = << NotifyDone(windows[i], failed), failed >>]
  /\ windows' = [windows EXCEPT ![i].task = "done"]
  /\ UNCHANGED << dialog, rows >>

(* onQueryDone, also while a dialog is open *)
OnQueryDone(i) ==
  /\ i \in DOMAIN windows /\ windows[i].task = "done"
  /\ rows' = [rows EXCEPT ![i] = << result[i][1] >>]
  /\ windows' = [windows EXCEPT ![i].task = "taken"]
  /\ UNCHANGED << dialog, result >>

Without(s, i) == SubSeq(s, 1, i - 1) \o SubSeq(s, i + 1, Len(s))

(* ~Rejects, ~TextData: the helper drops the task, done or not *)
Close(i) ==
  /\ dialog = << >> /\ i \in DOMAIN windows
  /\ windows' = Without(windows, i) /\ rows' = Without(rows, i) /\ result' = Without(result, i)
  /\ UNCHANGED dialog

Next ==
  \/ ShowRejected \/ Accept \/ Reject
  \/ \E st \in Current : ShowTextData(st)
  \/ \E s \in Stations : SetStation(s)
  \/ \E t \in EditTimes : SetFromTime(t) \/ SetToTime(t)
  \/ \E i \in 1 .. MaxWindows :
       \/ \E failed \in BOOLEAN : Run(i, failed)
       \/ OnQueryDone(i) \/ Close(i)

Spec == Init /\ [][Next]_vars

-----------------------------------------------------------------------------
\* A window shows all that there is for its station in its time span, or nothing
\* when its query failed, whichever windows were opened and closed in between;
\* text data windows are for known stations and whole hours.
WindowsShowTheirs ==
  \A i \in DOMAIN windows :
    /\ rows[i] # << >> => rows[i][1] = IF result[i][2] THEN {} ELSE Found(windows[i])
    /\ windows[i].kind = "text" =>
         windows[i].station \in Known /\ windows[i].span[1] % Hour = 0 /\ windows[i].span[2] % Hour = 0
=============================================================================
