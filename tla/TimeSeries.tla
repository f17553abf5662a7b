------------------------------- MODULE TimeSeries -------------------------------
(***************************************************************************)
(* TimeSeriesView: the lines of the current sensor and its neighbours, for *)
(* a time span that follows the navigation until the user edits it in the  *)
(* two editors that a TimeSpanControl keeps apart.                         *)
(***************************************************************************)
EXTENDS Navigation, SequencesExt, FiniteSets

CONSTANTS
  Obs,         \* the observations that may be navigated to: records [sensor, time]
  Neighbours,  \* of each station the sequence of its neighbours
  LinesOf,     \* of each station the sequence of its sensors in obs_pgm
  Hours,       \* ViewChanges::defaultTimeLimits, before and after the time
  Gaps,        \* the minimum and the maximum gap of the editors
  EditTimes,   \* the times that the user enters
  EditRange,   \* the first and the last time that an editor takes
  Added,       \* the sensors that the user adds
  MaxLines     \* MAX_LINES

S == INSTANCE TimeSpans

\* Neighbours have lines.  The span of the navigation keeps the gap between the
\* editors, and they take any time that the user enters and the other end that it is
\* moved to.
PlotConstants ==
  /\ \A n \in DOMAIN LinesOf : LinesOf[n] \in Seq(ToSet(LinesOf[n]))
  /\ \A st \in Obs : Neighbours[st.sensor.station] \in Seq(DOMAIN LinesOf)
  /\ Hours \in Nat /\ Gaps \in Nat \X Nat /\ EditRange \in Int \X Int
  /\ Gaps[1] <= 2 * Hours /\ (Gaps[2] > 0 => 2 * Hours <= Gaps[2])
  /\ NoObs \notin Obs /\ \A st \in Obs : st.time \in Int
  /\ EditTimes \subseteq Int
  /\ \A t \in EditTimes, h \in {Gaps[1], Gaps[2]} : EditRange[1] <= t - h /\ t + h <= EditRange[2]

VARIABLES
  nav,      \* mNavigate
  visible,  \* whether the view is visible
  plot,     \* the view's own state, see Init
  request,  \* the stations that mObsPgmRequest has asked for, or << >>
  known,    \* the stations whose obs_pgm KvMetaDataBuffer has
  edited    \* history: the user set or reset the time span since navigation set it

vars == << nav, visible, plot, request, known, edited >>

Init ==
  /\ nav = NavigateHelper /\ visible = TRUE
  /\ request = << >> /\ known = {} /\ edited = FALSE
  /\ plot = [store |-> NoObs,             \* mStoreSensorTime
             limits |-> << 0, 0 >>,       \* mTimeLimits
             original |-> << 0, 0 >>,     \* mOriginalTimeLimits
             editors |-> << 0, Gaps[1] >>,
             sensors |-> << >>, originalSensors |-> << >>,
             reset |-> FALSE,             \* mColumnReset is enabled
             buffer |-> << >>,            \* the sensors and the time span of mObsBuffer
             busy |-> FALSE,              \* mBusy
             drawn |-> << >>]             \* what ui->plot has, << >> for a plot from before

\* storeChanges: what it writes is not read again (replay asks for mSensorTime)
StoreChanges(p) == [p EXCEPT !.store = nav.last]

\* updateTime
UpdateTime(p) == [p EXCEPT !.buffer = << p.sensors, p.limits >>, !.busy = TRUE, !.drawn = << >>]

\* updatePlot, where the lines of the sensors good have values that can be plotted;
\* the first is drawn last, and without lines the plot stays as it was
PlottedUpTo(sensors, good) ==
  LET upTo[i \in 0 .. Len(sensors)] ==
        IF i = 0 THEN << >>
        ELSE IF sensors[i] \in good /\ Len(upTo[i - 1]) < MaxLines
          THEN << sensors[i] >> \o upTo[i - 1]
        ELSE upTo[i - 1]
  IN  upTo
Plotted(p, good) == PlottedUpTo(p.sensors, good)[Len(p.sensors)]
Draw(p, good, now) ==
  [p EXCEPT !.busy = FALSE,
            !.drawn = IF Plotted(p, good) = << >> THEN << >> ELSE << Plotted(p, good), p.buffer[2], now >>]

(* updateTimeEditors: meanwhile setTimeSpan returns (mChangingTimes).      *)
UpdateEditorsUnguarded(p) ==   \* mistake: the first editor's signal sets the time span
  LET e == S!SetT0(p.editors, p.limits[1], Gaps, EditRange)
  IN  [p EXCEPT !.limits = S!SetT1(e, e[2], Gaps, EditRange),
                !.editors = S!SetT1(e, e[2], Gaps, EditRange)]
UpdateEditors(p) == [p EXCEPT !.editors = S!SetBoth(@, p.limits, Gaps, EditRange)]

-----------------------------------------------------------------------------
StationIds(s) == {s.station} \cup {Neighbours[s.station][i] : i \in DOMAIN Neighbours[s.station]}

LinesUpTo(s, got) ==
  LET near == Neighbours[s.station]
      upTo[i \in 0 .. Len(near)] ==
        IF i = 0 THEN << s >>
        ELSE upTo[i - 1] \o (IF near[i] \in got THEN LinesOf[near[i]] ELSE << >>)
  IN  upTo
Lines(s, got) == LinesUpTo(s, got)[Len(Neighbours[s.station])]

(* haveNeighbors: replay finds no stored changes, and takes the original   *)
(* lines and the original time span.                                       *)
HaveNeighbors(p, current, got) ==
  LET lines == Lines(current.sensor, got)
  IN  UpdateTime(UpdateEditors([p EXCEPT !.sensors = lines, !.originalSensors = lines,
                                         !.limits = p.original, !.reset = FALSE]))

DoNavigateTo(st) ==
  LET changedSensor == plot.store = NoObs \/ plot.store.sensor # st.sensor
      changedTime   == changedSensor \/ ~S!Contains(plot.limits, st.time)
      span  == << st.time - Hours, st.time + Hours >>
      moved == IF changedTime
               THEN UpdateEditors([plot EXCEPT !.limits = span, !.original = span]) ELSE plot
  IN  /\ edited' = (edited /\ ~changedTime)
      /\ IF changedSensor /\ StationIds(st.sensor) \subseteq known
           THEN plot' = HaveNeighbors(moved, st, known) /\ request' = << >>
         ELSE IF changedSensor
           THEN plot' = moved /\ request' = << StationIds(st.sensor) >>
         ELSE /\ plot' = (IF changedTime THEN UpdateTime(moved) ELSE [plot EXCEPT !.drawn = IF @ = << >> THEN @ ELSE << @[1], @[2], st.time >>])
              /\ UNCHANGED request

NavigateTo(st) ==
  /\ nav' = Navigated(nav, st, FALSE)
  /\ IF Navigates(nav, st, FALSE) THEN DoNavigateTo(st) ELSE UNCHANGED << plot, request, edited >>
  /\ UNCHANGED << visible, known >>

Visibility ==
  /\ visible' = ~visible
  /\ IF visible THEN nav' = Hide(nav) /\ UNCHANGED << plot, request, edited >>
     ELSE /\ nav' = Show(nav)
          /\ IF ShowNavigates(nav) THEN DoNavigateTo(nav.last)
             ELSE UNCHANGED << plot, request, edited >>
  /\ UNCHANGED known

ObsPgmsComplete(failed) ==
  /\ request # << >>
  /\ known' = IF failed THEN known ELSE known \cup request[1]
  /\ plot' = HaveNeighbors(plot, nav.last, known')
  /\ request' = << >>
  /\ UNCHANGED << nav, visible, edited >>

(* onDateFromChanged and onDateToChanged: the control moves the other      *)
(* editor, whose signal sets the time span too.                            *)
SetTimeSpan(e) ==
  /\ visible /\ plot.editors # e /\ nav.last # NoObs
  /\ plot' = UpdateTime(StoreChanges([plot EXCEPT !.editors = e, !.limits = e]))
  /\ edited' = TRUE
  /\ UNCHANGED << nav, visible, request, known >>
EditFrom(t) == SetTimeSpan(S!SetT0(plot.editors, t, Gaps, EditRange))
EditTo(t)   == SetTimeSpan(S!SetT1(plot.editors, t, Gaps, EditRange))

ChangeLines(lines) ==
  /\ visible /\ request = << >> /\ nav.last # NoObs
  /\ plot' = UpdateTime(StoreChanges([plot EXCEPT !.sensors = lines, !.reset = TRUE]))
  /\ UNCHANGED << nav, visible, request, known, edited >>
AddLine(s) == Len(plot.sensors) = Len(plot.originalSensors) /\ ChangeLines(Append(plot.sensors, s))
KeptUpTo(sensors, rows) ==
  LET upTo[i \in 0 .. Len(sensors)] ==
        IF i = 0 THEN << >>
        ELSE IF i \in rows THEN upTo[i - 1] ELSE Append(upTo[i - 1], sensors[i])
  IN  upTo
RemoveLines(rows) ==
  rows # {} /\ ChangeLines(KeptUpTo(plot.sensors, rows)[Len(plot.sensors)])
ResetLines ==
  /\ plot.reset
  /\ visible /\ nav.last # NoObs
  /\ plot' = UpdateTime(UpdateEditors(StoreChanges(
               [plot EXCEPT !.limits = plot.original, !.sensors = plot.originalSensors, !.reset = FALSE])))
  /\ edited' = TRUE
  /\ UNCHANGED << nav, visible, request, known >>

\* The buffer is complete, or has had new data since, or model values came.
UpdatePlot(good) ==
  /\ plot.buffer # << >> /\ good \subseteq ToSet(plot.sensors)
  /\ plot' = Draw(plot, good, nav.last.time)
  /\ UNCHANGED << nav, visible, request, known, edited >>

Next ==
  \/ \E st \in Obs : NavigateTo(st)
  \/ Visibility
  \/ \E failed \in BOOLEAN : ObsPgmsComplete(failed)
  \/ \E t \in EditTimes : EditFrom(t) \/ EditTo(t)
  \/ \E s \in Added : AddLine(s)
  \/ \E i \in DOMAIN plot.sensors : RemoveLines({i})
  \/ ResetLines
  \/ \E good \in SUBSET ToSet(plot.sensors) : UpdatePlot(good)

Spec == Init /\ [][Next]_vars

-----------------------------------------------------------------------------
\* What is plotted is what the view says it plots: the editors show the time
\* span, the gap between them is kept, the data were requested for the lines
\* and the span of now unless neighbours are awaited, and a span that the user
\* did not set contains the current observation.  What has been drawn since
\* are these lines for that span, with the mark at the current time; but when no
\* line has values an older plot stays.
PlotIsOfView ==
  nav.last # NoObs /\ plot.sensors # << >> =>
    /\ plot.editors = plot.limits
    /\ S!GapKept(plot.editors, Gaps)
    /\ request = << >> => plot.buffer = << plot.sensors, plot.limits >>
    /\ ~edited => plot.limits = plot.original
    /\ visible /\ ~edited => S!Contains(plot.limits, nav.last.time)
    /\ visible /\ request = << >> /\ plot.drawn # << >> =>
         /\ ~plot.busy
         /\ ToSet(plot.drawn[1]) \subseteq ToSet(plot.sensors)
         /\ plot.drawn[2] = plot.limits /\ plot.drawn[3] = nav.last.time
=============================================================================
