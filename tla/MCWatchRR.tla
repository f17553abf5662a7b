------------------------------- MODULE MCWatchRR -------------------------------
EXTENDS WatchRR

\* The kinds of days of AnalyseRR24Test.cc: original, corrected, fd, fmis, fhqc, fcc.
Day(o, c, fd, fmis, fhqc, fcc) ==
  [original |-> o, corrected |-> c, tasks |-> {},
   ci |-> [fcc |-> fcc, fd |-> fd, fmis |-> fmis, fhqc |-> fhqc]]
Kind(k) ==
  CASE k = "plain"  -> Day(12, 12, 1, 0, 0, 3)
    [] k = "dry"    -> Day(DRY, DRY, 1, 0, 1, 3)
    [] k = "day"    -> Day(MISSING, MISSING, 2, 3, 0, 0)
    [] k = "end"    -> Day(8, 8, 4, 4, 0, 0)
    [] k = "dayQC2" -> Day(MISSING, 6, 7, 1, 0, 0)
    [] k = "endQC2" -> Day(8, 2, 8, 4, 0, 0)
    [] k = "dayHQC" -> Day(MISSING, 6, 9, 1, 6, 0)
    [] k = "endHQC" -> Day(8, 2, 10, 4, 6, 0)
    [] k = "maybe"  -> Day(30, 30, 3, 0, 0, 4)
    [] k = "rej"    -> Day(12, REJECTED, 1, 2, 4, 0)
    [] k = "gap"    -> NoObs

MCRows == { << "plain", "day", "day", "end" >>, << "day", "end", "dayHQC", "endHQC" >>,
            << "rej", "day", "gap", "endQC2" >> }
MCCards == { [c \in {"RR_24"} \X (1 .. 4) |-> Kind(row[c[2]])] : row \in MCRows }
MCChanges == { << << "RR_24", 3 >>, Kind("plain") >> }
MCWeights == { << 5, -1, 3, 0 >>, << -1, -1, -1, -1 >> }
MCAmounts == {DRY}
=============================================================================
