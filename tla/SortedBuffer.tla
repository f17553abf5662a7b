------------------------------ MODULE SortedBuffer ------------------------------
(***************************************************************************)
(* The sequence in a SortedBuffer, by time (TimeBuffer) or by value        *)
(* (CorrectedOrdering).  An observation is the number of its SensorTime in *)
(* lt_SensorTime; what the buffer holds of it is [id, value].              *)
(***************************************************************************)
EXTENDS Integers, SequencesExt

TimeBefore(a, b) == a.id < b.id
ValueBefore(a, b) == a.value < b.value \/ (a.value = b.value /\ a.id < b.id)

Sorted(data, byT) == SortSeq(data, LAMBDA a, b : IF byT THEN TimeBefore(a, b) ELSE ValueBefore(a, b))

FindUnsorted(data, id) == {i \in DOMAIN data : data[i].id = id}

(* std::lower_bound with the ordering of SensorTimes, whatever the data are *)
(* sorted by                                                                *)
LowerBound(data, id) ==
  LET from[first \in 0 .. Len(data), len \in 0 .. Len(data)] ==
        IF len = 0 THEN first + 1
        ELSE LET half == len \div 2
             IN  IF data[first + half + 1].id < id THEN from[first + half + 1, len - half - 1]
                 ELSE from[first, half]
  IN  from[0, Len(data)]
FindSorted(data, id) ==
  LET i == LowerBound(data, id) IN IF i <= Len(data) /\ data[i].id = id THEN {i} ELSE {}

\* replaced where it is, or put at the end
Merged(data, o) ==
  LET at == FindUnsorted(data, o.id)
  IN  IF at = {} THEN Append(data, o) ELSE [i \in DOMAIN data |-> IF i \in at THEN o ELSE data[i]]
AllMerged(data, batch) == FoldLeft(Merged, data, batch)

OnNewData(data, batch, byT) ==   \* sorted only if something was put at the end
  LET all == AllMerged(data, batch) IN IF Len(all) > Len(data) THEN Sorted(all, byT) ELSE all
OnUpdateData(data, batch, byT) == Sorted(AllMerged(data, batch), byT)
OnDropData(data, ids) ==
  FoldLeft(LAMBDA d, id : SelectSeq(d, LAMBDA o : \A i \in FindSorted(d, id) : o # d[i]), data, ids)
=================================================================================
