------------------------------- MODULE ObsBuffers -------------------------------
(***************************************************************************)
(* The buffers behind lists and tables (SimpleBuffer, SortedBuffer,        *)
(* TimeBuffer, IndexBuffer, SingleObsBuffer), all fed by the same signals  *)
(* of one request: new, updated and dropped observations, in batches.      *)
(***************************************************************************)
EXTENDS SortedBuffer, FiniteSets

CONSTANTS
  Ids,       \* the observations
  TimeOf,    \* the time of each
  SensorOf,  \* the sensor of each
  Values,    \* corrected values
  End,       \* the time span of the request is 0 .. End
  Step,      \* mStepSeconds
  Single     \* the observation of the SingleObsBuffer

VARIABLES
  have,      \* the value of each observation that the access has told of
  byTime,    \* mData of a TimeBuffer
  byValue,   \* mData of a SortedBuffer with CorrectedOrdering
  index,     \* mData of an IndexBuffer
  single,    \* mObs of the SingleObsBuffer, << >> for none
  missed     \* the observations that onDropData of byValue ever failed to find

vars == << have, byTime, byValue, index, single, missed >>

-----------------------------------------------------------------------------
(* IndexBuffer: of each sensor one observation for each step *)
Steps == IF End % Step # 0 THEN End \div Step ELSE End \div Step + 1
FindIndex(id) == IF TimeOf[id] % Step = 0 /\ TimeOf[id] \div Step < Steps THEN {TimeOf[id] \div Step + 1} ELSE {}
Indexed(data, o) ==
  [s \in DOMAIN data |->
     [i \in 1 .. Steps |-> IF s = SensorOf[o.id] /\ i \in FindIndex(o.id) THEN << o >> ELSE data[s][i]]]
Unindexed(data, id) ==
  [s \in DOMAIN data |->
     [i \in 1 .. Steps |-> IF s = SensorOf[id] /\ i \in FindIndex(id) THEN << >> ELSE data[s][i]]]

(* SingleObsBuffer: its request is sent only what matches *)
OnSingle(mObs, batch) ==
  LET mine == SelectSeq(batch, LAMBDA o : o.id = Single) IN IF Len(mine) = 1 THEN << mine[1] >> ELSE mObs

-----------------------------------------------------------------------------
Init ==
  /\ have = << >> /\ byTime = << >> /\ byValue = << >> /\ single = << >> /\ missed = {}
  /\ index = [s \in {SensorOf[id] : id \in Ids} |-> [i \in 1 .. Steps |-> << >>]]

Batch(ids, v) == [i \in 1 .. Cardinality(ids) |-> [id |-> SetToSortSeq(ids, >)[i], value |-> v]]
Told(batch) ==
  [id \in DOMAIN have \cup {o.id : o \in ToSet(batch)} |->
     IF \E o \in ToSet(batch) : o.id = id THEN batch[1].value ELSE have[id]]

SortedData(data, batch, new, byT) ==
  IF new THEN OnNewData(data, batch, byT) ELSE OnUpdateData(data, batch, byT)
Filled(batch, new) ==
  /\ have' = Told(batch)
  /\ byTime' = SortedData(byTime, batch, new, TRUE) /\ byValue' = SortedData(byValue, batch, new, FALSE)
  /\ index' = FoldLeft(Indexed, index, batch) /\ single' = OnSingle(single, batch)
  /\ UNCHANGED missed

\* the answer of the backend, or an observation that was created
NewData(ids, v) == ids \cap DOMAIN have = {} /\ Filled(Batch(ids, v), TRUE)
\* updates are sent to every request whose sensors and time span match, filtered or not
UpdateData(ids, v) == Filled(Batch(ids, v), FALSE)
DropData(ids) ==
  LET seq == SetToSortSeq(ids, <)
  IN  /\ ids \subseteq DOMAIN have
      /\ have' = [id \in DOMAIN have \ ids |-> have[id]]
      /\ byTime' = OnDropData(byTime, seq) /\ byValue' = OnDropData(byValue, seq)
      /\ index' = FoldLeft(Unindexed, index, seq)
      /\ single' = (IF Single \in ids THEN << >> ELSE single)
      /\ missed' = missed \cup {id \in ids : FindUnsorted(byValue', id) # {}}

Next == \E ids \in (SUBSET Ids) \ {{}} :
  \/ \E v \in Values : NewData(ids, v) \/ UpdateData(ids, v)
  \/ DropData(ids)

Spec == Init /\ [][Next]_vars

-----------------------------------------------------------------------------
Current(id) == [id |-> id, value |-> have[id]]
Exact(data) ==   \* what the access told of, each once
  /\ \A id \in DOMAIN have : Current(id) \in ToSet(data)
  /\ Len(data) = Cardinality(DOMAIN have)

\* All buffers hold what the access told of.  The one sorted by value does so as
\* long as it finds what is dropped; then it keeps too much, and what comes back
\* is no longer sorted.  The one with an index lacks the last step of a time
\* span that is no multiple of the step.
BuffersAgree ==
  /\ Exact(byTime) /\ Sorted(byTime, TRUE) = byTime
  /\ missed = {} => Exact(byValue) /\ Sorted(byValue, FALSE) = byValue
  /\ \A id \in DOMAIN have : Current(id) \in ToSet(byValue)
  /\ {o.id : o \in ToSet(byValue)} \subseteq DOMAIN have \cup missed
  /\ single = (IF Single \in DOMAIN have THEN << Current(Single) >> ELSE << >>)
  /\ \A id \in Ids : TimeOf[id] % Step = 0 /\ (End % Step = 0 \/ TimeOf[id] + Step <= End) =>
       index[SensorOf[id]][TimeOf[id] \div Step + 1] =
         (IF id \in DOMAIN have THEN << Current(id) >> ELSE << >>)
=============================================================================
