---------------------------- MODULE MCCachingAccess ----------------------------
(* Small instances of CachingAccess. *)
EXTENDS CachingAccess

All == 1 .. MaxValue
Ask(sensors, from, to, filter) ==
  [sensors |-> sensors, t0 |-> from, t1 |-> to, filter |-> filter]

(* Every span between even instants; odd ones lie in between. *)
Spans(last) == {p \in (0 .. last) \X (0 .. last) : p[1] <= p[2] /\ \A i \in 1 .. 2 : p[i] % 2 = 0}
AllShapes(last) ==
  {Ask(s, p[1], p[2], All) : s \in (SUBSET Sensors) \ {{}}, p \in Spans(last)}

Requests == Permutations(Request)
SpanShapes == AllShapes(4)
DataShapes ==
  {Ask({1}, 0, 1, All), Ask({1, 2}, 1, 2, All), Ask({1, 2}, 0, 2, {1}),
   Ask({Invalid}, 0, 1, {1})}

Holes == [o \in Obs |-> IF o[2] = 1 THEN 0 ELSE o[1]]
Empty == {NoData}
Some == {Holes}
OneFilter == {All}
TwoFilters == {All, {1}}

(* Answers and changes of the backend have no part in which buffers are    *)
(* made, shared and dropped.                                               *)
SpanSpec ==
  Init /\ [][Clean \/ \E r \in Request : PostRequest(r) \/ DropRequest(r)]_vars
=============================================================================
