---------------------------- MODULE MCKvalobsAccess ----------------------------
(* Two stations with a sensor each. *)
EXTENDS KvalobsAccess

CONSTANTS s1, s2, n1, n2, q1, q2, low, miss

MCStationId == [s \in Sensor |-> IF s = s2 THEN n2 ELSE n1]
MCInitial == {[s \in Sensor |-> IF s = s1 THEN low ELSE NoData]}
MCAccepts == [r \in Request |-> IF r = q1 THEN Value ELSE {low}]

(* One request for both stations, and one with a filter for the first.     *)
MCSensors == [r \in Request |-> IF r = q1 THEN {s1, s2} ELSE {s1}]

(* One for a station, and one with a filter for all sensors.               *)
MCAll == [r \in Request |-> IF r = q1 THEN {s1} ELSE {AnySensor}]
=============================================================================
