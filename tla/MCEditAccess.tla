------------------------------ MODULE MCEditAccess ------------------------------
(* Small instances of EditAccess, without and with the tree of versions.   *)
EXTENDS EditAccess

CONSTANTS o1, o2, all, some, other, low, miss

(* A list without filter; one with a filter; and one that is shown what is *)
(* missing, so that an observation made by the client is not for it.       *)
MCCovers == [r \in Req |-> IF r = all THEN Obs ELSE {o1}]
MCAccepts == [r \in Req |-> IF r = all THEN Val ELSE IF r = some THEN {low} ELSE {miss}]

ViewSpec == ModelInit /\ [][Next /\ UNCHANGED mHistory]_modelVars
=============================================================================
