----------------------------- MODULE EditVersions -----------------------------
(***************************************************************************)
(* The class EditVersions of src/src/common/EditAccess.cc: all versions    *)
(* of one edited observation.  The first entry, version 0, is what the     *)
(* backend holds (NoData when the observation was created by the user);    *)
(* the entries after it are edits, each stamped with the version of the    *)
(* EditAccess in which it was stored.  "current" points at the entry that  *)
(* is shown.  Positions count from 1 here and from 0 in the code.          *)
(***************************************************************************)
EXTENDS Integers, Sequences

CONSTANTS
  Val,      \* what an observation can hold: corrected value and flags
  NoData,   \* the null ObsData_p
  Missing   \* the value of kvalobs::getMissingKvData

ASSUME ValAssumption == NoData \notin Val /\ Missing \in Val

Data == Val \cup {NoData}
Version == [version : Nat, data : Data]
VersionList == [versions : Seq(Version), current : Nat]

(* EditVersions::currentVersion, backendData, hasBackendData *)
CurrentVersion(ev) == ev.versions[ev.current].version
BackendData(ev) == ev.versions[1].data
HasBackendData(ev) == BackendData(ev) # NoData

(* EditVersions::currentData: a null pointer is replaced by fake data. *)
CurrentData(ev) ==
  LET c == ev.versions[ev.current].data
  IN  IF c = NoData THEN Missing ELSE c

(* The constructor: the backend's data and the first edit, which is shown. *)
NewVersions(backendData, n, d) ==
  [versions |-> << [version |-> 0, data |-> backendData],
                   [version |-> n, data |-> d] >>,
   current  |-> 2]

(* EditVersions::addVersion: entries after the shown one are forgotten. *)
AddVersion(ev, n, d) ==
  LET kept == IF n >= CurrentVersion(ev)
                THEN SubSeq(ev.versions, 1, ev.current)
                ELSE ev.versions
  IN  [versions |-> Append(kept, [version |-> n, data |-> d]),
       current  |-> Len(kept) + 1]

(* The two loops of EditVersions::setVersion.  The backward one stops at   *)
(* the first entry it meets with version at most n, or at the first entry; *)
(* the forward one stops before the first entry of a version above n.      *)
StepBack(ev, n) ==
  CHOOSE i \in 1 .. ev.current :
    /\ i = 1 \/ ev.versions[i].version <= n
    /\ \A k \in (i + 1) .. ev.current : ev.versions[k].version > n

StepForwardOnce(ev, n) ==   \* mistake: one entry per version
  IF ev.current < Len(ev.versions) /\ ev.versions[ev.current + 1].version <= n
    THEN ev.current + 1 ELSE ev.current

StepForward(ev, n) ==
  CHOOSE i \in ev.current .. Len(ev.versions) :
    /\ i = Len(ev.versions) \/ ev.versions[i + 1].version > n
    /\ \A k \in (ev.current + 1) .. i : ev.versions[k].version <= n

SetVersion(ev, n) ==
  [ev EXCEPT !.current = IF n < CurrentVersion(ev)
                           THEN StepBack(ev, n)
                           ELSE StepForward(ev, n)]

(* EditVersions::dropVersionsFrom: the entries from the first one of       *)
(* version n or more are erased.                                           *)
KeptUpTo(ev, n) ==   \* mistake: the entries of version n are kept
  CHOOSE m \in 0 .. Len(ev.versions) :
    /\ m = Len(ev.versions) \/ ev.versions[m + 1].version > n
    /\ \A k \in 1 .. m : ev.versions[k].version <= n

KeptBelow(ev, n) ==
  CHOOSE m \in 0 .. Len(ev.versions) :
    /\ m = Len(ev.versions) \/ ev.versions[m + 1].version >= n
    /\ \A k \in 1 .. m : ev.versions[k].version < n

DropVersionsFrom(ev, n) ==
  [versions |-> SubSeq(ev.versions, 1, KeptBelow(ev, n)),
   current  |-> IF n <= CurrentVersion(ev) THEN KeptBelow(ev, n) ELSE ev.current]

(* EditVersions::updateBackend *)
UpdateBackend(ev, d) ==
  [versions |-> [ev.versions EXCEPT ![1].data = d], current |-> ev.current]

(* EditVersions::versionData: the first entry with that version. *)
VersionData(ev, n) ==
  LET at == {i \in DOMAIN ev.versions : ev.versions[i].version = n}
  IN  IF at = {} THEN NoData
      ELSE ev.versions[CHOOSE i \in at : \A k \in at : i <= k].data
=============================================================================
