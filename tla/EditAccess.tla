------------------------------ MODULE EditAccess ------------------------------
(***************************************************************************)
(* src/src/common/EditAccess.cc: the layer that keeps the user's unsaved   *)
(* edits between the clients (lists, tables, dialogs, each with an         *)
(* ObsRequest) and a backend ObsAccess, with undo, redo, reset and save;   *)
(* and at the end the tree of versions that follows it.                    *)
(*                                                                         *)
(* Everything runs in the GUI thread, so one call of a handler is one      *)
(* action, with all it sends to the clients.  Saving is three actions: the *)
(* edits are swapped out, the backend answers, and what the clients see    *)
(* while the backend distributes the saved data is a state of its own.     *)
(*                                                                         *)
(* The backend is external: it holds one value per observation, answers a  *)
(* posted request some time later, and reports changes made by others as   *)
(* new, updated or dropped data to every request.                          *)
(***************************************************************************)
EXTENDS EditVersions, FiniteSets

CONSTANTS
  Obs,         \* the observations: sensor and time
  Req,         \* the clients' requests
  Covers,      \* [Req -> SUBSET Obs], sensors and time span of a request
  Accepts,     \* [Req -> SUBSET Val], its filter; Val when it has none
  Changing,    \* the observations that others may change in the backend
  MaxVersion,  \* bound on the version number
  MaxEntries   \* bound on the entries of one version list

ASSUME ObsAssumption == IsFiniteSet(Obs)

ASSUME RequestAssumption ==
  /\ Covers \in [Req -> SUBSET Obs]
  /\ Changing \subseteq Obs
  /\ Accepts \in [Req -> SUBSET Val]

ASSUME BoundAssumption == MaxVersion \in Nat /\ MaxEntries \in Nat

VARIABLES
  backend,         \* what the backend holds
  requests,        \* mRequests: posted and not dropped
  answered,        \* those whose query the backend has answered
  view,            \* what the buffer of each request's client holds
  mCurrentVersion,
  highestVersion,  \* mVersionTimestamps.size() - 1
  mEdited,         \* version lists of the edited observations
  mUpdated,
  old,             \* the swapback objects of a running storeToBackend
  missed,          \* history: backend changes an edited observation missed
  faked            \* history: fake data sent to a client that may keep them

lapses == << missed, faked >>
vars == << backend, requests, answered, view, mCurrentVersion, highestVersion,
           mEdited, mUpdated, old, lapses >>

edited == DOMAIN mEdited
saving == old # << >>

NoView == [o \in Obs |-> NoData]
NoObs == [o \in {} |-> NoData]   \* an empty std::set or std::map

\* mUpdated is a size_t and must not be counted below 0.
TypeOK ==
  /\ backend \in [Obs -> Data]
  /\ requests \subseteq Req /\ answered \subseteq requests
  /\ view \in [Req -> [Obs -> Data]]
  /\ mCurrentVersion \in Nat /\ highestVersion \in Nat /\ mUpdated \in Nat
  /\ edited \subseteq Obs /\ mEdited \in [edited -> VersionList]
  /\ missed \subseteq Obs /\ faked \subseteq Obs
  /\ \/ old = << >>
     \/ /\ DOMAIN old = {1}
        /\ old[1].current \in Nat /\ old[1].updated \in Nat
        /\ DOMAIN old[1].edited \subseteq Obs
        /\ old[1].edited \in [DOMAIN old[1].edited -> VersionList]

Init ==
  /\ backend \in [Obs -> Data]
  /\ requests = {} /\ answered = {}
  /\ view = [r \in Req |-> NoView]
  /\ mCurrentVersion = 0 /\ highestVersion = 0
  /\ mEdited = NoObs /\ mUpdated = 0
  /\ old = << >> /\ missed = {} /\ faked = {}

-----------------------------------------------------------------------------
(* DistributeRequestUpdates::send, for observations that change to a value *)
(* (upd, sent whatever the filter says), appear (new, sent when the filter *)
(* accepts them) or disappear (gone).                                      *)
SentFiltered(v, to, upd, new, gone) ==   \* mistake: updates filtered as well
  [r \in Req |-> [o \in Obs |->
     IF r \notin to \/ o \notin Covers[r] THEN v[r][o]
     ELSE IF o \in DOMAIN upd /\ upd[o] \in Accepts[r] THEN upd[o]
     ELSE IF o \in DOMAIN new /\ new[o] \in Accepts[r] THEN new[o]
     ELSE IF o \in gone THEN NoData
     ELSE v[r][o]]]

Sent(v, to, upd, new, gone) ==
  [r \in Req |-> [o \in Obs |->
     IF r \notin to \/ o \notin Covers[r] THEN v[r][o]
     ELSE IF o \in DOMAIN upd THEN upd[o]
     ELSE IF o \in DOMAIN new /\ new[o] \in Accepts[r] THEN new[o]
     ELSE IF o \in gone THEN NoData
     ELSE v[r][o]]]

(* The edit on top of an observation hides it from the clients.            *)
Hidden(o) == o \in edited /\ CurrentVersion(mEdited[o]) > 0

(* A created observation whose creation is undone or was cut off by a new  *)
(* version: its version list is kept, with nothing behind it.              *)
UndoneCreation(o) == o \in edited /\ ~Hidden(o) /\ ~HasBackendData(mEdited[o])

(* Fake data are sent for it.  A filter that accepts them and not the      *)
(* created data leaves them with the client when the creation is redone.   *)
Kept(r) == {o \in Covers[r] : UndoneCreation(o) /\ Missing \in Accepts[r]
                                               /\ Accepts[r] # Val}

(* EditRequest::EditRequest and handleBackendEdited: a new request is      *)
(* first given all edited data, the data of undone edits included.         *)
PostRequest(r) ==
  /\ ~saving /\ r \notin requests
  /\ requests' = requests \cup {r}
  /\ view' = Sent(view, {r}, NoObs,
                  [o \in edited |-> CurrentData(mEdited[o])], {})
  /\ faked' = faked \cup Kept(r)
  /\ UNCHANGED << backend, answered, mCurrentVersion, highestVersion, mEdited,
                  mUpdated, old, missed >>

(* The backend's answer to the query, through handleBackendNew: what is    *)
(* edited is left out.                                                     *)
Answer(r) ==
  /\ ~saving /\ r \in requests \ answered
  /\ answered' = answered \cup {r}
  /\ LET found == {o \in Obs \ edited : backend[o] # NoData}
     IN  view' = Sent(view, {r}, NoObs, [o \in found |-> backend[o]], {})
  /\ UNCHANGED << backend, requests, mCurrentVersion, highestVersion, mEdited,
                  mUpdated, old, lapses >>

DropRequest(r) ==
  /\ ~saving /\ r \in requests
  /\ requests' = requests \ {r}
  /\ answered' = answered \ {r}
  /\ view' = [view EXCEPT ![r] = NoView]
  /\ UNCHANGED << backend, mCurrentVersion, highestVersion, mEdited, mUpdated,
                  old, lapses >>

-----------------------------------------------------------------------------
(* Reports of the backend.  An edited observation learns of a change only  *)
(* through a request that covers it, and only from updates and drops.      *)
Covered(o) == \E r \in requests : o \in Covers[r]

NoteMissed(o) ==
  missed' = IF o \in edited /\ BackendData(mEdited'[o]) # backend'[o]
              THEN missed \cup {o} ELSE missed

NoteBackendVisible(o, d) ==   \* mistake: not noted below a visible edit
  mEdited' = IF o \in edited /\ Covered(o) /\ CurrentVersion(mEdited[o]) = 0
               THEN [mEdited EXCEPT ![o] = UpdateBackend(@, d)]
               ELSE mEdited

NoteBackend(o, d) ==
  mEdited' = IF o \in edited /\ Covered(o)
               THEN [mEdited EXCEPT ![o] = UpdateBackend(@, d)]
               ELSE mEdited

(* handleBackendNew *)
BackendNew(o, d) ==
  /\ ~saving /\ backend[o] = NoData
  /\ backend' = [backend EXCEPT ![o] = d]
  /\ view' = IF o \in edited THEN view
             ELSE Sent(view, requests, NoObs, [x \in {o} |-> d], {})
  /\ UNCHANGED mEdited
  /\ NoteMissed(o)
  /\ UNCHANGED << requests, answered, mCurrentVersion, highestVersion, mUpdated,
                  old, faked >>

(* handleBackendUpdate; kvalobs reports new observations in this way too. *)
BackendUpdate(o, d) ==
  /\ ~saving /\ backend[o] # d
  /\ backend' = [backend EXCEPT ![o] = d]
  /\ NoteBackend(o, d)
  /\ view' = IF Hidden(o) THEN view
             ELSE Sent(view, requests, [x \in {o} |-> d], NoObs, {})
  /\ NoteMissed(o)
  /\ UNCHANGED << requests, answered, mCurrentVersion, highestVersion, mUpdated,
                  old, faked >>

(* handleBackendDrop *)
BackendDrop(o) ==
  /\ ~saving /\ backend[o] # NoData
  /\ backend' = [backend EXCEPT ![o] = NoData]
  /\ NoteBackend(o, NoData)
  /\ view' = IF Hidden(o) THEN view ELSE Sent(view, requests, NoObs, NoObs, {o})
  /\ NoteMissed(o)
  /\ UNCHANGED << requests, answered, mCurrentVersion, highestVersion, mUpdated,
                  old, faked >>

-----------------------------------------------------------------------------
(* EditAccess::newVersion *)
NewVersion ==
  /\ ~saving /\ mCurrentVersion < MaxVersion
  /\ mCurrentVersion' = mCurrentVersion + 1
  /\ highestVersion' = mCurrentVersion + 1
  /\ mEdited' = [o \in edited |-> DropVersionsFrom(mEdited[o], mCurrentVersion + 1)]
  /\ UNCHANGED << backend, requests, answered, view, mUpdated, old, lapses >>

(* The stored observations that did not show an edit before, which         *)
(* mUpdated counts; and two ways to get that wrong.                        *)
FreshOnlyNew(S) == S \ edited
FreshAll(S) == S
Fresh(S) == {o \in S : o \in edited => CurrentVersion(mEdited[o]) = 0}

(* What the client of r may edit: observations its answered request shows, *)
(* and, when it sees all there is, observations to be created.             *)
Editable(r) == {o \in Covers[r] : view[r][o] # NoData \/ Accepts[r] = Val}

(* EditAccess::storeUpdates, called after newVersion and not after an undo. *)
StoreUpdates(r, S, d) ==
  /\ ~saving /\ r \in answered
  /\ mCurrentVersion = highestVersion /\ mCurrentVersion > 0
  /\ S # {} /\ S \subseteq Editable(r)
  /\ \A o \in S \cap edited : mEdited[o].current < MaxEntries
  /\ LET updated == [o \in edited \cup S |->
           IF o \notin S THEN mEdited[o]
           ELSE IF o \in edited THEN AddVersion(mEdited[o], mCurrentVersion, d)
           ELSE NewVersions(view[r][o], mCurrentVersion, d)]
         created == {o \in S \ edited : view[r][o] = NoData}
         shown   == [o \in S |-> CurrentData(updated[o])]
     IN  /\ mEdited' = updated
         /\ view' = Sent(view, requests,
                         [o \in S \ created |-> shown[o]],
                         [o \in created |-> shown[o]], {})
  /\ mUpdated' = mUpdated + Cardinality(Fresh(S))
  /\ UNCHANGED << backend, requests, answered, mCurrentVersion, highestVersion,
                  old, lapses >>

(* The loop of updateToPreviousVersion and updateToNextVersion. *)
MoveTo(n) == [o \in edited |-> SetVersion(mEdited[o], n)]
Moved(n) == {o \in edited : CurrentVersion(MoveTo(n)[o]) # CurrentVersion(mEdited[o])}

(* EditAccess::undoVersion and updateToPreviousVersion *)
Undo ==
  /\ ~saving /\ mCurrentVersion > 0
  /\ mCurrentVersion' = mCurrentVersion - 1
  /\ mEdited' = MoveTo(mCurrentVersion - 1)
  /\ LET moved == Moved(mCurrentVersion - 1)
         base  == {o \in moved : CurrentVersion(mEdited'[o]) = 0}
         gone  == {o \in base : ~HasBackendData(mEdited[o])}
     IN  /\ view' = Sent(view, requests,
                         [o \in moved \ gone |-> CurrentData(mEdited'[o])],
                         NoObs, gone)
         /\ mUpdated' = mUpdated - Cardinality(base)
  /\ UNCHANGED << backend, requests, answered, highestVersion, old, lapses >>

(* EditAccess::redoVersion and updateToNextVersion *)
Redo ==
  /\ ~saving /\ mCurrentVersion < highestVersion
  /\ mCurrentVersion' = mCurrentVersion + 1
  /\ mEdited' = MoveTo(mCurrentVersion + 1)
  /\ LET moved == Moved(mCurrentVersion + 1)
         base  == {o \in moved : CurrentVersion(mEdited[o]) = 0}
         new   == {o \in base : ~HasBackendData(mEdited[o])}
         shown == [o \in moved |-> CurrentData(mEdited'[o])]
     IN  /\ view' = Sent(view, requests,
                         [o \in moved \ new |-> shown[o]],
                         [o \in new |-> shown[o]], {})
         /\ mUpdated' = mUpdated + Cardinality(base)
  /\ UNCHANGED << backend, requests, answered, highestVersion, old, lapses >>

(* EditAccess::reset *)
Reset ==
  /\ ~saving
  /\ LET known == {o \in edited : HasBackendData(mEdited[o])}
     IN  view' = Sent(view, requests, [o \in known |-> BackendData(mEdited[o])],
                      NoObs, edited \ known)
  /\ mCurrentVersion' = 0 /\ highestVersion' = 0
  /\ mEdited' = NoObs /\ mUpdated' = 0
  /\ UNCHANGED << backend, requests, answered, old, lapses >>

-----------------------------------------------------------------------------
(* EditAccess::storeToBackend, from the save action of the main window,    *)
(* which is enabled while something can be undone.  First the swapback     *)
(* objects take the edits out.                                             *)
SaveBegin ==
  /\ ~saving /\ mCurrentVersion > 0
  /\ old' = << [edited |-> mEdited, current |-> mCurrentVersion, updated |-> mUpdated] >>
  /\ mEdited' = NoObs /\ mCurrentVersion' = 0 /\ mUpdated' = 0
  /\ UNCHANGED << backend, requests, answered, view, highestVersion, lapses >>

(* The values that are stored. *)
ToStoreLast(was) ==   \* mistake: undone edits are stored
  [o \in DOMAIN was |-> was[o].versions[Len(was[o].versions)].data]
ToStore(was) == [o \in DOMAIN was |-> CurrentData(was[o])]

(* The backend stores all updates, those of undone edits included, and     *)
(* sends them to all requests before storeToBackend returns; the swapback  *)
(* objects accept.                                                         *)
SaveAccepted ==
  /\ saving
  /\ LET was   == old[1].edited
         upd   == {o \in DOMAIN was : HasBackendData(was[o])}
         store == ToStore(was)
     IN  /\ backend' = [o \in Obs |-> IF o \in DOMAIN was THEN store[o] ELSE backend[o]]
         /\ view' = Sent(view, requests,
                         [o \in upd |-> store[o]],
                         [o \in DOMAIN was \ upd |-> store[o]], {})
  /\ highestVersion' = 0
  /\ old' = << >>
  /\ UNCHANGED << requests, answered, mCurrentVersion, mEdited, mUpdated, lapses >>

(* The backend refuses, or an update cannot be filled (TaskAccess): the    *)
(* destructors of the swapback objects put everything back.                *)
SaveRefused ==
  /\ saving
  /\ mEdited' = old[1].edited
  /\ mCurrentVersion' = old[1].current
  /\ mUpdated' = old[1].updated
  /\ old' = << >>
  /\ UNCHANGED << backend, requests, answered, view, highestVersion, lapses >>

-----------------------------------------------------------------------------
Next ==
  \/ \E r \in Req : PostRequest(r) \/ Answer(r) \/ DropRequest(r)
  \/ \E o \in Changing : \/ \E d \in Val : BackendNew(o, d) \/ BackendUpdate(o, d)
                         \/ BackendDrop(o)
  \/ NewVersion
  \/ \E r \in Req, S \in SUBSET Obs, d \in Val : StoreUpdates(r, S, d)
  \/ Undo \/ Redo \/ Reset
  \/ SaveBegin \/ SaveAccepted \/ SaveRefused

Spec == Init /\ [][Next]_vars

-----------------------------------------------------------------------------
(* What an observation is worth to a client: the shown edit, or else what  *)
(* the backend holds.                                                      *)
Effective(o) == IF Hidden(o) THEN CurrentData(mEdited[o]) ELSE backend[o]

(* The number of changed observations that countU reports, by which the    *)
(* windows ask before they discard changes, is the number of observations  *)
(* that show an edit: over undo, redo, cut-off histories and saves that    *)
(* were refused.                                                           *)
CountMatches ==
  ~saving => mUpdated = Cardinality({o \in edited : Hidden(o)})

(* Each version list is sorted, starts with the backend's data, and shows  *)
(* its last entry that is not younger than the version of the EditAccess;  *)
(* no entry is younger than the highest version that redo can reach.       *)
PointerMatches ==
  ~saving => \A o \in edited :
    LET vs == mEdited[o].versions
        at == mEdited[o].current
    IN  /\ at \in DOMAIN vs /\ vs[1].version = 0
        /\ \A i, k \in DOMAIN vs : i < k => vs[i].version <= vs[k].version
        /\ \A i \in DOMAIN vs : vs[i].version <= mCurrentVersion <=> i <= at
        /\ \A i \in DOMAIN vs : vs[i].version <= highestVersion

(* A client whose request is answered holds exactly what the observation   *)
(* is worth, or nothing where its filter rejects that.  Excepted are       *)
(* undone creations, observations with a missed change of the backend, and *)
(* those of which a client may have kept fake data.                        *)
InStep == Obs \ (missed \cup faked)
ViewCoherent ==
  ~saving => \A r \in answered : \A o \in Covers[r] \cap InStep :
    \/ UndoneCreation(o)
    \/ view[r][o] = Effective(o)
    \/ view[r][o] = NoData /\ Effective(o) \notin Accepts[r]

(* A backend change of an edited observation is missed only when no        *)
(* request covers it or when it is reported as new data: updates and drops *)
(* reach the version list whether or not an edit hides them.               *)
CoveredChangeNoted ==
  [][\A o \in missed' \ missed : ~Covered(o) \/ backend[o] = NoData]_vars

(* An accepted save is invisible to the clients: whatever a client showed  *)
(* of an observation with a visible edit it shows afterwards, now from the *)
(* backend, and no other observation is written with a different value     *)
(* unless its creation was undone or it is out of step.                    *)
SaveKeepsViews ==
  [][saving /\ highestVersion' = 0 /\ old' = << >> /\ mEdited' = NoObs =>
       LET was == old[1].edited
       IN  \A o \in DOMAIN was :
             IF CurrentVersion(was[o]) > 0
               THEN /\ backend'[o] = CurrentData(was[o])
                    /\ \A r \in Req : view[r][o] # NoData /\ o \in InStep
                                    => view'[r][o] = view[r][o]
               ELSE \/ backend'[o] = backend[o] \/ o \notin InStep
                    \/ ~HasBackendData(was[o])]_vars

-----------------------------------------------------------------------------
(* EditAccess implements EditHistory.  While a save is running the edits   *)
(* are those in the swapback objects: a refused save is a stuttering step. *)
theEdited  == IF saving THEN old[1].edited ELSE mEdited
theCurrent == IF saving THEN old[1].current ELSE mCurrentVersion
theUpdated == IF saving THEN old[1].updated ELSE mUpdated

(* The last entry of version n in a version list. *)
Stored(ev, n) ==
  LET at == {i \in 2 .. Len(ev.versions) : ev.versions[i].version = n}
  IN  IF at = {} THEN NoData
      ELSE ev.versions[CHOOSE i \in at : \A k \in at : k <= i].data

theLayers ==
  [n \in 1 .. highestVersion |-> [o \in Obs |->
     IF o \in DOMAIN theEdited THEN Stored(theEdited[o], n) ELSE NoData]]

theShown ==
  [o \in Obs |->
     IF o \in DOMAIN theEdited /\ CurrentVersion(theEdited[o]) > 0
       THEN CurrentData(theEdited[o]) ELSE NoData]

History == INSTANCE EditHistory
             WITH layers <- theLayers, pos <- theCurrent,
                  shown <- theShown, count <- theUpdated

(* Undo, redo, cut-off histories, repeated stores in one version, resets   *)
(* and saves behave as a stack of layers: what an observation shows is     *)
(* always the youngest value stored in a version up to the current one.    *)
ImplementsHistory == History!HSpec
-----------------------------------------------------------------------------
(* src/src/hqc/EditVersionModel.cc: the tree of versions and their changes *)
(* in the main window, refreshed by the signal currentVersionChanged that  *)
(* EditAccess emits at the end of each operation.                          *)
VARIABLE mHistory   \* mHistory[n]: the changed observations of row n

modelVars == << vars, mHistory >>

(* EditAccess::versionChanges, in the state after the operation *)
VersionChanges(n) ==
  [o \in {x \in edited : VersionData(mEdited[x], n) # NoData} |->
     VersionData(mEdited[o], n)]

(* onCurrentVersionChanged: rows are removed or added until there is one   *)
(* per version; then the last row gets the changes of the current version  *)
(* when their number differs from what the row holds.                      *)
RowsGrow(highest) ==   \* mistake: rows are never removed
  [n \in 1 .. (IF highest > Len(mHistory) THEN highest ELSE Len(mHistory)) |->
     IF n <= Len(mHistory) THEN mHistory[n] ELSE NoObs]

Rows(highest) ==
  [n \in 1 .. highest |-> IF n <= Len(mHistory) THEN mHistory[n] ELSE NoObs]

OnCurrentVersionChanged(current, highest, changed) ==
  mHistory' = IF /\ current >= 1
                 /\ Cardinality(DOMAIN changed) # Cardinality(DOMAIN Rows(highest)[highest])
                THEN [Rows(highest) EXCEPT ![highest] = changed]
                ELSE Rows(highest)

Emitting ==
  \/ /\ \/ NewVersion \/ Reset \/ SaveAccepted
        \/ \E r \in Req, S \in SUBSET Obs, d \in Val : StoreUpdates(r, S, d)
     /\ OnCurrentVersionChanged(mCurrentVersion', mCurrentVersion',
                                VersionChanges(mCurrentVersion)')
  \/ /\ Undo \/ Redo
     /\ OnCurrentVersionChanged(mCurrentVersion', highestVersion',
                                VersionChanges(mCurrentVersion)')

Silent ==
  /\ \/ SaveBegin \/ SaveRefused
     \/ \E r \in Req : PostRequest(r) \/ Answer(r) \/ DropRequest(r)
     \/ \E o \in Changing : \/ \E d \in Val : BackendNew(o, d) \/ BackendUpdate(o, d)
                            \/ BackendDrop(o)
  /\ UNCHANGED mHistory

ModelInit == Init /\ mHistory = << >>

ModelSpec == ModelInit /\ [][Emitting \/ Silent]_modelVars

-----------------------------------------------------------------------------
(* The first half of the comment on mHistory (EditVersionModel.hh:48): the *)
(* tree has one row per version that undo and redo can reach, although the *)
(* signal carries the current version as the highest one.                  *)
RowPerVersion == Len(mHistory) = highestVersion
=============================================================================
