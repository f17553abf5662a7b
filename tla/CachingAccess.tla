----------------------------- MODULE CachingAccess -----------------------------
(***************************************************************************)
(* src/src/common/CachingAccess.cc: requests for observations share        *)
(* buffers, each of which has asked the backend once for some sensors and  *)
(* a span of time.  Buffers are SortedBuffers in the order of              *)
(* lt_SensorTime; a CacheTag joins the buffers of a request.               *)
(*                                                                         *)
(* All of this runs in the GUI thread: a call of a client or of the        *)
(* backend is one action.  External: the backend, which answers with the   *)
(* observations there are, and tells of each change whose observation a    *)
(* posted request covers.                                                  *)
(***************************************************************************)
EXTENDS Integers, Sequences, SequencesExt, FiniteSets, FiniteSetsExt, Functions

CONSTANTS
  Sensors,     \* valid sensors: positive numbers, in the order of lt_Sensor
  Times,       \* numbers
  Request,     \* requests of clients, each posted once
  Shapes,      \* what they may ask for
  Filters,     \* filters: sets of values; two are compatible if they are equal
  Initial,     \* what the backend may hold at the start
  MaxValue,    \* values of an observation, from 1
  MaxBuffers,  \* bound on the number of buffers that are made
  MaxChanges   \* bound on the changes in the backend

Invalid == 0   \* the invalid sensor: a request for {Invalid} is for all sensors
Obs == Sensors \X Times
Value == 0 .. MaxValue   \* 0: there is no such observation
Data == [Obs -> Value]
NoData == [o \in Obs |-> 0]

Shape == [sensors : {{Invalid}} \cup ((SUBSET Sensors) \ {{}}), t0 : Times, t1 : Times,
          filter : Filters]

Statuses == {"asked", "rows", "complete", "failed"}
Buffer == [shape : Shape, status : Statuses, mUseCount : Int, data : Data]

ASSUME CacheAssumption ==
  /\ Sensors \subseteq Nat \ {Invalid} /\ IsFiniteSet(Sensors) /\ Times \subseteq Nat
  /\ MaxValue \in Nat
  /\ \A s \in Shapes : s \in Shape /\ s.t0 <= s.t1
  /\ Initial \subseteq Data /\ Filters \subseteq SUBSET (1 .. MaxValue)

VARIABLES
  mBuffers,   \* CachingAccessPrivate::mBuffers, ids in the order of t0
  buffer,     \* the buffers made so far
  tag,        \* the CacheTag of a request
  view,       \* what a client was sent for a request, as its buffer holds it
  answers,    \* history: the calls of completed, TRUE for an error
  db,         \* what the backend holds
  changes

clients == << tag, view, answers >>
vars == << mBuffers, buffer, clients, db, changes >>

Ids == DOMAIN buffer
Posted == {r \in Request : tag[r].state = "posted"}
Users(id) == {r \in Posted : id \in ToSet(tag[r].mBackendBuffers)}

NoShape == [sensors |-> {}, t0 |-> 0, t1 |-> 0, filter |-> {}]
NewTag == [state |-> "new", shape |-> NoShape, mBackendBuffers |-> << >>,
           mCountIncomplete |-> 0, mCountFailed |-> 0]

Init ==
  /\ mBuffers = << >> /\ buffer = << >>
  /\ tag = [r \in Request |-> NewTag]
  /\ view = [r \in Request |-> NoData]
  /\ answers = [r \in Request |-> << >>]
  /\ db \in Initial /\ changes = 0

-----------------------------------------------------------------------------
(* What a request covers (acceptST), and lt_SensorTime. *)
Covers(shape, o) ==
  /\ shape.sensors = {Invalid} \/ o[1] \in shape.sensors
  /\ shape.t0 <= o[2] /\ o[2] <= shape.t1

Before(o, p) == o[1] < p[1] \/ (o[1] = p[1] /\ o[2] < p[2])

Held(data) == {o \in Obs : data[o] # 0}

(* BackendBuffer::findRange: from the first observation not before t0 to   *)
(* the first not before t1, that one included.                             *)
FindRange(data, s, t0, t1) ==
  LET from == {o \in Held(data) : ~Before(o, << s, t0 >>)}
      after == {o \in from : ~Before(o, << s, t1 >>)}
  IN  IF \E o \in from : o[1] = s
        THEN {o \in from : \A p \in after : ~Before(p, o)}
        ELSE {}

(* CacheTag::filterData: of some data what the request is sent. *)
Passed(shape, data, applyFilter) ==
  {o \in Held(data) : Covers(shape, o) /\ (applyFilter => data[o] \in shape.filter)}

NoFilter == 1 .. MaxValue
FromBuffer(shape, data) ==
  IF shape.filter = NoFilter /\ shape.sensors # {Invalid}
    THEN UNION {FindRange(data, s, shape.t0, shape.t1) : s \in shape.sensors}
    ELSE Passed(shape, data, TRUE)

Put(data, news, which) == [o \in Obs |-> IF o \in which THEN news[o] ELSE data[o]]

-----------------------------------------------------------------------------
(* CachingAccess::postRequest.  For each sensor t0 says how far the        *)
(* buffers found so far reach, and closed that there are any.              *)
Start(shape) ==
  [t0 |-> [s \in shape.sensors |-> shape.t0], closed |-> {},
   made |-> buffer, shared |-> << >>]

(* SensorTodo::calculateRequestSpans *)
LateOpen(todo, sensors, t0, close) ==   \* mistake: a single instant is forgotten
  {s \in sensors : t0 > todo.t0[s]}
Late(todo, sensors, t0, close) ==
  {s \in sensors : t0 > todo.t0[s] \/ (close /\ s \notin todo.closed /\ t0 = todo.t0[s])}

(* A BackendBuffer, for which the backend will be asked. *)
NewBuffer(sensors, t0, t1, filter) ==
  [shape |-> [sensors |-> sensors, t0 |-> t0, t1 |-> t1, filter |-> filter],
   status |-> "asked", mUseCount |-> 0, data |-> NoData]

(* SensorTodo::requestBuffers: buffers for what is missing before t0, one  *)
(* for all sensors that reach equally far.                                 *)
RequestBuffers(todo, shape, sensors, t0, t1, close) ==
  LET late == Late(todo, sensors, t0, close)
      starts == SetToSeq({todo.t0[s] : s \in late})
      Missing(t) == NewBuffer({s \in late : todo.t0[s] = t}, t, t0, shape.filter)
      n == Len(todo.made)
  IN  [t0 |-> [s \in shape.sensors |-> IF s \in sensors THEN t1 ELSE todo.t0[s]],
       closed |-> todo.closed \cup sensors,
       made |-> todo.made \o [i \in DOMAIN starts |-> Missing(starts[i])],
       shared |-> todo.shared \o [i \in DOMAIN starts |-> n + i]]

(* The first in the list that begins after t, or the end of it. *)
FirstAfter(list, made, t) ==
  CHOOSE p \in 1 .. Len(list) + 1 :
    /\ \A i \in 1 .. p - 1 : made[list[i]].shape.t0 <= t
    /\ p <= Len(list) => made[list[p]].shape.t0 > t

(* The buffers that postRequest looks at: it stops at the first that       *)
(* begins after the end.  Those it makes on the way come in before the     *)
(* one it is at, as they begin before it.                                  *)
Visited(shape) == SubSeq(mBuffers, 1, FirstAfter(mBuffers, buffer, shape.t1) - 1)

Share(todo, shape, id) ==
  LET b == buffer[id].shape
      both == shape.sensors \cap b.sensors
      asked == RequestBuffers(todo, shape, both, b.t0, b.t1, FALSE)
  IN  IF b.t1 < shape.t0 \/ b.filter # shape.filter \/ both = {}
        THEN todo
        ELSE [asked EXCEPT !.shared = Append(@, id)]

(* What is to do after the first n of them, and after all. *)
Found(shape) ==
  LET seen == Visited(shape)
      after[n \in 0 .. Len(seen)] ==
        IF n = 0 THEN Start(shape) ELSE Share(after[n - 1], shape, seen[n])
  IN  after

Todo(shape) ==
  RequestBuffers(Found(shape)[Len(Visited(shape))],
                 shape, shape.sensors, shape.t1, shape.t1, TRUE)

(* CachingAccessPrivate::create keeps the list in the order of t0. *)
InsertLast(list, made, id) == Append(list, id)   \* mistake: not sorted
Insert(list, made, id) == InsertAt(list, FirstAfter(list, made, made[id].shape.t0), id)

(* The list with the buffers up to the n-th that was made. *)
Listed(made) ==
  LET list[n \in Len(buffer) .. Len(made)] ==
        IF n = Len(buffer) THEN mBuffers ELSE Insert(list[n - 1], made, n)
  IN  list

OpenAsked(made, ids) == {id \in ids : made[id].status = "asked"}   \* mistake
Open(made, ids) == {id \in ids : made[id].status \in {"asked", "rows"}}

Used(made, ids, by) ==
  [id \in DOMAIN made |->
     IF id \in ids THEN [made[id] EXCEPT !.mUseCount = @ + by] ELSE made[id]]

(* CacheTag::checkComplete *)
Checked(t, said) == IF t.mCountIncomplete = 0 THEN Append(said, t.mCountFailed > 0) ELSE said

(* What a client holds after the n-th buffer of its request has sent. *)
Sent(todo, shape, shown) ==
  LET after[n \in 0 .. Len(todo.shared)] ==
        IF n = 0 THEN shown
        ELSE LET data == todo.made[todo.shared[n]].data
             IN  Put(after[n - 1], data, FromBuffer(shape, data))
  IN  after

(* The CacheTag sends what its buffers hold and counts those to wait for;  *)
(* then the new ones are posted.                                           *)
PostRequest(r) ==
  \E shape \in Shapes :
    LET todo == Todo(shape)
        made == todo.made
        ids == ToSet(todo.shared)
        t == [state |-> "posted", shape |-> shape, mBackendBuffers |-> todo.shared,
              mCountIncomplete |-> Cardinality(Open(made, ids)),
              mCountFailed |-> Cardinality({id \in ids : made[id].status = "failed"})]
    IN  /\ tag[r].state = "new"
        /\ Len(made) <= MaxBuffers
        /\ buffer' = Used(made, ids, 1)
        /\ mBuffers' = Listed(made)[Len(made)]
        /\ tag' = [tag EXCEPT ![r] = t]
        /\ view' = [view EXCEPT ![r] = Sent(todo, shape, @)[Len(todo.shared)]]
        /\ answers' = [answers EXCEPT ![r] = Checked(t, @)]
        /\ UNCHANGED << db, changes >>

(* CachingAccess::dropRequest deletes the CacheTag. *)
DropRequest(r) ==
  /\ tag[r].state = "posted"
  /\ buffer' = Used(buffer, ToSet(tag[r].mBackendBuffers), -1)
  /\ tag' = [tag EXCEPT ![r] = [NewTag EXCEPT !.state = "dropped"]]
  /\ view' = [view EXCEPT ![r] = NoData]
  /\ UNCHANGED << mBuffers, answers, db, changes >>

(* The list without some of its buffers, up to the n-th. *)
Remaining(old) ==
  LET list[n \in 0 .. Len(mBuffers)] ==
        IF n = 0 THEN << >>
        ELSE IF mBuffers[n] \in old THEN list[n - 1] ELSE Append(list[n - 1], mBuffers[n])
  IN  list

(* CachingAccessPrivate::clean, for some time before which buffers that    *)
(* nobody uses are dropped.                                                *)
Clean ==
  \E old \in SUBSET {id \in ToSet(mBuffers) : buffer[id].mUseCount = 0} :
    /\ old # {}
    /\ mBuffers' = Remaining(old)[Len(mBuffers)]
    /\ UNCHANGED << buffer, clients, db, changes >>

-----------------------------------------------------------------------------
(* The backend calls a buffer, and through its SignalRequest the tags that *)
(* use it.                                                                 *)
Tell(news, which, applyFilter, ids) ==
  /\ buffer' = [id \in Ids |->
       IF id \in ids THEN [buffer[id] EXCEPT !.data = Put(@, news, which[id])]
                     ELSE buffer[id]]
  /\ view' = [r \in Request |->
       IF r \in Posted
         THEN Put(view[r], news,
                  UNION {which[id] \cap Passed(tag[r].shape, news, applyFilter) :
                           id \in ids \cap ToSet(tag[r].mBackendBuffers)})
         ELSE view[r]]

Alive == ToSet(mBuffers)

(* onBackendNewData with the rows of the query *)
Answer(id) ==
  /\ id \in Alive /\ buffer[id].status = "asked"
  /\ LET rows == Passed(buffer[id].shape, db, TRUE)
         told == [buffer EXCEPT ![id].data = Put(@, db, rows), ![id].status = "rows"]
     IN  /\ buffer' = told
         /\ view' = [r \in Request |->
              IF r \in Users(id) THEN Put(view[r], db, rows \cap Passed(tag[r].shape, db, TRUE))
                                 ELSE view[r]]
  /\ UNCHANGED << mBuffers, tag, answers, db, changes >>

(* CacheTag::onBackendCompleted *)
BackendCompletedWaits(t, error) ==   \* mistake: an error is only counted
  [t EXCEPT !.mCountIncomplete = IF error THEN @ ELSE @ - 1,
            !.mCountFailed = IF error THEN @ + 1 ELSE @]
BackendCompleted(t, error) ==
  [t EXCEPT !.mCountIncomplete = @ - 1,
            !.mCountFailed = IF error THEN @ + 1 ELSE @]

(* completed, of a query that failed without rows *)
Complete(id, error) ==
  /\ id \in Alive /\ buffer[id].status = IF error THEN "asked" ELSE "rows"
  /\ buffer' = [buffer EXCEPT ![id].status = IF error THEN "failed" ELSE "complete"]
  /\ tag' = [r \in Request |->
       IF r \in Users(id) THEN BackendCompleted(tag[r], error) ELSE tag[r]]
  /\ answers' = [r \in Request |->
       IF r \in Users(id) THEN Checked(tag'[r], answers[r]) ELSE answers[r]]
  /\ UNCHANGED << mBuffers, view, db, changes >>

Told(o) == {id \in Alive : Covers(buffer[id].shape, o)}

(* onBackendUpdateData, and how it could go wrong: a filter would hide     *)
(* that an observation is no longer accepted.                              *)
UpdateFiltered == TRUE   \* mistake
UpdateFilters == FALSE
BackendUpdate(o, v) ==
  /\ changes < MaxChanges /\ db[o] # v
  /\ db' = [db EXCEPT ![o] = v] /\ changes' = changes + 1
  /\ Tell(db', [id \in Ids |-> {o}], UpdateFilters, Told(o))
  /\ UNCHANGED << mBuffers, tag, answers >>

(* onBackendNewData for an observation that was created: the backend       *)
(* applies the filter of the buffer.                                       *)
BackendCreate(o, v) ==
  /\ changes < MaxChanges /\ db[o] = 0
  /\ db' = [db EXCEPT ![o] = v] /\ changes' = changes + 1
  /\ Tell(db', [id \in Ids |-> {o}], TRUE,
          {id \in Told(o) : v \in buffer[id].shape.filter})
  /\ UNCHANGED << mBuffers, tag, answers >>

(* onBackendDropData, for one observation; there is no test of the sensor. *)
BackendDrop(o) ==
  /\ changes < MaxChanges /\ db[o] # 0
  /\ db' = [db EXCEPT ![o] = 0] /\ changes' = changes + 1
  /\ buffer' = [id \in Ids |->
       IF id \in Told(o) THEN [buffer[id] EXCEPT !.data[o] = 0] ELSE buffer[id]]
  /\ view' = [r \in Request |->
       IF /\ Told(o) \cap ToSet(tag[r].mBackendBuffers) # {}
          /\ tag[r].shape.t0 <= o[2] /\ o[2] <= tag[r].shape.t1
         THEN [view[r] EXCEPT ![o] = 0] ELSE view[r]]
  /\ UNCHANGED << mBuffers, tag, answers >>

-----------------------------------------------------------------------------
BackendStep ==
  \E id \in Ids : Answer(id) \/ \E error \in BOOLEAN : Complete(id, error)

Change ==
  \E o \in Obs : \/ BackendDrop(o)
                 \/ \E v \in 1 .. MaxValue : BackendUpdate(o, v) \/ BackendCreate(o, v)

Next ==
  \/ \E r \in Request : PostRequest(r) \/ DropRequest(r)
  \/ Clean \/ BackendStep \/ Change

Spec == Init /\ [][Next]_vars

(* Every query of the backend ends, with rows or an error (QueryTasks). *)
FairSpec == Spec /\ WF_vars(BackendStep)

-----------------------------------------------------------------------------
(* The buffers of a request cover it: for each sensor and each instant,    *)
(* whatever mixture of buffers with other sensors and spans was there; and *)
(* a buffer is counted as used by just those that use it.                  *)
RequestCovered ==
  /\ \A id \in ToSet(mBuffers) : buffer[id].mUseCount = Cardinality(Users(id))
  /\ \A r \in Posted : \A s \in tag[r].shape.sensors :
       \A t \in tag[r].shape.t0 .. tag[r].shape.t1 :
         \E id \in ToSet(tag[r].mBackendBuffers) :
           LET b == buffer[id].shape
           IN  s \in b.sensors /\ b.t0 <= t /\ t <= b.t1 /\ b.filter = tag[r].shape.filter

(* Nothing is fetched twice: buffers in the cache with the same filter     *)
(* overlap for a sensor in one instant at most.                            *)
FetchedOnce ==
  \A i, k \in DOMAIN mBuffers :
    LET a == buffer[mBuffers[i]].shape
        b == buffer[mBuffers[k]].shape
    IN  i # k /\ a.filter = b.filter /\ a.sensors \cap b.sensors # {} =>
          a.t1 <= b.t0 \/ b.t1 <= a.t0

(* A request is completed once, when the last of its buffers is, and with  *)
(* an error if one of them had one, also long before the request.          *)
CompletedOnce ==
  \A r \in Posted :
    LET statuses == {buffer[id].status : id \in ToSet(tag[r].mBackendBuffers)}
    IN  answers[r] = IF statuses \cap {"asked", "rows"} # {} THEN << >>
                     ELSE << "failed" \in statuses >>

(* A client shows what the backend holds: each observation it covers is    *)
(* there if its filter accepts it, and no observation is out of date.      *)
ViewCurrent ==
  \A r \in Posted : answers[r] = << FALSE >> =>
    \A o \in Obs : Covers(tag[r].shape, o) =>
      \/ view[r][o] = db[o]
      \/ view[r][o] = 0 /\ db[o] \notin tag[r].shape.filter

(* Every request is completed or dropped. *)
RequestCompletes ==
  \A r \in Request : r \in Posted ~> answers[r] # << >> \/ r \notin Posted
=============================================================================
