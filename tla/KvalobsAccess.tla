----------------------------- MODULE KvalobsAccess -----------------------------
(***************************************************************************)
(* src/src/common/KvalobsAccess.cc and QueryTaskAccess.cc on top of it:    *)
(* each request is one query; what changes later comes from the kvalobs    *)
(* service, for the stations that KvalobsUpdateListener.cc has subscribed, *)
(* through the thread of QtKvService.cc.                                   *)
(*                                                                         *)
(* Calls in the GUI thread are one action, but for doReSubscribe, in which *)
(* the service is without subscription for a while.  The worker of the     *)
(* queries and the thread of QtKvService queue events for the GUI thread.  *)
(* There is one observation per sensor: times only say what is covered.    *)
(*                                                                         *)
(* External: the database; the service, which puts each change of a        *)
(* subscribed station into the signal queue, in order, or refuses to       *)
(* subscribe; the worker, which runs queued queries (see QueryTasks).      *)
(***************************************************************************)
EXTENDS Integers, Sequences, SequencesExt, FiniteSets, FiniteSetsExt

CONSTANTS
  Sensor,      \* the valid sensors
  Station,
  stationId,   \* [Sensor -> Station]
  Request,     \* each is posted at most once
  Sensors,     \* [Request -> SUBSET (Sensor \cup {AnySensor})]
  AnySensor,   \* the invalid sensor: a request for {AnySensor} is for all sensors
  Accepts,     \* [Request -> SUBSET Value]: the filter
  Value,       \* values of an observation
  NoData,      \* there is no observation
  Initial,     \* what the database may hold at the start
  Changing,    \* the observations that others change
  MaxChanges   \* bound on the changes in the database

ASSUME KvalobsAssumption ==
  /\ stationId \in [Sensor -> Station] /\ IsFiniteSet(Sensor)
  /\ AnySensor \notin Sensor /\ NoData \notin Value
  /\ \A r \in Request : Sensors[r] = {AnySensor} \/ Sensors[r] \subseteq Sensor
  /\ Accepts \in [Request -> SUBSET Value]
  /\ Initial \subseteq [Sensor -> Value \cup {NoData}]
  /\ Changing \subseteq Sensor /\ MaxChanges \in Nat

VARIABLES
  mRequests,            \* QueryTaskAccess::mRequests
  task,                 \* how far the DataQueryTask of a request is
  mData,                \* the rows that it has read
  mSubscribedStations,  \* the counting_set: for each station how often
  mResubscribeTimer,    \* whether it runs
  inReSubscribe,        \* the GUI thread is in doReSubscribe
  subscription,         \* the stations that mKvServiceSubscriberID is for
  mSignalQueue,         \* QtKvService::mSignalQueue
  events,               \* queued calls of the GUI thread
  db,                   \* what the database holds
  changes,
  view,                 \* what the client of a request was sent
  answers,              \* history: the calls of completed, TRUE for an error
  unheard,              \* history: last changed when the service was not to tell
  overtaken,            \* history: rows read before an update, sent after it
  refused               \* history: the service refused the last subscription

taskVars == << task, mData >>
listener == << mSubscribedStations, mResubscribeTimer, inReSubscribe, subscription, refused >>
clients == << view, answers >>
lags == << unheard, overtaken >>
vars == << mRequests, taskVars, listener, mSignalQueue, events, db, changes, clients, lags >>

Data == [Sensor -> Value \cup {NoData}]

Nothing == [s \in Sensor |-> NoData]

Init ==
  /\ mRequests = {}
  /\ task = [r \in Request |-> "none"] /\ mData = [r \in Request |-> Nothing]
  /\ mSubscribedStations = [n \in Station |-> 0]
  /\ mResubscribeTimer = FALSE /\ inReSubscribe = FALSE /\ refused = FALSE
  /\ subscription = {} /\ mSignalQueue = << >> /\ events = << >>
  /\ db \in Initial /\ changes = 0
  /\ view = [r \in Request |-> Nothing] /\ answers = [r \in Request |-> << >>]
  /\ unheard = [r \in Request |-> {}] /\ overtaken = [r \in Request |-> {}]

(* acceptST *)
Covers(r, s) == Sensors[r] = {AnySensor} \/ s \in Sensors[r]

-----------------------------------------------------------------------------
(* checkSubscribe and checkUnsubscribe call addStation and removeStation   *)
(* once per sensor; counting_set says whether the station came or went.    *)
\* The invalid sensor has station 0, which nobody ever adds.
SensorsAt(r, n) == {s \in Sensors[r] \cap Sensor : stationId[s] = n}

CheckSubscribeFirst(r) ==   \* mistake: the timer is started for the first station only
  /\ mSubscribedStations' =
       [n \in Station |-> mSubscribedStations[n] + Cardinality(SensorsAt(r, n))]
  /\ mResubscribeTimer' = (mResubscribeTimer \/ \A n \in Station : mSubscribedStations[n] = 0)

CheckSubscribe(r) ==
  /\ mSubscribedStations' =
       [n \in Station |-> mSubscribedStations[n] + Cardinality(SensorsAt(r, n))]
  /\ mResubscribeTimer' = (mResubscribeTimer \/
       \E n \in Station : SensorsAt(r, n) # {} /\ mSubscribedStations[n] = 0)

DecreasedAll(count, by) == IF by > 0 THEN 0 ELSE count   \* mistake: erases at once
Decreased(count, by) == IF by > count THEN 0 ELSE count - by

CheckUnsubscribe(r) ==
  /\ mSubscribedStations' =
       [n \in Station |-> Decreased(mSubscribedStations[n], Cardinality(SensorsAt(r, n)))]
  /\ mResubscribeTimer' = (mResubscribeTimer \/
       \E n \in Station : mSubscribedStations[n] > 0 /\ mSubscribedStations'[n] = 0)

PostRequest(r) ==
  /\ ~inReSubscribe /\ task[r] = "none"
  /\ CheckSubscribe(r)
  /\ mRequests' = mRequests \cup {r}
  /\ task' = [task EXCEPT ![r] = "queued"]
  /\ UNCHANGED << mData, inReSubscribe, subscription, refused, mSignalQueue, events,
                  db, changes, clients, lags >>

(* The task is taken from the queue, or its signals are disconnected; its  *)
(* queued events stay.  The client is gone with what it was sent.          *)
DropRequest(r) ==
  /\ ~inReSubscribe /\ r \in mRequests
  /\ mRequests' = mRequests \ {r}
  /\ CheckUnsubscribe(r)
  /\ task' = [task EXCEPT ![r] = "done"]
  /\ mData' = [mData EXCEPT ![r] = Nothing]
  /\ unheard' = [unheard EXCEPT ![r] = {}] /\ overtaken' = [overtaken EXCEPT ![r] = {}]
  /\ view' = [view EXCEPT ![r] = Nothing] /\ answers' = [answers EXCEPT ![r] = << >>]
  /\ UNCHANGED << inReSubscribe, subscription, refused, mSignalQueue, events, db,
                  changes >>

(* doReSubscribe: the timer has fired, the old subscription is cancelled   *)
(* and disconnected.                                                       *)
Subscribed == {n \in Station : mSubscribedStations[n] > 0}

DoReSubscribe ==
  /\ ~inReSubscribe /\ mResubscribeTimer
  /\ mResubscribeTimer' = FALSE
  /\ inReSubscribe' = TRUE /\ subscription' = {}
  /\ UNCHANGED << mRequests, taskVars, mSubscribedStations, refused, mSignalQueue, events,
                  db, changes, clients, lags >>

(* Then the new one is made, if there are stations; a refusal leaves an    *)
(* empty id, and is not noticed.                                           *)
SubscribeData(accepted) ==
  /\ inReSubscribe
  /\ inReSubscribe' = FALSE
  /\ subscription' = IF accepted THEN Subscribed ELSE {}
  /\ refused' = (~accepted /\ Subscribed # {})
  /\ UNCHANGED << mRequests, taskVars, mSubscribedStations, mResubscribeTimer, mSignalQueue,
                  events, db, changes, clients, lags >>

-----------------------------------------------------------------------------
(* The worker runs the query of r, one at a time (KvalobsQueryRunner::run, *)
(* which gives up after three attempts); notifyRow applies the filter.     *)
Rows(r) ==
  [s \in Sensor |-> IF Covers(r, s) /\ db[s] \in Accepts[r] THEN db[s] ELSE NoData]

WorkerRun(r) ==
  /\ task[r] = "queued" /\ \A q \in Request : task[q] \notin {"read", "failed"}
  /\ \/ task' = [task EXCEPT ![r] = "read"] /\ mData' = [mData EXCEPT ![r] = Rows(r)]
     \/ task' = [task EXCEPT ![r] = "failed"] /\ UNCHANGED mData
  /\ UNCHANGED << mRequests, listener, mSignalQueue, events, db, changes, clients, lags >>

(* DataQueryTask::notifyDone: newData, then queryDone. *)
WorkerDone(r) ==
  /\ task[r] \in {"read", "failed"}
  /\ task' = [task EXCEPT ![r] = "done"]
  /\ mData' = [mData EXCEPT ![r] = Nothing]
  /\ events' = events \o << [kind |-> "newData", request |-> r, data |-> mData[r]],
                            [kind |-> "queryDone", request |-> r, error |-> task[r] = "failed"] >>
  /\ UNCHANGED << mRequests, listener, mSignalQueue, db, changes, clients, lags >>

(* What the client of a request holds (SortedBuffer) after newData for the *)
(* observations S, and after updateData, which no filter stops.            *)
Put(v, data, S) == [s \in Sensor |-> IF s \in S THEN data[s] ELSE v[s]]

(* Rows that were read and that the client does not have yet. *)
RowsUnderway(r) ==
  r \in mRequests /\
  \/ task[r] = "read"
  \/ \E i \in DOMAIN events : events[i].kind = "newData" /\ events[i].request = r

(* DistributeRequestUpdates: updateData for the observations S by acceptST *)
(* to all requests, also to those that wait for their rows.                *)
ReceiversAnswered == {r \in mRequests : answers[r] # << >>}   \* mistake: too late
Receivers == mRequests

Told(r, S, data, created) ==
  {s \in S : Covers(r, s) /\ (s \in created => data[s] \in Accepts[r])}

Distribute(S, data, created) ==
  /\ view' = [r \in Request |->
       IF r \in Receivers THEN Put(view[r], data, Told(r, S, data, created)) ELSE view[r]]
  /\ overtaken' = [r \in Request |->
       IF RowsUnderway(r) THEN overtaken[r] \cup S
                          ELSE overtaken[r] \ Told(r, S, data, created)]

(* The GUI thread takes its next event.  onNewData and onDone look whether *)
(* the request has been dropped.                                           *)
IsKnownAlways(r) == TRUE   \* mistake: no check
IsKnownRequest(r) == r \in mRequests

TakeEvent(kind) ==
  /\ ~inReSubscribe /\ events # << >> /\ Head(events).kind = kind
  /\ events' = Tail(events)

OnNewData ==
  /\ TakeEvent("newData")
  /\ LET e == Head(events)
         rows == {s \in Sensor : e.data[s] # NoData}
     IN  view' = IF IsKnownRequest(e.request)
                   THEN [view EXCEPT ![e.request] = Put(@, e.data, rows)] ELSE view
  /\ UNCHANGED << mRequests, taskVars, listener, mSignalQueue, db, changes, answers, lags >>

OnDone ==
  /\ TakeEvent("queryDone")
  /\ LET e == Head(events)
     IN  answers' = IF IsKnownRequest(e.request)
                      THEN [answers EXCEPT ![e.request] = Append(@, e.error)] ELSE answers
  /\ UNCHANGED << mRequests, taskVars, listener, mSignalQueue, db, changes, view, lags >>

(* KvalobsUpdateListener::onKvData, KvalobsAccess::onUpdated: everything   *)
(* that the service tells is an update, also of new observations.          *)
OnUpdated ==
  /\ TakeEvent("updated")
  /\ LET e == Head(events)
     IN  Distribute({e.sensor}, [s \in Sensor |-> e.value], {})
  /\ UNCHANGED << mRequests, taskVars, listener, mSignalQueue, db, changes, answers, unheard >>

-----------------------------------------------------------------------------
(* Updates of s on their way, in the queue of QtKvService and behind it.   *)
Queued(s) == {i \in DOMAIN mSignalQueue : mSignalQueue[i].sensor = s}
Emitted(s) == {i \in DOMAIN events : events[i].kind = "updated" /\ events[i].sensor = s}
Underway(s) == Queued(s) # {} \/ Emitted(s) # {}

(* One signal for each of the sensors, in any order. *)
Signals(heard, data) ==
  LET seq == SetToSeq(heard)
  IN  [i \in DOMAIN seq |-> [sensor |-> seq[i], value |-> data[seq[i]]]]

(* The observations S have changed, to what data says.  For a subscribed   *)
(* station this will be told; lost[r] are those that r will not show       *)
(* otherwise.                                                              *)
Changed(S, data, lost) ==
  LET heard == {s \in S : stationId[s] \in subscription}
  IN  /\ db' = Put(db, data, S)
      /\ changes' = changes + 1
      /\ mSignalQueue' = mSignalQueue \o Signals(heard, data)
      /\ unheard' = [r \in Request |->
           (unheard[r] \ heard) \cup ((S \ heard) \cap lost[r])]

(* Somebody else stores a value. *)
DbChange(s, v) ==
  /\ changes < MaxChanges /\ db[s] # v
  /\ Changed({s}, [x \in Sensor |-> v],
             [r \in Request |-> {x \in Sensor : r \in mRequests \/ Underway(x)}])
  /\ UNCHANGED << mRequests, taskVars, listener, events, clients, overtaken >>

(* storeUpdates, for a client that shows all that r was sent.  The         *)
(* reinserter stores all or nothing; requests are told at once of what was *)
(* stored, and once more when the service tells.                           *)
StoreUpdates(r, S, v) ==
  LET data == [s \in Sensor |-> v]
      created == {s \in S : view[r][s] = NoData}
      lost == [q \in Request |->
        {s \in Sensor : Underway(s) \/ (s \in created /\ view[q][s] # NoData)}]
  IN  /\ ~inReSubscribe /\ changes < MaxChanges
      /\ r \in mRequests /\ answers[r] = << FALSE >> /\ Accepts[r] = Value
      /\ S # {} /\ \A s \in S : Covers(r, s)
      /\ Changed(S, data, lost)
      /\ Distribute(S, data, created)
      /\ UNCHANGED << mRequests, taskVars, listener, events, answers >>

(* QtKvService::run: a signal without receivers is lost. *)
KvData ==
  /\ mSignalQueue # << >>
  /\ LET u == Head(mSignalQueue)
         last == Queued(u.sensor) = {1}
     IN  IF subscription # {}
           THEN /\ events' = Append(events, [kind |-> "updated", sensor |-> u.sensor,
                                             value |-> u.value])
                /\ UNCHANGED unheard
           ELSE /\ unheard' = [r \in Request |->
                     IF last /\ (r \in mRequests \/ Emitted(u.sensor) # {})
                       THEN unheard[r] \cup {u.sensor} ELSE unheard[r]]
                /\ UNCHANGED events
  /\ mSignalQueue' = Tail(mSignalQueue)
  /\ UNCHANGED << mRequests, taskVars, listener, db, changes, clients, overtaken >>

-----------------------------------------------------------------------------
EventStep == OnNewData \/ OnDone \/ OnUpdated
WorkerStep == \E r \in Request : WorkerRun(r) \/ WorkerDone(r)
Subscribe == \E accepted \in BOOLEAN : SubscribeData(accepted)

Next ==
  \/ \E r \in Request : \/ PostRequest(r) \/ DropRequest(r)
                        \/ \E S \in SUBSET Sensor, v \in Value : StoreUpdates(r, S, v)
  \/ DoReSubscribe \/ Subscribe
  \/ WorkerStep \/ EventStep \/ KvData
  \/ \E s \in Changing, v \in Value : DbChange(s, v)

Spec == Init /\ [][Next]_vars

(* Queries end (QueryTasks), threads run, the event loop comes round, and  *)
(* a timer that nobody starts again fires.                                 *)
FairSpec == Spec /\ WF_vars(WorkerStep) /\ WF_vars(EventStep) /\ WF_vars(KvData)
                 /\ WF_vars(DoReSubscribe) /\ WF_vars(Subscribe)

-----------------------------------------------------------------------------
(* What r will show of s when all that is underway has been told.          *)
Newest(queue, at) == queue[CHOOSE i \in at : \A k \in at : k <= i].value
Finally(r, s) ==
  IF Queued(s) # {} THEN Newest(mSignalQueue, Queued(s))
  ELSE IF Emitted(s) # {} THEN Newest(events, Emitted(s)) ELSE view[r][s]

Agrees(r, s) == \/ Finally(r, s) = db[s]
                \/ Finally(r, s) = NoData /\ db[s] \notin Accepts[r]

Answered == {r \in mRequests : answers[r] = << FALSE >>}
HeardBy(r) == {s \in Sensor : Covers(r, s)} \ unheard[r]

(* Through all orders of rows, updates and own saves, an answered request  *)
(* ends up with what the database holds.  Not so for what changed last     *)
(* while its station was not subscribed, and for rows that an update has   *)
(* overtaken.                                                              *)
ViewCatchesUp ==
  \A r \in Answered : \A s \in HeardBy(r) \ overtaken[r] : Agrees(r, s)

(* The service tells of the stations of the requests that there are, of no *)
(* more and no fewer, once the timer has fired and if it does not refuse.  *)
StationsOf(r) == {stationId[s] : s \in Sensors[r] \cap Sensor}
SubscribedForRequests ==
  ~mResubscribeTimer /\ ~inReSubscribe /\ ~refused =>
    subscription = UNION {StationsOf(r) : r \in mRequests}

(* A request that was dropped is not called any more, although its rows    *)
(* may wait in the event queue.                                            *)
DroppedStaysQuiet ==
  [][\A r \in Request \ mRequests : view'[r] = view[r] /\ answers'[r] = answers[r]]_vars

(* Every request is completed or dropped, and its stations are subscribed  *)
(* unless the service refuses.                                             *)
RequestServed ==
  \A r \in Request :
    /\ r \in mRequests ~> Len(answers[r]) = 1 \/ r \notin mRequests
    /\ r \in mRequests ~> StationsOf(r) \subseteq subscription \/ r \notin mRequests \/ refused

-----------------------------------------------------------------------------
(* New data never have to replace data that the client was sent before: if *)
(* they do, it is "a bug in some ObsAccess implementation"                 *)
(* (SortedBuffer.cc:95), and the older rows stay.                          *)
RowsReplaceNothing ==
  \A r \in Answered : \A s \in HeardBy(r) : Agrees(r, s)
=============================================================================
