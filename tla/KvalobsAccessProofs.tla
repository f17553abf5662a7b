-------------------------- MODULE KvalobsAccessProofs --------------------------
(***************************************************************************)
(* Proofs about KvalobsAccess: an answered request ends up with what the   *)
(* database holds, the service is subscribed for the stations of the       *)
(* requests, and a dropped request stays quiet.                            *)
(***************************************************************************)
EXTENDS KvalobsAccess, SequenceTheorems, FiniteSetTheorems, WellFoundedInduction, TLAPS

(* What the operators on sequences return, element by element. *)
LEMMA ConcatIs ==
  ASSUME NEW D, NEW u \in Seq(D), NEW v \in Seq(D)
  PROVE  /\ u \o v \in Seq(D) /\ Len(u \o v) = Len(u) + Len(v)
         /\ \A i \in 1 .. Len(u) : (u \o v)[i] = u[i]
         /\ \A i \in 1 .. Len(v) : (u \o v)[Len(u) + i] = v[i]
OBVIOUS

(* What remains of a queue when its first element is taken. *)
LEMMA TailIs ==
  ASSUME NEW D, NEW q \in Seq(D), q # << >>
  PROVE  /\ Len(q) \in Nat \ {0} /\ DOMAIN q = 1 .. Len(q)
         /\ Head(q) = q[1] /\ 1 \in DOMAIN q /\ q[1] \in D
         /\ Tail(q) \in Seq(D) /\ DOMAIN Tail(q) = 1 .. Len(q) - 1
         /\ \A i \in 1 .. Len(q) - 1 : Tail(q)[i] = q[i + 1]
OBVIOUS

(* SetToSeq lists a finite set without repetition. *)
LEMMA SetToSeqIs ==
  ASSUME NEW S, IsFiniteSet(S)
  PROVE  /\ SetToSeq(S) \in Seq(S)
         /\ \A i, k \in DOMAIN SetToSeq(S) : SetToSeq(S)[i] = SetToSeq(S)[k] => i = k
         /\ \A x \in S : \E i \in DOMAIN SetToSeq(S) : SetToSeq(S)[i] = x
<1> DEFINE n == Cardinality(S)
           q == SetToSeq(S)
<1>1. n \in Nat /\ ExistsBijection(1 .. n, S)
  BY FS_CardinalityType
<1>2. \E f \in [1 .. n -> S] : IsInjective(f)
  BY <1>1 DEF ExistsBijection, Bijection, Injection
<1>3. q \in [1 .. n -> S] /\ IsInjective(q)
  BY <1>2 DEF SetToSeq
<1>4. q \in Injection(1 .. n, S)
  BY <1>3 DEF Injection
<1>5. Cardinality(1 .. n) = n
  BY <1>1, FS_Interval
<1>6. q \in Surjection(1 .. n, S)
  BY <1>4, <1>5, FS_Injection
<1>7. \A x \in S : \E i \in DOMAIN q : q[i] = x
  BY <1>3, <1>6 DEF Surjection
<1>8. q \in Seq(S)
  BY <1>1, <1>3
<1> QED  BY <1>3, <1>7, <1>8 DEF IsInjective

-----------------------------------------------------------------------------
(* The types. *)
Signal == [sensor : Sensor, value : Value]
NewDataEvent == [kind : {"newData"}, request : Request, data : Data]
DoneEvent == [kind : {"queryDone"}, request : Request, error : BOOLEAN]
UpdatedEvent == [kind : {"updated"}, sensor : Sensor, value : Value]
Event == NewDataEvent \cup DoneEvent \cup UpdatedEvent

TypeInv ==
  /\ mRequests \subseteq Request
  /\ task \in [Request -> {"none", "queued", "read", "failed", "done"}]
  /\ mData \in [Request -> Data]
  /\ mSubscribedStations \in [Station -> Nat]
  /\ mResubscribeTimer \in BOOLEAN /\ inReSubscribe \in BOOLEAN /\ refused \in BOOLEAN
  /\ subscription \subseteq Station
  /\ mSignalQueue \in Seq(Signal) /\ events \in Seq(Event)
  /\ db \in Data /\ view \in [Request -> Data] /\ answers \in [Request -> Seq(BOOLEAN)]
  /\ unheard \in [Request -> SUBSET Sensor] /\ overtaken \in [Request -> SUBSET Sensor]

(* The fields of an event depend on its kind. *)
LEMMA EventTypes ==
  ASSUME NEW e \in Event
  PROVE  /\ e.kind = "newData" => e.request \in Request /\ e.data \in Data
         /\ e.kind = "queryDone" => e.request \in Request /\ e.error \in BOOLEAN
         /\ e.kind = "updated" => e.sensor \in Sensor /\ e.value \in Value
BY DEF Event, NewDataEvent, DoneEvent, UpdatedEvent

(* Nothing, merged observations and filtered rows are observations. *)
LEMMA DataTypes ==
  /\ Nothing \in Data
  /\ \A v \in Data, w \in Data, S \in SUBSET Sensor : Put(v, w, S) \in Data
  /\ \A v \in Value : [s \in Sensor |-> v] \in Data
  /\ db \in Data => \A r \in Request : Rows(r) \in Data
<1>1. Nothing \in Data
  BY DEF Nothing, Data
<1>2. ASSUME NEW v \in Data, NEW w \in Data, NEW S \in SUBSET Sensor PROVE Put(v, w, S) \in Data
  BY DEF Put, Data
<1>3. ASSUME NEW v \in Value PROVE [s \in Sensor |-> v] \in Data
  BY DEF Data
<1>4. ASSUME db \in Data, NEW r \in Request PROVE Rows(r) \in Data
  BY <1>4 DEF Rows, Data
<1> QED  BY <1>1, <1>2, <1>3, <1>4

\* Some signal in w is of s.
Tells(w, s) == \E i \in 1 .. Len(w) : w[i].sensor = s

\* The signals in w are of sensors in heard, and with the values in data.
TellsOnly(w, heard, data) ==
  \A i \in 1 .. Len(w) : w[i].sensor \in heard /\ w[i].value = data[w[i].sensor]

(* There are signals of the sensors that changed and of no others, with    *)
(* their values.                                                           *)
LEMMA SignalsAre ==
  ASSUME NEW heard \in SUBSET Sensor, NEW data, \A s \in heard : data[s] \in Value
  PROVE  /\ Signals(heard, data) \in Seq(Signal)
         /\ TellsOnly(Signals(heard, data), heard, data)
         /\ \A s \in heard : Tells(Signals(heard, data), s)
<1> DEFINE q == SetToSeq(heard)
           g == [i \in DOMAIN q |-> [sensor |-> q[i], value |-> data[q[i]]]]
<1>1. IsFiniteSet(heard)
  BY KvalobsAssumption, FS_Subset
<1>2. /\ q \in Seq(heard)
      /\ \A s \in heard : \E i \in DOMAIN q : q[i] = s
  BY <1>1, SetToSeqIs
<1> HIDE DEF q
<1>3. DOMAIN q = 1 .. Len(q) /\ Len(q) \in Nat /\ \A i \in 1 .. Len(q) : q[i] \in heard
  BY <1>2
<1>4. \A i \in 1 .. Len(q) : g[i] \in Signal
  BY <1>3 DEF Signal
<1>5. g \in Seq(Signal) /\ Len(g) = Len(q)
  <2>1. g \in [1 .. Len(q) -> Signal]
    BY <1>3, <1>4
  <2> QED  BY <1>3, <2>1
<1>6. \A i \in 1 .. Len(q) : g[i].sensor = q[i] /\ g[i].value = data[q[i]]
  BY <1>3
<1>7. Signals(heard, data) = g
  BY DEF Signals, q
<1> HIDE DEF g
<1>8. \A s \in heard : \E i \in 1 .. Len(g) : g[i].sensor = s
  BY <1>2, <1>3, <1>5, <1>6
<1> QED  BY <1>3, <1>5, <1>6, <1>7, <1>8 DEF Tells, TellsOnly

(* Only valid sensors are counted, and those are finitely many. *)
LEMMA SensorsAtFinite ==
  \A r \in Request, n \in Station :
    IsFiniteSet(SensorsAt(r, n)) /\ Cardinality(SensorsAt(r, n)) \in Nat
<1> SUFFICES ASSUME NEW r \in Request, NEW n \in Station
             PROVE  IsFiniteSet(SensorsAt(r, n)) /\ Cardinality(SensorsAt(r, n)) \in Nat
  OBVIOUS
<1>1. SensorsAt(r, n) \subseteq Sensor
  BY DEF SensorsAt
<1> QED  BY <1>1, KvalobsAssumption, FS_Subset, FS_CardinalityType

(* What tells the requests of updates is defined for each of them. *)
LEMMA DistributeTypes ==
  ASSUME TypeInv, NEW S \in SUBSET Sensor, NEW data \in Data, NEW created,
         Distribute(S, data, created)
  PROVE  /\ view' \in [Request -> Data] /\ overtaken' \in [Request -> SUBSET Sensor]
         /\ \A r \in mRequests : view'[r] = Put(view[r], data, Told(r, S, data, created))
         /\ \A r \in Request \ mRequests : view'[r] = view[r]
<1>1. \A r \in Request : Told(r, S, data, created) \in SUBSET Sensor
  BY DEF Told
<1>2. \A r \in Request : Put(view[r], data, Told(r, S, data, created)) \in Data
  BY <1>1, DataTypes DEF TypeInv
<1>3. view' = [r \in Request |-> IF r \in mRequests
                 THEN Put(view[r], data, Told(r, S, data, created)) ELSE view[r]]
  BY DEF Distribute, Receivers
<1>4. overtaken' \in [Request -> SUBSET Sensor]
  BY DEF Distribute, TypeInv
<1> QED  BY <1>2, <1>3, <1>4 DEF TypeInv

(* The changes keep the types. *)
LEMMA ChangedTypes ==
  ASSUME TypeInv, NEW S \in SUBSET Sensor, NEW v \in Value, NEW lost,
         Changed(S, [s \in Sensor |-> v], lost)
  PROVE  /\ db' \in Data /\ mSignalQueue' \in Seq(Signal)
         /\ unheard' \in [Request -> SUBSET Sensor]
<1> DEFINE data == [s \in Sensor |-> v]
           heard == {s \in S : stationId[s] \in subscription}
<1>1. /\ db' = Put(db, data, S) /\ mSignalQueue' = mSignalQueue \o Signals(heard, data)
      /\ unheard' = [r \in Request |-> (unheard[r] \ heard) \cup ((S \ heard) \cap lost[r])]
  BY DEF Changed
<1>2. db' \in Data
  BY <1>1, DataTypes DEF TypeInv
<1>3. heard \in SUBSET Sensor /\ \A s \in heard : data[s] \in Value
  OBVIOUS
<1>4. Signals(heard, data) \in Seq(Signal)
  <2> HIDE DEF heard, data
  <2> QED  BY <1>3, SignalsAre
<1>5. mSignalQueue' \in Seq(Signal)
  BY <1>1, <1>4, ConcatIs DEF TypeInv
<1>6. unheard' \in [Request -> SUBSET Sensor]
  <2> HIDE DEF heard
  <2> QED  BY <1>1, <1>3 DEF TypeInv
<1> QED  BY <1>2, <1>5, <1>6

(* Every step keeps the types. *)
LEMMA TypeKeeps == TypeInv /\ [Next]_vars => TypeInv'
<1> SUFFICES ASSUME TypeInv, [Next]_vars PROVE TypeInv'
  OBVIOUS
<1>1. ASSUME NEW r \in Request, PostRequest(r) PROVE TypeInv'
  <2>1. \A n \in Station : Cardinality(SensorsAt(r, n)) \in Nat
    BY SensorsAtFinite
  <2> QED  BY <1>1, <2>1 DEF PostRequest, CheckSubscribe, TypeInv, clients, lags
<1>2. ASSUME NEW r \in Request, DropRequest(r) PROVE TypeInv'
  <2>1. \A n \in Station : Decreased(mSubscribedStations[n], Cardinality(SensorsAt(r, n))) \in Nat
    BY SensorsAtFinite DEF Decreased, TypeInv
  <2> QED  BY <1>2, <2>1, DataTypes DEF DropRequest, CheckUnsubscribe, TypeInv
<1>3. ASSUME NEW r \in Request, NEW S \in SUBSET Sensor, NEW v \in Value, StoreUpdates(r, S, v)
      PROVE  TypeInv'
  <2>1. PICK lost, created : /\ Changed(S, [s \in Sensor |-> v], lost)
                             /\ Distribute(S, [s \in Sensor |-> v], created)
    BY <1>3 DEF StoreUpdates
  <2>2. [s \in Sensor |-> v] \in Data
    BY DataTypes
  <2> QED  BY <1>3, <2>1, <2>2, ChangedTypes, DistributeTypes
           DEF StoreUpdates, TypeInv, taskVars, listener
<1>4. ASSUME DoReSubscribe PROVE TypeInv'
  BY <1>4 DEF DoReSubscribe, TypeInv, taskVars, clients, lags
<1>5. ASSUME NEW accepted \in BOOLEAN, SubscribeData(accepted) PROVE TypeInv'
  BY <1>5 DEF SubscribeData, Subscribed, TypeInv, taskVars, clients, lags
<1>6. ASSUME NEW r \in Request, WorkerRun(r) PROVE TypeInv'
  BY <1>6, DataTypes DEF WorkerRun, TypeInv, listener, clients, lags
<1>7. ASSUME NEW r \in Request, WorkerDone(r) PROVE TypeInv'
  <2> DEFINE new == << [kind |-> "newData", request |-> r, data |-> mData[r]],
                       [kind |-> "queryDone", request |-> r, error |-> task[r] = "failed"] >>
  <2>1. new \in Seq(Event)
    BY DEF Event, NewDataEvent, DoneEvent, TypeInv
  <2>2. events' = events \o new
    BY <1>7 DEF WorkerDone
  <2>3. events' \in Seq(Event)
    BY <2>1, <2>2, ConcatIs DEF TypeInv
  <2> QED  BY <1>7, <2>3, DataTypes DEF WorkerDone, TypeInv, listener, clients, lags
<1>8. ASSUME NEW kind, TakeEvent(kind) PROVE events' \in Seq(Event) /\ Head(events) \in Event
  BY <1>8, TailIs DEF TakeEvent, TypeInv
<1>9. ASSUME OnNewData PROVE TypeInv'
  <2>1. events' \in Seq(Event) /\ Head(events) \in Event /\ Head(events).kind = "newData"
    BY <1>8, <1>9 DEF OnNewData, TakeEvent
  <2>2. view' \in [Request -> Data]
    BY <1>9, <2>1, EventTypes, DataTypes DEF OnNewData, TypeInv
  <2> QED  BY <1>9, <2>1, <2>2 DEF OnNewData, TypeInv, taskVars, listener, lags
<1>10. ASSUME OnDone PROVE TypeInv'
  <2>1. events' \in Seq(Event) /\ Head(events) \in Event /\ Head(events).kind = "queryDone"
    BY <1>8, <1>10 DEF OnDone, TakeEvent
  <2>2. answers' \in [Request -> Seq(BOOLEAN)]
    BY <1>10, <2>1, EventTypes DEF OnDone, TypeInv
  <2> QED  BY <1>10, <2>1, <2>2 DEF OnDone, TypeInv, taskVars, listener, lags
<1>11. ASSUME OnUpdated PROVE TypeInv'
  <2> DEFINE e == Head(events)
  <2>1. events' \in Seq(Event) /\ e \in Event /\ e.kind = "updated"
    BY <1>8, <1>11 DEF OnUpdated, TakeEvent
  <2>2. e.sensor \in Sensor /\ [s \in Sensor |-> e.value] \in Data
    BY <2>1, EventTypes, DataTypes
  <2>3. Distribute({e.sensor}, [s \in Sensor |-> e.value], {})
    BY <1>11 DEF OnUpdated
  <2> HIDE DEF e
  <2> QED  BY <1>11, <2>1, <2>2, <2>3, DistributeTypes DEF OnUpdated, TypeInv, taskVars, listener
<1>12. ASSUME KvData PROVE TypeInv'
  <2> DEFINE u == Head(mSignalQueue)
  <2>1. mSignalQueue' \in Seq(Signal) /\ u \in Signal
    BY <1>12, TailIs DEF KvData, TypeInv
  <2>2. [kind |-> "updated", sensor |-> u.sensor, value |-> u.value] \in Event
    BY <2>1 DEF Signal, Event, UpdatedEvent
  <2> DEFINE e == [kind |-> "updated", sensor |-> u.sensor, value |-> u.value]
  <2>3. events' \in Seq(Event)
    <3>1. events' = Append(events, e) \/ events' = events
      BY <1>12 DEF KvData
    <3>2. events \in Seq(Event) /\ e \in Event
      BY <2>2 DEF TypeInv
    <3> HIDE DEF e
    <3> QED  BY <3>1, <3>2
  <2>4. unheard' \in [Request -> SUBSET Sensor]
    <3>1. u.sensor \in Sensor
      BY <2>1 DEF Signal
    <3>2. \/ UNCHANGED unheard
          \/ \E B : unheard' = [r \in Request |->
               IF r \in B THEN unheard[r] \cup {u.sensor} ELSE unheard[r]]
      <4> DEFINE B == {r \in Request : Queued(u.sensor) = {1} /\
                                       (r \in mRequests \/ Emitted(u.sensor) # {})}
      <4>1. CASE subscription = {}
        <5>1. unheard' = [r \in Request |->
                IF r \in B THEN unheard[r] \cup {u.sensor} ELSE unheard[r]]
          BY <1>12, <4>1 DEF KvData
        <5> QED  BY <5>1
      <4> QED  BY <1>12, <4>1 DEF KvData
    <3>3. unheard \in [Request -> SUBSET Sensor]
      BY DEF TypeInv
    <3> HIDE DEF u
    <3> QED  BY <3>1, <3>2, <3>3
  <2> QED  BY <1>12, <2>1, <2>3, <2>4 DEF KvData, TypeInv, taskVars, listener, clients
<1>13. ASSUME NEW s \in Changing, NEW v \in Value, DbChange(s, v) PROVE TypeInv'
  <2>1. {s} \in SUBSET Sensor
    BY KvalobsAssumption
  <2>2. PICK lost : Changed({s}, [x \in Sensor |-> v], lost)
    BY <1>13 DEF DbChange
  <2> QED  BY <1>13, <2>1, <2>2, ChangedTypes DEF DbChange, TypeInv, taskVars, listener, clients
<1>14. ASSUME UNCHANGED vars PROVE TypeInv'
  BY <1>14 DEF vars, TypeInv, taskVars, listener, clients, lags
<1> QED  BY <1>1, <1>2, <1>3, <1>4, <1>5, <1>6, <1>7, <1>9, <1>10, <1>11, <1>12, <1>13, <1>14
         DEF Next, WorkerStep, EventStep, Subscribe

-----------------------------------------------------------------------------
(* The queries.  Rows come once, and right before the end of the query.    *)
NewDataOf(r) == {i \in DOMAIN events : events[i].kind = "newData" /\ events[i].request = r}
DoneOf(r) == {i \in DOMAIN events : events[i].kind = "queryDone" /\ events[i].request = r}

QueryOK(r) ==
  /\ task[r] = "none" => r \notin mRequests /\ view[r] = Nothing
  /\ task[r] \in {"queued", "read", "failed"} => r \in mRequests
  /\ task[r] # "done" => NewDataOf(r) = {} /\ DoneOf(r) = {} /\ answers[r] = << >>
  /\ \A i \in NewDataOf(r) : i + 1 \in DoneOf(r)
  /\ \A i, k \in DoneOf(r) : i = k
  /\ answers[r] # << >> => DoneOf(r) = {}

QueryInv == \A r \in Request : QueryOK(r)

(* What is left in the event queue after one was taken. *)
LEMMA EventTaken ==
  ASSUME TypeInv, NEW kind, TakeEvent(kind)
  PROVE  /\ 1 \in DOMAIN events /\ events[1] = Head(events) /\ events[1].kind = kind
         /\ events[1] \in Event
         /\ \A i : i \in DOMAIN events' <=> i \in Nat \ {0} /\ i + 1 \in DOMAIN events
         /\ \A i \in DOMAIN events' : events'[i] = events[i + 1]
         /\ \A r, i : i \in NewDataOf(r)' <=> i \in Nat \ {0} /\ i + 1 \in NewDataOf(r)
         /\ \A r, i : i \in DoneOf(r)' <=> i \in Nat \ {0} /\ i + 1 \in DoneOf(r)
         /\ \A s, i : i \in Emitted(s)' <=> i \in Nat \ {0} /\ i + 1 \in Emitted(s)
<1>1. /\ events \in Seq(Event) /\ events # << >> /\ Head(events).kind = kind
      /\ events' = Tail(events)
  BY DEF TakeEvent, TypeInv
<1> HIDE DEF TakeEvent
<1>2. /\ Len(events) \in Nat \ {0} /\ DOMAIN events = 1 .. Len(events)
      /\ Head(events) = events[1] /\ 1 \in DOMAIN events /\ events[1] \in Event
      /\ DOMAIN events' = 1 .. Len(events) - 1
      /\ \A i \in 1 .. Len(events) - 1 : events'[i] = events[i + 1]
  BY <1>1, TailIs
<1>3. \A i : i \in DOMAIN events' <=> i \in Nat \ {0} /\ i + 1 \in DOMAIN events
  BY <1>2
<1>4. \A i \in DOMAIN events' : events'[i] = events[i + 1]
  BY <1>2
<1>5. \A r, i : i \in NewDataOf(r)' <=> i \in Nat \ {0} /\ i + 1 \in NewDataOf(r)
  BY <1>3, <1>4 DEF NewDataOf
<1>6. \A r, i : i \in DoneOf(r)' <=> i \in Nat \ {0} /\ i + 1 \in DoneOf(r)
  BY <1>3, <1>4 DEF DoneOf
<1>7. \A s, i : i \in Emitted(s)' <=> i \in Nat \ {0} /\ i + 1 \in Emitted(s)
  BY <1>3, <1>4 DEF Emitted
<1> QED  BY <1>1, <1>2, <1>3, <1>4, <1>5, <1>6, <1>7

(* What the worker queues when a query ends. *)
LEMMA EventsDone ==
  ASSUME TypeInv, NEW r \in Request, WorkerDone(r)
  PROVE  LET n == Len(events)
         IN  /\ n \in Nat /\ DOMAIN events = 1 .. n
             /\ \A i \in 1 .. n : events'[i] = events[i]
             /\ events'[n + 1].data = mData[r] /\ events'[n + 2].error = (task[r] = "failed")
             /\ NewDataOf(r)' = NewDataOf(r) \cup {n + 1} /\ DoneOf(r)' = DoneOf(r) \cup {n + 2}
             /\ \A q \in Request \ {r} : NewDataOf(q)' = NewDataOf(q) /\ DoneOf(q)' = DoneOf(q)
             /\ \A s : Emitted(s)' = Emitted(s)
<1> DEFINE n == Len(events)
           d == [kind |-> "newData", request |-> r, data |-> mData[r]]
           e == [kind |-> "queryDone", request |-> r, error |-> task[r] = "failed"]
<1>1. events \in Seq(Event) /\ n \in Nat /\ DOMAIN events = 1 .. n
  BY DEF TypeInv
<1>2. events' = events \o << d, e >>
  BY DEF WorkerDone
<1>3. << d, e >> \in Seq(Event)
  BY DEF Event, NewDataEvent, DoneEvent, TypeInv
<1>4. /\ d.kind = "newData" /\ d.request = r /\ d.data = mData[r]
      /\ e.kind = "queryDone" /\ e.request = r /\ e.error = (task[r] = "failed")
  OBVIOUS
<1> HIDE DEF d, e
<1>5. Len(<< d, e >>) = 2 /\ << d, e >>[1] = d /\ << d, e >>[2] = e
  OBVIOUS
<1>6. /\ events' \in Seq(Event) /\ Len(events') = n + 2
      /\ \A i \in 1 .. n : events'[i] = events[i]
      /\ events'[n + 1] = d /\ events'[n + 2] = e
  BY <1>1, <1>2, <1>3, <1>5, ConcatIs
<1> HIDE DEF n
<1>7. \A i : i \in DOMAIN events' <=> i \in 1 .. n \/ i = n + 1 \/ i = n + 2
  BY <1>1, <1>6
<1>8. \A q, i : i \in NewDataOf(q)' <=> i \in NewDataOf(q) \/ (q = r /\ i = n + 1)
  BY <1>1, <1>4, <1>6, <1>7 DEF NewDataOf
<1>9. \A q, i : i \in DoneOf(q)' <=> i \in DoneOf(q) \/ (q = r /\ i = n + 2)
  BY <1>1, <1>4, <1>6, <1>7 DEF DoneOf
<1>10. \A s, i : i \in Emitted(s)' <=> i \in Emitted(s)
  BY <1>1, <1>4, <1>6, <1>7 DEF Emitted
<1>11. \A s : Emitted(s)' = Emitted(s)
  BY <1>10
<1>12. ASSUME NEW q \in Request \ {r}
       PROVE  NewDataOf(q)' = NewDataOf(q) /\ DoneOf(q)' = DoneOf(q)
  <2>1. \A i : i \in NewDataOf(q)' <=> i \in NewDataOf(q)
    BY <1>8
  <2>2. \A i : i \in DoneOf(q)' <=> i \in DoneOf(q)
    BY <1>9
  <2> QED  BY <2>1, <2>2
<1>13. NewDataOf(r)' = NewDataOf(r) \cup {n + 1} /\ DoneOf(r)' = DoneOf(r) \cup {n + 2}
  BY <1>8, <1>9
<1> QED  BY <1>1, <1>4, <1>6, <1>11, <1>12, <1>13 DEF n

(* What QtKvService emits for the first signal. *)
LEMMA EventsEmitted ==
  ASSUME TypeInv, NEW u \in Signal,
         events' = Append(events, [kind |-> "updated", sensor |-> u.sensor, value |-> u.value])
  PROVE  LET n == Len(events)
         IN  /\ n \in Nat /\ DOMAIN events = 1 .. n
             /\ \A i \in 1 .. n : events'[i] = events[i]
             /\ events'[n + 1].value = u.value
             /\ \A q : NewDataOf(q)' = NewDataOf(q) /\ DoneOf(q)' = DoneOf(q)
             /\ Emitted(u.sensor)' = Emitted(u.sensor) \cup {n + 1}
             /\ \A s : s # u.sensor => Emitted(s)' = Emitted(s)
<1> DEFINE n == Len(events)
           d == [kind |-> "updated", sensor |-> u.sensor, value |-> u.value]
<1>1. events \in Seq(Event) /\ n \in Nat /\ DOMAIN events = 1 .. n
  BY DEF TypeInv
<1>2. d \in Event
  BY DEF Event, UpdatedEvent, Signal
<1>3. d.kind = "updated" /\ d.sensor = u.sensor /\ d.value = u.value
  OBVIOUS
<1> HIDE DEF d
<1>4. /\ events' \in Seq(Event) /\ Len(events') = n + 1
      /\ \A i \in 1 .. n : events'[i] = events[i]
      /\ events'[n + 1] = d
  BY <1>1, <1>2 DEF d
<1> HIDE DEF n
<1>5. \A i : i \in DOMAIN events' <=> i \in 1 .. n \/ i = n + 1
  BY <1>1, <1>4
<1>6. \A q, i : i \in NewDataOf(q)' <=> i \in NewDataOf(q)
  BY <1>1, <1>3, <1>4, <1>5 DEF NewDataOf
<1>7. \A q, i : i \in DoneOf(q)' <=> i \in DoneOf(q)
  BY <1>1, <1>3, <1>4, <1>5 DEF DoneOf
<1>8. \A s, i : i \in Emitted(s)' <=> i \in Emitted(s) \/ (s = u.sensor /\ i = n + 1)
  BY <1>1, <1>3, <1>4, <1>5 DEF Emitted
<1>9. ASSUME NEW q PROVE NewDataOf(q)' = NewDataOf(q) /\ DoneOf(q)' = DoneOf(q)
  <2>1. \A i : i \in NewDataOf(q)' <=> i \in NewDataOf(q)
    BY <1>6
  <2>2. \A i : i \in DoneOf(q)' <=> i \in DoneOf(q)
    BY <1>7
  <2> QED  BY <2>1, <2>2
<1>10. Emitted(u.sensor)' = Emitted(u.sensor) \cup {n + 1}
  <2>1. \A i : i \in Emitted(u.sensor)' <=> i \in Emitted(u.sensor) \cup {n + 1}
    BY <1>8
  <2> QED  BY <2>1
<1>11. ASSUME NEW s, s # u.sensor PROVE Emitted(s)' = Emitted(s)
  <2>1. \A i : i \in Emitted(s)' <=> i \in Emitted(s)
    BY <1>8, <1>11
  <2> QED  BY <2>1
<1> QED  BY <1>1, <1>3, <1>4, <1>9, <1>10, <1>11 DEF n

(* Nothing is asked at the start. *)
LEMMA InitQueries == Init => QueryInv
<1> SUFFICES ASSUME Init, NEW r \in Request PROVE QueryOK(r)
  BY DEF QueryInv
<1>1. /\ task[r] = "none" /\ mRequests = {} /\ view[r] = Nothing /\ answers[r] = << >>
      /\ events = << >>
  BY DEF Init
<1>2. DOMAIN events = {}
  BY <1>1
<1>3. NewDataOf(r) = {} /\ DoneOf(r) = {}
  BY <1>2 DEF NewDataOf, DoneOf
<1> QED  BY <1>1, <1>3 DEF QueryOK

(* Steps that leave the queries and their events alone. *)
LEMMA QueriesStay ==
  ASSUME QueryInv, UNCHANGED << mRequests, task, answers, events >>,
         \A r \in Request \ mRequests : view'[r] = view[r]
  PROVE  QueryInv'
<1> SUFFICES ASSUME NEW r \in Request PROVE QueryOK(r)'
  BY DEF QueryInv
<1>1. QueryOK(r)
  BY DEF QueryInv
<1>2. NewDataOf(r)' = NewDataOf(r) /\ DoneOf(r)' = DoneOf(r)
  BY DEF NewDataOf, DoneOf
<1> QED  BY <1>1, <1>2 DEF QueryOK

(* Each step keeps the order of a query's events. *)
LEMMA QueryKeeps == TypeInv /\ QueryInv /\ [Next]_vars => QueryInv'
<1> SUFFICES ASSUME TypeInv, QueryInv, [Next]_vars PROVE QueryInv'
  OBVIOUS
<1>0. ASSUME events' = events
      PROVE  \A r : NewDataOf(r)' = NewDataOf(r) /\ DoneOf(r)' = DoneOf(r)
  BY <1>0 DEF NewDataOf, DoneOf
<1>1. ASSUME NEW r \in Request, PostRequest(r) PROVE QueryInv'
  <2> SUFFICES ASSUME NEW q \in Request PROVE QueryOK(q)'
    BY DEF QueryInv
  <2>1. /\ QueryOK(q) /\ NewDataOf(q)' = NewDataOf(q) /\ DoneOf(q)' = DoneOf(q)
        /\ view' = view /\ answers' = answers
        /\ mRequests' = mRequests \cup {r} /\ task' = [task EXCEPT ![r] = "queued"]
        /\ task[r] = "none"
    BY <1>0, <1>1 DEF PostRequest, QueryInv, clients
  <2>2. task'[r] = "queued" /\ (q # r => task'[q] = task[q])
    BY <2>1 DEF TypeInv
  <2> QED  BY <2>1, <2>2 DEF QueryOK
<1>2. ASSUME NEW r \in Request, DropRequest(r) PROVE QueryInv'
  <2> SUFFICES ASSUME NEW q \in Request PROVE QueryOK(q)'
    BY DEF QueryInv
  <2>1. /\ QueryOK(q) /\ NewDataOf(q)' = NewDataOf(q) /\ DoneOf(q)' = DoneOf(q)
        /\ mRequests' = mRequests \ {r}
    BY <1>0, <1>2 DEF DropRequest, QueryInv
  <2>2. /\ task'[r] = "done" /\ answers'[r] = << >>
        /\ (q # r => task'[q] = task[q] /\ view'[q] = view[q] /\ answers'[q] = answers[q])
    BY <1>2 DEF DropRequest, TypeInv
  <2> QED  BY <2>1, <2>2 DEF QueryOK
<1>3. ASSUME NEW r \in Request, WorkerRun(r) PROVE QueryInv'
  <2> SUFFICES ASSUME NEW q \in Request PROVE QueryOK(q)'
    BY DEF QueryInv
  <2>1. /\ QueryOK(q) /\ NewDataOf(q)' = NewDataOf(q) /\ DoneOf(q)' = DoneOf(q)
        /\ mRequests' = mRequests /\ view' = view /\ answers' = answers
    BY <1>0, <1>3 DEF WorkerRun, QueryInv, clients
  <2>2. /\ task[r] = "queued" /\ task'[r] \in {"read", "failed"}
        /\ (q # r => task'[q] = task[q])
    BY <1>3 DEF WorkerRun, TypeInv
  <2> QED  BY <2>1, <2>2 DEF QueryOK
<1>4. ASSUME NEW r \in Request, WorkerDone(r) PROVE QueryInv'
  <2> SUFFICES ASSUME NEW q \in Request PROVE QueryOK(q)'
    BY DEF QueryInv
  <2>1. /\ QueryOK(q) /\ mRequests' = mRequests /\ view' = view /\ answers' = answers
        /\ task[r] \in {"read", "failed"} /\ task'[r] = "done"
        /\ (q # r => task'[q] = task[q])
    BY <1>4 DEF WorkerDone, QueryInv, TypeInv, clients
  <2>2. CASE q = r
    <3>1. NewDataOf(r) = {} /\ DoneOf(r) = {} /\ answers[r] = << >>
      BY <2>1, <2>2 DEF QueryOK
    <3>2. /\ Len(events) \in Nat /\ NewDataOf(r)' = {Len(events) + 1}
          /\ DoneOf(r)' = {Len(events) + 2}
      BY <1>4, <3>1, EventsDone
    <3>3. (Len(events) + 1) + 1 = Len(events) + 2
      BY <3>2
    <3> QED  BY <2>1, <2>2, <3>1, <3>2, <3>3 DEF QueryOK
  <2>3. CASE q # r
    <3>1. NewDataOf(q)' = NewDataOf(q) /\ DoneOf(q)' = DoneOf(q)
      BY <1>4, <2>3, EventsDone
    <3> QED  BY <2>1, <2>3, <3>1 DEF QueryOK
  <2> QED  BY <2>2, <2>3
<1>5. ASSUME NEW q \in Request, NEW kind, TakeEvent(kind), answers'[q] = answers[q],
             task' = task, mRequests' = mRequests, q \in mRequests \/ view'[q] = view[q]
      PROVE  QueryOK(q)'
  <2>1. QueryOK(q)
    BY DEF QueryInv
  <2>2. /\ \A i : i \in NewDataOf(q)' <=> i \in Nat \ {0} /\ i + 1 \in NewDataOf(q)
        /\ \A i : i \in DoneOf(q)' <=> i \in Nat \ {0} /\ i + 1 \in DoneOf(q)
    BY <1>5, EventTaken
  <2>3. ASSUME NEW i \in NewDataOf(q)' PROVE i + 1 \in DoneOf(q)'
    <3>1. i \in Nat \ {0} /\ i + 1 \in NewDataOf(q)
      BY <2>2, <2>3
    <3>2. (i + 1) + 1 \in DoneOf(q)
      BY <2>1, <3>1 DEF QueryOK
    <3> QED  BY <2>2, <3>1, <3>2
  <2>4. ASSUME NEW i \in DoneOf(q)', NEW k \in DoneOf(q)' PROVE i = k
    <3>1. i \in Nat /\ k \in Nat /\ i + 1 \in DoneOf(q) /\ k + 1 \in DoneOf(q)
      BY <2>2, <2>4
    <3>2. i + 1 = k + 1
      BY <2>1, <3>1 DEF QueryOK
    <3> QED  BY <3>1, <3>2
  <2>5. NewDataOf(q) = {} => NewDataOf(q)' = {}
    BY <2>2
  <2>6. DoneOf(q) = {} => DoneOf(q)' = {}
    BY <2>2
  <2> QED  BY <1>5, <2>1, <2>3, <2>4, <2>5, <2>6 DEF QueryOK
<1>6. ASSUME OnNewData PROVE QueryInv'
  <2> SUFFICES ASSUME NEW q \in Request PROVE QueryOK(q)'
    BY DEF QueryInv
  <2>1. TakeEvent("newData") /\ answers' = answers /\ task' = task /\ mRequests' = mRequests
    BY <1>6 DEF OnNewData, taskVars
  <2>2. q \notin mRequests => view'[q] = view[q]
    BY <1>6 DEF OnNewData, IsKnownRequest, TypeInv
  <2> QED  BY <1>5, <2>1, <2>2
<1>7. ASSUME OnDone PROVE QueryInv'
  <2> SUFFICES ASSUME NEW q \in Request PROVE QueryOK(q)'
    BY DEF QueryInv
  <2> DEFINE e == Head(events)
  <2>1. /\ TakeEvent("queryDone") /\ view' = view /\ task' = task /\ mRequests' = mRequests
        /\ answers' = IF e.request \in mRequests
                        THEN [answers EXCEPT ![e.request] = Append(@, e.error)] ELSE answers
    BY <1>7 DEF OnDone, taskVars, IsKnownRequest
  <2>2. /\ 1 \in DOMAIN events /\ events[1] = e /\ e.kind = "queryDone" /\ e \in Event
        /\ \A r, i : i \in NewDataOf(r)' <=> i \in Nat \ {0} /\ i + 1 \in NewDataOf(r)
        /\ \A r, i : i \in DoneOf(r)' <=> i \in Nat \ {0} /\ i + 1 \in DoneOf(r)
    BY <2>1, EventTaken
  <2> HIDE DEF e
  <2>3. CASE q = e.request
    <3>1. 1 \in DoneOf(q)
      BY <2>2, <2>3 DEF DoneOf
    <3>2. QueryOK(q)
      BY DEF QueryInv
    <3>3. DoneOf(q)' = {}
      <4>1. \A i : i \in DoneOf(q)' => i \in Nat \ {0} /\ i + 1 = 1
        BY <2>2, <3>1, <3>2 DEF QueryOK
      <4> QED  BY <4>1
    <3>4. NewDataOf(q)' = {}
      <4>1. \A i : i \in NewDataOf(q)' => i \in Nat \ {0} /\ (i + 1) + 1 = 1
        BY <2>2, <3>1, <3>2 DEF QueryOK
      <4> QED  BY <4>1
    <3>5. task[q] = "done"
      BY <3>1, <3>2 DEF QueryOK
    <3> QED  BY <2>1, <3>3, <3>4, <3>5 DEF QueryOK
  <2>4. CASE q # e.request
    <3>1. answers'[q] = answers[q]
      BY <2>1, <2>4 DEF TypeInv
    <3> QED  BY <1>5, <2>1, <3>1
  <2> QED  BY <2>3, <2>4
<1>8. ASSUME OnUpdated PROVE QueryInv'
  <2> SUFFICES ASSUME NEW q \in Request PROVE QueryOK(q)'
    BY DEF QueryInv
  <2>1. TakeEvent("updated") /\ answers' = answers /\ task' = task /\ mRequests' = mRequests
    BY <1>8 DEF OnUpdated, taskVars
  <2>2. q \notin mRequests => view'[q] = view[q]
    BY <1>8 DEF OnUpdated, Distribute, Receivers
  <2> QED  BY <1>5, <2>1, <2>2
<1>9. ASSUME KvData PROVE QueryInv'
  <2> DEFINE u == Head(mSignalQueue)
  <2>1. u \in Signal
    BY <1>9, TailIs DEF KvData, TypeInv
  <2>2. \/ events' = events
        \/ events' = Append(events, [kind |-> "updated", sensor |-> u.sensor, value |-> u.value])
    BY <1>9 DEF KvData
  <2> HIDE DEF u
  <2>3. \A r : NewDataOf(r)' = NewDataOf(r) /\ DoneOf(r)' = DoneOf(r)
    BY <1>0, <2>1, <2>2, EventsEmitted
  <2>4. UNCHANGED << mRequests, task, answers, view >>
    BY <1>9 DEF KvData, taskVars, clients
  <2> QED  BY <2>3, <2>4 DEF QueryInv, QueryOK
<1>10. ASSUME NEW r \in Request, NEW S \in SUBSET Sensor, NEW v \in Value, StoreUpdates(r, S, v)
       PROVE  QueryInv'
  <2>1. UNCHANGED << mRequests, task, answers, events >>
    BY <1>10 DEF StoreUpdates, taskVars
  <2>2. \A q \in Request \ mRequests : view'[q] = view[q]
    BY <1>10 DEF StoreUpdates, Distribute, Receivers
  <2> QED  BY <2>1, <2>2, QueriesStay
<1>11. ASSUME \/ DoReSubscribe \/ Subscribe \/ UNCHANGED vars
              \/ \E s \in Changing, v \in Value : DbChange(s, v)
       PROVE  QueryInv'
  <2>1. UNCHANGED << mRequests, task, answers, events, view >>
    BY <1>11 DEF DoReSubscribe, Subscribe, SubscribeData, DbChange, vars, taskVars, clients
  <2> QED  BY <2>1, QueriesStay
<1> QED  BY <1>1, <1>2, <1>3, <1>4, <1>6, <1>7, <1>8, <1>9, <1>10, <1>11
         DEF Next, WorkerStep, EventStep

-----------------------------------------------------------------------------
(* The subscriptions are counted.                                          *)
UsesBy(M, n) == {p \in M \X Sensor : p[2] \in SensorsAt(p[1], n)}

SubscriptionInv ==
  /\ IsFiniteSet(mRequests)
  /\ \A n \in Station : mSubscribedStations[n] = Cardinality(UsesBy(mRequests, n))
  /\ ~mResubscribeTimer /\ ~inReSubscribe /\ ~refused => subscription = Subscribed

(* One more request uses a station as often as it has sensors there. *)
LEMMA UsesGrow ==
  ASSUME NEW M \in SUBSET Request, IsFiniteSet(M), NEW r \in Request \ M, NEW n \in Station
  PROVE  /\ Cardinality(UsesBy(M, n)) \in Nat
         /\ Cardinality(UsesBy(M \cup {r}, n)) =
              Cardinality(UsesBy(M, n)) + Cardinality(SensorsAt(r, n))
<1> DEFINE A == UsesBy(M, n)
           K == SensorsAt(r, n)
           B == {r} \X K
<1>1. IsFiniteSet(M \X Sensor)
  BY KvalobsAssumption, FS_Product
<1>2. A \subseteq M \X Sensor
  BY DEF UsesBy
<1>3. IsFiniteSet(A) /\ Cardinality(A) \in Nat
  BY <1>1, <1>2, FS_Subset, FS_CardinalityType
<1>4. IsFiniteSet(K) /\ Cardinality(K) \in Nat /\ K \subseteq Sensor
  BY SensorsAtFinite DEF SensorsAt
<1>5. IsFiniteSet({r}) /\ Cardinality({r}) = 1
  BY FS_Singleton
<1> HIDE DEF K
<1>6. IsFiniteSet(B) /\ Cardinality(B) = Cardinality(K)
  <2>1. IsFiniteSet(B) /\ Cardinality(B) = Cardinality({r}) * Cardinality(K)
    BY <1>4, <1>5, FS_Product
  <2> QED  BY <1>4, <1>5, <2>1
<1>7. UsesBy(M \cup {r}, n) = A \cup B
  <2>1. ASSUME NEW p PROVE p \in UsesBy(M \cup {r}, n) <=> p \in A \cup B
    BY <1>4 DEF UsesBy, K
  <2> QED  BY <2>1
<1>8. A \cap B = {}
  BY DEF UsesBy
<1> HIDE DEF A, B
<1>9. Cardinality(A \cup B) = Cardinality(A) + Cardinality(B) - Cardinality(A \cap B)
  BY <1>3, <1>6, FS_Union
<1>10. Cardinality(A \cap B) = 0
  BY <1>8, FS_EmptySet
<1>11. Cardinality(A \cup B) = Cardinality(A) + Cardinality(K)
  BY <1>3, <1>4, <1>6, <1>9, <1>10
<1> QED  BY <1>3, <1>7, <1>11 DEF A, K

(* What the listener of updates has subscribed when it starts. *)
LEMMA InitSubscription == Init => SubscriptionInv
<1> SUFFICES ASSUME Init PROVE SubscriptionInv
  OBVIOUS
<1>1. \A n \in Station : UsesBy({}, n) = {}
  BY DEF UsesBy
<1>2. Subscribed = {}
  BY DEF Init, Subscribed
<1> QED  BY <1>1, <1>2, FS_EmptySet DEF Init, SubscriptionInv

(* Each step keeps the counts, and the subscription as they say. *)
LEMMA SubscriptionKeeps == TypeInv /\ QueryInv /\ SubscriptionInv /\ [Next]_vars => SubscriptionInv'
<1> SUFFICES ASSUME TypeInv, QueryInv, SubscriptionInv, [Next]_vars PROVE SubscriptionInv'
  OBVIOUS
<1>1. ASSUME NEW r \in Request, PostRequest(r) PROVE SubscriptionInv'
  <2>1. mRequests \in SUBSET Request /\ r \in Request \ mRequests /\ IsFiniteSet(mRequests)
    BY <1>1 DEF PostRequest, QueryInv, QueryOK, TypeInv, SubscriptionInv
  <2>2. mRequests' = mRequests \cup {r} /\ IsFiniteSet(mRequests')
    BY <1>1, <2>1, FS_AddElement DEF PostRequest
  <2>3. \A n \in Station : mSubscribedStations'[n] =
          mSubscribedStations[n] + Cardinality(SensorsAt(r, n))
    BY <1>1 DEF PostRequest, CheckSubscribe
  <2>4. \A n \in Station : mSubscribedStations'[n] = Cardinality(UsesBy(mRequests', n))
    BY <2>1, <2>2, <2>3, UsesGrow DEF SubscriptionInv
  <2>5. ASSUME ~mResubscribeTimer', ~inReSubscribe', ~refused' PROVE subscription' = Subscribed'
    <3>1. ~mResubscribeTimer /\ ~inReSubscribe /\ ~refused /\ subscription' = subscription
      BY <1>1, <2>5 DEF PostRequest, CheckSubscribe
    <3>2. \A n \in Station : mSubscribedStations[n] = 0 => SensorsAt(r, n) = {}
      BY <1>1, <2>5 DEF PostRequest, CheckSubscribe
    <3>3. \A n \in Station : mSubscribedStations[n] \in Nat /\ Cardinality(SensorsAt(r, n)) \in Nat
                             /\ (SensorsAt(r, n) = {} => Cardinality(SensorsAt(r, n)) = 0)
      BY SensorsAtFinite, FS_EmptySet DEF TypeInv
    <3>4. \A n \in Station : mSubscribedStations'[n] > 0 <=> mSubscribedStations[n] > 0
      BY <2>3, <3>2, <3>3
    <3> QED  BY <3>1, <3>4 DEF SubscriptionInv, Subscribed
  <2> QED  BY <2>2, <2>4, <2>5 DEF SubscriptionInv
<1>2. ASSUME NEW r \in Request, DropRequest(r) PROVE SubscriptionInv'
  <2> DEFINE M == mRequests \ {r}
  <2>1. /\ M \in SUBSET Request /\ r \in Request \ M /\ IsFiniteSet(M) /\ M \cup {r} = mRequests
        /\ mRequests' = M
    BY <1>2, FS_RemoveElement DEF DropRequest, TypeInv, SubscriptionInv
  <2>2. \A n \in Station : mSubscribedStations'[n] =
          Decreased(mSubscribedStations[n], Cardinality(SensorsAt(r, n)))
    BY <1>2 DEF DropRequest, CheckUnsubscribe
  <2> HIDE DEF M
  <2>3. \A n \in Station : /\ Cardinality(UsesBy(M, n)) \in Nat
                           /\ mSubscribedStations[n] =
                                Cardinality(UsesBy(M, n)) + Cardinality(SensorsAt(r, n))
    BY <2>1, UsesGrow DEF SubscriptionInv
  <2>4. \A n \in Station : mSubscribedStations'[n] = Cardinality(UsesBy(M, n))
    BY <2>2, <2>3, SensorsAtFinite DEF Decreased
  <2>5. ASSUME ~mResubscribeTimer', ~inReSubscribe', ~refused' PROVE subscription' = Subscribed'
    <3>1. ~mResubscribeTimer /\ ~inReSubscribe /\ ~refused /\ subscription' = subscription
      BY <1>2, <2>5 DEF DropRequest, CheckUnsubscribe
    <3>2. \A n \in Station : mSubscribedStations[n] > 0 => mSubscribedStations'[n] # 0
      BY <1>2, <2>5 DEF DropRequest, CheckUnsubscribe
    <3>3. \A n \in Station : mSubscribedStations'[n] > 0 <=> mSubscribedStations[n] > 0
      BY <2>3, <2>4, <3>2, SensorsAtFinite
    <3> QED  BY <3>1, <3>3 DEF SubscriptionInv, Subscribed
  <2> QED  BY <2>1, <2>4, <2>5 DEF SubscriptionInv
<1>3. ASSUME DoReSubscribe PROVE SubscriptionInv'
  BY <1>3 DEF DoReSubscribe, SubscriptionInv
<1>4. ASSUME NEW accepted \in BOOLEAN, SubscribeData(accepted) PROVE SubscriptionInv'
  <2>1. Subscribed' = Subscribed
    BY <1>4 DEF SubscribeData, Subscribed
  <2>2. /\ mRequests' = mRequests /\ mSubscribedStations' = mSubscribedStations
        /\ subscription' = IF accepted THEN Subscribed ELSE {}
        /\ refused' = (~accepted /\ Subscribed # {})
    BY <1>4 DEF SubscribeData
  <2>3. ~refused' => subscription' = Subscribed
    BY <2>2
  <2> QED  BY <2>1, <2>2, <2>3 DEF SubscriptionInv
<1>5. ASSUME UNCHANGED << mRequests, listener >> PROVE SubscriptionInv'
  BY <1>5 DEF listener, SubscriptionInv, Subscribed
<1>6. ASSUME \/ \E r \in Request, S \in SUBSET Sensor, v \in Value : StoreUpdates(r, S, v)
             \/ \E s \in Changing, v \in Value : DbChange(s, v)
             \/ WorkerStep \/ EventStep \/ KvData \/ UNCHANGED vars
      PROVE  UNCHANGED << mRequests, listener >>
  BY <1>6 DEF StoreUpdates, DbChange, WorkerStep, WorkerRun, WorkerDone, EventStep, OnNewData,
              OnDone, OnUpdated, KvData, vars
<1> QED  BY <1>1, <1>2, <1>3, <1>4, <1>5, <1>6 DEF Next, Subscribe

-----------------------------------------------------------------------------
(* The updates underway.  The last one of an observation, in the queue of  *)
(* QtKvService or else among the events, tells what the database holds, as *)
(* long as its last change was told at all.                                *)
Latest(i, at) == i \in at /\ \A k \in at : k <= i

EndsWith(s, d) ==
  /\ \A i : Latest(i, Queued(s)) => mSignalQueue[i].value = d
  /\ Queued(s) = {} => \A i : Latest(i, Emitted(s)) => events[i].value = d

\* Requests that can still be, or are, with a client
Known(r) == task[r] = "none" \/ r \in mRequests

PendingInv ==
  \A r \in Request, s \in Sensor : Known(r) /\ s \notin unheard[r] => EndsWith(s, db[s])

(* The places of an observation in the two queues. *)
LEMMA PlacesAre ==
  ASSUME TypeInv
  PROVE  /\ \A s : Queued(s) \subseteq 1 .. Len(mSignalQueue)
         /\ \A s : Emitted(s) \subseteq 1 .. Len(events)
         /\ Len(mSignalQueue) \in Nat /\ Len(events) \in Nat
BY DEF TypeInv, Queued, Emitted

(* Nothing is underway at the start. *)
LEMMA InitPending == Init => PendingInv
<1> SUFFICES ASSUME Init, NEW s \in Sensor PROVE EndsWith(s, db[s])
  BY DEF PendingInv
<1>1. mSignalQueue = << >> /\ events = << >>
  BY DEF Init
<1>2. DOMAIN mSignalQueue = {} /\ DOMAIN events = {}
  BY <1>1
<1>3. Queued(s) = {} /\ Emitted(s) = {}
  BY <1>2 DEF Queued, Emitted
<1> QED  BY <1>3 DEF EndsWith, Latest

(* The last update is the same while others come and go. *)
LEMMA EndStays ==
  ASSUME NEW s, NEW d, EndsWith(s, d), mSignalQueue' = mSignalQueue, Emitted(s)' = Emitted(s),
         \A i \in Emitted(s) : events'[i] = events[i]
  PROVE  EndsWith(s, d)'
<1>1. Queued(s)' = Queued(s)
  BY DEF Queued
<1> QED  BY <1>1 DEF EndsWith, Latest

(* Also when it moves up in the event queue. *)
LEMMA EndMoves ==
  ASSUME TypeInv, NEW kind, TakeEvent(kind), NEW s, NEW d, EndsWith(s, d),
         mSignalQueue' = mSignalQueue
  PROVE  EndsWith(s, d)'
<1>1. Queued(s)' = Queued(s)
  BY DEF Queued
<1>2. ASSUME NEW i, Queued(s) = {}, Latest(i, Emitted(s)') PROVE events'[i] = events[i + 1] /\ Latest(i + 1, Emitted(s))
  <2>1. /\ i \in Emitted(s)' /\ i \in Nat \ {0} /\ i + 1 \in Emitted(s)
        /\ \A k : k \in Emitted(s)' <=> k \in Nat \ {0} /\ k + 1 \in Emitted(s)
    BY <1>2, EventTaken DEF Latest
  <2>2. ASSUME NEW k \in Emitted(s) PROVE k <= i + 1
    <3>1. k \in Nat \ {0}
      BY PlacesAre
    <3>2. CASE k = 1
      BY <2>1, <3>2
    <3>3. CASE k # 1
      <4>1. k - 1 \in Nat \ {0} /\ (k - 1) + 1 = k
        BY <3>1, <3>3
      <4>2. k - 1 \in Emitted(s)'
        BY <2>1, <4>1
      <4>3. k - 1 <= i
        BY <1>2, <4>2 DEF Latest
      <4> QED  BY <2>1, <3>1, <4>3
    <3> QED  BY <3>2, <3>3
  <2>3. events'[i] = events[i + 1]
    <3>1. i \in DOMAIN events'
      BY <2>1 DEF Emitted
    <3> QED  BY <3>1, EventTaken
  <2> QED  BY <2>1, <2>2, <2>3 DEF Latest
<1>3. Queued(s) = {} => \A i : Latest(i, Emitted(s)') => events'[i].value = d
  BY <1>2 DEF EndsWith
<1> QED  BY <1>1, <1>3 DEF EndsWith, Latest

(* Signals are added behind those that there are. *)
LEMMA QueueGrows ==
  ASSUME TypeInv, NEW w \in Seq(Signal), mSignalQueue' = mSignalQueue \o w
  PROVE  LET n == Len(mSignalQueue)
         IN  /\ n \in Nat /\ Len(w) \in Nat
             /\ \A i \in 1 .. n : mSignalQueue'[i] = mSignalQueue[i]
             /\ \A i \in 1 .. Len(w) : mSignalQueue'[n + i] = w[i]
             /\ \A s, i : i \in Queued(s)' <=>
                  i \in Queued(s) \/ \E k \in 1 .. Len(w) : i = n + k /\ w[k].sensor = s
<1> DEFINE n == Len(mSignalQueue)
<1>1. mSignalQueue \in Seq(Signal) /\ n \in Nat /\ DOMAIN mSignalQueue = 1 .. n /\ Len(w) \in Nat
  BY DEF TypeInv
<1>2. /\ mSignalQueue' \in Seq(Signal) /\ Len(mSignalQueue') = n + Len(w)
      /\ \A i \in 1 .. n : mSignalQueue'[i] = mSignalQueue[i]
      /\ \A i \in 1 .. Len(w) : mSignalQueue'[n + i] = w[i]
  BY <1>1, ConcatIs
<1>3. DOMAIN mSignalQueue' = 1 .. n + Len(w)
  BY <1>2
<1> HIDE DEF n
<1>4. \A i : i \in 1 .. n + Len(w) <=> i \in 1 .. n \/ \E k \in 1 .. Len(w) : i = n + k
  <2>1. ASSUME NEW i \in 1 .. n + Len(w), i \notin 1 .. n PROVE \E k \in 1 .. Len(w) : i = n + k
    <3>1. i - n \in 1 .. Len(w) /\ i = n + (i - n)
      BY <1>1, <2>1
    <3> QED  BY <3>1
  <2> QED  BY <1>1, <2>1
<1>5. \A s, i : i \in Queued(s)' <=>
        i \in Queued(s) \/ \E k \in 1 .. Len(w) : i = n + k /\ w[k].sensor = s
  <2> SUFFICES ASSUME NEW s, NEW i
               PROVE  i \in Queued(s)' <=>
                        i \in Queued(s) \/ \E k \in 1 .. Len(w) : i = n + k /\ w[k].sensor = s
    OBVIOUS
  <2>1. i \in Queued(s)' <=> i \in 1 .. n + Len(w) /\ mSignalQueue'[i].sensor = s
    BY <1>3 DEF Queued
  <2>2. i \in Queued(s) <=> i \in 1 .. n /\ mSignalQueue[i].sensor = s
    BY <1>1 DEF Queued
  <2>3. CASE i \in 1 .. n
    <3>1. i \in 1 .. n + Len(w) /\ mSignalQueue'[i] = mSignalQueue[i]
      BY <1>1, <1>2, <2>3
    <3>2. \A k \in 1 .. Len(w) : i # n + k
      BY <1>1, <2>3
    <3> QED  BY <2>1, <2>2, <2>3, <3>1, <3>2
  <2>4. ASSUME NEW k \in 1 .. Len(w), i = n + k
        PROVE  i \in Queued(s)' <=> w[k].sensor = s
    BY <1>2, <1>4, <2>1, <2>4
  <2> QED  BY <1>4, <2>1, <2>2, <2>3, <2>4
<1> QED  BY <1>1, <1>2, <1>5 DEF n

(* A change is the last update, or is marked, or nothing was underway. *)
LEMMA ChangedPending ==
  ASSUME TypeInv, PendingInv, NEW S \in SUBSET Sensor, NEW v \in Value, NEW lost,
         Changed(S, [s \in Sensor |-> v], lost),
         UNCHANGED << events, mRequests, task >>,
         \A r \in Request, s \in S : s \notin lost[r] => ~Underway(s)
  PROVE  PendingInv'
<1> DEFINE data == [s \in Sensor |-> v]
           heard == {s \in S : stationId[s] \in subscription}
           w == Signals(heard, data)
           n == Len(mSignalQueue)
<1>1. /\ db' = Put(db, data, S) /\ mSignalQueue' = mSignalQueue \o w
      /\ unheard' = [r \in Request |-> (unheard[r] \ heard) \cup ((S \ heard) \cap lost[r])]
  BY DEF Changed
<1>2. heard \subseteq S /\ heard \in SUBSET Sensor
  OBVIOUS
<1>3. \A s \in Sensor : db'[s] = IF s \in S THEN v ELSE db[s]
  BY <1>1 DEF Put
<1>4. /\ w \in Seq(Signal) /\ \A i \in 1 .. Len(w) : w[i].sensor \in heard /\ w[i].value = v
      /\ \A s \in heard : \E i \in 1 .. Len(w) : w[i].sensor = s
  <2>1. \A s \in heard : data[s] \in Value
    BY <1>2
  <2> HIDE DEF data, heard
  <2>2. w \in Seq(Signal)
    BY <1>2, <2>1, SignalsAre
  <2>3. TellsOnly(w, heard, data)
    BY <1>2, <2>1, SignalsAre
  <2>4. \A s \in heard : Tells(w, s)
    BY <1>2, <2>1, SignalsAre
  <2>5. \A s \in heard : data[s] = v
    BY <1>2 DEF data
  <2> HIDE DEF w
  <2> QED  BY <2>2, <2>3, <2>4, <2>5 DEF Tells, TellsOnly
<1> HIDE DEF data, heard, w
<1>5. /\ n \in Nat /\ Len(w) \in Nat
      /\ \A i \in 1 .. n : mSignalQueue'[i] = mSignalQueue[i]
      /\ \A i \in 1 .. Len(w) : mSignalQueue'[n + i] = w[i]
      /\ \A s, i : i \in Queued(s)' <=>
           i \in Queued(s) \/ \E k \in 1 .. Len(w) : i = n + k /\ w[k].sensor = s
  BY <1>1, <1>4, QueueGrows
<1>6. \A s : Queued(s) \subseteq 1 .. n
  BY PlacesAre
<1> HIDE DEF n
<1>7. \A s : Emitted(s)' = Emitted(s)
  BY DEF Emitted
<1> SUFFICES ASSUME NEW r \in Request, NEW s \in Sensor, Known(r)', s \notin unheard'[r]
             PROVE  EndsWith(s, db[s])'
  BY DEF PendingInv
<1>8. Known(r) /\ (s \notin heard => s \notin unheard[r])
  BY <1>1 DEF Known
<1>9. CASE s \in heard
  <2>1. PICK k \in 1 .. Len(w) : w[k].sensor = s
    BY <1>4, <1>9
  <2>2. n + k \in Queued(s)' /\ n + k > n /\ n + k \in Nat
    BY <1>5, <2>1
  <2>3. ASSUME NEW i, Latest(i, Queued(s)') PROVE mSignalQueue'[i].value = v
    <3>1. i \in Queued(s)' /\ n + k <= i
      BY <2>2, <2>3 DEF Latest
    <3>2. i \notin Queued(s)
      BY <1>5, <1>6, <2>2, <3>1
    <3>3. PICK j \in 1 .. Len(w) : i = n + j
      BY <1>5, <3>1, <3>2
    <3> QED  BY <1>4, <1>5, <3>3
  <2>4. Queued(s)' # {} /\ db'[s] = v
    BY <1>2, <1>3, <1>9, <2>2
  <2> QED  BY <2>3, <2>4 DEF EndsWith
<1>10. CASE s \notin heard
  <2>1. Queued(s)' = Queued(s)
    <3>1. \A k \in 1 .. Len(w) : w[k].sensor # s
      BY <1>4, <1>10
    <3>2. \A i : i \in Queued(s)' <=> i \in Queued(s)
      BY <1>5, <3>1
    <3> QED  BY <3>2
  <2>2. CASE s \in S
    <3>1. s \notin lost[r]
      BY <1>1, <1>10, <2>2
    <3>2. Queued(s) = {} /\ Emitted(s) = {}
      BY <2>2, <3>1 DEF Underway
    <3> QED  BY <1>7, <2>1, <3>2 DEF EndsWith, Latest
  <2>3. CASE s \notin S
    <3>1. EndsWith(s, db[s]) /\ db'[s] = db[s]
      BY <1>3, <1>8, <1>10, <2>3 DEF PendingInv
    <3>2. \A i \in Queued(s) : mSignalQueue'[i] = mSignalQueue[i]
      BY <1>5, <1>6
    <3> QED  BY <1>7, <2>1, <3>1, <3>2 DEF EndsWith, Latest
  <2> QED  BY <2>2, <2>3
<1> QED  BY <1>9, <1>10

(* A signal is the last update after its way from one queue to the other,  *)
(* or is lost and marked.                                                  *)
LEMMA KvDataPending == TypeInv /\ PendingInv /\ KvData => PendingInv'
<1> SUFFICES ASSUME TypeInv, PendingInv, KvData,
                    NEW r \in Request, NEW s \in Sensor, Known(r)', s \notin unheard'[r]
             PROVE  EndsWith(s, db[s])'
  BY DEF PendingInv
<1> DEFINE u == Head(mSignalQueue)
           n == Len(mSignalQueue)
<1>1. mSignalQueue # << >> /\ mSignalQueue' = Tail(mSignalQueue)
  BY DEF KvData
<1>2. /\ n \in Nat \ {0} /\ DOMAIN mSignalQueue = 1 .. n
      /\ mSignalQueue[1] = u /\ u \in Signal
      /\ DOMAIN mSignalQueue' = 1 .. n - 1
      /\ \A i \in 1 .. n - 1 : mSignalQueue'[i] = mSignalQueue[i + 1]
  BY <1>1, TailIs DEF TypeInv
<1>3. /\ Known(r) /\ db' = db /\ s \notin unheard[r]
  <2>1. task' = task /\ mRequests' = mRequests /\ db' = db
    BY DEF KvData, taskVars
  <2>2. unheard[r] \subseteq unheard'[r]
    <3>1. \/ unheard' = unheard
          \/ \E B, x : unheard' = [q \in Request |-> IF q \in B THEN unheard[q] \cup {x} ELSE unheard[q]]
      <4> DEFINE B == {q \in Request : Queued(u.sensor) = {1} /\
                                       (q \in mRequests \/ Emitted(u.sensor) # {})}
      <4>1. CASE subscription = {}
        <5>1. unheard' = [q \in Request |->
                IF q \in B THEN unheard[q] \cup {u.sensor} ELSE unheard[q]]
          BY <4>1 DEF KvData
        <5> QED  BY <5>1
      <4> QED  BY <4>1 DEF KvData
    <3> QED  BY <3>1
  <2> QED  BY <2>1, <2>2 DEF Known
<1>4. EndsWith(s, db[s])
  BY <1>3 DEF PendingInv
<1>5. /\ subscription # {} => events' =
           Append(events, [kind |-> "updated", sensor |-> u.sensor, value |-> u.value])
      /\ subscription = {} => events' = events
      /\ subscription = {} /\ Queued(u.sensor) = {1} /\ (r \in mRequests \/ Emitted(u.sensor) # {})
           => u.sensor \in unheard'[r]
  BY DEF KvData
<1> HIDE DEF u, n
<1>6. \A i : i \in Queued(s)' <=> i \in Nat \ {0} /\ i + 1 \in Queued(s)
  <2>1. \A i : i \in DOMAIN mSignalQueue' <=> i \in Nat \ {0} /\ i + 1 \in DOMAIN mSignalQueue
    BY <1>2
  <2> QED  BY <1>2, <2>1 DEF Queued
<1>7. ASSUME NEW i, Latest(i, Queued(s)') PROVE mSignalQueue'[i].value = db[s]
  <2>1. /\ i \in Nat \ {0} /\ i + 1 \in Queued(s) /\ i \in Queued(s)'
    BY <1>6, <1>7 DEF Latest
  <2>2. ASSUME NEW k \in Queued(s) PROVE k <= i + 1
    <3>1. k \in Nat \ {0}
      BY PlacesAre
    <3>2. CASE k = 1
      BY <2>1, <3>2
    <3>3. CASE k # 1
      <4>1. k - 1 \in Nat \ {0} /\ (k - 1) + 1 = k
        BY <3>1, <3>3
      <4>2. k - 1 \in Queued(s)'
        BY <1>6, <4>1
      <4>3. k - 1 <= i
        BY <1>7, <4>2 DEF Latest
      <4> QED  BY <2>1, <3>1, <4>3
    <3> QED  BY <3>2, <3>3
  <2>3. mSignalQueue[i + 1].value = db[s]
    BY <1>4, <2>1, <2>2 DEF EndsWith, Latest
  <2>4. i \in 1 .. n - 1
    BY <1>2, <2>1 DEF Queued
  <2> QED  BY <1>2, <2>3, <2>4
<1>8. ASSUME Queued(s)' = {} PROVE \A i : Latest(i, Emitted(s)') => events'[i].value = db[s]
  <2>1. ASSUME NEW k \in Queued(s) PROVE k = 1
    <3>1. k \in Nat \ {0}
      BY PlacesAre
    <3>2. k # 1 => k - 1 \in Nat \ {0} /\ (k - 1) + 1 = k
      BY <3>1
    <3> QED  BY <1>6, <1>8, <2>1, <3>2
  <2>2. CASE s # u.sensor
    <3>1. 1 \notin Queued(s)
      BY <1>2, <2>2 DEF Queued
    <3>2. Queued(s) = {}
      BY <2>1, <3>1
    <3>3. /\ Emitted(s)' = Emitted(s)
          /\ \A i \in Emitted(s) : events'[i] = events[i]
      <4>1. CASE subscription # {}
        BY <1>2, <1>5, <2>2, <4>1, EventsEmitted, PlacesAre
      <4>2. CASE subscription = {}
        BY <1>5, <4>2 DEF Emitted
      <4> QED  BY <4>1, <4>2
    <3> QED  BY <1>4, <3>2, <3>3 DEF EndsWith, Latest
  <2>3. CASE s = u.sensor
    <3>1. Queued(s) = {1}
      BY <1>2, <2>1, <2>3 DEF Queued
    <3>2. u.value = db[s]
      <4>1. Latest(1, Queued(s))
        BY <3>1 DEF Latest
      <4> QED  BY <1>2, <1>4, <4>1 DEF EndsWith
    <3>3. CASE subscription # {}
      <4> DEFINE m == Len(events)
      <4>1. /\ m \in Nat /\ Emitted(s)' = Emitted(s) \cup {m + 1} /\ events'[m + 1].value = u.value
        BY <1>2, <1>5, <2>3, <3>3, EventsEmitted
      <4>2. Emitted(s) \subseteq 1 .. m
        BY PlacesAre
      <4> HIDE DEF m
      <4>3. \A i : Latest(i, Emitted(s)') => i = m + 1
        BY <4>1, <4>2 DEF Latest
      <4> QED  BY <3>2, <4>1, <4>3
    <3>4. CASE subscription = {}
      <4>1. Emitted(s) = {}
        BY <1>5, <2>3, <3>1, <3>4
      <4>2. Emitted(s)' = {}
        BY <1>5, <3>4, <4>1 DEF Emitted
      <4> QED  BY <4>2 DEF Latest
    <3> QED  BY <3>3, <3>4
  <2> QED  BY <2>2, <2>3
<1> QED  BY <1>3, <1>7, <1>8 DEF EndsWith

(* Each step keeps what the updates underway tell. *)
LEMMA PendingKeeps == TypeInv /\ PendingInv /\ [Next]_vars => PendingInv'
<1> SUFFICES ASSUME TypeInv, PendingInv, [Next]_vars PROVE PendingInv'
  OBVIOUS
<1>1. ASSUME UNCHANGED << events, mSignalQueue, db >>,
             \A r \in Request : Known(r)' => Known(r) /\ unheard'[r] = unheard[r]
      PROVE  PendingInv'
  <2> SUFFICES ASSUME NEW r \in Request, NEW s \in Sensor, Known(r)', s \notin unheard'[r]
               PROVE  EndsWith(s, db[s])'
    BY DEF PendingInv
  <2>1. EndsWith(s, db[s]) /\ Emitted(s)' = Emitted(s)
    BY <1>1 DEF PendingInv, Emitted
  <2> QED  BY <1>1, <2>1, EndStays
<1>2. ASSUME NEW r \in Request, PostRequest(r) PROVE PendingInv'
  <2>1. \A q \in Request : Known(q)' => Known(q)
    BY <1>2 DEF PostRequest, Known, TypeInv
  <2> QED  BY <1>1, <1>2, <2>1 DEF PostRequest, lags
<1>3. ASSUME NEW r \in Request, DropRequest(r) PROVE PendingInv'
  <2>1. \A q \in Request : Known(q)' => q # r
    BY <1>3 DEF DropRequest, Known, TypeInv
  <2>2. \A q \in Request : q # r => (Known(q)' => Known(q)) /\ unheard'[q] = unheard[q]
    BY <1>3 DEF DropRequest, Known, TypeInv
  <2> QED  BY <1>1, <1>3, <2>1, <2>2 DEF DropRequest
<1>4. ASSUME NEW r \in Request, WorkerRun(r) PROVE PendingInv'
  <2>1. \A q \in Request : Known(q)' => Known(q)
    BY <1>4 DEF WorkerRun, Known, TypeInv
  <2> QED  BY <1>1, <1>4, <2>1 DEF WorkerRun, lags
<1>5. ASSUME NEW r \in Request, WorkerDone(r) PROVE PendingInv'
  <2>1. \A q \in Request : Known(q)' => Known(q)
    BY <1>5 DEF WorkerDone, Known, TypeInv
  <2>2. UNCHANGED << mSignalQueue, db, unheard >>
    BY <1>5 DEF WorkerDone, lags
  <2>3. \A s : Emitted(s)' = Emitted(s) /\ \A i \in Emitted(s) : events'[i] = events[i]
    BY <1>5, EventsDone, PlacesAre
  <2> SUFFICES ASSUME NEW q \in Request, NEW s \in Sensor, Known(q)', s \notin unheard'[q]
               PROVE  EndsWith(s, db[s])'
    BY DEF PendingInv
  <2>4. EndsWith(s, db[s])
    BY <2>1, <2>2 DEF PendingInv
  <2> QED  BY <2>2, <2>3, <2>4, EndStays
<1>6. ASSUME EventStep PROVE PendingInv'
  <2>1. PICK kind : TakeEvent(kind)
    BY <1>6 DEF EventStep, OnNewData, OnDone, OnUpdated
  <2>2. UNCHANGED << mSignalQueue, db, unheard, task, mRequests >>
    BY <1>6 DEF EventStep, OnNewData, OnDone, OnUpdated, lags, taskVars
  <2> SUFFICES ASSUME NEW q \in Request, NEW s \in Sensor, Known(q)', s \notin unheard'[q]
               PROVE  EndsWith(s, db[s])'
    BY DEF PendingInv
  <2>3. EndsWith(s, db[s])
    BY <2>2 DEF PendingInv, Known
  <2> QED  BY <2>1, <2>2, <2>3, EndMoves
<1>7. ASSUME NEW r \in Request, NEW S \in SUBSET Sensor, NEW v \in Value, StoreUpdates(r, S, v)
      PROVE  PendingInv'
  <2> DEFINE created == {s \in S : view[r][s] = NoData}
             lost == [q \in Request |->
               {s \in Sensor : Underway(s) \/ (s \in created /\ view[q][s] # NoData)}]
  <2>1. Changed(S, [s \in Sensor |-> v], lost)
    BY <1>7 DEF StoreUpdates
  <2>2. UNCHANGED << events, mRequests, task >>
    BY <1>7 DEF StoreUpdates, taskVars
  <2>3. \A q \in Request, s \in S : s \notin lost[q] => ~Underway(s)
    OBVIOUS
  <2> HIDE DEF lost
  <2> QED  BY <2>1, <2>2, <2>3, ChangedPending
<1>8. ASSUME NEW x \in Changing, NEW v \in Value, DbChange(x, v) PROVE PendingInv'
  <2> DEFINE lost == [r \in Request |-> {y \in Sensor : r \in mRequests \/ Underway(y)}]
  <2>1. Changed({x}, [s \in Sensor |-> v], lost)
    BY <1>8 DEF DbChange
  <2>2. UNCHANGED << events, mRequests, task >>
    BY <1>8 DEF DbChange, taskVars
  <2>3. {x} \in SUBSET Sensor
    BY KvalobsAssumption
  <2>4. \A q \in Request, s \in {x} : s \notin lost[q] => ~Underway(s)
    BY <2>3
  <2> HIDE DEF lost
  <2> QED  BY <2>1, <2>2, <2>3, <2>4, ChangedPending
<1>9. ASSUME DoReSubscribe \/ Subscribe \/ UNCHANGED vars PROVE PendingInv'
  <2>1. UNCHANGED << events, mSignalQueue, db, task, mRequests, unheard >>
    BY <1>9 DEF DoReSubscribe, Subscribe, SubscribeData, vars, taskVars, lags
  <2> QED  BY <1>1, <2>1 DEF Known
<1> QED  BY <1>2, <1>3, <1>4, <1>5, <1>6, <1>7, <1>8, <1>9, KvDataPending DEF Next, WorkerStep

-----------------------------------------------------------------------------
(* The rows.  What a client holds of an observation, or will hold when its *)
(* rows have come, is what the database holds, once no update is underway  *)
(* and if neither history variable says otherwise.                         *)
Fine(r, s, v) == v = db[s] \/ (v = NoData /\ db[s] \notin Accepts[r])

Over(row, held) == IF row # NoData THEN row ELSE held

Succeeded(r) ==
  answers[r] = << FALSE >> \/ \E i \in DoneOf(r) : events[i].error = FALSE

RowsOK(r, s) ==
  /\ task[r] = "queued" => view[r][s] \in {NoData, db[s]}
  /\ task[r] = "read" => Fine(r, s, Over(mData[r][s], view[r][s]))
  /\ \A i \in NewDataOf(r) :
       events[i + 1].error = FALSE => Fine(r, s, Over(events[i].data[s], view[r][s]))
  /\ NewDataOf(r) = {} /\ Succeeded(r) => Fine(r, s, view[r][s])

Settled(r, s) ==
  Covers(r, s) /\ s \notin unheard[r] /\ s \notin overtaken[r] /\ ~Underway(s)

DataInv == \A r \in mRequests, s \in Sensor : Settled(r, s) => RowsOK(r, s)

(* A request that a step does not concern. *)
LEMMA RowsStay ==
  ASSUME NEW r \in Request, NEW s \in Sensor, RowsOK(r, s), QueryOK(r),
         task'[r] = task[r], mData'[r] = mData[r], answers'[r] = answers[r],
         view'[r][s] = view[r][s], db'[s] = db[s],
         NewDataOf(r)' = NewDataOf(r), DoneOf(r)' = DoneOf(r),
         \A i \in NewDataOf(r) \cup DoneOf(r) : events'[i] = events[i]
  PROVE  RowsOK(r, s)'
<1>1. \A v : Fine(r, s, v) => (v = db'[s] \/ (v = NoData /\ db'[s] \notin Accepts[r]))
  BY DEF Fine
<1>2. Succeeded(r)' => Succeeded(r)
  BY DEF Succeeded
<1>3. \A i \in NewDataOf(r) : events'[i] = events[i] /\ events'[i + 1] = events[i + 1]
  BY DEF QueryOK
<1> QED  BY <1>2, <1>3 DEF RowsOK, Fine

(* The same when an event of others is taken. *)
LEMMA RowsMove ==
  ASSUME TypeInv, NEW r \in Request, NEW s \in Sensor, RowsOK(r, s), QueryOK(r),
         NEW kind, TakeEvent(kind), 1 \notin NewDataOf(r), 1 \notin DoneOf(r),
         task'[r] = task[r], mData'[r] = mData[r], answers'[r] = answers[r],
         view'[r][s] = view[r][s], db'[s] = db[s]
  PROVE  RowsOK(r, s)'
<1>1. /\ \A i : i \in NewDataOf(r)' <=> i \in Nat \ {0} /\ i + 1 \in NewDataOf(r)
      /\ \A i : i \in DoneOf(r)' <=> i \in Nat \ {0} /\ i + 1 \in DoneOf(r)
      /\ \A i \in DOMAIN events' : events'[i] = events[i + 1]
  BY EventTaken
<1>2. \A i \in NewDataOf(r)' : events'[i] = events[i + 1]
  BY <1>1 DEF NewDataOf
<1>3. \A i \in DoneOf(r)' : events'[i] = events[i + 1]
  BY <1>1 DEF DoneOf
<1>4. ASSUME NEW i \in NewDataOf(r)' PROVE i + 1 \in NewDataOf(r) /\ events'[i + 1] = events[(i + 1) + 1]
  <2>1. i \in Nat \ {0} /\ i + 1 \in NewDataOf(r)
    BY <1>1, <1>4
  <2>2. (i + 1) + 1 \in DoneOf(r) /\ i + 1 \in Nat \ {0}
    BY <2>1 DEF QueryOK
  <2> QED  BY <1>1, <1>3, <2>1, <2>2
<1>5. NewDataOf(r)' = {} => NewDataOf(r) = {}
  <2>1. ASSUME NEW i \in NewDataOf(r) PROVE i - 1 \in NewDataOf(r)'
    <3>1. i \in Nat \ {0} /\ i # 1
      BY <2>1 DEF NewDataOf, TypeInv
    <3>2. i - 1 \in Nat \ {0} /\ (i - 1) + 1 = i
      BY <3>1
    <3> QED  BY <1>1, <2>1, <3>2
  <2> QED  BY <2>1
<1>6. Succeeded(r)' => Succeeded(r)
  BY <1>1, <1>3 DEF Succeeded
<1>7. ASSUME NEW i \in NewDataOf(r)', events'[i + 1].error = FALSE
      PROVE  Fine(r, s, Over(events[i + 1].data[s], view[r][s]))
  BY <1>4, <1>7 DEF RowsOK
<1>8. \A i \in NewDataOf(r)' : events'[i + 1].error = FALSE =>
        Fine(r, s, Over(events'[i].data[s], view[r][s]))
  BY <1>2, <1>7
<1> QED  BY <1>5, <1>6, <1>8 DEF RowsOK, Fine

(* What a client holds is right when no rows will come over it. *)
LEMMA RowsShown ==
  ASSUME NEW r \in Request, NEW s \in Sensor, task'[r] # "read", NewDataOf(r)' = {},
         view'[r][s] = db'[s] \/ (view'[r][s] = NoData /\ db'[s] \notin Accepts[r])
  PROVE  RowsOK(r, s)'
BY DEF RowsOK, Fine

\* What a change of S to v does to observation s and its mark for r
ChangeSeen(S, v, lost, r, s) ==
  /\ db'[s] = IF s \in S THEN v ELSE db[s]
  /\ Underway(s) => Underway(s)'
  /\ s \in S /\ stationId[s] \in subscription => Underway(s)'
  /\ s \notin S /\ s \in unheard[r] => s \in unheard'[r]
  /\ s \in S /\ s \in lost[r] /\ stationId[s] \notin subscription => s \in unheard'[r]

(* A change leaves the other observations alone. *)
LEMMA ChangedShows ==
  ASSUME TypeInv, NEW S \in SUBSET Sensor, NEW v \in Value, NEW lost,
         Changed(S, [s \in Sensor |-> v], lost), events' = events
  PROVE  \A r \in Request, s \in Sensor : ChangeSeen(S, v, lost, r, s)
<1> DEFINE data == [s \in Sensor |-> v]
           heard == {s \in S : stationId[s] \in subscription}
           w == Signals(heard, data)
           n == Len(mSignalQueue)
<1>1. /\ db' = Put(db, data, S) /\ mSignalQueue' = mSignalQueue \o w
      /\ unheard' = [r \in Request |-> (unheard[r] \ heard) \cup ((S \ heard) \cap lost[r])]
  BY DEF Changed
<1>2. heard \in SUBSET Sensor /\ \A s \in heard : data[s] \in Value
  OBVIOUS
<1>3. \A s \in Sensor : s \in heard <=> s \in S /\ stationId[s] \in subscription
  OBVIOUS
<1>4. \A s \in Sensor : db'[s] = IF s \in S THEN v ELSE db[s]
  BY <1>1 DEF Put
<1> HIDE DEF data, heard
<1>5. w \in Seq(Signal)
  BY <1>2, SignalsAre
<1>6. \A s \in heard : Tells(w, s)
  BY <1>2, SignalsAre
<1> HIDE DEF w
<1>7. \A s, i : i \in Queued(s)' <=>
        i \in Queued(s) \/ \E k \in 1 .. Len(w) : i = n + k /\ w[k].sensor = s
  BY <1>1, <1>5, QueueGrows
<1> HIDE DEF n
<1>8. ASSUME NEW s \in Sensor
      PROVE  (Underway(s) => Underway(s)') /\ (s \in heard => Underway(s)')
  <2>1. Emitted(s)' = Emitted(s)
    BY DEF Emitted
  <2>2. Queued(s) # {} \/ s \in heard => Queued(s)' # {}
    BY <1>6, <1>7 DEF Tells
  <2> QED  BY <2>1, <2>2 DEF Underway
<1>9. ASSUME NEW r \in Request, NEW s \in Sensor
      PROVE  /\ s \notin S /\ s \in unheard[r] => s \in unheard'[r]
             /\ s \in S /\ s \in lost[r] /\ stationId[s] \notin subscription => s \in unheard'[r]
  BY <1>1, <1>3
<1> QED  BY <1>3, <1>4, <1>8, <1>9 DEF ChangeSeen

(* Nothing is read at the start. *)
LEMMA InitData == Init => DataInv
BY DEF Init, DataInv

(* Each step keeps them. *)
LEMMA DataKeeps ==
  TypeInv /\ QueryInv /\ PendingInv /\ DataInv /\ [Next]_vars => DataInv'
<1> SUFFICES ASSUME TypeInv, QueryInv, PendingInv, DataInv, [Next]_vars PROVE DataInv'
  OBVIOUS
<1>0. ASSUME NEW q \in mRequests, NEW s \in Sensor, Settled(q, s)
      PROVE  q \in Request /\ RowsOK(q, s) /\ QueryOK(q)
  BY <1>0 DEF DataInv, QueryInv, TypeInv
\* Steps that touch neither the queues nor the data, but for one request
<1>1. ASSUME UNCHANGED << events, mSignalQueue, db >>,
             NEW q \in mRequests, NEW s \in Sensor, Settled(q, s)',
             task'[q] = task[q], mData'[q] = mData[q], view'[q] = view[q],
             answers'[q] = answers[q], unheard'[q] = unheard[q], overtaken'[q] = overtaken[q]
      PROVE  RowsOK(q, s)'
  <2>1. NewDataOf(q)' = NewDataOf(q) /\ DoneOf(q)' = DoneOf(q) /\ Settled(q, s)
    BY <1>1 DEF NewDataOf, DoneOf, Settled, Underway, Queued, Emitted
  <2> QED  BY <1>0, <1>1, <2>1, RowsStay
<1>2. ASSUME NEW r \in Request, PostRequest(r) PROVE DataInv'
  <2> SUFFICES ASSUME NEW q \in mRequests', NEW s \in Sensor, Settled(q, s)'
               PROVE  RowsOK(q, s)'
    BY DEF DataInv
  <2>1. /\ UNCHANGED << events, mSignalQueue, db, mData, view, answers, unheard, overtaken >>
        /\ task[r] = "none" /\ mRequests' = mRequests \cup {r}
        /\ task'[r] = "queued" /\ \A p \in Request : p # r => task'[p] = task[p]
    BY <1>2 DEF PostRequest, clients, lags, TypeInv
  <2>2. CASE q = r
    <3>1. /\ view[r] = Nothing /\ NewDataOf(r) = {} /\ DoneOf(r) = {} /\ answers[r] = << >>
      BY <2>1 DEF QueryInv, QueryOK
    <3>2. NewDataOf(r)' = {} /\ DoneOf(r)' = {}
      BY <2>1, <3>1 DEF NewDataOf, DoneOf
    <3>3. ~Succeeded(r)'
      BY <2>1, <3>1, <3>2 DEF Succeeded
    <3>4. view'[r][s] = NoData
      BY <2>1, <3>1 DEF Nothing
    <3> QED  BY <2>1, <2>2, <3>2, <3>3, <3>4 DEF RowsOK
  <2>3. CASE q # r
    <3>1. q \in mRequests /\ q \in Request
      BY <2>1, <2>3 DEF TypeInv
    <3> QED  BY <1>1, <2>1, <2>3, <3>1
  <2> QED  BY <2>2, <2>3
<1>3. ASSUME NEW r \in Request, DropRequest(r) PROVE DataInv'
  <2> SUFFICES ASSUME NEW q \in mRequests', NEW s \in Sensor, Settled(q, s)'
               PROVE  RowsOK(q, s)'
    BY DEF DataInv
  <2>1. UNCHANGED << events, mSignalQueue, db >> /\ q \in mRequests /\ q # r /\ q \in Request
    BY <1>3 DEF DropRequest, TypeInv
  <2>2. /\ task'[q] = task[q] /\ mData'[q] = mData[q] /\ view'[q] = view[q]
        /\ answers'[q] = answers[q] /\ unheard'[q] = unheard[q] /\ overtaken'[q] = overtaken[q]
    BY <1>3, <2>1 DEF DropRequest, TypeInv
  <2> QED  BY <1>1, <2>1, <2>2
<1>4. ASSUME NEW r \in Request, WorkerRun(r) PROVE DataInv'
  <2> SUFFICES ASSUME NEW q \in mRequests', NEW s \in Sensor, Settled(q, s)'
               PROVE  RowsOK(q, s)'
    BY DEF DataInv
  <2>1. /\ UNCHANGED << mRequests, events, mSignalQueue, db, view, answers, unheard, overtaken >>
        /\ q \in mRequests /\ q \in Request
    BY <1>4 DEF WorkerRun, clients, lags, TypeInv
  <2>2. CASE q = r
    <3>1. /\ task[r] = "queued" /\ task'[r] \in {"read", "failed"}
          /\ task'[r] = "read" => mData'[r] = Rows(r)
      BY <1>4 DEF WorkerRun, TypeInv
    <3>2. Settled(r, s) /\ NewDataOf(r)' = NewDataOf(r) /\ DoneOf(r)' = DoneOf(r)
      BY <2>1, <2>2 DEF Settled, Underway, Queued, Emitted, NewDataOf, DoneOf
    <3>3. /\ RowsOK(r, s) /\ NewDataOf(r) = {} /\ DoneOf(r) = {} /\ answers[r] = << >>
          /\ Covers(r, s)
      BY <1>0, <2>1, <2>2, <3>1, <3>2 DEF QueryOK, Settled
    <3>4. ~Succeeded(r)'
      BY <2>1, <3>2, <3>3 DEF Succeeded
    <3>5. view'[r][s] \in {NoData, db[s]}
      BY <2>1, <3>1, <3>3 DEF RowsOK
    <3>6. ASSUME task'[r] = "read" PROVE Fine(r, s, Over(mData'[r][s], view'[r][s]))
      <4>1. mData'[r][s] = IF db[s] \in Accepts[r] THEN db[s] ELSE NoData
        BY <3>1, <3>3, <3>6 DEF Rows
      <4>2. NoData \notin Accepts[r]
        BY KvalobsAssumption
      <4> QED  BY <3>5, <4>1, <4>2 DEF Fine, Over
    <3> QED  BY <2>1, <2>2, <3>1, <3>2, <3>3, <3>4, <3>6 DEF RowsOK, Fine
  <2>3. CASE q # r
    <3>1. task'[q] = task[q] /\ mData'[q] = mData[q]
      BY <1>4, <2>1, <2>3 DEF WorkerRun, TypeInv
    <3> QED  BY <1>1, <2>1, <3>1
  <2> QED  BY <2>2, <2>3
<1>5. ASSUME NEW r \in Request, WorkerDone(r) PROVE DataInv'
  <2> SUFFICES ASSUME NEW q \in mRequests', NEW s \in Sensor, Settled(q, s)'
               PROVE  RowsOK(q, s)'
    BY DEF DataInv
  <2> DEFINE n == Len(events)
  <2>1. /\ UNCHANGED << mRequests, mSignalQueue, db, view, answers, unheard, overtaken >>
        /\ q \in mRequests /\ q \in Request
        /\ task[r] \in {"read", "failed"} /\ task'[r] = "done"
        /\ \A p \in Request : p # r => task'[p] = task[p] /\ mData'[p] = mData[p]
    BY <1>5 DEF WorkerDone, clients, lags, TypeInv
  <2>2. /\ n \in Nat /\ \A i \in 1 .. n : events'[i] = events[i]
        /\ events'[n + 1].data = mData[r] /\ events'[n + 2].error = (task[r] = "failed")
        /\ NewDataOf(r)' = NewDataOf(r) \cup {n + 1} /\ DoneOf(r)' = DoneOf(r) \cup {n + 2}
        /\ \A p \in Request \ {r} : NewDataOf(p)' = NewDataOf(p) /\ DoneOf(p)' = DoneOf(p)
        /\ \A x : Emitted(x)' = Emitted(x)
    BY <1>5, EventsDone
  <2>3. NewDataOf(q) \cup DoneOf(q) \subseteq 1 .. n
    BY DEF NewDataOf, DoneOf, TypeInv
  <2> HIDE DEF n
  <2>4. Settled(q, s)
    BY <2>1, <2>2 DEF Settled, Underway, Queued
  <2>5. RowsOK(q, s) /\ QueryOK(q)
    BY <1>0, <2>1, <2>4
  <2>6. CASE q = r
    <3>1. NewDataOf(r)' = {n + 1}
      BY <2>1, <2>2, <2>5, <2>6 DEF QueryOK
    <3>2. ASSUME events'[(n + 1) + 1].error = FALSE
          PROVE  Fine(r, s, Over(events'[n + 1].data[s], view'[r][s]))
      <4>1. (n + 1) + 1 = n + 2
        BY <2>2
      <4>2. task[r] # "failed"
        BY <2>2, <3>2, <4>1
      <4> QED  BY <2>1, <2>2, <2>5, <2>6, <4>2 DEF RowsOK
    <3> QED  BY <2>1, <2>6, <3>1, <3>2 DEF RowsOK, Fine
  <2>7. CASE q # r
    BY <2>1, <2>2, <2>3, <2>5, <2>7, RowsStay
  <2> QED  BY <2>6, <2>7
\* Taking an event moves the others up.
<1>6. ASSUME NEW kind, TakeEvent(kind), UNCHANGED << mSignalQueue, db, unheard >>,
             NEW q \in mRequests, NEW s \in Sensor, Settled(q, s)',
             s \in overtaken[q] => s \in overtaken'[q], 1 \notin Emitted(s)
      PROVE  Settled(q, s)
  <2>1. Emitted(s) = {}
    <3>1. ASSUME NEW i \in Emitted(s) PROVE FALSE
      <4>1. i \in Nat \ {0} /\ i # 1
        BY <1>6, <3>1, PlacesAre
      <4>2. i - 1 \in Nat \ {0} /\ (i - 1) + 1 = i
        BY <4>1
      <4>3. i - 1 \in Emitted(s)'
        BY <1>6, <3>1, <4>2, EventTaken
      <4> QED  BY <1>6, <4>3 DEF Settled, Underway
    <3> QED  BY <3>1
  <2> QED  BY <1>6, <2>1 DEF Settled, Underway, Queued
<1>7. ASSUME OnNewData PROVE DataInv'
  <2> SUFFICES ASSUME NEW q \in mRequests', NEW s \in Sensor, Settled(q, s)'
               PROVE  RowsOK(q, s)'
    BY DEF DataInv
  <2> DEFINE e == Head(events)
             rows == {x \in Sensor : e.data[x] # NoData}
  <2>1. /\ UNCHANGED << mRequests, mSignalQueue, db, task, mData, answers, unheard, overtaken >>
        /\ TakeEvent("newData") /\ q \in mRequests /\ q \in Request
    BY <1>7 DEF OnNewData, lags, taskVars, TypeInv
  <2>2. /\ 1 \in DOMAIN events /\ events[1] = e /\ e.kind = "newData"
        /\ \A i : i \in NewDataOf(q)' <=> i \in Nat \ {0} /\ i + 1 \in NewDataOf(q)
        /\ \A i : i \in DoneOf(q)' <=> i \in Nat \ {0} /\ i + 1 \in DoneOf(q)
        /\ \A i \in DOMAIN events' : events'[i] = events[i + 1]
    BY <2>1, EventTaken
  <2>3. view' = IF e.request \in mRequests
                  THEN [view EXCEPT ![e.request] = Put(@, e.data, rows)] ELSE view
    BY <1>7 DEF OnNewData, IsKnownRequest
  <2> HIDE DEF e
  <2>4. 1 \notin Emitted(s)
    BY <2>2 DEF Emitted
  <2>5. Settled(q, s)
    BY <1>6, <2>1, <2>4
  <2>6. RowsOK(q, s) /\ QueryOK(q)
    BY <1>0, <2>1, <2>5
  <2>7. CASE q = e.request
    <3>1. 1 \in NewDataOf(q)
      BY <2>2, <2>7 DEF NewDataOf
    <3>2. 2 \in DoneOf(q) /\ DoneOf(q) = {2}
      <4>1. 1 + 1 \in DoneOf(q)
        BY <2>6, <3>1 DEF QueryOK
      <4> QED  BY <2>6, <4>1 DEF QueryOK
    <3>3. NewDataOf(q)' = {}
      <4>1. ASSUME NEW i \in NewDataOf(q)' PROVE FALSE
        <5>1. i \in Nat \ {0} /\ (i + 1) + 1 \in DoneOf(q)
          BY <2>2, <2>6, <4>1 DEF QueryOK
        <5>2. (i + 1) + 1 = 2
          BY <3>2, <5>1
        <5> QED  BY <5>1, <5>2
      <4> QED  BY <4>1
    <3>4. task[q] = "done" /\ answers[q] = << >>
      BY <2>6, <3>2 DEF QueryOK
    <3>5. view'[q][s] = Over(e.data[s], view[q][s])
      <4>1. view'[q] = Put(view[q], e.data, rows)
        BY <2>1, <2>3, <2>7 DEF TypeInv
      <4> QED  BY <4>1 DEF Put, Over
    <3>6. Succeeded(q)' => events[1 + 1].error = FALSE
      <4>1. ASSUME NEW i \in DoneOf(q)', events'[i].error = FALSE PROVE events[1 + 1].error = FALSE
        <5>1. i \in Nat \ {0} /\ i + 1 = 2 /\ events'[i] = events[i + 1]
          BY <2>2, <3>2, <4>1 DEF DoneOf
        <5> QED  BY <4>1, <5>1
      <4>2. answers'[q] # << FALSE >>
        BY <2>1, <3>4
      <4> QED  BY <4>1, <4>2 DEF Succeeded
    <3>7. Succeeded(q)' => Fine(q, s, view'[q][s])
      BY <2>2, <2>6, <3>1, <3>5, <3>6 DEF RowsOK
    <3> QED  BY <2>1, <3>3, <3>4, <3>7 DEF RowsOK, Fine
  <2>8. CASE q # e.request
    <3>1. 1 \notin NewDataOf(q) /\ 1 \notin DoneOf(q)
      BY <2>2, <2>8 DEF NewDataOf, DoneOf
    <3>2. view'[q] = view[q]
      BY <2>1, <2>3, <2>8 DEF TypeInv
    <3> QED  BY <2>1, <2>6, <3>1, <3>2, RowsMove
  <2> QED  BY <2>7, <2>8
<1>8. ASSUME OnDone PROVE DataInv'
  <2> SUFFICES ASSUME NEW q \in mRequests', NEW s \in Sensor, Settled(q, s)'
               PROVE  RowsOK(q, s)'
    BY DEF DataInv
  <2> DEFINE e == Head(events)
  <2>1. /\ UNCHANGED << mRequests, mSignalQueue, db, task, mData, view, unheard, overtaken >>
        /\ TakeEvent("queryDone") /\ q \in mRequests /\ q \in Request
    BY <1>8 DEF OnDone, lags, taskVars, TypeInv
  <2>2. /\ 1 \in DOMAIN events /\ events[1] = e /\ e.kind = "queryDone" /\ e \in Event
        /\ \A i : i \in NewDataOf(q)' <=> i \in Nat \ {0} /\ i + 1 \in NewDataOf(q)
        /\ \A i : i \in DoneOf(q)' <=> i \in Nat \ {0} /\ i + 1 \in DoneOf(q)
    BY <2>1, EventTaken
  <2>3. answers' = IF e.request \in mRequests
                     THEN [answers EXCEPT ![e.request] = Append(@, e.error)] ELSE answers
    BY <1>8 DEF OnDone, IsKnownRequest
  <2> HIDE DEF e
  <2>4. 1 \notin Emitted(s)
    BY <2>2 DEF Emitted
  <2>5. Settled(q, s)
    BY <1>6, <2>1, <2>4
  <2>6. RowsOK(q, s) /\ QueryOK(q)
    BY <1>0, <2>1, <2>5
  <2>7. CASE q = e.request
    <3>1. DoneOf(q) = {1}
      <4>1. 1 \in DoneOf(q)
        BY <2>2, <2>7 DEF DoneOf
      <4> QED  BY <2>6, <4>1 DEF QueryOK
    <3>2. NewDataOf(q) = {}
      <4>1. ASSUME NEW i \in NewDataOf(q) PROVE FALSE
        <5>1. i \in Nat \ {0} /\ i + 1 = 1
          BY <2>6, <3>1, <4>1 DEF QueryOK, NewDataOf, TypeInv
        <5> QED  BY <5>1
      <4> QED  BY <4>1
    <3>3. NewDataOf(q)' = {}
      BY <2>2, <3>2
    <3>4. DoneOf(q)' = {}
      BY <2>2, <3>1
    <3>5. task[q] = "done" /\ answers[q] = << >>
      BY <2>6, <3>1 DEF QueryOK
    <3>6. answers'[q] = << e.error >>
      <4>1. answers'[q] = Append(answers[q], e.error)
        BY <2>1, <2>3, <2>7 DEF TypeInv
      <4> QED  BY <3>5, <4>1
    <3>7. Succeeded(q)' => e.error = FALSE
      <4>1. answers'[q] = << FALSE >> => answers'[q][1] = FALSE
        OBVIOUS
      <4>2. answers'[q][1] = e.error
        BY <3>6
      <4> QED  BY <3>4, <4>1, <4>2 DEF Succeeded
    <3>8. e.error = FALSE => Succeeded(q)
      BY <2>2, <3>1 DEF Succeeded
    <3>9. Succeeded(q)' => Fine(q, s, view[q][s])
      BY <2>6, <3>2, <3>7, <3>8 DEF RowsOK
    <3> QED  BY <2>1, <3>3, <3>5, <3>9 DEF RowsOK, Fine
  <2>8. CASE q # e.request
    <3>1. 1 \notin NewDataOf(q) /\ 1 \notin DoneOf(q)
      BY <2>2, <2>8 DEF NewDataOf, DoneOf
    <3>2. answers'[q] = answers[q]
      BY <2>1, <2>3, <2>8 DEF TypeInv
    <3> QED  BY <2>1, <2>6, <3>1, <3>2, RowsMove
  <2> QED  BY <2>7, <2>8
<1>9. ASSUME OnUpdated PROVE DataInv'
  <2> SUFFICES ASSUME NEW q \in mRequests', NEW s \in Sensor, Settled(q, s)'
               PROVE  RowsOK(q, s)'
    BY DEF DataInv
  <2> DEFINE e == Head(events)
             data == [x \in Sensor |-> e.value]
             T == Told(q, {e.sensor}, data, {})
  <2>1. /\ UNCHANGED << mRequests, mSignalQueue, db, task, mData, answers, unheard >>
        /\ TakeEvent("updated") /\ q \in mRequests /\ q \in Request
    BY <1>9 DEF OnUpdated, taskVars, TypeInv
  <2>2. /\ 1 \in DOMAIN events /\ events[1] = e /\ e.kind = "updated" /\ e \in Event
        /\ \A i : i \in NewDataOf(q)' <=> i \in Nat \ {0} /\ i + 1 \in NewDataOf(q)
        /\ \A x, i : i \in Emitted(x)' <=> i \in Nat \ {0} /\ i + 1 \in Emitted(x)
    BY <2>1, EventTaken
  <2>3. /\ view'[q] = Put(view[q], data, T)
        /\ overtaken'[q] = IF RowsUnderway(q) THEN overtaken[q] \cup {e.sensor}
                                              ELSE overtaken[q] \ T
    BY <1>9, <2>1 DEF OnUpdated, Distribute, Receivers
  <2>4. T = {x \in {e.sensor} : Covers(q, x)}
    BY DEF Told
  <2>5. data[s] = e.value
    OBVIOUS
  <2> HIDE DEF e, data, T
  <2>6. CASE s # e.sensor
    <3>1. 1 \notin Emitted(s) /\ 1 \notin NewDataOf(q) /\ 1 \notin DoneOf(q)
      BY <2>2, <2>6 DEF Emitted, NewDataOf, DoneOf
    <3>2. s \in overtaken[q] => s \in overtaken'[q]
      BY <2>3, <2>4, <2>6
    <3>3. Settled(q, s)
      BY <1>6, <2>1, <3>1, <3>2
    <3>4. view'[q][s] = view[q][s]
      BY <2>3, <2>4, <2>6 DEF Put
    <3> QED  BY <1>0, <2>1, <3>1, <3>3, <3>4, RowsMove
  <2>7. CASE s = e.sensor
    <3>1. Queued(s) = {}
      BY <2>1 DEF Settled, Underway, Queued
    <3>2. Latest(1, Emitted(s))
      <4>1. 1 \in Emitted(s)
        BY <2>2, <2>7 DEF Emitted
      <4>2. ASSUME NEW i \in Emitted(s) PROVE i <= 1
        <5>1. i \in Nat \ {0}
          BY PlacesAre
        <5>2. i # 1 => i - 1 \in Nat \ {0} /\ (i - 1) + 1 = i
          BY <5>1
        <5>3. i # 1 => i - 1 \in Emitted(s)'
          BY <2>2, <4>2, <5>2
        <5>4. i = 1
          BY <5>3 DEF Settled, Underway
        <5> QED  BY <5>4
      <4> QED  BY <4>1, <4>2 DEF Latest
    <3>3. EndsWith(s, db[s])
      BY <2>1 DEF PendingInv, Known, Settled
    <3>4. e.value = db[s]
      BY <2>2, <3>1, <3>2, <3>3 DEF EndsWith
    <3>5. ~RowsUnderway(q)
      BY <2>3, <2>7 DEF Settled
    <3>6. task[q] # "read" /\ NewDataOf(q) = {}
      BY <2>1, <3>5 DEF RowsUnderway, NewDataOf
    <3>7. NewDataOf(q)' = {}
      BY <2>2, <3>6
    <3>8. view'[q][s] = e.value
      <4>1. s \in T
        BY <2>4, <2>7 DEF Settled
      <4> QED  BY <2>3, <2>5, <4>1 DEF Put
    <3> QED  BY <2>1, <3>4, <3>6, <3>7, <3>8, RowsShown
  <2> QED  BY <2>6, <2>7
<1>10. ASSUME KvData PROVE DataInv'
  <2> SUFFICES ASSUME NEW q \in mRequests', NEW s \in Sensor, Settled(q, s)'
               PROVE  RowsOK(q, s)'
    BY DEF DataInv
  <2> DEFINE u == Head(mSignalQueue)
  <2>1. /\ UNCHANGED << mRequests, db, task, mData, view, answers, overtaken >>
        /\ q \in mRequests /\ q \in Request
    BY <1>10 DEF KvData, taskVars, clients, TypeInv
  <2>2. mSignalQueue # << >> /\ mSignalQueue' = Tail(mSignalQueue)
    BY <1>10 DEF KvData
  <2>3. /\ DOMAIN mSignalQueue = 1 .. Len(mSignalQueue) /\ Len(mSignalQueue) \in Nat \ {0}
        /\ mSignalQueue[1] = u /\ u \in Signal
        /\ DOMAIN mSignalQueue' = 1 .. Len(mSignalQueue) - 1
        /\ \A i \in 1 .. Len(mSignalQueue) - 1 : mSignalQueue'[i] = mSignalQueue[i + 1]
    BY <2>2, TailIs DEF TypeInv
  <2>4. /\ subscription # {} => /\ unheard' = unheard
                                /\ events' = Append(events, [kind |-> "updated",
                                               sensor |-> u.sensor, value |-> u.value])
        /\ subscription = {} => events' = events
        /\ subscription = {} /\ s \in unheard[q] => s \in unheard'[q]
        /\ subscription = {} /\ Queued(u.sensor) = {1} => u.sensor \in unheard'[q]
    BY <1>10, <2>1 DEF KvData
  <2> HIDE DEF u
  <2>5. \A i \in Queued(s) : i = 1
    <3>1. ASSUME NEW i \in Queued(s), i # 1 PROVE FALSE
      <4>1. i \in 1 .. Len(mSignalQueue) /\ mSignalQueue[i].sensor = s
        BY <2>3, <3>1 DEF Queued
      <4>2. i - 1 \in 1 .. Len(mSignalQueue) - 1 /\ (i - 1) + 1 = i
        BY <2>3, <3>1, <4>1
      <4>3. i - 1 \in Queued(s)'
        BY <2>3, <4>1, <4>2 DEF Queued
      <4> QED  BY <4>3 DEF Settled, Underway
    <3> QED  BY <3>1
  <2>6. s # u.sensor
    <3> SUFFICES ASSUME s = u.sensor PROVE FALSE
      OBVIOUS
    <3>1. Queued(s) = {1}
      BY <2>3, <2>5 DEF Queued
    <3>2. CASE subscription # {}
      <4>1. Emitted(s)' # {}
        BY <2>3, <2>4, <3>2, EventsEmitted
      <4> QED  BY <4>1 DEF Settled, Underway
    <3>3. CASE subscription = {}
      BY <2>4, <3>1, <3>3 DEF Settled
    <3> QED  BY <3>2, <3>3
  <2>7. Queued(s) = {}
    <3>1. 1 \notin Queued(s)
      BY <2>3, <2>6 DEF Queued
    <3> QED  BY <2>5, <3>1
  <2>8. /\ NewDataOf(q)' = NewDataOf(q) /\ DoneOf(q)' = DoneOf(q) /\ Emitted(s)' = Emitted(s)
        /\ \A i \in NewDataOf(q) \cup DoneOf(q) : events'[i] = events[i]
    <3>1. CASE subscription # {}
      <4>1. NewDataOf(q) \cup DoneOf(q) \subseteq DOMAIN events
        BY DEF NewDataOf, DoneOf
      <4> QED  BY <2>3, <2>4, <2>6, <3>1, <4>1, EventsEmitted
    <3>2. CASE subscription = {}
      BY <2>4, <3>2 DEF NewDataOf, DoneOf, Emitted
    <3> QED  BY <3>1, <3>2
  <2>9. Settled(q, s)
    BY <2>1, <2>4, <2>7, <2>8 DEF Settled, Underway
  <2> QED  BY <1>0, <2>1, <2>8, <2>9, RowsStay
<1>11. ASSUME NEW r \in Request, NEW S \in SUBSET Sensor, NEW v \in Value, StoreUpdates(r, S, v)
       PROVE  DataInv'
  <2> SUFFICES ASSUME NEW q \in mRequests', NEW s \in Sensor, Settled(q, s)'
               PROVE  RowsOK(q, s)'
    BY DEF DataInv
  <2> DEFINE data == [x \in Sensor |-> v]
             created == {x \in S : view[r][x] = NoData}
             lost == [p \in Request |->
               {x \in Sensor : Underway(x) \/ (x \in created /\ view[p][x] # NoData)}]
             T == Told(q, S, data, created)
  <2>1. /\ UNCHANGED << mRequests, events, task, mData, answers >>
        /\ q \in mRequests /\ q \in Request
    BY <1>11 DEF StoreUpdates, taskVars, TypeInv
  <2>2. Changed(S, data, lost) /\ Distribute(S, data, created)
    BY <1>11 DEF StoreUpdates
  <2>3. /\ view'[q] = Put(view[q], data, T)
        /\ overtaken'[q] = IF RowsUnderway(q) THEN overtaken[q] \cup S ELSE overtaken[q] \ T
    BY <2>1, <2>2 DEF Distribute, Receivers
  <2>4. T = {x \in S : Covers(q, x) /\ (x \in created => v \in Accepts[q])}
    BY DEF Told
  <2>5. s \in lost[q] <=> Underway(s) \/ (s \in created /\ view[q][s] # NoData)
    BY <2>1
  <2>6. data[s] = v
    OBVIOUS
  <2> HIDE DEF lost, T, created
  <2>7. ChangeSeen(S, v, lost, q, s)
    BY <2>1, <2>2, ChangedShows DEF data
  <2> HIDE DEF data
  <2>8. NewDataOf(q)' = NewDataOf(q) /\ DoneOf(q)' = DoneOf(q)
    BY <2>1 DEF NewDataOf, DoneOf
  <2>9. CASE s \notin S
    <3>1. s \notin T
      BY <2>4, <2>9
    <3>2. Settled(q, s)
      BY <2>3, <2>7, <2>9, <3>1 DEF Settled, ChangeSeen
    <3>3. view'[q][s] = view[q][s]
      BY <2>3, <3>1 DEF Put
    <3>4. db'[s] = db[s]
      BY <2>7, <2>9 DEF ChangeSeen
    <3> QED  BY <1>0, <2>1, <2>8, <3>2, <3>3, <3>4, RowsStay
  <2>10. CASE s \in S
    <3>1. s \notin lost[q]
      BY <2>7, <2>10 DEF Settled, ChangeSeen
    <3>2. ~RowsUnderway(q)
      BY <2>3, <2>10 DEF Settled
    <3>3. task[q] # "read" /\ NewDataOf(q) = {}
      BY <2>1, <3>2 DEF RowsUnderway, NewDataOf
    <3>4. CASE s \in T
      <4>1. view'[q][s] = db'[s]
        BY <2>3, <2>6, <2>7, <2>10, <3>4 DEF Put, ChangeSeen
      <4> QED  BY <2>1, <2>8, <3>3, <4>1, RowsShown
    <3>5. CASE s \notin T
      <4>1. s \in created /\ v \notin Accepts[q]
        BY <2>4, <2>10, <3>5 DEF Settled
      <4>2. view'[q][s] = NoData
        BY <2>3, <2>5, <3>1, <3>5, <4>1 DEF Put
      <4>3. db'[s] = v
        BY <2>7, <2>10 DEF ChangeSeen
      <4> QED  BY <2>1, <2>8, <3>3, <4>1, <4>2, <4>3, RowsShown
    <3> QED  BY <3>4, <3>5
  <2> QED  BY <2>9, <2>10
<1>12. ASSUME NEW x \in Changing, NEW v \in Value, DbChange(x, v) PROVE DataInv'
  <2> SUFFICES ASSUME NEW q \in mRequests', NEW s \in Sensor, Settled(q, s)'
               PROVE  RowsOK(q, s)'
    BY DEF DataInv
  <2> DEFINE lost == [r \in Request |-> {y \in Sensor : r \in mRequests \/ Underway(y)}]
  <2>1. /\ UNCHANGED << mRequests, events, task, mData, answers, view, overtaken >>
        /\ q \in mRequests /\ q \in Request
    BY <1>12 DEF DbChange, taskVars, clients, TypeInv
  <2>2. Changed({x}, [y \in Sensor |-> v], lost) /\ {x} \in SUBSET Sensor
    BY <1>12, KvalobsAssumption DEF DbChange
  <2>3. s \in lost[q]
    BY <2>1
  <2> HIDE DEF lost
  <2>4. ChangeSeen({x}, v, lost, q, s)
    BY <2>1, <2>2, ChangedShows
  <2>5. s \notin {x}
    BY <2>3, <2>4 DEF Settled, ChangeSeen
  <2>6. Settled(q, s) /\ db'[s] = db[s]
    BY <2>1, <2>4, <2>5 DEF Settled, ChangeSeen
  <2>7. NewDataOf(q)' = NewDataOf(q) /\ DoneOf(q)' = DoneOf(q)
    BY <2>1 DEF NewDataOf, DoneOf
  <2> QED  BY <1>0, <2>1, <2>6, <2>7, RowsStay
<1>13. ASSUME DoReSubscribe \/ Subscribe \/ UNCHANGED vars PROVE DataInv'
  <2> SUFFICES ASSUME NEW q \in mRequests', NEW s \in Sensor, Settled(q, s)'
               PROVE  RowsOK(q, s)'
    BY DEF DataInv
  <2>1. UNCHANGED << mRequests, events, mSignalQueue, db, task, mData, view, answers,
                     unheard, overtaken >>
    BY <1>13 DEF DoReSubscribe, Subscribe, SubscribeData, vars, taskVars, clients, lags
  <2> QED  BY <1>1, <2>1
<1> QED  BY <1>2, <1>3, <1>4, <1>5, <1>7, <1>8, <1>9, <1>10, <1>11, <1>12, <1>13
         DEF Next, WorkerStep, EventStep

-----------------------------------------------------------------------------
(* The invariant of all of it. *)
IInv == TypeInv /\ QueryInv /\ SubscriptionInv /\ PendingInv /\ DataInv

(* It holds in every reachable state: each part from its own lemma. *)
THEOREM KvalobsInductive == Spec => []IInv
<1>1. Init => IInv
  <2>1. Init => TypeInv
    <3> SUFFICES ASSUME Init PROVE TypeInv
      OBVIOUS
    <3>1. /\ mRequests \subseteq Request /\ subscription \subseteq Station
          /\ task \in [Request -> {"none", "queued", "read", "failed", "done"}]
          /\ mSubscribedStations \in [Station -> Nat]
          /\ mResubscribeTimer \in BOOLEAN /\ inReSubscribe \in BOOLEAN /\ refused \in BOOLEAN
      BY DEF Init
    <3>2. mSignalQueue \in Seq(Signal) /\ events \in Seq(Event)
      BY DEF Init
    <3>3. answers \in [Request -> Seq(BOOLEAN)]
      BY DEF Init
    <3>4. db \in Data
      BY KvalobsAssumption DEF Init, Data
    <3>5. mData \in [Request -> Data] /\ view \in [Request -> Data]
      BY DataTypes DEF Init
    <3>6. unheard \in [Request -> SUBSET Sensor] /\ overtaken \in [Request -> SUBSET Sensor]
      BY DEF Init
    <3> QED  BY <3>1, <3>2, <3>3, <3>4, <3>5, <3>6 DEF TypeInv
  <2> QED  BY <2>1, InitQueries, InitSubscription, InitPending, InitData DEF IInv
<1>2. IInv /\ [Next]_vars => IInv'
  BY TypeKeeps, QueryKeeps, SubscriptionKeeps, PendingKeeps, DataKeeps DEF IInv
<1> QED  BY <1>1, <1>2, PTL DEF Spec

(* The last of some places. *)
LEMMA LatestIs ==
  ASSUME NEW n \in Nat, NEW at \in SUBSET (1 .. n), at # {}
  PROVE  Latest(CHOOSE i \in at : \A k \in at : k <= i, at)
<1> DEFINE R == {p \in Nat \X Nat : p[1] < p[2]}
           D == {m \in Nat : \E i \in at : m = n - i}
<1>1. IsWellFoundedOn(R, Nat)
  <2>1. R = OpToRel(<, Nat)
    BY DEF OpToRel
  <2> QED  BY <2>1, NatLessThanWellFounded
<1>2. D \subseteq Nat /\ D # {}
  <2>1. PICK i \in at : TRUE
    OBVIOUS
  <2>2. n - i \in D
    OBVIOUS
  <2> QED  BY <2>2
<1>3. PICK m \in D : \A j \in D : ~ (<< j, m >> \in R)
  <2> HIDE DEF R, D
  <2> QED  BY <1>1, <1>2, WFMin
<1>4. PICK i \in at : m = n - i
  OBVIOUS
<1>5. ASSUME NEW k \in at PROVE k <= i
  <2>1. n - k \in D /\ n - k \in Nat /\ i \in Nat /\ k \in Nat
    OBVIOUS
  <2>2. ~ (n - k < n - i)
    BY <1>2, <1>3, <1>4, <2>1
  <2> QED  BY <2>1, <2>2
<1>6. \E j \in at : \A k \in at : k <= j
  BY <1>5
<1> QED  BY <1>6 DEF Latest

(* Whatever the order of rows, updates and own saves: when all that is     *)
(* underway has been told, the client of an answered request shows what    *)
(* the database holds (KvalobsAccess.cc, DistributeUpdates.hh).            *)
THEOREM ViewsCatchUp == Spec => []ViewCatchesUp
<1>1. IInv => ViewCatchesUp
  <2> SUFFICES ASSUME IInv, NEW r \in Answered, NEW s \in HeardBy(r) \ overtaken[r]
               PROVE  Agrees(r, s)
    BY DEF ViewCatchesUp
  <2>1. /\ r \in mRequests /\ r \in Request /\ answers[r] = << FALSE >>
        /\ s \in Sensor /\ Covers(r, s) /\ s \notin unheard[r] /\ s \notin overtaken[r]
    BY DEF Answered, HeardBy, IInv, TypeInv
  <2>2. EndsWith(s, db[s])
    BY <2>1 DEF IInv, PendingInv, Known
  <2>3. /\ Queued(s) \in SUBSET (1 .. Len(mSignalQueue)) /\ Len(mSignalQueue) \in Nat
        /\ Emitted(s) \in SUBSET (1 .. Len(events)) /\ Len(events) \in Nat
    BY PlacesAre DEF IInv
  <2>4. CASE Queued(s) # {}
    <3>1. Newest(mSignalQueue, Queued(s)) = db[s]
      BY <2>2, <2>3, <2>4, LatestIs DEF EndsWith, Newest
    <3> QED  BY <2>4, <3>1 DEF Agrees, Finally
  <2>5. CASE Queued(s) = {} /\ Emitted(s) # {}
    <3>1. Newest(events, Emitted(s)) = db[s]
      BY <2>2, <2>3, <2>5, LatestIs DEF EndsWith, Newest
    <3> QED  BY <2>5, <3>1 DEF Agrees, Finally
  <2>6. CASE Queued(s) = {} /\ Emitted(s) = {}
    <3>1. RowsOK(r, s)
      BY <2>1, <2>6 DEF IInv, DataInv, Settled, Underway
    <3>2. DoneOf(r) = {} /\ NewDataOf(r) = {}
      BY <2>1 DEF IInv, QueryInv, QueryOK
    <3>3. Fine(r, s, view[r][s])
      BY <2>1, <3>1, <3>2 DEF RowsOK, Succeeded
    <3> QED  BY <2>6, <3>3 DEF Agrees, Finally, Fine
  <2> QED  BY <2>4, <2>5, <2>6
<1> QED  BY <1>1, KvalobsInductive, PTL

(* When the timer has fired and the service did not refuse, it tells of    *)
(* the stations of the requests that there are, of no more and no fewer    *)
(* (counting_set and doReSubscribe in KvalobsUpdateListener.cc).           *)
THEOREM SubscriptionsFollow == Spec => []SubscribedForRequests
<1>1. IInv => SubscribedForRequests
  <2> SUFFICES ASSUME IInv, ~mResubscribeTimer, ~inReSubscribe, ~refused
               PROVE  subscription = UNION {StationsOf(r) : r \in mRequests}
    BY DEF SubscribedForRequests
  <2>1. subscription = Subscribed /\ IsFiniteSet(mRequests) /\ mRequests \subseteq Request
    BY DEF IInv, SubscriptionInv, TypeInv
  <2>2. ASSUME NEW n \in Station
        PROVE  mSubscribedStations[n] > 0 <=> \E r \in mRequests : n \in StationsOf(r)
    <3> DEFINE A == UsesBy(mRequests, n)
    <3>1. mSubscribedStations[n] = Cardinality(A)
      BY <2>2 DEF IInv, SubscriptionInv
    <3>2. IsFiniteSet(A)
      <4>1. IsFiniteSet(mRequests \X Sensor) /\ A \subseteq mRequests \X Sensor
        BY <2>1, KvalobsAssumption, FS_Product DEF UsesBy
      <4> QED  BY <4>1, FS_Subset
    <3>3. Cardinality(A) \in Nat /\ (Cardinality(A) = 0 <=> A = {})
      BY <3>2, FS_CardinalityType, FS_EmptySet
    <3>4. A # {} <=> \E r \in mRequests : n \in StationsOf(r)
      <4>1. \A p : p \in A <=> p \in mRequests \X Sensor /\ p[2] \in Sensors[p[1]] \cap Sensor
                               /\ stationId[p[2]] = n
        BY DEF UsesBy, SensorsAt
      <4>2. ASSUME NEW p \in A PROVE \E r \in mRequests : n \in StationsOf(r)
        BY <4>1, <4>2 DEF StationsOf
      <4>3. ASSUME NEW r \in mRequests, NEW s \in Sensors[r] \cap Sensor, n = stationId[s]
            PROVE  A # {}
        <5>1. << r, s >> \in A
          BY <4>1, <4>3
        <5> QED  BY <5>1
      <4> HIDE DEF A
      <4> QED  BY <4>2, <4>3 DEF StationsOf
    <3> HIDE DEF A
    <3> QED  BY <3>1, <3>3, <3>4
  <2>3. \A r \in mRequests : StationsOf(r) \subseteq Station
    BY KvalobsAssumption DEF StationsOf
  <2> QED  BY <2>1, <2>2, <2>3 DEF Subscribed
<1> QED  BY <1>1, KvalobsInductive, PTL

(* No step calls the client of a request that has been dropped, or that is *)
(* not posted yet, though its rows may wait in the event queue (onNewData  *)
(* and onDone of QueryTaskAccess.cc look for it).                          *)
THEOREM DroppedIsQuiet == Spec => DroppedStaysQuiet
<1> DEFINE Quiet == \A r \in Request \ mRequests : view'[r] = view[r] /\ answers'[r] = answers[r]
<1>1. IInv /\ [Next]_vars => [Quiet]_vars
  <2> SUFFICES ASSUME IInv, Next, NEW r \in Request \ mRequests
               PROVE  view'[r] = view[r] /\ answers'[r] = answers[r]
    OBVIOUS
  <2>1. TypeInv
    BY DEF IInv
  <2>2. ASSUME NEW q \in Request, PostRequest(q) \/ WorkerRun(q) \/ WorkerDone(q)
        PROVE  UNCHANGED clients
    BY <2>2 DEF PostRequest, WorkerRun, WorkerDone
  <2>3. ASSUME NEW q \in Request, DropRequest(q)
        PROVE  view'[r] = view[r] /\ answers'[r] = answers[r]
    BY <2>1, <2>3 DEF DropRequest, TypeInv
  <2>4. ASSUME NEW S, NEW data, NEW created, Distribute(S, data, created) PROVE view'[r] = view[r]
    BY <2>4 DEF Distribute, Receivers
  <2>5. ASSUME NEW q \in Request, NEW S \in SUBSET Sensor, NEW v \in Value, StoreUpdates(q, S, v)
        PROVE  view'[r] = view[r] /\ answers'[r] = answers[r]
    BY <2>4, <2>5 DEF StoreUpdates
  <2>6. ASSUME OnUpdated PROVE view'[r] = view[r] /\ answers'[r] = answers[r]
    BY <2>4, <2>6 DEF OnUpdated
  <2>7. ASSUME OnNewData PROVE view'[r] = view[r] /\ answers'[r] = answers[r]
    BY <2>1, <2>7 DEF OnNewData, IsKnownRequest, TypeInv
  <2>8. ASSUME OnDone PROVE view'[r] = view[r] /\ answers'[r] = answers[r]
    BY <2>1, <2>8 DEF OnDone, IsKnownRequest, TypeInv
  <2>9. ASSUME DoReSubscribe \/ Subscribe \/ KvData \/ \E s \in Changing, v \in Value : DbChange(s, v)
        PROVE  UNCHANGED clients
    BY <2>9 DEF DoReSubscribe, Subscribe, SubscribeData, KvData, DbChange
  <2> QED  BY <2>2, <2>3, <2>5, <2>6, <2>7, <2>8, <2>9 DEF Next, WorkerStep, EventStep, clients
<1> QED  BY <1>1, KvalobsInductive, PTL DEF Spec, DroppedStaysQuiet
=============================================================================
