-------------------------------- MODULE ModelData --------------------------------
(***************************************************************************)
(* Model values (KvalobsModelAccess, ModelQueryTask, ModelBuffer).  The    *)
(* access keeps what kvalobs answered, and an empty entry for whatever was *)
(* ever asked, so that a value that is missing is looked up only once.     *)
(* Columns and plots ask through a buffer with one request at a time.  A   *)
(* chunk of rows that is already in the event queue of the GUI thread is   *)
(* delivered to the access even when its request has been dropped.         *)
(***************************************************************************)
EXTENDS Integers

CONSTANTS
  Buffers,     \* one per column or plot, and those of getSync
  Wanted,      \* the sensor times asked for
  InKvalobs    \* those of Wanted kvalobs has a model value for

VARIABLES
  found,       \* KvalobsModelAccess::mCache: "null" or "value" of what was asked
  buffers,     \* of every buffer: cache, pending, and the query of its request
  queued,      \* chunks of dropped requests still in the event queue
  lost         \* (history) asked by a query that was dropped or failed

modelVars == << found, buffers, queued, lost >>

Idle  == {}    \* the request of a buffer is null
Fresh == [cache |-> {}, pending |-> {}, query |-> Idle, waits |-> FALSE]

Init ==
  /\ found = << >>
  /\ buffers = [b \in Buffers |-> Fresh]
  /\ queued = {}
  /\ lost = {}

(* postRequest: what is known is given at once, what was asked before is   *)
(* neither asked nor given, the rest is queried.  Without a query the      *)
(* request is complete before postRequest returns.                         *)
Given(pending, known)  == {st \in pending \cap DOMAIN known : known[st] = "value"}
Placed(pending, known) == [st \in DOMAIN known \cup pending |->
                            IF st \in DOMAIN known THEN known[st] ELSE "null"]
Posted(buffer, known) ==
  [buffer EXCEPT !.cache = @ \cup Given(buffer.pending, known),
                 !.query = buffer.pending \ DOMAIN known, !.pending = {}]
Known(rows) == [st \in DOMAIN found \cup rows |-> IF st \in rows THEN "value" ELSE found[st]]

(* data of a column or a plot: what the buffer lacks is noted, and posted  *)
(* when no request runs.                                                   *)
Get(b, st) ==
  LET noted == [buffers[b] EXCEPT !.pending = @ \cup {st}]
      posts == noted.query = Idle IN
  /\ st \notin buffers[b].cache
  /\ ~buffers[b].waits
  /\ buffers' = [buffers EXCEPT ![b] = IF posts THEN Posted(noted, found) ELSE noted]
  /\ found' = IF posts THEN Placed(noted.pending, found) ELSE found
  /\ UNCHANGED << queued, lost >>

(* getSync of a buffer made for one observation (accept model value): it   *)
(* waits only for what the access has not been asked before.               *)
GetSync(b, st) ==
  /\ buffers[b] = Fresh
  /\ st \notin DOMAIN found
  /\ buffers' = [buffers EXCEPT ![b].query = {st}, ![b].waits = TRUE]
  /\ found' = Placed({st}, found)
  /\ UNCHANGED << queued, lost >>

(* The query ends: its rows come in chunks, and after an error those since *)
(* the last full chunk are forgotten.  The request is dropped and, if      *)
(* something was noted meanwhile, the next one posted.                     *)
QueryDone(b, rows, failed) ==
  LET got   == rows \cap buffers[b].query \cap InKvalobs
      done  == [buffers[b] EXCEPT !.cache = @ \cup got, !.query = Idle] IN
  /\ buffers[b].query # Idle
  /\ failed \/ got = buffers[b].query \cap InKvalobs
  /\ found' = Placed(done.pending, Known(got))
  /\ buffers' = [buffers EXCEPT ![b] = IF done.waits THEN Fresh ELSE Posted(done, Known(got))]
  /\ lost' = IF failed THEN lost \cup (buffers[b].query \ got) ELSE lost
  /\ UNCHANGED queued

(* ~ModelBuffer and dropRequest of the access: nothing is cached of a      *)
(* query that is dropped, except what is in the event queue already.       *)
Remove(b, rows) ==
  LET late == rows \cap buffers[b].query \cap InKvalobs IN
  /\ ~buffers[b].waits
  /\ buffers[b] # Fresh
  /\ buffers' = [buffers EXCEPT ![b] = Fresh]
  /\ queued' = queued \cup late
  /\ lost' = lost \cup (buffers[b].query \ late)
  /\ UNCHANGED found

LateChunk ==
  /\ queued # {}
  /\ found' = Known(queued)
  /\ queued' = {}
  /\ UNCHANGED << buffers, lost >>

(* clear: the time series takes another sensor or time span.               *)
Clear(b) ==
  /\ buffers[b].cache # {} \/ buffers[b].pending # {}
  /\ buffers' = [buffers EXCEPT ![b].cache = {}, ![b].pending = {}]
  /\ UNCHANGED << found, queued, lost >>

Next ==
  \/ \E b \in Buffers, st \in Wanted : Get(b, st)
  \/ \E b \in Buffers, st \in Wanted : GetSync(b, st)
  \/ \E b \in Buffers, rows \in SUBSET InKvalobs, failed \in BOOLEAN : QueryDone(b, rows, failed)
  \/ \E b \in Buffers, rows \in SUBSET InKvalobs : Remove(b, rows)
  \/ LateChunk
  \/ \E b \in Buffers : Clear(b)

-----------------------------------------------------------------------------
(* An empty entry of the access for a value kvalobs has is being fetched,  *)
(* or its query was dropped or failed: no other order of requests, answers *)
(* and removals of columns makes a model value disappear for good.  And no *)
(* question waits behind a request that has ended.                         *)
NoValueForgotten ==
  /\ \A st \in DOMAIN found \cap InKvalobs :
       found[st] = "null" => \/ \E b \in Buffers : st \in buffers[b].query
                             \/ st \in queued \cup lost
  /\ \A b \in Buffers : buffers[b].pending # {} => buffers[b].query # Idle
=============================================================================
