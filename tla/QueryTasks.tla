------------------------------ MODULE QueryTasks ------------------------------
(***************************************************************************)
(* The SQL queries of kvhqc: src/src/common/QueryTaskHandler.cc with its   *)
(* worker thread and queue, and the owners of the tasks in the GUI thread  *)
(* (QueryTaskHelper with DeleteTaskWhenDone, BasicSQLTask::deleteWhenDone, *)
(* and tasks on the stack that SyncTask.cc waits for).                     *)
(*                                                                         *)
(* A call in the GUI thread is one action; what it does under mMutex is    *)
(* atomic for the worker as well.  The worker takes one action from one    *)
(* access to shared state to the next.  Signals of a task that the worker  *)
(* emits are queued as events for the GUI thread; those that the           *)
(* destructor of the handler emits are calls.                              *)
(*                                                                         *)
(* External: Qt's event queue (events in order; one for a receiver that is *)
(* deleted by then does nothing; deleteLater happens some time later) and  *)
(* its wait condition (no spurious wakeups).                               *)
(***************************************************************************)
EXTENDS Integers, Sequences, SequencesExt, FiniteSets

CONSTANTS
  Task,       \* the tasks that are created, each at most once
  NoTask,
  Priority,   \* [Task -> Nat]
  Helped,     \* tasks owned by a QueryTaskHelper
  Own,        \* tasks of the DataHistoryTableModel, one at a time
  Stacked     \* tasks on the stack of a caller that waits for them

ASSUME TaskAssumption ==
  /\ IsFiniteSet(Task) /\ NoTask \notin Task
  /\ Priority \in [Task -> Nat]
  /\ Task = Helped \cup Own \cup Stacked
  /\ Helped \cap Own = {} /\ Helped \cap Stacked = {} /\ Own \cap Stacked = {}

VARIABLES
  mQueue,     \* the list of priority_list; its last element is the top
  mDone,      \* QueryTaskThread::mDone: the destructor has begun
  worker,     \* what the worker thread does next
  current,    \* the task it holds
  object,     \* whether the task object exists
  marked,     \* BasicSQLTask::mDone
  wanted,     \* BasicSQLTask::mDeleteWhenDone
  owner,      \* the owner of a task
  deleter,    \* DeleteTaskWhenDone: mDone and mDelete
  events,     \* queued calls of the GUI thread
  deletions,  \* tasks whose deleteLater is not yet done
  loops,      \* tasks that nested event loops wait for, innermost last
  released,   \* those of them whose Synchronizer has its signal
  mHistory,   \* the task whose rows the DataHistoryTableModel shows
  posted,     \* history: the tasks in the order in which they were posted
  dropped,    \* history: tasks for which dropTask returned true
  notified    \* history: how often notifyDone was called

workerVars == << worker, current >>
objectVars == << object, marked, wanted, deletions >>
ownerVars == << owner, deleter >>
guiVars == << events, loops, released, mHistory >>
history == << posted, dropped, notified >>
vars == << mQueue, mDone, workerVars, objectVars, ownerVars, guiVars, history >>

Event == {"deleter", "helper", "model", "sync"} \X Task

TypeOK ==
  /\ mQueue \in Seq(Task) /\ mDone \in {"no", "waiting", "gone"}
  /\ worker \in {"off", "test", "lock", "asleep", "woken", "run", "emit", "mark",
                 "unlock", "ended"}
  /\ current \in Task \cup {NoTask}
  /\ current # NoTask <=> worker \in {"run", "emit", "mark", "unlock"}
  /\ object \in [Task -> {"none", "alive", "deleted"}]
  /\ marked \subseteq Task /\ wanted \subseteq Task /\ deletions \subseteq Task
  /\ owner \in [Task -> {"none", "idle", "posted", "done", "gone"}]
  /\ deleter \in [Task -> [done : BOOLEAN, delete : BOOLEAN]]
  /\ events \in Seq(Event)
  /\ loops \in Seq(Task) /\ released \subseteq Task
  /\ mHistory \in [of : Own \cup {NoTask}, whole : BOOLEAN]
  /\ posted \in Seq(Task) /\ dropped \subseteq Task /\ notified \in [Task -> Nat]

Init ==
  /\ mQueue = << >> /\ mDone = "no"
  /\ worker = "off" /\ current = NoTask
  /\ object = [t \in Task |-> "none"]
  /\ marked = {} /\ wanted = {} /\ deletions = {}
  /\ owner = [t \in Task |-> "none"]
  /\ deleter = [t \in Task |-> [done |-> FALSE, delete |-> FALSE]]
  /\ events = << >> /\ loops = << >> /\ released = {}
  /\ mHistory = [of |-> NoTask, whole |-> TRUE]
  /\ posted = << >> /\ dropped = {} /\ notified = [t \in Task |-> 0]

\* The GUI thread runs until it waits in the destructor of the handler.
GuiFree == mDone = "no"

-----------------------------------------------------------------------------
(* priority_list::push inserts before the first element that is not of     *)
(* lower priority, so that equal ones are taken in the order of posting.   *)
PushLast(queue, t) ==   \* mistake: upper_bound for lower_bound
  LET n == Cardinality({i \in DOMAIN queue : Priority[queue[i]] <= Priority[t]})
  IN  InsertAt(queue, n + 1, t)

Push(queue, t) ==
  LET n == Cardinality({i \in DOMAIN queue : Priority[queue[i]] < Priority[t]})
  IN  InsertAt(queue, n + 1, t)

WakeNone == worker   \* mistake: no wakeOne
WakeOne == IF worker = "asleep" THEN "woken" ELSE worker

(* QueryTaskThread::enqueueTask: the first task starts the thread. *)
Enqueue(queue, t) ==
  /\ mQueue' = Push(queue, t)
  /\ worker' = IF worker = "off" THEN "test" ELSE WakeOne
  /\ posted' = Append(posted, t)

(* QueryTaskThread::unqueueTask, for dropTask, with priority_list::drop *)
Without(queue, t) ==
  IF t \in ToSet(queue)
    THEN RemoveAt(queue, CHOOSE i \in DOMAIN queue : queue[i] = t)
    ELSE queue
Dropped(t) == IF t \in ToSet(mQueue) THEN dropped \cup {t} ELSE dropped

-----------------------------------------------------------------------------
(* The owners.  new QueryTaskHelper(task) *)
CreateHelper(t) ==
  /\ GuiFree /\ t \in Helped /\ owner[t] = "none"
  /\ owner' = [owner EXCEPT ![t] = "idle"]
  /\ object' = [object EXCEPT ![t] = "alive"]
  /\ UNCHANGED << mQueue, mDone, workerVars, marked, wanted, deletions, deleter,
                  guiVars, history >>

(* QueryTaskHelper::post, and with synchronized the nested event loop. *)
PostHelper(t, synchronized) ==
  /\ GuiFree /\ t \in Helped /\ owner[t] = "idle"
  /\ Enqueue(mQueue, t)
  /\ owner' = [owner EXCEPT ![t] = "posted"]
  /\ loops' = IF synchronized THEN Append(loops, t) ELSE loops
  /\ UNCHANGED << mDone, current, objectVars, deleter, events, released, mHistory,
                  dropped, notified >>

(* DeleteTaskWhenDone::enableDelete, and a way to get it wrong. *)
EnableDeleteNow(t) ==   \* mistake: does not wait for the task
  /\ deleter' = [deleter EXCEPT ![t].delete = TRUE]
  /\ deletions' = deletions \cup {t}
EnableDelete(t) ==
  /\ deleter' = [deleter EXCEPT ![t].delete = TRUE]
  /\ deletions' = IF deleter[t].done THEN deletions \cup {t} ELSE deletions

(* QueryTaskHelper::~QueryTaskHelper, drop: dropTask only while the task   *)
(* was posted and is not known to be done.                                 *)
DropHelper(t) ==
  /\ GuiFree /\ t \notin ToSet(loops)
  /\ t \in Helped /\ owner[t] \in {"idle", "posted", "done"}
  /\ IF owner[t] = "posted"
       THEN mQueue' = Without(mQueue, t) /\ dropped' = Dropped(t)
       ELSE UNCHANGED << mQueue, dropped >>
  /\ owner' = [owner EXCEPT ![t] = "gone"]
  /\ EnableDelete(t)
  /\ UNCHANGED << mDone, workerVars, object, marked, wanted, guiVars, posted, notified >>

(* DataHistoryTableModel::dropTask with BasicSQLTask::deleteWhenDone: it   *)
(* waits while the worker has locked the task.                             *)
Held == {t \in Own : owner[t] = "posted"}   \* mTask
ReleaseOwn(t) ==
  /\ ~(worker = "unlock" /\ current = t)
  /\ dropped' = Dropped(t)
  /\ IF t \in marked
       THEN deletions' = deletions \cup {t} /\ UNCHANGED wanted
       ELSE wanted' = wanted \cup {t} /\ UNCHANGED deletions

(* DataHistoryTableModel::showHistory: the task before is dropped first. *)
ShowHistory(t) ==
  /\ GuiFree /\ t \in Own /\ owner[t] = "none"
  /\ IF Held = {}
       THEN /\ Enqueue(mQueue, t)
            /\ owner' = [owner EXCEPT ![t] = "posted"]
            /\ UNCHANGED << wanted, deletions, dropped >>
       ELSE \E u \in Held :
              /\ ReleaseOwn(u)
              /\ Enqueue(Without(mQueue, u), t)
              /\ owner' = [owner EXCEPT ![u] = "gone", ![t] = "posted"]
  /\ object' = [object EXCEPT ![t] = "alive"]
  /\ UNCHANGED << mDone, current, marked, deleter, guiVars, notified >>

(* showHistory for no observation *)
ClearHistory ==
  /\ GuiFree
  /\ \E u \in Held :
       /\ ReleaseOwn(u)
       /\ mQueue' = Without(mQueue, u)
       /\ owner' = [owner EXCEPT ![u] = "gone"]
  /\ mHistory' = [of |-> NoTask, whole |-> TRUE]
  /\ UNCHANGED << mDone, workerVars, object, marked, deleter, events, loops, released,
                  posted, notified >>

(* CachedParamLimits::fetchMetaData: the task is on the stack, syncTask    *)
(* posts it and waits in a nested event loop.                              *)
PostStacked(t) ==
  /\ GuiFree /\ t \in Stacked /\ owner[t] = "none"
  /\ Enqueue(mQueue, t)
  /\ owner' = [owner EXCEPT ![t] = "posted"]
  /\ object' = [object EXCEPT ![t] = "alive"]
  /\ loops' = Append(loops, t)
  /\ UNCHANGED << mDone, current, marked, wanted, deletions, deleter, events,
                  released, mHistory, dropped, notified >>

(* Synchronizer::waitForSignal returns in the innermost loop; a task on    *)
(* the stack is destroyed with the function that declared it.              *)
SyncReturn ==
  /\ GuiFree /\ loops # << >> /\ Last(loops) \in released
  /\ LET t == Last(loops)
     IN  /\ released' = released \ {t}
         /\ IF t \in Stacked
              THEN /\ object' = [object EXCEPT ![t] = "deleted"]
                   /\ owner' = [owner EXCEPT ![t] = "gone"]
              ELSE UNCHANGED << object, owner >>
  /\ loops' = Front(loops)
  /\ UNCHANGED << mQueue, mDone, workerVars, marked, wanted, deletions, deleter,
                  events, mHistory, history >>

-----------------------------------------------------------------------------
(* The GUI thread takes its next event. *)
OnTaskDoneKeep(t) ==   \* mistake: only notes that it is done
  /\ deleter' = [deleter EXCEPT ![t].done = TRUE]
  /\ UNCHANGED deletions
OnTaskDone(t) ==   \* DeleteTaskWhenDone::onTaskDone
  /\ deleter' = [deleter EXCEPT ![t].done = TRUE]
  /\ deletions' = IF deleter[t].delete THEN deletions \cup {t} ELSE deletions

DeleterEvent ==
  /\ GuiFree /\ events # << >>
  /\ \E t \in Task :
       /\ Head(events) = << "deleter", t >>
       /\ OnTaskDone(t)
  /\ events' = Tail(events)
  /\ UNCHANGED << mQueue, mDone, workerVars, object, marked, wanted, owner, loops,
                  released, mHistory, history >>

(* QueryTaskHelper::onQueryDone emits done once mHandler is reset; the     *)
(* receiver may delete the helper there and then.  Nothing happens if the  *)
(* helper is gone already.                                                 *)
HelperEvent ==
  /\ GuiFree /\ events # << >>
  /\ \E t \in Task :
       /\ Head(events) = << "helper", t >>
       /\ \/ /\ owner[t] # "gone"
             /\ owner' = [owner EXCEPT ![t] = "gone"]
             /\ EnableDelete(t)
          \/ /\ owner' = IF owner[t] = "gone" THEN owner ELSE [owner EXCEPT ![t] = "done"]
             /\ UNCHANGED << deleter, deletions >>
  /\ events' = Tail(events)
  /\ UNCHANGED << mQueue, mDone, workerVars, object, marked, wanted, loops, released,
                  mHistory, history >>

(* DataHistoryTableModel::onTaskDone: the rows of mTask, which need not be *)
(* the task that is done, are shown as far as they have come.              *)
ModelEvent ==
  /\ GuiFree /\ events # << >>
  /\ \E t \in Task : Head(events) = << "model", t >>
  /\ IF Held = {}
       THEN /\ mHistory' = [of |-> NoTask, whole |-> TRUE]
            /\ UNCHANGED << mQueue, dropped, owner, wanted, deletions >>
       ELSE \E u \in Held :
              /\ mHistory' = [of |-> u, whole |-> notified[u] > 0 \/
                                          (worker = "emit" /\ current = u)]
              /\ ReleaseOwn(u)
              /\ mQueue' = Without(mQueue, u)
              /\ owner' = [owner EXCEPT ![u] = "gone"]
  /\ events' = Tail(events)
  /\ UNCHANGED << mDone, workerVars, object, marked, deleter, loops, released,
                  posted, notified >>

(* Synchronizer::taskDone *)
SyncEvent ==
  /\ GuiFree /\ events # << >>
  /\ \E t \in Task :
       /\ Head(events) = << "sync", t >>
       /\ released' = released \cup {t}
  /\ events' = Tail(events)
  /\ UNCHANGED << mQueue, mDone, workerVars, objectVars, ownerVars, loops, mHistory,
                  history >>

(* A deferred delete. *)
DoDelete(t) ==
  /\ GuiFree /\ t \in deletions
  /\ deletions' = deletions \ {t}
  /\ object' = [object EXCEPT ![t] = "deleted"]
  /\ UNCHANGED << mQueue, mDone, workerVars, marked, wanted, ownerVars, guiVars,
                  history >>

-----------------------------------------------------------------------------
(* QueryTaskThread::run.  The test of mDone is made without the mutex. *)
WorkerTest ==
  /\ worker = "test"
  /\ worker' = IF mDone = "no" THEN "lock" ELSE "ended"
  /\ UNCHANGED << mQueue, mDone, current, objectVars, ownerVars, guiVars, history >>

TopKept(queue) == queue   \* mistake: no pop
Popped(queue) == Front(queue)

TakeTop ==
  /\ worker' = "run"
  /\ current' = Last(mQueue)
  /\ mQueue' = Popped(mQueue)

WorkerLock ==
  /\ worker = "lock"
  /\ IF mQueue = << >>
       THEN worker' = "asleep" /\ UNCHANGED << current, mQueue >>
       ELSE TakeTop
  /\ UNCHANGED << mDone, objectVars, ownerVars, guiVars, history >>

WorkerWoken ==
  /\ worker = "woken"
  /\ IF mQueue = << >>
       THEN worker' = "test" /\ UNCHANGED << current, mQueue >>
       ELSE TakeTop
  /\ UNCHANGED << mDone, objectVars, ownerVars, guiVars, history >>

(* QueryTaskRunner::run *)
WorkerRun ==
  /\ worker = "run"
  /\ worker' = "emit"
  /\ UNCHANGED << mQueue, mDone, current, objectVars, ownerVars, guiVars, history >>

(* The slots that are connected to the taskDone of t, in the order in      *)
(* which they were connected.                                              *)
Slots(t) ==
  CASE t \in Helped  -> << << "deleter", t >> >>
                        \o (IF owner[t] = "posted" THEN << << "helper", t >> >> ELSE << >>)
                        \o (IF t \in ToSet(loops) THEN << << "sync", t >> >> ELSE << >>)
    [] t \in Own     -> IF owner[t] = "posted" THEN << << "model", t >> >> ELSE << >>
    [] t \in Stacked -> << << "sync", t >> >>

(* BasicSQLTask::notifyDone: the signal, then the flags under the mutex of *)
(* the task, then its release.                                             *)
WorkerEmit ==
  /\ worker = "emit"
  /\ worker' = "mark"
  /\ events' = events \o Slots(current)
  /\ notified' = [notified EXCEPT ![current] = @ + 1]
  /\ UNCHANGED << mQueue, mDone, current, objectVars, ownerVars, loops, released,
                  mHistory, posted, dropped >>

WorkerMark ==
  /\ worker = "mark"
  /\ worker' = "unlock"
  /\ marked' = marked \cup {current}
  /\ deletions' = IF current \in wanted THEN deletions \cup {current} ELSE deletions
  /\ UNCHANGED << mQueue, mDone, current, object, wanted, ownerVars, guiVars, history >>

WorkerUnlockTwice ==   \* mistake: task is not reset to 0 in the loop
  /\ worker = "unlock"
  /\ worker' = "test"
  /\ UNCHANGED << mQueue, mDone, current, objectVars, ownerVars, guiVars, history >>

WorkerUnlock ==
  /\ worker = "unlock"
  /\ worker' = "test"
  /\ current' = NoTask
  /\ UNCHANGED << mQueue, mDone, objectVars, ownerVars, guiVars, history >>

-----------------------------------------------------------------------------
(* QueryTaskThread::~QueryTaskThread, up to its wait for the thread.  The  *)
(* windows, and DataHistoryTableModel with them, are gone by then.         *)
DestructorBegin ==
  /\ GuiFree /\ loops = << >> /\ Held = {}
  /\ mDone' = "waiting"
  /\ worker' = WakeOne
  /\ UNCHANGED << mQueue, current, objectVars, ownerVars, guiVars, history >>

(* The loop of the destructor, once the thread has ended or if it never    *)
(* ran: queued tasks are notified in place; nobody is left to drop a task. *)
DestructorNotify ==
  /\ mDone = "waiting" /\ worker \in {"off", "ended"} /\ mQueue # << >>
  /\ LET t == Last(mQueue)
     IN  /\ mQueue' = Popped(mQueue)
         /\ notified' = [notified EXCEPT ![t] = @ + 1]
         /\ marked' = marked \cup {t}
         /\ IF t \in Helped
              THEN /\ deleter' = [deleter EXCEPT ![t].done = TRUE]
                   /\ owner' = [owner EXCEPT ![t] = IF @ = "posted" THEN "done" ELSE @]
              ELSE UNCHANGED << deleter, owner >>
         /\ deletions' = IF t \in wanted \/ (t \in Helped /\ deleter[t].delete)
                           THEN deletions \cup {t} ELSE deletions
  /\ UNCHANGED << mDone, workerVars, object, wanted, guiVars, posted, dropped >>

DestructorEnd ==
  /\ mDone = "waiting" /\ worker \in {"off", "ended"} /\ mQueue = << >>
  /\ mDone' = "gone"
  /\ UNCHANGED << mQueue, workerVars, objectVars, ownerVars, guiVars, history >>

-----------------------------------------------------------------------------
EventStep == DeleterEvent \/ HelperEvent \/ ModelEvent \/ SyncEvent

WorkerStep ==
  \/ WorkerTest \/ WorkerLock \/ WorkerWoken \/ WorkerRun
  \/ WorkerEmit \/ WorkerMark \/ WorkerUnlock

DestructorStep == DestructorNotify \/ DestructorEnd

Next ==
  \/ \E t \in Task : \/ CreateHelper(t) \/ DropHelper(t)
                     \/ ShowHistory(t) \/ PostStacked(t) \/ DoDelete(t)
                     \/ \E synchronized \in BOOLEAN : PostHelper(t, synchronized)
  \/ ClearHistory \/ SyncReturn \/ DeleterEvent \/ HelperEvent \/ ModelEvent \/ SyncEvent
  \/ WorkerStep \/ DestructorBegin \/ DestructorStep

(* The operating system runs the worker, queries end, and the event loop   *)
(* of the GUI thread comes round.  Nobody has to post, drop or quit.       *)
Fairness ==
  /\ WF_vars(WorkerStep)
  /\ WF_vars(EventStep) /\ WF_vars(SyncReturn)
  /\ \A t \in Task : WF_vars(DoDelete(t))
  /\ WF_vars(DestructorStep)

Spec == Init /\ [][Next]_vars
FairSpec == Spec /\ Fairness

-----------------------------------------------------------------------------
Place(t) == CHOOSE i \in DOMAIN posted : posted[i] = t

(* The next task that the worker takes is one of the highest priority and, *)
(* among equal ones, the one that was posted first, whatever was dropped   *)
(* in between.                                                             *)
QueueInOrder ==
  \A i, k \in DOMAIN mQueue : i < k =>
    \/ Priority[mQueue[i]] < Priority[mQueue[k]]
    \/ /\ Priority[mQueue[i]] = Priority[mQueue[k]]
       /\ Place(mQueue[i]) > Place(mQueue[k])

(* notifyDone is called at most once, and not for a task for which         *)
(* dropTask returned true, not even by the destructor of the handler.      *)
NotifiedOnce ==
  \A t \in Task : notified[t] <= 1 /\ (t \in dropped => notified[t] = 0)

(* As long as the handler may call a task before its notifyDone, the task  *)
(* exists: whoever dropped or deleted its owner, and in whichever order.   *)
AliveUntilNotified ==
  /\ \A t \in ToSet(mQueue) : object[t] = "alive"
  /\ worker \in {"run", "emit"} => object[current] = "alive"

(* Every posted task is notified or dropped, as long as nobody destroys    *)
(* the handler: no wakeup of the worker is lost.                           *)
PostedIsAnswered ==
  \A t \in Task : t \in ToSet(posted) ~> notified[t] = 1 \/ t \in dropped \/ mDone # "no"

(* A nested event loop that waits for a task ends. *)
WaitEnds == \A t \in Task : t \in ToSet(loops) ~> t \notin ToSet(loops)

(* A task that the worker had taken when its owner was deleted is deleted  *)
(* in the end, by whichever of the two that comes last.                    *)
AbandonedIsDeleted ==
  \A t \in Task :
    owner[t] = "gone" /\ notified[t] + Cardinality({current} \cap {t}) > 0
      ~> object[t] = "deleted" \/ mDone # "no"

-----------------------------------------------------------------------------
(* What a comment says of the thread, and the code does not keep.          *)

(* finalize is called from the thread of the handler                       *)
(* (QueryTaskHandler.hh:19): once the destructor has begun, the thread, if *)
(* it was started, comes to its end.                                       *)
ThreadFinalizes == mDone = "waiting" /\ worker # "off" ~> worker = "ended"
=============================================================================
