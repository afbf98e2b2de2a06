------------------------------ MODULE TaskQueue ------------------------------
(***************************************************************************)
(* The tasks of one key: server/src/component/taskManager.ts and the       *)
(* SeqQueue objects of server/src/util/queue.ts it creates for that key,   *)
(* one after the other, as the key is closed and used again.               *)
(*                                                                         *)
(* One event loop runs everything.  runTask() leaves next() to             *)
(* process.nextTick, and node runs those callbacks before the next timer:  *)
(* a timeout finds no callback pending.  Tasks are pushed and queues are   *)
(* closed from anywhere, microtasks and the tasks themselves included, and *)
(* a task may end, by return or exception, at any moment or never.         *)
(***************************************************************************)
EXTENDS Integers, Sequences

CONSTANTS
    Tasks,    \* the tasks that may be pushed
    Queues,   \* the SeqQueue objects the manager may create
    None

ASSUME NoneAssumption == None \notin Tasks /\ None \notin Queues

VARIABLES
    current,   \* TaskManager.queues.get(key)
    status,    \* SeqQueue.status, "none" before the object exists
    queue,     \* SeqQueue.queue
    curId,     \* SeqQueue.curId
    timer,     \* the task whose timeout is armed (timerId, undefined once it fired)
    ticks,     \* the taskIds of the runTask callbacks left to process.nextTick
    home,      \* the queue a task was or will be pushed to
    taskId,    \* QueueTask.id, 0 before the task begins
    phase      \* how far a task is; "late" when it overran its timeout

queueVars == <<status, queue, curId, timer, ticks>>
taskVars == <<home, taskId, phase>>
vars == <<current, queueVars, taskVars>>

Statuses == {"none", "IDLE", "BUSY", "CLOSED", "DRAINED"}
Phases == {"new", "waiting", "running", "late", "done"}

TypeOK ==
    /\ current \in Queues \cup {None}
    /\ status \in [Queues -> Statuses]
    /\ queue \in [Queues -> Seq(Tasks)]
    /\ curId \in [Queues -> Nat]
    /\ timer \in [Queues -> Tasks \cup {None}]
    /\ ticks \in [Queues -> Seq(Nat)]
    /\ home \in [Tasks -> Queues]
    /\ taskId \in [Tasks -> Nat]
    /\ phase \in [Tasks -> Phases]

\* home is chosen at the start: which queue is current when the task is pushed.
Init ==
    /\ current = None
    /\ status = [q \in Queues |-> "none"]
    /\ queue = [q \in Queues |-> <<>>]
    /\ curId = [q \in Queues |-> 0]
    /\ timer = [q \in Queues |-> None]
    /\ ticks = [q \in Queues |-> <<>>]
    /\ home \in [Tasks -> Queues]
    /\ taskId = [t \in Tasks |-> 0]
    /\ phase = [t \in Tasks |-> "new"]

-----------------------------------------------------------------------------
\* Mutant: push() only starts a queue that was never used.
AddTaskFirstStarts(t) ==
    LET q == home[t]
    IN /\ phase[t] = "new"
       /\ current = q \/ (current = None /\ status[q] = "none")
       /\ current' = q
       /\ queue' = [queue EXCEPT ![q] = Append(@, t)]
       /\ status' = [status EXCEPT ![q] = "BUSY"]
       /\ ticks' = [ticks EXCEPT ![q] =
                       IF status[q] # "none" THEN @ ELSE Append(@, curId[q])]
       /\ phase' = [phase EXCEPT ![t] = "waiting"]
       /\ UNCHANGED <<curId, timer, home, taskId>>

\* TaskManager.addTask: the key's queue, or a new one, and its push().  A
\* queue is closed in the step that takes it off the table, so push() never
\* finds the current one closed.
AddTask(t) ==
    LET q == home[t]
    IN /\ phase[t] = "new"
       /\ current = q \/ (current = None /\ status[q] = "none")
       /\ current' = q
       /\ queue' = [queue EXCEPT ![q] = Append(@, t)]
       /\ status' = [status EXCEPT ![q] = "BUSY"]
       /\ ticks' = [ticks EXCEPT ![q] =
                       IF status[q] = "BUSY" THEN @ ELSE Append(@, curId[q])]
       /\ phase' = [phase EXCEPT ![t] = "waiting"]
       /\ UNCHANGED <<curId, timer, home, taskId>>

\* close(true): the timer is stopped, tasks that wait are never begun.
CloseForced ==
    /\ current # None
    /\ current' = None
    /\ status' = [status EXCEPT ![current] = "DRAINED"]
    /\ timer' = [timer EXCEPT ![current] = None]
    /\ UNCHANGED <<queue, curId, ticks, taskVars>>

CloseGently ==
    /\ current # None
    /\ current' = None
    /\ status' = [status EXCEPT ![current] = "CLOSED"]
    /\ UNCHANGED <<queue, curId, timer, ticks, taskVars>>

-----------------------------------------------------------------------------
\* Mutant: the id is not compared with the current one.
ValidAnyId(q, id) == status[q] \in {"BUSY", "CLOSED"}

\* Mutant: only an idle queue ignores the call.
ValidUnlessIdle(q, id) == id = curId[q] /\ status[q] # "IDLE"

\* next(taskId) has something to do.
Valid(q, id) == id = curId[q] /\ status[q] \in {"BUSY", "CLOSED"}

NextIgnored(q) ==
    /\ ticks[q] # <<>>
    /\ ~Valid(q, Head(ticks[q]))
    /\ ticks' = [ticks EXCEPT ![q] = Tail(@)]
    /\ UNCHANGED <<current, status, queue, curId, timer, taskVars>>

\* Mutant: the timer of the last task stays armed.
NextEmptyArmed(q) ==
    /\ ticks[q] # <<>>
    /\ Valid(q, Head(ticks[q]))
    /\ queue[q] = <<>>
    /\ ticks' = [ticks EXCEPT ![q] = Tail(@)]
    /\ status' = [status EXCEPT ![q] = IF @ = "BUSY" THEN "IDLE" ELSE "DRAINED"]
    /\ curId' = [curId EXCEPT ![q] = IF status[q] = "BUSY" THEN @ + 1 ELSE @]
    /\ UNCHANGED <<current, queue, timer, taskVars>>

\* No task is left: a busy queue waits for a push, a closed one is drained.
NextEmpty(q) ==
    /\ ticks[q] # <<>>
    /\ Valid(q, Head(ticks[q]))
    /\ queue[q] = <<>>
    /\ ticks' = [ticks EXCEPT ![q] = Tail(@)]
    /\ timer' = [timer EXCEPT ![q] = None]
    /\ \/ /\ status[q] = "BUSY"
          /\ status' = [status EXCEPT ![q] = "IDLE"]
          /\ curId' = [curId EXCEPT ![q] = @ + 1]
       \/ /\ status[q] = "CLOSED"
          /\ status' = [status EXCEPT ![q] = "DRAINED"]
          /\ UNCHANGED curId
    /\ UNCHANGED <<current, queue, taskVars>>

\* The task gets its id, its timer replaces the last one, fn is called.
NextBegins(q) ==
    LET t == Head(queue[q])
    IN /\ ticks[q] # <<>>
       /\ Valid(q, Head(ticks[q]))
       /\ queue[q] # <<>>
       /\ ticks' = [ticks EXCEPT ![q] = Tail(@)]
       /\ queue' = [queue EXCEPT ![q] = Tail(@)]
       /\ curId' = [curId EXCEPT ![q] = @ + 1]
       /\ taskId' = [taskId EXCEPT ![t] = curId[q] + 1]
       /\ timer' = [timer EXCEPT ![q] = t]
       /\ phase' = [phase EXCEPT ![t] = "running"]
       /\ UNCHANGED <<current, status, home>>

NextTick(q) == NextIgnored(q) \/ NextEmpty(q) \/ NextBegins(q)

\* Mutant: the timeout is reported, the next task is left to the end of this one.
TimeoutOnlyReports(q) ==
    /\ timer[q] # None
    /\ ticks[q] = <<>>
    /\ timer' = [timer EXCEPT ![q] = None]
    /\ phase' = [phase EXCEPT ![timer[q]] = IF @ = "running" THEN "late" ELSE @]
    /\ UNCHANGED <<current, status, queue, curId, ticks, home, taskId>>

\* The timer of a task: runTask, the TIMEOUT event, onTimeout.
Timeout(q) ==
    LET t == timer[q]
    IN /\ t # None
       /\ ticks[q] = <<>>
       /\ timer' = [timer EXCEPT ![q] = None]
       /\ ticks' = [ticks EXCEPT ![q] = Append(@, taskId[t])]
       /\ phase' = [phase EXCEPT ![t] = IF @ = "running" THEN "late" ELSE @]
       /\ UNCHANGED <<current, status, queue, curId, home, taskId>>

\* Mutant: runTask gets the task where it expects its id.
TaskEndsWithTask(t) ==
    /\ phase[t] \in {"running", "late"}
    /\ phase' = [phase EXCEPT ![t] = "done"]
    /\ ticks' = [ticks EXCEPT ![home[t]] = Append(@, t)]
    /\ UNCHANGED <<current, status, queue, curId, timer, home, taskId>>

\* fn ends: the finally clause runs the next task.
TaskEnds(t) ==
    /\ phase[t] \in {"running", "late"}
    /\ phase' = [phase EXCEPT ![t] = "done"]
    /\ ticks' = [ticks EXCEPT ![home[t]] = Append(@, taskId[t])]
    /\ UNCHANGED <<current, status, queue, curId, timer, home, taskId>>

-----------------------------------------------------------------------------
Next ==
    \/ \E t \in Tasks : AddTask(t) \/ TaskEnds(t)
    \/ CloseForced \/ CloseGently
    \/ \E q \in Queues : NextTick(q) \/ Timeout(q)

Spec == Init /\ [][Next]_vars

\* Callbacks run and timers expire; nobody has to push, close or end a task.
FairSpec == Spec /\ \A q \in Queues : WF_vars(NextTick(q)) /\ WF_vars(Timeout(q))

-----------------------------------------------------------------------------
Running(q) == {t \in Tasks : home[t] = q /\ phase[t] = "running"}

\* Two tasks of a queue run at once only if the earlier one overran its
\* timeout, although a late task, its timeout and its end all ask for the
\* next task.
OneAtATime == \A q \in Queues : \A s, t \in Running(q) : s = t

\* A timeout is only ever reported for a task that is still running.
TimeoutsAreReal ==
    \A q \in Queues : timer[q] # None /\ ticks[q] = <<>> => phase[timer[q]] = "running"

\* A call of next(id) is among those left to process.nextTick.
Pending(calls, id) == \E i \in 1..Len(calls) : calls[i] = id

\* A queue with tasks never loses its wake-up: a callback with the current id
\* is pending, or the timer that will leave one is armed.
NeverStalls ==
    \A q \in Queues :
        (status[q] = "BUSY" \/ (status[q] = "CLOSED" /\ queue[q] # <<>>))
        => \/ Pending(ticks[q], curId[q])
           \/ timer[q] # None /\ taskId[timer[q]] = curId[q]

\* The timers are right: none fires for a task that has ended, and one is armed,
\* or a callback pending, as long as tasks are left. (queue.ts next)
TasksTimed == TimeoutsAreReal /\ NeverStalls

\* The promise of TaskLine: order, each task once, nothing after a forced close.
GateOf == [none |-> "none", IDLE |-> "open", BUSY |-> "open",
           CLOSED |-> "closed", DRAINED |-> "cleared"]

Line == INSTANCE TaskLine WITH Lines <- Queues, waiting <- queue,
                               gate <- [q \in Queues |-> GateOf[status[q]]]
KeepsOrder == Line!Spec

\* Whatever its earlier tasks do, an accepted task begins unless its queue is
\* closed by force.
AcceptedTaskBegins ==
    \A t \in Tasks :
        phase[t] = "waiting" ~> (phase[t] # "waiting" \/ status[home[t]] = "DRAINED")
=============================================================================
