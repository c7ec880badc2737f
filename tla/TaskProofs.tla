----------------------------- MODULE TaskProofs -----------------------------
(***************************************************************************)
(* Proofs about Server that rest on the invariants of ServerProofs: which  *)
(* steps a task may take, and what holds of machines and of matrices as    *)
(* long as clients leave some requests alone.                              *)
(***************************************************************************)
EXTENDS ServerProofs

-----------------------------------------------------------------------------
(* What one step of Server does to a task. A machine is given out, and a   *)
(* command spawned, in the order in which jobs came, and never for a job   *)
(* that was cancelled or put on hold (Orderly). And the server implements  *)
(* the two abstractions of it: what a client that polls JobStatus sees     *)
(* follows the life cycle of JobStatus, and the work thread uses the       *)
(* copier thread as CopyService allows (Shown).                            *)

(* An iteration that has not updated anything yet has passed over a job    *)
(* only for want of a machine.  A task that waits has not timed out.       *)
PassedForWant ==
    worker.at = "drive" /\ ~worker.updated =>
        \A k \in live_tasks \ worker.todo : Eligible(k) => Candidates(k) = {}

WaitsUntimed ==
    /\ \A j \in DOMAIN tasks : tasks[j].state \in {"Waiting", "Held"} => tasks[j].timedout = None
    /\ listener.at \in {"insert_task", "insert_tagged", "matrix"} => listener.task.timedout = None
    /\ listener.at = "insert_live" /\ listener.matrix # None => listener.task.timedout = None

Orderly == PassedForWant /\ WaitsUntimed

-----------------------------------------------------------------------------
(* Nothing is being driven at first.                                       *)
LEMMA InitOrderly == Init => Orderly
BY DEF Init, Orderly, PassedForWant, WaitsUntimed, EmptyMap, InitWorker, IdleListener

(* A step outside the drives that leaves the tasks alone.                  *)
LEMMA SameTasksOrderly ==
    ASSUME Orderly, UNCHANGED <<tasks, listener>>,
           worker'.at # "drive" \/ UNCHANGED <<machines, live_tasks, worker>>
                                \/ (live_tasks' = live_tasks /\ worker'.todo = live_tasks)
    PROVE  Orderly'
<1>1. WaitsUntimed'
  BY DEF Orderly, WaitsUntimed
<1>2. PassedForWant'
  BY DEF Orderly, PassedForWant, Eligible, Candidates
<1> QED
  BY <1>1, <1>2 DEF Orderly

(* A drive that returns true: nothing more is driven in this iteration.    *)
LEMMA UpdatedOrderly ==
    ASSUME Typing, Orderly, NEW j, Driving(j), NEW t, tasks' = [tasks EXCEPT ![j] = t],
           worker'.updated, UNCHANGED listener,
           t.state \in {"Waiting", "Held"} => t.timedout = None
    PROVE  Orderly'
<1>1. /\ DOMAIN tasks' = DOMAIN tasks
      /\ \A k \in DOMAIN tasks : tasks'[k] = IF k = j THEN t ELSE tasks[k]
  BY Types DEF IsMap
<1>2. WaitsUntimed'
  BY <1>1 DEF Orderly, WaitsUntimed
<1>3. PassedForWant'
  BY DEF PassedForWant
<1> QED
  BY <1>2, <1>3 DEF Orderly

(* A drive that returns false leaves everything as it is.                  *)
LEMMA PassedOrderly ==
    ASSUME Typing, Orderly, NEW j, Driving(j), NEW b \in BOOLEAN, Return(j, b),
           UNCHANGED <<tasks, listener>>, b \/ machines' = machines,
           live_tasks' \subseteq live_tasks,
           b \/ (Eligible(j) => Candidates(j) = {})
    PROVE  Orderly'
<1>1. worker'.todo = worker.todo \ {j} /\ worker'.at = worker.at /\ worker'.updated = b
  BY Types DEF Return, Worker
<1>2. WaitsUntimed'
  BY DEF Orderly, WaitsUntimed
<1>3. CASE b
  BY <1>1, <1>2, <1>3 DEF Orderly, PassedForWant
<1>4. CASE ~b
  <2>1. \A k : Candidates(k)' = Candidates(k)
    BY <1>4 DEF Candidates
  <2>2. \A k : Eligible(k)' => Eligible(k)
    BY DEF Eligible
  <2>3. \A k \in live_tasks \ worker.todo : Eligible(k) => Candidates(k) = {}
    BY DEF Orderly, PassedForWant, Driving
  <2>4. \A k \in live_tasks' \ worker'.todo : Eligible(k)' => Candidates(k)' = {}
    BY <1>1, <1>4, <2>1, <2>2, <2>3
  <2>5. PassedForWant'
    BY <2>4 DEF PassedForWant
  <2> QED
    BY <1>2, <2>5 DEF Orderly
<1> QED
  BY <1>3, <1>4

-----------------------------------------------------------------------------
(* Every drive.                                                            *)
LEMMA TryDriveSmOrderly == ASSUME Typing, Orderly, NEW j, TryDriveSm(j) PROVE Orderly'
<1>1. UNCHANGED listener /\ Driving(j)
  BY DEF TryDriveSm, DriveHeld, NoMachine, Start, AllCommandsDone, CommandFailed, NextCommand,
         TimeOut, StillRunning, CheckResults, CheckPanics, CopyReported, StillCopying, Finalize,
         DriveTerminal, DriveError, DriveCanceled, Polled, shared
<1>2. tasks[j] \in Task /\ worker \in Worker
  BY <1>1, Driven, Types
<1> DEFINE Moved(t) == t.state \notin {"Waiting", "Held"}
<1>3. ASSUME NEW t, tasks' = [tasks EXCEPT ![j] = t], worker'.updated, Moved(t) PROVE Orderly'
  BY <1>1, <1>3, UpdatedOrderly
<1>4. Return(j, TRUE) => worker'.updated
  BY <1>2 DEF Return, Worker
<1>5. \A st \in Holding \cup Terminal : Moved([tasks[j] EXCEPT !.state = st])
  BY <1>2 DEF Task, Holding, Terminal
<1>6. Moved([tasks[j] EXCEPT !.state = "CheckingResults", !.index = 0])
  BY <1>2 DEF Task
<1>7. Moved([tasks[j] EXCEPT !.state = "Finalize", !.results = TRUE])
  BY <1>2 DEF Task
<1>8. tasks[j].state = "Running" =>
         Moved([tasks[j] EXCEPT !.timedout = tasks[j].index, !.canceled = "keep"])
  BY <1>2 DEF Task
<1>9. Moved(Stopped(tasks[j]))
  BY <1>2 DEF Task, Stopped
<1>10. \A m, spawned : Moved(Launched(tasks[j], m, spawned)) /\ Moved(Advanced(tasks[j], spawned))
  BY <1>2 DEF Task, Launched, Advanced
<1> HIDE DEF Moved
<1>11. ASSUME NEW m, NEW spawned, Start(j, m, spawned) \/ NextCommand(j, spawned) PROVE Orderly'
  BY <1>3, <1>4, <1>10, <1>11 DEF Start, NextCommand
<1>12. AllCommandsDone(j) => Orderly'
  BY <1>3, <1>4, <1>6 DEF AllCommandsDone
<1>13. CommandFailed(j) \/ Finalize(j) => Orderly'
  BY <1>3, <1>4, <1>5 DEF CommandFailed, Finalize, Holding, Terminal
<1>14. DriveError(j) => Orderly'
  <2>1. DriveError(j) => worker'.updated
    BY <1>2 DEF DriveError, Worker
  <2> QED
    BY <1>3, <1>5, <2>1 DEF DriveError, Terminal
<1>15. ASSUME NEW produced, CheckResults(j, produced) PROVE Orderly'
  BY <1>3, <1>4, <1>5, <1>15 DEF CheckResults, Holding
<1>16. CopyReported(j) => Orderly'
  <2>1. CopyReported(j) =>
           \/ tasks' = [tasks EXCEPT ![j] = [tasks[j] EXCEPT !.state = "Finalize",
                                                            !.results = TRUE]]
           \/ tasks' = [tasks EXCEPT ![j] = [tasks[j] EXCEPT !.state = "Error"]]
    BY DEF CopyReported
  <2>2. CopyReported(j) => worker'.updated
    BY <1>4 DEF CopyReported
  <2> QED
    BY <1>3, <1>5, <1>7, <2>1, <2>2 DEF Holding
<1>17. TimeOut(j) => Orderly'
  <2>1. TimeOut(j) => tasks[j].state = "Running"
    BY DEF TimeOut, Polled, StateOf
  <2> QED
    BY <1>3, <1>4, <1>8, <2>1 DEF TimeOut
<1>18. DriveCanceled(j) => Orderly'
  <2>1. DriveCanceled(j) => worker'.updated
    BY <1>2 DEF DriveCanceled, Worker
  <2> QED
    BY <1>3, <1>9, <2>1 DEF DriveCanceled
<1>19. Eligible(j) => StateOf(j) = "Waiting"
  BY DEF Eligible, StateOf
<1>20. DriveHeld(j) \/ NoMachine(j) \/ StillCopying(j) => Orderly'
  BY <1>19, PassedOrderly DEF DriveHeld, NoMachine, StillCopying, shared
<1>21. DriveTerminal(j) => Orderly'
  <2>1. (j \in DOMAIN handles) \in BOOLEAN
    OBVIOUS
  <2>2. DriveTerminal(j) => StateOf(j) # "Waiting"
    BY DEF DriveTerminal, Terminal
  <2>3. DriveTerminal(j) =>
           /\ UNCHANGED <<machines, tasks, listener>> /\ live_tasks' \subseteq live_tasks
           /\ Return(j, j \in DOMAIN handles)
    BY DEF DriveTerminal
  <2> QED
    BY <1>1, <1>19, <2>1, <2>2, <2>3, PassedOrderly
<1>22. StillRunning(j) => Orderly'
  <2>1. StillRunning(j) => Return(j, FALSE) \/ UNCHANGED worker
    BY DEF StillRunning
  <2> QED
    BY <1>19, <2>1, PassedOrderly, SameTasksOrderly DEF StillRunning, shared
<1>23. CheckPanics(j) => Orderly'
  <2> SUFFICES ASSUME CheckPanics(j) PROVE Orderly'
    OBVIOUS
  <2> DEFINE m == tasks[j].machine
             st == [machines[m] EXCEPT !.failures = 0]
  <2>1. UNCHANGED <<tasks, listener, live_tasks, worker>> /\ machines' = Update(m, st)
    BY DEF CheckPanics
  <2>2. m \in DOMAIN machines => /\ st.running = machines[m].running
                                /\ st.class = machines[m].class
    BY Types, MapAt DEF MachineStatus
  <2> HIDE DEF st
  <2>3. /\ DOMAIN machines' = DOMAIN machines
        /\ \A n \in DOMAIN machines : /\ machines'[n].running = machines[n].running
                                      /\ machines'[n].class = machines[n].class
    BY <2>1, <2>2, Types DEF Update, IsMap
  <2>4. \A k : Candidates(k)' = Candidates(k) /\ Eligible(k)' = Eligible(k)
    BY <2>1, <2>3 DEF Candidates, Eligible
  <2>5. PassedForWant'
    BY <2>1, <2>4 DEF Orderly, PassedForWant
  <2>6. WaitsUntimed'
    BY <2>1 DEF Orderly, WaitsUntimed
  <2> QED
    BY <2>5, <2>6 DEF Orderly
<1> QED
  BY <1>11, <1>12, <1>13, <1>14, <1>15, <1>16, <1>17, <1>18, <1>20, <1>21, <1>22, <1>23
     DEF TryDriveSm

(* The rest of an iteration.                                               *)
LEMMA IterationOrderly ==
    ASSUME Typing, Orderly,
           \/ ProcessNotifications \/ BeginIteration \/ EndDriving \/ EndIteration
    PROVE  Orderly'
<1>1. BeginIteration => worker'.todo = live_tasks
  BY Types DEF BeginIteration, Worker
<1>2. EndDriving \/ EndIteration => worker'.at # "drive"
  BY Types DEF EndDriving, EndIteration, Worker
<1>3. ProcessNotifications => worker'.at # "drive"
  BY Types DEF ProcessNotifications, Worker
<1> QED
  BY <1>1, <1>2, <1>3, SameTasksOrderly
     DEF ProcessNotifications, BeginIteration, EndDriving, EndIteration, shared

(* Reaping only takes tasks away, outside the drives.                      *)
LEMMA ReapOrderly == ASSUME Typing, Orderly, Reap PROVE Orderly'
<1>1. worker.at = "reap" /\ UNCHANGED listener
  BY DEF Reap
<1>2. CASE UNCHANGED tasks
  <2>1. worker'.at # "drive"
    BY <1>1, Types DEF Reap, Worker
  <2> QED
    BY <1>1, <1>2, <2>1, SameTasksOrderly
<1>3. CASE ~UNCHANGED tasks
  <2> DEFINE gone == worker.to_remove \cap DOMAIN tasks
  <2>1. tasks' = Drop(tasks, gone) /\ worker' = [worker EXCEPT !.at = "clone", !.to_remove = {}]
    BY <1>3 DEF Reap
  <2>2. worker'.at # "drive"
    BY <2>1, Types DEF Worker
  <2>3. \A k \in DOMAIN tasks' : k \in DOMAIN tasks /\ tasks'[k] = tasks[k]
    BY <2>1 DEF Drop
  <2> QED
    BY <1>1, <2>2, <2>3 DEF Orderly, WaitsUntimed, PassedForWant
<1> QED
  BY <1>2, <1>3

(* A task that is inserted has not timed out.                              *)
LEMMA InsertOrderly ==
    ASSUME Orderly, NEW n, NEW t, tasks' = Put(tasks, n, t), t.timedout = None,
           worker'.at # "drive",
           \/ UNCHANGED listener
           \/ listener'.at = "idle"
           \/ listener'.at = "insert_live" /\ listener'.task = t
    PROVE  Orderly'
<1>1. \A k \in DOMAIN tasks' : tasks'[k] = t \/ (k \in DOMAIN tasks /\ tasks'[k] = tasks[k])
  BY DEF Put
<1> QED
  BY <1>1 DEF Orderly, WaitsUntimed, PassedForWant

(* A retry has not timed out.                                              *)
LEMMA CloneFailedOrderly ==
    ASSUME Typing, Orderly, NEW j \in worker.to_clone, CloneFailed(j) PROVE Orderly'
<1> DEFINE t == [CloneTask(tasks[j]) EXCEPT !.attempt = tasks[j].attempt + 1]
<1>1. worker.at = "clone" /\ UNCHANGED listener
  BY DEF CloneFailed
<1>2. worker'.at # "drive"
  BY <1>1, Types DEF CloneFailed, Worker
<1>3. tasks[j] \in Task
  BY Types, MapAt DEF Typing, WorkerTyped
<1>4. t.timedout = None
  BY <1>3 DEF CloneTask, Task
<1>5. UNCHANGED tasks \/ tasks' = Put(tasks, next_jid, t)
  BY DEF CloneFailed, InsertClone
<1> HIDE DEF t
<1>6. CASE UNCHANGED tasks
  BY <1>1, <1>2, <1>6, SameTasksOrderly
<1>7. CASE tasks' = Put(tasks, next_jid, t)
  BY <1>1, <1>2, <1>4, <1>7, InsertOrderly
<1> QED
  BY <1>5, <1>6, <1>7

-----------------------------------------------------------------------------
(* The requests.  None touches tasks or machines during an iteration.      *)
LEMMA NotDriving == ASSUME ~WorkerHoldsLocks, Unaffected PROVE worker'.at # "drive"
BY DEF WorkerHoldsLocks, Unaffected

(* A request that replaces a task, and leaves its timeout alone.           *)
LEMMA TaskRequestOrderly ==
    ASSUME Typing, Orderly, ~WorkerHoldsLocks, Unaffected, UNCHANGED listener,
           NEW j \in DOMAIN tasks, NEW t, tasks' = [tasks EXCEPT ![j] = t],
           t.timedout = tasks[j].timedout,
           t.state = tasks[j].state \/ tasks[j].state \in {"Waiting", "Held"}
    PROVE  Orderly'
<1>1. /\ DOMAIN tasks' = DOMAIN tasks
      /\ \A k \in DOMAIN tasks : tasks'[k] = IF k = j THEN t ELSE tasks[k]
  BY Types DEF IsMap
<1> QED
  BY <1>1, NotDriving DEF Orderly, WaitsUntimed, PassedForWant

(* The requests about one task.                                            *)
LEMMA OneTaskRequestOrderly ==
    ASSUME Typing, Orderly, NEW j \in DOMAIN tasks, NEW g, NEW how,
           \/ HoldJob(j) \/ UnholdJob(j) \/ AddJobTimeout(j) \/ TagJob(j, g)
           \/ UntagJob(j) \/ CancelJob(j, how)
    PROVE  Orderly'
<1>1. ~WorkerHoldsLocks /\ Unaffected /\ UNCHANGED listener
  BY DEF HoldJob, UnholdJob, AddJobTimeout, TagJob, UntagJob, CancelJob, Handle
<1>2. tasks[j] \in Task
  BY Types, MapAt
<1>3. CASE UNCHANGED tasks
  BY <1>1, <1>3, NotDriving, SameTasksOrderly
<1>4. CASE ~UNCHANGED tasks
  <2> DEFINE hold    == [tasks[j] EXCEPT !.state = "Held"]
             unhold  == [tasks[j] EXCEPT !.state = "Waiting"]
             timeout == [tasks[j] EXCEPT !.timeout = TRUE]
             tag     == [tasks[j] EXCEPT !.tag = g]
             untag   == [tasks[j] EXCEPT !.tag = None]
             cancel  == [tasks[j] EXCEPT !.canceled = how]
  <2>1. \/ /\ \E t \in {hold, unhold} : tasks' = [tasks EXCEPT ![j] = t]
           /\ tasks[j].state \in {"Waiting", "Held"}
        \/ \E t \in {timeout, tag, untag, cancel} : tasks' = [tasks EXCEPT ![j] = t]
    BY <1>4 DEF HoldJob, Holdable, UnholdJob, AddJobTimeout, TagJob, UntagJob, CancelJob, Cancel
  <2>2. \A t \in {hold, unhold, timeout, tag, untag, cancel} : t.timedout = tasks[j].timedout
    BY <1>2 DEF Task
  <2>3. \A t \in {timeout, tag, untag, cancel} : t.state = tasks[j].state
    BY <1>2 DEF Task
  <2> HIDE DEF hold, unhold, timeout, tag, untag, cancel
  <2>4. PICK t : /\ tasks' = [tasks EXCEPT ![j] = t] /\ t.timedout = tasks[j].timedout
                 /\ t.state = tasks[j].state \/ tasks[j].state \in {"Waiting", "Held"}
    BY <2>1, <2>2, <2>3
  <2> QED
    BY <1>1, <2>4, TaskRequestOrderly
<1> QED
  BY <1>3, <1>4

(* The requests about the pool of machines.                                *)
LEMMA PoolOrderly ==
    ASSUME Typing, Orderly, NEW m, NEW c, MakeAvailable(m, c) \/ RemoveAvailable(m)
    PROVE  Orderly'
<1>1. ~WorkerHoldsLocks /\ Unaffected /\ UNCHANGED listener
  BY DEF MakeAvailable, RemoveAvailable, Handle
<1>2. CASE UNCHANGED tasks
  BY <1>1, <1>2, NotDriving, SameTasksOrderly
<1>3. CASE ~UNCHANGED tasks
  <2> DEFINE k == machines[m].running
             t == [tasks[k] EXCEPT !.canceled = "keep"]
  <2>1. k \in DOMAIN tasks /\ tasks' = [tasks EXCEPT ![k] = t]
    BY <1>3 DEF MakeAvailable, RemoveAvailable, Cancel
  <2>2. tasks[k] \in Task
    BY <2>1, Types, MapAt
  <2>3. t.timedout = tasks[k].timedout /\ t.state = tasks[k].state
    BY <2>2 DEF Task
  <2> HIDE DEF t, k
  <2> QED
    BY <1>1, <2>1, <2>3, TaskRequestOrderly
<1> QED
  BY <1>2, <1>3

(* A clone has not timed out.                                              *)
LEMMA CloneJobOrderly == ASSUME Typing, Orderly, NEW j \in DOMAIN tasks, CloneJob(j) PROVE Orderly'
<1>1. ~WorkerHoldsLocks /\ Unaffected /\ UNCHANGED listener
  BY DEF CloneJob, Handle
<1>2. CloneTask(tasks[j]).timedout = None
  BY Types, MapAt DEF CloneTask, Task
<1>3. UNCHANGED tasks \/ tasks' = Put(tasks, next_jid, CloneTask(tasks[j]))
  BY DEF CloneJob, InsertClone
<1>4. worker'.at # "drive"
  BY <1>1, NotDriving
<1>5. CASE UNCHANGED tasks
  BY <1>1, <1>4, <1>5, SameTasksOrderly
<1>6. CASE tasks' = Put(tasks, next_jid, CloneTask(tasks[j]))
  BY <1>1, <1>2, <1>4, <1>6, InsertOrderly
<1> QED
  BY <1>3, <1>5, <1>6

(* A step of the listener that leaves tasks, machines and live_tasks alone.*)
LEMMA ListenerOrderly ==
    ASSUME Orderly, Unaffected, UNCHANGED <<tasks, machines, live_tasks>>,
           \/ listener'.at \in {"idle", "insert_tag"} \/ listener'.task.timedout = None
    PROVE  Orderly'
<1>1. WaitsUntimed'
  BY DEF Orderly, WaitsUntimed
<1>2. PassedForWant'
  BY DEF Orderly, PassedForWant, Eligible, Candidates, Unaffected
<1> QED
  BY <1>1, <1>2 DEF Orderly

(* A submission has not timed out.                                         *)
LEMMA AddOrderly ==
    ASSUME Typing, Orderly, NEW spec, NEW n, NEW m,
           \/ AddJob(spec) \/ AddTaggedJob(spec, n) \/ AddMatrix(spec, n)
           \/ SetUpMachine(spec, m) \/ AddTag
    PROVE  Orderly'
<1>1. \A sp, h, x, g : NewTask(sp, h, x, g).timedout = None
  BY DEF NewTask
<1>2. ASSUME NEW point, NEW task, Allocate(point, task)
      PROVE  listener'.at = point /\ listener'.task = task
  BY <1>2, Types DEF Allocate, Listener
<1>3. \/ listener'.at \in {"idle", "insert_tag"} \/ listener'.task.timedout = None
  BY <1>1, <1>2 DEF AddJob, AddTaggedJob, AddMatrix, SetUpMachine, AddTag
<1>4. Unaffected /\ UNCHANGED <<tasks, machines, live_tasks>>
  BY DEF AddJob, AddTaggedJob, AddMatrix, SetUpMachine, AddTag, Allocate
<1> QED
  BY <1>3, <1>4, ListenerOrderly

(* Taking up any request keeps Orderly.                                    *)
LEMMA NewRequestOrderly == ASSUME Typing, Orderly, NewRequest PROVE Orderly'
BY OneTaskRequestOrderly, PoolOrderly, CloneJobOrderly, AddOrderly DEF NewRequest

(* So do the later critical sections of a request.                         *)
LEMMA FinishRequestOrderly == ASSUME Typing, Orderly, FinishRequest PROVE Orderly'
<1>1. MatrixAllocate => Orderly'
  <2>1. MatrixAllocate => listener'.task = listener.task /\ listener.at = "matrix"
    BY Types DEF MatrixAllocate, Listener, Resume
  <2>2. MatrixAllocate => listener'.task.timedout = None
    BY <2>1 DEF Orderly, WaitsUntimed
  <2> QED
    BY <2>2, ListenerOrderly DEF MatrixAllocate
<1>2. InsertTask => Orderly'
  <2>1. InsertTask => /\ tasks' = Put(tasks, listener.jid, listener.task)
                      /\ listener'.at = "insert_live" /\ listener'.task = listener.task
                      /\ listener.at = "insert_task" /\ ~WorkerHoldsLocks /\ Unaffected
    BY Types DEF InsertTask, Listener, Resume
  <2> QED
    BY <2>1, NotDriving, InsertOrderly DEF Orderly, WaitsUntimed
<1>3. InsertTagged => Orderly'
  <2>1. InsertTagged => /\ listener'.at = "idle" /\ ~WorkerHoldsLocks /\ Unaffected
                        /\ listener.at = "insert_tagged"
    BY DEF InsertTagged, Resume, IdleListener
  <2>2. CASE UNCHANGED tasks
    BY <2>1, <2>2, NotDriving DEF Orderly, WaitsUntimed, PassedForWant
  <2>3. CASE ~UNCHANGED tasks
    <3>1. InsertTagged => tasks' = Put(tasks, listener.jid, listener.task)
      BY <2>3 DEF InsertTagged
    <3>2. InsertTagged => worker'.at # "drive"
      BY <2>1, NotDriving
    <3>3. InsertTagged => listener.task.timedout = None
      BY <2>1 DEF Orderly, WaitsUntimed
    <3> QED
      BY <2>1, <3>1, <3>2, <3>3, InsertOrderly
  <2> QED
    BY <2>2, <2>3
<1>4. InsertLive => Orderly'
  <2>1. InsertLive => /\ UNCHANGED tasks /\ ~WorkerHoldsLocks /\ Unaffected
                      /\ listener.at = "insert_live"
                      /\ \/ listener'.at = "idle"
                         \/ listener.matrix # None /\ listener'.task = listener.task
    BY Types DEF InsertLive, Listener, Resume, IdleListener
  <2> QED
    BY <2>1, NotDriving DEF Orderly, WaitsUntimed, PassedForWant
<1>5. PublishMatrix \/ InsertTag => Orderly'
  BY ListenerOrderly DEF PublishMatrix, InsertTag, IdleListener
<1> QED
  BY <1>1, <1>2, <1>3, <1>4, <1>5 DEF FinishRequest

(* Every step keeps Orderly.                                               *)
LEMMA StepOrderly == Typing /\ Orderly /\ [Next]_vars => Orderly'
<1> SUFFICES ASSUME Typing, Orderly, [Next]_vars PROVE Orderly'
  OBVIOUS
<1>1. CASE UNCHANGED vars
  BY <1>1, SameTasksOrderly DEF vars, shared
<1>2. ASSUME NEW j, Environment(j) PROVE Orderly'
  BY <1>2, SameTasksOrderly DEF Environment, ProcessExits, CopierReports, shared
<1>3. WorkThreadStep => Orderly'
  BY TryDriveSmOrderly, IterationOrderly, ReapOrderly, CloneFailedOrderly DEF WorkThreadStep
<1> QED
  BY <1>1, <1>2, <1>3, NewRequestOrderly, FinishRequestOrderly DEF Next

-----------------------------------------------------------------------------
(* A task that a request meets is not started by it, nor placed, nor is    *)
(* its command changed: what is inserted gets an id of its own.            *)
SameRun(s, t) == /\ t.index = s.index /\ t.machine = s.machine /\ t.timedout = s.timedout
                 /\ t.results = s.results
                 /\ s.canceled # None => t.canceled # None
                 /\ t.state = s.state \/ {s.state, t.state} \subseteq {"Waiting", "Held"}
RequestKeeps(j) == j \in DOMAIN tasks' /\ SameRun(tasks[j], tasks'[j])

(* A request that replaces one task, and one that inserts one.             *)
LEMMA ReplacedKeeps ==
    ASSUME Typing, NEW j \in DOMAIN tasks, NEW k, NEW t, tasks' = [tasks EXCEPT ![k] = t],
           k \in DOMAIN tasks => SameRun(tasks[k], t)
    PROVE  RequestKeeps(j)
<1>1. /\ DOMAIN tasks' = DOMAIN tasks
      /\ tasks'[j] = IF j = k THEN t ELSE tasks[j]
  BY Types DEF IsMap
<1>2. SameRun(tasks[j], tasks[j])
  BY DEF SameRun
<1> QED
  BY <1>1, <1>2 DEF RequestKeeps

(* A request that inserts a task under another id.                         *)
LEMMA InsertedKeeps ==
    ASSUME NEW j \in DOMAIN tasks, NEW k, NEW t, tasks' = Put(tasks, k, t), k # j
    PROVE  RequestKeeps(j)
BY DEF Put, RequestKeeps, SameRun

(* Each request of one critical section replaces a task, or inserts one    *)
(* that waits, if it touches the tasks at all.                             *)
TasksKept     == UNCHANGED tasks
TaskReplaced  == \E k \in DOMAIN tasks : \E t : /\ tasks' = [tasks EXCEPT ![k] = t]
                                               /\ SameRun(tasks[k], t)
TaskInserted(k) == \E t : tasks' = Put(tasks, k, t) /\ t.state = "Waiting"

(* Each of them has one of these three forms.                              *)
LEMMA NewRequestForm ==
    ASSUME Typing, NewRequest PROVE TasksKept \/ TaskReplaced \/ TaskInserted(next_jid)
<1> DEFINE Form == TasksKept \/ TaskReplaced \/ TaskInserted(next_jid)
<1>1. \A k \in DOMAIN tasks : tasks[k] \in Task
  BY Types, MapAt
<1>2. CASE UNCHANGED tasks
  BY <1>2 DEF TasksKept
<1>3. ASSUME NEW k \in DOMAIN tasks, NEW g, NEW how \in {"keep", "remove"},
             \/ HoldJob(k) \/ UnholdJob(k) \/ AddJobTimeout(k) \/ TagJob(k, g)
             \/ UntagJob(k) \/ Cancel(k, how),
             ~UNCHANGED tasks
      PROVE  Form
  <2>1. tasks[k] \in Task
    BY <1>1
  <2> DEFINE hold    == [tasks[k] EXCEPT !.state = "Held"]
             unhold  == [tasks[k] EXCEPT !.state = "Waiting"]
             timeout == [tasks[k] EXCEPT !.timeout = TRUE]
             tag     == [tasks[k] EXCEPT !.tag = g]
             untag   == [tasks[k] EXCEPT !.tag = None]
             cancel  == [tasks[k] EXCEPT !.canceled = how]
  <2>2. \/ tasks[k].state \in {"Waiting", "Held"} /\ tasks' = [tasks EXCEPT ![k] = hold]
        \/ tasks[k].state \in {"Waiting", "Held"} /\ tasks' = [tasks EXCEPT ![k] = unhold]
        \/ \E t \in {timeout, tag, untag, cancel} : tasks' = [tasks EXCEPT ![k] = t]
    BY <1>3 DEF HoldJob, Holdable, UnholdJob, AddJobTimeout, TagJob, UntagJob, Cancel
  <2>3. \A t \in {timeout, tag, untag, cancel} : SameRun(tasks[k], t)
    BY <2>1, NoneAssumption DEF Task, SameRun
  <2>4. tasks[k].state \in {"Waiting", "Held"} =>
           SameRun(tasks[k], hold) /\ SameRun(tasks[k], unhold)
    BY <2>1 DEF Task, SameRun
  <2> HIDE DEF hold, unhold, timeout, tag, untag, cancel
  <2>5. PICK t : tasks' = [tasks EXCEPT ![k] = t] /\ SameRun(tasks[k], t)
    BY <2>2, <2>3, <2>4
  <2> QED
    BY <2>5 DEF TaskReplaced
<1>4. ASSUME NEW k \in DOMAIN tasks, CloneJob(k), ~UNCHANGED tasks PROVE Form
  <2>1. tasks' = Put(tasks, next_jid, CloneTask(tasks[k]))
    BY <1>4 DEF CloneJob, InsertClone
  <2>2. CloneTask(tasks[k]).state = "Waiting"
    BY <1>1, CloneTaskType
  <2> QED
    BY <2>1, <2>2 DEF TaskInserted
<1>5. ASSUME NEW m, RemoveAvailable(m), ~UNCHANGED tasks PROVE Form
  <2>1. machines[m].running \in DOMAIN tasks /\ Cancel(machines[m].running, "keep")
    BY <1>5 DEF RemoveAvailable
  <2> QED
    BY <1>3, <1>5, <2>1
<1>6. ASSUME NEW k \in DOMAIN tasks, NEW how \in {"keep", "remove"}, CancelJob(k, how),
             ~UNCHANGED tasks
      PROVE  Form
  BY <1>3, <1>6 DEF CancelJob
<1>7. ASSUME NEW spec, NEW m, NEW n,
             \/ AddJob(spec) \/ AddTaggedJob(spec, n) \/ AddMatrix(spec, n)
             \/ SetUpMachine(spec, m) \/ AddTag \/ MakeAvailable(m, n)
      PROVE  UNCHANGED tasks
  BY <1>7 DEF AddJob, AddTaggedJob, AddMatrix, SetUpMachine, AddTag, Allocate, MakeAvailable
<1> QED
  BY <1>2, <1>3, <1>4, <1>5, <1>6, <1>7 DEF NewRequest

(* So that every task is kept.                                             *)
LEMMA NewRequestKeeps ==
    ASSUME Typing, NewRequest, NEW j \in DOMAIN tasks PROVE RequestKeeps(j)
<1>1. TasksKept => RequestKeeps(j)
  BY DEF TasksKept, RequestKeeps, SameRun
<1>2. TaskReplaced => RequestKeeps(j)
  BY ReplacedKeeps DEF TaskReplaced
<1>3. TaskInserted(next_jid) => RequestKeeps(j)
  <2>1. next_jid # j
    BY Types, MapAt DEF Issued
  <2> QED
    BY <2>1, InsertedKeeps DEF TaskInserted
<1> QED
  BY <1>1, <1>2, <1>3, NewRequestForm

(* ... and the later critical sections: what they insert is untried.       *)
LEMMA FinishRequestForm ==
    ASSUME Typing, Safe, FinishRequest
    PROVE  \/ TasksKept
           \/ /\ TaskInserted(listener.jid)
              /\ listener.jid \notin DOMAIN tasks /\ listener.jid \in Nat
              /\ listener.at \in {"insert_task", "insert_tagged"}
<1>1. CASE UNCHANGED tasks
  BY <1>1 DEF TasksKept
<1>2. CASE ~UNCHANGED tasks
  <2>1. /\ tasks' = Put(tasks, listener.jid, listener.task)
        /\ listener.at \in {"insert_task", "insert_tagged"}
    BY <1>2 DEF FinishRequest, MatrixAllocate, InsertTask, InsertLive, PublishMatrix,
               InsertTagged, InsertTag, Resume
  <2>2. listener.jid \notin DOMAIN tasks /\ listener.task.state = "Waiting"
    BY <2>1 DEF Safe, ListenerFresh, Untried
  <2>3. listener.jid \in Nat
    BY <2>1, Types DEF Typing, ListenerTyped, Issued
  <2> QED
    BY <2>1, <2>2, <2>3 DEF TaskInserted
<1> QED
  BY <1>1, <1>2

(* So that every task is kept by these as well.                            *)
LEMMA FinishRequestKeeps ==
    ASSUME Typing, Safe, FinishRequest, NEW j \in DOMAIN tasks PROVE RequestKeeps(j)
<1>1. TasksKept => RequestKeeps(j)
  BY DEF TasksKept, RequestKeeps, SameRun
<1>2. TaskInserted(listener.jid) /\ listener.jid # j => RequestKeeps(j)
  BY InsertedKeeps DEF TaskInserted
<1> QED
  BY <1>1, <1>2, FinishRequestForm

(* The part of an iteration that drives nothing keeps the tasks it leaves. *)
LEMMA IterationKeeps ==
    ASSUME Typing, NEW j \in DOMAIN tasks, j \in DOMAIN tasks',
           \/ ProcessNotifications \/ BeginIteration \/ EndDriving \/ EndIteration \/ Reap
           \/ \E k \in worker.to_clone : CloneFailed(k)
    PROVE  tasks'[j] = tasks[j]
<1>1. CASE UNCHANGED tasks
  BY <1>1
<1>2. CASE Reap /\ ~UNCHANGED tasks
  BY <1>2 DEF Reap, Drop
<1>3. ASSUME NEW k, CloneFailed(k), ~UNCHANGED tasks PROVE tasks'[j] = tasks[j]
  <2>1. next_jid # j
    BY Types, MapAt DEF Issued
  <2> QED
    BY <1>3, <2>1 DEF CloneFailed, InsertClone, Put
<1> QED
  BY <1>1, <1>2, <1>3 DEF ProcessNotifications, BeginIteration, EndDriving, EndIteration, shared

(* A drive replaces the driven task, if any.                               *)
LEMMA OthersDriven ==
    ASSUME Typing, NEW k, TryDriveSm(k), NEW j \in DOMAIN tasks, j # k
    PROVE  j \in DOMAIN tasks' /\ tasks'[j] = tasks[j]
<1>1. UNCHANGED tasks \/ \E t : tasks' = [tasks EXCEPT ![k] = t]
  BY DEF TryDriveSm, DriveHeld, NoMachine, Start, AllCommandsDone, CommandFailed, NextCommand,
         TimeOut, StillRunning, CheckResults, CheckPanics, CopyReported, StillCopying, Finalize,
         DriveTerminal, DriveError, DriveCanceled, shared
<1> QED
  BY <1>1, Types DEF IsMap

-----------------------------------------------------------------------------
(* Only Start gives a waiting job a machine: a waiting task that is        *)
(* cancelled has not timed out, so that it ends as Canceled or Killed.     *)
LEMMA OnlyStartStarts ==
    ASSUME Typing, Safe, Orderly, Next, NEW j, Starts(j)
    PROVE  \E m \in Machines, spawned \in BOOLEAN : Start(j, m, spawned)
<1>1. /\ j \in DOMAIN tasks /\ j \in DOMAIN tasks' /\ tasks[j].state = "Waiting"
      /\ tasks'[j].state \in {"Running", "Error"} /\ tasks'[j] # tasks[j]
  BY DEF Starts
<1>2. ~(NewRequest \/ FinishRequest)
  BY <1>1, NewRequestKeeps, FinishRequestKeeps DEF RequestKeeps, SameRun
<1>3. \A k : ~Environment(k)
  BY <1>1 DEF Environment, ProcessExits, CopierReports, shared
<1>4. PICK k \in ToDrive : TryDriveSm(k)
  BY <1>1, <1>2, <1>3, IterationKeeps DEF Next, WorkThreadStep
<1>5. k = j
  BY <1>1, <1>4, OthersDriven
<1>6. StateOf(j) \in {"Waiting", "Canceled"}
  BY <1>1 DEF StateOf
<1>7. ~DriveCanceled(j)
  <2>1. tasks[j] \in Task /\ tasks[j].timedout = None
    BY <1>1, Types, MapAt DEF Orderly, WaitsUntimed
  <2>2. Stopped(tasks[j]).state \in {"Canceled", "Killed"}
    BY <2>1 DEF Stopped, Task
  <2>3. DriveCanceled(j) => tasks'[j] = Stopped(tasks[j])
    BY <1>1, Types DEF DriveCanceled, IsMap
  <2> QED
    BY <1>1, <2>2, <2>3
<1>8. ~NoMachine(j)
  BY <1>1 DEF NoMachine, shared
<1> QED
  BY <1>4, <1>5, <1>6, <1>7, <1>8
     DEF TryDriveSm, DriveHeld, AllCommandsDone, CommandFailed, NextCommand, TimeOut, Polled,
         StillRunning, CheckResults, CheckPanics, CopyReported, StillCopying, Finalize,
         DriveTerminal, DriveError, Terminal

(* When a job is placed, every eligible one before it has been passed over *)
(* for want of a machine of the same class, and none has come free since.  *)
LEMMA StartInOrder ==
    ASSUME Typing, Orderly, NEW j, NEW m, NEW spawned, Start(j, m, spawned),
           tasks[j].job.ty = "Job",
           NEW k \in live_tasks, k < j, Eligible(k),
           tasks[k].job.class = tasks[j].job.class
    PROVE  FALSE
<1>1. Driving(j) /\ m \in Candidates(j)
  BY DEF Start
<1>2. j \in Nat /\ k \in Nat /\ k \in DOMAIN tasks
  BY <1>1, Driven, Types DEF Issued, Eligible
<1>3. k \notin worker.todo
  BY <1>1, <1>2 DEF Driving, IsNext, ToDrive
<1>4. Candidates(k) = {}
  BY <1>1, <1>3 DEF Orderly, PassedForWant, Driving
<1>5. m \in Candidates(k)
  BY <1>1 DEF Candidates, Eligible
<1> QED
  BY <1>4, <1>5

(* Each step that places a job respects the order (README.md).             *)
LEMMA OrderedStep ==
    Typing /\ Safe /\ Orderly /\ Next =>
        \A j \in live_tasks : Starts(j) =>
            ~ \E k \in live_tasks : /\ k < j /\ Eligible(k)
                                    /\ tasks[k].job.class = tasks[j].job.class
<1> SUFFICES ASSUME Typing, Safe, Orderly, Next, NEW j \in live_tasks, Starts(j),
                    NEW k \in live_tasks, k < j, Eligible(k),
                    tasks[k].job.class = tasks[j].job.class
             PROVE  FALSE
  OBVIOUS
<1>1. PICK m \in Machines, spawned \in BOOLEAN : Start(j, m, spawned)
  BY OnlyStartStarts
<1> QED
  BY <1>1, StartInOrder DEF Starts

-----------------------------------------------------------------------------
(* A step that gives no task process info and leaves the index of those    *)
(* that have some spawns nothing.                                          *)
LEMMA NothingSpawned ==
    ASSUME NEW j, j \in DOMAIN handles' => j \in DOMAIN handles,
           j \in DOMAIN handles' => tasks'[j].index = tasks[j].index
    PROVE  ~Spawned(j)
BY DEF Spawned

(* What NoUnwantedStart asks of task j.                                    *)
Wanted(j) == /\ j \in DOMAIN tasks /\ tasks[j].canceled = None
             /\ tasks[j].state \in {"Waiting", "Running"}

(* Commands are spawned only where the prologue of try_drive_sm has found  *)
(* no cancellation (sm.rs:84).                                             *)
LEMMA DriveSpawnsWanted ==
    ASSUME Typing, Safe, NEW k, TryDriveSm(k), NEW j, Spawned(j) PROVE Wanted(j)
<1>1. Driving(k) /\ DOMAIN handles' \subseteq DOMAIN handles \cup {k}
  BY DEF TryDriveSm, DriveHeld, NoMachine, Start, AllCommandsDone, CommandFailed, NextCommand,
         TimeOut, StillRunning, CheckResults, CheckPanics, CopyReported, StillCopying, Finalize,
         DriveTerminal, DriveError, DriveCanceled, KillProcess, Drop, Put, Polled
<1>2. tasks[k] \in Task /\ k \in DOMAIN tasks
  BY <1>1, Driven
<1>3. CASE j # k
  <2>1. j \in DOMAIN handles' /\ j \in DOMAIN handles
    BY <1>1, <1>3 DEF Spawned
  <2>2. j \in DOMAIN tasks
    BY <2>1 DEF Safe, HandlesOfTasks
  <2> QED
    BY <1>3, <2>1, <2>2, OthersDriven, NothingSpawned
<1>4. CASE StateOf(k) \in {"Waiting", "Running"} /\ j = k
  BY <1>2, <1>4 DEF StateOf, Wanted
<1>5. CASE StateOf(k) \notin {"Waiting", "Running"} /\ j = k
  <2>1. CASE UNCHANGED handles
    <3>1. ~DriveTerminal(k) /\ ~DriveError(k) /\ ~DriveCanceled(k)
      BY <1>5, <2>1 DEF DriveTerminal, DriveError, DriveCanceled, KillProcess, Drop, Spawned
    <3> DEFINE SameIndex(t) == t.index = tasks[k].index
    <3>2. \A t : tasks' = [tasks EXCEPT ![k] = t] /\ SameIndex(t) => SameIndex(tasks'[k])
      BY <1>2, Types DEF IsMap
    <3>3. \A st : /\ SameIndex([tasks[k] EXCEPT !.state = st])
                  /\ SameIndex([tasks[k] EXCEPT !.state = st, !.results = TRUE])
      BY <1>2 DEF Task
    <3> HIDE DEF SameIndex
    <3>4. UNCHANGED tasks => SameIndex(tasks'[k])
      BY DEF SameIndex
    <3>5. ASSUME NEW produced, CheckResults(k, produced) PROVE SameIndex(tasks'[k])
      BY <3>2, <3>3, <3>5 DEF CheckResults
    <3>6. CopyReported(k) => SameIndex(tasks'[k])
      <4>1. CopyReported(k) =>
               \/ tasks' = [tasks EXCEPT ![k] = [tasks[k] EXCEPT !.state = "Finalize",
                                                                !.results = TRUE]]
               \/ tasks' = [tasks EXCEPT ![k] = [tasks[k] EXCEPT !.state = "Error"]]
        BY DEF CopyReported
      <4> QED
        BY <3>2, <3>3, <4>1
    <3>7. Finalize(k) => SameIndex(tasks'[k])
      BY <3>2, <3>3 DEF Finalize
    <3>8. SameIndex(tasks'[k])
      BY <1>5, <3>1, <3>4, <3>5, <3>6, <3>7
         DEF TryDriveSm, DriveHeld, NoMachine, Start, AllCommandsDone, CommandFailed,
             NextCommand, TimeOut, StillRunning, CheckPanics, StillCopying, Polled, shared
    <3> QED
      BY <1>5, <2>1, <3>8, NothingSpawned DEF SameIndex
  <2>2. CASE ~UNCHANGED handles
    <3>1. handles' = Drop(handles, {k})
      BY <1>5, <2>2
         DEF TryDriveSm, DriveHeld, NoMachine, Start, AllCommandsDone, CommandFailed,
             NextCommand, TimeOut, StillRunning, CheckResults, CheckPanics, CopyReported,
             StillCopying, Finalize, DriveTerminal, DriveError, DriveCanceled, KillProcess, Polled
    <3> QED
      BY <1>5, <3>1 DEF Drop, Spawned
  <2> QED
    BY <2>1, <2>2
<1> QED
  BY <1>3, <1>4, <1>5

(* No other step spawns anything.                                          *)
LEMMA WantedStep ==
    Typing /\ Safe /\ Next => \A j \in DOMAIN handles' : Spawned(j) => Wanted(j)
<1> SUFFICES ASSUME Typing, Safe, Next, NEW j \in DOMAIN handles', Spawned(j) PROVE Wanted(j)
  OBVIOUS
<1>1. j \in DOMAIN handles => j \in DOMAIN tasks /\ j \notin worker.to_remove
  BY DEF Safe, HandlesOfTasks
<1>2. ~(NewRequest \/ FinishRequest)
  <2>1. NewRequest \/ FinishRequest => UNCHANGED handles
    BY DEF NewRequest, FinishRequest, MakeAvailable, RemoveAvailable, CancelJob, HoldJob,
           UnholdJob, AddJobTimeout, CloneJob, TagJob, UntagJob, AddJob, AddTaggedJob, AddTag,
           AddMatrix, SetUpMachine, Allocate, MatrixAllocate, InsertTask, InsertLive,
           PublishMatrix, InsertTagged, InsertTag, Unaffected
  <2> QED
    BY <1>1, <2>1, NewRequestKeeps, FinishRequestKeeps, NothingSpawned DEF RequestKeeps, SameRun
<1>3. ASSUME NEW k, Environment(k) PROVE FALSE
  BY <1>3, NothingSpawned DEF Environment, ProcessExits, CopierReports, shared
<1>4. ASSUME \/ ProcessNotifications \/ BeginIteration \/ EndDriving \/ EndIteration \/ Reap
             \/ \E k \in worker.to_clone : CloneFailed(k)
      PROVE  FALSE
  <2>1. UNCHANGED handles
    BY <1>4 DEF ProcessNotifications, BeginIteration, EndDriving, EndIteration, Reap, CloneFailed
  <2>2. j \in DOMAIN tasks'
    <3>1. j \in DOMAIN tasks /\ j \notin worker.to_remove
      BY <1>1, <2>1
    <3>2. CASE UNCHANGED tasks
      BY <3>1, <3>2
    <3>3. CASE Reap /\ ~UNCHANGED tasks
      BY <3>1, <3>3 DEF Reap, Drop
    <3>4. ASSUME NEW k, CloneFailed(k), ~UNCHANGED tasks PROVE j \in DOMAIN tasks'
      BY <3>1, <3>4 DEF CloneFailed, InsertClone, Put
    <3> QED
      BY <1>4, <3>2, <3>3, <3>4
         DEF ProcessNotifications, BeginIteration, EndDriving, EndIteration, shared
  <2> QED
    BY <1>1, <1>4, <2>1, <2>2, IterationKeeps, NothingSpawned
<1>5. PICK k : TryDriveSm(k)
  BY <1>2, <1>3, <1>4 DEF Next, WorkThreadStep
<1> QED
  BY <1>5, DriveSpawnsWanted

-----------------------------------------------------------------------------
(* Orderly holds throughout.                                               *)
THEOREM OrderlyInvariant == Spec => []Orderly
<1>1. Typing /\ Orderly /\ [Next]_vars => Orderly'
  BY StepOrderly
<1> QED
  BY <1>1, InitOrderly, TypingInvariant, PTL DEF Spec

(* Jobs run in the order in which they were enqueued (README.md; BTreeSet  *)
(* since 0.9.2): whatever the requests, a job is never placed while one of *)
(* its class that came before it is left waiting.                          *)
THEOREM JobsStartInOrder == Spec => StartsInOrder
<1>1. Typing /\ Safe /\ Orderly /\ [Next]_vars =>
        [\A j \in live_tasks : Starts(j) =>
             ~ \E k \in live_tasks : /\ k < j /\ Eligible(k)
                                     /\ tasks[k].job.class = tasks[j].job.class]_vars
  BY OrderedStep
<1> QED
  BY <1>1, OrderlyInvariant, TypingInvariant, SafetyInvariant, PTL DEF Spec, StartsInOrder

(* No command is spawned for a task that a client has cancelled or put on  *)
(* hold, at whichever moment the request came (cancel_job, HoldJob).       *)
THEOREM NoUnwantedStarts == Spec => NoUnwantedStart
<1>1. Typing /\ Safe /\ [Next]_vars =>
        [\A j \in DOMAIN handles' : Spawned(j) =>
              /\ j \in DOMAIN tasks
              /\ tasks[j].canceled = None
              /\ tasks[j].state \in {"Waiting", "Running"}]_vars
  BY WantedStep DEF Wanted
<1> QED
  BY <1>1, TypingInvariant, SafetyInvariant, PTL DEF Spec, NoUnwantedStart

-----------------------------------------------------------------------------
(* A task that timed out has failed, or is about to.                       *)
Failing(t) == t.timedout # None =>
                 /\ t.state \in {"Running", "Error", "ErrorDone", "Canceled"}
                 /\ t.state = "Running" => t.canceled # None
TimedOutFails == \A j \in DOMAIN tasks : Failing(tasks[j])

(* The state Canceled lasts from the drive that stops a task to be removed *)
(* to the reaping in the same iteration, which stops at most one.          *)
OneRemoved ==
    /\ \A j \in DOMAIN tasks : tasks[j].state = "Canceled" <=> j \in worker.to_remove
    /\ \A j, k \in worker.to_remove : j = k
    /\ worker.at = "drive" /\ ~worker.updated => worker.to_remove = {}

(* A copy is requested once: what the copier thread has, or has reported,  *)
(* is a task that is past CheckingResults, for ever.                       *)
Unchecked == {"Waiting", "Held", "Running", "CheckingResults"}
CopiedOnce ==
    /\ \A j \in (copying \cup DOMAIN copying_flags) \cap DOMAIN tasks :
          tasks[j].state \notin Unchecked
    /\ listener.at \in {"insert_task", "insert_tagged"} =>
          listener.jid \notin copying \cup DOMAIN copying_flags

Shown == TimedOutFails /\ OneRemoved /\ CopiedOnce

-----------------------------------------------------------------------------
(* There is no task at first.                                              *)
LEMMA InitShown == Init => Shown
BY DEF Init, Shown, TimedOutFails, OneRemoved, CopiedOnce, EmptyMap, InitWorker, IdleListener

(* A drive that replaces a task, and asks for no copy.                     *)
LEMMA DrivenShown ==
    ASSUME Typing, Shown, NEW j, Driving(j), NEW t, tasks' = [tasks EXCEPT ![j] = t],
           worker'.to_remove = worker.to_remove,
           t.state # "Canceled",
           Failing(t),
           t.state \in Unchecked => tasks[j].state \in Unchecked,
           copying' \cup DOMAIN copying_flags' \subseteq copying \cup DOMAIN copying_flags,
           UNCHANGED listener
    PROVE  Shown'
<1>1. /\ DOMAIN tasks' = DOMAIN tasks /\ j \in DOMAIN tasks
      /\ \A k \in DOMAIN tasks : tasks'[k] = IF k = j THEN t ELSE tasks[k]
  BY Driven, Types DEF IsMap
<1>2. TimedOutFails'
  BY <1>1 DEF Shown, TimedOutFails
<1>3. worker.to_remove = {}
  BY DEF Shown, OneRemoved, Driving
<1>4. OneRemoved'
  BY <1>1, <1>3 DEF Shown, OneRemoved
<1>5. CopiedOnce'
  BY <1>1 DEF Shown, CopiedOnce
<1> QED
  BY <1>2, <1>4, <1>5 DEF Shown

(* A step that leaves the tasks alone.                                     *)
LEMMA IdleShown ==
    ASSUME Shown, UNCHANGED tasks,
           copying' \cup DOMAIN copying_flags' \subseteq copying \cup DOMAIN copying_flags,
           worker'.to_remove = worker.to_remove,
           worker'.at = "drive" /\ ~worker'.updated =>
               \/ worker.at = "drive" /\ ~worker.updated
               \/ worker.to_remove = {},
           listener'.at \in {"insert_task", "insert_tagged"} =>
               \/ UNCHANGED listener
               \/ listener'.jid \notin copying \cup DOMAIN copying_flags
    PROVE  Shown'
<1>1. TimedOutFails'
  BY DEF Shown, TimedOutFails
<1>2. OneRemoved'
  BY DEF Shown, OneRemoved
<1>3. CopiedOnce'
  BY DEF Shown, CopiedOnce
<1> QED
  BY <1>1, <1>2, <1>3 DEF Shown

(* Every drive.                                                            *)
LEMMA TryDriveSmShown == ASSUME Typing, Safe, Orderly, Shown, NEW j, TryDriveSm(j) PROVE Shown'
<1>1. UNCHANGED listener /\ Driving(j)
  BY DEF TryDriveSm, DriveHeld, NoMachine, Start, AllCommandsDone, CommandFailed, NextCommand,
         TimeOut, StillRunning, CheckResults, CheckPanics, CopyReported, StillCopying, Finalize,
         DriveTerminal, DriveError, DriveCanceled, Polled, shared
<1>2. /\ tasks[j] \in Task /\ worker \in Worker /\ j \in DOMAIN tasks
      /\ worker.at = "drive" /\ ~worker.updated /\ worker.to_remove = {}
      /\ tasks[j].state # "Canceled"
  BY <1>1, Driven, Types DEF Driving, Shown, OneRemoved
<1>3. \A b : Return(j, b) =>
         worker'.to_remove = worker.to_remove /\ worker'.at = "drive" /\ worker'.updated = b
  BY <1>2 DEF Return, Worker
<1>4. /\ Failing(tasks[j])
      /\ tasks[j].state = "Waiting" => tasks[j].timedout = None
  BY <1>2 DEF Shown, TimedOutFails, Orderly, WaitsUntimed
<1> DEFINE Fits(t) == /\ t.state # "Canceled" /\ Failing(t)
                      /\ t.state \in Unchecked => tasks[j].state \in Unchecked
<1>5. \A t : /\ tasks' = [tasks EXCEPT ![j] = t] /\ Fits(t)
             /\ worker'.to_remove = worker.to_remove
             /\ UNCHANGED <<copying, copying_flags>>
             => Shown'
  BY <1>1, DrivenShown
<1>6. \A b : Return(j, b) /\ UNCHANGED <<tasks, copying, copying_flags>> => Shown'
  BY <1>1, <1>2, <1>3, IdleShown
<1>7. StateOf(j) # "Canceled" => StateOf(j) = tasks[j].state /\ tasks[j].canceled = None
  BY DEF StateOf
<1>12. StateOf(j) = "Running" => tasks[j].timedout = None
  BY <1>4, <1>7 DEF Failing
<1> HIDE DEF Fits
<1>8. DriveHeld(j) \/ NoMachine(j) \/ StillCopying(j) \/ DriveTerminal(j) => Shown'
  BY <1>6 DEF DriveHeld, NoMachine, StillCopying, DriveTerminal, shared
<1>9. StillRunning(j) => Shown'
  <2>1. StillRunning(j) =>
          /\ UNCHANGED <<tasks, copying, copying_flags>>
          /\ Return(j, FALSE) \/ UNCHANGED worker
    BY DEF StillRunning, shared
  <2>2. UNCHANGED <<tasks, copying, copying_flags, worker>> => Shown'
    BY <1>1, IdleShown
  <2> QED
    BY <1>6, <2>1, <2>2
<1>23. CheckPanics(j) => Shown'
  BY <1>1, IdleShown DEF CheckPanics
<1>10. ASSUME NEW m, NEW spawned, Start(j, m, spawned) PROVE Shown'
  <2>1. tasks[j].state = "Waiting"
    BY <1>7, <1>10 DEF Start
  <2>2. Fits(Launched(tasks[j], m, spawned))
    BY <1>2, <1>4, <2>1 DEF Fits, Failing, Launched, Task, Unchecked
  <2> QED
    BY <1>3, <1>5, <1>10, <2>2 DEF Start
<1>11. ASSUME NEW spawned, NextCommand(j, spawned) PROVE Shown'
  <2>1. tasks[j].state = "Running" /\ tasks[j].timedout = None
    BY <1>7, <1>11, <1>12 DEF NextCommand, Polled
  <2>2. Fits(Advanced(tasks[j], spawned))
    BY <1>2, <2>1 DEF Fits, Failing, Advanced, Task, Unchecked
  <2> QED
    BY <1>3, <1>5, <1>11, <2>2 DEF NextCommand
<1>13. AllCommandsDone(j) => Shown'
  <2>1. AllCommandsDone(j) => tasks[j].state = "Running" /\ tasks[j].timedout = None
    BY <1>7, <1>12 DEF AllCommandsDone, Polled
  <2>2. AllCommandsDone(j) => Fits([tasks[j] EXCEPT !.state = "CheckingResults", !.index = 0])
    BY <1>2, <2>1 DEF Fits, Failing, Task, Unchecked
  <2> QED
    BY <1>3, <1>5, <2>2 DEF AllCommandsDone
<1>14. \A st \in {"Error", "ErrorDone"} : Fits([tasks[j] EXCEPT !.state = st])
  BY <1>2, <1>4 DEF Fits, Failing, Task, Unchecked
<1>15. CommandFailed(j) => Shown'
  BY <1>3, <1>5, <1>14 DEF CommandFailed
<1>16. DriveError(j) => Shown'
  <2>1. DriveError(j) => worker'.to_remove = worker.to_remove
    BY <1>2 DEF DriveError, Worker
  <2> QED
    BY <1>5, <1>14, <2>1 DEF DriveError
<1>17. TimeOut(j) => Shown'
  <2>1. TimeOut(j) => tasks[j].state = "Running"
    BY <1>7 DEF TimeOut, Polled
  <2>2. TimeOut(j) =>
           Fits([tasks[j] EXCEPT !.timedout = tasks[j].index, !.canceled = "keep"])
    BY <1>2, <2>1, NoneAssumption DEF Fits, Failing, Task, Unchecked
  <2> QED
    BY <1>3, <1>5, <2>2 DEF TimeOut
<1>18. tasks[j].state \in {"CopyingResults", "Finalize"} =>
         \A st \in {"Finalize", "Done", "DoneWithResults"} :
            /\ Fits([tasks[j] EXCEPT !.state = st])
            /\ Fits([tasks[j] EXCEPT !.state = st, !.results = TRUE])
  BY <1>2, <1>4 DEF Fits, Failing, Task, Unchecked
<1>19. Finalize(j) => Shown'
  BY <1>3, <1>5, <1>7, <1>18 DEF Finalize
<1>20. CopyReported(j) => Shown'
  <2>1. CopyReported(j) =>
           /\ Driving(j) /\ worker'.to_remove = worker.to_remove
           /\ copying' \cup DOMAIN copying_flags' \subseteq copying \cup DOMAIN copying_flags
           /\ tasks[j].state = "CopyingResults"
    BY <1>3, <1>7 DEF CopyReported, TakeFlag, Drop
  <2>2. CopyReported(j) =>
           \/ tasks' = [tasks EXCEPT ![j] = [tasks[j] EXCEPT !.state = "Finalize",
                                                            !.results = TRUE]]
           \/ tasks' = [tasks EXCEPT ![j] = [tasks[j] EXCEPT !.state = "Error"]]
    BY DEF CopyReported
  <2>3. CopyReported(j) => \E t : tasks' = [tasks EXCEPT ![j] = t] /\ Fits(t)
    BY <1>14, <1>18, <2>1, <2>2
  <2> QED
    BY <1>1, <2>1, <2>3, DrivenShown DEF Fits
<1>21. ASSUME NEW produced, CheckResults(j, produced) PROVE Shown'
  <2>1. tasks[j].state = "CheckingResults"
    BY <1>7, <1>21 DEF CheckResults
  <2> DEFINE t == [tasks[j] EXCEPT !.state =
                      IF tasks[j].job.cp_results /\ produced THEN "CopyingResults" ELSE "Finalize"]
  <2>2. /\ tasks' = [tasks EXCEPT ![j] = t] /\ worker'.to_remove = worker.to_remove
        /\ copying' \subseteq copying \cup {j} /\ UNCHANGED copying_flags
    BY <1>3, <1>21 DEF CheckResults, RequestCopy
  <2>3. Fits(t) /\ t.state \notin Unchecked
    BY <1>2, <1>4, <2>1 DEF Fits, Failing, Task, Unchecked
  <2> HIDE DEF t
  <2>4. /\ DOMAIN tasks' = DOMAIN tasks
        /\ \A k \in DOMAIN tasks : tasks'[k] = IF k = j THEN t ELSE tasks[k]
    BY <2>2, Types DEF IsMap
  <2>5. TimedOutFails'
    BY <2>3, <2>4 DEF Fits, Shown, TimedOutFails
  <2>6. OneRemoved'
    BY <1>2, <2>2, <2>3, <2>4 DEF Fits, Shown, OneRemoved
  <2>7. listener.at \in {"insert_task", "insert_tagged"} => listener.jid # j
    BY <1>2 DEF Safe, ListenerFresh
  <2>8. CopiedOnce'
    BY <1>1, <2>2, <2>3, <2>4, <2>7 DEF Shown, CopiedOnce
  <2> QED
    BY <2>5, <2>6, <2>8 DEF Shown
<1>22. DriveCanceled(j) => Shown'
  <2> SUFFICES ASSUME DriveCanceled(j) PROVE Shown'
    OBVIOUS
  <2> DEFINE t == Stopped(tasks[j])
  <2>1. /\ tasks' = [tasks EXCEPT ![j] = t] /\ UNCHANGED <<copying, copying_flags>>
        /\ worker'.to_remove = IF tasks[j].canceled = "remove" THEN {j} ELSE {}
        /\ worker'.updated
    BY <1>2 DEF DriveCanceled, Worker
  <2>2. CASE tasks[j].canceled # "remove"
    <3>1. Fits(t)
      BY <1>2, <1>4, <2>2 DEF Fits, Failing, Stopped, Task, Unchecked
    <3> QED
      BY <1>2, <1>5, <2>1, <2>2, <3>1
  <2>3. CASE tasks[j].canceled = "remove"
    <3>1. t.state = "Canceled" /\ Failing(t)
      BY <1>2, <1>4, <2>3 DEF Failing, Stopped, Task
    <3> HIDE DEF t
    <3>2. /\ DOMAIN tasks' = DOMAIN tasks
          /\ \A k \in DOMAIN tasks : tasks'[k] = IF k = j THEN t ELSE tasks[k]
      BY <2>1, Types DEF IsMap
    <3>3. TimedOutFails'
      BY <3>1, <3>2 DEF Shown, TimedOutFails
    <3>4. OneRemoved'
      BY <1>2, <2>1, <2>3, <3>1, <3>2 DEF Shown, OneRemoved
    <3>5. CopiedOnce'
      BY <1>1, <2>1, <3>1, <3>2 DEF Shown, CopiedOnce, Unchecked
    <3> QED
      BY <3>3, <3>4, <3>5 DEF Shown
  <2> QED
    BY <2>2, <2>3
<1> QED
  BY <1>8, <1>9, <1>10, <1>11, <1>13, <1>15, <1>16, <1>17, <1>19, <1>20, <1>21, <1>22, <1>23
     DEF TryDriveSm

(* The rest of an iteration.                                               *)
LEMMA IterationShown ==
    ASSUME Typing, Shown,
           \/ ProcessNotifications \/ BeginIteration \/ EndDriving \/ EndIteration
    PROVE  Shown'
<1>1. worker \in Worker /\ (worker.at = "sleep" => worker.to_remove = {})
  BY Types DEF Typing, WorkerTyped
<1>2. /\ UNCHANGED <<tasks, copying, copying_flags, listener>>
      /\ worker'.to_remove = worker.to_remove
      /\ worker'.at = "drive" => worker.to_remove = {}
  BY <1>1 DEF ProcessNotifications, BeginIteration, EndDriving, EndIteration, shared, Worker
<1> QED
  BY <1>2, IdleShown

(* Reaping removes every task in the state Canceled.                       *)
LEMMA ReapShown == ASSUME Typing, Shown, Reap PROVE Shown'
<1>1. UNCHANGED <<copying, copying_flags, listener>> /\ worker \in Worker /\ worker.at = "reap"
  BY Types DEF Reap
<1>2. CASE UNCHANGED worker /\ UNCHANGED tasks
  BY <1>1, <1>2, IdleShown
<1>3. CASE ~(UNCHANGED worker /\ UNCHANGED tasks)
  <2>1. /\ tasks' = Drop(tasks, worker.to_remove \cap DOMAIN tasks)
        /\ worker' = [worker EXCEPT !.at = "clone", !.to_remove = {}]
    BY <1>3 DEF Reap
  <2>2. worker'.to_remove = {} /\ worker'.at = "clone"
    BY <1>1, <2>1 DEF Worker
  <2>3. \A j \in DOMAIN tasks' : /\ j \in DOMAIN tasks /\ j \notin worker.to_remove
                                 /\ tasks'[j] = tasks[j]
    BY <2>1 DEF Drop
  <2>4. TimedOutFails'
    BY <2>3 DEF Shown, TimedOutFails
  <2>5. OneRemoved'
    BY <2>2, <2>3 DEF Shown, OneRemoved
  <2>6. CopiedOnce'
    BY <1>1, <2>3 DEF Shown, CopiedOnce
  <2> QED
    BY <2>4, <2>5, <2>6 DEF Shown
<1> QED
  BY <1>2, <1>3

-----------------------------------------------------------------------------
(* A step that keeps the run of every task and inserts waiting ones.       *)
LEMMA KeptShown ==
    ASSUME Shown, Orderly', worker'.to_remove = {}, worker.to_remove = {},
           \A j \in DOMAIN tasks : RequestKeeps(j),
           \A j \in DOMAIN tasks' \ DOMAIN tasks :
               tasks'[j].state = "Waiting" /\ j \notin copying \cup DOMAIN copying_flags,
           UNCHANGED <<copying, copying_flags>>,
           listener'.at \in {"insert_task", "insert_tagged"} =>
               \/ UNCHANGED listener
               \/ listener'.jid \notin copying \cup DOMAIN copying_flags
    PROVE  Shown'
<1>1. ASSUME NEW j \in DOMAIN tasks' PROVE Failing(tasks'[j])
  <2>1. CASE j \in DOMAIN tasks
    <3>1. SameRun(tasks[j], tasks'[j]) /\ Failing(tasks[j])
      BY <2>1 DEF Shown, TimedOutFails, RequestKeeps
    <3> QED
      BY <3>1 DEF SameRun, Failing
  <2>2. CASE j \notin DOMAIN tasks
    BY <2>2 DEF Orderly, WaitsUntimed, Failing
  <2> QED
    BY <2>1, <2>2
<1>2. TimedOutFails'
  BY <1>1 DEF TimedOutFails
<1>3. OneRemoved'
  BY DEF Shown, OneRemoved, RequestKeeps, SameRun
<1>4. CopiedOnce'
  BY DEF Shown, CopiedOnce, RequestKeeps, SameRun, Unchecked
<1> QED
  BY <1>2, <1>3, <1>4 DEF Shown

(* A clone gets the next id, which nothing is known of.                    *)
LEMMA NextUnknown ==
    ASSUME Typing
    PROVE  next_jid \notin DOMAIN tasks \cup copying \cup DOMAIN copying_flags
BY Types DEF IsMap, Issued

(* A retry is a waiting task under an unknown id.                          *)
LEMMA CloneFailedShown ==
    ASSUME Typing, Orderly', Shown, NEW k \in worker.to_clone, CloneFailed(k) PROVE Shown'
<1>1. /\ UNCHANGED <<copying, copying_flags, listener>> /\ worker.at = "clone"
      /\ worker \in Worker /\ worker.to_remove = {}
  BY Types DEF CloneFailed, Typing, WorkerTyped
<1>2. CASE UNCHANGED tasks
  <2>1. worker'.to_remove = {} /\ worker'.at = "clone"
    BY <1>1 DEF CloneFailed, Worker
  <2> QED
    BY <1>1, <1>2, <2>1, IdleShown
<1>3. CASE ~UNCHANGED tasks
  <2> DEFINE t == [CloneTask(tasks[k]) EXCEPT !.attempt = tasks[k].attempt + 1]
  <2>1. tasks' = Put(tasks, next_jid, t) /\ worker' = [worker EXCEPT !.to_clone = @ \ {k}]
    BY <1>3 DEF CloneFailed, InsertClone
  <2>2. CloneTask(tasks[k]) \in Task /\ CloneTask(tasks[k]).state = "Waiting"
    BY CloneTaskType, Types, MapAt DEF Typing, WorkerTyped
  <2>3. t.state = "Waiting"
    BY <2>2 DEF Task
  <2> HIDE DEF t
  <2>4. worker'.to_remove = {}
    BY <1>1, <2>1 DEF Worker
  <2>5. \A j \in DOMAIN tasks : RequestKeeps(j)
    BY <2>1, NextUnknown, InsertedKeeps
  <2>6. \A j \in DOMAIN tasks' \ DOMAIN tasks : j = next_jid /\ tasks'[j] = t
    BY <2>1 DEF Put
  <2> QED
    BY <1>1, <2>3, <2>4, <2>5, <2>6, NextUnknown, KeptShown
<1> QED
  BY <1>2, <1>3

(* The listener never touches what the copier thread knows; the ids it     *)
(* takes are new to that thread.                                           *)
LEMMA ListenerCopies ==
    ASSUME Typing, NewRequest \/ FinishRequest
    PROVE  /\ Unaffected
           /\ listener'.at \in {"insert_task", "insert_tagged"} =>
                 UNCHANGED listener \/ listener'.jid = next_jid
<1>1. listener \in Listener
  BY Types
<1>2. \A point, task : Allocate(point, task) => Unaffected /\ listener'.jid = next_jid
  BY <1>1 DEF Allocate, Listener
<1>3. \A spec, n : AddMatrix(spec, n) => Unaffected /\ listener'.at = "matrix"
  BY DEF AddMatrix
<1>4. ASSUME NEW spec, NEW m, NEW n,
             \/ AddJob(spec) \/ AddTaggedJob(spec, n) \/ SetUpMachine(spec, m) \/ AddTag
      PROVE  Unaffected /\ listener'.jid = next_jid
  <2>1. \E point, task : Allocate(point, task)
    BY <1>4 DEF AddJob, AddTaggedJob, AddTag, SetUpMachine
  <2> QED
    BY <1>2, <2>1
<1>8. ASSUME NEW m, NEW c, NEW j, NEW how,
             \/ MakeAvailable(m, c) \/ RemoveAvailable(m) \/ CancelJob(j, how) \/ HoldJob(j)
             \/ UnholdJob(j) \/ AddJobTimeout(j) \/ CloneJob(j) \/ TagJob(j, c) \/ UntagJob(j)
      PROVE  Unaffected /\ UNCHANGED listener
  BY <1>8 DEF MakeAvailable, RemoveAvailable, CancelJob, HoldJob, UnholdJob, AddJobTimeout,
     CloneJob, TagJob, UntagJob
<1>5. MatrixAllocate => Unaffected /\ listener'.jid = next_jid
  BY <1>1 DEF MatrixAllocate, Listener
<1>6. InsertTask => Unaffected /\ listener'.at = "insert_live"
  BY <1>1 DEF InsertTask, Listener
<1>7. PublishMatrix \/ InsertTagged \/ InsertTag => Unaffected /\ listener'.at = "idle"
  BY DEF PublishMatrix, InsertTagged, InsertTag, IdleListener
<1>10. InsertLive => Unaffected /\ listener'.at \in {"idle", "matrix"}
  <2>1. [listener EXCEPT !.at = "matrix", !.jid = None].at = "matrix"
    BY <1>1 DEF Listener
  <2> QED
    BY <2>1 DEF InsertLive, IdleListener
<1>9. NewRequest => \/ Unaffected /\ UNCHANGED listener
                    \/ Unaffected /\ listener'.jid = next_jid
                    \/ Unaffected /\ listener'.at = "matrix"
  BY <1>3, <1>4, <1>8 DEF NewRequest
<1> QED
  BY <1>5, <1>6, <1>7, <1>9, <1>10 DEF FinishRequest

(* Only requests that hold the locks insert or replace tasks, and then     *)
(* nothing is about to be removed.                                         *)
LEMMA TouchedUnlocked ==
    ASSUME Typing, NewRequest \/ FinishRequest, ~UNCHANGED tasks
    PROVE  worker.to_remove = {}
<1>1. ~WorkerHoldsLocks
  BY DEF NewRequest, FinishRequest, MakeAvailable, RemoveAvailable, CancelJob, HoldJob,
         UnholdJob, AddJobTimeout, CloneJob, TagJob, UntagJob, AddJob, AddTaggedJob, AddTag,
         AddMatrix, SetUpMachine, Allocate, MatrixAllocate, InsertTask, InsertLive,
         PublishMatrix, InsertTagged, InsertTag, Handle
<1>2. worker \in Worker
  BY Types
<1> QED
  BY <1>1, <1>2 DEF WorkerHoldsLocks, Worker, Typing, WorkerTyped

(* The requests keep the run of every task, and insert waiting ones.       *)
LEMMA RequestShown ==
    ASSUME Typing, Safe, Orderly', Shown, NewRequest \/ FinishRequest PROVE Shown'
<1>1. /\ Unaffected
      /\ listener'.at \in {"insert_task", "insert_tagged"} =>
            \/ UNCHANGED listener
            \/ listener'.jid \notin copying \cup DOMAIN copying_flags
  BY ListenerCopies, NextUnknown
<1>2. UNCHANGED <<copying, copying_flags, worker>>
  BY <1>1 DEF Unaffected
<1>3. CASE UNCHANGED tasks
  BY <1>1, <1>2, <1>3, IdleShown
<1>4. CASE ~UNCHANGED tasks
  <2>1. \A j \in DOMAIN tasks : RequestKeeps(j)
    BY NewRequestKeeps, FinishRequestKeeps
  <2>2. worker.to_remove = {} /\ worker'.to_remove = {}
    BY <1>2, <1>4, TouchedUnlocked
  <2>3. ASSUME NEW j \in DOMAIN tasks' \ DOMAIN tasks
        PROVE  tasks'[j].state = "Waiting" /\ j \notin copying \cup DOMAIN copying_flags
    <3>1. TaskReplaced => DOMAIN tasks' = DOMAIN tasks
      BY DEF TaskReplaced
    <3>2. \A k : TaskInserted(k) => j = k /\ tasks'[j].state = "Waiting"
      BY <2>3 DEF TaskInserted, Put
    <3>3. /\ tasks'[j].state = "Waiting"
          /\ \/ j = next_jid
             \/ j = listener.jid /\ listener.at \in {"insert_task", "insert_tagged"}
      BY <1>4, <2>3, <3>1, <3>2, NewRequestForm, FinishRequestForm DEF TasksKept
    <3> QED
      BY <3>3, NextUnknown DEF Shown, CopiedOnce
  <2> QED
    BY <1>1, <1>2, <2>1, <2>2, <2>3, KeptShown
<1> QED
  BY <1>3, <1>4

(* The copier thread reports on what it was asked for.                     *)
LEMMA EnvironmentShown == ASSUME Shown, NEW j, Environment(j) PROVE Shown'
<1>1. UNCHANGED <<tasks, worker, listener>>
  BY DEF Environment, ProcessExits, CopierReports, shared
<1>2. copying' \cup DOMAIN copying_flags' \subseteq copying \cup DOMAIN copying_flags
  BY DEF Environment, ProcessExits, CopierReports, Put
<1> QED
  BY <1>1, <1>2, IdleShown

(* Every step keeps Shown.                                                 *)
LEMMA StepShown ==
    Typing /\ Safe /\ Orderly /\ Orderly' /\ Shown /\ [Next]_vars => Shown'
<1> SUFFICES ASSUME Typing, Safe, Orderly, Orderly', Shown, [Next]_vars PROVE Shown'
  OBVIOUS
<1>1. CASE UNCHANGED vars
  BY <1>1, IdleShown DEF vars, shared
<1>2. WorkThreadStep => Shown'
  BY TryDriveSmShown, IterationShown, ReapShown, CloneFailedShown DEF WorkThreadStep
<1> QED
  BY <1>1, <1>2, RequestShown, EnvironmentShown DEF Next

(* Shown holds throughout.                                                 *)
THEOREM ShownInvariant == Spec => []Shown
<1>1. Typing /\ Safe /\ Orderly /\ Orderly' /\ Shown /\ [Next]_vars => Shown'
  BY StepShown
<1> QED
  BY <1>1, InitShown, TypingInvariant, SafetyInvariant, OrderlyInvariant, PTL DEF Spec

-----------------------------------------------------------------------------
(* CopyService: a step that copies nothing, and the three that do.         *)
CopyStep == [Copies!Next]_<<copying, copying_flags>>

(* A drive requests the copy of a task that has never been copied, or      *)
(* takes a report that was made.                                           *)
LEMMA DriveCopies ==
    ASSUME Nat \subseteq WatchedIds, Typing, Shown, NEW j, TryDriveSm(j)
    PROVE  CopyStep
<1>1. CASE UNCHANGED <<copying, copying_flags>>
  BY <1>1 DEF CopyStep
<1>2. ASSUME NEW produced, CheckResults(j, produced), ~UNCHANGED <<copying, copying_flags>>
      PROVE  CopyStep
  <2>1. /\ copying' = copying \cup {j} /\ UNCHANGED copying_flags
        /\ StateOf(j) = "CheckingResults" /\ Driving(j)
    BY <1>2 DEF CheckResults, RequestCopy
  <2>2. j \in DOMAIN tasks /\ j \in Nat /\ tasks[j].state = "CheckingResults"
    BY <2>1, Driven DEF StateOf
  <2>3. j \notin copying \cup DOMAIN copying_flags
    BY <2>2 DEF Shown, CopiedOnce, Unchecked
  <2>4. Copies!Request(j)
    BY <2>1, <2>3 DEF Copies!Request
  <2> QED
    BY <2>2, <2>4 DEF CopyStep, Copies!Next
<1>3. CASE CopyReported(j)
  <2>1. j \in Nat
    BY <1>3, Driven DEF CopyReported
  <2>2. Copies!Take(j)
    BY <1>3 DEF CopyReported, TakeFlag, Drop, Copies!Take
  <2> QED
    BY <2>1, <2>2 DEF CopyStep, Copies!Next
<1> QED
  BY <1>1, <1>2, <1>3 DEF TryDriveSm, DriveHeld, NoMachine, Start, AllCommandsDone,
     CommandFailed, NextCommand, TimeOut, StillRunning, CheckPanics, StillCopying, Finalize,
     DriveTerminal, DriveError, DriveCanceled

(* Every step is one of CopyService, or none.                              *)
LEMMA StepCopies ==
    Nat \subseteq WatchedIds /\ Typing /\ Shown /\ [Next]_vars => CopyStep
<1> SUFFICES ASSUME Nat \subseteq WatchedIds, Typing, Shown, [Next]_vars PROVE CopyStep
  OBVIOUS
<1>1. CASE UNCHANGED <<copying, copying_flags>>
  BY <1>1 DEF CopyStep
<1>2. ASSUME NEW j, Environment(j), ~UNCHANGED <<copying, copying_flags>> PROVE CopyStep
  <2>1. PICK result \in CopierThreadResult, again \in BOOLEAN : CopierReports(j, result, again)
    BY <1>2 DEF Environment, ProcessExits
  <2>2. j \in Nat
    BY <2>1, Types DEF CopierReports, Issued
  <2>3. Copies!Report(j, result)
    BY <2>1 DEF CopierReports, Copies!Report, Put
  <2> QED
    BY <2>1, <2>2, <2>3 DEF CopyStep, Copies!Next
<1>3. ASSUME NewRequest \/ FinishRequest PROVE CopyStep
  <2>1. UNCHANGED <<copying, copying_flags>>
    BY <1>3, ListenerCopies DEF Unaffected
  <2> QED
    BY <1>1, <2>1
<1>4. WorkThreadStep => CopyStep
  <2>1. \/ ProcessNotifications \/ BeginIteration \/ EndDriving \/ Reap \/ EndIteration
        \/ \E k \in worker.to_clone : CloneFailed(k)
        => UNCHANGED <<copying, copying_flags>>
    BY DEF ProcessNotifications, BeginIteration, EndDriving, Reap, EndIteration, CloneFailed
  <2> QED
    BY <1>1, <2>1, DriveCopies DEF WorkThreadStep
<1> QED
  BY <1>1, <1>2, <1>3, <1>4 DEF Next, vars

(* The work thread keeps its side of the bargain with the copier thread:   *)
(* it asks for one copy per task (sm.rs:431), and acts on reports that     *)
(* were made (sm.rs:98).                                                   *)
THEOREM ServerUsesCopyService == Nat \subseteq WatchedIds => (Spec => UsesCopyService)
<1> SUFFICES ASSUME Nat \subseteq WatchedIds PROVE Spec => UsesCopyService
  OBVIOUS
<1>1. Init => Copies!Init
  <2>1. Init => DOMAIN copying_flags = {} /\ copying_flags = [j \in {} |-> None]
    BY DEF Init, EmptyMap
  <2>2. [j \in {} |-> None] = [j \in {} |-> "none"]
    OBVIOUS
  <2> QED
    BY <2>1, <2>2 DEF Init, Copies!Init
<1>2. Typing /\ Shown /\ [Next]_vars => CopyStep
  BY StepCopies
<1> QED
  BY <1>1, <1>2, TypingInvariant, ShownInvariant, PTL
     DEF Spec, UsesCopyService, Copies!Spec, CopyStep

-----------------------------------------------------------------------------
(* JobStatus: what clients see, and a step of it as they see it.           *)
Seen == [j \in DOMAIN tasks |-> StatusOf(tasks[j])]
ClientStep == [Clients!Next]_Seen

(* The changes of a task that JobStatus allows.                            *)
Before == {"Running", "CheckingResults", "Finalize"}
Seems(s, t) ==
    \/ StatusOf(t) = StatusOf(s)
    \/ t.state \in {"Canceled", "Killed"}
    \/ s.state = "Waiting" /\ t.state \in {"Held", "Running", "Error"}
    \/ s.state = "Held" /\ t.state = "Waiting"
    \/ /\ t.machine = s.machine
       /\ \/ s.state \in Before /\ t.state \in {"CopyingResults", "Done", "DoneWithResults", "Error"}
          \/ s.state = "CopyingResults" /\ t.state \in {"Finalize", "Error"}

(* What each state looks like (Task::status).                              *)
Look(status, machine, output) == [status |-> status, machine |-> machine, output |-> output]

(* Each state has one look, given the machine.                             *)
LEMMA Looks ==
    ASSUME NEW t
    PROVE  /\ t.state = "Waiting" => StatusOf(t) = Look("Waiting", None, FALSE)
           /\ t.state = "Held" => StatusOf(t) = Look("Held", None, FALSE)
           /\ t.state \in Before => StatusOf(t) = Look("Running", t.machine, FALSE)
           /\ t.state = "CopyingResults" => StatusOf(t) = Look("Copyresults", t.machine, FALSE)
           /\ t.state = "Done" => StatusOf(t) = Look("Done", t.machine, FALSE)
           /\ t.state = "DoneWithResults" => StatusOf(t) = Look("Done", t.machine, TRUE)
           /\ t.state \in {"Error", "ErrorDone"} => StatusOf(t) = Look("Failed", t.machine, FALSE)
           /\ t.state \in {"Canceled", "Killed"} => StatusOf(t) = Look("Canceled", None, FALSE)
<1>1. ASSUME t.state = "Waiting" PROVE StatusOf(t) = Look("Waiting", None, FALSE)
  BY <1>1 DEF StatusOf, Look
<1>2. ASSUME t.state = "Held" PROVE StatusOf(t) = Look("Held", None, FALSE)
  BY <1>2 DEF StatusOf, Look
<1>3. ASSUME t.state \in Before PROVE StatusOf(t) = Look("Running", t.machine, FALSE)
  <2>1. CASE t.state = "Running"
    BY <2>1 DEF StatusOf, Look
  <2>2. CASE t.state = "CheckingResults"
    BY <2>2 DEF StatusOf, Look
  <2>3. CASE t.state = "Finalize"
    BY <2>3 DEF StatusOf, Look
  <2> QED
    BY <1>3, <2>1, <2>2, <2>3 DEF Before
<1>4. ASSUME t.state = "CopyingResults" PROVE StatusOf(t) = Look("Copyresults", t.machine, FALSE)
  BY <1>4 DEF StatusOf, Look
<1>5. ASSUME t.state = "Done" PROVE StatusOf(t) = Look("Done", t.machine, FALSE)
  BY <1>5 DEF StatusOf, Look
<1>6. ASSUME t.state = "DoneWithResults" PROVE StatusOf(t) = Look("Done", t.machine, TRUE)
  BY <1>6 DEF StatusOf, Look
<1>7. ASSUME t.state \in {"Error", "ErrorDone"} PROVE StatusOf(t) = Look("Failed", t.machine, FALSE)
  BY <1>7 DEF StatusOf, Look
<1>8. ASSUME t.state \in {"Canceled", "Killed"} PROVE StatusOf(t) = Look("Canceled", None, FALSE)
  BY <1>8 DEF StatusOf, Look
<1> QED
  BY <1>1, <1>2, <1>3, <1>4, <1>5, <1>6, <1>7, <1>8

(* ... and that it is well-formed: a placed task has a machine.            *)
LEMMA LooksWell ==
    ASSUME NEW t \in Task, HasMachine(t), t.state # "Unknown"
    PROVE  Clients!WellFormed(StatusOf(t))
<1>1. \A m \in Machines : /\ \A st \in {"Running", "Copyresults", "Done", "Failed"} :
                                Clients!WellFormed(Look(st, m, FALSE))
                          /\ Clients!WellFormed(Look("Done", m, TRUE))
  BY NoneAssumption DEF Look, Clients!WellFormed, Clients!View, Clients!Status, Clients!Placed
<1>2. \A st \in {"Waiting", "Held", "Canceled"} : Clients!WellFormed(Look(st, None, FALSE))
  BY DEF Look, Clients!WellFormed, Clients!View, Clients!Status, Clients!Placed
<1>3. t.state \in TaskState /\ t.machine \in Machines \cup {None}
  BY DEF Task
<1>4. t.state \in Holding \cup {"Done", "DoneWithResults", "ErrorDone"} => t.machine \in Machines
  BY <1>3 DEF HasMachine
<1> QED
  BY <1>1, <1>2, <1>3, <1>4, Looks DEF TaskState, Holding, Terminal, Before

(* A change that Seems to be a step of JobStatus is one.                   *)
LEMMA SeemsAllowed ==
    ASSUME NEW s \in Task, HasMachine(s), NEW t \in Task, HasMachine(t), Seems(s, t),
           NEW j \in DOMAIN Seen, Seen[j] = StatusOf(s),
           Seen' = [Seen EXCEPT ![j] = StatusOf(t)]
    PROVE  ClientStep
<1> DEFINE w == StatusOf(t)
<1>1. CASE StatusOf(t) = StatusOf(s)
  BY <1>1 DEF ClientStep, Seen
<1>2. t.state # "Unknown" =>
         /\ Clients!WellFormed(w)
         /\ w \in [status : {w.status}, machine : {w.machine}, output : BOOLEAN]
  <2>1. t.state # "Unknown" => Clients!WellFormed(w)
    BY LooksWell
  <2>2. t.state # "Unknown" => w \in Clients!View
    BY <2>1 DEF Clients!WellFormed
  <2> HIDE DEF w
  <2> QED
    BY <2>1, <2>2 DEF Clients!View
<1>3. \A statuses, ms : t.state # "Unknown" /\ w.status \in statuses /\ w.machine \in ms
         => \E v \in Clients!Views(statuses, ms) : Clients!Become(j, v)
  <2> SUFFICES ASSUME NEW statuses, NEW ms, t.state # "Unknown", w.status \in statuses,
                      w.machine \in ms
               PROVE  \E v \in Clients!Views(statuses, ms) : Clients!Become(j, v)
    OBVIOUS
  <2>1. w \in Clients!Views(statuses, ms)
    <3> HIDE DEF w
    <3> QED
      BY <1>2 DEF Clients!Views
  <2>2. Clients!Become(j, w)
    BY DEF Clients!Become, Seen
  <2> QED
    BY <2>1, <2>2
<1>4. t.machine \in Machines \cup {None} /\ (t.state \in Holding => t.machine \in Machines)
  BY DEF Task, HasMachine
<1> HIDE DEF w
<1>5. CASE t.state \in {"Canceled", "Killed"}
  <2>1. w.status = "Canceled" /\ w.machine = None
    BY <1>5, Looks DEF w, Look
  <2>2. Clients!Cancel(j)
    BY <1>3, <1>5, <2>1 DEF Clients!Cancel
  <2> QED
    BY <2>2 DEF ClientStep, Clients!Next, Seen
<1>6. CASE s.state = "Waiting" /\ t.state = "Held"
  <2>1. w.status = "Held" /\ w.machine = None /\ Seen[j].status = "Waiting"
    BY <1>6, Looks DEF w, Look
  <2>2. Clients!Hold(j)
    BY <1>3, <1>6, <2>1 DEF Clients!Hold, Seen
  <2> QED
    BY <2>2 DEF ClientStep, Clients!Next, Seen
<1>7. CASE s.state = "Held" /\ t.state = "Waiting"
  <2>1. w.status = "Waiting" /\ w.machine = None /\ Seen[j].status = "Held"
    BY <1>7, Looks DEF w, Look
  <2>2. Clients!Unhold(j)
    BY <1>3, <1>7, <2>1 DEF Clients!Unhold, Seen
  <2> QED
    BY <2>2 DEF ClientStep, Clients!Next, Seen
<1>8. CASE s.state = "Waiting" /\ t.state \in {"Running", "Error"}
  <2>1. w.status \in {"Running", "Failed"} /\ w.machine \in Machines /\ Seen[j].status = "Waiting"
    BY <1>4, <1>8, Looks DEF w, Look, Before, Holding
  <2>2. Clients!Place(j)
    BY <1>3, <1>8, <2>1 DEF Clients!Place, Seen
  <2> QED
    BY <2>2 DEF ClientStep, Clients!Next, Seen
<1>9. CASE /\ t.machine = s.machine /\ s.state \in Before
           /\ t.state \in {"CopyingResults", "Done", "DoneWithResults", "Error"}
  <2>1. Seen[j].status = "Running" /\ Seen[j].machine = s.machine
    BY <1>9, Looks DEF Look
  <2>2. w.status \in {"Copyresults", "Done", "Failed"} /\ w.machine = s.machine
    BY <1>9, Looks DEF w, Look
  <2>3. Clients!Advance(j)
    BY <1>3, <1>9, <2>1, <2>2 DEF Clients!Advance, Seen
  <2> QED
    BY <2>3 DEF ClientStep, Clients!Next, Seen
<1>10. CASE /\ t.machine = s.machine /\ s.state = "CopyingResults"
            /\ t.state \in {"Finalize", "Error"}
  <2>1. Seen[j].status = "Copyresults" /\ Seen[j].machine = s.machine
    BY <1>10, Looks DEF Look
  <2>2. w.status \in {"Running", "Failed"} /\ w.machine = s.machine
    BY <1>10, Looks DEF w, Look, Before
  <2>3. Clients!Copied(j)
    BY <1>3, <1>10, <2>1, <2>2 DEF Clients!Copied, Seen
  <2> QED
    BY <2>3 DEF ClientStep, Clients!Next, Seen
<1> QED
  BY <1>1, <1>5, <1>6, <1>7, <1>8, <1>9, <1>10 DEF Seems

(* Replacing one task.                                                     *)
LEMMA ReplacedSeen ==
    ASSUME Typing, Typing', NEW j \in DOMAIN tasks, NEW t, tasks' = [tasks EXCEPT ![j] = t],
           Seems(tasks[j], t)
    PROVE  ClientStep
<1>1. DOMAIN tasks' = DOMAIN tasks /\ \A k \in DOMAIN tasks : tasks'[k] = IF k = j THEN t ELSE tasks[k]
  BY Types DEF IsMap
<1>2. t \in Task /\ HasMachine(t)
  <2>1. IsMap(tasks', Issued', Task) /\ HasMachine(tasks'[j])
    BY <1>1 DEF Typing, TypeOK, Placed, Issued
  <2> QED
    BY <1>1, <2>1 DEF IsMap
<1>3. tasks[j] \in Task /\ HasMachine(tasks[j])
  BY Types, MapAt DEF Typing, Placed
<1>4. Seen' = [Seen EXCEPT ![j] = StatusOf(t)] /\ Seen[j] = StatusOf(tasks[j]) /\ j \in DOMAIN Seen
  BY <1>1 DEF Seen
<1> QED
  BY <1>2, <1>3, <1>4, SeemsAllowed

(* Inserting one that waits.                                               *)
LEMMA InsertedSeen ==
    ASSUME Nat \subseteq WatchedIds, NEW k \in Nat, k \notin DOMAIN tasks, TaskInserted(k)
    PROVE  ClientStep
<1>1. PICK t : tasks' = Put(tasks, k, t) /\ t.state = "Waiting"
  BY DEF TaskInserted
<1>2. StatusOf(t) = [status |-> "Waiting", machine |-> None, output |-> FALSE]
  BY <1>1, Looks DEF Look
<1>3. /\ DOMAIN tasks' = DOMAIN tasks \cup {k} /\ tasks'[k] = t
      /\ \A i \in DOMAIN tasks : tasks'[i] = tasks[i]
  BY <1>1 DEF Put
<1>4. Seen' = [i \in DOMAIN Seen \cup {k} |->
                 IF i = k THEN [status |-> "Waiting", machine |-> None, output |-> FALSE]
                 ELSE Seen[i]]
  BY <1>2, <1>3 DEF Seen
<1>5. Clients!Submit(k)
  BY <1>4 DEF Clients!Submit, Seen
<1> QED
  BY <1>5 DEF ClientStep, Clients!Next, Seen

-----------------------------------------------------------------------------
(* Tasks that stay as they are, stay as they are seen.                     *)
LEMMA KeptSeen == ASSUME UNCHANGED tasks PROVE ClientStep
BY DEF ClientStep, Seen

(* Two tasks on the same machine look the same in states that differ only  *)
(* for the server.                                                         *)
LEMMA SameLook ==
    ASSUME NEW s, NEW t, t.machine = s.machine,
           \/ t.state = s.state
           \/ s.state \in Before /\ t.state \in Before
           \/ s.state \in {"Error", "ErrorDone"} /\ t.state \in {"Error", "ErrorDone"}
    PROVE  StatusOf(t) = StatusOf(s)
<1>1. CASE t.state = s.state
  BY <1>1 DEF StatusOf
<1>2. CASE s.state \in Before /\ t.state \in Before
  <2>1. StatusOf(s) = Look("Running", s.machine, FALSE)
    BY <1>2, Looks
  <2>2. StatusOf(t) = Look("Running", t.machine, FALSE)
    BY <1>2, Looks
  <2> QED
    BY <2>1, <2>2
<1>3. CASE s.state \in {"Error", "ErrorDone"} /\ t.state \in {"Error", "ErrorDone"}
  <2>1. StatusOf(s) = Look("Failed", s.machine, FALSE)
    BY <1>3, Looks
  <2>2. StatusOf(t) = Look("Failed", t.machine, FALSE)
    BY <1>3, Looks
  <2> QED
    BY <2>1, <2>2
<1> QED
  BY <1>1, <1>2, <1>3

(* Every drive.                                                            *)
LEMMA TryDriveSmSeen == ASSUME Typing, Typing', Shown, NEW j, TryDriveSm(j) PROVE ClientStep
<1>1. Driving(j)
  BY DEF TryDriveSm, DriveHeld, NoMachine, Start, AllCommandsDone, CommandFailed, NextCommand,
         TimeOut, StillRunning, CheckResults, CheckPanics, CopyReported, StillCopying, Finalize,
         DriveTerminal, DriveError, DriveCanceled, Polled
<1>2. /\ tasks[j] \in Task /\ j \in DOMAIN tasks /\ worker.to_remove = {}
      /\ tasks[j].state # "Canceled" /\ Failing(tasks[j])
  BY <1>1, Driven DEF Driving, Shown, OneRemoved, TimedOutFails
<1>3. \A t : tasks' = [tasks EXCEPT ![j] = t] /\ Seems(tasks[j], t) => ClientStep
  BY <1>2, ReplacedSeen
<1>4. StateOf(j) # "Canceled" => StateOf(j) = tasks[j].state
  BY DEF StateOf
<1> DEFINE Goes(st) == [tasks[j] EXCEPT !.state = st]
<1>5. \A st : Goes(st).state = st /\ Goes(st).machine = tasks[j].machine
  BY <1>2 DEF Task
<1>6. \/ DriveHeld(j) \/ NoMachine(j) \/ StillCopying(j) \/ DriveTerminal(j)
      \/ StillRunning(j) \/ CheckPanics(j)
      => ClientStep
  BY KeptSeen DEF DriveHeld, NoMachine, StillCopying, DriveTerminal, StillRunning,
     CheckPanics, shared
<1>7. ASSUME NEW m, NEW spawned, Start(j, m, spawned) PROVE ClientStep
  <2>1. tasks[j].state = "Waiting" /\ Launched(tasks[j], m, spawned).state \in {"Running", "Error"}
    BY <1>2, <1>4, <1>7 DEF Start, Launched, Task
  <2> QED
    BY <1>3, <1>7, <2>1 DEF Start, Seems
<1>8. ASSUME NEW spawned, NextCommand(j, spawned) PROVE ClientStep
  <2> DEFINE t == Advanced(tasks[j], spawned)
  <2>1. tasks[j].state = "Running" /\ t.machine = tasks[j].machine /\ t.state \in {"Running", "Error"}
    BY <1>2, <1>4, <1>8 DEF NextCommand, Polled, Advanced, Task
  <2> HIDE DEF t
  <2>2. Seems(tasks[j], t)
    BY <2>1, SameLook DEF Seems, Before
  <2> QED
    BY <1>3, <1>8, <2>2 DEF NextCommand, t
<1>9. AllCommandsDone(j) => ClientStep
  <2> DEFINE t == [tasks[j] EXCEPT !.state = "CheckingResults", !.index = 0]
  <2>1. AllCommandsDone(j) => tasks[j].state = "Running" /\ tasks' = [tasks EXCEPT ![j] = t]
    BY <1>4 DEF AllCommandsDone, Polled
  <2>2. t.state = "CheckingResults" /\ t.machine = tasks[j].machine
    BY <1>2 DEF Task
  <2> HIDE DEF t
  <2>3. tasks[j].state = "Running" => Seems(tasks[j], t)
    BY <2>2, SameLook DEF Seems, Before
  <2> QED
    BY <1>3, <2>1, <2>3
<1>10. CommandFailed(j) => ClientStep
  <2>1. CommandFailed(j) => tasks[j].state = "Running" /\ tasks' = [tasks EXCEPT ![j] = Goes("Error")]
    BY <1>4 DEF CommandFailed, Polled
  <2> HIDE DEF Goes
  <2> QED
    BY <1>3, <1>5, <2>1 DEF Seems, Before
<1>11. TimeOut(j) => ClientStep
  <2> DEFINE t == [tasks[j] EXCEPT !.timedout = tasks[j].index, !.canceled = "keep"]
  <2>1. t.state = tasks[j].state /\ t.machine = tasks[j].machine
    BY <1>2 DEF Task
  <2> HIDE DEF t
  <2>2. Seems(tasks[j], t)
    BY <2>1, SameLook DEF Seems
  <2> QED
    BY <1>3, <2>2 DEF TimeOut, t
<1>12. ASSUME NEW produced, CheckResults(j, produced) PROVE ClientStep
  <2>1. /\ tasks[j].state = "CheckingResults"
        /\ \/ tasks' = [tasks EXCEPT ![j] = Goes("CopyingResults")]
           \/ tasks' = [tasks EXCEPT ![j] = Goes("Finalize")]
    BY <1>4, <1>12 DEF CheckResults
  <2> HIDE DEF Goes
  <2>2. Seems(tasks[j], Goes("CopyingResults"))
    BY <1>5, <2>1 DEF Seems, Before
  <2>3. Seems(tasks[j], Goes("Finalize"))
    BY <1>5, <2>1, SameLook DEF Seems, Before
  <2> QED
    BY <1>3, <2>1, <2>2, <2>3
<1>13. CopyReported(j) => ClientStep
  <2> DEFINE t == [tasks[j] EXCEPT !.state = "Finalize", !.results = TRUE]
  <2>1. CopyReported(j) => /\ tasks[j].state = "CopyingResults"
                           /\ \/ tasks' = [tasks EXCEPT ![j] = t]
                              \/ tasks' = [tasks EXCEPT ![j] = Goes("Error")]
    BY <1>4 DEF CopyReported
  <2>2. t.state = "Finalize" /\ t.machine = tasks[j].machine
    BY <1>2 DEF Task
  <2> HIDE DEF t, Goes
  <2> QED
    BY <1>3, <1>5, <2>1, <2>2 DEF Seems
<1>14. Finalize(j) => ClientStep
  <2>1. Finalize(j) => /\ tasks[j].state = "Finalize"
                       /\ \/ tasks' = [tasks EXCEPT ![j] = Goes("DoneWithResults")]
                          \/ tasks' = [tasks EXCEPT ![j] = Goes("Done")]
    BY <1>4 DEF Finalize
  <2> HIDE DEF Goes
  <2> QED
    BY <1>3, <1>5, <2>1 DEF Seems, Before
<1>15. DriveError(j) => ClientStep
  <2>1. DriveError(j) => tasks[j].state = "Error" /\ tasks' = [tasks EXCEPT ![j] = Goes("ErrorDone")]
    BY <1>4 DEF DriveError
  <2> HIDE DEF Goes
  <2>2. tasks[j].state = "Error" => Seems(tasks[j], Goes("ErrorDone"))
    BY <1>5, SameLook DEF Seems
  <2> QED
    BY <1>3, <2>1, <2>2
<1>16. DriveCanceled(j) => ClientStep
  <2> DEFINE t == Stopped(tasks[j])
  <2>1. \/ t.state \in {"Canceled", "Killed"}
        \/ /\ t.state = "Error" /\ t.machine = tasks[j].machine
           /\ tasks[j].state \in {"Running", "Error", "ErrorDone"}
    BY <1>2 DEF Stopped, Task, Failing
  <2> HIDE DEF t
  <2>2. Seems(tasks[j], t)
    BY <2>1, SameLook DEF Seems, Before
  <2> QED
    BY <1>3, <2>2 DEF DriveCanceled, t
<1> QED
  BY <1>6, <1>7, <1>8, <1>9, <1>10, <1>11, <1>12, <1>13, <1>14, <1>15, <1>16 DEF TryDriveSm

(* Reaping forgets the one task that was stopped to be removed.            *)
LEMMA ReapSeen == ASSUME Shown, Reap PROVE ClientStep
<1>1. CASE UNCHANGED tasks
  BY <1>1, KeptSeen
<1>2. CASE ~UNCHANGED tasks
  <2>1. tasks' = Drop(tasks, worker.to_remove \cap DOMAIN tasks)
    BY <1>2 DEF Reap
  <2>2. CASE worker.to_remove \cap DOMAIN tasks = {}
    <3>1. Seen' = Seen
      BY <2>1, <2>2 DEF Seen, Drop
    <3> QED
      BY <3>1 DEF ClientStep
  <2>3. CASE worker.to_remove \cap DOMAIN tasks # {}
    <3>1. PICK j \in DOMAIN tasks : worker.to_remove \cap DOMAIN tasks = {j}
      BY <2>3 DEF Shown, OneRemoved
    <3>2. tasks[j].state = "Canceled"
      BY <3>1 DEF Shown, OneRemoved
    <3>3. Seen[j].status = "Canceled"
      BY <3>2, Looks DEF Seen, Look
    <3>4. Seen' = [k \in DOMAIN Seen \ {j} |-> Seen[k]]
      BY <2>1, <3>1 DEF Seen, Drop
    <3>5. Clients!Forget(j)
      BY <3>3, <3>4 DEF Clients!Forget, Seen
    <3> QED
      BY <3>5 DEF ClientStep, Clients!Next, Seen
  <2> QED
    BY <2>2, <2>3
<1> QED
  BY <1>1, <1>2

(* A retry is submitted.                                                   *)
LEMMA CloneFailedSeen ==
    ASSUME Nat \subseteq WatchedIds, Typing, NEW k \in worker.to_clone, CloneFailed(k)
    PROVE  ClientStep
<1>1. CASE UNCHANGED tasks
  BY <1>1, KeptSeen
<1>2. CASE ~UNCHANGED tasks
  <2> DEFINE t == [CloneTask(tasks[k]) EXCEPT !.attempt = tasks[k].attempt + 1]
  <2>1. tasks' = Put(tasks, next_jid, t)
    BY <1>2 DEF CloneFailed, InsertClone
  <2>2. CloneTask(tasks[k]) \in Task /\ CloneTask(tasks[k]).state = "Waiting"
    BY CloneTaskType, Types, MapAt DEF Typing, WorkerTyped
  <2>3. t.state = "Waiting"
    BY <2>2 DEF Task
  <2> HIDE DEF t
  <2>4. TaskInserted(next_jid)
    BY <2>1, <2>3 DEF TaskInserted
  <2> QED
    BY <2>4, NextUnknown, InsertedSeen, Types
<1> QED
  BY <1>1, <1>2

(* The requests.                                                           *)
LEMMA RequestSeen ==
    ASSUME Nat \subseteq WatchedIds, Typing, Typing', Safe, NewRequest \/ FinishRequest
    PROVE  ClientStep
<1>1. ASSUME TaskReplaced PROVE ClientStep
  <2> PICK k \in DOMAIN tasks :
           \E t : tasks' = [tasks EXCEPT ![k] = t] /\ SameRun(tasks[k], t)
    BY <1>1 DEF TaskReplaced
  <2>1. PICK t : tasks' = [tasks EXCEPT ![k] = t] /\ SameRun(tasks[k], t)
    OBVIOUS
  <2>2. Seems(tasks[k], t)
    BY <2>1, SameLook DEF SameRun, Seems
  <2> QED
    BY <2>1, <2>2, ReplacedSeen
<1>2. TasksKept => ClientStep
  BY KeptSeen DEF TasksKept
<1>3. TaskInserted(next_jid) => ClientStep
  BY NextUnknown, InsertedSeen, Types
<1> QED
  BY <1>1, <1>2, <1>3, NewRequestForm, FinishRequestForm, InsertedSeen

(* Every step is one of JobStatus, or none.                                *)
LEMMA StepSeen ==
    Nat \subseteq WatchedIds /\ Typing /\ Typing' /\ Safe /\ Shown /\ [Next]_vars => ClientStep
<1> SUFFICES ASSUME Nat \subseteq WatchedIds, Typing, Typing', Safe, Shown, [Next]_vars
             PROVE  ClientStep
  OBVIOUS
<1>1. CASE UNCHANGED vars
  BY <1>1, KeptSeen DEF vars, shared
<1>2. WorkThreadStep => ClientStep
  BY KeptSeen, TryDriveSmSeen, ReapSeen, CloneFailedSeen
     DEF WorkThreadStep, ProcessNotifications, BeginIteration, EndDriving, EndIteration, shared
<1>3. \A j : Environment(j) => ClientStep
  BY KeptSeen DEF Environment, ProcessExits, CopierReports, shared
<1> QED
  BY <1>1, <1>2, <1>3, RequestSeen DEF Next

(* What clients see of any task follows the life cycle that docs and       *)
(* clients rely on (Task::status, request.rs:77): from placement to the    *)
(* end it stays on one machine, only a cancelled task vanishes, and no     *)
(* finished one comes back.                                                *)
THEOREM ServerImplementsJobStatus == Nat \subseteq WatchedIds => (Spec => ImplementsJobStatus)
<1> SUFFICES ASSUME Nat \subseteq WatchedIds PROVE Spec => ImplementsJobStatus
  OBVIOUS
<1>1. Init => Clients!Init
  BY DEF Init, EmptyMap, Clients!Init
<1>2. Typing /\ Typing' /\ Safe /\ Shown /\ [Next]_vars => ClientStep
  BY StepSeen
<1> QED
  BY <1>1, <1>2, TypingInvariant, SafetyInvariant, ShownInvariant, PTL
     DEF Spec, ImplementsJobStatus, Clients!Spec, ClientStep, Seen

-----------------------------------------------------------------------------
(* What Server promises of machines, which it does not promise whatever    *)
(* clients do: a setup task takes the machine it names although a job runs *)
(* there, a machine that is removed may come back while its job still      *)
(* runs, and a job that timed out gives its machine back before it is      *)
(* blamed.  Without the request in question each machine runs one command  *)
(* at a time (MachineExclusive), and one that fails too often leaves its   *)
(* class (FaultyMachineQuarantined).                                       *)

(* The jobs of all tasks are jobs that clients submitted; those of a matrix*)
(* are made repeat_on_fail.                                                *)
Submittable ==
    JobSpecs \cup {[s EXCEPT !.repeat_on_fail = TRUE] : s \in JobSpecs}
             \cup (IF "SetUpMachine" \in Offered THEN SetupSpecs ELSE {})

(* The listener holds a task, which it may still insert.                   *)
TaskInHand == listener.at \notin {"idle", "insert_tag"}

AsSubmitted == /\ \A j \in DOMAIN tasks : tasks[j].job \in Submittable
               /\ TaskInHand => listener.task.job \in Submittable

(* The task that a submission makes.                                       *)
Submitted(t) == \E s \in Submittable : \E m, x, g : t = NewTask(s, m, x, g)

(* The listener keeps the task it holds, or makes one.                     *)
LEMMA TaskMade ==
    ASSUME Typing, [Next]_vars, TaskInHand'
    PROVE  (TaskInHand /\ listener'.task = listener.task) \/ Submitted(listener'.task)
<1> DEFINE Made == Submitted(listener'.task)
           Same == TaskInHand /\ listener'.task = listener.task
<1>1. listener \in Listener
  BY Types
<1>2. ASSUME NEW spec \in JobSpecs, NEW t, NEW n,
             AddJob(spec) \/ AddTaggedJob(spec, t) \/ AddMatrix(spec, n)
      PROVE  Made
  <2> DEFINE repeated == [spec EXCEPT !.repeat_on_fail = TRUE]
  <2>1. spec \in Submittable /\ repeated \in Submittable
    BY DEF Submittable
  <2> HIDE DEF repeated
  <2>2. ASSUME NEW point, NEW task, Allocate(point, task) PROVE listener'.task = task
    BY <1>1, <2>2 DEF Allocate, Listener
  <2>3. AddMatrix(spec, n) => listener'.task = NewTask(repeated, None, next_jid, None)
    BY DEF AddMatrix, repeated
  <2>4. AddJob(spec) => listener'.task = NewTask(spec, None, None, None)
    BY <2>2 DEF AddJob
  <2>5. AddTaggedJob(spec, t) => listener'.task = NewTask(spec, None, None, t)
    BY <2>2 DEF AddTaggedJob
  <2> QED
    BY <1>2, <2>1, <2>3, <2>4, <2>5 DEF Submitted
<1>3. ASSUME NEW spec \in SetupSpecs, NEW m, SetUpMachine(spec, m) PROVE Made
  <2>1. spec \in Submittable
    BY <1>3 DEF SetUpMachine, Accept, Submittable
  <2>2. listener'.task = NewTask(spec, m, None, None)
    BY <1>1, <1>3 DEF SetUpMachine, Allocate, Listener
  <2> QED
    BY <2>1, <2>2 DEF Submitted
<1>4. AddTag => FALSE
  BY <1>1 DEF AddTag, Allocate, Listener, TaskInHand
<1>5. UNCHANGED listener => Same
  BY DEF TaskInHand
<1>6. ASSUME NEW m, NEW c, NEW j, NEW how,
             \/ MakeAvailable(m, c) \/ RemoveAvailable(m) \/ CancelJob(j, how) \/ HoldJob(j)
             \/ UnholdJob(j) \/ AddJobTimeout(j) \/ CloneJob(j) \/ TagJob(j, c) \/ UntagJob(j)
      PROVE  UNCHANGED listener
  BY <1>6 DEF MakeAvailable, RemoveAvailable, CancelJob, HoldJob, UnholdJob, AddJobTimeout,
     CloneJob, TagJob, UntagJob
<1>7. NewRequest => Made \/ Same
  BY <1>2, <1>3, <1>4, <1>5, <1>6 DEF NewRequest
<1>8. MatrixAllocate \/ InsertTask => Same
  BY <1>1 DEF MatrixAllocate, InsertTask, Resume, Listener, TaskInHand
<1>9. InsertLive => Same
  <2>1. [listener EXCEPT !.at = "matrix", !.jid = None].task = listener.task
    BY <1>1 DEF Listener
  <2> QED
    BY <2>1 DEF InsertLive, Resume, TaskInHand, IdleListener
<1>10. PublishMatrix \/ InsertTagged \/ InsertTag => FALSE
  BY DEF PublishMatrix, InsertTagged, InsertTag, IdleListener, TaskInHand
<1>11. FinishRequest => Same
  BY <1>8, <1>9, <1>10 DEF FinishRequest
<1>12. ASSUME NEW j, TryDriveSm(j) PROVE UNCHANGED listener
  BY <1>12, DriveForm
<1>13. ASSUME NEW j, Environment(j) \/ CloneFailed(j) PROVE UNCHANGED listener
  BY <1>13 DEF Environment, ProcessExits, CopierReports, CloneFailed
<1>14. \/ ProcessNotifications \/ BeginIteration \/ EndDriving \/ Reap \/ EndIteration
       \/ UNCHANGED vars
       => UNCHANGED listener
  BY DEF ProcessNotifications, BeginIteration, EndDriving, Reap, EndIteration, vars
<1> QED
  BY <1>5, <1>7, <1>11, <1>12, <1>13, <1>14 DEF Next, WorkThreadStep

(* No step makes up a job.                                                 *)
LEMMA StepSubmitted == Typing /\ AsSubmitted /\ [Next]_vars => AsSubmitted'
<1> SUFFICES ASSUME Typing, AsSubmitted, [Next]_vars PROVE AsSubmitted'
  OBVIOUS
<1>1. TaskInHand' => listener'.task.job \in Submittable
  <2>1. \A s, m, x, g : NewTask(s, m, x, g).job = s
    BY DEF NewTask
  <2> QED
    BY <2>1, TaskMade DEF AsSubmitted, Submitted
<1> DEFINE Jobs == \A j \in DOMAIN tasks' : tasks'[j].job \in Submittable
<1>2. UNCHANGED tasks \/ Reaped => Jobs
  BY DEF AsSubmitted, Reaped, Drop
<1>3. Replaced => Jobs
  BY Types DEF AsSubmitted, Replaced, IsMap
<1>4. Cloned => Jobs
  BY DEF AsSubmitted, Cloned, Put
<1>5. Inserted => Jobs
  BY DEF AsSubmitted, Inserted, Inserting, Put, TaskInHand
<1>6. Jobs
  BY <1>2, <1>3, <1>4, <1>5, StepForm
<1> QED
  BY <1>1, <1>6 DEF AsSubmitted

(* Every task, retries and clones included, does what a client asked for.  *)
THEOREM JobsAsSubmitted == Spec => []AsSubmitted
<1>1. Init => AsSubmitted
  BY DEF Init, AsSubmitted, EmptyMap, TaskInHand, IdleListener
<1>2. Spec => []Typing
  BY TypingInvariant
<1> QED
  BY <1>1, <1>2, StepSubmitted, PTL DEF Spec

-----------------------------------------------------------------------------
(* Machine m is said to be running task k.                                 *)
Runs(ms, m, k) == m \in DOMAIN ms /\ ms[m].running = k

(* Two pools of machines that run the same.                                *)
SameRuns(ms, ns) == /\ DOMAIN ns = DOMAIN ms
                    /\ \A m \in DOMAIN ms : ns[m].running = ms[m].running

(* free_machine only takes away what the task itself is running.           *)
LEMMA FreeSparesOthers ==
    ASSUME NEW j, NEW ms, SameRuns(machines, ms), NEW m, NEW k, k # j, Runs(machines, m, k)
    PROVE  Runs(AfterFree(j, tasks[j], ms), m, k)
<1> DEFINE here == tasks[j].machine
<1>1. CASE Owns(j, tasks[j])
  <2>1. m # here
    BY <1>1 DEF Owns, Runs
  <2>2. AfterFree(j, tasks[j], ms) = [ms EXCEPT ![here] = Released(ms[here])]
    BY <1>1 DEF AfterFree
  <2> HIDE DEF here
  <2> QED
    BY <2>1, <2>2 DEF Runs, SameRuns
<1>2. CASE ~Owns(j, tasks[j])
  BY <1>2 DEF AfterFree, Runs, SameRuns
<1> QED
  BY <1>1, <1>2

(* What becomes of the machine of a driven task: the task has just been    *)
(* placed, or it is over, or it timed out, or it goes on where it is.      *)
Became(j, t) ==
    \/ Runs(machines', t.machine, j)
    \/ t.state \notin Holding
    \/ t.state = "Error" /\ tasks[j].timedout # None
    \/ /\ tasks[j].state \in Holding \ {"Error"} /\ tasks[j].canceled = None
       /\ t.machine = tasks[j].machine
       /\ Runs(machines, t.machine, j) => Runs(machines', t.machine, j)
OthersRun(j) == \A m, k : k \notin {j, None} /\ Runs(machines, m, k) => Runs(machines', m, k)
GoesOn(j) == \/ UNCHANGED <<tasks, machines>>
             \/ \E t : tasks' = [tasks EXCEPT ![j] = t] /\ Became(j, t)

(* A job that is placed takes a machine that runs nothing.                 *)
LEMMA StartOwns ==
    ASSUME Typing, NEW j, NEW m \in Machines, NEW spawned \in BOOLEAN, Start(j, m, spawned),
           tasks[j].job.ty = "Job"
    PROVE  OthersRun(j) /\ GoesOn(j)
<1> DEFINE t == Launched(tasks[j], m, spawned)
           st == [machines[m] EXCEPT !.running = j]
<1>1. /\ tasks[j] \in Task /\ tasks' = [tasks EXCEPT ![j] = t]
      /\ m \in DOMAIN machines /\ machines[m].running = None /\ machines' = Update(m, st)
  BY Driven DEF Start, Candidates
<1>2. machines[m] \in MachineStatus
  BY <1>1, Types, MapAt
<1>3. t.machine = m /\ st.running = j
  BY <1>1, <1>2 DEF Launched, Task, MachineStatus
<1> HIDE DEF t, st
<1>4. /\ DOMAIN machines' = DOMAIN machines /\ machines'[m] = st
      /\ \A n \in DOMAIN machines \ {m} : machines'[n] = machines[n]
  BY <1>1 DEF Update
<1>5. OthersRun(j)
  BY <1>1, <1>4 DEF OthersRun, Runs
<1>6. Became(j, t)
  BY <1>1, <1>3, <1>4 DEF Became, Runs
<1> QED
  BY <1>1, <1>5, <1>6 DEF GoesOn

(* A task that goes on keeps the machine it runs on.                       *)
LEMMA RunsOnOwns ==
    ASSUME Typing, NEW j, Driving(j), NEW t, tasks' = [tasks EXCEPT ![j] = t],
           tasks[j].state \in Holding \ {"Error"}, tasks[j].canceled = None,
           t.machine = tasks[j].machine, SameRuns(machines, machines')
    PROVE  OthersRun(j) /\ GoesOn(j)
<1>1. OthersRun(j)
  BY DEF OthersRun, Runs, SameRuns
<1>2. Became(j, t)
  BY DEF Became, Runs, SameRuns
<1> QED
  BY <1>1, <1>2 DEF GoesOn

(* A task that is over, or was stopped, gives its machine back.            *)
LEMMA EndsOwns ==
    ASSUME NEW j, NEW t, tasks' = [tasks EXCEPT ![j] = t], NEW ms, SameRuns(machines, ms),
           machines' = AfterFree(j, tasks[j], ms),
           t.state \notin Holding \/ (t.state = "Error" /\ tasks[j].timedout # None)
    PROVE  OthersRun(j) /\ GoesOn(j)
BY FreeSparesOthers DEF OthersRun, GoesOn, Became

(* Every drive of a job.                                                   *)
LEMMA DriveOwns ==
    ASSUME Typing, NEW j, TryDriveSm(j), tasks[j].job.ty = "Job"
    PROVE  OthersRun(j) /\ GoesOn(j)
<1> DEFINE Goal == OthersRun(j) /\ GoesOn(j)
           here == tasks[j].machine
           Where(st) == here \in DOMAIN machines => st.running = machines[here].running
<1>1. \A st : Where(st) => SameRuns(machines, Update(here, st))
  BY UpdateRuns DEF SameRuns
<1>2. SameRuns(machines, machines)
  BY DEF SameRuns
<1>3. here \in DOMAIN machines => machines[here] \in MachineStatus
  BY Types, MapAt
<1>4. Driving(j) => tasks[j] \in Task
  BY Driven
<1>5. ASSUME NEW m \in Machines, NEW spawned \in BOOLEAN, Start(j, m, spawned) PROVE Goal
  BY <1>5, StartOwns
<1>6. ASSUME UNCHANGED <<tasks, machines>> PROVE Goal
  BY <1>6 DEF OthersRun, GoesOn
<1>7. DriveHeld(j) \/ NoMachine(j) \/ StillRunning(j) \/ StillCopying(j) \/ DriveTerminal(j)
      => UNCHANGED <<tasks, machines>>
  BY DEF DriveHeld, NoMachine, StillRunning, StillCopying, DriveTerminal, shared
<1>8. ASSUME NEW spawned \in BOOLEAN,
             AllCommandsDone(j) \/ NextCommand(j, spawned) \/ CommandFailed(j) \/ TimeOut(j)
      PROVE  Goal
  <2>1. /\ Driving(j) /\ StateOf(j) = "Running" /\ UNCHANGED machines
    BY <1>8 DEF AllCommandsDone, NextCommand, CommandFailed, TimeOut, Polled
  <2>2. tasks[j].state = "Running" /\ tasks[j].canceled = None
    BY <2>1 DEF StateOf
  <2> DEFINE done    == [tasks[j] EXCEPT !.state = "CheckingResults", !.index = 0]
             failed  == [tasks[j] EXCEPT !.state = "Error"]
             next    == Advanced(tasks[j], spawned)
             stopped == [tasks[j] EXCEPT !.timedout = tasks[j].index, !.canceled = "keep"]
  <2>3. /\ done.machine = here /\ failed.machine = here /\ next.machine = here
        /\ stopped.machine = here
    BY <1>4, <2>1 DEF Task, Advanced
  <2>4. \E t \in {done, failed, next, stopped} : tasks' = [tasks EXCEPT ![j] = t]
    BY <1>8 DEF AllCommandsDone, NextCommand, CommandFailed, TimeOut
  <2> HIDE DEF done, failed, next, stopped
  <2>5. PICK t \in {done, failed, next, stopped} : tasks' = [tasks EXCEPT ![j] = t]
    BY <2>4
  <2>6. t.machine = here
    BY <2>3, <2>5
  <2> HIDE DEF here
  <2> QED
    BY <1>2, <2>1, <2>2, <2>5, <2>6, RunsOnOwns DEF Holding, here
<1>9. ASSUME NEW produced \in BOOLEAN, CheckResults(j, produced) PROVE Goal
  <2> DEFINE st == [machines[here] EXCEPT !.failures = 0]
             t  == [tasks[j] EXCEPT !.state = IF tasks[j].job.cp_results /\ produced
                                              THEN "CopyingResults" ELSE "Finalize"]
  <2>1. /\ Driving(j) /\ StateOf(j) = "CheckingResults" /\ machines' = Update(here, st)
        /\ tasks' = [tasks EXCEPT ![j] = t]
    BY <1>9 DEF CheckResults
  <2>2. tasks[j].state = "CheckingResults" /\ tasks[j].canceled = None
    BY <2>1 DEF StateOf
  <2>3. Where(st) /\ t.machine = here
    BY <1>3, <1>4, <2>1 DEF MachineStatus, Task
  <2>4. SameRuns(machines, machines')
    BY <1>1, <2>1, <2>3
  <2> HIDE DEF t, st
  <2> QED
    BY <2>1, <2>2, <2>3, <2>4, RunsOnOwns DEF Holding
<1>10. ASSUME CopyReported(j) PROVE Goal
  <2> DEFINE st     == [machines[here] EXCEPT !.class = UnknownHostClass]
             copied == [tasks[j] EXCEPT !.state = "Finalize", !.results = TRUE]
             failed == [tasks[j] EXCEPT !.state = "Error"]
  <2>1. /\ Driving(j) /\ StateOf(j) = "CopyingResults"
        /\ machines' \in {machines, Update(here, st)}
        /\ \E t \in {copied, failed} : tasks' = [tasks EXCEPT ![j] = t]
    BY <1>10 DEF CopyReported
  <2>2. tasks[j].state = "CopyingResults" /\ tasks[j].canceled = None
    BY <2>1 DEF StateOf
  <2>3. Where(st) /\ copied.machine = here /\ failed.machine = here
    BY <1>3, <1>4, <2>1 DEF MachineStatus, Task
  <2>4. SameRuns(machines, machines')
    BY <1>1, <1>2, <2>1, <2>3
  <2> HIDE DEF copied, failed
  <2>5. PICK t \in {copied, failed} : tasks' = [tasks EXCEPT ![j] = t]
    BY <2>1
  <2> QED
    BY <2>1, <2>2, <2>3, <2>4, <2>5, RunsOnOwns DEF Holding
<1>11. ASSUME Finalize(j) PROVE Goal
  <2> DEFINE t == [tasks[j] EXCEPT !.state = IF tasks[j].results THEN "DoneWithResults"
                                             ELSE "Done"]
  <2>1. /\ Driving(j) /\ tasks' = [tasks EXCEPT ![j] = t]
        /\ machines' = AfterFree(j, tasks[j], machines)
    BY <1>11 DEF Finalize
  <2>2. t.state \notin Holding
    BY <1>4, <2>1 DEF Task, Holding
  <2> HIDE DEF t
  <2> QED
    BY <1>2, <2>1, <2>2, EndsOwns
<1>12. ASSUME DriveError(j) PROVE Goal
  <2> DEFINE t == [tasks[j] EXCEPT !.state = "ErrorDone"]
             failures == IF machines[here].failures < MachineFailures
                         THEN machines[here].failures + 1 ELSE MachineFailures
             st == [machines[here] EXCEPT !.failures = failures]
  <2>1. /\ Driving(j) /\ tasks' = [tasks EXCEPT ![j] = t]
        /\ machines' = AfterFree(j, tasks[j], Update(here, st))
    BY <1>12 DEF DriveError
  <2>2. t.state \notin Holding
    BY <1>4, <2>1 DEF Task, Holding
  <2>3. Where(st)
    BY <1>3 DEF MachineStatus
  <2>4. SameRuns(machines, Update(here, st))
    BY <1>1, <2>3
  <2> HIDE DEF t, st
  <2> QED
    BY <2>1, <2>2, <2>4, EndsOwns
<1>13. ASSUME DriveCanceled(j) PROVE Goal
  <2> DEFINE t == Stopped(tasks[j])
  <2>1. /\ Driving(j) /\ tasks' = [tasks EXCEPT ![j] = t]
        /\ machines' = AfterFree(j, tasks[j], machines)
    BY <1>13 DEF DriveCanceled
  <2>2. t.state \notin Holding \/ (t.state = "Error" /\ tasks[j].timedout # None)
    BY <1>4, <2>1 DEF Task, Holding, Stopped
  <2> HIDE DEF t
  <2> QED
    BY <1>2, <2>1, <2>2, EndsOwns
<1>14. ASSUME CheckPanics(j) PROVE Goal
  <2> DEFINE st == [machines[here] EXCEPT !.failures = 0]
  <2>1. /\ Driving(j) /\ StateOf(j) = "CheckingResults" /\ machines' = Update(here, st)
        /\ UNCHANGED tasks
    BY <1>14 DEF CheckPanics
  <2>2. tasks[j].state = "CheckingResults" /\ tasks[j].canceled = None
    BY <2>1 DEF StateOf
  <2>3. SameRuns(machines, machines')
    BY <1>1, <1>3, <2>1 DEF MachineStatus
  <2>4. tasks' = [tasks EXCEPT ![j] = tasks[j]]
    BY <2>1, Types DEF IsMap
  <2> QED
    BY <2>1, <2>2, <2>3, <2>4, RunsOnOwns DEF Holding
<1> QED
  BY <1>5, <1>6, <1>7, <1>8, <1>9, <1>10, <1>11, <1>12, <1>13, <1>14 DEF TryDriveSm

-----------------------------------------------------------------------------
(* Instances in which no timeout is ever set.                              *)
NoTimeouts == /\ \A s \in JobSpecs \cup SetupSpecs : ~s.timeout
              /\ "AddJobTimeout" \notin Offered
Calm(t) == ~t.timeout /\ t.timedout = None
Untimed == /\ \A j \in DOMAIN tasks : Calm(tasks[j])
           /\ TaskInHand => Calm(listener.task)

(* A drive times a task out only if it has a timeout.                      *)
LEMMA DriveCalm ==
    ASSUME Typing, Untimed, NEW j, TryDriveSm(j)
    PROVE  UNCHANGED tasks \/ \E t : tasks' = [tasks EXCEPT ![j] = t] /\ Calm(t)
<1> DEFINE Form == UNCHANGED tasks \/ \E t : tasks' = [tasks EXCEPT ![j] = t] /\ Calm(t)
<1>1. Driving(j)
  BY DEF TryDriveSm, DriveHeld, NoMachine, Start, AllCommandsDone, CommandFailed, NextCommand,
         TimeOut, StillRunning, CheckResults, CheckPanics, CopyReported, StillCopying, Finalize,
         DriveTerminal, DriveError, DriveCanceled, Polled
<1>2. tasks[j] \in Task /\ Calm(tasks[j])
  BY <1>1, Driven DEF Untimed
<1>3. \A st : Calm([tasks[j] EXCEPT !.state = st])
  BY <1>2 DEF Task, Calm
<1>4. \A st, n : Calm([tasks[j] EXCEPT !.state = st, !.index = n])
  BY <1>2 DEF Task, Calm
<1>5. \A st : Calm([tasks[j] EXCEPT !.state = st, !.results = TRUE])
  BY <1>2 DEF Task, Calm
<1>6. Calm(Stopped(tasks[j]))
  BY <1>2 DEF Task, Stopped, Calm
<1>7. \A m, spawned : Calm(Launched(tasks[j], m, spawned)) /\ Calm(Advanced(tasks[j], spawned))
  BY <1>2 DEF Task, Launched, Advanced, Calm
<1>8. TimeOut(j) => FALSE
  BY <1>2 DEF TimeOut, Calm
<1> HIDE DEF Calm
<1>9. \/ DriveHeld(j) \/ NoMachine(j) \/ StillRunning(j) \/ StillCopying(j)
      \/ DriveTerminal(j) \/ CheckPanics(j)
      => Form
  BY DEF DriveHeld, NoMachine, StillRunning, StillCopying, DriveTerminal, CheckPanics, shared
<1>10. ASSUME NEW m, NEW spawned, Start(j, m, spawned) \/ NextCommand(j, spawned) PROVE Form
  BY <1>7, <1>10 DEF Start, NextCommand
<1>11. AllCommandsDone(j) => Form
  BY <1>4 DEF AllCommandsDone
<1>12. CommandFailed(j) \/ Finalize(j) \/ DriveError(j) => Form
  BY <1>3 DEF CommandFailed, Finalize, DriveError
<1>13. ASSUME NEW produced, CheckResults(j, produced) PROVE Form
  BY <1>3, <1>13 DEF CheckResults
<1>14. CopyReported(j) => Form
  <2>1. CopyReported(j) =>
           \/ tasks' = [tasks EXCEPT ![j] = [tasks[j] EXCEPT !.state = "Finalize",
                                                            !.results = TRUE]]
           \/ tasks' = [tasks EXCEPT ![j] = [tasks[j] EXCEPT !.state = "Error"]]
    BY DEF CopyReported
  <2> QED
    BY <1>3, <1>5, <2>1
<1>15. DriveCanceled(j) => Form
  BY <1>6 DEF DriveCanceled
<1> QED
  BY <1>8, <1>9, <1>10, <1>11, <1>12, <1>13, <1>14, <1>15 DEF TryDriveSm

(* No other request than AddJobTimeout sets a timeout.                     *)
LEMMA RequestCalm ==
    ASSUME Typing, Untimed, "AddJobTimeout" \notin Offered, NewRequest
    PROVE  \A j \in DOMAIN tasks' : Calm(tasks'[j])
<1> DEFINE Form == \/ UNCHANGED tasks
                   \/ \E j, t : /\ tasks' = [tasks EXCEPT ![j] = t] \/ tasks' = Put(tasks, j, t)
                                /\ Calm(t)
<1>1. \A k \in DOMAIN tasks : tasks[k] \in Task /\ Calm(tasks[k])
  BY Types, MapAt DEF Untimed
<1>2. ASSUME NEW k \in DOMAIN tasks, CloneJob(k) PROVE Form
  <2>1. Calm(CloneTask(tasks[k]))
    BY <1>1 DEF CloneTask, Task, Calm
  <2> QED
    BY <1>2, <2>1 DEF CloneJob, InsertClone
<1>3. ASSUME NEW k, NEW how, Cancel(k, how) \/ UNCHANGED tasks PROVE Form
  <2>1. CASE Cancel(k, how)
    <3> DEFINE t == [tasks[k] EXCEPT !.canceled = how]
    <3>1. tasks' = [tasks EXCEPT ![k] = t]
      BY <2>1 DEF Cancel
    <3>2. CASE k \in DOMAIN tasks
      <4>1. Calm(t)
        BY <1>1, <3>2 DEF Task, Calm
      <4> QED
        BY <3>1, <4>1
    <3>3. CASE k \notin DOMAIN tasks
      BY <3>1, <3>3, Types DEF IsMap
    <3> QED
      BY <3>2, <3>3
  <2> QED
    BY <1>3, <2>1
<1>4. ASSUME NEW m, RemoveAvailable(m) PROVE Form
  BY <1>3, <1>4 DEF RemoveAvailable
<1>5. ASSUME NEW k \in DOMAIN tasks, NEW how, CancelJob(k, how) PROVE Form
  BY <1>3, <1>5 DEF CancelJob
<1>6. ASSUME NEW k \in DOMAIN tasks, HoldJob(k) \/ UnholdJob(k) \/ UntagJob(k) PROVE Form
  <2> DEFINE hold   == [tasks[k] EXCEPT !.state = "Held"]
             unhold == [tasks[k] EXCEPT !.state = "Waiting"]
             untag  == [tasks[k] EXCEPT !.tag = None]
  <2>1. Calm(hold) /\ Calm(unhold) /\ Calm(untag)
    BY <1>1 DEF Task, Calm
  <2>2. UNCHANGED tasks \/ \E t \in {hold, unhold, untag} : tasks' = [tasks EXCEPT ![k] = t]
    BY <1>6 DEF HoldJob, UnholdJob, UntagJob
  <2> HIDE DEF hold, unhold, untag
  <2> QED
    BY <2>1, <2>2
<1>7. ASSUME NEW k \in DOMAIN tasks, NEW g, TagJob(k, g) PROVE Form
  <2> DEFINE t == [tasks[k] EXCEPT !.tag = g]
  <2>1. Calm(t) /\ tasks' = [tasks EXCEPT ![k] = t]
    BY <1>1, <1>7 DEF Task, Calm, TagJob
  <2> QED
    BY <2>1
<1>8. ASSUME NEW k, AddJobTimeout(k) PROVE FALSE
  BY <1>8 DEF AddJobTimeout, Handle, Accept
<1>9. ASSUME NEW spec, NEW m, NEW n,
             \/ AddJob(spec) \/ AddTaggedJob(spec, n) \/ AddMatrix(spec, n)
             \/ SetUpMachine(spec, m) \/ AddTag \/ MakeAvailable(m, n)
      PROVE  Form
  BY <1>9 DEF AddJob, AddTaggedJob, AddMatrix, SetUpMachine, AddTag, Allocate, MakeAvailable
<1>10. Form
  BY <1>2, <1>4, <1>5, <1>6, <1>7, <1>8, <1>9 DEF NewRequest
<1> HIDE DEF Calm
<1> QED
  BY <1>1, <1>10 DEF Put

(* Every step keeps the tasks without a timeout.                           *)
LEMMA StepUntimed == NoTimeouts /\ Typing /\ Untimed /\ [Next]_vars => Untimed'
<1> SUFFICES ASSUME NoTimeouts, Typing, Untimed, [Next]_vars PROVE Untimed'
  OBVIOUS
<1>1. TaskInHand' => Calm(listener'.task)
  <2>1. \A s \in Submittable : \A m, x, g : Calm(NewTask(s, m, x, g))
    <3>1. \A s \in Submittable : ~s.timeout
      BY SpecAssumption DEF Submittable, NoTimeouts, JobSpec
    <3> QED
      BY <3>1 DEF NewTask, Calm
  <2> HIDE DEF Calm
  <2> QED
    BY <2>1, TaskMade DEF Untimed, Submitted
<1> DEFINE Tasks == \A j \in DOMAIN tasks' : Calm(tasks'[j])
<1> HIDE DEF Calm
<1>2. ASSUME NEW j, TryDriveSm(j) PROVE Tasks
  BY <1>2, DriveCalm DEF Untimed
<1>3. ASSUME NEW j \in worker.to_clone, CloneFailed(j) PROVE Tasks
  <2> DEFINE t == [CloneTask(tasks[j]) EXCEPT !.attempt = tasks[j].attempt + 1]
  <2>1. tasks[j] \in Task /\ Calm(tasks[j])
    BY Types, MapAt DEF Typing, WorkerTyped, Untimed
  <2>2. Calm(t)
    BY <2>1 DEF CloneTask, Task, Calm
  <2>3. UNCHANGED tasks \/ tasks' = Put(tasks, next_jid, t)
    BY <1>3 DEF CloneFailed, InsertClone
  <2> HIDE DEF t
  <2> QED
    BY <2>2, <2>3 DEF Put, Untimed
<1>4. Reap => Tasks
  BY DEF Reap, Drop, Untimed
<1>5. UNCHANGED tasks => Tasks
  BY DEF Untimed
<1>6. ProcessNotifications \/ BeginIteration \/ EndDriving \/ EndIteration => UNCHANGED tasks
  BY DEF ProcessNotifications, BeginIteration, EndDriving, EndIteration, shared
<1>7. ASSUME NEW j, Environment(j) PROVE UNCHANGED tasks
  BY <1>7 DEF Environment, ProcessExits, CopierReports, shared
<1>8. FinishRequest => Tasks
  BY InsertionForm DEF Inserted, Inserting, TaskInHand, Untimed, Put
<1>9. NewRequest => Tasks
  BY RequestCalm DEF NoTimeouts
<1>10. UNCHANGED vars => UNCHANGED tasks
  BY DEF vars, shared
<1> QED
  BY <1>1, <1>2, <1>3, <1>4, <1>5, <1>6, <1>7, <1>8, <1>9, <1>10
     DEF Next, WorkThreadStep, Untimed

-----------------------------------------------------------------------------
(* Who owns the machine it was placed on: a task that still has to free it *)
(* and was not cancelled; a task whose command may be running there.       *)
NoSetup   == "SetUpMachine" \notin Offered
NoRemoval == "RemoveAvailable" \notin Offered
HolderOwns == \A j \in DOMAIN tasks :
    tasks[j].state \in Holding /\ tasks[j].canceled = None => Runs(machines, tasks[j].machine, j)
RunnerOwns == \A j \in DOMAIN tasks :
    tasks[j].state \in Holding \ {"Error"} => Runs(machines, tasks[j].machine, j)

(* Without setup tasks there are only jobs.                                *)
LEMMA OnlyJobs ==
    ASSUME NoSetup, AsSubmitted, NEW j \in DOMAIN tasks PROVE tasks[j].job.ty = "Job"
<1>1. \A s \in JobSpecs : s.ty = "Job" /\ [s EXCEPT !.repeat_on_fail = TRUE].ty = "Job"
  BY SpecAssumption DEF JobSpec
<1>2. tasks[j].job \in JobSpecs \cup {[s EXCEPT !.repeat_on_fail = TRUE] : s \in JobSpecs}
  BY DEF AsSubmitted, Submittable, NoSetup
<1> QED
  BY <1>1, <1>2

(* A request takes no machine from a task, except that RemoveAvailable     *)
(* cancels the task in the same critical section.                          *)
LostMachine(k) == /\ "RemoveAvailable" \in Offered
                  /\ k \in DOMAIN tasks' /\ tasks'[k].canceled # None
KeepsMachine(k) == \A m : Runs(machines, m, k) => Runs(machines', m, k) \/ LostMachine(k)

LEMMA RequestSparesMachines ==
    ASSUME Typing, NewRequest, NEW k \in DOMAIN tasks PROVE KeepsMachine(k)
<1>1. UNCHANGED machines => KeepsMachine(k)
  BY DEF KeepsMachine
<1>2. ASSUME NEW m, NEW c, MakeAvailable(m, c) PROVE KeepsMachine(k)
  BY <1>2 DEF MakeAvailable, Put, Runs, KeepsMachine
<1>3. ASSUME NEW m, RemoveAvailable(m) PROVE KeepsMachine(k)
  <2>1. machines' = Drop(machines, {m}) /\ "RemoveAvailable" \in Offered /\ m \in DOMAIN machines
    BY <1>3 DEF RemoveAvailable, Handle, Accept
  <2>2. CASE machines[m].running = k
    <3> DEFINE t == [tasks[k] EXCEPT !.canceled = "keep"]
    <3>1. tasks' = [tasks EXCEPT ![k] = t]
      BY <1>3, <2>2 DEF RemoveAvailable, Cancel
    <3>2. t.canceled # None
      <4>1. tasks[k] \in Task
        BY Types, MapAt
      <4> QED
        BY <4>1, NoneAssumption DEF Task
    <3> HIDE DEF t
    <3> QED
      BY <2>1, <3>1, <3>2 DEF LostMachine, KeepsMachine
  <2>3. CASE machines[m].running # k
    BY <2>1, <2>3 DEF Drop, Runs, KeepsMachine
  <2> QED
    BY <2>2, <2>3
<1>4. ASSUME NEW j, NEW g, NEW how, NEW spec, NEW m,
             \/ HoldJob(j) \/ UnholdJob(j) \/ AddJobTimeout(j) \/ CloneJob(j) \/ TagJob(j, g)
             \/ UntagJob(j) \/ CancelJob(j, how) \/ AddJob(spec) \/ AddTaggedJob(spec, g)
             \/ AddMatrix(spec, g) \/ SetUpMachine(spec, m) \/ AddTag
      PROVE  UNCHANGED machines
  BY <1>4 DEF HoldJob, UnholdJob, AddJobTimeout, CloneJob, TagJob, UntagJob, CancelJob, AddJob,
     AddTaggedJob, AddMatrix, SetUpMachine, AddTag, Allocate
<1> QED
  BY <1>1, <1>2, <1>3, <1>4 DEF NewRequest

(* A task that holds a machine after a step was driven by it, or keeps     *)
(* what it was doing and where.                                            *)
LEMMA StaysOwner ==
    ASSUME NoSetup, Typing, Safe, AsSubmitted, [Next]_vars,
           NEW k \in DOMAIN tasks', tasks'[k].state \in Holding
    PROVE  /\ k \in DOMAIN tasks
           /\ Became(k, tasks'[k]) \/ (SameRun(tasks[k], tasks'[k]) /\ KeepsMachine(k))
<1> DEFINE Goal == /\ k \in DOMAIN tasks
                   /\ \/ Became(k, tasks'[k])
                      \/ SameRun(tasks[k], tasks'[k]) /\ KeepsMachine(k)
<1>1. \A t : SameRun(t, t)
  BY DEF SameRun
<1>2. UNCHANGED machines => KeepsMachine(k)
  BY DEF KeepsMachine
<1>3. ASSUME k \in DOMAIN tasks, tasks'[k] = tasks[k], KeepsMachine(k) PROVE Goal
  BY <1>1, <1>3
<1>4. ASSUME NEW j \in ToDrive, TryDriveSm(j) PROVE Goal
  <2>1. j \in DOMAIN tasks
    BY <1>4 DEF ToDrive
  <2>2. OthersRun(j) /\ GoesOn(j)
    BY <1>4, <2>1, OnlyJobs, DriveOwns
  <2>3. k \in DOMAIN tasks /\ (k # j => tasks'[k] = tasks[k])
    BY <2>2 DEF GoesOn
  <2>4. k # None
    BY <2>3, Types, IdsAreNumbers DEF IsMap
  <2>5. CASE k # j
    BY <1>3, <2>2, <2>3, <2>4, <2>5 DEF OthersRun, KeepsMachine
  <2>6. CASE k = j
    <3>1. CASE UNCHANGED <<tasks, machines>>
      BY <1>2, <1>3, <2>3, <3>1
    <3>2. ASSUME NEW t, tasks' = [tasks EXCEPT ![j] = t], Became(j, t) PROVE Goal
      BY <2>1, <2>6, <3>2
    <3> QED
      BY <2>2, <3>1, <3>2 DEF GoesOn
  <2> QED
    BY <2>5, <2>6
<1>5. ASSUME NEW j, TaskInserted(j), j # k, UNCHANGED machines PROVE Goal
  BY <1>2, <1>3, <1>5 DEF TaskInserted, Put
<1>6. ASSUME NEW j, TaskInserted(j) PROVE j # k
  BY <1>6 DEF TaskInserted, Put, Holding
<1>7. NewRequest => Goal
  <2> SUFFICES ASSUME NewRequest PROVE Goal
    OBVIOUS
  <2>1. k \in DOMAIN tasks
    BY <1>6, NewRequestForm DEF TasksKept, TaskReplaced, TaskInserted, Put
  <2> QED
    BY <2>1, NewRequestKeeps, RequestSparesMachines DEF RequestKeeps
<1>8. FinishRequest => Goal
  <2> SUFFICES ASSUME FinishRequest PROVE Goal
    OBVIOUS
  <2>1. UNCHANGED machines
    BY DEF FinishRequest, MatrixAllocate, InsertTask, InsertLive, PublishMatrix, InsertTagged,
           InsertTag
  <2>2. k \in DOMAIN tasks
    BY <1>6, FinishRequestForm DEF TasksKept, TaskInserted, Put
  <2> QED
    BY <1>2, <2>1, <2>2, FinishRequestKeeps DEF RequestKeeps
<1>9. \/ ProcessNotifications \/ BeginIteration \/ EndDriving \/ EndIteration
      \/ UNCHANGED vars
      => UNCHANGED <<tasks, machines>>
  BY DEF ProcessNotifications, BeginIteration, EndDriving, EndIteration, shared, vars
<1>10. ASSUME NEW j, Environment(j) PROVE UNCHANGED <<tasks, machines>>
  BY <1>10 DEF Environment, ProcessExits, CopierReports, shared
<1>11. Reap => Goal
  BY <1>2, <1>3 DEF Reap, Drop
<1>12. ASSUME NEW j \in worker.to_clone, CloneFailed(j) PROVE Goal
  <2>1. UNCHANGED machines /\ (UNCHANGED tasks \/ TaskInserted(next_jid))
    <3>1. UNCHANGED machines
      BY <1>12 DEF CloneFailed
    <3> QED
      BY <1>12, <3>1, CloneFailedForm DEF Cloned, TaskInserted
  <2> QED
    BY <1>2, <1>3, <1>5, <1>6, <2>1
<1>13. UNCHANGED <<tasks, machines>> => Goal
  BY <1>2, <1>3
<1> QED
  BY <1>4, <1>7, <1>8, <1>9, <1>10, <1>11, <1>12, <1>13 DEF Next, WorkThreadStep

(* Without timeouts, a task that is not cancelled keeps its machine.       *)
LEMMA StepHolderOwns ==
    NoSetup /\ Typing /\ Safe /\ AsSubmitted /\ Untimed /\ HolderOwns /\ [Next]_vars
    => HolderOwns'
<1> SUFFICES ASSUME NoSetup, Typing, Safe, AsSubmitted, Untimed, HolderOwns, [Next]_vars,
                    NEW k \in DOMAIN tasks', tasks'[k].state \in Holding,
                    tasks'[k].canceled = None
             PROVE  Runs(machines', tasks'[k].machine, k)
  BY DEF HolderOwns
<1>1. k \in DOMAIN tasks /\ tasks[k].timedout = None
  BY StaysOwner DEF Untimed, Calm
<1>2. CASE Became(k, tasks'[k])
  BY <1>1, <1>2 DEF Became, HolderOwns
<1>3. CASE SameRun(tasks[k], tasks'[k]) /\ KeepsMachine(k)
  <2>1. tasks[k].state = tasks'[k].state /\ tasks[k].canceled = None
    BY <1>3 DEF SameRun, Holding
  <2> QED
    BY <1>1, <1>3, <2>1 DEF HolderOwns, KeepsMachine, LostMachine, SameRun
<1> QED
  BY <1>2, <1>3, StaysOwner

(* Without removals, a command that may be running has its machine.        *)
LEMMA StepRunnerOwns ==
    NoSetup /\ NoRemoval /\ Typing /\ Safe /\ AsSubmitted /\ RunnerOwns /\ [Next]_vars
    => RunnerOwns'
<1> SUFFICES ASSUME NoSetup, NoRemoval, Typing, Safe, AsSubmitted, RunnerOwns, [Next]_vars,
                    NEW k \in DOMAIN tasks', tasks'[k].state \in Holding \ {"Error"}
             PROVE  Runs(machines', tasks'[k].machine, k)
  BY DEF RunnerOwns
<1>1. k \in DOMAIN tasks
  BY StaysOwner
<1>2. CASE Became(k, tasks'[k])
  BY <1>1, <1>2 DEF Became, RunnerOwns
<1>3. CASE SameRun(tasks[k], tasks'[k]) /\ KeepsMachine(k)
  <2>1. tasks[k].state = tasks'[k].state
    BY <1>3 DEF SameRun, Holding
  <2> QED
    BY <1>1, <1>3, <2>1 DEF RunnerOwns, KeepsMachine, LostMachine, SameRun, NoRemoval
<1> QED
  BY <1>2, <1>3, StaysOwner

(* Two running commands belong to tasks that each own their machine.       *)
LEMMA OwnersExclude == Safe /\ RunnerOwns => MachineExclusive
BY DEF Safe, RunningIffProcess, RunnerOwns, Runs, MachineExclusive, Holding

(* A machine runs one command at a time (try_drive_sm_waiting, sm.rs:226,  *)
(* takes none that is running), as long as no setup task takes a machine   *)
(* by name and no machine is removed while a job still runs on it.         *)
THEOREM MachinesRunOneCommand == NoSetup /\ NoRemoval => (Spec => []MachineExclusive)
<1> SUFFICES ASSUME NoSetup, NoRemoval PROVE Spec => []MachineExclusive
  OBVIOUS
<1>1. Init => RunnerOwns
  BY DEF Init, RunnerOwns, EmptyMap
<1>2. Typing /\ Safe /\ AsSubmitted /\ RunnerOwns /\ [Next]_vars => RunnerOwns'
  BY StepRunnerOwns
<1>3. (Spec => []Typing) /\ (Spec => []Safe) /\ (Spec => []AsSubmitted)
  BY TypingInvariant, SafetyInvariant, JobsAsSubmitted
<1> QED
  BY <1>1, <1>2, <1>3, OwnersExclude, PTL DEF Spec

-----------------------------------------------------------------------------
(* A machine that is out of its class if it should be.                     *)
Sound(st) == st.running = None /\ st.failures >= MachineFailures => st.class = BrokenClass

(* free_machine takes a machine out of its class when it has failed too    *)
(* often (sm.rs:652).                                                      *)
LEMMA FreedSound ==
    ASSUME NEW j, NEW ms, IsMap(ms, Machines, MachineStatus), DOMAIN ms = DOMAIN machines,
           \A m \in DOMAIN ms : (Owns(j, tasks[j]) /\ m = tasks[j].machine) \/ Sound(ms[m])
    PROVE  LET freed == AfterFree(j, tasks[j], ms) IN \A m \in DOMAIN freed : Sound(freed[m])
<1> DEFINE here  == tasks[j].machine
           freed == AfterFree(j, tasks[j], ms)
<1>1. CASE Owns(j, tasks[j])
  <2>1. here \in DOMAIN ms /\ ms[here] \in MachineStatus
    BY <1>1, MapAt DEF Owns
  <2>2. Sound(Released(ms[here]))
    BY <2>1 DEF Released, Sound, MachineStatus
  <2> HIDE DEF Sound
  <2>3. freed = [ms EXCEPT ![here] = Released(ms[here])]
    BY <1>1 DEF AfterFree
  <2> HIDE DEF freed, here
  <2>4. \A m \in DOMAIN freed : Sound(freed[m])
    BY <2>1, <2>2, <2>3 DEF here
  <2> QED
    BY <2>4 DEF freed
<1>2. CASE ~Owns(j, tasks[j])
  BY <1>2 DEF AfterFree
<1> QED
  BY <1>1, <1>2

(* A drive changes one machine, and leaves it sound.                       *)
LEMMA DriveQuarantines ==
    ASSUME Typing, HolderOwns, FaultyMachineQuarantined, NEW j, TryDriveSm(j),
           tasks[j].job.ty = "Job"
    PROVE  FaultyMachineQuarantined'
<1> DEFINE here == tasks[j].machine
<1>1. \A m \in DOMAIN machines : Sound(machines[m]) /\ machines[m] \in MachineStatus
  BY Types, MapAt DEF FaultyMachineQuarantined, Sound
<1>2. (\A m \in DOMAIN machines' : Sound(machines'[m])) => FaultyMachineQuarantined'
  BY DEF FaultyMachineQuarantined, Sound
<1>3. UNCHANGED machines => FaultyMachineQuarantined'
  BY DEF FaultyMachineQuarantined
<1>4. ASSUME NEW m, NEW st, m \in DOMAIN machines => Sound(st), machines' = Update(m, st)
      PROVE  FaultyMachineQuarantined'
  <2>1. \A n \in DOMAIN machines' : Sound(machines'[n])
    BY <1>1, <1>4 DEF Update
  <2> QED
    BY <1>2, <2>1
<1>5. j \in DOMAIN tasks /\ j # None /\ Driving(j)
  <2>1. Driving(j)
    BY DEF TryDriveSm, DriveHeld, NoMachine, Start, AllCommandsDone, CommandFailed,
           NextCommand, TimeOut, StillRunning, CheckResults, CheckPanics, CopyReported,
           StillCopying, Finalize, DriveTerminal, DriveError, DriveCanceled, Polled
  <2> QED
    BY <2>1, Driven, NoneAssumption
<1>6. StateOf(j) \in Holding => Owns(j, tasks[j])
  BY <1>5 DEF StateOf, HolderOwns, Owns, Runs, Holding
<1>7. ASSUME NEW m, NEW spawned, Start(j, m, spawned) PROVE FaultyMachineQuarantined'
  <2> DEFINE st == [machines[m] EXCEPT !.running = j]
  <2>1. machines' = Update(m, st)
    BY <1>7 DEF Start
  <2>2. m \in DOMAIN machines => Sound(st)
    BY <1>1, <1>5 DEF MachineStatus, Sound
  <2> HIDE DEF st
  <2> QED
    BY <1>4, <2>1, <2>2
<1>8. ASSUME NEW produced, CheckResults(j, produced) \/ CheckPanics(j)
      PROVE  FaultyMachineQuarantined'
  <2> DEFINE st == [machines[here] EXCEPT !.failures = 0]
  <2>1. machines' = Update(here, st)
    BY <1>8 DEF CheckResults, CheckPanics
  <2>2. here \in DOMAIN machines => Sound(st)
    BY <1>1, BoundAssumption DEF MachineStatus, Sound
  <2> HIDE DEF st
  <2> QED
    BY <1>4, <2>1, <2>2
<1>9. ASSUME CopyReported(j) PROVE FaultyMachineQuarantined'
  <2> DEFINE st == [machines[here] EXCEPT !.class = UnknownHostClass]
  <2>1. machines' = Update(here, st) \/ UNCHANGED machines
    BY <1>9 DEF CopyReported
  <2>2. Owns(j, tasks[j])
    BY <1>6, <1>9 DEF CopyReported, Holding
  <2>3. here \in DOMAIN machines => Sound(st)
    BY <1>1, <1>5, <2>2 DEF MachineStatus, Sound, Owns
  <2> HIDE DEF st
  <2> QED
    BY <1>3, <1>4, <2>1, <2>3
<1>10. ASSUME Finalize(j) \/ DriveCanceled(j) PROVE FaultyMachineQuarantined'
  <2>1. machines' = AfterFree(j, tasks[j], machines)
    BY <1>10 DEF Finalize, DriveCanceled
  <2> HIDE DEF Sound
  <2> QED
    BY <1>1, <1>2, <2>1, FreedSound, Types
<1>11. ASSUME DriveError(j) PROVE FaultyMachineQuarantined'
  <2> DEFINE failures == IF machines[here].failures < MachineFailures
                         THEN machines[here].failures + 1 ELSE MachineFailures
             st == [machines[here] EXCEPT !.failures = failures]
             ms == Update(here, st)
  <2>1. machines' = AfterFree(j, tasks[j], ms) /\ StateOf(j) = "Error"
    BY <1>11 DEF DriveError
  <2>2. Owns(j, tasks[j])
    BY <1>6, <2>1 DEF Holding
  <2>3. st \in MachineStatus
    BY <1>1, <2>2, BoundAssumption DEF MachineStatus, Owns
  <2> HIDE DEF st
  <2>4. IsMap(ms, Machines, MachineStatus) /\ DOMAIN ms = DOMAIN machines
    BY <2>3, UpdateMap, Types DEF Update
  <2>5. \A m \in DOMAIN ms : m = here \/ Sound(ms[m])
    BY <1>1 DEF Update
  <2> HIDE DEF ms, Sound
  <2> QED
    BY <1>2, <2>1, <2>2, <2>4, <2>5, FreedSound
<1>12. \/ DriveHeld(j) \/ NoMachine(j) \/ StillRunning(j) \/ StillCopying(j)
       \/ DriveTerminal(j) \/ AllCommandsDone(j) \/ CommandFailed(j) \/ TimeOut(j)
       \/ \E spawned \in BOOLEAN : NextCommand(j, spawned)
       => UNCHANGED machines
  BY DEF DriveHeld, NoMachine, StillRunning, StillCopying, DriveTerminal, AllCommandsDone,
         CommandFailed, TimeOut, NextCommand, shared
<1> QED
  BY <1>3, <1>7, <1>8, <1>9, <1>10, <1>11, <1>12 DEF TryDriveSm

(* Every step: only drives count failures.                                 *)
LEMMA StepQuarantines ==
    /\ NoSetup /\ Typing /\ AsSubmitted /\ HolderOwns /\ FaultyMachineQuarantined
    /\ [Next]_vars
    => FaultyMachineQuarantined'
<1> SUFFICES ASSUME NoSetup, Typing, AsSubmitted, HolderOwns, FaultyMachineQuarantined,
                    [Next]_vars
             PROVE  FaultyMachineQuarantined'
  OBVIOUS
<1>1. UNCHANGED machines => FaultyMachineQuarantined'
  BY DEF FaultyMachineQuarantined
<1>2. ASSUME NEW j \in ToDrive, TryDriveSm(j) PROVE FaultyMachineQuarantined'
  BY <1>2, OnlyJobs, DriveQuarantines DEF ToDrive
<1>3. ASSUME NEW m, NEW c, MakeAvailable(m, c) PROVE FaultyMachineQuarantined'
  <2> DEFINE st == [class |-> c, failures |-> 0,
                    running |-> IF m \in DOMAIN machines THEN machines[m].running ELSE None]
  <2>1. machines' = Put(machines, m, st)
    BY <1>3 DEF MakeAvailable
  <2>2. Sound(st)
    BY BoundAssumption DEF Sound
  <2> HIDE DEF st
  <2> QED
    BY <2>1, <2>2 DEF Put, FaultyMachineQuarantined, Sound
<1>4. ASSUME NEW m, RemoveAvailable(m) PROVE FaultyMachineQuarantined'
  BY <1>4 DEF RemoveAvailable, Drop, FaultyMachineQuarantined
<1>5. ASSUME NEW j, NEW g, NEW how, NEW spec, NEW m,
             \/ HoldJob(j) \/ UnholdJob(j) \/ AddJobTimeout(j) \/ CloneJob(j) \/ TagJob(j, g)
             \/ UntagJob(j) \/ CancelJob(j, how) \/ AddJob(spec) \/ AddTaggedJob(spec, g)
             \/ AddMatrix(spec, g) \/ SetUpMachine(spec, m) \/ AddTag
      PROVE  UNCHANGED machines
  BY <1>5 DEF HoldJob, UnholdJob, AddJobTimeout, CloneJob, TagJob, UntagJob, CancelJob, AddJob,
     AddTaggedJob, AddMatrix, SetUpMachine, AddTag, Allocate
<1>6. NewRequest => FaultyMachineQuarantined'
  BY <1>1, <1>3, <1>4, <1>5 DEF NewRequest
<1>7. FinishRequest => UNCHANGED machines
  BY DEF FinishRequest, MatrixAllocate, InsertTask, InsertLive, PublishMatrix, InsertTagged,
         InsertTag
<1>8. ASSUME NEW j, Environment(j) \/ CloneFailed(j) PROVE UNCHANGED machines
  BY <1>8 DEF Environment, ProcessExits, CopierReports, CloneFailed, shared
<1>9. \/ ProcessNotifications \/ BeginIteration \/ EndDriving \/ Reap \/ EndIteration
      \/ UNCHANGED vars
      => UNCHANGED machines
  BY DEF ProcessNotifications, BeginIteration, EndDriving, Reap, EndIteration, shared, vars
<1> QED
  BY <1>1, <1>2, <1>6, <1>7, <1>8, <1>9 DEF Next, WorkThreadStep

(* A machine that has failed MACHINE_FAILURES times in a row leaves its    *)
(* class as soon as it is free (sm.rs:25), as long as only jobs run, and   *)
(* none of them times out: every failure is then counted while the machine *)
(* is still held, so that free_machine sees it.                            *)
THEOREM FaultyMachinesLeave ==
    NoSetup /\ NoTimeouts => (Spec => []FaultyMachineQuarantined)
<1> SUFFICES ASSUME NoSetup, NoTimeouts PROVE Spec => []FaultyMachineQuarantined
  OBVIOUS
<1> DEFINE I == Untimed /\ HolderOwns /\ FaultyMachineQuarantined
<1>1. Init => I
  BY DEF Init, HolderOwns, Untimed, FaultyMachineQuarantined, EmptyMap, TaskInHand, IdleListener
<1>2. Typing /\ Safe /\ AsSubmitted /\ I /\ [Next]_vars => I'
  BY StepUntimed, StepHolderOwns, StepQuarantines
<1>3. (Spec => []Typing) /\ (Spec => []Safe) /\ (Spec => []AsSubmitted)
  BY TypingInvariant, SafetyInvariant, JobsAsSubmitted
<1> QED
  BY <1>1, <1>2, <1>3, PTL DEF Spec

-----------------------------------------------------------------------------
(* The immediate notifications are sent between two iterations: from the   *)
(* sending to the first drive that changes something there are none, and   *)
(* what is then enqueued is a machine or a task that can be reported on.   *)
NothingToSend == worker.at = "sleep" \/ (worker.at = "drive" /\ ~worker.updated)
Sendable ==
    /\ NothingToSend => immediate = {}
    /\ \A j \in immediate \cap DOMAIN tasks : tasks[j].state \in Holding
    /\ immediate \subseteq Issued \cup Machines
    /\ Inserting => listener.jid \notin immediate

(* A drive announces nothing but its own task, which is being worked on,   *)
(* or a machine.                                                           *)
LEMMA DriveSends ==
    ASSUME Typing, NEW j, TryDriveSm(j)
    PROVE  /\ Driving(j) /\ UNCHANGED <<listener, next_jid>> /\ DOMAIN tasks' = DOMAIN tasks
           /\ worker'.at = "drive"
           /\ \/ UNCHANGED immediate
              \/ /\ worker'.updated
                 /\ \/ immediate' \subseteq immediate \cup Machines
                    \/ /\ immediate' \subseteq immediate \cup {j}
                       /\ tasks'[j].state \in Holding
<1> DEFINE Quiet == UNCHANGED immediate
           Tell == worker'.updated /\ immediate' \subseteq immediate \cup {j}
           Shout == worker'.updated /\ immediate' \subseteq immediate \cup Machines
<1>1. Driving(j)
  BY DEF TryDriveSm, DriveHeld, NoMachine, Start, AllCommandsDone, CommandFailed,
         NextCommand, TimeOut, StillRunning, CheckResults, CheckPanics, CopyReported,
         StillCopying, Finalize, DriveTerminal, DriveError, DriveCanceled, Polled
<1>2. /\ j \in DOMAIN tasks /\ tasks[j] \in Task /\ worker \in Worker /\ worker.at = "drive"
      /\ \A m \in DOMAIN machines : m \in Machines
  BY <1>1, Driven, Types, MapAt
<1>3. UNCHANGED <<listener, next_jid>> /\ DOMAIN tasks' = DOMAIN tasks
  BY <1>1, DriveForm
<1>4. \A b : Return(j, b) => worker'.at = "drive" /\ worker'.updated = b
  BY <1>2 DEF Return, Worker
<1>5. ASSUME NEW t, NotifyTask(j, t) PROVE immediate' \subseteq immediate \cup {j}
  BY <1>5 DEF NotifyTask
<1>6. ASSUME NEW m \in Machines, NEW spawned, Start(j, m, spawned)
      PROVE  Tell /\ worker'.at = "drive" /\ tasks'[j].state \in Holding
  <2> DEFINE t == Launched(tasks[j], m, spawned)
  <2>1. tasks' = [tasks EXCEPT ![j] = t] /\ NotifyTask(j, tasks'[j]) /\ Return(j, TRUE)
    BY <1>6 DEF Start
  <2>2. t.state \in Holding
    BY <1>2 DEF Launched, Task, Holding
  <2> HIDE DEF t
  <2> QED
    BY <1>2, <1>4, <1>5, <2>1, <2>2
<1>7. ASSUME NEW produced, \/ AllCommandsDone(j) \/ CommandFailed(j) \/ TimeOut(j)
                           \/ CheckResults(j, produced)
      PROVE  Tell /\ worker'.at = "drive" /\ tasks'[j].state \in Holding
  <2> DEFINE done    == [tasks[j] EXCEPT !.state = "CheckingResults", !.index = 0]
             failed  == [tasks[j] EXCEPT !.state = "Error"]
             stopped == [tasks[j] EXCEPT !.timedout = tasks[j].index, !.canceled = "keep"]
             checked == [tasks[j] EXCEPT !.state = IF tasks[j].job.cp_results /\ produced
                                                   THEN "CopyingResults" ELSE "Finalize"]
  <2>1. done.state \in Holding /\ failed.state \in Holding /\ checked.state \in Holding
    BY <1>2 DEF Task, Holding
  <2>2. TimeOut(j) => stopped.state \in Holding
    BY <1>2 DEF TimeOut, Polled, StateOf, Task, Holding
  <2>3. NotifyTask(j, tasks'[j]) /\ Return(j, TRUE)
    BY <1>7 DEF AllCommandsDone, CommandFailed, TimeOut, CheckResults
  <2>4. \/ \E t \in {done, failed, checked} : tasks' = [tasks EXCEPT ![j] = t]
        \/ TimeOut(j) /\ tasks' = [tasks EXCEPT ![j] = stopped]
    BY <1>7 DEF AllCommandsDone, CommandFailed, TimeOut, CheckResults
  <2> HIDE DEF done, failed, stopped, checked
  <2> QED
    BY <1>2, <1>4, <1>5, <2>1, <2>2, <2>3, <2>4
<1>8. ASSUME NEW t, NEW ms, NotifyBroken(j, t, ms)
      PROVE  immediate' \subseteq immediate \cup Machines
  BY <1>2, <1>8 DEF NotifyBroken, Owns
<1>9. Finalize(j) \/ DriveError(j) \/ DriveCanceled(j) => Shout /\ worker'.at = "drive"
  <2>1. DriveError(j) \/ DriveCanceled(j) => worker'.updated /\ worker'.at = "drive"
    BY <1>2 DEF DriveError, DriveCanceled, Worker
  <2>2. Finalize(j) => worker'.updated /\ worker'.at = "drive"
    BY <1>4 DEF Finalize
  <2> QED
    BY <1>8, <2>1, <2>2 DEF Finalize, DriveError, DriveCanceled
<1>10. ASSUME NEW spawned,
              \/ DriveHeld(j) \/ NoMachine(j) \/ StillRunning(j) \/ StillCopying(j)
              \/ DriveTerminal(j) \/ CopyReported(j) \/ NextCommand(j, spawned)
              \/ CheckPanics(j)
       PROVE  Quiet /\ worker'.at = "drive"
  BY <1>2, <1>4, <1>10 DEF DriveHeld, NoMachine, StillRunning, StillCopying, DriveTerminal,
     CopyReported, NextCommand, CheckPanics
<1> QED
  BY <1>1, <1>3, <1>6, <1>7, <1>9, <1>10 DEF TryDriveSm

(* A step that enqueues nothing, and inserts no task that was announced.   *)
LEMMA QuietSendable ==
    ASSUME Typing, Sendable, UNCHANGED immediate, NothingToSend' => NothingToSend,
           next_jid' \in {next_jid, next_jid + 1},
           \A k \in DOMAIN tasks' : \/ k \notin DOMAIN tasks /\ k \notin immediate
                                    \/ /\ k \in DOMAIN tasks
                                       /\ tasks[k].state \in Holding
                                             => tasks'[k].state \in Holding,
           Inserting' => (Inserting /\ UNCHANGED listener) \/ listener'.jid = next_jid
    PROVE  Sendable'
<1>1. Issued \subseteq Issued' /\ next_jid \notin Issued \cup Machines
  <2>1. next_jid \in Nat
    BY Types
  <2>2. next_jid' \in Nat /\ next_jid <= next_jid'
    BY <2>1
  <2>3. Issued \subseteq Issued'
    BY <2>1, <2>2, WiderIds DEF Issued
  <2>4. next_jid \notin Issued \cup Machines
    BY <2>1, NameAssumption DEF Issued
  <2> QED
    BY <2>3, <2>4
<1>2. next_jid \notin immediate
  BY <1>1 DEF Sendable
<1> QED
  BY <1>1, <1>2 DEF Sendable

(* What is inserted was not announced before.                              *)
LEMMA FreshUnannounced ==
    ASSUME Typing, Sendable
    PROVE  next_jid \notin immediate /\ (Inserting => listener.jid \notin immediate)
<1>1. next_jid \in Nat /\ next_jid \notin Issued
  BY Types DEF Issued
<1> QED
  BY <1>1, NameAssumption DEF Sendable

(* A drive finds nothing to send, and enqueues what can be sent.           *)
LEMMA DriveSendable ==
    ASSUME Typing, Safe, Sendable, NEW j, TryDriveSm(j) PROVE Sendable'
<1>1. /\ Driving(j) /\ UNCHANGED <<listener, next_jid>> /\ DOMAIN tasks' = DOMAIN tasks
      /\ worker'.at = "drive"
      /\ \/ UNCHANGED immediate
         \/ /\ worker'.updated
            /\ \/ immediate' \subseteq immediate \cup Machines
               \/ immediate' \subseteq immediate \cup {j} /\ tasks'[j].state \in Holding
  BY DriveSends
<1>2. immediate = {}
  BY <1>1 DEF Driving, Sendable, NothingToSend
<1>3. /\ j \in DOMAIN tasks /\ j \in Issued
      /\ DOMAIN tasks \cap Machines = {} /\ (Inserting => listener.jid \notin Machines \cup {j})
  <2>1. j \in DOMAIN tasks /\ j \in Issued
    BY <1>1, Driven
  <2>2. Issued \cap Machines = {} /\ DOMAIN tasks \subseteq Issued
    BY Types, NameAssumption DEF Issued, IsMap
  <2>3. Inserting => listener.jid \in Issued /\ listener.jid \notin DOMAIN tasks
    BY DEF Inserting, Typing, ListenerTyped, Safe, ListenerFresh
  <2> QED
    BY <2>1, <2>2, <2>3
<1>4. CASE UNCHANGED immediate
  BY <1>1, <1>2, <1>4 DEF Sendable, NothingToSend, Inserting
<1>5. CASE worker'.updated /\ immediate' \subseteq immediate \cup Machines
  BY <1>1, <1>2, <1>3, <1>5 DEF Sendable, NothingToSend, Inserting, Issued
<1>6. CASE worker'.updated /\ immediate' \subseteq immediate \cup {j} /\ tasks'[j].state \in Holding
  BY <1>1, <1>2, <1>3, <1>6 DEF Sendable, NothingToSend, Inserting, Issued
<1> QED
  BY <1>1, <1>4, <1>5, <1>6

(* Every step keeps Sendable.                                              *)
LEMMA StepSendable == Typing /\ Safe /\ Sendable /\ [Next]_vars => Sendable'
<1> SUFFICES ASSUME Typing, Safe, Sendable, [Next]_vars PROVE Sendable'
  OBVIOUS
<1>1. next_jid \notin immediate /\ (Inserting => listener.jid \notin immediate)
  BY FreshUnannounced
<1>2. UNCHANGED <<tasks, immediate, next_jid, listener>> /\ (NothingToSend' => NothingToSend)
      => Sendable'
  BY QuietSendable DEF Inserting
<1>3. ASSUME NEW j \in ToDrive, TryDriveSm(j) PROVE Sendable'
  BY <1>3, DriveSendable
<1>4. ProcessNotifications => Sendable'
  <2>1. ProcessNotifications => /\ UNCHANGED <<tasks, next_jid, listener>>
                                /\ immediate' = {} \/ UNCHANGED <<immediate, worker>>
    BY DEF ProcessNotifications, shared
  <2>2. immediate' = {} => Sendable'
    BY DEF Sendable
  <2> QED
    BY <1>2, <2>1, <2>2 DEF NothingToSend
<1>5. BeginIteration \/ EndDriving \/ EndIteration => Sendable'
  <2>1. worker \in Worker
    BY Types
  <2>2. BeginIteration \/ EndDriving \/ EndIteration
        => UNCHANGED <<tasks, immediate, next_jid, listener>> /\ (NothingToSend' => NothingToSend)
    BY <2>1 DEF BeginIteration, EndDriving, EndIteration, shared, NothingToSend, Worker
  <2> QED
    BY <1>2, <2>2
<1>6. ASSUME NEW j, Environment(j) PROVE Sendable'
  <2>1. UNCHANGED <<tasks, immediate, next_jid, listener, worker>>
    BY <1>6 DEF Environment, ProcessExits, CopierReports, shared
  <2> QED
    BY <1>2, <2>1 DEF NothingToSend
<1>7. UNCHANGED vars => Sendable'
  BY <1>2 DEF vars, shared, NothingToSend
<1>8. Reap => Sendable'
  <2> SUFFICES ASSUME Reap PROVE Sendable'
    OBVIOUS
  <2>1. UNCHANGED <<immediate, next_jid, listener>> /\ (NothingToSend' => NothingToSend)
    BY Types DEF Reap, NothingToSend, Worker
  <2>2. \A k \in DOMAIN tasks' : k \in DOMAIN tasks /\ tasks'[k] = tasks[k]
    BY DEF Reap, Drop
  <2> QED
    BY <2>1, <2>2, QuietSendable DEF Inserting
<1>9. ASSUME NEW k, NEW t, tasks' = Put(tasks, k, t), k \notin immediate,
             UNCHANGED immediate, NothingToSend' => NothingToSend,
             next_jid' \in {next_jid, next_jid + 1}, k \notin DOMAIN tasks,
             Inserting' => (Inserting /\ UNCHANGED listener) \/ listener'.jid = next_jid
      PROVE  Sendable'
  <2>1. \A i \in DOMAIN tasks' : \/ i \notin DOMAIN tasks /\ i \notin immediate
                                 \/ i \in DOMAIN tasks /\ tasks'[i] = tasks[i]
    BY <1>9 DEF Put
  <2> QED
    BY <1>9, <2>1, QuietSendable
<1>10. ASSUME NEW j \in worker.to_clone, CloneFailed(j) PROVE Sendable'
  <2>1. /\ UNCHANGED <<immediate, listener>> /\ next_jid' = next_jid + 1
        /\ NothingToSend' => NothingToSend
    BY <1>10, Types DEF CloneFailed, NothingToSend, Worker
  <2>2. CASE UNCHANGED tasks
    BY <2>1, <2>2, QuietSendable DEF Inserting
  <2>3. ASSUME NEW t, tasks' = Put(tasks, next_jid, t) PROVE Sendable'
    BY <1>1, <1>9, <2>1, <2>3, NextIdFresh DEF Inserting
  <2> QED
    BY <1>10, <2>2, <2>3, CloneFailedForm DEF Cloned
<1>11. ASSUME NewRequest \/ FinishRequest PROVE Sendable'
  <2>1. /\ UNCHANGED <<immediate, worker>> /\ (NothingToSend' => NothingToSend)
        /\ Inserting' => (Inserting /\ UNCHANGED listener) \/ listener'.jid = next_jid
    <3>1. Unaffected /\ (Inserting' => UNCHANGED listener \/ listener'.jid = next_jid)
      BY <1>11, ListenerCopies DEF Inserting
    <3>2. UNCHANGED <<immediate, worker>>
      BY <3>1 DEF Unaffected
    <3> QED
      BY <3>1, <3>2 DEF NothingToSend, Inserting
  <2>2. next_jid' \in {next_jid, next_jid + 1}
    BY <1>11 DEF NewRequest, FinishRequest, MakeAvailable, RemoveAvailable, CancelJob, HoldJob,
       UnholdJob, AddJobTimeout, CloneJob, TagJob, UntagJob, AddJob, AddTaggedJob, AddMatrix,
       SetUpMachine, AddTag, Allocate, MatrixAllocate, InsertTask, InsertLive, PublishMatrix,
       InsertTagged, InsertTag
  <2>3. ASSUME \A k \in DOMAIN tasks : RequestKeeps(k), DOMAIN tasks' = DOMAIN tasks
        PROVE  Sendable'
    <3>1. \A k \in DOMAIN tasks' : /\ k \in DOMAIN tasks
                                   /\ tasks[k].state \in Holding => tasks'[k].state \in Holding
      BY <2>3 DEF RequestKeeps, SameRun, Holding
    <3> QED
      BY <2>1, <2>2, <3>1, QuietSendable
  <2>4. \A k \in DOMAIN tasks : RequestKeeps(k)
    BY <1>11, NewRequestKeeps, FinishRequestKeeps
  <2>5. ASSUME NEW k, TaskInserted(k), k \notin immediate, k \notin DOMAIN tasks PROVE Sendable'
    <3>1. PICK t : tasks' = Put(tasks, k, t)
      BY <2>5 DEF TaskInserted
    <3> QED
      BY <1>9, <2>1, <2>2, <2>5, <3>1
  <2>6. CASE NewRequest
    <3>1. TasksKept \/ TaskReplaced \/ TaskInserted(next_jid)
      BY <2>6, NewRequestForm
    <3>2. TasksKept \/ TaskReplaced => DOMAIN tasks' = DOMAIN tasks
      BY DEF TasksKept, TaskReplaced
    <3> QED
      BY <1>1, <2>3, <2>4, <2>5, <3>1, <3>2, NextIdFresh
  <2>7. CASE FinishRequest
    <3>1. \/ TasksKept
          \/ /\ TaskInserted(listener.jid) /\ listener.jid \notin DOMAIN tasks /\ Inserting
      BY <2>7, FinishRequestForm DEF Inserting
    <3> QED
      BY <1>1, <2>3, <2>4, <2>5, <3>1 DEF TasksKept
  <2> QED
    BY <1>11, <2>6, <2>7
<1> QED
  BY <1>3, <1>4, <1>5, <1>6, <1>7, <1>8, <1>10, <1>11 DEF Next, WorkThreadStep

(* process_notifications never meets a task that it cannot report on, the  *)
(* unreachable!() of send_individual_notification (notify.rs).             *)
LEMMA AlwaysSendable == Spec => []Sendable
<1>1. Init => Sendable
  BY DEF Init, Sendable, IdleListener, Inserting
<1>2. (Spec => []Typing) /\ (Spec => []Safe)
  BY TypingInvariant, SafetyInvariant
<1> QED
  BY <1>1, <1>2, StepSendable, PTL DEF Spec

-----------------------------------------------------------------------------
(* The tasks of a matrix that AddMatrix has inserted but not yet published *)
(* name a matrix that get_mut(..).unwrap() does not find.                  *)
Unpublished == /\ listener.matrix # None
               /\ \E j \in listener.jids \cap DOMAIN tasks : tasks[j].matrix = listener.matrix

(* No other task names a group that does not exist.                        *)
LEMMA OthersResolve ==
    ASSUME GroupsListMembers, NEW j \in DOMAIN tasks, ~RefsResolve(tasks[j]) PROVE Unpublished
BY DEF GroupsListMembers, RefsResolve, Unpublished

(* A clone names the groups of its original.                               *)
LEMMA CloneResolves ==
    ASSUME NEW t \in Task, NEW n, RefsResolve(t)
    PROVE  RefsResolve(CloneTask(t)) /\ RefsResolve([CloneTask(t) EXCEPT !.attempt = n])
<1>1. /\ CloneTask(t).matrix = t.matrix /\ CloneTask(t).tag = t.tag
      /\ [CloneTask(t) EXCEPT !.attempt = n].matrix = t.matrix
      /\ [CloneTask(t) EXCEPT !.attempt = n].tag = t.tag
  BY DEF CloneTask, Task
<1> HIDE DEF CloneTask
<1> QED
  BY <1>1 DEF RefsResolve

(* An iteration fails on what is outside of the server while it drives a   *)
(* task that checks its results: it leaves the task where it is.           *)
CheckStep == /\ CheckFailed
             /\ UNCHANGED <<worker, tasks, listener>>

(* A step in which a thread panics.                                        *)
LEMMA StepPanics ==
    Typing /\ Safe /\ GroupsListMembers /\ Sendable /\ [Next]_vars
    => (panicked' # panicked => Unpublished \/ CheckStep)
<1> SUFFICES ASSUME Typing, Safe, GroupsListMembers, Sendable, [Next]_vars,
                    panicked' # panicked
             PROVE  Unpublished \/ CheckStep
  OBVIOUS
<1>1. \A k \in DOMAIN tasks : tasks[k] \in Task
  BY Types, MapAt
<1>2. ASSUME NEW j, TryDriveSm(j) PROVE CheckStep
  <2>1. StillRunning(j) => UNCHANGED panicked
    <3> SUFFICES ASSUME StillRunning(j) PROVE UNCHANGED panicked
      OBVIOUS
    <3>1. Driving(j) /\ tasks[j].state = "Running"
      BY DEF StillRunning, StateOf
    <3> QED
      BY <3>1, DrivenSafe DEF StillRunning
  <2>2. CheckPanics(j)
    BY <1>2, <2>1 DEF TryDriveSm, DriveHeld, NoMachine, Start, AllCommandsDone, CommandFailed,
       NextCommand, TimeOut, CheckResults, CopyReported, StillCopying, Finalize,
       DriveTerminal, DriveError, DriveCanceled
  <2> QED
    BY <2>2 DEF CheckPanics, Driving, IsNext, CheckStep, CheckFailed
<1>3. ProcessNotifications => FALSE
  <2>1. ~CannotSend
    BY DEF CannotSend, Sendable, Unsendable, Holding
  <2> QED
    BY <2>1 DEF ProcessNotifications
<1>4. BeginIteration \/ EndDriving \/ EndIteration \/ UNCHANGED vars => FALSE
  BY DEF BeginIteration, EndDriving, EndIteration, vars
<1>5. Reap => Unpublished
  BY OthersResolve DEF Reap
<1>6. ASSUME NEW j \in worker.to_clone, CloneFailed(j) PROVE Unpublished
  <2>1. j \in DOMAIN tasks
    BY DEF Typing, WorkerTyped
  <2> QED
    BY <1>1, <1>6, <2>1, OthersResolve, CloneResolves DEF CloneFailed
<1>7. ASSUME NEW j \in DOMAIN tasks, CloneJob(j) PROVE Unpublished
  BY <1>1, <1>7, OthersResolve, CloneResolves DEF CloneJob
<1>8. ASSUME NEW j \in DOMAIN tasks, UntagJob(j) PROVE FALSE
  BY <1>8 DEF UntagJob, GroupsListMembers
<1>9. ASSUME NEW m, NEW c, NEW j, NEW how, NEW spec,
             \/ MakeAvailable(m, c) \/ RemoveAvailable(m) \/ CancelJob(j, how) \/ HoldJob(j)
             \/ UnholdJob(j) \/ AddJobTimeout(j) \/ TagJob(j, c) \/ AddJob(spec)
             \/ AddTaggedJob(spec, c) \/ AddMatrix(spec, c) \/ SetUpMachine(spec, m) \/ AddTag
      PROVE  FALSE
  BY <1>9 DEF MakeAvailable, RemoveAvailable, CancelJob, HoldJob, UnholdJob, AddJobTimeout,
     TagJob, AddJob, AddTaggedJob, AddMatrix, SetUpMachine, AddTag, Allocate
<1>10. NewRequest => Unpublished
  BY <1>7, <1>8, <1>9 DEF NewRequest
<1>11. FinishRequest => FALSE
  BY DEF FinishRequest, MatrixAllocate, InsertTask, InsertLive, PublishMatrix, InsertTagged,
         InsertTag
<1>12. ASSUME NEW j, Environment(j) PROVE FALSE
  BY <1>12 DEF Environment, ProcessExits, CopierReports
<1> QED
  BY <1>2, <1>3, <1>4, <1>5, <1>6, <1>10, <1>11, <1>12 DEF Next, WorkThreadStep

(* The unwraps, expects and unreachable!()s of the two threads that rely   *)
(* on the state of the server: the one that can fail is that of a matrix   *)
(* which AddMatrix has not published yet (request.rs); the process info of *)
(* a running task (sm.rs:294), the task of every notification and the tag  *)
(* of every task are always found.  A panic from outside of that state (no *)
(* regex for the results, sm.rs:412; the queue poisoned by a copier thread *)
(* that died, copier.rs:99) comes only where a task checks its results.    *)
PanicsOnlyUnpublished == [][panicked' # panicked => Unpublished \/ CheckFailed]_vars
THEOREM OnlyUnpublishedMatricesPanic == Spec => PanicsOnlyUnpublished
<1> DEFINE Panics == panicked' # panicked => Unpublished \/ CheckFailed
<1>1. Typing /\ Safe /\ Grouped /\ Sendable /\ [Next]_vars => [Panics]_vars
  BY StepPanics DEF Grouped, CheckStep
<1>2. /\ Spec => []Typing
      /\ Spec => []Safe
      /\ Spec => []Grouped
      /\ Spec => []Sendable
  BY TypingInvariant, SafetyInvariant, AlwaysGrouped, AlwaysSendable
<1> HIDE DEF Panics
<1>3. Spec => [][Panics]_vars
  BY <1>1, <1>2, PTL DEF Spec
<1> QED
  BY <1>3 DEF Panics, PanicsOnlyUnpublished

-----------------------------------------------------------------------------
(* Without AddMatrix the listener never holds a matrix.                    *)
NoMatrix == listener.matrix = None
LEMMA StepNoMatrix ==
    "AddMatrix" \notin Offered /\ Typing /\ NoMatrix /\ [Next]_vars => NoMatrix'
<1> SUFFICES ASSUME "AddMatrix" \notin Offered, Typing, NoMatrix, [Next]_vars PROVE NoMatrix'
  OBVIOUS
<1>1. listener \in Listener
  BY Types
<1>2. UNCHANGED listener => NoMatrix'
  BY DEF NoMatrix
<1>3. \A point, task : Allocate(point, task) => NoMatrix'
  BY <1>1 DEF Allocate, NoMatrix, Listener
<1>4. ASSUME NEW spec, NEW m, NEW n,
             \/ AddJob(spec) \/ AddTaggedJob(spec, n) \/ SetUpMachine(spec, m) \/ AddTag
      PROVE  NoMatrix'
  BY <1>3, <1>4 DEF AddJob, AddTaggedJob, SetUpMachine, AddTag
<1>5. ASSUME NEW spec, NEW n, AddMatrix(spec, n) PROVE FALSE
  BY <1>5 DEF AddMatrix, Accept
<1>6. ASSUME NEW m, NEW c, NEW j, NEW how,
             \/ MakeAvailable(m, c) \/ RemoveAvailable(m) \/ CancelJob(j, how) \/ HoldJob(j)
             \/ UnholdJob(j) \/ AddJobTimeout(j) \/ CloneJob(j) \/ TagJob(j, c) \/ UntagJob(j)
      PROVE  UNCHANGED listener
  BY <1>6 DEF MakeAvailable, RemoveAvailable, CancelJob, HoldJob, UnholdJob, AddJobTimeout,
     CloneJob, TagJob, UntagJob
<1>7. NewRequest => NoMatrix'
  BY <1>2, <1>4, <1>5, <1>6 DEF NewRequest
<1>8. MatrixAllocate \/ InsertTask => NoMatrix'
  BY <1>1 DEF MatrixAllocate, InsertTask, NoMatrix, Listener
<1>9. InsertLive \/ PublishMatrix \/ InsertTagged \/ InsertTag => NoMatrix'
  BY DEF InsertLive, PublishMatrix, InsertTagged, InsertTag, NoMatrix, IdleListener
<1>10. ASSUME NEW j, TryDriveSm(j) PROVE UNCHANGED listener
  BY <1>10, DriveForm
<1>11. ASSUME NEW j, Environment(j) \/ CloneFailed(j) PROVE UNCHANGED listener
  BY <1>11 DEF Environment, ProcessExits, CopierReports, CloneFailed
<1>12. \/ ProcessNotifications \/ BeginIteration \/ EndDriving \/ Reap \/ EndIteration
       \/ UNCHANGED vars
       => UNCHANGED listener
  BY DEF ProcessNotifications, BeginIteration, EndDriving, Reap, EndIteration, vars
<1> QED
  BY <1>2, <1>7, <1>8, <1>9, <1>10, <1>11, <1>12 DEF Next, WorkThreadStep, FinishRequest

(* A thread that panicked holds a lock of the server, poisoned now: nothing *)
(* moves on.                                                               *)
LEMMA PanickedStops == ASSUME panicked, Next PROVE FALSE
<1>1. ASSUME NEW j, TryDriveSm(j) PROVE FALSE
  BY <1>1 DEF TryDriveSm, DriveHeld, NoMachine, Start, AllCommandsDone, CommandFailed,
     NextCommand, TimeOut, Polled, StillRunning, CheckResults, CheckPanics, CopyReported,
     StillCopying, Finalize, DriveTerminal, DriveError, DriveCanceled, Driving
<1>2. ASSUME NEW j, CloneFailed(j) PROVE FALSE
  BY <1>2 DEF CloneFailed
<1>3. ~ (ProcessNotifications \/ BeginIteration \/ EndDriving \/ Reap \/ EndIteration)
  BY DEF ProcessNotifications, BeginIteration, EndDriving, Reap, EndIteration
<1>4. ASSUME NEW j, Environment(j) PROVE FALSE
  BY <1>4 DEF Environment, ProcessExits, CopierReports
<1>5. \A kind : ~Accept(kind)
  BY DEF Accept
<1>6. \A at : ~Resume(at)
  BY DEF Resume
<1>7. ~FinishRequest
  BY <1>6 DEF FinishRequest, MatrixAllocate, InsertTask, InsertLive, PublishMatrix,
     InsertTagged, InsertTag
<1>8. ~NewRequest
  BY <1>5 DEF NewRequest, Handle, MakeAvailable, RemoveAvailable, CancelJob, HoldJob,
     UnholdJob, AddJobTimeout, CloneJob, TagJob, UntagJob, AddJob, AddTaggedJob, AddMatrix,
     SetUpMachine, AddTag
<1> QED
  BY <1>1, <1>2, <1>3, <1>4, <1>7, <1>8 DEF Next, WorkThreadStep

(* As long as clients add no matrix, whatever else they do, a thread only  *)
(* ever panics on what is outside of the state of the server, in the drive *)
(* of a task that checks its results (sm.rs:412, copier.rs:99).            *)
THEOREM ThreadsDoNotPanic == "AddMatrix" \notin Offered => (Spec => []OnlyOutsidePanics)
<1> SUFFICES ASSUME "AddMatrix" \notin Offered PROVE Spec => []OnlyOutsidePanics
  OBVIOUS
<1> DEFINE I == NoMatrix /\ OnlyOutsidePanics
<1>1. Init => I
  BY DEF Init, NoMatrix, OnlyOutsidePanics, IdleListener
<1>2. Typing /\ Safe /\ Grouped /\ Sendable /\ I /\ [Next]_vars => I'
  <2> SUFFICES ASSUME Typing, Safe, Grouped, Sendable, I, [Next]_vars PROVE I'
    OBVIOUS
  <2>1. UNCHANGED <<worker, tasks>> /\ CheckFailed => CheckFailed'
    BY DEF CheckFailed, ToDrive, IsNext, StateOf
  <2>2. CASE panicked
    <3>1. UNCHANGED vars
      BY <2>2, PanickedStops
    <3> QED
      BY <2>1, <2>2, <3>1 DEF vars, shared, OnlyOutsidePanics, NoMatrix
  <2>3. CASE ~panicked /\ panicked' # panicked
    <3>1. CheckStep
      BY <2>3, StepPanics DEF Grouped, Unpublished, NoMatrix
    <3> QED
      BY <2>1, <3>1, StepNoMatrix DEF CheckStep, OnlyOutsidePanics
  <2>4. CASE ~panicked /\ panicked' = panicked
    BY <2>4, StepNoMatrix DEF OnlyOutsidePanics
  <2> QED
    BY <2>2, <2>3, <2>4
<1>3. /\ Spec => []Typing
      /\ Spec => []Safe
      /\ Spec => []Grouped
      /\ Spec => []Sendable
  BY TypingInvariant, SafetyInvariant, AlwaysGrouped, AlwaysSendable
<1> QED
  BY <1>1, <1>2, <1>3, PTL DEF Spec

-----------------------------------------------------------------------------
(* What the modules that extend Server use of it.                          *)
ServerHolds == Typing /\ Safe /\ Orderly /\ Shown /\ AsSubmitted /\ Grouped

(* They hold at first.                                                     *)
LEMMA InitServerHolds == Init => ServerHolds
<1> SUFFICES ASSUME Init PROVE ServerHolds
  OBVIOUS
<1>1. AsSubmitted
  BY DEF Init, AsSubmitted, TaskInHand, EmptyMap, IdleListener
<1> QED
  BY <1>1, InitTyping, InitSafe, InitOrderly, InitShown, InitGrouped DEF ServerHolds

(* The invariants together are inductive.                                  *)
LEMMA NextServerHolds == ServerHolds /\ [Next]_vars => ServerHolds'
<1> SUFFICES ASSUME ServerHolds, [Next]_vars PROVE ServerHolds'
  OBVIOUS
<1>1. Typing' /\ Safe' /\ Orderly' /\ AsSubmitted'
  BY StepTyping, StepSafe, StepOrderly, StepSubmitted DEF ServerHolds
<1>2. Shown'
  BY <1>1, StepShown DEF ServerHolds
<1>3. Grouped'
  BY StepGroups DEF ServerHolds, Grouped, KeepsGroups
<1> QED
  BY <1>1, <1>2, <1>3 DEF ServerHolds

(* What a step leaves as it was: a task keeps its job and its matrix for   *)
(* as long as it is there.                                                 *)
LEMMA JobsKept ==
    ASSUME ServerHolds, [Next]_vars, NEW k \in DOMAIN tasks, k \in DOMAIN tasks'
    PROVE  tasks'[k].job = tasks[k].job /\ tasks'[k].matrix = tasks[k].matrix
<1>1. Replaced => tasks'[k].job = tasks[k].job /\ tasks'[k].matrix = tasks[k].matrix
  BY DEF Replaced
<1>2. Cloned => tasks'[k] = tasks[k]
  BY NextIdFresh DEF ServerHolds, Cloned, Put
<1>3. Inserted => tasks'[k] = tasks[k]
  BY DEF ServerHolds, Safe, ListenerFresh, Inserted, Inserting, Put
<1>4. Reaped => tasks'[k] = tasks[k]
  BY DEF Reaped, Drop
<1> QED
  BY <1>1, <1>2, <1>3, <1>4, StepForm DEF ServerHolds

(* The listener is adding a matrix only in the middle of a request.        *)
LEMMA IdleAddsNothing ==
    ASSUME ServerHolds, listener.at \notin {"matrix", "insert_task", "insert_live"}
    PROVE  listener.matrix = None
BY DEF ServerHolds, Grouped, Exact, Adding

(* The matrices that tasks name have ids that were handed out.             *)
LEMMA NamedMatrices ==
    ASSUME ServerHolds, NEW k \in DOMAIN tasks, tasks[k].matrix # None
    PROVE  \/ tasks[k].matrix \in DOMAIN matrices /\ k \in matrices[tasks[k].matrix]
           \/ tasks[k].matrix = listener.matrix /\ k \in listener.jids
BY DEF ServerHolds, Grouped, GroupsListMembers

(* No step but PublishMatrix makes a matrix.                               *)
LEMMA MatricesArePublished ==
    ASSUME [Next]_vars, NEW m \in DOMAIN matrices' \ DOMAIN matrices PROVE PublishMatrix
<1>1. ASSUME NEW j, TryDriveSm(j) PROVE UNCHANGED matrices
  BY <1>1 DEF TryDriveSm, DriveHeld, NoMachine, Start, AllCommandsDone, CommandFailed,
     NextCommand, TimeOut, StillRunning, CheckResults, CheckPanics, CopyReported, StillCopying,
     Finalize, DriveTerminal, DriveError, DriveCanceled, shared
<1>2. ASSUME NEW j, CloneFailed(j) \/ CloneJob(j) PROVE DOMAIN matrices' \subseteq DOMAIN matrices
  BY <1>2 DEF CloneFailed, CloneJob, InsertClone
<1>3. Reap => DOMAIN matrices' \subseteq DOMAIN matrices
  BY DEF Reap, Drop, MatricesWithout
<1>4. ProcessNotifications \/ BeginIteration \/ EndDriving \/ EndIteration => UNCHANGED matrices
  BY DEF ProcessNotifications, BeginIteration, EndDriving, EndIteration, shared
<1>5. ASSUME NEW j, Environment(j) PROVE UNCHANGED matrices
  BY <1>5 DEF Environment, ProcessExits, CopierReports, shared
<1>6. ASSUME NEW j, NEW n, NEW c, NEW how, NEW spec,
             \/ RemoveAvailable(n) \/ MakeAvailable(n, c) \/ CancelJob(j, how) \/ HoldJob(j)
             \/ UnholdJob(j) \/ AddJobTimeout(j) \/ TagJob(j, c) \/ UntagJob(j)
             \/ AddJob(spec) \/ AddTaggedJob(spec, n) \/ AddMatrix(spec, n)
             \/ SetUpMachine(spec, n) \/ AddTag
      PROVE  UNCHANGED matrices
  BY <1>6 DEF RemoveAvailable, MakeAvailable, CancelJob, HoldJob, UnholdJob, AddJobTimeout,
     TagJob, UntagJob, AddJob, AddTaggedJob, AddMatrix, SetUpMachine, AddTag, Allocate
<1>7. NewRequest => DOMAIN matrices' \subseteq DOMAIN matrices
  BY <1>2, <1>6 DEF NewRequest
<1>8. MatrixAllocate \/ InsertTask \/ InsertLive \/ InsertTagged \/ InsertTag => UNCHANGED matrices
  BY DEF MatrixAllocate, InsertTask, InsertLive, InsertTagged, InsertTag
<1>9. UNCHANGED vars => UNCHANGED matrices
  BY DEF vars, shared
<1> QED
  BY <1>1, <1>2, <1>3, <1>4, <1>5, <1>7, <1>8, <1>9 DEF Next, WorkThreadStep, FinishRequest

==============================================================================
