------------------------------ MODULE Requests ------------------------------
(***************************************************************************)
(* The request handlers (src/src/bin/server/request.rs) that change the    *)
(* server's state, run by the listener thread one request at a time.  A    *)
(* handler that holds its locks throughout is one action; one that takes   *)
(* them one after the other has an action per critical section.  Requests  *)
(* that are refused, and those that only read, change nothing.             *)
(***************************************************************************)
EXTENDS WorkThread

(* The listener takes up a request of this kind. *)
Accept(kind) == /\ ~panicked
                /\ kind \in Offered
                /\ listener.at = "idle"
                /\ requests < MaxRequests /\ requests' = requests + 1

(* ... and handles it with the work thread not holding the locks.          *)
Handle(kind) == Accept(kind) /\ ~WorkerHoldsLocks

(* The handler was interrupted between two critical sections at this point.*)
Resume(at) == ~panicked /\ listener.at = at /\ UNCHANGED requests

Unaffected == UNCHANGED <<handles, copying, copying_flags, worker, immediate, faults>>

-----------------------------------------------------------------------------
(* MakeAvailable: the class is set, the running job kept, failures reset.  *)
MakeAvailable(m, class) ==
    /\ Handle("MakeAvailable")
    /\ machines' = Put(machines, m,
          [class |-> class, failures |-> 0,
           running |-> IF m \in DOMAIN machines THEN machines[m].running ELSE None])
    /\ UNCHANGED <<tasks, live_tasks, matrices, tags, next_jid, listener, panicked>>
    /\ Unaffected

(* cancel_job.  Wrong variant: the task is not made live.                  *)
CancelQuietly(j, how) == /\ tasks' = [tasks EXCEPT ![j] = [@ EXCEPT !.canceled = how]]
                         /\ UNCHANGED live_tasks
Cancel(j, how) == /\ tasks' = [tasks EXCEPT ![j] = [@ EXCEPT !.canceled = how]]
                  /\ live_tasks' = live_tasks \cup {j}

(* RemoveAvailable: also cancels what the machine is running. *)
RemoveAvailable(m) ==
    /\ Handle("RemoveAvailable")
    /\ m \in DOMAIN machines
    /\ machines' = Drop(machines, {m})
    /\ IF machines[m].running \in DOMAIN tasks
       THEN Cancel(machines[m].running, "keep")
       ELSE UNCHANGED <<tasks, live_tasks>>
    /\ UNCHANGED <<matrices, tags, next_jid, listener, panicked>>
    /\ Unaffected

CancelJob(j, how) ==
    /\ Handle("CancelJob")
    /\ Cancel(j, how)
    /\ UNCHANGED <<machines, matrices, tags, next_jid, listener, panicked>>
    /\ Unaffected

(* Wrong variant: anything but a finished task can be put on hold. *)
HoldableUnfinished(t) == t.state \notin Terminal
Holdable(t) == t.state \in {"Waiting", "Held"}

HoldJob(j) ==
    /\ Handle("HoldJob")
    /\ Holdable(tasks[j])
    /\ tasks' = [tasks EXCEPT ![j] = [@ EXCEPT !.state = "Held"]]
    /\ UNCHANGED <<machines, live_tasks, matrices, tags, next_jid, listener, panicked>>
    /\ Unaffected

UnholdJob(j) ==
    /\ Handle("UnholdJob")
    /\ tasks[j].state = "Held"
    /\ tasks' = [tasks EXCEPT ![j] = [@ EXCEPT !.state = "Waiting"]]
    /\ UNCHANGED <<machines, live_tasks, matrices, tags, next_jid, listener, panicked>>
    /\ Unaffected

AddJobTimeout(j) ==
    /\ Handle("AddJobTimeout")
    /\ tasks' = [tasks EXCEPT ![j] = [@ EXCEPT !.timeout = TRUE]]
    /\ UNCHANGED <<machines, live_tasks, matrices, tags, next_jid, listener, panicked>>
    /\ Unaffected

(* CloneJob, under the lock of tasks. *)
CloneJob(j) ==
    LET t == CloneTask(tasks[j]) IN
    /\ Handle("CloneJob")
    /\ next_jid' = next_jid + 1
    /\ IF RefsResolve(t) THEN InsertClone(next_jid, t) /\ UNCHANGED panicked
       ELSE panicked' = TRUE /\ UNCHANGED <<tasks, live_tasks, matrices, tags>>
    /\ UNCHANGED <<machines, listener>>
    /\ Unaffected

(* TagJob with a tag.  The jid stays in the list of a previous tag.        *)
TagJob(j, t) ==
    /\ Handle("TagJob")
    /\ t \in DOMAIN tags
    /\ tasks' = [tasks EXCEPT ![j] = [@ EXCEPT !.tag = t]]
    /\ tags' = [tags EXCEPT ![t] = @ \cup {j}]
    /\ UNCHANGED <<machines, live_tasks, matrices, next_jid, listener, panicked>>
    /\ Unaffected

(* TagJob without a tag. *)
UntagJob(j) ==
    LET t == tasks[j].tag IN
    /\ Handle("TagJob")
    /\ t # None
    /\ IF t \in DOMAIN tags
       THEN /\ tasks' = [tasks EXCEPT ![j] = [@ EXCEPT !.tag = None]]
            /\ tags' = [tags EXCEPT ![t] = @ \ {j}]
            /\ UNCHANGED panicked
       ELSE panicked' = TRUE /\ UNCHANGED <<tasks, tags>>
    /\ UNCHANGED <<machines, live_tasks, matrices, next_jid, listener>>
    /\ Unaffected

-----------------------------------------------------------------------------
(* AddJob without a tag, SetUpMachine, AddMatrix: next_jid.fetch_add, then *)
(* tasks.insert, then live_tasks.insert, each on its own.                  *)
AllocateAfter(point, task) ==   \* wrong variant: the value after the increment
    /\ next_jid' = next_jid + 1
    /\ listener' = [listener EXCEPT !.at = point, !.jid = next_jid', !.task = task]
    /\ UNCHANGED <<machines, tasks, live_tasks, matrices, tags, panicked>>
    /\ Unaffected
Allocate(point, task) ==
    /\ next_jid' = next_jid + 1
    /\ listener' = [listener EXCEPT !.at = point, !.jid = next_jid, !.task = task]
    /\ UNCHANGED <<machines, tasks, live_tasks, matrices, tags, panicked>>
    /\ Unaffected

AddJob(spec) ==
    /\ Accept("AddJob")
    /\ Allocate("insert_task", NewTask(spec, None, None, None))

SetUpMachine(spec, m) ==
    /\ Accept("SetUpMachine")
    /\ Allocate("insert_task", NewTask(spec, m, None, None))

AddTaggedJob(spec, t) ==
    /\ Accept("AddTaggedJob")
    /\ Allocate("insert_tagged", NewTask(spec, None, None, t))

AddTag == Accept("AddTag") /\ Allocate("insert_tag", None)

(* A matrix of n jobs, all of them repeat_on_fail. *)
AddMatrix(spec, n) ==
    /\ Accept("AddMatrix")
    /\ next_jid' = next_jid + 1
    /\ listener' = [at |-> "matrix", jid |-> None, matrix |-> next_jid, left |-> n,
                    jids |-> {},
                    task |-> NewTask([spec EXCEPT !.repeat_on_fail = TRUE],
                                     None, next_jid, None)]
    /\ UNCHANGED <<machines, tasks, live_tasks, matrices, tags, panicked>>
    /\ Unaffected

MatrixAllocate ==
    /\ Resume("matrix") /\ listener.left > 0
    /\ next_jid' = next_jid + 1
    /\ listener' = [listener EXCEPT !.at = "insert_task", !.jid = next_jid,
                                    !.left = @ - 1, !.jids = @ \cup {next_jid}]
    /\ UNCHANGED <<machines, tasks, live_tasks, matrices, tags, panicked>>
    /\ Unaffected

InsertTask ==
    /\ Resume("insert_task") /\ ~WorkerHoldsLocks
    /\ tasks' = Put(tasks, listener.jid, listener.task)
    /\ listener' = [listener EXCEPT !.at = "insert_live"]
    /\ UNCHANGED <<machines, live_tasks, matrices, tags, next_jid, panicked>>
    /\ Unaffected

InsertLive ==
    /\ Resume("insert_live") /\ ~WorkerHoldsLocks
    /\ live_tasks' = live_tasks \cup {listener.jid}
    /\ listener' = IF listener.matrix = None THEN IdleListener
                   ELSE [listener EXCEPT !.at = "matrix", !.jid = None]
    /\ UNCHANGED <<machines, tasks, matrices, tags, next_jid, panicked>>
    /\ Unaffected

(* Only now does the matrix exist. *)
PublishMatrix ==
    /\ Resume("matrix") /\ listener.left = 0 /\ ~WorkerHoldsLocks
    /\ matrices' = Put(matrices, listener.matrix, listener.jids)
    /\ listener' = IdleListener
    /\ UNCHANGED <<machines, tasks, live_tasks, tags, next_jid, panicked>>
    /\ Unaffected

(* AddJob with a tag: the id is spent even if the tag does not exist. *)
InsertTagged ==
    LET t == listener.task.tag IN
    /\ Resume("insert_tagged") /\ ~WorkerHoldsLocks
    /\ IF t \in DOMAIN tags
       THEN /\ tasks' = Put(tasks, listener.jid, listener.task)
            /\ tags' = [tags EXCEPT ![t] = @ \cup {listener.jid}]
            /\ live_tasks' = live_tasks \cup {listener.jid}
       ELSE UNCHANGED <<tasks, live_tasks, tags>>
    /\ listener' = IdleListener
    /\ UNCHANGED <<machines, matrices, next_jid, panicked>>
    /\ Unaffected

InsertTag ==
    /\ Resume("insert_tag") /\ ~WorkerHoldsLocks
    /\ tags' = Put(tags, listener.jid, {})
    /\ listener' = IdleListener
    /\ UNCHANGED <<machines, tasks, live_tasks, matrices, next_jid, panicked>>
    /\ Unaffected

-----------------------------------------------------------------------------
NewRequest ==
    \/ \E m \in Machines : RemoveAvailable(m) \/ \E c \in Classes : MakeAvailable(m, c)
    \/ \E j \in DOMAIN tasks :
          \/ \E how \in {"keep", "remove"} : CancelJob(j, how)
          \/ HoldJob(j) \/ UnholdJob(j) \/ AddJobTimeout(j) \/ CloneJob(j)
          \/ \E t \in DOMAIN tags : TagJob(j, t)
          \/ UntagJob(j)
    \/ \E spec \in JobSpecs : \/ AddJob(spec)
                              \/ \E t \in 0..next_jid : AddTaggedJob(spec, t)
                              \/ \E n \in MatrixSizes : AddMatrix(spec, n)
    \/ \E spec \in SetupSpecs, m \in Machines : SetUpMachine(spec, m)
    \/ AddTag

FinishRequest == \/ MatrixAllocate \/ InsertTask \/ InsertLive \/ PublishMatrix
                 \/ InsertTagged \/ InsertTag
=============================================================================
