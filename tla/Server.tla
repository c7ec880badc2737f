------------------------------- MODULE Server -------------------------------
(***************************************************************************)
(* The job server: the listener thread serving requests, the work thread   *)
(* driving tasks, the child processes and the copier thread around them.   *)
(***************************************************************************)
EXTENDS Requests

CONSTANT WatchedIds   \* the ids that the liveness properties speak of

Next == \/ WorkThreadStep
        \/ NewRequest
        \/ FinishRequest
        \/ \E j \in DOMAIN handles \cup copying : Environment(j)

Spec == Init /\ [][Next]_vars

(* Unless it panics, the work thread never stops looping and each of its   *)
(* sleeps ends; a handler once begun runs to its end.  Clients need not    *)
(* send requests, processes need not exit, copies need not finish.  This   *)
(* assumes that copy() returns, so that the copier thread does not wait    *)
(* for its own lock, which it may (run copier_stuck).                      *)
FairSpec == Spec /\ WF_vars(WorkThreadStep) /\ WF_vars(FinishRequest)

-----------------------------------------------------------------------------
(* main.rs:58: "if a task needs to be updated, it should be added to this  *)
(* set": a task that is not finished, or that a client cancelled, is live, *)
(* or the listener is about to make it live.                               *)
LiveCoversActive ==
    \A j \in DOMAIN tasks :
        (tasks[j].state \notin Terminal \/ tasks[j].canceled # None)
        => \/ j \in live_tasks
           \/ listener.at = "insert_live" /\ listener.jid = j

(* No machine is leaked: what a machine is said to be running is a task    *)
(* that exists, was placed on that machine, and still has steps to go that *)
(* free it (free_machine in sm.rs frees only by this match).               *)
NoLeakedMachine ==
    \A m \in DOMAIN machines :
        machines[m].running # None =>
            /\ machines[m].running \in DOMAIN tasks
            /\ tasks[machines[m].running].machine = m
            /\ tasks[machines[m].running].state \in Holding

(* sm.rs:292: a Running task has process info, and (dropping a Child does  *)
(* not kill it) no process that may still run loses its Running task.      *)
RunningIffProcess ==
    /\ \A j \in DOMAIN tasks : tasks[j].state = "Running" => j \in DOMAIN handles
    /\ \A j \in DOMAIN handles :
          handles[j] = "running" => j \in DOMAIN tasks /\ tasks[j].state = "Running"

(* request.rs:77: status() unwraps the machine of a task in these states,  *)
(* so a status request can never meet one without a machine.               *)
StatusHasMachine ==
    \A j \in DOMAIN tasks :
        tasks[j].state \in Holding \cup {"Done", "DoneWithResults", "ErrorDone"}
        => tasks[j].machine # None

(* A machine runs one command at a time (CONTEXT.md, Machine).             *)
MachineExclusive ==
    \A j, k \in DOMAIN handles :
        j # k /\ handles[j] = "running" /\ handles[k] = "running"
        => tasks[j].machine # tasks[k].machine

(* A thread that panicked stands where it stood (nothing moves on): it was *)
(* checking results, and failed on what is outside of it (CheckPanics).    *)
CheckFailed == /\ worker.at = "drive"
               /\ \E j \in ToDrive : IsNext(j) /\ StateOf(j) = "CheckingResults"

(* None of the unwraps, expects and unreachable!()s that rely on the state *)
(* of the server itself is reached: the process info of a running task     *)
(* (sm.rs:294), the task of a notification (notify.rs:513), the matrix and *)
(* the tag of a task (main.rs:423, :430, :454, :459 and request.rs).       *)
OnlyOutsidePanics == panicked => CheckFailed

(* A task that names a matrix or a tag is listed there, so that it is      *)
(* removed from it when reaped; a matrix being added is not there yet.     *)
GroupsListMembers ==
    \A j \in DOMAIN tasks :
        /\ LET m == tasks[j].matrix IN
           m # None => \/ m \in DOMAIN matrices /\ j \in matrices[m]
                       \/ listener.matrix = m /\ j \in listener.jids
        /\ LET t == tasks[j].tag IN
           t # None => t \in DOMAIN tags /\ j \in tags[t]

(* No jid of a task that was removed lingers in a matrix.                  *)
MatrixHasNoGhost == \A m \in DOMAIN matrices : matrices[m] \subseteq DOMAIN tasks

(* sm.rs:191: a retry never has a higher attempt number than allowed.  (How *)
(* often a task is cloned is not bounded: clients may clone it, and one    *)
(* that timed out is cloned again when it is cancelled later.)             *)
RetryBound ==
    \A j \in DOMAIN tasks :
        tasks[j].attempt > 0 =>
            /\ tasks[j].job.repeat_on_fail
            /\ tasks[j].job.maximum_failures # None
                 => tasks[j].attempt <= tasks[j].job.maximum_failures

(* sm.rs:25: a machine with MACHINE_FAILURES consecutive failures is taken *)
(* out of its class as soon as it is free.                                 *)
FaultyMachineQuarantined ==
    \A m \in DOMAIN machines :
        machines[m].running = None /\ machines[m].failures >= MachineFailures
        => machines[m].class = BrokenClass

(* A task that waits for its results is known to the copier thread, or the *)
(* report is there: it cannot wait for ever for a copy nobody makes.       *)
NoLostCopy ==
    \A j \in DOMAIN tasks :
        tasks[j].state = "CopyingResults" => j \in copying \cup DOMAIN copying_flags

-----------------------------------------------------------------------------
(* Jobs run in the order they were enqueued (README.md; BTreeSet since     *)
(* 0.9.2): when a job gets a machine, no job enqueued before it for the    *)
(* same class is left waiting.                                             *)
Starts(j) == /\ j \in DOMAIN tasks \cap DOMAIN tasks' /\ tasks[j].job.ty = "Job"
             /\ tasks[j].state = "Waiting"
             /\ tasks'[j].state \in {"Running", "Error"}
Eligible(j) == /\ j \in DOMAIN tasks /\ j \in live_tasks
               /\ tasks[j].job.ty = "Job" /\ tasks[j].state = "Waiting"
               /\ tasks[j].canceled = None
StartsInOrder ==
    [][\A j \in live_tasks : Starts(j) =>
          ~ \E k \in live_tasks : /\ k < j /\ Eligible(k)
                                  /\ tasks[k].job.class = tasks[j].job.class]_vars

(* No command is spawned for a task whose cancellation was acknowledged,   *)
(* nor for one that a client put on hold.                                  *)
Spawned(j) == /\ j \in DOMAIN handles' /\ handles'[j] = "running"
              /\ \/ j \notin DOMAIN handles
                 \/ tasks'[j].index # tasks[j].index
NoUnwantedStart ==
    [][\A j \in DOMAIN handles' : Spawned(j) =>
          /\ j \in DOMAIN tasks
          /\ tasks[j].canceled = None
          /\ tasks[j].state \in {"Waiting", "Running"}]_vars

-----------------------------------------------------------------------------
(* Task::status in request.rs, as JobStatus reports it.                    *)
StatusOf(t) ==
    [status |-> CASE t.state = "Waiting" -> "Waiting"
                  [] t.state = "Held" -> "Held"
                  [] t.state \in {"Running", "CheckingResults", "Finalize"} -> "Running"
                  [] t.state = "CopyingResults" -> "Copyresults"
                  [] t.state \in {"Done", "DoneWithResults"} -> "Done"
                  [] t.state \in {"Error", "ErrorDone"} -> "Failed"
                  [] t.state \in {"Canceled", "Killed"} -> "Canceled"
                  [] t.state = "Unknown" -> "Unknown",
     machine |-> IF t.state \in {"Waiting", "Held", "Canceled", "Killed", "Unknown"}
                 THEN None ELSE t.machine,
     output |-> t.state = "DoneWithResults"]

(* What clients see of each task follows the life cycle of JobStatus.      *)
Clients == INSTANCE JobStatus
           WITH Jids <- WatchedIds, view <- [j \in DOMAIN tasks |-> StatusOf(tasks[j])]
ImplementsJobStatus == Clients!Spec

(* The work thread uses the copier thread as CopyService allows: one       *)
(* request per task, and only reports that were made are acted upon.       *)
Copies == INSTANCE CopyService
          WITH Jids <- WatchedIds, Results <- CopierThreadResult, flags <- copying_flags
UsesCopyService == Copies!Spec

-----------------------------------------------------------------------------
(* As long as no thread panics, a cancelled task is killed or forgotten,   *)
(* whatever state it was in.                                               *)
CancelPending(j) == j \in DOMAIN tasks /\ tasks[j].canceled # None
CancelHandled == \A j \in WatchedIds : CancelPending(j) ~> ~CancelPending(j) \/ panicked

(* The exit of a task's process is noticed.  (Short-circuiting the drives  *)
(* lets earlier tasks delay this, but not for ever.)                       *)
Exited(j) == /\ j \in DOMAIN tasks /\ tasks[j].state = "Running"
             /\ j \in DOMAIN handles /\ handles[j] # "running"
ExitNoticed == \A j \in WatchedIds : Exited(j) ~> ~Exited(j) \/ panicked

(* What the copier thread reports for a task is acted upon.                *)
Reported(j) == /\ j \in DOMAIN tasks /\ tasks[j].state = "CopyingResults"
               /\ j \in DOMAIN copying_flags
CopyNoticed == \A j \in WatchedIds : Reported(j) ~> ~Reported(j) \/ panicked
=============================================================================
