---------------------------- MODULE StateMachine ----------------------------
(***************************************************************************)
(* Driving one task (src/src/bin/server/sm.rs): one action per transition  *)
(* of the state machine that try_drive_sm implements.  The work thread     *)
(* holds every lock meanwhile.  What the operating system answers (does    *)
(* spawn succeed, has the process exited, has the timeout elapsed, is      *)
(* there a RESULTS line) is a nondeterministic choice; the answers that    *)
(* are failures are counted in faults.                                     *)
(***************************************************************************)
EXTENDS ServerState

(* The iteration reaches j: live_tasks is a BTreeSet, so jids come in      *)
(* increasing order, and `updated || try_drive_sm(..)` stops driving after *)
(* the first call that returns true.                                       *)
ToDrive == worker.todo \cap DOMAIN tasks
(* Wrong variant: a HashSet, in any order, as before 0.9.2. *)
IsNextInAnyOrder(j) == j \in ToDrive
IsNext(j) == j \in ToDrive /\ \A k \in ToDrive : j <= k
(* Wrong variant: every live task is driven, as main.rs:341 has it. *)
DrivingAll(j) == ~panicked /\ worker.at = "drive" /\ IsNext(j)
Driving(j) == /\ ~panicked
              /\ worker.at = "drive"
              /\ ~worker.updated
              /\ IsNext(j)

(* What the prologue of try_drive_sm leaves in task.state.  Wrong variant: *)
(* without the test of canceled.                                           *)
StateOfUncancelled(j) == tasks[j].state
StateOf(j) == IF tasks[j].canceled # None THEN "Canceled" ELSE tasks[j].state

(* try_drive_sm returns b. *)
Return(j, b) == worker' = [worker EXCEPT !.todo = @ \ {j}, !.updated = b]

Fault == faults < MaxFaults /\ faults' = faults + 1

-----------------------------------------------------------------------------
(* SlackNotifications::enqueue_task_notification: the event, if any, that  *)
(* a task in this state is reported as.                                    *)
EventOf(t) ==
    CASE t.state = "Running" -> {"running"}
      [] t.state \in {"CheckingResults", "CopyingResults", "Done"}
           \/ (t.state = "Finalize" /\ ~t.results) -> {"complete"}
      [] t.state = "DoneWithResults"
           \/ (t.state = "Finalize" /\ t.results) -> {"results_copied"}
      [] t.state \in {"Error", "ErrorDone"} -> {"task_failed"}
      [] OTHER -> {}
NotifyTask(j, t) ==
    immediate' = IF t.job.notify /\ EventOf(t) \cap ImmediateEvents # {}
                 THEN immediate \cup {j} ELSE immediate

(* free_machine: only if the machine is (still) running this very task.    *)
(* Wrong variant: a task that is cancelled has lost its machine already.   *)
OwnsUncancelled(j, t) == /\ t.machine \in DOMAIN machines /\ t.canceled = None
                         /\ machines[t.machine].running = j
Owns(j, t) == /\ t.machine \in DOMAIN machines
              /\ machines[t.machine].running = j
(* Wrong variant: a failure too many is allowed. *)
ReleasedLate(m) == [m EXCEPT !.running = None,
                             !.class = IF m.failures > MachineFailures
                                       THEN BrokenClass ELSE m.class]
Released(m) == [m EXCEPT !.running = None,
                         !.class = IF m.failures >= MachineFailures
                                   THEN BrokenClass ELSE m.class]
AfterFree(j, t, ms) ==
    IF Owns(j, t) THEN [ms EXCEPT ![t.machine] = Released(ms[t.machine])] ELSE ms
NotifyBroken(j, t, ms) ==
    immediate' = IF /\ Owns(j, t)
                    /\ ms[t.machine].failures >= MachineFailures
                    /\ "machine_broken" \in ImmediateEvents
                 THEN immediate \cup {t.machine} ELSE immediate

(* machines.get_mut(m), if the machine is in the pool, set to st.          *)
Update(m, st) == IF m \in DOMAIN machines THEN [machines EXCEPT ![m] = st] ELSE machines

-----------------------------------------------------------------------------
(* TaskState::Held => false *)
DriveHeld(j) == /\ Driving(j) /\ StateOf(j) = "Held"
                /\ Return(j, FALSE)
                /\ UNCHANGED <<shared, immediate, handles, copying, copying_flags,
                               listener, requests, faults, panicked>>

(* try_drive_sm_waiting.  A setup task always takes the machine it names,  *)
(* in the pool or not, free or not; a job takes any free machine of its    *)
(* class.                                                                  *)
CandidatesOrBusy(j) ==   \* wrong variant: busy machines too
    IF tasks[j].job.ty = "SetupTask" THEN {tasks[j].machine}
    ELSE {m \in DOMAIN machines : machines[m].class = tasks[j].job.class}
Candidates(j) ==
    IF tasks[j].job.ty = "SetupTask" THEN {tasks[j].machine}
    ELSE {m \in DOMAIN machines : /\ machines[m].running = None
                                  /\ machines[m].class = tasks[j].job.class}

NoMachine(j) == /\ Driving(j) /\ StateOf(j) = "Waiting"
                /\ Candidates(j) = {}
                /\ Return(j, FALSE)
                /\ UNCHANGED <<shared, immediate, handles, copying, copying_flags,
                               listener, requests, faults, panicked>>

(* The task placed on m; spawned says whether run_cmd could start its      *)
(* first command.  Wrong variant: the machine is not recorded.             *)
LaunchedAnywhere(t, m, spawned) ==
    [t EXCEPT !.index = 0, !.state = IF spawned THEN "Running" ELSE "Error"]
Launched(t, m, spawned) ==
    [t EXCEPT !.machine = m, !.index = 0,
              !.state = IF spawned THEN "Running" ELSE "Error"]

Start(j, m, spawned) ==
    /\ Driving(j) /\ StateOf(j) = "Waiting"
    /\ m \in Candidates(j)
    /\ machines' = Update(m, [machines[m] EXCEPT !.running = j])
    /\ tasks' = [tasks EXCEPT ![j] = Launched(tasks[j], m, spawned)]
    /\ handles' = IF spawned THEN Put(handles, j, "running") ELSE handles
    /\ IF spawned THEN faults' = faults ELSE Fault
    /\ NotifyTask(j, tasks'[j])
    /\ Return(j, TRUE)
    /\ UNCHANGED <<live_tasks, matrices, tags, next_jid, copying, copying_flags,
                   listener, requests, panicked>>

-----------------------------------------------------------------------------
(* try_drive_sm_running *)
Polled(j, status) == /\ Driving(j) /\ StateOf(j) = "Running"
                     /\ j \in DOMAIN handles /\ handles[j] = status
LastCommand(j) == tasks[j].index = tasks[j].job.cmds - 1

AllCommandsDone(j) ==
    /\ Polled(j, "ok") /\ LastCommand(j)
    /\ tasks' = [tasks EXCEPT ![j] = [@ EXCEPT !.state = "CheckingResults", !.index = 0]]
    /\ NotifyTask(j, tasks'[j])
    /\ Return(j, TRUE)
    /\ UNCHANGED <<machines, live_tasks, matrices, tags, next_jid, handles, copying,
                   copying_flags, listener, requests, faults, panicked>>

(* On to the next command, which could be started or not. *)
Advanced(t, spawned) == [t EXCEPT !.index = t.index + 1,
                                  !.state = IF spawned THEN "Running" ELSE "Error"]

NextCommand(j, spawned) ==
    /\ Polled(j, "ok") /\ ~LastCommand(j)
    /\ tasks' = [tasks EXCEPT ![j] = Advanced(tasks[j], spawned)]
    /\ handles' = IF spawned THEN Put(handles, j, "running") ELSE handles
    /\ IF spawned THEN faults' = faults ELSE Fault
    /\ Return(j, TRUE)
    /\ UNCHANGED <<machines, live_tasks, matrices, tags, next_jid, immediate, copying,
                   copying_flags, listener, requests, panicked>>

CommandFailed(j) ==
    /\ Polled(j, "fail")
    /\ tasks' = [tasks EXCEPT ![j] = [@ EXCEPT !.state = "Error"]]
    /\ NotifyTask(j, tasks'[j])
    /\ Return(j, TRUE)
    /\ UNCHANGED <<machines, live_tasks, matrices, tags, next_jid, handles, copying,
                   copying_flags, listener, requests, faults, panicked>>

(* The timeout only marks the task; the next drive cancels it. *)
TimeOut(j) ==
    /\ Polled(j, "running") /\ tasks[j].timeout
    /\ tasks' = [tasks EXCEPT ![j] = [@ EXCEPT !.timedout = tasks[j].index,
                                               !.canceled = "keep"]]
    /\ Fault
    /\ NotifyTask(j, tasks'[j])
    /\ Return(j, TRUE)
    /\ UNCHANGED <<machines, live_tasks, matrices, tags, next_jid, handles, copying,
                   copying_flags, listener, requests, panicked>>

(* Ok(None) before the timeout, and the Err of try_wait, change nothing;   *)
(* without process info, expect("No job process info for running command.") *)
StillRunning(j) ==
    /\ Driving(j) /\ StateOf(j) = "Running"
    /\ j \in DOMAIN handles => handles[j] = "running"
    /\ IF j \in DOMAIN handles THEN Return(j, FALSE) /\ UNCHANGED panicked
       ELSE panicked' = TRUE /\ UNCHANGED worker
    /\ UNCHANGED <<shared, immediate, handles, copying, copying_flags, listener,
                   requests, faults>>

-----------------------------------------------------------------------------
(* copier::copy.  Wrong variant: nothing is queued.                        *)
ForgetCopy(j) == copying' = copying
RequestCopy(j) == copying' = copying \cup {j}

(* copying_flags.remove(&jid).  Wrong variant: every flag is taken.        *)
TakeAllFlags(j) == copying_flags' = EmptyMap
TakeFlag(j) == copying_flags' = Drop(copying_flags, {j})

(* try_drive_sm_checking_results; produced: stdout has a RESULTS line.     *)
CheckResults(j, produced) ==
    LET copies == tasks[j].job.cp_results /\ produced
        m == tasks[j].machine
    IN /\ Driving(j) /\ StateOf(j) = "CheckingResults"
       /\ machines' = Update(m, [machines[m] EXCEPT !.failures = 0])
       /\ tasks' = [tasks EXCEPT ![j] =
                      [@ EXCEPT !.state = IF copies THEN "CopyingResults" ELSE "Finalize"]]
       /\ IF copies THEN RequestCopy(j) ELSE UNCHANGED copying
       /\ NotifyTask(j, tasks'[j])
       /\ Return(j, TRUE)
       /\ UNCHANGED <<live_tasks, matrices, tags, next_jid, handles, copying_flags,
                      listener, requests, faults, panicked>>

(* Two things outside the thread can panic it here, before the state is    *)
(* changed: the log of the last command cannot be opened (sm.rs:412), or   *)
(* the copier thread has died with its queue locked, and copy() unwraps    *)
(* the poisoned lock (copier.rs:99; Copier, StartFails).                   *)
CheckPanics(j) ==
    LET m == tasks[j].machine IN
    /\ Driving(j) /\ StateOf(j) = "CheckingResults"
    /\ machines' = Update(m, [machines[m] EXCEPT !.failures = 0])
    /\ Fault /\ panicked' = TRUE
    /\ UNCHANGED <<tasks, live_tasks, matrices, tags, next_jid, immediate, handles, copying,
                   copying_flags, worker, listener, requests>>

(* TaskState::CopyingResults: consume what the copier reported. *)
CopyReported(j) ==
    LET m == tasks[j].machine IN
    /\ Driving(j) /\ StateOf(j) = "CopyingResults"
    /\ j \in DOMAIN copying_flags
    /\ TakeFlag(j)
    /\ tasks' = [tasks EXCEPT ![j] =
                   IF copying_flags[j] = "Success"
                   THEN [@ EXCEPT !.state = "Finalize", !.results = TRUE]
                   ELSE [@ EXCEPT !.state = "Error"]]
    /\ machines' = IF copying_flags[j] = "SshUnknownHostKey"
                   THEN Update(m, [machines[m] EXCEPT !.class = UnknownHostClass])
                   ELSE machines
    /\ Return(j, TRUE)
    /\ UNCHANGED <<live_tasks, matrices, tags, next_jid, immediate, handles, copying,
                   listener, requests, faults, panicked>>

StillCopying(j) == /\ Driving(j) /\ StateOf(j) = "CopyingResults"
                   /\ j \notin DOMAIN copying_flags
                   /\ Return(j, FALSE)
                   /\ UNCHANGED <<shared, immediate, handles, copying, copying_flags,
                                  listener, requests, faults, panicked>>

(* try_drive_sm_finalize.  A setup task with a class whose machine was not *)
(* freed here inserts the machine, keeping what it is running.             *)
Finalize(j) ==
    LET t == tasks[j]
        m == t.machine
        joins == t.job.ty = "SetupTask" /\ t.job.class # None /\ ~Owns(j, t)
        running == IF m \in DOMAIN machines THEN machines[m].running ELSE None
    IN /\ Driving(j) /\ StateOf(j) = "Finalize"
       /\ machines' = IF joins
                      THEN Put(machines, m, [class |-> t.job.class,
                                             running |-> running, failures |-> 0])
                      ELSE AfterFree(j, t, machines)
       /\ NotifyBroken(j, t, machines)
       /\ tasks' = [tasks EXCEPT ![j] =
                      [@ EXCEPT !.state = IF t.results THEN "DoneWithResults" ELSE "Done"]]
       /\ Return(j, TRUE)
       /\ UNCHANGED <<live_tasks, matrices, tags, next_jid, handles, copying,
                      copying_flags, listener, requests, faults, panicked>>

(* Done, DoneWithResults, Killed, Unknown, ErrorDone *)
DriveTerminal(j) ==
    /\ Driving(j) /\ StateOf(j) \in Terminal
    /\ handles' = Drop(handles, {j})
    /\ live_tasks' = live_tasks \ {j}
    /\ Return(j, j \in DOMAIN handles)
    /\ UNCHANGED <<machines, tasks, matrices, tags, next_jid, immediate, copying,
                   copying_flags, listener, requests, faults, panicked>>

(* TaskState::Error: blame and free the machine, schedule the retry.       *)
MayRetryOnceMore(t) ==   \* wrong variant: <= instead of <
    /\ t.job.repeat_on_fail
    /\ \/ t.job.maximum_failures = None
       \/ t.attempt <= t.job.maximum_failures
MayRetry(t) == /\ t.job.repeat_on_fail
               /\ \/ t.job.maximum_failures = None
                  \/ t.attempt < t.job.maximum_failures

DriveError(j) ==
    LET t == tasks[j]
        m == t.machine
        failures == IF machines[m].failures < MachineFailures
                    THEN machines[m].failures + 1 ELSE MachineFailures
        blamed == Update(m, [machines[m] EXCEPT !.failures = failures])
    IN /\ Driving(j) /\ StateOf(j) = "Error"
       /\ machines' = AfterFree(j, t, blamed)
       /\ NotifyBroken(j, t, blamed)
       /\ handles' = Drop(handles, {j})
       /\ tasks' = [tasks EXCEPT ![j] = [@ EXCEPT !.state = "ErrorDone"]]
       /\ worker' = [worker EXCEPT !.todo = @ \ {j}, !.updated = TRUE,
                                   !.to_clone = IF MayRetry(t) THEN @ \cup {j} ELSE @]
       /\ UNCHANGED <<live_tasks, matrices, tags, next_jid, copying, copying_flags,
                      listener, requests, faults, panicked>>

(* The process is killed, if there is one.  Wrong variant: it is left alone. *)
SpareProcess(j) == handles' = handles
KillProcess(j) == handles' = Drop(handles, {j})

(* try_drive_sm_canceled: a task that timed out fails, others are killed;  *)
(* one to be removed stays as it is for the rest of the iteration.         *)
Stopped(t) ==
    IF t.canceled = "remove" THEN [t EXCEPT !.state = "Canceled"]
    ELSE IF t.timedout # None
         THEN [t EXCEPT !.canceled = None, !.state = "Error", !.index = t.timedout]
         ELSE [t EXCEPT !.canceled = None, !.state = "Killed"]

DriveCanceled(j) ==
    LET t == tasks[j] IN
    /\ Driving(j) /\ StateOf(j) = "Canceled"
    /\ KillProcess(j)
    /\ machines' = AfterFree(j, t, machines)
    /\ NotifyBroken(j, t, machines)
    /\ tasks' = [tasks EXCEPT ![j] = Stopped(t)]
    /\ worker' = [worker EXCEPT !.todo = @ \ {j}, !.updated = TRUE,
                     !.to_remove = IF t.canceled = "remove" THEN @ \cup {j} ELSE @]
    /\ UNCHANGED <<live_tasks, matrices, tags, next_jid, copying, copying_flags,
                   listener, requests, faults, panicked>>

TryDriveSm(j) ==
    \/ DriveHeld(j) \/ NoMachine(j)
    \/ \E m \in Machines, spawned \in BOOLEAN : Start(j, m, spawned)
    \/ AllCommandsDone(j) \/ CommandFailed(j)
    \/ \E spawned \in BOOLEAN : NextCommand(j, spawned)
    \/ TimeOut(j) \/ StillRunning(j)
    \/ \E produced \in BOOLEAN : CheckResults(j, produced)
    \/ CheckPanics(j) \/ CopyReported(j) \/ StillCopying(j)
    \/ Finalize(j) \/ DriveTerminal(j) \/ DriveError(j) \/ DriveCanceled(j)

-----------------------------------------------------------------------------
(* The child processes and the copier thread, between any two steps.       *)
ProcessExits(j, status) ==
    /\ ~panicked
    /\ j \in DOMAIN handles /\ handles[j] = "running"
    /\ handles' = [handles EXCEPT ![j] = status]
    /\ IF status = "fail" THEN Fault ELSE faults' = faults
    /\ UNCHANGED <<shared, immediate, copying, copying_flags, worker, listener,
                   requests, panicked>>

(* The copier reports on a job it was given.  It may still hold a stale    *)
(* duplicate of the request, and report again (module Copier).             *)
CopierReports(j, result, again) ==
    /\ ~panicked
    /\ j \in copying
    /\ copying_flags' = Put(copying_flags, j, result)
    /\ copying' = IF again THEN copying ELSE copying \ {j}
    /\ IF result # "Success" \/ again THEN Fault ELSE faults' = faults
    /\ UNCHANGED <<shared, immediate, handles, worker, listener, requests, panicked>>

Environment(j) == \/ \E status \in {"ok", "fail"} : ProcessExits(j, status)
                  \/ \E result \in CopierThreadResult, again \in BOOLEAN :
                        CopierReports(j, result, again)
=============================================================================
