--------------------------- MODULE TemplateProofs ---------------------------
(***************************************************************************)
(* What Templates promises: a log is looked for where the command wrote    *)
(* it, every job of a matrix runs one of the matrix's combinations.        *)
(* Templates adds variables to Server and, but for SetVar, takes the steps *)
(* of Server, so that the invariants of Server hold of it as well.         *)
(***************************************************************************)
EXTENDS Templates, TaskProofs, FiniteSetTheorems, SequenceTheorems

Setting == \E x \in Names, v \in Values : SetVar(x, v)

(* The kinds of step.                                                      *)
LEMMA SubmitTaskStep == SubmitTask => NewRequest
BY DEF SubmitTask, NewRequest

(* AddMatrix for a number of jobs that it may expand to.                   *)
LEMMA SubmitMatrixStep ==
    ASSUME NEW spec \in JobSpecs, NEW e \in Expansions, SubmitMatrix(spec, e)
    PROVE  NewRequest
<1>1. AddMatrix(spec, Len(pending')) /\ Len(pending') \in MatrixSizes
  BY DEF SubmitMatrix
<1> QED
  BY <1>1 DEF NewRequest

(* A retry, or the clone that a client asked for.                          *)
LEMMA CloneStep ==
    ASSUME NEW j \in DOMAIN tasks, Clone(j)
    PROVE  NewRequest \/ (j \in worker.to_clone /\ CloneFailed(j))
BY DEF Clone, NewRequest

(* A drive, of one sort or the other.                                      *)
LEMMA DriveStep == ASSUME NEW j, RunCommand(j) \/ OtherDrive(j) PROVE TryDriveSm(j)
BY DEF RunCommand, OtherDrive, TryDriveSm

(* A step of Templates is one of Server, but for SetVar.                   *)
LEMMA TemplateStep == [TemplateNext]_templateVars => [Next]_vars \/ Setting
<1>1. \A x \in Names, v \in Values : SetVar(x, v) => Setting
  BY DEF Setting
<1>2. SubmitTask => Next
  BY SubmitTaskStep DEF Next
<1>3. \A spec \in JobSpecs, e \in Expansions : SubmitMatrix(spec, e) => Next
  BY SubmitMatrixStep DEF Next
<1>4. InsertWithVariables => Next
  BY DEF InsertWithVariables, Next, FinishRequest
<1>5. ASSUME NEW j \in DOMAIN tasks, Clone(j) PROVE Next
  BY <1>5, CloneStep DEF Next, WorkThreadStep
<1>6. ASSUME NEW j \in ToDrive, RunCommand(j) \/ OtherDrive(j) PROVE Next
  BY <1>6, DriveStep DEF Next, WorkThreadStep
<1>7. ReapWithVariables => Next
  BY DEF ReapWithVariables, Next, WorkThreadStep
<1>8. OtherRequest => NewRequest
  BY DEF OtherRequest, NewRequest
<1>9. \/ MatrixAllocate \/ InsertLive \/ PublishMatrix \/ InsertTag
      \/ ProcessNotifications \/ BeginIteration \/ EndDriving \/ EndIteration
      \/ \E j \in DOMAIN handles \cup copying : Environment(j)
      => Next
  BY DEF Next, FinishRequest, WorkThreadStep
<1>10. UNCHANGED templateVars => UNCHANGED vars
  BY DEF templateVars
<1> QED
  BY <1>1, <1>2, <1>3, <1>4, <1>5, <1>6, <1>7, <1>8, <1>9, <1>10 DEF TemplateNext, Next

(* SetVar counts as a request and touches nothing else of the server.      *)
LEMMA SettingHolds == ASSUME ServerHolds, Setting PROVE ServerHolds'
<1>1. /\ UNCHANGED <<machines, tasks, live_tasks, matrices, tags, next_jid, immediate, handles,
                     copying, copying_flags, worker, listener, faults, panicked>>
      /\ requests < MaxRequests /\ requests' = requests + 1
  BY DEF Setting, SetVar, shared
<1>2. requests' \in 0..MaxRequests
  <2>1. requests \in 0..MaxRequests /\ MaxRequests \in Nat
    BY BoundAssumption DEF ServerHolds, Typing, TypeOK
  <2> QED
    BY <1>1, <2>1
<1>3. Typing'
  BY <1>1, <1>2 DEF ServerHolds, Typing, TypeOK, ListenerTyped, WorkerTyped, Placed, Issued
<1>4. Safe'
  BY <1>1 DEF ServerHolds, Safe, LiveCoversActive, RunningIffProcess, RetryBound, NoLostCopy,
     TodoLive, HandlesOfTasks, ListenerFresh, ClonesAllowed
<1>5. Orderly'
  BY <1>1, SameTasksOrderly DEF ServerHolds
<1>6. Shown'
  BY <1>1, IdleShown DEF ServerHolds
<1>7. AsSubmitted'
  BY <1>1 DEF ServerHolds, AsSubmitted, TaskInHand
<1>8. Grouped'
  BY <1>1, IdleGrouped DEF ServerHolds, Grouped, KeepsGroups
<1> QED
  BY <1>3, <1>4, <1>5, <1>6, <1>7, <1>8 DEF ServerHolds

(* So that the invariants of the server hold.                              *)
LEMMA StepServerHolds == ServerHolds /\ [TemplateNext]_templateVars => ServerHolds'
<1> SUFFICES ASSUME ServerHolds, [TemplateNext]_templateVars PROVE ServerHolds'
  OBVIOUS
<1> QED
  BY NextServerHolds, TemplateStep, SettingHolds

(* ... and so hold throughout.                                             *)
THEOREM ServerInvariants == TemplateSpec => []ServerHolds
<1>1. TemplateInit => ServerHolds
  BY InitServerHolds DEF TemplateInit
<1> QED
  BY <1>1, StepServerHolds, PTL DEF TemplateSpec


-----------------------------------------------------------------------------
(* What is known of the log of a task t with id j.  Until its commands are *)
(* over, index is the command that ran last; a task that timed out did so  *)
(* during that one; and only jobs, which have one command, copy results,   *)
(* so that the index a failed copy leaves is that of the last command.     *)
WroteLog == Holding \cup {"Done", "DoneWithResults", "ErrorDone"}
LoggedAs(j, t, lg, values) ==
    j \in DOMAIN lg /\ lg[j] = LogPath(j, StatusIndex(t), values[j], t.machine)
Indexed(t) ==
    /\ t.timedout # None => t.timedout = t.index
    /\ t.state \in {"CheckingResults", "CopyingResults"} => t.index = 0
    /\ t.state = "CopyingResults" => t.job.cp_results
Logged ==
    /\ DOMAIN tasks \subseteq DOMAIN env
    /\ \A j \in DOMAIN tasks :
          /\ Indexed(tasks[j])
          /\ tasks[j].state \in WroteLog => LoggedAs(j, tasks[j], log, env)

(* The log of s is the log of t.                                           *)
SameLog(s, t) ==
    /\ t.machine = s.machine
    /\ t.state \in WroteLog => s.state \in WroteLog /\ StatusIndex(t) = StatusIndex(s)

(* A step that replaces one task, if any, and writes no log.               *)
LEMMA ReplacedLogged ==
    ASSUME Typing, Logged, NEW j \in DOMAIN tasks, NEW t, tasks' = [tasks EXCEPT ![j] = t],
           Indexed(t), SameLog(tasks[j], t), UNCHANGED <<env, log>>
    PROVE  Logged'
<1>1. /\ DOMAIN tasks' = DOMAIN tasks
      /\ \A k \in DOMAIN tasks : tasks'[k] = IF k = j THEN t ELSE tasks[k]
  BY Types DEF IsMap
<1>2. t.state \in WroteLog => LoggedAs(j, t, log, env)
  BY DEF Logged, LoggedAs, SameLog
<1> QED
  BY <1>1, <1>2 DEF Logged, LoggedAs

(* A step that keeps the tasks that are left, and what is known of them.   *)
LEMMA KeptLogged ==
    ASSUME Logged, DOMAIN tasks' \subseteq DOMAIN tasks,
           \A k \in DOMAIN tasks' :
              /\ tasks'[k] = tasks[k]
              /\ k \in DOMAIN env' /\ env'[k] = env[k]
              /\ k \in DOMAIN log => k \in DOMAIN log' /\ log'[k] = log[k]
    PROVE  Logged'
<1>1. ASSUME NEW k \in DOMAIN tasks'
      PROVE  /\ k \in DOMAIN env' /\ Indexed(tasks'[k])
             /\ tasks'[k].state \in WroteLog => LoggedAs(k, tasks'[k], log', env')
  BY <1>1 DEF Logged, LoggedAs
<1> QED
  BY <1>1 DEF Logged

(* A step that inserts a task that waits and has not timed out.            *)
LEMMA InsertedLogged ==
    ASSUME Logged, Shown', NEW j, j \notin DOMAIN tasks, NEW t, tasks' = Put(tasks, j, t),
           t.state = "Waiting",
           NEW values, env' = Put(env, j, values), UNCHANGED log
    PROVE  Logged'
<1>1. /\ DOMAIN tasks' = DOMAIN tasks \cup {j} /\ DOMAIN env' = DOMAIN env \cup {j}
      /\ tasks'[j] = t
      /\ \A k \in DOMAIN tasks : tasks'[k] = tasks[k] /\ env'[k] = env[k]
  BY DEF Put, Logged
<1>2. t.timedout = None
  BY <1>1 DEF Shown, TimedOutFails, Failing
<1>3. Indexed(t) /\ t.state \notin WroteLog
  BY <1>2 DEF Indexed, WroteLog, Holding
<1> QED
  BY <1>1, <1>3 DEF Logged, LoggedAs


(* Only jobs ask for results, and jobs have one command.                   *)
LEMMA CopiersHaveOneCommand ==
    ASSUME AsSubmitted, NEW j \in DOMAIN tasks, tasks[j].job.cp_results
    PROVE  tasks[j].job.cmds = 1
<1> DEFINE job == tasks[j].job
<1>1. job \in JobSpecs => job.cmds = 1
  BY SpecAssumption
<1>2. ASSUME NEW s \in JobSpecs, job = [s EXCEPT !.repeat_on_fail = TRUE] PROVE job.cmds = 1
  BY <1>2, SpecAssumption DEF JobSpec
<1>3. job \in SetupSpecs => ~job.cp_results
  BY SpecAssumption
<1>4. \/ job \in JobSpecs \/ job \in SetupSpecs
      \/ \E s \in JobSpecs : job = [s EXCEPT !.repeat_on_fail = TRUE]
  BY DEF AsSubmitted, Submittable
<1> HIDE DEF job
<1>5. job.cp_results => job.cmds = 1
  BY <1>1, <1>2, <1>3, <1>4
<1> QED
  BY <1>5 DEF job

(* A drive that starts no command writes no log, and what it makes of the  *)
(* task is pointed at the same one.                                        *)
LEMMA OtherDriveLogged ==
    ASSUME ServerHolds, Logged, NEW j, OtherDrive(j), UNCHANGED <<env, log>> PROVE Logged'
<1> DEFINE s == tasks[j]
<1>1. Driving(j)
  BY DEF OtherDrive, DriveHeld, NoMachine, AllCommandsDone, CommandFailed, TimeOut,
         StillRunning, CheckResults, CheckPanics, CopyReported, StillCopying, Finalize,
         DriveTerminal, DriveError, DriveCanceled, Polled
<1>2. j \in DOMAIN tasks /\ s \in Task /\ j \notin worker.to_remove
  BY <1>1, Driven DEF ServerHolds
<1>3. Typing /\ Failing(s) /\ s.state # "Canceled" /\ Indexed(s)
  BY <1>2 DEF ServerHolds, Shown, TimedOutFails, OneRemoved, Logged
<1>4. \A st : StateOf(j) = st /\ st # "Canceled" => s.state = st /\ s.canceled = None
  BY DEF StateOf
<1> DEFINE Good(t) == tasks' = [tasks EXCEPT ![j] = t] /\ Indexed(t) /\ SameLog(s, t)
<1>5. CASE UNCHANGED tasks
  BY <1>5, KeptLogged DEF Logged
<1>6. \/ DriveHeld(j) \/ NoMachine(j) \/ StillRunning(j) \/ StillCopying(j)
      \/ DriveTerminal(j) \/ CheckPanics(j)
      => UNCHANGED tasks
  BY DEF DriveHeld, NoMachine, StillRunning, StillCopying, DriveTerminal, CheckPanics, shared
<1>7. ASSUME AllCommandsDone(j) PROVE \E t : Good(t)
  <2> DEFINE t == [s EXCEPT !.state = "CheckingResults", !.index = 0]
  <2>1. s.state = "Running" /\ s.timedout = None /\ s.index = s.job.cmds - 1
    BY <1>3, <1>4, <1>7 DEF AllCommandsDone, Polled, LastCommand, Failing
  <2>2. /\ t.state = "CheckingResults" /\ t.index = 0
        /\ t.job = s.job /\ t.machine = s.machine /\ t.timedout = s.timedout
    BY <1>2 DEF Task
  <2>3. tasks' = [tasks EXCEPT ![j] = t]
    BY <1>7 DEF AllCommandsDone
  <2> HIDE DEF s, t
  <2>4. Indexed(t) /\ SameLog(s, t)
    BY <2>1, <2>2 DEF Indexed, SameLog, StatusIndex, WroteLog, Holding
  <2> QED
    BY <2>3, <2>4 DEF s
<1>8. ASSUME CommandFailed(j) PROVE \E t : Good(t)
  <2> DEFINE t == [s EXCEPT !.state = "Error"]
  <2>1. s.state = "Running"
    BY <1>4, <1>8 DEF CommandFailed, Polled
  <2>2. /\ t.state = "Error" /\ t.index = s.index
        /\ t.job = s.job /\ t.machine = s.machine /\ t.timedout = s.timedout
    BY <1>2 DEF Task
  <2>3. tasks' = [tasks EXCEPT ![j] = t]
    BY <1>8 DEF CommandFailed
  <2> HIDE DEF s, t
  <2>4. Indexed(t) /\ SameLog(s, t)
    BY <1>3, <2>1, <2>2 DEF Indexed, SameLog, StatusIndex, WroteLog, Holding
  <2> QED
    BY <2>3, <2>4 DEF s
<1>9. ASSUME TimeOut(j) PROVE \E t : Good(t)
  <2> DEFINE t == [s EXCEPT !.timedout = s.index, !.canceled = "keep"]
  <2>1. s.state = "Running"
    BY <1>4, <1>9 DEF TimeOut, Polled
  <2>2. /\ t.state = s.state /\ t.index = s.index
        /\ t.job = s.job /\ t.machine = s.machine /\ t.timedout = s.index
    BY <1>2 DEF Task
  <2>3. tasks' = [tasks EXCEPT ![j] = t]
    BY <1>9 DEF TimeOut
  <2> HIDE DEF s, t
  <2>4. Indexed(t) /\ SameLog(s, t)
    BY <2>1, <2>2 DEF Indexed, SameLog, StatusIndex
  <2> QED
    BY <2>3, <2>4 DEF s
<1>10. ASSUME NEW produced, CheckResults(j, produced) PROVE \E t : Good(t)
  <2> DEFINE copies == s.job.cp_results /\ produced
             t == [s EXCEPT !.state = IF copies THEN "CopyingResults" ELSE "Finalize"]
  <2>1. s.state = "CheckingResults"
    BY <1>4, <1>10 DEF CheckResults
  <2>2. /\ t.state \in {"CopyingResults", "Finalize"} /\ t.index = s.index
        /\ t.job = s.job /\ t.machine = s.machine /\ t.timedout = s.timedout
        /\ t.state = "CopyingResults" => s.job.cp_results
    BY <1>2 DEF Task
  <2>3. tasks' = [tasks EXCEPT ![j] = t]
    BY <1>10 DEF CheckResults
  <2> HIDE DEF s, t
  <2>4. Indexed(t) /\ SameLog(s, t)
    BY <1>3, <2>1, <2>2 DEF Indexed, SameLog, StatusIndex, WroteLog, Holding, Failing
  <2> QED
    BY <2>3, <2>4 DEF s
<1>11. ASSUME CopyReported(j) PROVE \E t : Good(t)
  <2> DEFINE copied == [s EXCEPT !.state = "Finalize", !.results = TRUE]
             failed == [s EXCEPT !.state = "Error"]
  <2>1. s.state = "CopyingResults"
    BY <1>4, <1>11 DEF CopyReported
  <2>2. s.index = 0 /\ s.job.cmds = 1
    BY <1>2, <1>3, <2>1, CopiersHaveOneCommand DEF ServerHolds, Indexed
  <2>3. \A t \in {copied, failed} :
           /\ t.state \in {"Finalize", "Error"} /\ t.index = s.index
           /\ t.job = s.job /\ t.machine = s.machine /\ t.timedout = s.timedout
    BY <1>2 DEF Task
  <2>4. tasks' = [tasks EXCEPT ![j] = copied] \/ tasks' = [tasks EXCEPT ![j] = failed]
    BY <1>11 DEF CopyReported
  <2> HIDE DEF s, copied, failed
  <2>5. ASSUME NEW t \in {copied, failed} PROVE Indexed(t) /\ SameLog(s, t)
    BY <1>3, <2>1, <2>2, <2>3 DEF Indexed, SameLog, StatusIndex, WroteLog, Holding
  <2> QED
    BY <2>4, <2>5 DEF s
<1>12. ASSUME Finalize(j) PROVE \E t : Good(t)
  <2> DEFINE t == [s EXCEPT !.state = IF s.results THEN "DoneWithResults" ELSE "Done"]
  <2>1. s.state = "Finalize"
    BY <1>4, <1>12 DEF Finalize
  <2>2. /\ t.state \in {"DoneWithResults", "Done"} /\ t.index = s.index
        /\ t.job = s.job /\ t.machine = s.machine /\ t.timedout = s.timedout
    BY <1>2 DEF Task
  <2>3. tasks' = [tasks EXCEPT ![j] = t]
    BY <1>12 DEF Finalize
  <2> HIDE DEF s, t
  <2>4. Indexed(t) /\ SameLog(s, t)
    BY <1>3, <2>1, <2>2 DEF Indexed, SameLog, StatusIndex, WroteLog, Holding
  <2> QED
    BY <2>3, <2>4 DEF s
<1>13. ASSUME DriveError(j) PROVE \E t : Good(t)
  <2> DEFINE t == [s EXCEPT !.state = "ErrorDone"]
  <2>1. s.state = "Error"
    BY <1>4, <1>13 DEF DriveError
  <2>2. /\ t.state = "ErrorDone" /\ t.index = s.index
        /\ t.job = s.job /\ t.machine = s.machine /\ t.timedout = s.timedout
    BY <1>2 DEF Task
  <2>3. tasks' = [tasks EXCEPT ![j] = t]
    BY <1>13 DEF DriveError
  <2> HIDE DEF s, t
  <2>4. Indexed(t) /\ SameLog(s, t)
    BY <1>3, <2>1, <2>2 DEF Indexed, SameLog, StatusIndex, WroteLog, Holding
  <2> QED
    BY <2>3, <2>4 DEF s
<1>14. ASSUME DriveCanceled(j) PROVE \E t : Good(t)
  <2> DEFINE t == Stopped(s)
  <2>1. /\ t.job = s.job /\ t.machine = s.machine /\ t.timedout = s.timedout
        /\ \/ t.state \in {"Canceled", "Killed"} /\ t.index = s.index
           \/ t.state = "Error" /\ s.timedout # None /\ t.index = s.timedout
    BY <1>2 DEF Stopped, Task
  <2>2. tasks' = [tasks EXCEPT ![j] = t]
    BY <1>14 DEF DriveCanceled
  <2>3. s.timedout # None =>
           s.timedout = s.index /\ s.state \in {"Running", "Error", "ErrorDone"}
    BY <1>3 DEF Indexed, Failing
  <2> HIDE DEF s, t
  <2>4. Indexed(t) /\ SameLog(s, t)
    BY <2>1, <2>3 DEF Indexed, SameLog, StatusIndex, WroteLog, Holding
  <2> QED
    BY <2>2, <2>4 DEF s
<1>15. ASSUME NEW t, Good(t) PROVE Logged'
  BY <1>2, <1>3, <1>15, ReplacedLogged
<1> HIDE DEF Good
<1> QED
  BY <1>5, <1>6, <1>7, <1>8, <1>9, <1>10, <1>11, <1>12, <1>13, <1>14, <1>15 DEF OtherDrive


(* run_cmd writes the log that Running, or the Error of a command that     *)
(* could not be started, points at.                                        *)
LEMMA RunCommandLogged ==
    ASSUME ServerHolds, Logged, NEW j, RunCommand(j) PROVE Logged'
<1> DEFINE s == tasks[j]
<1>1. PICK spawned \in BOOLEAN : NextCommand(j, spawned) \/ \E m \in Machines : Start(j, m, spawned)
  BY DEF RunCommand
<1>2. j \in DOMAIN tasks /\ s \in Task
  BY <1>1, Driven DEF ServerHolds, NextCommand, Polled, Start
<1>3. s.timedout = None
  <2>1. s.state \in {"Running", "Waiting"} /\ s.canceled = None
    BY <1>1 DEF NextCommand, Polled, Start, StateOf
  <2> QED
    BY <1>2, <2>1 DEF ServerHolds, Shown, TimedOutFails, Failing
<1>4. PICK t : /\ tasks' = [tasks EXCEPT ![j] = t]
               /\ t.state \in {"Running", "Error"} /\ t.timedout = s.timedout
  <2>1. \A m : /\ Launched(s, m, spawned).state \in {"Running", "Error"}
               /\ Launched(s, m, spawned).timedout = s.timedout
    BY <1>2 DEF Launched, Task
  <2>2. /\ Advanced(s, spawned).state \in {"Running", "Error"}
        /\ Advanced(s, spawned).timedout = s.timedout
    BY <1>2 DEF Advanced, Task
  <2> QED
    BY <1>1, <2>1, <2>2 DEF NextCommand, Start
<1>5. /\ DOMAIN tasks' = DOMAIN tasks
      /\ \A k \in DOMAIN tasks : tasks'[k] = IF k = j THEN t ELSE tasks[k]
  BY <1>4, Types DEF ServerHolds, IsMap
<1>6. Indexed(t) /\ StatusIndex(t) = t.index
  BY <1>3, <1>4 DEF Indexed, StatusIndex
<1>7. UNCHANGED env /\ log' = Put(log, j, LogPath(j, t.index, env[j], t.machine))
  BY <1>2, <1>5 DEF RunCommand
<1>8. LoggedAs(j, t, log', env)
  BY <1>6, <1>7 DEF LoggedAs, Put
<1>9. ASSUME NEW k \in DOMAIN tasks, k # j, tasks[k].state \in WroteLog
      PROVE  LoggedAs(k, tasks[k], log', env)
  BY <1>7, <1>9 DEF Logged, LoggedAs, Put
<1> QED
  BY <1>5, <1>6, <1>7, <1>8, <1>9 DEF Logged

(* A request writes no log, and what it inserts is a clone.                *)
LEMMA RequestLogged ==
    ASSUME ServerHolds, Logged, NewRequest, UNCHANGED <<env, log>>,
           UNCHANGED tasks \/ DOMAIN tasks' = DOMAIN tasks
    PROVE  Logged'
<1>1. Typing
  BY DEF ServerHolds
<1>2. TasksKept => Logged'
  BY KeptLogged DEF TasksKept, Logged
<1>3. ASSUME NEW k \in DOMAIN tasks, NEW t, tasks' = [tasks EXCEPT ![k] = t], SameRun(tasks[k], t)
      PROVE  Logged'
  <2>1. tasks'[k] = t /\ k \in DOMAIN tasks'
    BY <1>1, <1>3, Types DEF IsMap
  <2>2. t.job = tasks[k].job
    BY <2>1, JobsKept DEF Next
  <2>3. Indexed(t) /\ SameLog(tasks[k], t)
    BY <1>3, <2>2 DEF Logged, Indexed, SameRun, SameLog, StatusIndex, WroteLog, Holding
  <2> QED
    BY <1>1, <1>3, <2>3, ReplacedLogged
<1>4. TaskInserted(next_jid) => DOMAIN tasks' # DOMAIN tasks /\ ~UNCHANGED tasks
  BY <1>1, NextIdFresh DEF TaskInserted, Put
<1> QED
  BY <1>1, <1>2, <1>3, <1>4, NewRequestForm DEF TaskReplaced

(* Only clones are inserted by a request at once.                          *)
LEMMA OtherRequestDomain ==
    ASSUME ServerHolds, OtherRequest PROVE UNCHANGED tasks \/ DOMAIN tasks' = DOMAIN tasks
<1>1. ASSUME UNCHANGED next_jid PROVE UNCHANGED tasks \/ DOMAIN tasks' = DOMAIN tasks
  <2>1. Typing /\ Typing' /\ NewRequest
    BY StepTyping DEF OtherRequest, NewRequest, Next, ServerHolds
  <2>2. DOMAIN tasks' \subseteq Issued /\ next_jid \notin Issued
    BY <1>1, <2>1, Types, NextIdFresh, IdsAreNumbers DEF Typing, TypeOK, IsMap, Issued
  <2>3. ~TaskInserted(next_jid)
    BY <2>2 DEF TaskInserted, Put
  <2> QED
    BY <2>1, <2>3, NewRequestForm DEF TasksKept, TaskReplaced
<1>2. AddTag => UNCHANGED tasks
  BY DEF AddTag, Allocate
<1>3. ASSUME NEW j, NEW m, NEW c, NEW how,
             \/ RemoveAvailable(m) \/ MakeAvailable(m, c) \/ CancelJob(j, how) \/ HoldJob(j)
             \/ UnholdJob(j) \/ AddJobTimeout(j) \/ TagJob(j, c) \/ UntagJob(j)
      PROVE  UNCHANGED next_jid
  BY <1>3 DEF RemoveAvailable, MakeAvailable, CancelJob, HoldJob, UnholdJob, AddJobTimeout,
     TagJob, UntagJob
<1> QED
  BY <1>1, <1>2, <1>3 DEF OtherRequest

(* A clone has written nothing yet.                                        *)
LEMMA CloneLogged ==
    ASSUME ServerHolds, Logged, Shown', NEW j \in DOMAIN tasks, Clone(j) PROVE Logged'
<1>1. next_jid \notin DOMAIN tasks /\ tasks[j] \in Task
  BY NextIdFresh, Types, MapAt DEF ServerHolds
<1>2. UNCHANGED log
  BY DEF Clone
<1> DEFINE t == CloneTask(tasks[j])
           retry == [t EXCEPT !.attempt = tasks[j].attempt + 1]
<1>3. t.state = "Waiting" /\ retry.state = "Waiting"
  BY <1>1 DEF CloneTask, Task
<1>4. \/ UNCHANGED <<tasks, env>>
      \/ \E c \in {t, retry} : tasks' = Put(tasks, next_jid, c) /\ Inherit(j)
  BY DEF Clone, CloneJob, CloneFailed, InsertClone, Handle, Accept
<1> HIDE DEF t, retry
<1>5. CASE UNCHANGED <<tasks, env>>
  BY <1>2, <1>5, KeptLogged DEF Logged
<1>6. ASSUME NEW c \in {t, retry}, tasks' = Put(tasks, next_jid, c), Inherit(j) PROVE Logged'
  BY <1>1, <1>2, <1>3, <1>6, InsertedLogged DEF Inherit
<1> QED
  BY <1>4, <1>5, <1>6

(* Nor has what the listener inserts.                                      *)
LEMMA InsertLogged ==
    ASSUME ServerHolds, Logged, Shown', InsertWithVariables PROVE Logged'
<1>1. UNCHANGED log
  BY DEF InsertWithVariables
<1>2. /\ listener.jid \notin DOMAIN tasks /\ listener.task.state = "Waiting"
      /\ UNCHANGED tasks \/ tasks' = Put(tasks, listener.jid, listener.task)
  BY DEF InsertWithVariables, InsertTask, InsertTagged, Resume, ServerHolds, Safe,
         ListenerFresh, Untried
<1>3. CASE UNCHANGED tasks
  BY <1>1, <1>2, <1>3, KeptLogged DEF InsertWithVariables, Logged
<1>4. CASE tasks' = Put(tasks, listener.jid, listener.task)
  <2>1. env' = Put(env, listener.jid, Head(pending))
    BY <1>4 DEF InsertWithVariables, Put
  <2> QED
    BY <1>1, <1>2, <1>4, <2>1, InsertedLogged
<1> QED
  BY <1>2, <1>3, <1>4

(* Removed tasks are forgotten with their logs, no others.                 *)
LEMMA ReapLogged == ASSUME Logged, ReapWithVariables PROVE Logged'
<1>1. /\ DOMAIN tasks' \subseteq DOMAIN tasks
      /\ \A k \in DOMAIN tasks' : tasks'[k] = tasks[k]
  BY DEF ReapWithVariables, Reap, Drop
<1>2. \A k \in DOMAIN tasks' :
         /\ k \in DOMAIN env' /\ env'[k] = env[k]
         /\ k \in DOMAIN log => k \in DOMAIN log' /\ log'[k] = log[k]
  BY <1>1 DEF ReapWithVariables, Drop, Logged
<1> QED
  BY <1>1, <1>2, KeptLogged

(* Every step keeps Logged.                                                *)
LEMMA StepLogged ==
    ServerHolds /\ Logged /\ [TemplateNext]_templateVars => Logged'
<1> SUFFICES ASSUME ServerHolds, Logged, [TemplateNext]_templateVars PROVE Logged'
  OBVIOUS
<1>1. Shown'
  BY StepServerHolds DEF ServerHolds
<1>2. CASE UNCHANGED <<tasks, env, log>>
  BY <1>2, KeptLogged DEF Logged
<1>3. ASSUME NEW x, NEW v, SetVar(x, v) PROVE UNCHANGED <<tasks, env, log>>
  BY <1>3 DEF SetVar, shared
<1>4. SubmitTask => UNCHANGED <<tasks, env, log>>
  BY DEF SubmitTask, AddJob, AddTaggedJob, SetUpMachine, Allocate
<1>5. ASSUME NEW spec, NEW e, SubmitMatrix(spec, e) PROVE UNCHANGED <<tasks, env, log>>
  BY <1>5 DEF SubmitMatrix, AddMatrix
<1>6. ASSUME OtherRequest, UNCHANGED <<env, log>> PROVE Logged'
  BY <1>6, RequestLogged, OtherRequestDomain DEF OtherRequest, NewRequest
<1>7. \/ MatrixAllocate \/ InsertLive \/ PublishMatrix \/ InsertTag
      \/ ProcessNotifications \/ BeginIteration \/ EndDriving \/ EndIteration
      \/ \E j \in DOMAIN handles \cup copying : Environment(j)
      => UNCHANGED tasks
  BY DEF MatrixAllocate, InsertLive, PublishMatrix, InsertTag, ProcessNotifications,
         BeginIteration, EndDriving, EndIteration, Environment, ProcessExits, CopierReports, shared
<1>8. UNCHANGED templateVars => UNCHANGED <<tasks, env, log>>
  BY DEF templateVars, vars, shared
<1> QED
  BY <1>1, <1>2, <1>3, <1>4, <1>5, <1>6, <1>7, <1>8, InsertLogged, CloneLogged, ReapLogged,
     RunCommandLogged, OtherDriveLogged
     DEF TemplateNext

(* The log that a client is pointed at, and in which the work thread looks *)
(* for results, is the one that the last command of the task wrote,        *)
(* whatever was set, retried or cloned since (JobStatus, sm.rs:412).       *)
THEOREM LogsAreWhereWritten == TemplateSpec => []LogWhereWritten
<1>1. TemplateInit => Logged
  BY DEF TemplateInit, Init, Logged, EmptyMap
<1>2. Logged => LogWhereWritten
  BY DEF Logged, LoggedAs, LogWhereWritten, WroteLog, StatusLog, VariablesOf
<1> QED
  BY <1>1, <1>2, StepLogged, ServerInvariants, PTL DEF TemplateSpec

-----------------------------------------------------------------------------
(* The functions from one finite set to another are finitely many: their   *)
(* graphs are sets of pairs.                                               *)
LEMMA FunctionsFinite ==
    ASSUME NEW D, NEW V, IsFiniteSet(D), IsFiniteSet(V) PROVE IsFiniteSet([D -> V])
<1> DEFINE graph == [f \in [D -> V] |-> {<<d, f[d]>> : d \in D}]
<1>1. IsFiniteSet(SUBSET (D \X V))
  BY FS_Product, FS_SUBSET
<1>2. graph \in [[D -> V] -> SUBSET (D \X V)]
  OBVIOUS
<1>3. ASSUME NEW f \in [D -> V], NEW g \in [D -> V], graph[f] = graph[g] PROVE f = g
  <2>1. {<<d, f[d]>> : d \in D} = {<<d, g[d]>> : d \in D}
    BY <1>3
  <2>2. \A d \in D : \E c \in D : <<d, f[d]>> = <<c, g[c]>>
    BY <2>1
  <2>3. \A d \in D : f[d] = g[d]
    BY <2>2
  <2> QED
    BY <2>3
<1>4. graph \in Injection([D -> V], SUBSET (D \X V))
  BY <1>2, <1>3 DEF Injection, IsInjective
<1> HIDE DEF graph
<1> QED
  BY <1>1, <1>4, FS_Injection

(* A matrix has finitely many combinations.                                *)
LEMMA CombinationsFinite ==
    ASSUME NEW values, DOMAIN values \subseteq Names PROVE IsFiniteSet(Product(values))
<1>1. IsFiniteSet(DOMAIN values) /\ IsFiniteSet(Values)
  BY TemplateAssumption, FS_Subset
<1>2. IsFiniteSet([DOMAIN values -> Values])
  BY <1>1, FunctionsFinite
<1>3. Product(values) \subseteq [DOMAIN values -> Values]
  BY DEF Product
<1> QED
  BY <1>2, <1>3, FS_Subset

(* Products of natural numbers, one step at a time.                        *)
LEMMA TimesMonotonic ==
    ASSUME NEW r \in Nat, NEW n \in Nat, NEW q \in Nat, n <= q
    PROVE  /\ r * n \in Nat /\ r * q \in Nat
           /\ r * n <= r * q
<1>1. PICK d \in Nat : q = n + d
  <2> WITNESS q - n \in Nat
  <2> QED
    OBVIOUS
<1>2. r * q = r * n + r * d
  BY <1>1
<1>3. r * d \in Nat /\ r * n \in Nat
  OBVIOUS
<1> QED
  BY <1>2, <1>3

(* Of r * n places, the ones whose quotient by r is k - 1 are those of the *)
(* k-th block of r places.                                                 *)
LEMMA Blocks ==
    ASSUME NEW r \in Nat, NEW n \in Nat, NEW i \in 1..(r * n)
    PROVE  /\ ((i - 1) \div r) + 1 \in 1..n
           /\ \A k \in 1..n : ((i - 1) \div r) + 1 = k <=> i \in (r * (k - 1) + 1)..(r * k)
<1> DEFINE q == (i - 1) \div r
<1>1. r # 0 /\ r * n \in Nat
  OBVIOUS
<1>2. q \in Nat /\ r * q <= i - 1 /\ i - 1 < r * (q + 1)
  BY <1>1
<1> HIDE DEF q
<1>3. r * q \in Nat /\ r * (q + 1) \in Nat
  BY <1>2
<1>4. q + 1 <= n
  <2> SUFFICES ASSUME n <= q PROVE FALSE
    BY <1>2
  <2>1. r * n <= r * q
    BY <1>2, TimesMonotonic
  <2> QED
    BY <1>1, <1>2, <1>3, <2>1
<1>5. ASSUME NEW k \in 1..n PROVE q + 1 = k <=> i \in (r * (k - 1) + 1)..(r * k)
  <2>1. k - 1 \in Nat /\ k \in Nat /\ r * (k - 1) \in Nat /\ r * k \in Nat
    OBVIOUS
  <2>2. CASE q + 1 = k
    <3>1. q = k - 1
      BY <1>2, <2>1, <2>2
    <3>2. r * (k - 1) <= i - 1 /\ i - 1 < r * k
      BY <1>2, <2>2, <3>1
    <3> QED
      BY <2>1, <2>2, <3>2
  <2>3. CASE q + 1 < k
    <3>1. r * (q + 1) <= r * (k - 1)
      BY <1>2, <2>1, <2>3, TimesMonotonic
    <3> QED
      BY <1>2, <1>3, <2>1, <2>3, <3>1
  <2>4. CASE k < q + 1
    <3>1. r * k <= r * q
      BY <1>2, <2>1, <2>4, TimesMonotonic
    <3> QED
      BY <1>2, <1>3, <2>1, <2>4, <3>1
  <2> QED
    BY <1>2, <2>1, <2>2, <2>3, <2>4
<1> QED
  BY <1>2, <1>4, <1>5 DEF q

(* A block has r places.                                                   *)
LEMMA BlockSize ==
    ASSUME NEW r \in Nat, NEW k \in Nat \ {0}
    PROVE  /\ IsFiniteSet((r * (k - 1) + 1)..(r * k))
           /\ Cardinality((r * (k - 1) + 1)..(r * k)) = r
<1> DEFINE a == r * (k - 1)
           b == r * k
<1>1. a \in Nat /\ b \in Nat /\ b = a + r
  OBVIOUS
<1> HIDE DEF a, b
<1>2. IsFiniteSet((a + 1)..b) /\ Cardinality((a + 1)..b) = IF a + 1 > b THEN 0 ELSE b - (a + 1) + 1
  BY <1>1, FS_Interval
<1>3. Cardinality((a + 1)..b) = r
  BY <1>1, <1>2
<1> QED
  BY <1>2, <1>3 DEF a, b

-----------------------------------------------------------------------------
(* The combinations of matrix m, the tasks that the listener has inserted  *)
(* for the matrix it is adding, those that have a combination, and where   *)
(* that combination is still pending.                                      *)
Combinations(m) == Product(matrix_vars[m].values)
Expanded        == IF listener.at = "insert_task" THEN listener.jids \ {listener.jid}
                   ELSE listener.jids
Having(config)    == {j \in Expanded : env[j] = config}
Places(p, config) == {i \in 1..Len(p) : p[i] = config}

(* What is set has a value.                                                *)
Settable == /\ DOMAIN variables \subseteq Names
            /\ \A x \in DOMAIN variables : variables[x] \in Values

(* Every task of a matrix, published or not, has one of its combinations.  *)
Suited(t, values, of) ==
    t.matrix # None => t.matrix \in DOMAIN of /\ values \in Product(of[t.matrix].values)
Fit == \A j \in DOMAIN tasks : Suited(tasks[j], env[j], matrix_vars)

(* While a matrix is expanded, what is pending are combinations of it, one *)
(* for each job that is left; and every combination is there as often as   *)
(* was asked for, among the jobs that were made and what is pending.       *)
Expanding ==
    LET m == listener.matrix IN
    m # None =>
        /\ m \in DOMAIN matrix_vars
        /\ pending \in Seq(Combinations(m))
        /\ Len(pending) = listener.left + (IF listener.at = "insert_task" THEN 1 ELSE 0)
        /\ IsFiniteSet(listener.jids)
        /\ \A config \in Combinations(m) :
              Cardinality(Having(config)) + Cardinality(Places(pending, config))
                = matrix_vars[m].repeat

Fitting == Settable /\ Fit /\ Expanding

(* The places of what is pending, when the first of it is taken.           *)
LEMMA PlacesOfTail ==
    ASSUME NEW S, NEW p \in Seq(S), p # << >>, NEW config
    PROVE  /\ IsFiniteSet(Places(p, config))
           /\ Cardinality(Places(p, config))
                = Cardinality(Places(Tail(p), config)) + (IF Head(p) = config THEN 1 ELSE 0)
           /\ Cardinality(Places(Tail(p), config)) \in Nat
<1> DEFINE before == Places(p, config)
           after  == Places(Tail(p), config)
           shift  == [i \in after |-> i + 1]
<1>1. /\ Len(p) \in Nat /\ Len(Tail(p)) = Len(p) - 1 /\ Len(p) > 0
      /\ \A i \in 1..Len(Tail(p)) : Tail(p)[i] = p[i + 1]
      /\ Head(p) = p[1]
  BY HeadTailProperties, EmptySeq, LenProperties
<1>2. IsFiniteSet(before) /\ IsFiniteSet(after)
  <2>1. IsFiniteSet(1..Len(p)) /\ IsFiniteSet(1..Len(Tail(p)))
    BY <1>1, FS_Interval
  <2> QED
    BY <2>1, FS_Subset DEF Places
<1>3. shift \in Bijection(after, before \ {1})
  <2>1. after \subseteq Nat /\ \A i \in after : i + 1 \in before \ {1}
    BY <1>1 DEF Places
  <2>2. \A k \in before \ {1} : k - 1 \in after /\ k = (k - 1) + 1
    BY <1>1 DEF Places
  <2>3. shift \in [after -> before \ {1}]
    BY <2>1
  <2>4. \A k \in before \ {1} : \E i \in after : shift[i] = k
    BY <2>1, <2>2
  <2>5. \A i, k \in after : shift[i] = shift[k] => i = k
    BY <2>1
  <2> HIDE DEF shift, before, after
  <2> QED
    BY <2>3, <2>4, <2>5 DEF Bijection, Injection, Surjection, IsInjective
<1>4. 1 \in before <=> Head(p) = config
  BY <1>1 DEF Places
<1> HIDE DEF shift, before, after
<1>5. Cardinality(before \ {1}) = Cardinality(after)
  BY <1>2, <1>3, FS_Bijection DEF ExistsBijection
<1>6. /\ Cardinality(before) \in Nat /\ Cardinality(after) \in Nat
      /\ Cardinality(before \ {1}) = IF 1 \in before THEN Cardinality(before) - 1
                                     ELSE Cardinality(before)
  BY <1>2, FS_RemoveElement, FS_CardinalityType
<1>7. Cardinality(before) = Cardinality(after) + (IF Head(p) = config THEN 1 ELSE 0)
  BY <1>4, <1>5, <1>6
<1> QED
  BY <1>2, <1>6, <1>7 DEF before, after

(* Nothing is pending at no place.                                         *)
LEMMA NoPlaces ==
    ASSUME NEW S, NEW p \in Seq(S), Len(p) = 0, NEW config
    PROVE  Cardinality(Places(p, config)) = 0
<1>1. Places(p, config) = {}
  BY DEF Places
<1> QED
  BY <1>1, FS_EmptySet

(* The jobs of a new matrix: as many of each combination as were asked for.*)
LEMMA RepeatedEach ==
    ASSUME NEW C, IsFiniteSet(C), NEW order \in [1..Cardinality(C) -> C],
           {order[i] : i \in DOMAIN order} = C, NEW r \in Nat
    PROVE  /\ Repeated(order, r) \in Seq(C)
           /\ \A config \in C : Cardinality(Places(Repeated(order, r), config)) = r
<1> DEFINE n == Cardinality(C)
           p == Repeated(order, r)
<1>1. /\ n \in Nat /\ n = Cardinality(C) /\ r * n \in Nat
      /\ order \in [1..n -> C] /\ order \in Seq(C) /\ Len(order) = n
  <2>1. n \in Nat
    BY FS_CardinalityType
  <2>2. order \in Seq(C)
    BY <2>1, SeqDef
  <2>3. Len(order) = n
    BY <2>1
  <2>4. r * n \in Nat
    BY <2>1
  <2> QED
    BY <2>1, <2>2, <2>3, <2>4
<1>2. p = [i \in 1..(r * n) |-> order[((i - 1) \div r) + 1]]
  BY <1>1 DEF Repeated
<1> HIDE DEF n, p
<1>3. order \in Injection(1..n, C)
  <2>1. order \in Surjection(1..n, C)
    BY <1>1 DEF Surjection
  <2>2. IsFiniteSet(1..n) /\ Cardinality(1..n) = IF 1 > n THEN 0 ELSE n - 1 + 1
    <3>1. 1 \in Int /\ n \in Int
      BY <1>1
    <3> QED
      BY ONLY <3>1, FS_Interval
  <2>3. Cardinality(1..n) = Cardinality(C)
    BY <1>1, <2>2
  <2> QED
    BY <2>1, <2>2, <2>3, FS_SurjSameCardinalityImpliesInj
<1>4. p \in [1..(r * n) -> C]
  <2>1. \A i \in 1..(r * n) : ((i - 1) \div r) + 1 \in 1..n
    BY <1>1, Blocks
  <2>2. \A i \in 1..(r * n) : order[((i - 1) \div r) + 1] \in C
    BY <1>1, <2>1
  <2> QED
    BY <1>2, <2>2
<1>5. p \in Seq(C) /\ Len(p) = r * n
  <2>1. p \in Seq(C)
    BY <1>1, <1>4, SeqDef
  <2> QED
    BY <1>1, <1>4, <2>1
<1>6. ASSUME NEW config \in C PROVE Cardinality(Places(p, config)) = r
  <2>1. PICK k \in 1..n : order[k] = config
    <3>1. DOMAIN order = 1..n
      BY <1>1
    <3> QED
      BY <3>1
  <2>2. \A i \in 1..n : order[i] = config => i = k
    BY <1>3, <2>1 DEF Injection, IsInjective
  <2>3. k \in Nat \ {0} /\ r * k \in Nat /\ r * (k - 1) \in Nat
    BY <1>1, <2>1
  <2>4. r * k <= r * n
    BY <1>1, <2>1, TimesMonotonic
  <2>5. \A i \in 1..(r * n) : p[i] = config <=> i \in (r * (k - 1) + 1)..(r * k)
    <3> SUFFICES ASSUME NEW i \in 1..(r * n)
                 PROVE  p[i] = config <=> i \in (r * (k - 1) + 1)..(r * k)
      OBVIOUS
    <3>1. /\ ((i - 1) \div r) + 1 \in 1..n
          /\ ((i - 1) \div r) + 1 = k <=> i \in (r * (k - 1) + 1)..(r * k)
      BY <1>1, <2>1, Blocks
    <3>2. p[i] = order[((i - 1) \div r) + 1]
      BY <1>2
    <3> QED
      BY <2>1, <2>2, <3>1, <3>2
  <2>6. Places(p, config) = (r * (k - 1) + 1)..(r * k)
    <3>1. (r * (k - 1) + 1)..(r * k) \subseteq 1..(r * n)
      BY <1>1, <2>3, <2>4
    <3> QED
      BY <1>5, <2>5, <3>1 DEF Places
  <2> QED
    BY <2>3, <2>6, BlockSize
<1> QED
  BY <1>5, <1>6 DEF p

-----------------------------------------------------------------------------
(* A task keeps its variables for as long as it is there.                  *)
LEMMA VariablesKept ==
    ASSUME ServerHolds, Logged, [TemplateNext]_templateVars,
           NEW k \in DOMAIN tasks, k \in DOMAIN tasks'
    PROVE  k \in DOMAIN env' /\ env'[k] = env[k]
<1>1. k \in DOMAIN env /\ k # next_jid
  BY NextIdFresh DEF Logged, ServerHolds
<1>2. CASE UNCHANGED env
  BY <1>1, <1>2
<1>3. ASSUME NEW x, NEW v, SetVar(x, v) PROVE UNCHANGED env
  BY <1>3 DEF SetVar
<1>4. SubmitTask => UNCHANGED env
  BY DEF SubmitTask
<1>5. ASSUME NEW spec, NEW e, SubmitMatrix(spec, e) PROVE UNCHANGED env
  BY <1>5 DEF SubmitMatrix
<1>6. CASE InsertWithVariables
  <2>1. k # listener.jid
    BY <1>6 DEF InsertWithVariables, InsertTask, InsertTagged, Resume, ServerHolds, Safe,
       ListenerFresh
  <2>2. UNCHANGED env \/ env' = Put(env, listener.jid, Head(pending))
    BY <1>6 DEF InsertWithVariables
  <2> QED
    BY <1>1, <2>1, <2>2 DEF Put
<1>7. ASSUME NEW j, Clone(j) PROVE k \in DOMAIN env' /\ env'[k] = env[k]
  <2>1. UNCHANGED env \/ env' = Put(env, next_jid, env[j])
    BY <1>7 DEF Clone, Inherit
  <2> QED
    BY <1>1, <2>1 DEF Put
<1>8. ASSUME NEW j, RunCommand(j) PROVE UNCHANGED env
  BY <1>8 DEF RunCommand
<1>9. ReapWithVariables => k \in DOMAIN env' /\ env'[k] = env[k]
  BY <1>1 DEF ReapWithVariables, Drop
<1>10. UNCHANGED templateVars => UNCHANGED env
  BY DEF templateVars
<1> QED
  BY <1>2, <1>3, <1>4, <1>5, <1>6, <1>7, <1>8, <1>9, <1>10 DEF TemplateNext

(* A matrix is kept with its variables while a task or the listener names  *)
(* it: it goes with the last of its tasks.                                 *)
LEMMA MatrixVariablesKept ==
    ASSUME ServerHolds, [TemplateNext]_templateVars, NEW m \in DOMAIN matrix_vars, m # None,
           \/ \E k \in DOMAIN tasks : k \in DOMAIN tasks' /\ tasks[k].matrix = m
           \/ m = listener.matrix /\ m = listener'.matrix
    PROVE  m \in DOMAIN matrix_vars' /\ matrix_vars'[m] = matrix_vars[m]
<1>1. CASE UNCHANGED matrix_vars
  BY <1>1
<1>2. ASSUME NEW x, NEW v, SetVar(x, v) PROVE UNCHANGED matrix_vars
  BY <1>2 DEF SetVar
<1>3. SubmitTask => UNCHANGED matrix_vars
  BY DEF SubmitTask
<1>4. ASSUME NEW spec \in JobSpecs, NEW e \in Expansions, SubmitMatrix(spec, e)
      PROVE  m \in DOMAIN matrix_vars' /\ matrix_vars'[m] = matrix_vars[m]
  <2>1. listener.matrix = None /\ matrix_vars' = Put(matrix_vars, next_jid, matrix_vars'[next_jid])
    BY <1>4, IdleAddsNothing DEF SubmitMatrix, AddMatrix, Accept, Put
  <2>2. m # next_jid
    <3>1. m \in DOMAIN matrices
      BY <2>1, NamedMatrices
    <3> QED
      BY <3>1, IdsAreNumbers DEF ServerHolds
  <2> QED
    BY <2>1, <2>2 DEF Put
<1>5. InsertWithVariables => UNCHANGED matrix_vars
  BY DEF InsertWithVariables
<1>6. ASSUME NEW j, Clone(j) \/ RunCommand(j) PROVE UNCHANGED matrix_vars
  BY <1>6 DEF Clone, RunCommand
<1>7. CASE ReapWithVariables
  <2>1. matrix_vars' = Drop(matrix_vars, DOMAIN matrices \ DOMAIN matrices')
        /\ UNCHANGED listener /\ Reap
    BY <1>7 DEF ReapWithVariables, Reap
  <2>2. ServerHolds' /\ [Next]_vars
    <3>1. WorkThreadStep
      BY <2>1 DEF WorkThreadStep
    <3> QED
      BY <3>1, StepServerHolds DEF Next
  <2>3. CASE m = listener.matrix
    BY <2>1, <2>3 DEF ServerHolds, Grouped, Exact, Adding, Drop
  <2>4. ASSUME NEW k \in DOMAIN tasks, k \in DOMAIN tasks', tasks[k].matrix = m
        PROVE  m \in DOMAIN matrices' \/ m = listener.matrix
    <3>1. tasks'[k].matrix = m
      BY <2>2, <2>4, JobsKept
    <3> QED
      BY <2>1, <2>2, <2>4, <3>1 DEF ServerHolds, Grouped, GroupsListMembers
  <2> QED
    BY <2>1, <2>3, <2>4 DEF Drop
<1>8. UNCHANGED templateVars => UNCHANGED matrix_vars
  BY DEF templateVars
<1> QED
  BY <1>1, <1>2, <1>3, <1>4, <1>5, <1>6, <1>7, <1>8 DEF TemplateNext

-----------------------------------------------------------------------------
(* Variables are set one at a time, to values.                             *)
LEMMA StepSettable == Settable /\ [TemplateNext]_templateVars => Settable'
<1> SUFFICES ASSUME Settable, [TemplateNext]_templateVars PROVE Settable'
  OBVIOUS
<1>1. CASE UNCHANGED variables
  BY <1>1 DEF Settable
<1>2. ASSUME NEW x \in Names, NEW v \in Values, SetVar(x, v) PROVE Settable'
  <2>1. variables' = Put(variables, x, v)
    BY <1>2 DEF SetVar
  <2> QED
    BY <2>1 DEF Settable, Put
<1>3. ASSUME NEW spec, NEW e, NEW j,
             \/ SubmitTask \/ SubmitMatrix(spec, e) \/ InsertWithVariables \/ Clone(j)
             \/ RunCommand(j) \/ ReapWithVariables \/ UNCHANGED templateVars
      PROVE  UNCHANGED variables
  BY <1>3 DEF SubmitTask, SubmitMatrix, InsertWithVariables, Clone, RunCommand,
     ReapWithVariables, templateVars
<1> QED
  BY <1>1, <1>2, <1>3 DEF TemplateNext

(* The tasks that a step keeps have a combination still.                   *)
LEMMA KeptFit ==
    ASSUME ServerHolds, Logged, Fit, [TemplateNext]_templateVars,
           NEW k \in DOMAIN tasks, k \in DOMAIN tasks'
    PROVE  Suited(tasks'[k], env'[k], matrix_vars')
<1> DEFINE m == tasks[k].matrix
<1>1. tasks'[k].matrix = m
  <2>1. CASE [Next]_vars
    BY <2>1, JobsKept
  <2>2. CASE Setting
    BY <2>2 DEF Setting, SetVar, shared
  <2> QED
    BY <2>1, <2>2, TemplateStep
<1>2. m # None => m \in DOMAIN matrix_vars /\ env[k] \in Product(matrix_vars[m].values)
  BY DEF Fit, Suited
<1>3. m # None => m \in DOMAIN matrix_vars' /\ matrix_vars'[m] = matrix_vars[m]
  BY <1>2, MatrixVariablesKept
<1> QED
  BY <1>1, <1>2, <1>3, VariablesKept DEF Suited

(* A step that inserts no task.                                            *)
LEMMA NoneNewFit ==
    ASSUME ServerHolds, Logged, Fit, [TemplateNext]_templateVars,
           DOMAIN tasks' \subseteq DOMAIN tasks
    PROVE  Fit'
<1>1. \A k \in DOMAIN tasks' : Suited(tasks'[k], env'[k], matrix_vars')
  BY KeptFit
<1> QED
  BY <1>1 DEF Fit

(* A step that inserts one, which has a combination.                       *)
LEMMA OneNewFit ==
    ASSUME ServerHolds, Logged, Fit, [TemplateNext]_templateVars,
           NEW k, DOMAIN tasks' = DOMAIN tasks \cup {k},
           Suited(tasks'[k], env'[k], matrix_vars')
    PROVE  Fit'
<1>1. \A i \in DOMAIN tasks' : Suited(tasks'[i], env'[i], matrix_vars')
  BY KeptFit
<1> QED
  BY <1>1 DEF Fit

(* A clone has the combination of the task it is made from.                *)
LEMMA CloneFit ==
    ASSUME ServerHolds, Logged, Fit, NEW j \in DOMAIN tasks, Clone(j) PROVE Fit'
<1> DEFINE t == CloneTask(tasks[j])
           retry == [t EXCEPT !.attempt = tasks[j].attempt + 1]
<1>1. tasks[j] \in Task
  BY Types, MapAt DEF ServerHolds
<1>2. t.matrix = tasks[j].matrix /\ retry.matrix = tasks[j].matrix
  BY <1>1 DEF CloneTask, Task
<1>3. \/ UNCHANGED tasks
      \/ \E c \in {t, retry} : tasks' = Put(tasks, next_jid, c) /\ Inherit(j)
  BY DEF Clone, CloneJob, CloneFailed, InsertClone, Handle, Accept
<1>4. [TemplateNext]_templateVars /\ UNCHANGED matrix_vars
  BY DEF TemplateNext, Clone
<1> HIDE DEF t, retry
<1>5. CASE UNCHANGED tasks
  BY <1>4, <1>5, NoneNewFit
<1>6. ASSUME NEW c \in {t, retry}, tasks' = Put(tasks, next_jid, c), Inherit(j) PROVE Fit'
  <2>1. /\ DOMAIN tasks' = DOMAIN tasks \cup {next_jid}
        /\ tasks'[next_jid].matrix = tasks[j].matrix
    BY <1>2, <1>6 DEF Put
  <2>2. env'[next_jid] = env[j]
    BY <1>6 DEF Inherit, Put
  <2>3. Suited(tasks'[next_jid], env'[next_jid], matrix_vars')
    BY <1>4, <2>1, <2>2 DEF Fit, Suited
  <2> QED
    BY <1>4, <2>1, <2>3, OneNewFit
<1> QED
  BY <1>3, <1>5, <1>6

(* A job of the matrix being added is inserted with what is first pending. *)
LEMMA FirstPending ==
    ASSUME ServerHolds, Expanding, listener.at = "insert_task", listener.matrix # None
    PROVE  LET m == listener.matrix IN
           /\ m \in DOMAIN matrix_vars /\ pending \in Seq(Combinations(m))
           /\ Len(pending) = listener.left + 1 /\ listener.left \in Nat /\ pending # << >>
           /\ Head(pending) \in Combinations(m)
<1> DEFINE m == listener.matrix
<1>1. /\ m \in DOMAIN matrix_vars /\ pending \in Seq(Combinations(m))
      /\ Len(pending) = listener.left + 1
  BY DEF Expanding
<1>2. listener.left \in Nat
  BY Types DEF ServerHolds, Listener
<1>3. pending # << >>
  BY <1>1, <1>2, EmptySeq
<1> QED
  BY <1>1, <1>2, <1>3, HeadTailProperties

(* ... and so has a combination of that matrix.                            *)
LEMMA InsertFit ==
    ASSUME ServerHolds, Logged, Fit, Expanding, InsertWithVariables PROVE Fit'
<1> DEFINE k == listener.jid
           m == listener.matrix
<1>1. [TemplateNext]_templateVars /\ UNCHANGED matrix_vars
  BY DEF TemplateNext, InsertWithVariables
<1>2. UNCHANGED tasks \/ tasks' = Put(tasks, k, listener.task)
  BY DEF InsertWithVariables, InsertTask, InsertTagged
<1>3. CASE UNCHANGED tasks
  BY <1>1, <1>3, NoneNewFit
<1>4. CASE tasks' = Put(tasks, k, listener.task)
  <2>1. DOMAIN tasks' = DOMAIN tasks \cup {k} /\ tasks'[k] = listener.task
    BY <1>4 DEF Put
  <2>2. env'[k] = Head(pending)
    BY <2>1 DEF InsertWithVariables, Put
  <2>3. ASSUME listener.task.matrix # None
        PROVE  /\ m # None /\ listener.at = "insert_task"
               /\ listener.task.matrix = m
    BY <2>3 DEF InsertWithVariables, InsertTask, InsertTagged, Resume, ServerHolds, Grouped,
       Exact, Adding, Single
  <2>4. Suited(tasks'[k], env'[k], matrix_vars')
    BY <1>1, <2>1, <2>2, <2>3, FirstPending DEF Suited, Combinations
  <2> QED
    BY <1>1, <2>1, <2>4, OneNewFit
<1> QED
  BY <1>2, <1>3, <1>4

(* Every step keeps Fit.                                                   *)
LEMMA StepFit ==
    ServerHolds /\ Logged /\ Fit /\ Expanding /\ [TemplateNext]_templateVars => Fit'
<1> SUFFICES ASSUME ServerHolds, Logged, Fit, Expanding, [TemplateNext]_templateVars PROVE Fit'
  OBVIOUS
<1>1. CASE DOMAIN tasks' \subseteq DOMAIN tasks
  BY <1>1, NoneNewFit
<1>2. ASSUME NEW x, NEW v, SetVar(x, v) PROVE UNCHANGED tasks
  BY <1>2 DEF SetVar, shared
<1>3. SubmitTask => UNCHANGED tasks
  BY DEF SubmitTask, AddJob, AddTaggedJob, SetUpMachine, Allocate
<1>4. ASSUME NEW spec, NEW e, SubmitMatrix(spec, e) PROVE UNCHANGED tasks
  BY <1>4 DEF SubmitMatrix, AddMatrix
<1>5. ASSUME NEW j \in ToDrive, RunCommand(j) \/ OtherDrive(j)
      PROVE  DOMAIN tasks' \subseteq DOMAIN tasks
  <2>1. TryDriveSm(j)
    BY <1>5, DriveStep
  <2> QED
    BY <2>1, DriveForm, Types DEF ServerHolds, IsMap
<1>6. ReapWithVariables => DOMAIN tasks' \subseteq DOMAIN tasks
  BY DEF ReapWithVariables, Reap, Drop
<1>7. OtherRequest => UNCHANGED tasks \/ DOMAIN tasks' = DOMAIN tasks
  BY OtherRequestDomain
<1>8. \/ MatrixAllocate \/ InsertLive \/ PublishMatrix \/ InsertTag
      \/ ProcessNotifications \/ BeginIteration \/ EndDriving \/ EndIteration
      \/ \E j \in DOMAIN handles \cup copying : Environment(j)
      => UNCHANGED tasks
  BY DEF MatrixAllocate, InsertLive, PublishMatrix, InsertTag, ProcessNotifications,
         BeginIteration, EndDriving, EndIteration, Environment, ProcessExits, CopierReports, shared
<1>9. UNCHANGED templateVars => UNCHANGED tasks
  BY DEF templateVars, vars, shared
<1> QED
  BY <1>1, <1>2, <1>3, <1>4, <1>5, <1>6, <1>7, <1>8, <1>9, InsertFit, CloneFit
     DEF TemplateNext

-----------------------------------------------------------------------------
(* What the listener has inserted for its matrix is there.                 *)
LEMMA ExpandedThere ==
    ASSUME ServerHolds, listener.matrix # None PROVE Expanded \subseteq DOMAIN tasks
BY DEF ServerHolds, Grouped, Exact, Adding, Expanded

(* A step that goes on with the same matrix and inserts nothing for it.    *)
LEMMA SameExpanding ==
    ASSUME Expanding, UNCHANGED pending, listener.matrix # None,
           listener'.matrix = listener.matrix, Expanded' = Expanded, IsFiniteSet(listener'.jids),
           listener'.left + (IF listener'.at = "insert_task" THEN 1 ELSE 0)
             = listener.left + (IF listener.at = "insert_task" THEN 1 ELSE 0),
           listener.matrix \in DOMAIN matrix_vars',
           matrix_vars'[listener.matrix] = matrix_vars[listener.matrix],
           \A k \in Expanded : env'[k] = env[k]
    PROVE  Expanding'
<1>1. \A config : Having(config)' = Having(config)
  BY DEF Having
<1>2. \A config : Places(pending', config) = Places(pending, config)
  OBVIOUS
<1>3. Combinations(listener.matrix)' = Combinations(listener.matrix)
  BY DEF Combinations
<1> QED
  BY <1>1, <1>2, <1>3 DEF Expanding

(* A step in which the listener does not move.                             *)
LEMMA ElsewhereExpanding ==
    ASSUME ServerHolds, Logged, Expanding, [TemplateNext]_templateVars,
           UNCHANGED <<listener, pending>>
    PROVE  Expanding'
<1>1. CASE listener.matrix = None
  BY <1>1 DEF Expanding
<1>2. CASE listener.matrix # None
  <2>1. Expanded' = Expanded
    BY DEF Expanded
  <2>2. Expanded \subseteq DOMAIN tasks /\ Expanded' \subseteq DOMAIN tasks'
    <3>1. ServerHolds'
      BY StepServerHolds
    <3>2. listener'.matrix # None
      BY <1>2
    <3>3. Expanded' \subseteq DOMAIN tasks'
      BY <3>1, <3>2 DEF ServerHolds, Grouped, Exact, Adding, Expanded
    <3> QED
      BY <1>2, <3>3, ExpandedThere
  <2>3. \A k \in Expanded : env'[k] = env[k]
    BY <2>1, <2>2, VariablesKept
  <2>4. listener.matrix \in DOMAIN matrix_vars /\ IsFiniteSet(listener.jids)
    BY <1>2 DEF Expanding
  <2>5. /\ listener.matrix \in DOMAIN matrix_vars'
        /\ matrix_vars'[listener.matrix] = matrix_vars[listener.matrix]
    BY <1>2, <2>4, MatrixVariablesKept
  <2> QED
    BY <1>2, <2>1, <2>3, <2>4, <2>5, SameExpanding
<1> QED
  BY <1>1, <1>2

(* What a matrix can be expanded to.                                       *)
LEMMA MergedNames ==
    ASSUME Settable, NEW e \in Expansions
    PROVE  DOMAIN Merged(e.given) \subseteq Names /\ e.repeat \in Nat
BY TemplateAssumption DEF Settable, Merged

(* At first all combinations are pending, each as often as was asked for.  *)
LEMMA SubmitExpanding ==
    ASSUME Settable, NEW spec \in JobSpecs, NEW e \in Expansions, SubmitMatrix(spec, e)
    PROVE  Expanding'
<1> DEFINE values == Merged(e.given)
           configs == Product(values)
           m == next_jid
<1>1. PICK order \in [1..Cardinality(configs) -> configs] :
         /\ {order[i] : i \in DOMAIN order} = configs
         /\ pending' = Repeated(order, e.repeat)
         /\ AddMatrix(spec, Len(pending'))
         /\ matrix_vars' = Put(matrix_vars, m, [values |-> values, repeat |-> e.repeat])
  BY DEF SubmitMatrix
<1>2. /\ matrix_vars'[m].values = values /\ matrix_vars'[m].repeat = e.repeat
      /\ m \in DOMAIN matrix_vars'
  BY <1>1 DEF Put
<1>3. /\ listener'.at = "matrix" /\ listener'.matrix = m /\ listener'.left = Len(pending')
      /\ listener'.jids = {}
  BY <1>1 DEF AddMatrix
<1>4. IsFiniteSet(configs) /\ e.repeat \in Nat
  BY MergedNames, CombinationsFinite
<1>5. Product(matrix_vars'[listener'.matrix].values) = configs
  BY <1>2, <1>3
<1>6. order \in [1..Cardinality(configs) -> configs] /\ {order[i] : i \in DOMAIN order} = configs
  BY <1>1
<1> HIDE DEF configs, values, m
<1>7. /\ pending' \in Seq(configs)
      /\ \A config \in configs : Cardinality(Places(pending', config)) = e.repeat
  <2> DEFINE r == e.repeat
  <2>1. r \in Nat
    BY <1>4
  <2>2. pending' = Repeated(order, r)
    BY <1>1
  <2> HIDE DEF r
  <2>3. /\ Repeated(order, r) \in Seq(configs)
        /\ \A config \in configs : Cardinality(Places(Repeated(order, r), config)) = r
    BY ONLY <1>4, <1>6, <2>1, RepeatedEach
  <2> QED
    BY <2>2, <2>3 DEF r
<1>8. Len(pending') \in Nat
  BY <1>7
<1>9. ASSUME NEW config \in configs
      PROVE  Cardinality(Having(config))' + Cardinality(Places(pending, config))' = e.repeat
  <2>1. Having(config)' = {}
    BY <1>3 DEF Having, Expanded
  <2>2. Cardinality(Having(config))' = 0
    BY <2>1, FS_EmptySet
  <2>3. Cardinality(Places(pending, config))' = e.repeat
    BY <1>7
  <2> QED
    BY <1>4, <2>2, <2>3
<1>10. /\ Len(pending') = listener'.left + (IF listener'.at = "insert_task" THEN 1 ELSE 0)
      /\ IsFiniteSet(listener'.jids) /\ listener'.matrix \in DOMAIN matrix_vars'
      /\ matrix_vars'[listener'.matrix].repeat = e.repeat
  BY <1>2, <1>3, <1>8, FS_EmptySet
<1>11. Combinations(listener.matrix)' = configs
  BY <1>5 DEF Combinations
<1> QED
  BY <1>7, <1>9, <1>10, <1>11 DEF Expanding

(* An id is taken for the next job, which is not made yet.                 *)
LEMMA AllocateExpanding ==
    ASSUME ServerHolds, Expanding, MatrixAllocate, UNCHANGED <<env, pending, matrix_vars>>
    PROVE  Expanding'
<1>1. /\ listener.at = "matrix" /\ listener'.at = "insert_task" /\ listener'.jid = next_jid
      /\ listener'.matrix = listener.matrix /\ listener'.left = listener.left - 1
      /\ listener'.jids = listener.jids \cup {next_jid}
  BY Types DEF MatrixAllocate, Resume, ServerHolds, Listener
<1>2. CASE listener.matrix = None
  BY <1>1, <1>2 DEF Expanding
<1>3. CASE listener.matrix # None
  <2>1. next_jid \notin listener.jids
    <3>1. listener.jids \subseteq DOMAIN tasks
      BY <1>1, <1>3, ExpandedThere DEF Expanded
    <3> QED
      BY <3>1, NextIdFresh DEF ServerHolds
  <2>2. Expanded' = Expanded
    BY <1>1, <2>1 DEF Expanded
  <2>3. IsFiniteSet(listener'.jids)
    BY <1>1, <1>3, FS_AddElement DEF Expanding
  <2>4. listener'.left + (IF listener'.at = "insert_task" THEN 1 ELSE 0)
          = listener.left + (IF listener.at = "insert_task" THEN 1 ELSE 0)
    BY <1>1, Types DEF ServerHolds, Listener
  <2> QED
    BY <1>1, <1>3, <2>2, <2>3, <2>4, SameExpanding DEF Expanding
<1> QED
  BY <1>2, <1>3

(* The job that was inserted is made live; the next can be allocated.      *)
LEMMA LiveExpanding ==
    ASSUME ServerHolds, Expanding, InsertLive, UNCHANGED <<env, pending, matrix_vars>>
    PROVE  Expanding'
<1>1. CASE listener.matrix = None
  BY <1>1 DEF InsertLive, IdleListener, Expanding
<1>2. CASE listener.matrix # None
  <2>1. /\ listener.at = "insert_live" /\ listener'.at = "matrix"
        /\ listener'.matrix = listener.matrix /\ listener'.left = listener.left
        /\ listener'.jids = listener.jids
    BY <1>2, Types DEF InsertLive, Resume, ServerHolds, Listener
  <2>2. Expanded' = Expanded
    BY <2>1 DEF Expanded
  <2> QED
    BY <1>2, <2>1, <2>2, SameExpanding DEF Expanding
<1> QED
  BY <1>1, <1>2

(* The job that is inserted takes what is first pending.                   *)
LEMMA InsertExpanding ==
    ASSUME ServerHolds, Logged, Expanding, InsertTask, InsertWithVariables, listener.matrix # None
    PROVE  Expanding'
<1> DEFINE k == listener.jid
           m == listener.matrix
<1>1. /\ listener.at = "insert_task" /\ listener'.at = "insert_live"
      /\ listener'.matrix = m /\ listener'.left = listener.left
      /\ listener'.jids = listener.jids /\ k \in listener.jids
      /\ tasks' = Put(tasks, k, listener.task) /\ k \notin DOMAIN tasks
  BY Types DEF InsertTask, Resume, ServerHolds, Listener, Grouped, Exact, Adding, Safe,
     ListenerFresh
<1>2. Expanded = listener.jids \ {k} /\ Expanded' = listener.jids
  BY <1>1 DEF Expanded
<1>3. /\ UNCHANGED matrix_vars /\ pending' = Tail(pending)
      /\ env' = Put(env, k, Head(pending))
  BY <1>1 DEF InsertWithVariables, Put
<1>4. \A i \in Expanded : i # k /\ env'[i] = env[i]
  <2>1. Expanded \subseteq DOMAIN tasks /\ DOMAIN tasks \subseteq DOMAIN env
    BY ExpandedThere DEF Logged
  <2> QED
    BY <1>1, <1>3, <2>1 DEF Put
<1>5. /\ m \in DOMAIN matrix_vars /\ pending \in Seq(Combinations(m)) /\ pending # << >>
      /\ Len(pending) = listener.left + 1 /\ listener.left \in Nat
      /\ IsFiniteSet(listener.jids)
  BY <1>1, FirstPending DEF Expanding
<1>6. pending' \in Seq(Combinations(m)) /\ Len(pending') = listener'.left
  BY <1>1, <1>3, <1>5, HeadTailProperties
<1>7. Combinations(m)' = Combinations(m)
  BY <1>1, <1>3 DEF Combinations
<1>8. ASSUME NEW config \in Combinations(m)
      PROVE  Cardinality(Having(config))' + Cardinality(Places(pending, config))'
               = matrix_vars[m].repeat
  <2>1. Cardinality(Having(config)) + Cardinality(Places(pending, config)) = matrix_vars[m].repeat
    BY <1>5 DEF Expanding
  <2>2. /\ Cardinality(Places(pending, config))
             = Cardinality(Places(pending', config)) + (IF Head(pending) = config THEN 1 ELSE 0)
        /\ Cardinality(Places(pending', config)) \in Nat
    BY <1>3, <1>5, PlacesOfTail
  <2>3. IsFiniteSet(Having(config)) /\ k \notin Having(config)
    <3>1. IsFiniteSet(Expanded) /\ Having(config) \subseteq Expanded
      BY <1>2, <1>5, FS_RemoveElement DEF Having
    <3> QED
      BY <1>4, <3>1, FS_Subset
  <2>4. Having(config)' = IF Head(pending) = config THEN Having(config) \cup {k}
                          ELSE Having(config)
    <3>1. env'[k] = Head(pending)
      BY <1>3 DEF Put
    <3>2. Expanded' = Expanded \cup {k}
      BY <1>1, <1>2
    <3> QED
      BY <1>4, <3>1, <3>2 DEF Having
  <2>5. Cardinality(Having(config))'
          = Cardinality(Having(config)) + (IF Head(pending) = config THEN 1 ELSE 0)
        /\ Cardinality(Having(config)) \in Nat
    BY <2>3, <2>4, FS_AddElement, FS_CardinalityType
  <2> QED
    BY <2>1, <2>2, <2>5
<1>9. (LET n == listener.matrix IN
       /\ n \in DOMAIN matrix_vars /\ pending \in Seq(Combinations(n))
       /\ Len(pending) = listener.left + (IF listener.at = "insert_task" THEN 1 ELSE 0)
       /\ IsFiniteSet(listener.jids))'
  BY <1>1, <1>3, <1>5, <1>6, <1>7
<1> QED
  BY <1>1, <1>3, <1>7, <1>8, <1>9 DEF Expanding

(* Every step keeps Expanding.                                             *)
LEMMA StepExpanding ==
    ServerHolds /\ Logged /\ Settable /\ Expanding /\ [TemplateNext]_templateVars => Expanding'
<1> SUFFICES ASSUME ServerHolds, Logged, Settable, Expanding, [TemplateNext]_templateVars
             PROVE  Expanding'
  OBVIOUS
<1> DEFINE Elsewhere == UNCHANGED <<listener, pending>>
           Over      == listener'.matrix = None
<1>1. Over => Expanding'
  BY DEF Expanding
<1>2. Elsewhere => Expanding'
  BY ElsewhereExpanding
<1>3. ASSUME NEW x, NEW v, SetVar(x, v) PROVE Elsewhere
  BY <1>3 DEF SetVar
<1>4. ASSUME NEW point, NEW task, listener.at = "idle", Allocate(point, task) PROVE Over
  <2>1. listener.matrix = None /\ listener \in Listener
    BY <1>4, IdleAddsNothing, Types DEF ServerHolds
  <2> QED
    BY <1>4, <2>1 DEF Allocate, Listener
<1>5. SubmitTask => Over
  BY <1>4 DEF SubmitTask, AddJob, AddTaggedJob, SetUpMachine, Accept
<1>6. CASE InsertWithVariables
  <2>1. InsertTagged => Over
    BY DEF InsertTagged, IdleListener
  <2>2. ASSUME InsertTask, listener.matrix = None PROVE Over
    BY <2>2, Types DEF InsertTask, ServerHolds, Listener
  <2> QED
    BY <1>1, <1>6, <2>1, <2>2, InsertExpanding DEF InsertWithVariables
<1>7. ASSUME NEW j, Clone(j) PROVE Elsewhere
  BY <1>7 DEF Clone, CloneJob, CloneFailed
<1>8. ASSUME NEW j, RunCommand(j) PROVE Elsewhere
  BY <1>8, DriveStep, DriveForm DEF RunCommand, ServerHolds
<1>9. ReapWithVariables => Elsewhere
  BY DEF ReapWithVariables, Reap
<1>10. ASSUME OtherRequest, UNCHANGED pending PROVE Over \/ Elsewhere
  <2>1. AddTag => Over
    BY <1>4 DEF AddTag, Accept
  <2>2. ASSUME NEW j, NEW m, NEW c, NEW how,
               \/ RemoveAvailable(m) \/ MakeAvailable(m, c) \/ CancelJob(j, how) \/ HoldJob(j)
               \/ UnholdJob(j) \/ AddJobTimeout(j) \/ TagJob(j, c) \/ UntagJob(j)
        PROVE  Elsewhere
    BY <1>10, <2>2 DEF RemoveAvailable, MakeAvailable, CancelJob, HoldJob, UnholdJob,
       AddJobTimeout, TagJob, UntagJob
  <2> QED
    BY <1>10, <2>1, <2>2 DEF OtherRequest
<1>11. PublishMatrix \/ InsertTag => Over
  BY DEF PublishMatrix, InsertTag, IdleListener
<1>12. ASSUME NEW j, OtherDrive(j) PROVE UNCHANGED listener
  BY <1>12, DriveStep, DriveForm DEF ServerHolds
<1>13. \/ ProcessNotifications \/ BeginIteration \/ EndDriving \/ EndIteration
       \/ \E j \in DOMAIN handles \cup copying : Environment(j)
       => UNCHANGED listener
  BY DEF ProcessNotifications, BeginIteration, EndDriving, EndIteration, Environment,
     ProcessExits, CopierReports
<1>14. UNCHANGED templateVars => Elsewhere
  BY DEF templateVars, vars
<1> HIDE DEF Over
<1> QED
  BY <1>1, <1>2, <1>3, <1>5, <1>6, <1>7, <1>8, <1>9, <1>10, <1>11, <1>12, <1>13, <1>14,
     SubmitExpanding, AllocateExpanding, LiveExpanding
     DEF TemplateNext

(* What is known of the variables is an invariant.                         *)
LEMMA FittingInvariant == TemplateSpec => [](ServerHolds /\ Logged /\ Fitting)
<1>1. TemplateInit => ServerHolds /\ Logged /\ Fitting
  <2>1. TemplateInit => ServerHolds
    BY InitServerHolds DEF TemplateInit
  <2>2. TemplateInit => Logged /\ Fitting
    BY DEF TemplateInit, Init, Logged, Fitting, Settable, Fit, Expanding, EmptyMap, IdleListener
  <2> QED
    BY <2>1, <2>2
<1>2. ServerHolds /\ Logged /\ Fitting /\ [TemplateNext]_templateVars
        => (ServerHolds /\ Logged /\ Fitting)'
  BY StepServerHolds, StepLogged, StepSettable, StepFit, StepExpanding DEF Fitting
<1> QED
  BY <1>1, <1>2, PTL DEF TemplateSpec

(* Every job of a matrix, retries and clones included, runs one of the     *)
(* combinations that StatMatrix and ListJobs report for the matrix.        *)
THEOREM MatrixJobsRunCombinations == TemplateSpec => []MatrixJobsFit
<1>1. Fitting => MatrixJobsFit
  BY DEF Fitting, Fit, Suited, MatrixJobsFit
<1> QED
  BY <1>1, FittingInvariant, PTL

(* When a matrix is published, its jobs are those that were inserted for   *)
(* it, with nothing pending.                                               *)
LEMMA PublishCovers ==
    ASSUME ServerHolds, Fitting, PublishMatrix, NEW m \in DOMAIN matrices' \ DOMAIN matrices,
           NEW config \in Combinations(m)
    PROVE  Cardinality({j \in matrices'[m] : env[j] = config}) = matrix_vars[m].repeat
<1>1. /\ listener.at = "matrix" /\ listener.left = 0
      /\ matrices' = Put(matrices, listener.matrix, listener.jids)
  BY DEF PublishMatrix, Resume
<1>2. m = listener.matrix /\ matrices'[m] = listener.jids
  BY <1>1 DEF Put
<1>3. m # None
  BY <1>1, <1>2 DEF ServerHolds, Typing, ListenerTyped
<1>4. /\ pending \in Seq(Combinations(m)) /\ Len(pending) = 0 /\ IsFiniteSet(listener.jids)
      /\ Cardinality(Having(config)) + Cardinality(Places(pending, config))
           = matrix_vars[m].repeat
  BY <1>1, <1>2, <1>3 DEF Fitting, Expanding
<1>5. Having(config) = {j \in matrices'[m] : env[j] = config}
  BY <1>1, <1>2 DEF Having, Expanded
<1>6. Cardinality(Having(config)) \in Nat
  <2>1. Having(config) \subseteq listener.jids
    BY <1>1 DEF Having, Expanded
  <2> QED
    BY <1>4, <2>1, FS_Subset, FS_CardinalityType
<1>7. Cardinality(Places(pending, config)) = 0
  BY <1>4, NoPlaces
<1>8. Cardinality(Having(config)) = matrix_vars[m].repeat
  BY <1>4, <1>6, <1>7
<1> QED
  BY <1>5, <1>8

(* A new matrix has, for every combination, as many jobs as were asked     *)
(* for, although its jobs run, fail and are retried while it is expanded   *)
(* (request.rs, AddMatrix).                                                *)
THEOREM MatricesAreCovered == TemplateSpec => MatrixCovered
<1> DEFINE Covers ==
       \A m \in DOMAIN matrices' \ DOMAIN matrices :
          \A config \in Product(matrix_vars[m].values) :
              Cardinality({j \in matrices'[m] : env[j] = config}) = matrix_vars[m].repeat
<1>1. ServerHolds /\ Logged /\ Fitting /\ [TemplateNext]_templateVars => [Covers]_templateVars
  <2> SUFFICES ASSUME ServerHolds, Fitting, [TemplateNext]_templateVars,
                      NEW m \in DOMAIN matrices' \ DOMAIN matrices,
                      NEW config \in Product(matrix_vars[m].values)
               PROVE  Cardinality({j \in matrices'[m] : env[j] = config}) = matrix_vars[m].repeat
    OBVIOUS
  <2>1. [Next]_vars
    <3>1. Setting => UNCHANGED matrices
      BY DEF Setting, SetVar, shared
    <3> QED
      BY <3>1, TemplateStep
  <2>2. PublishMatrix
    BY <2>1, MatricesArePublished
  <2> QED
    BY <2>2, PublishCovers DEF Combinations
<1>2. TemplateSpec => [][Covers]_templateVars
  BY <1>1, FittingInvariant, PTL DEF TemplateSpec
<1> QED
  BY <1>2 DEF MatrixCovered

==============================================================================
