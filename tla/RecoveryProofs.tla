--------------------------- MODULE RecoveryProofs ---------------------------
(***************************************************************************)
(* Snapshots and restarts: what holds of the server goes on holding when   *)
(* it starts again from its file, whole or cut short (but for a file that  *)
(* was cut between the tasks and next_jid), and what a whole file says of  *)
(* a task is at most one drive behind.  The state of Server is handled by  *)
(* the lemmas of the modules below: a step of RecoverySpec is a step of    *)
(* Spec, a failed write, or a restart.                                     *)
(***************************************************************************)
EXTENDS Recovery, TaskProofs

Below(n) == 0..(n - 1)

(* A task in a snapshot taken when the next id was n.                      *)
SavedTask(n) ==
    {t \in Task : /\ HasMachine(t) /\ t.state # "Error"
                  /\ t.matrix \in Below(n) \cup {None} /\ t.tag \in Below(n) \cup {None}
                  /\ t.attempt > 0 =>
                        /\ t.job.repeat_on_fail
                        /\ t.job.maximum_failures # None
                             => t.attempt <= t.job.maximum_failures}
Snapshot(s, n) == /\ IsMap(s.machines, Machines, MachineStatus)
                  /\ IsMap(s.tasks, Below(n), SavedTask(n))
                  /\ IsMap(s.matrices, Below(n), SUBSET Below(n))
                  /\ IsMap(s.tags, Below(n), SUBSET Below(n))

(* The tags that tasks ts name are those of gs; the tasks that matrices ms *)
(* list, as far as ts has them, name the matrix.                           *)
Resolved(ts, gs) == \A j \in DOMAIN ts : ts[j].tag # None => ts[j].tag \in DOMAIN gs
Listed(ms, ts)   == \A m \in DOMAIN ms : \A k \in ms[m] \cap DOMAIN ts : ts[k].matrix = m

(* What the running server refers to was handed out.                       *)
Referenced ==
    /\ TagsResolve
    /\ \A j \in DOMAIN tasks : {tasks[j].matrix, tasks[j].tag} \subseteq Issued \cup {None}
    /\ \A g \in DOMAIN tags : tags[g] \subseteq Issued
    /\ listener.jids \subseteq Issued

IsCopy(s) == s = [next |-> s.next, machines |-> s.machines, tasks |-> s.tasks,
                  matrices |-> s.matrices, tags |-> s.tags]

(* The copy in the making.  The tags are copied after the tasks that name  *)
(* them, and until then only grow (that tasks name tags that are there is  *)
(* known as long as no tags were cut off); a task that was copied keeps    *)
(* its matrix, and its id is not taken by another.                         *)
SavingOK ==
    /\ IsCopy(saving) /\ saving.next \in 1..6
    /\ worker.at # "idle" => saving.next = 1
    /\ Snapshot(saving, next_jid)
    /\ cuts = {} /\ saving.next \in {3, 4} => Resolved(saving.tasks, tags)
    /\ cuts = {} /\ saving.next \in {5, 6} => Resolved(saving.tasks, saving.tags)
    /\ saving.next = 3 =>
          /\ \A j \in DOMAIN saving.tasks \cap DOMAIN tasks :
                saving.tasks[j].matrix = tasks[j].matrix
          /\ Inserting => listener.jid \notin DOMAIN saving.tasks
    /\ saving.next >= 4 => Listed(saving.matrices, saving.tasks)

(* A file, whole or cut, unless it was cut between its tasks and next_jid. *)
FileGood(f) == f.kind # "no_jid" =>
                 /\ f.next_jid \in Nat /\ Snapshot(f, f.next_jid)
                 /\ Listed(f.matrices, f.tasks)
                 /\ cuts = {} /\ f.kind # "no_tags" => Resolved(f.tasks, f.tags)
FileOK == FileGood(file)

(* The tasks whose state only a drive can change.                          *)
Outcome == {"Done", "DoneWithResults", "ErrorDone"}
Settled == Holding \cup Outcome
Records(ts, j) == /\ j \in DOMAIN ts /\ ts[j].state = SnapshotTask(tasks[j]).state
                  /\ ts[j].results = tasks[j].results
RecordsAll(ts) == \A j \in DOMAIN tasks : tasks[j].state \in Settled => Records(ts, j)

(* From the writing of the file to the next drive that changes a task.     *)
Current == \/ worker.at = "idle" /\ saving.next = 6
           \/ worker.at = "sleep"
           \/ worker.at = "drive" /\ ~worker.updated
Usable == file.kind = "good" /\ ~stale
Behind == {i \in DOMAIN tasks : /\ tasks[i].state \in Holding
                                /\ i \in DOMAIN file.tasks /\ file.tasks[i].state = "Waiting"}
SavedCurrent == worker.at = "idle" /\ saving.next \in 3..6 => RecordsAll(saving.tasks)
FileCurrent ==
    Usable =>
      /\ Current => RecordsAll(file.tasks)
      /\ \A j \in DOMAIN tasks : tasks[j].state \in Outcome =>
            j \in DOMAIN file.tasks /\ RestoredState(file.tasks[j]) = tasks[j].state
      /\ \A i, k \in Behind : i = k

-----------------------------------------------------------------------------
(* What is referred to.  Ids are handed out one by one; a tag, once there, *)
(* stays, and lists ids that were handed out.                              *)
LEMMA IdsForm ==
    ASSUME Typing, Referenced, [Next]_vars
    PROVE  /\ next_jid \in Nat /\ next_jid' \in {next_jid, next_jid + 1}
           /\ DOMAIN tags \subseteq DOMAIN tags'
           /\ \A g \in DOMAIN tags' : tags'[g] \subseteq Issued'
           /\ listener'.jids \subseteq Issued'
<1> DEFINE Goal == /\ next_jid' \in {next_jid, next_jid + 1}
                   /\ DOMAIN tags \subseteq DOMAIN tags'
                   /\ \A g \in DOMAIN tags' : tags'[g] \subseteq Issued'
                   /\ listener'.jids \subseteq Issued'
<1>1. /\ next_jid \in Nat /\ listener \in Listener
      /\ \A g \in DOMAIN tags : tags[g] \subseteq Issued
      /\ listener.jids \subseteq Issued /\ DOMAIN tasks \subseteq Issued
  BY Types DEF Referenced, IsMap
<1>2. next_jid' \in {next_jid, next_jid + 1} => Issued \subseteq Issued'
  <2>1. next_jid' \in {next_jid, next_jid + 1} => next_jid' \in Nat /\ next_jid <= next_jid'
    BY <1>1
  <2> QED
    BY <1>1, <2>1, WiderIds DEF Issued
<1>3. next_jid' = next_jid + 1 => next_jid \in Issued'
  BY <1>1 DEF Issued
<1>4. UNCHANGED <<next_jid, tags, listener>> => Goal
  BY <1>1, <1>2
<1>5. ASSUME NEW j, Environment(j) PROVE Goal
  BY <1>4, <1>5 DEF Environment, ProcessExits, CopierReports, shared
<1>6. ASSUME NEW j, TryDriveSm(j) PROVE Goal
  BY <1>4, <1>6, DriveForm
<1>7. ProcessNotifications \/ BeginIteration \/ EndDriving \/ EndIteration \/ UNCHANGED vars => Goal
  BY <1>4 DEF ProcessNotifications, BeginIteration, EndDriving, EndIteration, vars, shared
<1>8. Reap => Goal
  BY <1>1, <1>2 DEF Reap
<1>9. ASSUME NEW j, CloneFailed(j) \/ CloneJob(j) PROVE Goal
  BY <1>1, <1>2, <1>3, <1>9 DEF CloneFailed, CloneJob, InsertClone
<1>10. ASSUME NEW j \in DOMAIN tasks, NEW g, TagJob(j, g) \/ UntagJob(j) PROVE Goal
  <2>1. DOMAIN tags' = DOMAIN tags /\ \A h \in DOMAIN tags : tags'[h] \subseteq tags[h] \cup {j}
    BY <1>10, Types DEF TagJob, UntagJob, IsMap
  <2>2. UNCHANGED <<next_jid, listener>>
    BY <1>10 DEF TagJob, UntagJob
  <2> QED
    BY <1>1, <1>2, <2>1, <2>2
<1>11. ASSUME NEW m, NEW c, NEW j, NEW how,
              \/ MakeAvailable(m, c) \/ RemoveAvailable(m) \/ CancelJob(j, how) \/ HoldJob(j)
              \/ UnholdJob(j) \/ AddJobTimeout(j)
       PROVE  Goal
  BY <1>4, <1>11 DEF MakeAvailable, RemoveAvailable, CancelJob, HoldJob, UnholdJob,
     AddJobTimeout
<1>12. ASSUME NEW spec, NEW m, NEW n,
              \/ AddJob(spec) \/ AddTaggedJob(spec, n) \/ SetUpMachine(spec, m) \/ AddTag
       PROVE  Goal
  <2>1. \E point, task : Allocate(point, task)
    BY <1>12 DEF AddJob, AddTaggedJob, AddTag, SetUpMachine
  <2>2. next_jid' = next_jid + 1 /\ UNCHANGED tags /\ listener'.jids = listener.jids
    BY <1>1, <2>1 DEF Allocate, Listener
  <2> QED
    BY <1>1, <1>2, <2>2
<1>13. ASSUME NEW spec, NEW n, AddMatrix(spec, n) PROVE Goal
  BY <1>1, <1>2, <1>13 DEF AddMatrix
<1>14. MatrixAllocate => Goal
  <2>1. MatrixAllocate => /\ next_jid' = next_jid + 1 /\ UNCHANGED tags
                          /\ listener'.jids = listener.jids \cup {next_jid}
    BY <1>1 DEF MatrixAllocate, Listener
  <2> QED
    BY <1>1, <1>2, <1>3, <2>1
<1>15. InsertTask \/ InsertLive \/ PublishMatrix => Goal
  <2>1. InsertTask \/ InsertLive \/ PublishMatrix =>
           UNCHANGED <<next_jid, tags>> /\ listener'.jids \subseteq listener.jids
    <3>1. /\ [listener EXCEPT !.at = "insert_live"].jids = listener.jids
          /\ [listener EXCEPT !.at = "matrix", !.jid = None].jids = listener.jids
      BY <1>1 DEF Listener
    <3>2. IdleListener.jids = {}
      BY DEF IdleListener
    <3> QED
      BY <3>1, <3>2 DEF InsertTask, InsertLive, PublishMatrix
  <2> QED
    BY <1>1, <1>2, <2>1
<1>16. InsertTagged \/ InsertTag => Goal
  <2>1. InsertTagged \/ InsertTag =>
           next_jid' = next_jid /\ listener'.jids = {} /\ listener.jid \in Issued
    BY DEF InsertTagged, InsertTag, IdleListener, Resume, Typing, ListenerTyped
  <2>2. InsertTagged => /\ DOMAIN tags' = DOMAIN tags
                        /\ \A g \in DOMAIN tags : tags'[g] \subseteq tags[g] \cup {listener.jid}
    BY Types DEF InsertTagged, IsMap
  <2>3. InsertTag => /\ DOMAIN tags' = DOMAIN tags \cup {listener.jid}
                     /\ \A g \in DOMAIN tags' :
                           tags'[g] = IF g = listener.jid THEN {} ELSE tags[g]
    BY DEF InsertTag, Put
  <2> QED
    BY <1>1, <1>2, <2>1, <2>2, <2>3
<1> QED
  BY <1>1, <1>5, <1>6, <1>7, <1>8, <1>9, <1>10, <1>11, <1>12, <1>13, <1>14, <1>15, <1>16
     DEF Next, WorkThreadStep, NewRequest, FinishRequest

(* The server goes on referring to what exists.                            *)
LEMMA StepReferenced ==
    Typing /\ Exact /\ Referenced /\ [Next]_vars /\ UNCHANGED cuts => Referenced'
<1> SUFFICES ASSUME Typing, Exact, Referenced, [Next]_vars, UNCHANGED cuts PROVE Referenced'
  OBVIOUS
<1> DEFINE Fine(t) == /\ cuts = {} /\ t.tag # None => t.tag \in DOMAIN tags
                      /\ {t.matrix, t.tag} \subseteq Issued \cup {None}
<1>0. DOMAIN tags \subseteq Issued
  BY Types DEF IsMap
<1>1. \A j \in DOMAIN tasks : Fine(tasks[j])
  BY DEF Referenced, TagsResolve
<1>2. \A t : Fine(t) => /\ cuts = {} /\ t.tag # None => t.tag \in DOMAIN tags'
                        /\ {t.matrix, t.tag} \subseteq Issued' \cup {None}
  <2>1. Issued \subseteq Issued'
    BY IdsForm DEF Issued
  <2> QED
    BY <2>1, IdsForm
<1>3. \A j \in DOMAIN tasks' : Fine(tasks'[j])
  <2>1. CASE UNCHANGED tasks
    BY <1>1, <2>1
  <2>2. CASE Replaced
    <3> DEFINE By(j, t) == /\ tasks' = [tasks EXCEPT ![j] = t]
                           /\ t.matrix = tasks[j].matrix
                           /\ t.tag \in {tasks[j].tag, None} \cup DOMAIN tags
    <3>1. PICK j \in DOMAIN tasks : \E t : By(j, t)
      BY <2>2 DEF Replaced
    <3>2. PICK t : By(j, t)
      BY <3>1
    <3>3. Fine(t)
      BY <1>0, <1>1, <3>2
    <3> HIDE DEF Fine
    <3> QED
      BY <1>1, <3>2, <3>3, Types DEF IsMap
  <2>3. CASE Cloned
    <3> DEFINE Of(j, t) == tasks' = Put(tasks, next_jid, t) /\ RefsResolve(t)
                           /\ t.matrix = tasks[j].matrix
    <3>1. PICK j \in DOMAIN tasks : \E t : Of(j, t)
      BY <2>3 DEF Cloned
    <3>2. PICK t : Of(j, t)
      BY <3>1
    <3>3. Fine(t)
      BY <1>0, <1>1, <3>2 DEF RefsResolve
    <3> HIDE DEF Fine
    <3> QED
      BY <1>1, <3>2, <3>3 DEF Put
  <2>4. CASE Inserted
    <3>1. /\ tasks' = Put(tasks, listener.jid, listener.task)
          /\ listener.at = "insert_tagged" => listener.task.tag \in DOMAIN tags
          /\ listener.at = "insert_task" => listener.task.tag = None
          /\ listener.at \in {"insert_task", "insert_tagged"}
      BY <2>4 DEF Inserted, Inserting, Exact, Single
    <3>2. listener.task.matrix \in Issued \cup {None}
      BY <3>1, Types DEF Exact, Adding, Single, Typing, ListenerTyped
    <3>3. Fine(listener.task)
      BY <1>0, <3>1, <3>2
    <3> HIDE DEF Fine
    <3> QED
      BY <1>1, <3>1, <3>3 DEF Put
  <2>5. CASE Reaped
    <3> HIDE DEF Fine
    <3> QED
      BY <1>1, <2>5 DEF Reaped, Drop
  <2> QED
    BY <2>1, <2>2, <2>3, <2>4, <2>5, StepForm
<1> HIDE DEF Fine
<1>4. /\ TagsResolve'
      /\ \A j \in DOMAIN tasks' : {tasks'[j].matrix, tasks'[j].tag} \subseteq Issued' \cup {None}
  BY <1>2, <1>3 DEF TagsResolve
<1> QED
  BY <1>4, IdsForm DEF Referenced

-----------------------------------------------------------------------------
(* The copy in the making.  A step of take_snapshot copies one map.        *)
CopiedTasks == [j \in DOMAIN tasks |-> SnapshotTask(tasks[j])]

LEMMA SaveMapForm ==
    ASSUME SavingOK, SaveMap
    PROVE  /\ IsCopy(saving') /\ saving.next \in 1..4 /\ saving'.next = saving.next + 1
           /\ saving'.machines = IF saving.next = 1 THEN machines ELSE saving.machines
           /\ saving'.tasks = IF saving.next = 2 THEN CopiedTasks ELSE saving.tasks
           /\ saving'.matrices = IF saving.next = 3 THEN matrices ELSE saving.matrices
           /\ saving'.tags = IF saving.next = 4 THEN tags ELSE saving.tags
<1>1. IsCopy(saving) /\ saving.next \in 1..4
  BY DEF SavingOK, SaveMap, Parts
<1>2. CASE saving.next = 1
  <2>1. saving' = [saving EXCEPT !.next = @ + 1, !["machines"] = machines]
    BY <1>2 DEF SaveMap, Parts
  <2>2. /\ IsCopy(saving') /\ saving'.next = saving.next + 1 /\ saving'.machines = machines
        /\ saving'.tasks = saving.tasks /\ saving'.matrices = saving.matrices /\ saving'.tags = saving.tags
    BY <1>1, <2>1 DEF IsCopy
  <2> QED
    BY <1>1, <1>2, <2>2
<1>3. CASE saving.next = 2
  <2>1. saving' = [saving EXCEPT !.next = @ + 1, !["tasks"] = CopiedTasks]
    BY <1>3 DEF SaveMap, Parts, CopiedTasks
  <2>2. /\ IsCopy(saving') /\ saving'.next = saving.next + 1 /\ saving'.tasks = CopiedTasks
        /\ saving'.machines = saving.machines /\ saving'.matrices = saving.matrices /\ saving'.tags = saving.tags
    BY <1>1, <2>1 DEF IsCopy
  <2> QED
    BY <1>1, <1>3, <2>2
<1>4. CASE saving.next = 3
  <2>1. saving' = [saving EXCEPT !.next = @ + 1, !["matrices"] = matrices]
    BY <1>4 DEF SaveMap, Parts
  <2>2. /\ IsCopy(saving') /\ saving'.next = saving.next + 1 /\ saving'.matrices = matrices
        /\ saving'.machines = saving.machines /\ saving'.tasks = saving.tasks /\ saving'.tags = saving.tags
    BY <1>1, <2>1 DEF IsCopy
  <2> QED
    BY <1>1, <1>4, <2>2
<1>5. CASE saving.next = 4
  <2>1. saving' = [saving EXCEPT !.next = @ + 1, !["tags"] = tags]
    BY <1>5 DEF SaveMap, Parts
  <2>2. /\ IsCopy(saving') /\ saving'.next = saving.next + 1 /\ saving'.tags = tags
        /\ saving'.machines = saving.machines /\ saving'.tasks = saving.tasks /\ saving'.matrices = saving.matrices
    BY <1>1, <2>1 DEF IsCopy
  <2> QED
    BY <1>1, <1>5, <2>2
<1> QED
  BY <1>1, <1>2, <1>3, <1>4, <1>5

-----------------------------------------------------------------------------
(* The server. *)
ServerOK == Typing /\ Safe /\ Kept /\ Exact /\ Referenced

(* A snapshot stays good while ids are handed out.                         *)
LEMMA SnapshotWider ==
    ASSUME NEW n \in Nat, NEW k \in Nat, n <= k, NEW s, Snapshot(s, n)
    PROVE  Snapshot(s, k)
<1>1. Below(n) \subseteq Below(k)
  BY WiderIds DEF Below
<1>2. SavedTask(n) \subseteq SavedTask(k)
  BY <1>1 DEF SavedTask
<1>3. IsMap(s.tasks, Below(k), SavedTask(k))
  BY <1>1, <1>2 DEF Snapshot, IsMap
<1>4. IsMap(s.matrices, Below(k), SUBSET Below(k)) /\ IsMap(s.tags, Below(k), SUBSET Below(k))
  BY <1>1 DEF Snapshot, IsMap
<1> QED
  BY <1>3, <1>4 DEF Snapshot

(* What is copied of a task can be restored.                               *)
LEMMA SnapshotTaskType ==
    ASSUME Typing, Safe, Referenced, NEW j \in DOMAIN tasks
    PROVE  /\ SnapshotTask(tasks[j]) \in SavedTask(next_jid)
           /\ SnapshotTask(tasks[j]).matrix = tasks[j].matrix
           /\ SnapshotTask(tasks[j]).tag = tasks[j].tag
           /\ SnapshotTask(tasks[j]).results = tasks[j].results
<1> DEFINE t == SnapshotTask(tasks[j])
<1>1. tasks[j] \in Task
  BY Types DEF IsMap
<1>2. /\ t \in Task /\ t.state = IF tasks[j].state = "Error" THEN "ErrorDone" ELSE tasks[j].state
      /\ t.job = tasks[j].job /\ t.attempt = tasks[j].attempt /\ t.matrix = tasks[j].matrix
      /\ t.machine = tasks[j].machine /\ t.timedout = tasks[j].timedout
      /\ t.tag = tasks[j].tag /\ t.results = tasks[j].results
  BY <1>1 DEF Task, SnapshotTask, TaskState, Holding, Terminal
<1>3. HasMachine(tasks[j]) /\ {tasks[j].matrix, tasks[j].tag} \subseteq Below(next_jid) \cup {None}
  BY DEF Typing, Placed, Referenced, Below, Issued
<1> HIDE DEF t
<1>4. HasMachine(t) /\ t.state # "Error"
  BY <1>2, <1>3 DEF HasMachine, Holding
<1> QED
  BY <1>2, <1>3, <1>4 DEF SavedTask, Safe, RetryBound, t

(* ... and what is restored of it is no longer at work.                    *)
LEMMA RestoredTask ==
    ASSUME NEW n \in Nat, NEW t \in SavedTask(n)
    PROVE  /\ ToTask(t) \in Task /\ HasMachine(ToTask(t))
           /\ ToTask(t).state \notin Holding /\ ToTask(t).state = RestoredState(t)
           /\ ToTask(t).matrix = t.matrix /\ ToTask(t).tag = t.tag
           /\ ToTask(t).job = t.job /\ ToTask(t).attempt = t.attempt
<1>1. t \in Task /\ HasMachine(t) /\ t.state # "Error" /\ t.state \in TaskState
  BY DEF SavedTask, Task
<1>2. /\ RestoredState(t) \in TaskState \ Holding
      /\ RestoredState(t) \in {"Done", "DoneWithResults", "ErrorDone"}
           => t.state \in Holding \cup {"Done", "DoneWithResults", "ErrorDone"}
  BY <1>1 DEF RestoredState, TaskState, Holding, Terminal, Task
<1>3. /\ ToTask(t) \in Task /\ ToTask(t).state = RestoredState(t)
      /\ ToTask(t).machine = t.machine /\ ToTask(t).timedout = t.timedout
      /\ ToTask(t).matrix = t.matrix /\ ToTask(t).tag = t.tag
      /\ ToTask(t).job = t.job /\ ToTask(t).attempt = t.attempt
  BY <1>1, <1>2 DEF ToTask, Task
<1>4. HasMachine(ToTask(t))
  BY <1>1, <1>2, <1>3 DEF HasMachine
<1> QED
  BY <1>2, <1>3, <1>4

(* The server starts again: every task is live, and nothing is running.    *)
LEMMA RestartOK ==
    ASSUME Typing, Restart, FileOK', IdsKept'
    PROVE  ServerOK'
<1> DEFINE n == file'.next_jid
<1>1. /\ n \in Nat /\ next_jid' = n /\ Issued' = Below(n)
      /\ IsMap(file'.machines, Machines, MachineStatus)
      /\ IsMap(file'.tasks, Below(n), SavedTask(n))
      /\ IsMap(file'.matrices, Below(n), SUBSET Below(n))
      /\ IsMap(file'.tags, Below(n), SUBSET Below(n))
      /\ Listed(file'.matrices, file'.tasks)
      /\ cuts' = {} => Resolved(file'.tasks, file'.tags)
  <2>1. file'.kind # "no_jid" /\ (cuts' = {} => file'.kind # "no_tags")
    BY DEF Restart, IdsKept
  <2> QED
    BY <2>1 DEF FileOK, FileGood, Snapshot, Restart, Load, Issued, Below
<1>2. /\ machines' = [m \in DOMAIN file'.machines |-> RestoredMachine(file'.machines[m])]
      /\ tasks' = [j \in DOMAIN file'.tasks |-> ToTask(file'.tasks[j])]
      /\ live_tasks' = DOMAIN file'.tasks
      /\ matrices' = [m \in DOMAIN file'.matrices |-> file'.matrices[m] \cap DOMAIN file'.tasks]
      /\ tags' = file'.tags
  BY DEF Restart, Load, RestoredLive, RestoredMembers
<1>3. /\ worker' = InitWorker /\ listener' = IdleListener /\ handles' = EmptyMap
      /\ copying' = {} /\ copying_flags' = EmptyMap /\ immediate' = {} /\ panicked' = FALSE
      /\ UNCHANGED <<requests, faults>>
  BY DEF Restart
<1>4. /\ worker'.at = "idle" /\ worker'.todo = {} /\ worker'.to_remove = {}
      /\ worker'.to_clone = {} /\ worker' \in Worker
  BY <1>3 DEF InitWorker, Worker
<1>5. /\ listener'.at = "idle" /\ listener'.matrix = None /\ listener'.jids = {}
      /\ listener' \in Listener
  BY <1>3 DEF IdleListener, Listener
<1>6. \A j \in DOMAIN tasks' :
         /\ tasks'[j] \in Task /\ HasMachine(tasks'[j]) /\ tasks'[j].state \notin Holding
         /\ tasks'[j].matrix = file'.tasks[j].matrix /\ tasks'[j].tag = file'.tasks[j].tag
         /\ tasks'[j].job = file'.tasks[j].job /\ tasks'[j].attempt = file'.tasks[j].attempt
         /\ file'.tasks[j] \in SavedTask(n)
  BY <1>1, <1>2, RestoredTask DEF IsMap
<1>7. \A m \in DOMAIN machines' : machines'[m] \in MachineStatus /\ machines'[m].running = None
  <2>1. ASSUME NEW s \in MachineStatus
        PROVE  RestoredMachine(s) \in MachineStatus /\ RestoredMachine(s).running = None
    <3>1. 0 \in 0..MachineFailures
      BY BoundAssumption
    <3> QED
      BY <3>1 DEF RestoredMachine, MachineStatus
  <2> QED
    BY <1>1, <1>2, <2>1 DEF IsMap
<1> HIDE DEF n
<1>8. Typing'
  <2>1. IsMap(machines', Machines, MachineStatus) /\ IsMap(tasks', Issued', Task)
    BY <1>1, <1>2, <1>6, <1>7 DEF IsMap
  <2>2. IsMap(matrices', Issued', SUBSET Nat) /\ IsMap(tags', Issued', SUBSET Nat)
    <3>1. Below(n) \subseteq Nat
      BY <1>1 DEF Below
    <3> QED
      BY <1>1, <1>2, <3>1 DEF IsMap
  <2>3. IsMap(handles', Issued', ExitStatus) /\ IsMap(copying_flags', Issued', CopierThreadResult)
    BY <1>3 DEF IsMap, EmptyMap
  <2>4. requests' \in 0..MaxRequests /\ faults' \in 0..MaxFaults
    BY <1>3, Types
  <2>5. TypeOK'
    BY <1>1, <1>2, <1>3, <1>4, <1>5, <2>1, <2>2, <2>3, <2>4 DEF TypeOK, IsMap, Issued
  <2>6. ListenerTyped' /\ WorkerTyped'
    BY <1>4, <1>5 DEF ListenerTyped, WorkerTyped
  <2> QED
    BY <1>6, <2>5, <2>6 DEF Typing, Placed
<1>9. Safe'
  <2>1. DOMAIN handles' = {}
    BY <1>3 DEF EmptyMap
  <2>2. LiveCoversActive' /\ TodoLive' /\ HandlesOfTasks' /\ ListenerFresh' /\ ClonesAllowed'
    BY <1>2, <1>4, <1>5, <2>1
       DEF LiveCoversActive, TodoLive, HandlesOfTasks, ListenerFresh, ClonesAllowed
  <2>3. RunningIffProcess' /\ NoLostCopy'
    BY <1>6, <2>1 DEF RunningIffProcess, NoLostCopy, Holding
  <2>4. RetryBound'
    BY <1>6 DEF RetryBound, SavedTask
  <2> QED
    BY <2>2, <2>3, <2>4 DEF Safe
<1>10. Kept'
  BY <1>4, <1>7 DEF Kept, NoLeakedMachine, RemovedAreCanceled
<1>11. Exact'
  <2>1. Members'
    <3> SUFFICES ASSUME NEW m \in DOMAIN matrices', NEW k \in matrices'[m]
                 PROVE  k \in DOMAIN tasks' /\ tasks'[k].matrix = m
      BY DEF Members
    <3>1. m \in DOMAIN file'.matrices /\ k \in file'.matrices[m] \cap DOMAIN file'.tasks
      BY <1>2
    <3> QED
      BY <1>1, <1>2, <1>6, <3>1 DEF Listed
  <2> QED
    BY <1>5, <2>1 DEF Exact, Adding, Single
<1>12. Referenced'
  <2>1. TagsResolve'
    BY <1>1, <1>2, <1>6 DEF TagsResolve, Resolved
  <2>2. \A j \in DOMAIN tasks' : {tasks'[j].matrix, tasks'[j].tag} \subseteq Issued' \cup {None}
    BY <1>1, <1>6 DEF SavedTask
  <2>3. \A g \in DOMAIN tags' : tags'[g] \subseteq Issued'
    BY <1>1, <1>2 DEF IsMap
  <2> QED
    BY <1>5, <2>1, <2>2, <2>3 DEF Referenced
<1> QED
  BY <1>8, <1>9, <1>10, <1>11, <1>12 DEF ServerOK

(* A step of the server keeps all of it.                                   *)
LEMMA ServerStepOK == ServerOK /\ [Next]_vars /\ UNCHANGED cuts => ServerOK'
  BY StepTyping, StepSafe, StepKept, StepGroups, StepReferenced DEF ServerOK, KeepsGroups

(* So does a snapshot that cannot be written.                              *)
LEMMA WriteFailsOK == ASSUME ServerOK, WriteFails PROVE ServerOK'
<1>1. /\ UNCHANGED <<machines, tasks, live_tasks, matrices, tags, next_jid, immediate, handles,
                     copying, copying_flags, worker, listener, requests, panicked, cuts>>
      /\ faults' \in 0..MaxFaults
  BY FaultType DEF WriteFails, Leave, shared, ServerOK
<1>2. Typing'
  BY <1>1 DEF ServerOK, Typing, TypeOK, ListenerTyped, WorkerTyped, Placed, Issued
<1>3. Safe'
  BY <1>1 DEF ServerOK, Safe, LiveCoversActive, RunningIffProcess, RetryBound, NoLostCopy,
     TodoLive, HandlesOfTasks, ListenerFresh, ClonesAllowed
<1>4. Kept' /\ Exact'
  BY <1>1 DEF ServerOK, Kept, NoLeakedMachine, RemovedAreCanceled, Exact, Members, Adding, Single
<1>5. Referenced'
  BY <1>1 DEF ServerOK, Referenced, TagsResolve, Issued
<1> QED
  BY <1>2, <1>3, <1>4, <1>5 DEF ServerOK

-----------------------------------------------------------------------------
(* The copy in the making.  What the last map to be copied adds to it.     *)
LEMMA CopiedTasksOK ==
    ASSUME ServerOK
    PROVE  /\ IsMap(CopiedTasks, Below(next_jid), SavedTask(next_jid))
           /\ cuts = {} => Resolved(CopiedTasks, tags)
           /\ DOMAIN CopiedTasks = DOMAIN tasks
           /\ \A j \in DOMAIN tasks : /\ CopiedTasks[j] = SnapshotTask(tasks[j])
                                      /\ CopiedTasks[j].matrix = tasks[j].matrix
<1>1. DOMAIN CopiedTasks = DOMAIN tasks /\ DOMAIN tasks \subseteq Below(next_jid)
  BY Types DEF CopiedTasks, ServerOK, IsMap, Issued, Below
<1>2. \A j \in DOMAIN tasks : /\ CopiedTasks[j] = SnapshotTask(tasks[j])
                              /\ CopiedTasks[j] \in SavedTask(next_jid)
                              /\ CopiedTasks[j].matrix = tasks[j].matrix
                              /\ CopiedTasks[j].tag = tasks[j].tag
  BY SnapshotTaskType DEF CopiedTasks, ServerOK
<1>3. CopiedTasks = [j \in DOMAIN CopiedTasks |-> CopiedTasks[j]]
  BY DEF CopiedTasks
<1>4. cuts = {} => Resolved(CopiedTasks, tags)
  BY <1>1, <1>2 DEF Resolved, ServerOK, Referenced, TagsResolve
<1> QED
  BY <1>1, <1>2, <1>3, <1>4 DEF IsMap

(* Copying a map keeps the parts of the copy together.                     *)
LEMMA SaveMapOK == ASSUME ServerOK, SavingOK, SaveMap PROVE SavingOK'
<1>1. /\ UNCHANGED <<tasks, tags, next_jid, worker, listener, cuts>> /\ worker.at = "idle"
      /\ IsCopy(saving') /\ saving.next \in 1..4 /\ saving'.next = saving.next + 1
      /\ saving'.machines = IF saving.next = 1 THEN machines ELSE saving.machines
      /\ saving'.tasks = IF saving.next = 2 THEN CopiedTasks ELSE saving.tasks
      /\ saving'.matrices = IF saving.next = 3 THEN matrices ELSE saving.matrices
      /\ saving'.tags = IF saving.next = 4 THEN tags ELSE saving.tags
  BY SaveMapForm DEF SaveMap, Saving, vars, shared
<1>2. /\ Snapshot(saving, next_jid)
      /\ cuts = {} /\ saving.next \in {3, 4} => Resolved(saving.tasks, tags)
      /\ saving.next = 3 => \A j \in DOMAIN saving.tasks \cap DOMAIN tasks :
                               saving.tasks[j].matrix = tasks[j].matrix
      /\ saving.next >= 4 => Listed(saving.matrices, saving.tasks)
  BY DEF SavingOK
<1>3. Snapshot(saving', next_jid)
  <2>1. IsMap(machines, Machines, MachineStatus) /\ IsMap(CopiedTasks, Below(next_jid), SavedTask(next_jid))
    BY Types, CopiedTasksOK DEF ServerOK
  <2>2. IsMap(matrices, Below(next_jid), SUBSET Below(next_jid))
    <3>1. DOMAIN tasks \subseteq Below(next_jid)
      BY Types DEF ServerOK, IsMap, Issued, Below
    <3> QED
      BY <3>1, Types DEF ServerOK, Exact, Members, IsMap, Issued, Below
  <2>3. IsMap(tags, Below(next_jid), SUBSET Below(next_jid))
    BY Types DEF ServerOK, Referenced, IsMap, Issued, Below
  <2> QED
    BY <1>1, <1>2, <2>1, <2>2, <2>3 DEF Snapshot
<1>4. cuts = {} /\ saving'.next \in {3, 4} => Resolved(saving'.tasks, tags)
  BY <1>1, <1>2, CopiedTasksOK
<1>5. cuts = {} /\ saving'.next \in {5, 6} => Resolved(saving'.tasks, saving'.tags)
  BY <1>1, <1>2
<1>6. saving'.next = 3 =>
         /\ \A j \in DOMAIN saving'.tasks \cap DOMAIN tasks : saving'.tasks[j].matrix = tasks[j].matrix
         /\ Inserting => listener.jid \notin DOMAIN saving'.tasks
  BY <1>1, CopiedTasksOK DEF ServerOK, Safe, ListenerFresh, Inserting
<1>7. saving'.next >= 4 => Listed(saving'.matrices, saving'.tasks)
  <2>1. CASE saving.next = 3
    <3>1. saving'.matrices = matrices /\ saving'.tasks = saving.tasks
      BY <1>1, <2>1
    <3>2. Listed(matrices, saving.tasks)
      BY <1>2, <2>1 DEF Listed, ServerOK, Exact, Members
    <3> QED
      BY <3>1, <3>2
  <2> QED
    BY <1>1, <1>2, <2>1
<1>8. saving'.next \in 1..6
  BY <1>1
<1> QED
  BY <1>1, <1>3, <1>4, <1>5, <1>6, <1>7, <1>8 DEF SavingOK, Inserting

(* A step of a thread while the copy stands still: only requests and the   *)
(* environment move between the copying of two maps.                       *)
Serving == NewRequest \/ FinishRequest \/ \E j \in DOMAIN handles \cup copying : Environment(j)

(* What such a step leaves alone.                                          *)
LEMMA ServingKeeps ==
    ASSUME Typing, Serving
    PROVE  /\ UNCHANGED worker
           /\ Inserting' => UNCHANGED listener \/ listener'.jid = next_jid
<1>1. ASSUME NEW j, Environment(j) PROVE UNCHANGED <<worker, listener>>
  BY <1>1 DEF Environment, ProcessExits, CopierReports
<1> QED
  BY <1>1, ListenerCopies DEF Serving, Unaffected, Inserting

(* The parts of the copy stay together while the server goes on.           *)
LEMMA ServingSavingOK ==
    ASSUME ServerOK, SavingOK, [Next]_vars, UNCHANGED <<saving, cuts>>,
           worker'.at # "idle" => worker.at # "idle",
           worker.at = "idle" => Serving \/ UNCHANGED vars
    PROVE  SavingOK'
<1>1. /\ next_jid \in Nat /\ next_jid' \in {next_jid, next_jid + 1}
      /\ DOMAIN tags \subseteq DOMAIN tags'
  BY IdsForm DEF ServerOK
<1>2. Snapshot(saving', next_jid')
  <2>1. next_jid' \in Nat /\ next_jid <= next_jid'
    BY <1>1
  <2> QED
    BY <1>1, <2>1, SnapshotWider DEF SavingOK
<1>3. /\ cuts = {} /\ saving'.next \in {3, 4} => Resolved(saving'.tasks, tags')
      /\ cuts = {} /\ saving'.next \in {5, 6} => Resolved(saving'.tasks, saving'.tags)
      /\ saving'.next >= 4 => Listed(saving'.matrices, saving'.tasks)
  BY <1>1 DEF SavingOK, Resolved
<1>4. ASSUME saving.next = 3
      PROVE  /\ \A j \in DOMAIN saving.tasks \cap DOMAIN tasks' :
                   saving.tasks[j].matrix = tasks'[j].matrix
             /\ Inserting' => listener'.jid \notin DOMAIN saving.tasks
  <2>1. /\ \A j \in DOMAIN saving.tasks \cap DOMAIN tasks : saving.tasks[j].matrix = tasks[j].matrix
        /\ Inserting => listener.jid \notin DOMAIN saving.tasks
        /\ next_jid \notin DOMAIN saving.tasks /\ worker.at = "idle"
    <3>1. DOMAIN saving.tasks \subseteq Below(next_jid) /\ next_jid \notin Below(next_jid)
      BY <1>1 DEF SavingOK, Snapshot, IsMap, Below
    <3> QED
      BY <1>4, <3>1 DEF SavingOK
  <2>2. Inserting' => UNCHANGED listener \/ listener'.jid = next_jid
    BY <2>1, ServingKeeps DEF ServerOK, vars, Inserting
  <2>3. Inserting' => listener'.jid \notin DOMAIN saving.tasks
    BY <2>1, <2>2 DEF Inserting
  <2>4. ASSUME NEW j \in DOMAIN saving.tasks \cap DOMAIN tasks'
        PROVE  saving.tasks[j].matrix = tasks'[j].matrix
    <3>1. CASE UNCHANGED tasks
      BY <2>1, <3>1
    <3>2. CASE Replaced
      <4> DEFINE By(k, t) == tasks' = [tasks EXCEPT ![k] = t] /\ t.matrix = tasks[k].matrix
      <4>1. PICK k \in DOMAIN tasks : \E t : By(k, t)
        BY <3>2 DEF Replaced
      <4>2. PICK t : By(k, t)
        BY <4>1
      <4> QED
        BY <2>1, <4>2
    <3>3. CASE Cloned
      <4>1. PICK t : tasks' = Put(tasks, next_jid, t)
        BY <3>3 DEF Cloned
      <4> QED
        BY <2>1, <4>1 DEF Put
    <3>4. CASE Inserted
      BY <2>1, <3>4 DEF Inserted, Put
    <3>5. CASE Reaped
      BY <2>1, <3>5 DEF Reaped, Drop
    <3> QED
      BY <3>1, <3>2, <3>3, <3>4, <3>5, StepForm DEF ServerOK
  <2> QED
    BY <2>3, <2>4
<1> QED
  BY <1>2, <1>3, <1>4 DEF SavingOK

(* The next snapshot starts from nothing.                                  *)
LEMMA InitSavingOK == ASSUME saving' = InitSaving PROVE SavingOK'
<1>1. /\ saving'.next = 1 /\ saving'.machines = EmptyMap /\ saving'.tasks = EmptyMap
      /\ saving'.matrices = EmptyMap /\ saving'.tags = EmptyMap /\ IsCopy(saving')
  BY DEF InitSaving, IsCopy
<1>2. Snapshot(saving', next_jid')
  BY <1>1 DEF Snapshot, IsMap, EmptyMap
<1> QED
  BY <1>1, <1>2 DEF SavingOK

(* Writing the file, or failing to, only moves on.                         *)
LEMMA LeaveSavingOK ==
    ASSUME SavingOK, saving.next = 5, saving' = [saving EXCEPT !.next = @ + 1],
           UNCHANGED <<next_jid, worker, cuts>>
    PROVE  SavingOK'
<1>1. /\ saving'.next = 6 /\ saving'.machines = saving.machines /\ saving'.tasks = saving.tasks
      /\ saving'.matrices = saving.matrices /\ saving'.tags = saving.tags /\ IsCopy(saving')
  BY DEF SavingOK, IsCopy
<1>2. worker.at = "idle"
  BY DEF SavingOK
<1> QED
  BY <1>1, <1>2 DEF SavingOK, Snapshot

-----------------------------------------------------------------------------
(* The file.  Nothing but machines is as good as a whole file.             *)
LEMMA NothingIsGood ==
    ASSUME NEW f, IsMap(f.machines, Machines, MachineStatus), f.tasks = EmptyMap,
           f.matrices = EmptyMap, f.tags = EmptyMap, f.next_jid = 0
    PROVE  FileGood(f)
  BY DEF FileGood, Snapshot, IsMap, EmptyMap, Resolved, Listed

(* What can be read of a file that was cut is good, too, or lacks next_jid *)
(* (CutFiles).                                                             *)
LEMMA CutIsGood ==
    ASSUME ServerOK, SavingOK, Copied, NEW f \in HalfWritten
    PROVE  FileGood(f) /\ f.kind \in {"torn", "no_jid", "no_tags"}
<1>1. /\ Snapshot(saving, next_jid) /\ Listed(saving.matrices, saving.tasks)
      /\ next_jid \in Nat
  <2>1. saving.next = 5
    BY DEF Copied, Parts
  <2> QED
    BY <2>1, Types DEF SavingOK, ServerOK
<1>2. ASSUME NEW g, NEW A, NEW B, NEW S, IsMap(g, A, B) PROVE IsMap(Drop(g, S), A, B)
  BY <1>2 DEF IsMap, Drop
<1>3. CASE f = Unreadable("torn")
  <2>1. /\ f.kind = "torn" /\ f.machines = EmptyMap /\ f.tasks = EmptyMap
        /\ f.matrices = EmptyMap /\ f.tags = EmptyMap /\ f.next_jid = 0
    BY <1>3 DEF Unreadable
  <2>2. IsMap(f.machines, Machines, MachineStatus)
    BY <2>1 DEF IsMap, EmptyMap
  <2> QED
    BY <2>1, <2>2, NothingIsGood
<1>4. ASSUME NEW S, f = [Unreadable("torn") EXCEPT !.machines = Drop(saving.machines, S)]
      PROVE  FileGood(f) /\ f.kind = "torn"
  <2>1. /\ f.kind = "torn" /\ f.machines = Drop(saving.machines, S) /\ f.tasks = EmptyMap
        /\ f.matrices = EmptyMap /\ f.tags = EmptyMap /\ f.next_jid = 0
    BY <1>4 DEF Unreadable
  <2>2. IsMap(f.machines, Machines, MachineStatus)
    BY <1>1, <1>2, <2>1 DEF Snapshot
  <2> QED
    BY <2>1, <2>2, NothingIsGood
<1>5. ASSUME NEW ms, NEW ts, NEW xs,
             f = [Unreadable("no_jid") EXCEPT !.machines = ms, !.tasks = ts, !.matrices = xs]
      PROVE  FileGood(f) /\ f.kind = "no_jid"
  <2>1. f.kind = "no_jid"
    BY <1>5 DEF Unreadable
  <2> QED
    BY <2>1 DEF FileGood
<1>6. ASSUME NEW S, f = [Written EXCEPT !.kind = "no_tags", !.tags = Drop(saving.tags, S)]
      PROVE  FileGood(f) /\ f.kind = "no_tags"
  <2>1. /\ f.kind = "no_tags" /\ f.machines = saving.machines /\ f.tasks = saving.tasks
        /\ f.matrices = saving.matrices /\ f.tags = Drop(saving.tags, S)
        /\ f.next_jid = next_jid
    BY <1>6 DEF Written, SavedNextJid
  <2>2. Snapshot(f, f.next_jid)
    BY <1>1, <1>2, <2>1 DEF Snapshot
  <2> QED
    BY <1>1, <2>1, <2>2 DEF FileGood
<1>7. f = Unreadable("torn") \/ f \in CutFiles(Written)
  BY DEF HalfWritten
<1>8. /\ Written.machines = saving.machines /\ Written.tasks = saving.tasks
      /\ Written.matrices = saving.matrices /\ Written.tags = saving.tags
  BY DEF Written
<1> DEFINE NoIds(ms)      == [Unreadable("torn") EXCEPT !.machines = ms]
           NoNext(ts, xs) == [Unreadable("no_jid") EXCEPT
                                !.machines = Written.machines, !.tasks = ts, !.matrices = xs]
           NoTags(gs)     == [Written EXCEPT !.kind = "no_tags", !.tags = gs]
           SomeOf(g)      == {Drop(g, S) : S \in SUBSET DOMAIN g}
<1>9. f \in CutFiles(Written) =>
         \/ f \in {NoIds(ms) : ms \in SomeOf(Written.machines)}
         \/ f \in {NoNext(ts, EmptyMap) : ts \in SomeOf(Written.tasks) \ {EmptyMap}}
         \/ f \in {NoNext(Written.tasks, xs) : xs \in SomeOf(Written.matrices) \ {EmptyMap}}
         \/ f \in {NoTags(gs) : gs \in SomeOf(Written.tags) \ {Written.tags}}
  BY DEF CutFiles
<1> HIDE DEF NoIds, NoNext, NoTags
<1>10. CASE f \in {NoIds(ms) : ms \in SomeOf(Written.machines)}
  <2>1. PICK S : f = NoIds(Drop(saving.machines, S))
    BY <1>8, <1>10
  <2> QED
    BY <1>4, <2>1 DEF NoIds
<1>11. ASSUME NEW ts, NEW xs, f = NoNext(ts, xs)
       PROVE  FileGood(f) /\ f.kind = "no_jid"
  BY <1>5, <1>11 DEF NoNext
<1>12. CASE f \in {NoTags(gs) : gs \in SomeOf(Written.tags) \ {Written.tags}}
  <2>1. PICK S : f = NoTags(Drop(saving.tags, S))
    BY <1>8, <1>12
  <2> QED
    BY <1>6, <2>1 DEF NoTags
<1> QED
  BY <1>3, <1>7, <1>9, <1>10, <1>11, <1>12

(* Whether the writing succeeds or not, the file is good.                  *)
LEMMA WriteFileOK ==
    ASSUME ServerOK, SavingOK, Copied, FileOK, NEW f \in {file, Written} \cup HalfWritten
    PROVE  FileGood(f)
<1>1. CASE f = Written
  <2>1. /\ f.machines = saving.machines /\ f.tasks = saving.tasks
        /\ f.matrices = saving.matrices /\ f.tags = saving.tags /\ f.next_jid = next_jid
    BY <1>1 DEF Written, SavedNextJid
  <2>2. saving.next = 5
    BY DEF Copied, Parts
  <2> QED
    BY <2>1, <2>2, Types DEF SavingOK, FileGood, Snapshot, ServerOK
<1> QED
  BY <1>1, CutIsGood DEF FileOK

(* A file goes on being good when the server starts from it.               *)
LEMMA FileStays ==
    ASSUME FileGood(file'), cuts' = {} => cuts = {}
    PROVE  FileOK'
  BY DEF FileOK, FileGood

(* What holds of the server, of the copy and of the file, as long as the   *)
(* server was never started from a file without next_jid.                  *)
Recoverable == IdsKept => ServerOK /\ SavingOK /\ FileOK

(* Once the ids were taken back, they stay so; and a file that does it is  *)
(* not one that Recoverable is about.                                      *)
LEMMA CutsGrow ==
    ASSUME [RecoveryNext]_recoveryVars
    PROVE  /\ cuts \subseteq cuts' /\ (IdsKept' => IdsKept)
           /\ ~Restart => UNCHANGED cuts
<1>1. Restart => cuts \subseteq cuts'
  BY DEF Restart
<1>2. ~Restart => UNCHANGED cuts
  BY DEF RecoveryNext, recoveryVars, SaveMap, Write, WriteFails, Leave, AfterSnapshot
<1> QED
  BY <1>1, <1>2 DEF IdsKept

(* At first there is nothing to recover.                                   *)
LEMMA InitRecoverable == RecoveryInit => Recoverable
<1> SUFFICES ASSUME RecoveryInit PROVE Recoverable
  OBVIOUS
<1>1. Init /\ saving = InitSaving /\ file = Unreadable("none") /\ cuts = {}
  BY DEF RecoveryInit
<1>2. Typing /\ Safe /\ Kept /\ Exact
  BY <1>1, InitTyping, InitSafe, InitKept, InitGrouped DEF Grouped
<1>3. Referenced
  <2>1. tasks = EmptyMap /\ tags = EmptyMap /\ listener.jids = {}
    BY <1>1 DEF Init, IdleListener
  <2> QED
    BY <2>1 DEF Referenced, TagsResolve, EmptyMap
<1>4. SavingOK
  <2>1. /\ saving.next = 1 /\ saving.machines = EmptyMap /\ saving.tasks = EmptyMap
        /\ saving.matrices = EmptyMap /\ saving.tags = EmptyMap /\ IsCopy(saving)
    BY <1>1 DEF InitSaving, IsCopy
  <2>2. Snapshot(saving, next_jid)
    BY <2>1 DEF Snapshot, IsMap, EmptyMap
  <2> QED
    BY <2>1, <2>2 DEF SavingOK
<1>5. FileOK
  <2>1. /\ file.machines = EmptyMap /\ file.tasks = EmptyMap /\ file.matrices = EmptyMap
        /\ file.tags = EmptyMap /\ file.next_jid = 0
    BY <1>1 DEF Unreadable
  <2>2. IsMap(file.machines, Machines, MachineStatus)
    BY <2>1 DEF IsMap, EmptyMap
  <2> QED
    BY <2>1, <2>2, NothingIsGood DEF FileOK
<1> QED
  BY <1>2, <1>3, <1>4, <1>5 DEF Recoverable, ServerOK

(* Every step keeps it so.                                                 *)
LEMMA StepRecoverable == Recoverable /\ [RecoveryNext]_recoveryVars => Recoverable'
<1> SUFFICES ASSUME ServerOK, SavingOK, FileOK, [RecoveryNext]_recoveryVars, IdsKept'
             PROVE  ServerOK' /\ SavingOK' /\ FileOK'
  BY CutsGrow DEF Recoverable
<1>0. ~Restart => UNCHANGED cuts
  BY CutsGrow
<1>1. CASE SaveMap
  <2>1. UNCHANGED <<vars, file, cuts>>
    BY <1>1 DEF SaveMap
  <2>2. ServerOK'
    BY <2>1, ServerStepOK
  <2>3. FileOK'
    BY <2>1 DEF FileOK, FileGood
  <2> QED
    BY <1>1, <2>2, <2>3, SaveMapOK
<1>2. CASE Write
  <2>1. /\ UNCHANGED <<vars, cuts>> /\ file' = Written /\ Copied
        /\ saving' = [saving EXCEPT !.next = @ + 1] /\ saving.next = 5
    BY <1>2 DEF Write, Leave, Copied, Parts
  <2>2. ServerOK'
    BY <2>1, ServerStepOK
  <2>3. FileOK'
    BY <2>1, WriteFileOK, FileStays
  <2>4. SavingOK'
    BY <2>1, LeaveSavingOK DEF vars, shared
  <2> QED
    BY <2>2, <2>3, <2>4
<1>3. CASE WriteFails
  <2>1. /\ file' \in {file} \cup HalfWritten /\ Copied /\ UNCHANGED <<next_jid, worker, cuts>>
        /\ saving' = [saving EXCEPT !.next = @ + 1] /\ saving.next = 5
    BY <1>3 DEF WriteFails, Leave, Copied, Parts, shared
  <2>2. ServerOK'
    BY <1>3, WriteFailsOK
  <2>3. FileOK'
    BY <2>1, WriteFileOK, FileStays
  <2>4. SavingOK'
    BY <2>1, LeaveSavingOK
  <2> QED
    BY <2>2, <2>3, <2>4
<1>4. CASE AfterSnapshot
  <2>1. ProcessNotifications /\ saving' = InitSaving /\ UNCHANGED <<file, cuts>>
    BY <1>4 DEF AfterSnapshot
  <2>2. ServerOK'
    BY <2>1, ServerStepOK DEF Next, WorkThreadStep
  <2>3. FileOK'
    BY <2>1 DEF FileOK, FileGood
  <2> QED
    BY <2>1, <2>2, <2>3, InitSavingOK
<1>5. CASE Restart
  <2>1. saving' = InitSaving /\ file' \in IF Copied THEN {file} \cup HalfWritten ELSE {file}
    BY <1>5 DEF Restart
  <2>2. FileOK'
    <3>1. FileGood(file')
      BY <2>1, WriteFileOK DEF FileOK
    <3> QED
      BY <3>1, CutsGrow, FileStays
  <2>3. ServerOK'
    BY <1>5, <2>2, RestartOK DEF ServerOK
  <2> QED
    BY <2>1, <2>2, <2>3, InitSavingOK
<1>6. ASSUME UNCHANGED <<saving, file, cuts>>,
             (worker.at # "idle" /\ WorkThreadStep) \/ Serving \/ UNCHANGED vars
      PROVE  ServerOK' /\ SavingOK' /\ FileOK'
  <2>1. [Next]_vars
    BY <1>6 DEF Next, Serving
  <2>2. ServerOK'
    BY <1>6, <2>1, ServerStepOK
  <2>3. FileOK'
    BY <1>6 DEF FileOK, FileGood
  <2>4. worker.at = "idle" => UNCHANGED worker
    BY <1>6, ServingKeeps DEF ServerOK, vars
  <2>5. SavingOK'
    BY <1>6, <2>1, <2>4, ServingSavingOK
  <2> QED
    BY <2>2, <2>3, <2>5
<1>7. CASE UNCHANGED recoveryVars
  BY <1>6, <1>7 DEF recoveryVars
<1> QED
  BY <1>1, <1>2, <1>3, <1>4, <1>5, <1>6, <1>7 DEF RecoveryNext, Serving

(* Recoverable holds throughout: as long as the server is never started    *)
(* from a file that was cut between its tasks and next_jid, and whatever   *)
(* else becomes of its file, what a restart loads is a state like any      *)
(* other that the server can be in.                                        *)
THEOREM RecoverableInvariant == RecoverySpec => []Recoverable
  BY InitRecoverable, StepRecoverable, PTL DEF RecoverySpec

(* No id is handed out twice, not even after a restart from a snapshot     *)
(* that was taken while requests were being served, unless the server was  *)
(* ever started from a file without its next_jid: next_jid is read last    *)
(* (Snapshot::from), and whatever the maps refer to was handed out before. *)
THEOREM IdsStayFresh == RecoverySpec => []FreshIds
<1>1. Recoverable => FreshIds
  <2> SUFFICES ASSUME IdsKept, ServerOK, NEW id \in UsedIds PROVE id < next_jid
    BY DEF Recoverable, FreshIds
  <2>1. DOMAIN tasks \cup DOMAIN matrices \cup DOMAIN tags \cup live_tasks \subseteq Issued
    BY Types DEF ServerOK, IsMap
  <2>2. UNION {matrices[m] : m \in DOMAIN matrices} \subseteq Issued
    BY <2>1 DEF ServerOK, Exact, Members
  <2>3. UNION {tags[t] : t \in DOMAIN tags} \subseteq Issued
    BY DEF ServerOK, Referenced
  <2>4. UNION {{tasks[j].matrix, tasks[j].tag} \ {None} : j \in DOMAIN tasks} \subseteq Issued
    BY DEF ServerOK, Referenced
  <2>5. id \in Issued
    <3> DEFINE A == DOMAIN tasks \cup DOMAIN matrices \cup DOMAIN tags \cup live_tasks
               B == UNION {matrices[m] : m \in DOMAIN matrices}
               C == UNION {tags[t] : t \in DOMAIN tags}
               D == UNION {{tasks[j].matrix, tasks[j].tag} \ {None} : j \in DOMAIN tasks}
    <3>1. UsedIds = A \cup B \cup C \cup D
      BY DEF UsedIds
    <3> HIDE DEF A, B, C, D
    <3>2. A \subseteq Issued /\ B \subseteq Issued /\ C \subseteq Issued /\ D \subseteq Issued
      BY <2>1, <2>2, <2>3, <2>4 DEF A, B, C, D
    <3> QED
      BY <3>1, <3>2
  <2> QED
    BY <2>5, Types DEF ServerOK, Issued
<1> QED
  BY <1>1, RecoverableInvariant, PTL

(* A task names no tag that does not exist, restarts included, unless the  *)
(* server was ever started from a file that was cut before the end of its  *)
(* tags: they are copied after the tasks that name them, and are never     *)
(* removed.                                                                *)
THEOREM TagsAlwaysResolve == RecoverySpec => []TagsResolve
<1>1. Recoverable => TagsResolve
  BY DEF Recoverable, ServerOK, Referenced, TagsResolve, IdsKept
<1> QED
  BY <1>1, RecoverableInvariant, PTL

(* After a restart, too, every task with steps to go is live, no machine   *)
(* is leaked to a task that is gone, and no matrix lists a ghost, unless   *)
(* the server was ever started from a file without its next_jid: what      *)
(* load_snapshot restores of any other file, whole or cut, is a state the  *)
(* server can go on from.                                                  *)
THEOREM RestartsAreSafe ==
    RecoverySpec => [](/\ IdsKept => LiveCoversActive
                       /\ NoLeakAcrossRestarts
                       /\ NoGhostAcrossRestarts)
<1>1. Recoverable => /\ IdsKept => LiveCoversActive
                     /\ NoLeakAcrossRestarts
                     /\ NoGhostAcrossRestarts
  BY DEF Recoverable, ServerOK, Safe, Kept, Exact, Members, MatrixHasNoGhost,
     NoLeakAcrossRestarts, NoGhostAcrossRestarts
<1> QED
  BY <1>1, RecoverableInvariant, PTL

-----------------------------------------------------------------------------
(* What the file says of a task.  Only a drive makes a task settle.        *)
NothingSettles ==
    \A j \in DOMAIN tasks' : tasks'[j].state \in Settled =>
        /\ j \in DOMAIN tasks
        /\ tasks'[j].state = tasks[j].state /\ tasks'[j].results = tasks[j].results

(* An inserted task waits, and a request leaves a settled one as it is.    *)
LEMMA OthersSettleNothing ==
    ASSUME Typing, Safe, Next, ~ \E j \in ToDrive : TryDriveSm(j)
    PROVE  NothingSettles
<1>1. CASE UNCHANGED tasks
  BY <1>1 DEF NothingSettles
<1>2. ASSUME NEW k, NEW t, tasks' = Put(tasks, k, t), t.state = "Waiting"
      PROVE  NothingSettles
  BY <1>2 DEF NothingSettles, Put, Settled, Holding, Outcome
<1>3. CASE NewRequest
  <2>1. CASE TaskReplaced
    <3> DEFINE By(k, t) == tasks' = [tasks EXCEPT ![k] = t] /\ SameRun(tasks[k], t)
    <3>1. PICK k \in DOMAIN tasks : \E t : By(k, t)
      BY <2>1 DEF TaskReplaced
    <3>2. PICK t : By(k, t)
      BY <3>1
    <3>3. t.results = tasks[k].results /\ (t.state \in Settled => t.state = tasks[k].state)
      BY <3>2 DEF SameRun, Settled, Holding, Outcome
    <3> QED
      BY <3>2, <3>3 DEF NothingSettles
  <2> QED
    BY <1>1, <1>2, <1>3, <2>1, NewRequestForm DEF TasksKept, TaskInserted
<1>4. CASE FinishRequest
  BY <1>1, <1>2, <1>4, FinishRequestForm DEF TasksKept, TaskInserted
<1>5. ASSUME NEW k \in worker.to_clone, CloneFailed(k) PROVE NothingSettles
  BY <1>1, <1>2, <1>5, CloneFailedForm DEF Cloned
<1>6. CASE Reap
  BY <1>1, <1>6 DEF Reap, Drop, NothingSettles
<1>7. ASSUME NEW k, Environment(k) PROVE UNCHANGED tasks
  BY <1>7 DEF Environment, ProcessExits, CopierReports, shared
<1>8. ProcessNotifications \/ BeginIteration \/ EndDriving \/ EndIteration => UNCHANGED tasks
  BY DEF ProcessNotifications, BeginIteration, EndDriving, EndIteration, shared
<1> QED
  BY <1>1, <1>3, <1>4, <1>5, <1>6, <1>7, <1>8 DEF Next, WorkThreadStep

(* Of the state, a snapshot only changes Error.                            *)
LEMMA SnapshotState ==
    ASSUME NEW t \in Task
    PROVE  SnapshotTask(t).state = IF t.state = "Error" THEN "ErrorDone" ELSE t.state
  BY DEF SnapshotTask, Task, TaskState

(* What is recorded goes on being so.                                      *)
LEMMA RecordsKept ==
    ASSUME Typing, Typing', NothingSettles
    PROVE  /\ \A ts : RecordsAll(ts) => RecordsAll(ts)'
           /\ UNCHANGED file => Behind' \subseteq Behind
<1>1. ASSUME NEW j \in DOMAIN tasks', tasks'[j].state \in Settled
      PROVE  /\ j \in DOMAIN tasks /\ tasks[j].state \in Settled
             /\ tasks'[j].state = tasks[j].state /\ tasks'[j].results = tasks[j].results
             /\ SnapshotTask(tasks[j])'.state = SnapshotTask(tasks[j]).state
  <2>1. /\ j \in DOMAIN tasks /\ tasks'[j].state = tasks[j].state
        /\ tasks'[j].results = tasks[j].results
    BY <1>1 DEF NothingSettles
  <2>2. tasks[j] \in Task /\ tasks'[j] \in Task
    BY <2>1, Types DEF Typing, TypeOK, IsMap
  <2> QED
    BY <1>1, <2>1, <2>2, SnapshotState
<1>2. ASSUME NEW ts, RecordsAll(ts) PROVE RecordsAll(ts)'
  BY <1>1, <1>2 DEF RecordsAll, Records
<1>3. UNCHANGED file => Behind' \subseteq Behind
  BY <1>1 DEF Behind, Settled
<1> QED
  BY <1>2, <1>3

(* A drive makes a task end only as its record in the file ends.           *)
Ends(s, t) == t.state \in Outcome =>
                 \/ s.state = "Finalize" /\ t.state = IF s.results THEN "DoneWithResults" ELSE "Done"
                 \/ s.state = "Error" /\ t.state = "ErrorDone"
Endings(j) == \/ UNCHANGED tasks
              \/ /\ worker'.updated
                 /\ \E t : tasks' = [tasks EXCEPT ![j] = t] /\ Ends(tasks[j], t)

(* Of the drives, Finalize and Error alone end a task.                     *)
LEMMA DriveEnds ==
    ASSUME Typing, NEW j, TryDriveSm(j)
    PROVE  worker.at = "drive" /\ ~worker.updated /\ worker'.at = "drive" /\ Endings(j)
<1>1. Driving(j)
  BY DEF TryDriveSm, DriveHeld, NoMachine, Start, AllCommandsDone, CommandFailed, NextCommand,
     TimeOut, StillRunning, Polled, CheckResults, CheckPanics, CopyReported, StillCopying,
     Finalize, DriveTerminal, DriveError, DriveCanceled
<1>2. /\ worker.at = "drive" /\ ~worker.updated /\ tasks[j] \in Task /\ worker \in Worker
      /\ StateOf(j) # "Canceled" => StateOf(j) = tasks[j].state
  BY <1>1, Driven, Types DEF Driving, StateOf
<1>3. ASSUME NEW b \in BOOLEAN, Return(j, b) PROVE worker'.at = "drive" /\ worker'.updated = b
  BY <1>2, <1>3 DEF Return, Worker
<1>4. ASSUME NEW t, tasks' = [tasks EXCEPT ![j] = t], t.state \notin Outcome, worker'.updated
      PROVE  Endings(j)
  BY <1>4 DEF Endings, Ends
<1>5. CASE \/ DriveHeld(j) \/ NoMachine(j) \/ StillRunning(j) \/ StillCopying(j)
           \/ DriveTerminal(j) \/ CheckPanics(j)
  <2>1. UNCHANGED tasks
    BY <1>5 DEF DriveHeld, NoMachine, StillRunning, StillCopying, DriveTerminal, CheckPanics,
       shared
  <2>2. UNCHANGED worker \/ \E b \in BOOLEAN : Return(j, b)
    <3>1. DriveTerminal(j) => Return(j, j \in DOMAIN handles)
      BY DEF DriveTerminal
    <3>2. StillRunning(j) => UNCHANGED worker \/ Return(j, FALSE)
      BY DEF StillRunning
    <3>3. /\ DriveHeld(j) \/ NoMachine(j) \/ StillCopying(j) => Return(j, FALSE)
          /\ CheckPanics(j) => UNCHANGED worker
      BY DEF DriveHeld, NoMachine, StillCopying, CheckPanics
    <3>4. (j \in DOMAIN handles) \in BOOLEAN
      OBVIOUS
    <3> HIDE DEF Return
    <3> QED
      BY <1>5, <3>1, <3>2, <3>3, <3>4
  <2> QED
    BY <1>2, <1>3, <2>1, <2>2 DEF Endings
<1>6. ASSUME NEW m \in Machines, NEW spawned \in BOOLEAN, Start(j, m, spawned)
      PROVE  worker'.at = "drive" /\ Endings(j)
  <2>1. Launched(tasks[j], m, spawned).state \in {"Running", "Error"}
    BY <1>2 DEF Launched, Task
  <2> QED
    BY <1>3, <1>4, <1>6, <2>1 DEF Start, Outcome
<1>7. ASSUME NEW spawned \in BOOLEAN,
             AllCommandsDone(j) \/ CommandFailed(j) \/ NextCommand(j, spawned) \/ TimeOut(j)
      PROVE  worker'.at = "drive" /\ Endings(j)
  <2>1. PICK t : tasks' = [tasks EXCEPT ![j] = t] /\ t.state \in {"CheckingResults", "Error", "Running"}
    <3>1. /\ [tasks[j] EXCEPT !.state = "CheckingResults", !.index = 0].state = "CheckingResults"
          /\ [tasks[j] EXCEPT !.state = "Error"].state = "Error"
          /\ Advanced(tasks[j], spawned).state \in {"Running", "Error"}
          /\ [tasks[j] EXCEPT !.timedout = tasks[j].index, !.canceled = "keep"].state = tasks[j].state
      BY <1>2 DEF Advanced, Task
    <3>2. TimeOut(j) => tasks[j].state = "Running"
      BY <1>2 DEF TimeOut, Polled
    <3> QED
      BY <1>7, <3>1, <3>2 DEF AllCommandsDone, CommandFailed, NextCommand, TimeOut
  <2>2. Return(j, TRUE)
    BY <1>7 DEF AllCommandsDone, CommandFailed, NextCommand, TimeOut
  <2> QED
    BY <1>3, <1>4, <2>1, <2>2 DEF Outcome
<1>8. ASSUME NEW produced \in BOOLEAN, CheckResults(j, produced) \/ CopyReported(j)
      PROVE  worker'.at = "drive" /\ Endings(j)
  <2>1. PICK t : /\ tasks' = [tasks EXCEPT ![j] = t]
                 /\ t.state \in {"CopyingResults", "Finalize", "Error"}
    <3>1. /\ \A s \in {"CopyingResults", "Finalize", "Error"} : [tasks[j] EXCEPT !.state = s].state = s
          /\ [tasks[j] EXCEPT !.state = "Finalize", !.results = TRUE].state = "Finalize"
      BY <1>2 DEF Task
    <3> QED
      BY <1>8, <3>1 DEF CheckResults, CopyReported
  <2>2. Return(j, TRUE)
    BY <1>8 DEF CheckResults, CopyReported
  <2> QED
    BY <1>3, <1>4, <2>1, <2>2 DEF Outcome
<1>9. CASE Finalize(j)
  <2> DEFINE s == IF tasks[j].results THEN "DoneWithResults" ELSE "Done"
             t == [tasks[j] EXCEPT !.state = s]
  <2>1. /\ tasks' = [tasks EXCEPT ![j] = t] /\ tasks[j].state = "Finalize" /\ Return(j, TRUE)
    BY <1>2, <1>9 DEF Finalize
  <2>2. t.state = s
    BY <1>2 DEF Task
  <2> HIDE DEF t
  <2> QED
    BY <1>2, <1>3, <2>1, <2>2 DEF Endings, Ends
<1>10. CASE DriveError(j)
  <2> DEFINE t == [tasks[j] EXCEPT !.state = "ErrorDone"]
  <2>1. /\ tasks' = [tasks EXCEPT ![j] = t] /\ tasks[j].state = "Error"
        /\ worker'.at = "drive" /\ worker'.updated
    BY <1>2, <1>10 DEF DriveError, Worker
  <2>2. t.state = "ErrorDone"
    BY <1>2 DEF Task
  <2> HIDE DEF t
  <2> QED
    BY <1>2, <2>1, <2>2 DEF Endings, Ends
<1>11. CASE DriveCanceled(j)
  <2>1. tasks' = [tasks EXCEPT ![j] = Stopped(tasks[j])] /\ worker'.at = "drive" /\ worker'.updated
    BY <1>2, <1>11 DEF DriveCanceled, Worker
  <2>2. Stopped(tasks[j]).state \in {"Canceled", "Error", "Killed"}
    BY <1>2 DEF Stopped, Task
  <2>3. Stopped(tasks[j]).state \notin Outcome
    BY <2>2 DEF Outcome
  <2> QED
    BY <1>2, <1>4, <2>1, <2>3
<1> QED
  BY <1>2, <1>5, <1>6, <1>7, <1>8, <1>9, <1>10, <1>11 DEF TryDriveSm

-----------------------------------------------------------------------------
(* A drive reads nothing into a task that its record does not say.         *)
LEMMA DriveCurrent ==
    ASSUME Typing, Typing', FileCurrent, NEW j, TryDriveSm(j), UNCHANGED <<file, stale>>
    PROVE  SavedCurrent' /\ FileCurrent'
<1>1. worker.at = "drive" /\ ~worker.updated /\ worker'.at = "drive" /\ Endings(j)
  BY DriveEnds
<1>2. SavedCurrent'
  BY <1>1 DEF SavedCurrent
<1> SUFFICES ASSUME Usable PROVE FileCurrent'
  BY <1>2 DEF FileCurrent, Usable
<1>3. /\ RecordsAll(file.tasks)
      /\ \A i \in DOMAIN tasks : tasks[i].state \in Outcome =>
            i \in DOMAIN file.tasks /\ RestoredState(file.tasks[i]) = tasks[i].state
      /\ \A i, k \in Behind : i = k
  BY <1>1 DEF FileCurrent, Current
<1>4. CASE UNCHANGED tasks
  <2>1. RecordsAll(file.tasks)' /\ Behind' = Behind
    BY <1>3, <1>4 DEF RecordsAll, Records, Behind
  <2> QED
    BY <1>3, <1>4, <2>1 DEF FileCurrent
<1>5. ASSUME worker'.updated, NEW t, tasks' = [tasks EXCEPT ![j] = t], Ends(tasks[j], t)
      PROVE  FileCurrent'
  <2>1. ~Current'
    BY <1>1, <1>5 DEF Current
  <2>2. j \in DOMAIN tasks /\ t.state \in Outcome =>
           j \in DOMAIN file.tasks /\ RestoredState(file.tasks[j]) = t.state
    <3>1. SUFFICES ASSUME j \in DOMAIN tasks, t.state \in Outcome
                   PROVE  j \in DOMAIN file.tasks /\ RestoredState(file.tasks[j]) = t.state
      OBVIOUS
    <3>2. tasks[j] \in Task /\ tasks[j].state \in {"Finalize", "Error"} /\ tasks[j].state \in Settled
      BY <1>5, <3>1, Types DEF IsMap, Ends, Settled, Holding
    <3>3. /\ j \in DOMAIN file.tasks /\ file.tasks[j].results = tasks[j].results
          /\ file.tasks[j].state = SnapshotTask(tasks[j]).state
      BY <1>3, <3>1, <3>2 DEF RecordsAll, Records
    <3>4. file.tasks[j].state = IF tasks[j].state = "Error" THEN "ErrorDone" ELSE "Finalize"
      BY <3>2, <3>3, SnapshotState
    <3> QED
      BY <1>5, <3>1, <3>2, <3>3, <3>4 DEF Ends, RestoredState, Task
  <2>3. \A i \in DOMAIN tasks' : tasks'[i].state \in Outcome =>
           i \in DOMAIN file.tasks /\ RestoredState(file.tasks[i]) = tasks'[i].state
    BY <1>3, <1>5, <2>2
  <2>4. \A i \in Behind' : i = j
    <3> SUFFICES ASSUME NEW i \in Behind', i # j PROVE FALSE
      OBVIOUS
    <3>1. /\ i \in DOMAIN tasks /\ tasks[i].state \in Holding /\ tasks[i] \in Task
          /\ file.tasks[i].state = "Waiting"
      BY <1>5, Types DEF Behind, IsMap
    <3>2. file.tasks[i].state = SnapshotTask(tasks[i]).state
      BY <1>3, <3>1 DEF RecordsAll, Records, Settled
    <3> QED
      BY <3>1, <3>2, SnapshotState DEF Holding
  <2> QED
    BY <2>1, <2>3, <2>4 DEF FileCurrent
<1> QED
  BY <1>1, <1>4, <1>5 DEF Endings

(* Nor does a step in which no task settles, unless the file is written.   *)
LEMMA SettledCurrent ==
    ASSUME Typing, Typing', FileCurrent, NothingSettles, UNCHANGED <<file, stale>>,
           Current' => Current
    PROVE  FileCurrent'
<1> SUFFICES ASSUME Usable PROVE FileCurrent'
  BY DEF FileCurrent, Usable
<1>1. /\ Current => RecordsAll(file.tasks)
      /\ \A i \in DOMAIN tasks : tasks[i].state \in Outcome =>
            i \in DOMAIN file.tasks /\ RestoredState(file.tasks[i]) = tasks[i].state
      /\ \A i, k \in Behind : i = k
  BY DEF FileCurrent
<1>2. Current' => RecordsAll(file.tasks)'
  BY <1>1, RecordsKept
<1>3. \A i \in DOMAIN tasks' : tasks'[i].state \in Outcome =>
         i \in DOMAIN file.tasks /\ RestoredState(file.tasks[i]) = tasks'[i].state
  BY <1>1 DEF NothingSettles, Settled
<1>4. \A i, k \in Behind' : i = k
  BY <1>1, RecordsKept
<1> QED
  BY <1>2, <1>3, <1>4 DEF FileCurrent

(* The step that writes the file.                                          *)
LEMMA WriteCurrent == ASSUME Typing, SavedCurrent, Write PROVE FileCurrent'
<1>1. /\ UNCHANGED <<tasks, worker>> /\ file'.tasks = saving.tasks
      /\ worker.at = "idle" /\ saving.next = 5
  BY DEF Write, Leave, Written, Copied, Saving, Parts, vars, shared
<1>2. RecordsAll(saving.tasks)
  BY <1>1 DEF SavedCurrent
<1>3. \A j \in DOMAIN tasks : tasks[j].state \in Settled =>
         /\ j \in DOMAIN saving.tasks
         /\ saving.tasks[j].state = IF tasks[j].state = "Error" THEN "ErrorDone" ELSE tasks[j].state
  BY <1>2, Types, SnapshotState DEF RecordsAll, Records, IsMap
<1>4. RecordsAll(file.tasks)'
  BY <1>1, <1>2 DEF RecordsAll, Records
<1>5. \A j \in DOMAIN tasks : tasks[j].state \in Outcome =>
         j \in DOMAIN saving.tasks /\ RestoredState(saving.tasks[j]) = tasks[j].state
  BY <1>3 DEF Settled, Outcome, RestoredState
<1>6. Behind' = {}
  BY <1>1, <1>3 DEF Behind, Settled, Holding
<1> QED
  BY <1>1, <1>4, <1>5, <1>6 DEF FileCurrent

(* A restart from the file it describes.                                   *)
LEMMA RestartTasks ==
    ASSUME Restart, FileOK', IdsKept'
    PROVE  /\ DOMAIN tasks' = DOMAIN file'.tasks /\ Behind' = {}
           /\ \A j \in DOMAIN tasks' : tasks'[j].state = RestoredState(file'.tasks[j])
<1>1. /\ tasks' = [j \in DOMAIN file'.tasks |-> ToTask(file'.tasks[j])]
      /\ file'.next_jid \in Nat
      /\ \A j \in DOMAIN file'.tasks : file'.tasks[j] \in SavedTask(file'.next_jid)
  <2>1. file'.kind # "no_jid"
    BY DEF Restart, IdsKept
  <2> QED
    BY <2>1 DEF Restart, Load, FileOK, FileGood, Snapshot, IsMap
<1>2. \A j \in DOMAIN tasks' : /\ tasks'[j].state = RestoredState(file'.tasks[j])
                               /\ tasks'[j].state \notin Holding
  BY <1>1, RestoredTask
<1> QED
  BY <1>1, <1>2 DEF Behind

(* Where take_snapshot is, a drive changes nothing.                        *)
LEMMA SavedKept ==
    ASSUME Typing, Typing', SavedCurrent, SavingOK, NothingSettles, UNCHANGED saving
    PROVE  SavedCurrent'
<1> SUFFICES ASSUME worker'.at = "idle", saving'.next \in 3..6 PROVE RecordsAll(saving.tasks)'
  BY DEF SavedCurrent
<1>1. worker.at = "idle"
  BY DEF SavingOK
<1> QED
  BY <1>1, RecordsKept DEF SavedCurrent

(* The maps are copied one after the other; that of the tasks is copied at *)
(* once.                                                                   *)
LEMMA SaveMapCurrent ==
    ASSUME Typing, SavingOK, SavedCurrent, FileCurrent, SaveMap
    PROVE  SavedCurrent' /\ FileCurrent'
<1>1. /\ UNCHANGED <<tasks, worker, file, stale>> /\ worker.at = "idle"
      /\ saving.next \in 1..4 /\ saving'.next = saving.next + 1
      /\ saving'.tasks = IF saving.next = 2 THEN CopiedTasks ELSE saving.tasks
  BY SaveMapForm DEF SaveMap, Saving, vars, shared
<1>2. SavedCurrent'
  <2>1. CASE saving.next = 2
    <3>1. \A j \in DOMAIN tasks : /\ CopiedTasks[j].state = SnapshotTask(tasks[j]).state
                                  /\ CopiedTasks[j].results = tasks[j].results
      <4>1. \A t \in Task : SnapshotTask(t).results = t.results
        BY DEF SnapshotTask, Task
      <4> QED
        BY <4>1, Types DEF CopiedTasks, IsMap
    <3>2. RecordsAll(CopiedTasks)
      BY <3>1 DEF RecordsAll, Records, CopiedTasks
    <3> QED
      BY <1>1, <2>1, <3>2 DEF SavedCurrent, RecordsAll, Records
  <2>2. CASE saving.next # 2
    BY <1>1, <2>2 DEF SavedCurrent, RecordsAll, Records
  <2> QED
    BY <2>1, <2>2
<1>3. FileCurrent'
  <2>1. Usable' = Usable /\ Behind' = Behind /\ ~Current'
    BY <1>1 DEF Usable, Behind, Current
  <2> QED
    BY <1>1, <2>1 DEF FileCurrent
<1> QED
  BY <1>2, <1>3

(* What the copy and the file say of the tasks, throughout.                *)
Recorded == IdsKept => SavedCurrent /\ FileCurrent

(* Every step keeps it so.                                                 *)
LEMMA StepRecorded ==
    Recoverable /\ Recoverable' /\ Recorded /\ [RecoveryNext]_recoveryVars => Recorded'
<1> SUFFICES ASSUME Recoverable, Recoverable', IdsKept, IdsKept', SavedCurrent, FileCurrent,
                    [RecoveryNext]_recoveryVars
             PROVE  SavedCurrent' /\ FileCurrent'
  BY CutsGrow DEF Recorded
<1>1. Typing /\ Typing' /\ Safe /\ ServerOK /\ SavingOK /\ SavingOK' /\ FileOK'
  BY DEF Recoverable, ServerOK
<1>2. ASSUME NothingSettles, UNCHANGED <<saving, file, stale>>, Current' => Current
      PROVE  SavedCurrent' /\ FileCurrent'
  BY <1>1, <1>2, SavedKept, SettledCurrent
<1>3. UNCHANGED tasks => NothingSettles
  BY DEF NothingSettles
<1>4. CASE SaveMap
  BY <1>1, <1>4, SaveMapCurrent
<1>5. CASE Write \/ WriteFails
  <2>1. /\ UNCHANGED <<tasks, worker>> /\ saving' = [saving EXCEPT !.next = @ + 1]
        /\ saving.next = 5 /\ worker.at = "idle"
    BY <1>5 DEF Write, WriteFails, Leave, Copied, Saving, Parts, vars, shared
  <2>2. SavedCurrent'
    <3>1. saving'.tasks = saving.tasks
      BY <1>1, <2>1 DEF SavingOK, IsCopy
    <3> QED
      BY <2>1, <3>1 DEF SavedCurrent, RecordsAll, Records
  <2>3. WriteFails => FileCurrent'
    <3>1. ASSUME WriteFails PROVE ~Usable'
      <4>1. Copied /\ (stale' \/ file' \in HalfWritten)
        BY <3>1 DEF WriteFails, Leave
      <4> QED
        BY <1>1, <4>1, CutIsGood DEF Usable
    <3> QED
      BY <3>1 DEF FileCurrent, Usable
  <2> QED
    BY <1>1, <1>5, <2>2, <2>3, WriteCurrent
<1>6. CASE AfterSnapshot
  <2>1. /\ ProcessNotifications /\ saving' = InitSaving /\ saving.next = 6
        /\ UNCHANGED <<file, stale>>
    BY <1>6 DEF AfterSnapshot, Parts
  <2>2. worker.at = "idle" /\ UNCHANGED tasks /\ Current
    BY <2>1 DEF ProcessNotifications, shared, Current
  <2>3. SavedCurrent'
    BY <2>1 DEF SavedCurrent, InitSaving
  <2> QED
    BY <1>1, <1>3, <2>1, <2>2, <2>3, SettledCurrent
<1>7. CASE Restart
  <2>1. worker'.at = "idle" /\ saving'.next = 1
    BY <1>7 DEF Restart, InitWorker, InitSaving
  <2>2. SavedCurrent' /\ ~Current'
    BY <2>1 DEF SavedCurrent, Current
  <2>3. FileCurrent'
    BY <1>1, <1>7, <2>2, RestartTasks DEF FileCurrent
  <2> QED
    BY <2>2, <2>3
<1>8. ASSUME NEW j, TryDriveSm(j), UNCHANGED <<saving, file, stale>> PROVE SavedCurrent' /\ FileCurrent'
  BY <1>1, <1>8, DriveCurrent
<1>9. ASSUME UNCHANGED <<saving, file, stale>>, Serving PROVE SavedCurrent' /\ FileCurrent'
  <2>1. UNCHANGED worker
    BY <1>1, <1>9, ServingKeeps
  <2>2. Current' => Current
    BY <1>9, <2>1 DEF Current
  <2>3. CASE \E j \in ToDrive : TryDriveSm(j)
    BY <1>8, <1>9, <2>3
  <2> QED
    BY <1>1, <1>2, <1>9, <2>2, <2>3, OthersSettleNothing DEF Serving, Next
<1>10. ASSUME UNCHANGED <<saving, file, stale>>, worker.at # "idle", WorkThreadStep
       PROVE  SavedCurrent' /\ FileCurrent'
  <2>1. CASE \E j \in ToDrive : TryDriveSm(j)
    BY <1>8, <1>10, <2>1
  <2>2. CASE ~ \E j \in ToDrive : TryDriveSm(j)
    <3>1. NothingSettles
      BY <1>1, <1>10, <2>2, OthersSettleNothing DEF Next
    <3>2. Current' => Current
      <4>1. worker \in Worker /\ saving.next = 1
        BY <1>1, <1>10, Types DEF SavingOK
      <4>2. BeginIteration => Current
        BY DEF BeginIteration, Current
      <4>3. EndDriving \/ Reap \/ (\E j \in worker.to_clone : CloneFailed(j)) \/ EndIteration
            => ~Current'
        <5>1. EndDriving \/ Reap => worker'.at \in {"reap", "clone"}
          BY <4>1 DEF EndDriving, Reap, Worker
        <5>2. (\E j \in worker.to_clone : CloneFailed(j)) => worker'.at = "clone"
          BY <4>1 DEF CloneFailed, Worker
        <5>3. EndIteration => worker'.at = "idle"
          BY <4>1 DEF EndIteration, Worker
        <5> QED
          BY <1>10, <4>1, <5>1, <5>2, <5>3 DEF Current
      <4>4. ~ProcessNotifications
        BY <1>10 DEF ProcessNotifications
      <4> QED
        BY <1>10, <2>2, <4>2, <4>3, <4>4 DEF WorkThreadStep
    <3> QED
      BY <1>2, <1>10, <3>1, <3>2
  <2> QED
    BY <2>1, <2>2
<1>11. CASE UNCHANGED recoveryVars
  <2>1. Current' => Current
    BY <1>11 DEF recoveryVars, vars, Current
  <2> QED
    BY <1>2, <1>3, <1>11, <2>1 DEF recoveryVars, vars, shared
<1> QED
  BY <1>4, <1>5, <1>6, <1>7, <1>8, <1>9, <1>10, <1>11 DEF RecoveryNext, Serving

(* Recorded holds throughout.                                              *)
THEOREM RecordedInvariant == RecoverySpec => []Recorded
<1>1. RecoveryInit => Recorded
  BY DEF RecoveryInit, Recorded, SavedCurrent, FileCurrent, Usable, Unreadable, InitSaving
<1>2. Recoverable /\ Recoverable' /\ Recorded /\ [RecoveryNext]_recoveryVars => Recorded'
  BY StepRecorded
<1>3. RecoverySpec => []Recoverable
  BY RecoverableInvariant
<1> QED
  BY <1>1, <1>2, <1>3, PTL DEF RecoverySpec

-----------------------------------------------------------------------------
(* Only Restart counts as a restart; the file it starts from is the one    *)
(* that was there.                                                         *)
LEMMA RestartedForm ==
    ASSUME Recoverable, RecoveryNext, Restarted
    PROVE  Restart /\ file' = file /\ Usable /\ IdsKept /\ IdsKept'
<1>1. Restart
  BY DEF RecoveryNext, Restarted, SaveMap, Write, WriteFails, Leave, AfterSnapshot
<1>2. cuts' = cuts \cup ({file'.kind} \cap {"no_jid", "no_tags"})
      /\ IdsKept /\ file'.kind = "good" /\ ~stale
  BY <1>1 DEF Restart, Restarted
<1>3. file' = file
  <2>1. file' = file \/ (Copied /\ file' \in HalfWritten)
    BY <1>1 DEF Restart
  <2>2. ServerOK /\ SavingOK
    BY <1>2 DEF Recoverable
  <2> QED
    BY <1>2, <2>1, <2>2, CutIsGood
<1> QED
  BY <1>1, <1>2, <1>3 DEF Usable, IdsKept

(* How a task that ran to an end did so is still known after a restart     *)
(* from the last snapshot, if it was written (SnapshotTask::to_task): the  *)
(* one drive that the snapshot may be behind only ever turns Finalize and  *)
(* Error into what they stand for.  (That a task was killed may not be     *)
(* known any more: the snapshot holds no canceled.)                        *)
THEOREM OutcomesSurvive == RecoverySpec => OutcomeSurvives
<1> DEFINE P == Restarted =>
                  \A j \in DOMAIN tasks :
                      tasks[j].state \in {"Done", "DoneWithResults", "ErrorDone"}
                      => j \in DOMAIN tasks' /\ tasks'[j].state = tasks[j].state
<1>1. Recorded /\ Recoverable /\ Recoverable' /\ RecoveryNext => P
  <2> SUFFICES ASSUME Recorded, Recoverable, Recoverable', RecoveryNext, Restarted,
                      NEW j \in DOMAIN tasks, tasks[j].state \in Outcome
               PROVE  j \in DOMAIN tasks' /\ tasks'[j].state = tasks[j].state
    BY DEF Outcome
  <2>1. j \in DOMAIN file.tasks /\ RestoredState(file.tasks[j]) = tasks[j].state
    BY RestartedForm DEF Recorded, FileCurrent
  <2> QED
    BY <2>1, RestartedForm, RestartTasks DEF Recoverable
<1>2. Recorded /\ Recoverable /\ Recoverable' /\ [RecoveryNext]_recoveryVars => [P]_recoveryVars
  BY <1>1
<1> HIDE DEF P
<1>3. RecoverySpec => [][P]_recoveryVars
  BY <1>2, RecordedInvariant, RecoverableInvariant, PTL DEF RecoverySpec
<1> QED
  BY <1>3 DEF P, OutcomeSurvives

(* A restart from the last snapshot, if it was written, puts back at most  *)
(* one task that was started, as an iteration starts at most one and a     *)
(* snapshot precedes each (work_thread).                                   *)
THEOREM RequeuesAreRare == RecoverySpec => RequeuesAtMostOne
<1> DEFINE P == Restarted => \A j, k \in Requeued : j = k
<1>1. Recorded /\ Recoverable /\ Recoverable' /\ RecoveryNext => P
  <2> SUFFICES ASSUME Recorded, Recoverable, Recoverable', RecoveryNext, Restarted,
                      NEW i \in Requeued
               PROVE  i \in Behind
    BY RestartedForm DEF Recorded, FileCurrent
  <2>1. i \in DOMAIN file.tasks /\ RestoredState(file.tasks[i]) = "Waiting"
    BY RestartedForm, RestartTasks DEF Recoverable, Requeued
  <2>2. file.tasks[i].state = "Waiting"
    BY <2>1 DEF RestoredState
  <2> QED
    BY <2>1, <2>2 DEF Behind, Requeued
<1>2. Recorded /\ Recoverable /\ Recoverable' /\ [RecoveryNext]_recoveryVars => [P]_recoveryVars
  BY <1>1
<1> HIDE DEF P
<1>3. RecoverySpec => [][P]_recoveryVars
  BY <1>2, RecordedInvariant, RecoverableInvariant, PTL DEF RecoverySpec
<1> QED
  BY <1>3 DEF P, RequeuesAtMostOne
=============================================================================
