---------------------------- MODULE ServerProofs ----------------------------
(***************************************************************************)
(* Proofs about Server, for every value of its constants: types, and what  *)
(* holds of tasks, machines, matrices and tags whatever clients do.        *)
(***************************************************************************)
EXTENDS Server, TLAPS

-----------------------------------------------------------------------------
(* Types of the server's maps, of the listener and of the work thread.     *)

(* Maps. *)
LEMMA MapAt ==
    ASSUME NEW K, NEW V, NEW f, IsMap(f, K, V), NEW k \in DOMAIN f
    PROVE  k \in K /\ f[k] \in V
BY DEF IsMap

(* Put keeps a map typed.                                                  *)
LEMMA PutMap ==
    ASSUME NEW K, NEW V, NEW f, IsMap(f, K, V), NEW k \in K, NEW v \in V
    PROVE  IsMap(Put(f, k, v), K, V)
BY DEF IsMap, Put

(* Drop keeps a map typed.                                                 *)
LEMMA DropMap ==
    ASSUME NEW K, NEW V, NEW f, IsMap(f, K, V), NEW S
    PROVE  IsMap(Drop(f, S), K, V)
BY DEF IsMap, Drop

(* Replacing one entry keeps a map typed.                                  *)
LEMMA SetMap ==
    ASSUME NEW K, NEW V, NEW f, IsMap(f, K, V), NEW k, NEW v, k \in DOMAIN f => v \in V
    PROVE  IsMap([f EXCEPT ![k] = v], K, V)
BY DEF IsMap

(* A map is typed for a larger set of keys, too.                           *)
LEMMA WiderMap ==
    ASSUME NEW K, NEW V, NEW f, IsMap(f, K, V), NEW L, K \subseteq L
    PROVE  IsMap(f, L, V)
BY DEF IsMap

(* The ids handed out only grow with next_jid.                             *)
LEMMA WiderIds ==
    ASSUME NEW a \in Nat, NEW b \in Nat, a <= b
    PROVE  0..(a - 1) \subseteq 0..(b - 1)
OBVIOUS

(* Update keeps machines typed (machines.get_mut, sm.rs).                  *)
LEMMA UpdateMap ==
    ASSUME IsMap(machines, Machines, MachineStatus), NEW m, NEW st,
           m \in DOMAIN machines => st \in MachineStatus
    PROVE  IsMap(Update(m, st), Machines, MachineStatus)
BY SetMap DEF Update

-----------------------------------------------------------------------------
(* The inductive invariant for types.  While the listener is between two   *)
(* critical sections its locals hold what the next one needs; the jids the *)
(* work thread is to clone still exist, none of them is removed in the     *)
(* same iteration or driven again; a placed task has a machine.            *)
Issued == 0..(next_jid - 1)

HasMachine(t) ==
    (t.state \in Holding \cup {"Done", "DoneWithResults", "ErrorDone"} \/ t.timedout # None)
    => t.machine # None

FreshTask(t) == t \in Task /\ HasMachine(t)

ListenerTyped ==
    /\ listener.at \in {"insert_task", "insert_live", "insert_tagged", "insert_tag"}
         => listener.jid \in Issued
    /\ listener.at \in {"insert_task", "insert_tagged", "matrix"} => FreshTask(listener.task)
    /\ listener.at = "insert_live" /\ listener.matrix # None => FreshTask(listener.task)
    /\ listener.at = "matrix" => listener.matrix # None
    /\ listener.matrix # None => listener.matrix \in Issued
    /\ listener.at = "idle" => listener.matrix = None

WorkerTyped ==
    /\ worker.to_clone \subseteq DOMAIN tasks
    /\ worker.at \in {"idle", "sleep"} => worker.to_clone = {}
    /\ worker.at \in {"idle", "sleep", "clone"} => worker.to_remove = {}
    /\ worker.to_clone \cap (worker.todo \cup worker.to_remove) = {}
    /\ worker.to_remove \cap worker.todo = {}

Placed == \A j \in DOMAIN tasks : HasMachine(tasks[j])

Typing == TypeOK /\ ListenerTyped /\ WorkerTyped /\ Placed

-----------------------------------------------------------------------------
(* A task that a request makes is well-formed and needs no machine yet.    *)
LEMMA NewTaskType ==
    ASSUME NEW spec \in JobSpec, NEW m \in Machines \cup {None},
           NEW x \in Nat \cup {None}, NEW t \in Nat \cup {None}
    PROVE  FreshTask(NewTask(spec, m, x, t))
BY DEF NewTask, Task, TaskState, JobSpec, FreshTask, HasMachine, Holding

(* The state of Server::new is typed.                                      *)
LEMMA InitTyping == Init => Typing
<1> SUFFICES ASSUME Init PROVE Typing OBVIOUS
<1> USE DEF Init
<1>1. /\ IsMap(machines, Machines, MachineStatus)
      /\ IsMap(tasks, 0..(next_jid - 1), Task)
      /\ IsMap(matrices, 0..(next_jid - 1), SUBSET Nat)
      /\ IsMap(tags, 0..(next_jid - 1), SUBSET Nat)
      /\ IsMap(handles, 0..(next_jid - 1), ExitStatus)
      /\ IsMap(copying_flags, 0..(next_jid - 1), CopierThreadResult)
  BY DEF IsMap, EmptyMap
<1>2. worker \in Worker /\ listener \in Listener
  BY DEF InitWorker, Worker, IdleListener, Listener
<1>3. /\ live_tasks \subseteq 0..(next_jid - 1) /\ copying \subseteq 0..(next_jid - 1)
      /\ next_jid \in Nat /\ immediate \subseteq Nat \cup Machines
  OBVIOUS
<1>7. requests \in 0..MaxRequests /\ faults \in 0..MaxFaults
  BY BoundAssumption
<1>8. panicked \in BOOLEAN
  OBVIOUS
<1>0. TypeOK
  BY <1>1, <1>2, <1>3, <1>7, <1>8 DEF TypeOK
<1>4. ListenerTyped
  BY DEF ListenerTyped, IdleListener
<1>5. WorkerTyped
  BY DEF WorkerTyped, InitWorker
<1>6. Placed
  BY DEF Placed, EmptyMap
<1> QED BY <1>0, <1>4, <1>5, <1>6 DEF Typing

(* What a drive can count on. *)
LEMMA Driven ==
    ASSUME Typing, NEW j, Driving(j)
    PROVE  /\ j \in DOMAIN tasks /\ j \in worker.todo /\ j \in Nat /\ j \in Issued
           /\ tasks[j] \in Task /\ HasMachine(tasks[j])
           /\ worker.at = "drive" /\ j \notin worker.to_clone \cup worker.to_remove
<1>1. j \in DOMAIN tasks /\ j \in worker.todo
  BY DEF Driving, IsNext, ToDrive
<1>2. j \in Issued /\ tasks[j] \in Task /\ next_jid \in Nat
  BY <1>1, MapAt DEF Typing, TypeOK, Issued
<1>3. HasMachine(tasks[j])
  BY <1>1 DEF Typing, Placed
<1>4. j \in Nat
  BY <1>2 DEF Issued
<1>5. worker.at = "drive" /\ j \notin worker.to_clone \cup worker.to_remove
  BY <1>1 DEF Typing, WorkerTyped, Driving
<1> QED
  BY <1>1, <1>2, <1>3, <1>4, <1>5

(* The return of try_drive_sm keeps the work thread's locals typed.        *)
LEMMA ReturnTyping ==
    ASSUME Typing, NEW j, Driving(j), NEW b \in BOOLEAN, Return(j, b),
           DOMAIN tasks' = DOMAIN tasks
    PROVE  worker' \in Worker /\ WorkerTyped'
<1>1. worker \in Worker
  BY DEF Typing, TypeOK
<1>2. worker' \in Worker
  BY <1>1 DEF Worker, Return
<1>3. /\ worker'.at = worker.at /\ worker'.todo \subseteq worker.todo
      /\ worker'.to_clone = worker.to_clone /\ worker'.to_remove = worker.to_remove
  BY <1>1 DEF Worker, Return
<1> QED
  BY <1>2, <1>3 DEF Typing, WorkerTyped

(* A step of another thread leaves what the listener holds typed.          *)
LEMMA ListenerFrame ==
    ASSUME Typing, UNCHANGED listener, next_jid' \in {next_jid, next_jid + 1}
    PROVE  ListenerTyped'
<1>1. next_jid \in Nat
  BY DEF Typing, TypeOK
<1>2. next_jid' \in Nat /\ next_jid <= next_jid'
  BY <1>1
<1>3. Issued \subseteq Issued'
  BY <1>1, <1>2, WiderIds DEF Issued
<1> QED
  BY <1>3 DEF Typing, ListenerTyped

(* A step that replaces one task and leaves the ids, the groups, the       *)
(* listener alone.                                                         *)
LEMMA TaskStep ==
    ASSUME Typing, NEW j \in DOMAIN tasks, NEW t \in Task, HasMachine(t),
           tasks' = [tasks EXCEPT ![j] = t],
           IsMap(machines', Machines, MachineStatus),
           IsMap(handles', Issued, ExitStatus),
           copying' \subseteq Issued,
           IsMap(copying_flags', Issued, CopierThreadResult),
           live_tasks' \subseteq Issued,
           immediate' \subseteq Nat \cup Machines,
           worker' \in Worker, WorkerTyped', faults' \in 0..MaxFaults,
           requests' \in 0..MaxRequests,
           panicked' \in BOOLEAN, UNCHANGED <<matrices, tags, next_jid, listener>>
    PROVE  Typing'
<1>1. IsMap(tasks', Issued, Task)
  BY SetMap DEF Typing, TypeOK, Issued
<1>2. TypeOK'
  BY <1>1 DEF Typing, TypeOK, Issued
<1>3. Placed'
  <2>1. tasks = [k \in DOMAIN tasks |-> tasks[k]]
    BY DEF Typing, TypeOK, IsMap
  <2>2. \A k \in DOMAIN tasks : HasMachine(tasks'[k])
    BY <2>1 DEF Typing, Placed
  <2> QED
    BY <2>1, <2>2 DEF Placed
<1>4. ListenerTyped'
  BY ListenerFrame
<1> QED
  BY <1>2, <1>3, <1>4 DEF Typing

-----------------------------------------------------------------------------
(* Pieces of the drives. *)
LEMMA Types ==
    ASSUME Typing
    PROVE  /\ IsMap(machines, Machines, MachineStatus) /\ IsMap(tasks, Issued, Task)
           /\ IsMap(matrices, Issued, SUBSET Nat) /\ IsMap(tags, Issued, SUBSET Nat)
           /\ IsMap(handles, Issued, ExitStatus)
           /\ IsMap(copying_flags, Issued, CopierThreadResult)
           /\ live_tasks \subseteq Issued /\ copying \subseteq Issued
           /\ next_jid \in Nat /\ immediate \subseteq Nat \cup Machines
           /\ worker \in Worker /\ listener \in Listener
           /\ requests \in 0..MaxRequests /\ faults \in 0..MaxFaults
           /\ panicked \in BOOLEAN
BY DEF Typing, TypeOK, Issued

(* A machine that is freed, or declared broken, is well-formed.            *)
LEMMA ReleasedType ==
    ASSUME NEW st \in MachineStatus
    PROVE  Released(st) \in MachineStatus
BY DEF Released, MachineStatus, MachineClass

(* free_machine keeps the machines typed (sm.rs:652).                      *)
LEMMA AfterFreeType ==
    ASSUME NEW ms, IsMap(ms, Machines, MachineStatus), DOMAIN ms = DOMAIN machines,
           NEW j, NEW t
    PROVE  IsMap(AfterFree(j, t, ms), Machines, MachineStatus)
<1>1. CASE Owns(j, t)
  <2>1. ms[t.machine] \in MachineStatus
    BY <1>1, MapAt DEF Owns
  <2> QED
    BY <1>1, <2>1, ReleasedType, SetMap DEF AfterFree
<1>2. CASE ~Owns(j, t)
  BY <1>2 DEF AfterFree
<1> QED BY <1>1, <1>2

(* What is queued for immediate notification is a jid.                     *)
LEMMA NotifyTaskType ==
    ASSUME Typing, NEW j \in Nat, NEW t, NotifyTask(j, t)
    PROVE  immediate' \subseteq Nat \cup Machines
BY Types DEF NotifyTask

(* What free_machine queues is the name of a machine.                      *)
LEMMA NotifyBrokenType ==
    ASSUME Typing, NEW j, NEW t, NEW ms, NotifyBroken(j, t, ms)
    PROVE  immediate' \subseteq Nat \cup Machines
<1>1. Owns(j, t) => t.machine \in Machines
  BY Types, MapAt DEF Owns
<1> QED
  BY <1>1, Types DEF NotifyBroken

(* Counting a failure of the environment stays within its bound.           *)
LEMMA FaultType ==
    ASSUME Typing, Fault \/ faults' = faults
    PROVE  faults' \in 0..MaxFaults
BY Types, BoundAssumption DEF Fault

(* A drive that changes nothing but the work thread's own state.           *)
LEMMA IdleDrive ==
    ASSUME Typing, NEW j, Driving(j), NEW b \in BOOLEAN, Return(j, b),
           UNCHANGED <<shared, immediate, handles, copying, copying_flags, listener,
                       requests, faults, panicked>>
    PROVE  Typing'
<1>1. tasks' = [tasks EXCEPT ![j] = tasks[j]]
  BY Types DEF shared, IsMap
<1>2. worker' \in Worker /\ WorkerTyped'
  BY ReturnTyping DEF shared
<1> QED
  BY <1>1, <1>2, Types, Driven, TaskStep DEF shared

-----------------------------------------------------------------------------
(* The drives, one by one. *)
LEMMA DriveHeldTyping == ASSUME Typing, NEW j, DriveHeld(j) PROVE Typing'
BY IdleDrive DEF DriveHeld

(* NoMachine preserves Typing.                                             *)
LEMMA NoMachineTyping == ASSUME Typing, NEW j, NoMachine(j) PROVE Typing'
BY IdleDrive DEF NoMachine

(* StillCopying preserves Typing.                                          *)
LEMMA StillCopyingTyping == ASSUME Typing, NEW j, StillCopying(j) PROVE Typing'
BY IdleDrive DEF StillCopying

(* Start preserves Typing.                                                 *)
LEMMA StartTyping ==
    ASSUME Typing, NEW j, NEW m \in Machines, NEW spawned \in BOOLEAN,
           Start(j, m, spawned)
    PROVE  Typing'
<1> DEFINE t == Launched(tasks[j], m, spawned)
<1>1. Driving(j) /\ tasks' = [tasks EXCEPT ![j] = t]
  BY DEF Start
<1>0. tasks[j] \in Task /\ j \in Nat
  BY <1>1, Driven
<1>2. t \in Task /\ HasMachine(t)
  <2>1. t \in Task /\ t.machine = m
    BY <1>0 DEF Launched, Task, TaskState, Holding
  <2> QED
    BY <2>1, NoneAssumption DEF HasMachine
<1>3. ASSUME m \in DOMAIN machines
      PROVE  [machines[m] EXCEPT !.running = j] \in MachineStatus
  <2>1. machines[m] \in MachineStatus
    BY <1>3, Types, MapAt
  <2> QED
    BY <1>0, <2>1 DEF MachineStatus
<1>4. IsMap(machines', Machines, MachineStatus)
  BY <1>3, Types, UpdateMap DEF Start
<1>5. IsMap(handles', Issued, ExitStatus)
  BY <1>1, Driven, Types, PutMap DEF Start, ExitStatus
<1>6. worker' \in Worker /\ WorkerTyped'
  BY <1>1, Types, ReturnTyping DEF Start, IsMap
<1>7. immediate' \subseteq Nat \cup Machines /\ faults' \in 0..MaxFaults
  BY <1>1, Driven, NotifyTaskType, FaultType DEF Start
<1> QED
  BY <1>1, <1>2, <1>4, <1>5, <1>6, <1>7, Types, Driven, TaskStep DEF Start

(* AllCommandsDone preserves Typing.                                       *)
LEMMA AllCommandsDoneTyping == ASSUME Typing, NEW j, AllCommandsDone(j) PROVE Typing'
<1> DEFINE t == [tasks[j] EXCEPT !.state = "CheckingResults", !.index = 0]
<1>1. Driving(j) /\ tasks' = [tasks EXCEPT ![j] = t] /\ StateOf(j) = "Running"
  BY DEF AllCommandsDone, Polled
<1>2. t \in Task /\ HasMachine(t)
  BY <1>1, Driven DEF Task, TaskState, Holding, HasMachine, StateOf
<1>3. worker' \in Worker /\ WorkerTyped'
  BY <1>1, Types, ReturnTyping DEF AllCommandsDone, IsMap
<1>4. immediate' \subseteq Nat \cup Machines
  BY <1>1, Driven, NotifyTaskType DEF AllCommandsDone
<1> QED
  BY <1>1, <1>2, <1>3, <1>4, Types, Driven, TaskStep DEF AllCommandsDone

(* NextCommand preserves Typing.                                           *)
LEMMA NextCommandTyping ==
    ASSUME Typing, NEW j, NEW spawned \in BOOLEAN, NextCommand(j, spawned)
    PROVE  Typing'
<1> DEFINE t == Advanced(tasks[j], spawned)
<1>1. Driving(j) /\ tasks' = [tasks EXCEPT ![j] = t] /\ StateOf(j) = "Running"
  BY DEF NextCommand, Polled
<1>2. t \in Task /\ HasMachine(t)
  <2>1. tasks[j] \in Task /\ tasks[j].state = "Running" /\ HasMachine(tasks[j])
    BY <1>1, Driven DEF StateOf
  <2>2. tasks[j].machine # None
    BY <2>1 DEF HasMachine, Holding
  <2>3. tasks[j].index + 1 \in Nat
    BY <2>1 DEF Task
  <2>4. t \in Task /\ t.machine = tasks[j].machine
    BY <2>1, <2>3 DEF Advanced, Task, TaskState, Holding
  <2> QED
    BY <2>2, <2>4 DEF HasMachine
<1>3. IsMap(handles', Issued, ExitStatus)
  BY <1>1, Driven, Types, PutMap DEF NextCommand, ExitStatus
<1>4. worker' \in Worker /\ WorkerTyped'
  BY <1>1, Types, ReturnTyping DEF NextCommand, IsMap
<1>5. faults' \in 0..MaxFaults
  BY FaultType DEF NextCommand
<1> QED
  BY <1>1, <1>2, <1>3, <1>4, <1>5, Types, Driven, TaskStep DEF NextCommand

(* CommandFailed preserves Typing.                                         *)
LEMMA CommandFailedTyping == ASSUME Typing, NEW j, CommandFailed(j) PROVE Typing'
<1> DEFINE t == [tasks[j] EXCEPT !.state = "Error"]
<1>1. Driving(j) /\ tasks' = [tasks EXCEPT ![j] = t] /\ StateOf(j) = "Running"
  BY DEF CommandFailed, Polled
<1>2. t \in Task /\ HasMachine(t)
  BY <1>1, Driven DEF Task, TaskState, Holding, HasMachine, StateOf
<1>3. worker' \in Worker /\ WorkerTyped'
  BY <1>1, Types, ReturnTyping DEF CommandFailed, IsMap
<1>4. immediate' \subseteq Nat \cup Machines
  BY <1>1, Driven, NotifyTaskType DEF CommandFailed
<1> QED
  BY <1>1, <1>2, <1>3, <1>4, Types, Driven, TaskStep DEF CommandFailed

(* The mark of a timeout keeps the task well-formed.                       *)
LEMMA TimeOutTyping == ASSUME Typing, NEW j, TimeOut(j) PROVE Typing'
<1> DEFINE t == [tasks[j] EXCEPT !.timedout = tasks[j].index, !.canceled = "keep"]
<1>1. Driving(j) /\ tasks' = [tasks EXCEPT ![j] = t] /\ StateOf(j) = "Running"
  BY DEF TimeOut, Polled
<1>2. t \in Task /\ HasMachine(t)
  BY <1>1, Driven DEF Task, HasMachine, Holding, StateOf
<1>3. worker' \in Worker /\ WorkerTyped'
  BY <1>1, Types, ReturnTyping DEF TimeOut, IsMap
<1>4. immediate' \subseteq Nat \cup Machines /\ faults' \in 0..MaxFaults
  BY <1>1, Driven, NotifyTaskType, FaultType DEF TimeOut
<1> QED
  BY <1>1, <1>2, <1>3, <1>4, Types, Driven, TaskStep DEF TimeOut

(* A poll that finds the process running changes no type.                  *)
LEMMA StillRunningTyping == ASSUME Typing, NEW j, StillRunning(j) PROVE Typing'
<1>1. CASE j \in DOMAIN handles
  BY <1>1, IdleDrive DEF StillRunning
<1>2. CASE j \notin DOMAIN handles
  <2>1. Driving(j) /\ UNCHANGED worker /\ panicked' = TRUE
    BY <1>2 DEF StillRunning
  <2>2. tasks' = [tasks EXCEPT ![j] = tasks[j]]
    BY Types DEF StillRunning, shared, IsMap
  <2>3. worker' \in Worker /\ WorkerTyped'
    BY <2>1, Types DEF StillRunning, shared, Typing, WorkerTyped
  <2> QED
    BY <2>1, <2>2, <2>3, Types, Driven, TaskStep DEF StillRunning, shared
<1> QED BY <1>1, <1>2

(* CheckResults preserves Typing.                                          *)
LEMMA CheckResultsTyping ==
    ASSUME Typing, NEW j, NEW produced \in BOOLEAN, CheckResults(j, produced)
    PROVE  Typing'
<1> DEFINE copies == tasks[j].job.cp_results /\ produced
           m == tasks[j].machine
           t == [tasks[j] EXCEPT !.state = IF copies THEN "CopyingResults" ELSE "Finalize"]
<1>1. Driving(j) /\ tasks' = [tasks EXCEPT ![j] = t] /\ StateOf(j) = "CheckingResults"
  BY DEF CheckResults
<1>2. t \in Task /\ HasMachine(t)
  <2>1. tasks[j] \in Task /\ tasks[j].state = "CheckingResults" /\ HasMachine(tasks[j])
    BY <1>1, Driven DEF StateOf
  <2>2. tasks[j].machine # None
    BY <2>1 DEF HasMachine, Holding
  <2>3. t \in Task /\ t.machine = tasks[j].machine
    BY <2>1 DEF Task, TaskState, Holding
  <2> QED
    BY <2>2, <2>3 DEF HasMachine
<1>3. ASSUME m \in DOMAIN machines
      PROVE  [machines[m] EXCEPT !.failures = 0] \in MachineStatus
  <2>1. machines[m] \in MachineStatus
    BY <1>3, Types, MapAt
  <2> QED
    BY <2>1, BoundAssumption DEF MachineStatus
<1>4. IsMap(machines', Machines, MachineStatus)
  BY <1>3, Types, UpdateMap DEF CheckResults
<1>5. copying' \subseteq Issued
  BY <1>1, Driven, Types DEF CheckResults, RequestCopy
<1>6. worker' \in Worker /\ WorkerTyped'
  BY <1>1, Types, ReturnTyping DEF CheckResults, IsMap
<1>7. immediate' \subseteq Nat \cup Machines
  BY <1>1, Driven, NotifyTaskType DEF CheckResults
<1> QED
  BY <1>1, <1>2, <1>4, <1>5, <1>6, <1>7, Types, Driven, TaskStep DEF CheckResults

(* A check that panics leaves the task as it was.                          *)
LEMMA CheckPanicsTyping == ASSUME Typing, NEW j, CheckPanics(j) PROVE Typing'
<1> DEFINE m == tasks[j].machine
<1>1. Driving(j) /\ panicked' = TRUE /\ Fault /\ UNCHANGED <<tasks, worker>>
  BY DEF CheckPanics
<1>2. tasks' = [tasks EXCEPT ![j] = tasks[j]]
  BY <1>1, Types DEF IsMap
<1>3. ASSUME m \in DOMAIN machines
      PROVE  [machines[m] EXCEPT !.failures = 0] \in MachineStatus
  <2>1. machines[m] \in MachineStatus
    BY <1>3, Types, MapAt
  <2> QED
    BY <2>1, BoundAssumption DEF MachineStatus
<1>4. IsMap(machines', Machines, MachineStatus)
  BY <1>3, Types, UpdateMap DEF CheckPanics
<1>5. worker' \in Worker /\ WorkerTyped' /\ faults' \in 0..MaxFaults
  BY <1>1, Types, FaultType DEF Typing, WorkerTyped
<1> QED
  BY <1>1, <1>2, <1>4, <1>5, Types, Driven, TaskStep DEF CheckPanics

(* CopyReported preserves Typing.                                          *)
LEMMA CopyReportedTyping == ASSUME Typing, NEW j, CopyReported(j) PROVE Typing'
<1> DEFINE m == tasks[j].machine
           t == IF copying_flags[j] = "Success"
                THEN [tasks[j] EXCEPT !.state = "Finalize", !.results = TRUE]
                ELSE [tasks[j] EXCEPT !.state = "Error"]
<1>1. Driving(j) /\ tasks' = [tasks EXCEPT ![j] = t] /\ StateOf(j) = "CopyingResults"
  BY DEF CopyReported
<1>2. t \in Task /\ HasMachine(t)
  <2>1. tasks[j] \in Task /\ tasks[j].state = "CopyingResults" /\ HasMachine(tasks[j])
    BY <1>1, Driven DEF StateOf
  <2>2. tasks[j].machine # None
    BY <2>1 DEF HasMachine, Holding
  <2>3. t \in Task /\ t.machine = tasks[j].machine
    BY <2>1 DEF Task, TaskState, Holding
  <2> QED
    BY <2>2, <2>3 DEF HasMachine
<1>3. ASSUME m \in DOMAIN machines
      PROVE  [machines[m] EXCEPT !.class = UnknownHostClass] \in MachineStatus
  <2>1. machines[m] \in MachineStatus
    BY <1>3, Types, MapAt
  <2> QED
    BY <2>1 DEF MachineStatus, MachineClass
<1>4. IsMap(machines', Machines, MachineStatus)
  BY <1>3, Types, UpdateMap DEF CopyReported
<1>5. IsMap(copying_flags', Issued, CopierThreadResult)
  BY Types, DropMap DEF CopyReported, TakeFlag
<1>6. worker' \in Worker /\ WorkerTyped'
  BY <1>1, Types, ReturnTyping DEF CopyReported, IsMap
<1> QED
  BY <1>1, <1>2, <1>4, <1>5, <1>6, Types, Driven, TaskStep DEF CopyReported

(* Finalize preserves Typing.                                              *)
LEMMA FinalizeTyping == ASSUME Typing, NEW j, Finalize(j) PROVE Typing'
<1> DEFINE m == tasks[j].machine
           running == IF m \in DOMAIN machines THEN machines[m].running ELSE None
           t == [tasks[j] EXCEPT !.state = IF tasks[j].results THEN "DoneWithResults"
                                           ELSE "Done"]
           joined == [class |-> tasks[j].job.class, running |-> running, failures |-> 0]
<1>1. Driving(j) /\ tasks' = [tasks EXCEPT ![j] = t] /\ StateOf(j) = "Finalize"
  BY DEF Finalize
<1>2. tasks[j] \in Task /\ m \in Machines
  <2>1. tasks[j] \in Task /\ tasks[j].state = "Finalize" /\ HasMachine(tasks[j])
    BY <1>1, Driven DEF StateOf
  <2>2. m # None
    BY <2>1 DEF HasMachine, Holding
  <2> QED
    BY <2>1, <2>2 DEF Task
<1>3. t \in Task /\ HasMachine(t)
  <2>1. t \in Task /\ t.machine = m
    BY <1>2 DEF Task, TaskState, Terminal
  <2> QED
    BY <1>2, <2>1, NoneAssumption DEF HasMachine
<1>4. ASSUME tasks[j].job.class # None
      PROVE  joined \in MachineStatus
  <2>1. tasks[j].job.class \in Classes
    BY <1>2, <1>4 DEF Task, JobSpec
  <2>2. running \in Nat \cup {None}
    <3>1. CASE m \in DOMAIN machines
      <4>1. machines[m] \in MachineStatus
        BY <3>1, Types, MapAt
      <4> QED
        BY <3>1, <4>1 DEF MachineStatus
    <3>2. CASE m \notin DOMAIN machines
      BY <3>2
    <3> QED BY <3>1, <3>2
  <2> QED
    BY <2>1, <2>2, BoundAssumption DEF MachineStatus, MachineClass
<1>5. IsMap(machines', Machines, MachineStatus)
  <2>1. CASE tasks[j].job.ty = "SetupTask" /\ tasks[j].job.class # None /\ ~Owns(j, tasks[j])
    <3>1. machines' = Put(machines, m, joined)
      BY <2>1 DEF Finalize
    <3> QED
      BY <2>1, <3>1, <1>2, <1>4, Types, PutMap
  <2>2. CASE ~(tasks[j].job.ty = "SetupTask" /\ tasks[j].job.class # None /\ ~Owns(j, tasks[j]))
    <3>1. machines' = AfterFree(j, tasks[j], machines)
      BY <2>2 DEF Finalize
    <3> QED
      BY <3>1, Types, AfterFreeType
  <2> QED BY <2>1, <2>2
<1>6. worker' \in Worker /\ WorkerTyped'
  BY <1>1, Types, ReturnTyping DEF Finalize, IsMap
<1>7. immediate' \subseteq Nat \cup Machines
  BY NotifyBrokenType DEF Finalize
<1> QED
  BY <1>1, <1>3, <1>5, <1>6, <1>7, Types, Driven, TaskStep DEF Finalize

(* DriveTerminal preserves Typing.                                         *)
LEMMA DriveTerminalTyping == ASSUME Typing, NEW j, DriveTerminal(j) PROVE Typing'
<1>1. Driving(j) /\ UNCHANGED tasks
  BY DEF DriveTerminal
<1>2. tasks' = [tasks EXCEPT ![j] = tasks[j]]
  BY <1>1, Types DEF IsMap
<1>3. worker' \in Worker /\ WorkerTyped'
  <2> DEFINE b == j \in DOMAIN handles
  <2>1. Return(j, b) /\ b \in BOOLEAN
    BY DEF DriveTerminal
  <2> HIDE DEF b
  <2> QED
    BY <1>1, <2>1, ReturnTyping
<1>4. IsMap(handles', Issued, ExitStatus)
  BY Types, DropMap DEF DriveTerminal
<1> QED
  BY <1>1, <1>2, <1>3, <1>4, Types, Driven, TaskStep DEF DriveTerminal

(* DriveError preserves Typing.                                            *)
LEMMA DriveErrorTyping == ASSUME Typing, NEW j, DriveError(j) PROVE Typing'
<1> DEFINE m == tasks[j].machine
           failures == IF machines[m].failures < MachineFailures
                       THEN machines[m].failures + 1 ELSE MachineFailures
           blamed == Update(m, [machines[m] EXCEPT !.failures = failures])
           t == [tasks[j] EXCEPT !.state = "ErrorDone"]
<1>1. Driving(j) /\ tasks' = [tasks EXCEPT ![j] = t] /\ StateOf(j) = "Error"
  BY DEF DriveError
<1>2. t \in Task /\ HasMachine(t)
  <2>1. tasks[j] \in Task /\ tasks[j].state = "Error" /\ HasMachine(tasks[j])
    BY <1>1, Driven DEF StateOf
  <2>2. tasks[j].machine # None
    BY <2>1 DEF HasMachine, Holding
  <2>3. t \in Task /\ t.machine = tasks[j].machine
    BY <2>1 DEF Task, TaskState, Terminal
  <2> QED
    BY <2>2, <2>3 DEF HasMachine
<1>3. ASSUME m \in DOMAIN machines
      PROVE  [machines[m] EXCEPT !.failures = failures] \in MachineStatus
  <2>1. machines[m] \in MachineStatus
    BY <1>3, Types, MapAt
  <2>2. machines[m].failures \in 0..MachineFailures
    BY <2>1 DEF MachineStatus
  <2>3. failures \in 0..MachineFailures
    BY <2>2, BoundAssumption
  <2> HIDE DEF failures
  <2> QED
    BY <2>1, <2>3 DEF MachineStatus
<1>4. IsMap(blamed, Machines, MachineStatus) /\ DOMAIN blamed = DOMAIN machines
  <2>1. IsMap(blamed, Machines, MachineStatus)
    BY <1>3, Types, UpdateMap
  <2>2. DOMAIN blamed = DOMAIN machines
    BY DEF Update
  <2> QED BY <2>1, <2>2
<1>5. IsMap(machines', Machines, MachineStatus)
  <2>1. machines' = AfterFree(j, tasks[j], blamed)
    BY DEF DriveError
  <2> HIDE DEF blamed
  <2> QED
    BY <1>4, <2>1, AfterFreeType
<1>6. IsMap(handles', Issued, ExitStatus)
  BY Types, DropMap DEF DriveError
<1>7. worker' \in Worker /\ WorkerTyped'
  <2>1. /\ worker \in Worker /\ j \in DOMAIN tasks /\ j \in worker.todo /\ j \in Nat
        /\ worker.at = "drive" /\ j \notin worker.to_clone \cup worker.to_remove
    BY <1>1, Types, Driven
  <2>2. /\ worker' \in Worker /\ worker'.at = "drive" /\ worker'.todo = worker.todo \ {j}
        /\ worker'.to_clone \subseteq worker.to_clone \cup {j}
        /\ worker'.to_remove = worker.to_remove
    BY <2>1 DEF DriveError, Worker
  <2>3. DOMAIN tasks' = DOMAIN tasks
    BY <1>1, Types DEF IsMap
  <2> QED
    BY <2>1, <2>2, <2>3 DEF Typing, WorkerTyped
<1>8. immediate' \subseteq Nat \cup Machines
  BY NotifyBrokenType DEF DriveError
<1> QED
  BY <1>1, <1>2, <1>5, <1>6, <1>7, <1>8, Types, Driven, TaskStep DEF DriveError

(* DriveCanceled preserves Typing.                                         *)
LEMMA DriveCanceledTyping == ASSUME Typing, NEW j, DriveCanceled(j) PROVE Typing'
<1> DEFINE t == Stopped(tasks[j])
<1>1. Driving(j) /\ tasks' = [tasks EXCEPT ![j] = t]
  BY DEF DriveCanceled
<1>2. t \in Task /\ HasMachine(t)
  <2>1. tasks[j] \in Task /\ HasMachine(tasks[j])
    BY <1>1, Driven
  <2>2. t \in Task
    BY <2>1 DEF Stopped, Task, TaskState, Terminal, Holding
  <2>3. t.timedout = tasks[j].timedout /\ t.machine = tasks[j].machine
    BY <2>1 DEF Stopped, Task
  <2>4. t.state \in {"Canceled", "Killed"} \/ t.timedout # None
    BY <2>1 DEF Stopped, Task
  <2> HIDE DEF t
  <2>5. CASE t.timedout # None
    BY <2>1, <2>2, <2>3, <2>5 DEF HasMachine
  <2>6. CASE t.timedout = None
    BY <2>2, <2>4, <2>6 DEF HasMachine, Holding
  <2> QED
    BY <2>5, <2>6
<1>3. IsMap(machines', Machines, MachineStatus)
  BY Types, AfterFreeType DEF DriveCanceled
<1>4. IsMap(handles', Issued, ExitStatus)
  BY Types, DropMap DEF DriveCanceled, KillProcess
<1>5. worker' \in Worker /\ WorkerTyped'
  <2>1. /\ worker \in Worker /\ j \in DOMAIN tasks /\ j \in worker.todo /\ j \in Nat
        /\ worker.at = "drive" /\ j \notin worker.to_clone \cup worker.to_remove
    BY <1>1, Types, Driven
  <2>2. /\ worker' \in Worker /\ worker'.at = "drive" /\ worker'.todo = worker.todo \ {j}
        /\ worker'.to_remove \subseteq worker.to_remove \cup {j}
        /\ worker'.to_clone = worker.to_clone
    BY <2>1 DEF DriveCanceled, Worker
  <2>3. DOMAIN tasks' = DOMAIN tasks
    BY <1>1, Types DEF IsMap
  <2> QED
    BY <2>1, <2>2, <2>3 DEF Typing, WorkerTyped
<1>6. immediate' \subseteq Nat \cup Machines
  BY NotifyBrokenType DEF DriveCanceled
<1> QED
  BY <1>1, <1>2, <1>3, <1>4, <1>5, <1>6, Types, Driven, TaskStep DEF DriveCanceled

(* Any transition of try_drive_sm preserves Typing.                        *)
LEMMA TryDriveSmTyping == ASSUME Typing, NEW j, TryDriveSm(j) PROVE Typing'
BY DriveHeldTyping, NoMachineTyping, StartTyping, AllCommandsDoneTyping,
   CommandFailedTyping, NextCommandTyping, TimeOutTyping, StillRunningTyping,
   CheckResultsTyping, CheckPanicsTyping, CopyReportedTyping, StillCopyingTyping, FinalizeTyping,
   DriveTerminalTyping, DriveErrorTyping, DriveCanceledTyping DEF TryDriveSm

-----------------------------------------------------------------------------
(* The steps around the drives. *)
LEMMA PlacedFrame == ASSUME Typing, UNCHANGED tasks PROVE Placed'
BY DEF Typing, Placed

(* Locals of the work thread stay typed while the tasks only grow.         *)
LEMMA WorkerFrame ==
    ASSUME Typing, UNCHANGED worker, DOMAIN tasks \subseteq DOMAIN tasks'
    PROVE  WorkerTyped'
BY DEF Typing, WorkerTyped

(* Environment preserves Typing.                                           *)
LEMMA EnvironmentTyping == ASSUME Typing, NEW j, Environment(j) PROVE Typing'
<1>1. ASSUME NEW status \in {"ok", "fail"}, ProcessExits(j, status) PROVE Typing'
  <2>1. IsMap(handles', Issued, ExitStatus)
    BY <1>1, Types, SetMap DEF ProcessExits, ExitStatus
  <2>2. faults' \in 0..MaxFaults
    BY <1>1, FaultType DEF ProcessExits
  <2>3. TypeOK'
    BY <1>1, <2>1, <2>2, Types DEF ProcessExits, TypeOK, Issued, shared
  <2> QED
    BY <1>1, <2>3, PlacedFrame, WorkerFrame, ListenerFrame DEF ProcessExits, Typing, shared
<1>2. ASSUME NEW result \in CopierThreadResult, NEW again \in BOOLEAN,
             CopierReports(j, result, again)
      PROVE  Typing'
  <2>1. IsMap(copying_flags', Issued, CopierThreadResult) /\ copying' \subseteq Issued
    BY <1>2, Types, PutMap DEF CopierReports
  <2>2. faults' \in 0..MaxFaults
    BY <1>2, FaultType DEF CopierReports
  <2>3. TypeOK'
    BY <1>2, <2>1, <2>2, Types DEF CopierReports, TypeOK, Issued, shared
  <2> QED
    BY <1>2, <2>3, PlacedFrame, WorkerFrame, ListenerFrame DEF CopierReports, Typing, shared
<1> QED BY <1>1, <1>2 DEF Environment

(* ProcessNotifications preserves Typing.                                  *)
LEMMA ProcessNotificationsTyping == ASSUME Typing, ProcessNotifications PROVE Typing'
<1>1. /\ worker' \in Worker /\ immediate' \subseteq Nat \cup Machines /\ panicked' \in BOOLEAN
      /\ WorkerTyped'
  <2>1. CASE CannotSend
    BY <2>1, Types DEF ProcessNotifications, Typing, WorkerTyped, shared
  <2>2. CASE ~CannotSend
    <3>1. worker \in Worker /\ worker.at = "idle"
      BY Types DEF ProcessNotifications
    <3>2. /\ worker' \in Worker /\ worker'.at = "sleep" /\ worker'.todo = worker.todo
          /\ worker'.to_clone = worker.to_clone /\ worker'.to_remove = worker.to_remove
      BY <2>2, <3>1 DEF ProcessNotifications, Worker
    <3> QED
      BY <2>2, <3>1, <3>2, Types DEF ProcessNotifications, Typing, WorkerTyped, shared
  <2> QED BY <2>1, <2>2
<1>2. TypeOK'
  BY <1>1, Types DEF ProcessNotifications, TypeOK, Issued, shared
<1> QED
  BY <1>1, <1>2, PlacedFrame, ListenerFrame DEF ProcessNotifications, Typing, shared

(* BeginIteration preserves Typing.                                        *)
LEMMA BeginIterationTyping == ASSUME Typing, BeginIteration PROVE Typing'
<1>1. worker \in Worker /\ worker.at = "sleep" /\ live_tasks \subseteq Nat
  BY Types DEF BeginIteration, Issued
<1>2. /\ worker' \in Worker /\ worker'.at = "drive" /\ worker'.todo = live_tasks
      /\ worker'.to_clone = worker.to_clone /\ worker'.to_remove = worker.to_remove
  BY <1>1 DEF BeginIteration, Worker
<1>3. WorkerTyped'
  BY <1>1, <1>2 DEF BeginIteration, Typing, WorkerTyped, shared
<1>4. TypeOK'
  BY <1>2, Types DEF BeginIteration, TypeOK, Issued, shared
<1> QED
  BY <1>3, <1>4, PlacedFrame, ListenerFrame DEF BeginIteration, Typing, shared

(* EndDriving preserves Typing.                                            *)
LEMMA EndDrivingTyping == ASSUME Typing, EndDriving PROVE Typing'
<1>1. worker \in Worker
  BY Types
<1>2. /\ worker' \in Worker /\ worker'.at = "reap" /\ worker'.todo = {}
      /\ worker'.to_clone = worker.to_clone /\ worker'.to_remove = worker.to_remove
  BY <1>1 DEF EndDriving, Worker
<1>3. WorkerTyped'
  BY <1>2 DEF EndDriving, Typing, WorkerTyped
<1>4. live_tasks' \subseteq Issued
  BY Types DEF EndDriving
<1>5. TypeOK'
  BY <1>2, <1>4, Types DEF EndDriving, TypeOK, Issued
<1> QED
  BY <1>3, <1>5, PlacedFrame, ListenerFrame DEF EndDriving, Typing

(* Reap preserves Typing.                                                  *)
LEMMA ReapTyping == ASSUME Typing, Reap PROVE Typing'
<1> DEFINE gone == worker.to_remove \cap DOMAIN tasks
           left == MatricesWithout(gone)
<1>1. CASE \E j \in gone : ~RefsResolve(tasks[j])
  <2>1. UNCHANGED <<shared, worker>> /\ panicked' = TRUE
    BY <1>1 DEF Reap, shared
  <2>2. TypeOK'
    BY <2>1, Types DEF Reap, TypeOK, Issued, shared
  <2> QED
    BY <2>1, <2>2, PlacedFrame, WorkerFrame, ListenerFrame DEF Reap, Typing, shared
<1>2. CASE ~ \E j \in gone : ~RefsResolve(tasks[j])
  <2>1. /\ tasks' = Drop(tasks, gone) /\ live_tasks' = live_tasks \ worker.to_remove
        /\ matrices' = Drop(left, {m \in DOMAIN left : left[m] = {}})
        /\ tags' = [t \in DOMAIN tags |-> tags[t] \ {j \in gone : tasks[j].tag = t}]
        /\ worker' = [worker EXCEPT !.at = "clone", !.to_remove = {}]
        /\ UNCHANGED panicked
    BY <1>2 DEF Reap
  <2>2. IsMap(tasks', Issued, Task)
    BY <2>1, Types, DropMap
  <2>3. IsMap(matrices', Issued, SUBSET Nat)
    <3>1. IsMap(left, Issued, SUBSET Nat)
      BY Types DEF IsMap, MatricesWithout
    <3> HIDE DEF left
    <3> QED
      BY <2>1, <3>1, DropMap
  <2>4. IsMap(tags', Issued, SUBSET Nat)
    BY <2>1, Types DEF IsMap
  <2>5. /\ worker' \in Worker /\ worker'.at = "clone" /\ worker'.todo = worker.todo
        /\ worker'.to_clone = worker.to_clone /\ worker'.to_remove = {}
    BY <2>1, Types DEF Worker
  <2>6. DOMAIN tasks' = DOMAIN tasks \ gone
    BY <2>1 DEF Drop
  <2>7. WorkerTyped'
    BY <2>5, <2>6 DEF Typing, WorkerTyped
  <2>8. Placed'
    BY <2>1 DEF Typing, Placed, Drop
  <2>9. TypeOK'
    BY <2>1, <2>2, <2>3, <2>4, <2>5, Types DEF Reap, TypeOK, Issued
  <2> QED
    BY <2>7, <2>8, <2>9, ListenerFrame DEF Reap, Typing
<1> QED BY <1>1, <1>2

(* EndIteration preserves Typing.                                          *)
LEMMA EndIterationTyping == ASSUME Typing, EndIteration PROVE Typing'
<1>1. worker \in Worker /\ worker.at = "clone" /\ worker.to_clone = {}
  BY Types DEF EndIteration
<1>2. /\ worker' \in Worker /\ worker'.at = "idle" /\ worker'.todo = worker.todo
      /\ worker'.to_clone = worker.to_clone /\ worker'.to_remove = worker.to_remove
  BY <1>1 DEF EndIteration, Worker
<1>3. WorkerTyped'
  BY <1>1, <1>2 DEF Typing, WorkerTyped
<1>4. TypeOK'
  BY <1>2, Types DEF EndIteration, TypeOK, Issued, shared
<1> QED
  BY <1>3, <1>4, PlacedFrame, ListenerFrame DEF EndIteration, Typing, shared

-----------------------------------------------------------------------------
(* Steps that may hand out an id.  Every map stays typed when it does.     *)
LEMMA Wider ==
    ASSUME Typing, next_jid' \in {next_jid, next_jid + 1}
    PROVE  /\ next_jid' \in Nat /\ Issued \subseteq Issued'
           /\ IsMap(tasks, Issued', Task) /\ IsMap(matrices, Issued', SUBSET Nat)
           /\ IsMap(tags, Issued', SUBSET Nat) /\ IsMap(handles, Issued', ExitStatus)
           /\ IsMap(copying_flags, Issued', CopierThreadResult)
           /\ live_tasks \subseteq Issued' /\ copying \subseteq Issued'
           /\ next_jid' = next_jid + 1 => next_jid \in Issued'
<1>1. next_jid \in Nat
  BY Types
<1>2. next_jid' \in Nat /\ next_jid <= next_jid'
  BY <1>1
<1>3. Issued \subseteq Issued'
  BY <1>1, <1>2, WiderIds DEF Issued
<1>4. next_jid' = next_jid + 1 => next_jid \in Issued'
  BY <1>1 DEF Issued
<1> HIDE DEF Issued
<1> QED
  BY <1>2, <1>3, <1>4, Types, WiderMap

(* What is left to show of a step of the listener, and of a clone.         *)
LEMMA SharedStep ==
    ASSUME Typing, next_jid' \in {next_jid, next_jid + 1},
           UNCHANGED <<handles, copying, copying_flags, immediate, faults>>,
           IsMap(machines', Machines, MachineStatus), IsMap(tasks', Issued', Task),
           IsMap(matrices', Issued', SUBSET Nat), IsMap(tags', Issued', SUBSET Nat),
           live_tasks' \subseteq Issued', worker' \in Worker, WorkerTyped',
           listener' \in Listener, ListenerTyped', Placed',
           requests' \in 0..MaxRequests, panicked' \in BOOLEAN
    PROVE  Typing'
BY Wider, Types DEF Typing, TypeOK, Issued

(* A clone is well-formed and waits (clone_task, main.rs).                 *)
LEMMA CloneTaskType ==
    ASSUME NEW t \in Task
    PROVE  /\ CloneTask(t) \in Task /\ HasMachine(CloneTask(t))
           /\ CloneTask(t).state = "Waiting"
<1>1. CloneTask(t) \in Task /\ CloneTask(t).state = "Waiting" /\ CloneTask(t).timedout = None
  BY DEF CloneTask, Task, TaskState
<1>2. HasMachine(CloneTask(t))
  BY <1>1 DEF HasMachine, Holding
<1> QED BY <1>1, <1>2

(* Entering a clone under the next id keeps the four maps typed.           *)
LEMMA InsertCloneTyping ==
    ASSUME Typing, next_jid' = next_jid + 1, NEW t \in Task, HasMachine(t),
           InsertClone(next_jid, t)
    PROVE  /\ IsMap(tasks', Issued', Task) /\ IsMap(matrices', Issued', SUBSET Nat)
           /\ IsMap(tags', Issued', SUBSET Nat) /\ live_tasks' \subseteq Issued'
           /\ Placed' /\ DOMAIN tasks \subseteq DOMAIN tasks'
<1>1. next_jid \in Issued' /\ next_jid \in Nat
  BY Wider, Types
<1>2. IsMap(tasks', Issued', Task)
  BY <1>1, Wider, PutMap DEF InsertClone
<1>3. IsMap(matrices', Issued', SUBSET Nat)
  BY <1>1, Wider DEF InsertClone, IsMap
<1>4. IsMap(tags', Issued', SUBSET Nat)
  BY <1>1, Wider DEF InsertClone, IsMap
<1>5. live_tasks' \subseteq Issued'
  BY <1>1, Wider DEF InsertClone
<1>6. Placed' /\ DOMAIN tasks \subseteq DOMAIN tasks'
  BY DEF InsertClone, Put, Placed, Typing
<1> QED BY <1>2, <1>3, <1>4, <1>5, <1>6

(* CloneFailed preserves Typing.                                           *)
LEMMA CloneFailedTyping ==
    ASSUME Typing, NEW j \in worker.to_clone, CloneFailed(j)
    PROVE  Typing'
<1> DEFINE t == [CloneTask(tasks[j]) EXCEPT !.attempt = tasks[j].attempt + 1]
<1>1. tasks[j] \in Task
  BY Types, MapAt DEF Typing, WorkerTyped
<1>2. t \in Task /\ HasMachine(t)
  <2>1. CloneTask(tasks[j]) \in Task /\ HasMachine(CloneTask(tasks[j]))
    BY <1>1, CloneTaskType
  <2>2. tasks[j].attempt + 1 \in Nat
    BY <1>1 DEF Task
  <2>3. t \in Task
    BY <2>1, <2>2 DEF Task
  <2>4. /\ t.state = CloneTask(tasks[j]).state /\ t.timedout = CloneTask(tasks[j]).timedout
        /\ t.machine = CloneTask(tasks[j]).machine
    BY <2>1 DEF Task
  <2> HIDE DEF t
  <2> QED
    BY <2>1, <2>3, <2>4 DEF HasMachine
<1>3. next_jid' = next_jid + 1 /\ UNCHANGED listener
  BY DEF CloneFailed
<1>4. /\ IsMap(tasks', Issued', Task) /\ IsMap(matrices', Issued', SUBSET Nat)
      /\ IsMap(tags', Issued', SUBSET Nat) /\ live_tasks' \subseteq Issued'
      /\ Placed' /\ DOMAIN tasks \subseteq DOMAIN tasks' /\ panicked' \in BOOLEAN
      /\ worker' \in Worker /\ WorkerTyped'
  <2>1. CASE RefsResolve(t)
    <3>1. InsertClone(next_jid, t) /\ UNCHANGED panicked
      BY <2>1 DEF CloneFailed
    <3>2. worker' = [worker EXCEPT !.to_clone = @ \ {j}] /\ worker \in Worker
      BY <2>1, Types DEF CloneFailed
    <3>3. /\ worker' \in Worker /\ worker'.at = worker.at /\ worker'.todo = worker.todo
          /\ worker'.to_clone \subseteq worker.to_clone
          /\ worker'.to_remove = worker.to_remove
      BY <3>2 DEF Worker
    <3>4. DOMAIN tasks \subseteq DOMAIN tasks'
      BY <3>1 DEF InsertClone, Put
    <3>5. WorkerTyped'
      BY <3>3, <3>4 DEF Typing, WorkerTyped
    <3> HIDE DEF t
    <3> QED
      BY <1>2, <1>3, <3>1, <3>3, <3>5, InsertCloneTyping, Types
  <2>2. CASE ~RefsResolve(t)
    <3>1. panicked' = TRUE /\ UNCHANGED <<tasks, live_tasks, matrices, tags, worker>>
      BY <2>2 DEF CloneFailed
    <3> QED
      BY <1>3, <3>1, Wider, Types, PlacedFrame, WorkerFrame
  <2> QED BY <2>1, <2>2
<1>5. ListenerTyped'
  BY <1>3, ListenerFrame
<1> QED
  BY <1>3, <1>4, <1>5, Types, SharedStep DEF CloneFailed

(* Any step of the work thread preserves Typing.                           *)
LEMMA WorkThreadStepTyping == ASSUME Typing, WorkThreadStep PROVE Typing'
BY ProcessNotificationsTyping, BeginIterationTyping, TryDriveSmTyping, EndDrivingTyping,
   ReapTyping, CloneFailedTyping, EndIterationTyping DEF WorkThreadStep

-----------------------------------------------------------------------------
(* The requests. *)
LEMMA AcceptTyping ==
    ASSUME Typing, NEW kind, Accept(kind)
    PROVE  requests' \in 0..MaxRequests /\ listener.at = "idle"
BY Types, BoundAssumption DEF Accept

(* A request that replaces one task, its tag list at most.                 *)
LEMMA TaskRequest ==
    ASSUME Typing, Unaffected, NEW j \in DOMAIN tasks, NEW t \in Task, HasMachine(t),
           tasks' = [tasks EXCEPT ![j] = t],
           IsMap(machines', Machines, MachineStatus), IsMap(tags', Issued, SUBSET Nat),
           live_tasks' \subseteq Issued, requests' \in 0..MaxRequests,
           panicked' \in BOOLEAN, UNCHANGED <<matrices, next_jid, listener>>
    PROVE  Typing'
<1>1. IsMap(tasks', Issued, Task)
  BY Types, SetMap
<1>2. TypeOK'
  BY <1>1, Types DEF TypeOK, Issued, Unaffected
<1>3. DOMAIN tasks' = DOMAIN tasks
  BY Types DEF IsMap
<1>4. Placed'
  BY <1>3 DEF Typing, Placed
<1>5. WorkerTyped' /\ ListenerTyped'
  BY <1>3, WorkerFrame, ListenerFrame DEF Unaffected
<1> QED
  BY <1>2, <1>4, <1>5 DEF Typing

(* MakeAvailable preserves Typing.                                         *)
LEMMA MakeAvailableTyping ==
    ASSUME Typing, NEW m \in Machines, NEW class \in Classes, MakeAvailable(m, class)
    PROVE  Typing'
<1> DEFINE running == IF m \in DOMAIN machines THEN machines[m].running ELSE None
           st == [class |-> class, failures |-> 0, running |-> running]
<1>1. running \in Nat \cup {None}
  <2>1. CASE m \in DOMAIN machines
    <3>1. machines[m] \in MachineStatus
      BY <2>1, Types, MapAt
    <3> QED
      BY <2>1, <3>1 DEF MachineStatus
  <2>2. CASE m \notin DOMAIN machines
    BY <2>2
  <2> QED BY <2>1, <2>2
<1>2. st \in MachineStatus
  BY <1>1, BoundAssumption DEF MachineStatus, MachineClass
<1>3. IsMap(machines', Machines, MachineStatus)
  <2>1. machines' = Put(machines, m, st)
    BY DEF MakeAvailable
  <2> HIDE DEF st
  <2> QED
    BY <1>2, <2>1, Types, PutMap
<1>4. requests' \in 0..MaxRequests
  BY AcceptTyping DEF MakeAvailable, Handle
<1> QED
  BY <1>3, <1>4, Wider, Types, SharedStep, PlacedFrame, WorkerFrame, ListenerFrame
     DEF MakeAvailable, Unaffected

(* What cancel_job leaves of a task.                                       *)
LEMMA CancelTyping ==
    ASSUME Typing, NEW j \in DOMAIN tasks, NEW how \in {"keep", "remove"}, Cancel(j, how),
           Unaffected, IsMap(machines', Machines, MachineStatus),
           requests' \in 0..MaxRequests, UNCHANGED <<matrices, tags, next_jid, listener, panicked>>
    PROVE  Typing'
<1> DEFINE t == [tasks[j] EXCEPT !.canceled = how]
<1>1. tasks[j] \in Task /\ HasMachine(tasks[j]) /\ j \in Issued
  BY Types, MapAt DEF Typing, Placed
<1>2. t \in Task /\ HasMachine(t)
  BY <1>1 DEF Task, HasMachine
<1>3. tasks' = [tasks EXCEPT ![j] = t] /\ live_tasks' \subseteq Issued
  BY <1>1, Types DEF Cancel
<1> QED
  BY <1>2, <1>3, Types, TaskRequest

(* RemoveAvailable preserves Typing.                                       *)
LEMMA RemoveAvailableTyping ==
    ASSUME Typing, NEW m, RemoveAvailable(m) PROVE Typing'
<1>1. requests' \in 0..MaxRequests
  BY AcceptTyping DEF RemoveAvailable, Handle
<1>2. IsMap(machines', Machines, MachineStatus)
  BY Types, DropMap DEF RemoveAvailable
<1>3. CASE machines[m].running \in DOMAIN tasks
  BY <1>1, <1>2, <1>3, CancelTyping DEF RemoveAvailable
<1>4. CASE machines[m].running \notin DOMAIN tasks
  BY <1>1, <1>2, <1>4, Wider, Types, SharedStep, PlacedFrame, WorkerFrame, ListenerFrame
     DEF RemoveAvailable, Unaffected
<1> QED BY <1>3, <1>4

(* CancelJob preserves Typing.                                             *)
LEMMA CancelJobTyping ==
    ASSUME Typing, NEW j \in DOMAIN tasks, NEW how \in {"keep", "remove"}, CancelJob(j, how)
    PROVE  Typing'
BY AcceptTyping, Types, CancelTyping DEF CancelJob, Handle

(* HoldJob preserves Typing.                                               *)
LEMMA HoldJobTyping == ASSUME Typing, NEW j \in DOMAIN tasks, HoldJob(j) PROVE Typing'
<1> DEFINE t == [tasks[j] EXCEPT !.state = "Held"]
<1>1. tasks[j] \in Task /\ HasMachine(tasks[j])
  BY Types, MapAt DEF Typing, Placed
<1>2. t \in Task /\ HasMachine(t)
  BY <1>1 DEF Task, TaskState, Holding, HasMachine
<1> QED
  BY <1>2, AcceptTyping, Types, TaskRequest DEF HoldJob, Handle

(* UnholdJob preserves Typing.                                             *)
LEMMA UnholdJobTyping == ASSUME Typing, NEW j \in DOMAIN tasks, UnholdJob(j) PROVE Typing'
<1> DEFINE t == [tasks[j] EXCEPT !.state = "Waiting"]
<1>1. tasks[j] \in Task /\ HasMachine(tasks[j])
  BY Types, MapAt DEF Typing, Placed
<1>2. t \in Task /\ HasMachine(t)
  BY <1>1 DEF Task, TaskState, Holding, HasMachine
<1> QED
  BY <1>2, AcceptTyping, Types, TaskRequest DEF UnholdJob, Handle

(* AddJobTimeout preserves Typing.                                         *)
LEMMA AddJobTimeoutTyping ==
    ASSUME Typing, NEW j \in DOMAIN tasks, AddJobTimeout(j) PROVE Typing'
<1> DEFINE t == [tasks[j] EXCEPT !.timeout = TRUE]
<1>1. tasks[j] \in Task /\ HasMachine(tasks[j])
  BY Types, MapAt DEF Typing, Placed
<1>2. t \in Task /\ HasMachine(t)
  BY <1>1 DEF Task, HasMachine
<1> QED
  BY <1>2, AcceptTyping, Types, TaskRequest DEF AddJobTimeout, Handle

(* TagJob preserves Typing.                                                *)
LEMMA TagJobTyping ==
    ASSUME Typing, NEW j \in DOMAIN tasks, NEW g \in DOMAIN tags, TagJob(j, g)
    PROVE  Typing'
<1> DEFINE t == [tasks[j] EXCEPT !.tag = g]
<1>1. tasks[j] \in Task /\ HasMachine(tasks[j]) /\ j \in Issued /\ g \in Issued
      /\ tags[g] \in SUBSET Nat
  BY Types, MapAt DEF Typing, Placed
<1>2. j \in Nat /\ g \in Nat
  BY <1>1, Types DEF Issued
<1>3. t \in Task /\ HasMachine(t)
  BY <1>1, <1>2 DEF Task, HasMachine
<1>4. IsMap(tags', Issued, SUBSET Nat)
  BY <1>1, <1>2, Types, SetMap DEF TagJob
<1> QED
  BY <1>3, <1>4, AcceptTyping, Types, TaskRequest DEF TagJob, Handle

(* UntagJob preserves Typing.                                              *)
LEMMA UntagJobTyping == ASSUME Typing, NEW j \in DOMAIN tasks, UntagJob(j) PROVE Typing'
<1> DEFINE g == tasks[j].tag
           t == [tasks[j] EXCEPT !.tag = None]
<1>1. tasks[j] \in Task /\ HasMachine(tasks[j])
  BY Types, MapAt DEF Typing, Placed
<1>2. t \in Task /\ HasMachine(t)
  BY <1>1 DEF Task, HasMachine
<1>3. CASE g \in DOMAIN tags
  <2>1. tags[g] \in SUBSET Nat
    BY <1>3, Types, MapAt
  <2>2. IsMap(tags', Issued, SUBSET Nat)
    BY <1>3, <2>1, Types, SetMap DEF UntagJob
  <2> QED
    BY <1>2, <1>3, <2>2, AcceptTyping, Types, TaskRequest DEF UntagJob, Handle
<1>4. CASE g \notin DOMAIN tags
  BY <1>4, AcceptTyping, Wider, Types, SharedStep, PlacedFrame, WorkerFrame, ListenerFrame
     DEF UntagJob, Unaffected, Handle
<1> QED BY <1>3, <1>4

(* CloneJob preserves Typing.                                              *)
LEMMA CloneJobTyping == ASSUME Typing, NEW j \in DOMAIN tasks, CloneJob(j) PROVE Typing'
<1> DEFINE t == CloneTask(tasks[j])
<1>1. t \in Task /\ HasMachine(t)
  BY Types, MapAt, CloneTaskType
<1>2. next_jid' = next_jid + 1 /\ Unaffected /\ UNCHANGED <<machines, listener>>
  BY DEF CloneJob
<1>3. requests' \in 0..MaxRequests
  BY AcceptTyping DEF CloneJob, Handle
<1>4. CASE RefsResolve(t)
  <2>1. InsertClone(next_jid, t) /\ UNCHANGED panicked
    BY <1>4 DEF CloneJob
  <2> HIDE DEF t
  <2>2. /\ IsMap(tasks', Issued', Task) /\ IsMap(matrices', Issued', SUBSET Nat)
        /\ IsMap(tags', Issued', SUBSET Nat) /\ live_tasks' \subseteq Issued'
        /\ Placed' /\ DOMAIN tasks \subseteq DOMAIN tasks'
    BY <1>1, <1>2, <2>1, InsertCloneTyping
  <2> QED
    BY <1>2, <1>3, <2>1, <2>2, Types, SharedStep, WorkerFrame, ListenerFrame DEF Unaffected
<1>5. CASE ~RefsResolve(t)
  <2>1. panicked' = TRUE /\ UNCHANGED <<tasks, live_tasks, matrices, tags>>
    BY <1>5 DEF CloneJob
  <2> QED
    BY <1>2, <1>3, <2>1, Wider, Types, SharedStep, PlacedFrame, WorkerFrame, ListenerFrame
       DEF Unaffected
<1> QED BY <1>4, <1>5

-----------------------------------------------------------------------------
(* The requests in several critical sections: the ids they take.           *)
LEMMA AllocateTyping ==
    ASSUME Typing, NEW point \in {"insert_task", "insert_tagged", "insert_tag"},
           NEW task \in Task \cup {None}, point # "insert_tag" => FreshTask(task),
           Allocate(point, task), listener.at = "idle", requests' \in 0..MaxRequests
    PROVE  Typing'
<1>1. next_jid' = next_jid + 1 /\ next_jid \in Nat /\ listener \in Listener
  BY Types DEF Allocate
<1>0. listener.matrix = None
  BY DEF Typing, ListenerTyped
<1>2. /\ listener' \in Listener /\ listener'.at = point /\ listener'.jid = next_jid
      /\ listener'.task = task /\ listener'.matrix = None
  BY <1>0, <1>1 DEF Allocate, Listener
<1>3. ListenerTyped'
  BY <1>1, <1>2, Wider DEF ListenerTyped
<1> QED
  BY <1>1, <1>2, <1>3, Wider, Types, SharedStep, PlacedFrame, WorkerFrame
     DEF Allocate, Unaffected

(* AddJob preserves Typing.                                                *)
LEMMA AddJobTyping == ASSUME Typing, NEW spec \in JobSpecs, AddJob(spec) PROVE Typing'
<1>1. FreshTask(NewTask(spec, None, None, None))
  BY SpecAssumption, NewTaskType
<1> QED
  BY <1>1, AcceptTyping, AllocateTyping DEF FreshTask, AddJob

(* AddTaggedJob preserves Typing.                                          *)
LEMMA AddTaggedJobTyping ==
    ASSUME Typing, NEW spec \in JobSpecs, NEW t \in Nat, AddTaggedJob(spec, t)
    PROVE  Typing'
<1>1. FreshTask(NewTask(spec, None, None, t))
  BY SpecAssumption, NewTaskType
<1> QED
  BY <1>1, AcceptTyping, AllocateTyping DEF FreshTask, AddTaggedJob

(* SetUpMachine preserves Typing.                                          *)
LEMMA SetUpMachineTyping ==
    ASSUME Typing, NEW spec \in SetupSpecs, NEW m \in Machines, SetUpMachine(spec, m)
    PROVE  Typing'
<1>1. FreshTask(NewTask(spec, m, None, None))
  BY SpecAssumption, NewTaskType
<1> QED
  BY <1>1, AcceptTyping, AllocateTyping DEF FreshTask, SetUpMachine

(* AddTag preserves Typing.                                                *)
LEMMA AddTagTyping == ASSUME Typing, AddTag PROVE Typing'
BY AcceptTyping, AllocateTyping DEF AddTag

(* AddMatrix preserves Typing.                                             *)
LEMMA AddMatrixTyping ==
    ASSUME Typing, NEW spec \in JobSpecs, NEW n \in MatrixSizes, AddMatrix(spec, n)
    PROVE  Typing'
<1> DEFINE job == [spec EXCEPT !.repeat_on_fail = TRUE]
           task == NewTask(job, None, next_jid, None)
<1>1. next_jid' = next_jid + 1 /\ next_jid \in Nat /\ n \in Nat
  BY Types, BoundAssumption DEF AddMatrix
<1>2. FreshTask(task)
  <2>1. job \in JobSpec
    BY SpecAssumption DEF JobSpec
  <2> HIDE DEF job
  <2> QED
    BY <1>1, <2>1, NewTaskType
<1>3. listener' = [at |-> "matrix", jid |-> None, matrix |-> next_jid, left |-> n,
                   jids |-> {}, task |-> task]
  BY DEF AddMatrix
<1> HIDE DEF task
<1>4. listener' \in Listener
  BY <1>1, <1>2, <1>3 DEF Listener, FreshTask
<1>5. ListenerTyped'
  BY <1>1, <1>2, <1>3, NoneAssumption, Wider DEF ListenerTyped
<1>6. requests' \in 0..MaxRequests
  BY AcceptTyping DEF AddMatrix
<1> QED
  BY <1>1, <1>4, <1>5, <1>6, Wider, Types, SharedStep, PlacedFrame, WorkerFrame
     DEF AddMatrix, Unaffected

(* Taking up any request preserves Typing.                                 *)
LEMMA NewRequestTyping == ASSUME Typing, NewRequest PROVE Typing'
<1>1. 0..next_jid \subseteq Nat
  BY Types
<1> QED
  BY <1>1, RemoveAvailableTyping, MakeAvailableTyping, CancelJobTyping, HoldJobTyping,
     UnholdJobTyping, AddJobTimeoutTyping, CloneJobTyping, TagJobTyping, UntagJobTyping,
     AddJobTyping, AddTaggedJobTyping, AddMatrixTyping, SetUpMachineTyping, AddTagTyping
     DEF NewRequest

-----------------------------------------------------------------------------
(* ... and what they do with them. *)
LEMMA MatrixAllocateTyping == ASSUME Typing, MatrixAllocate PROVE Typing'
<1>1. /\ next_jid' = next_jid + 1 /\ next_jid \in Nat /\ listener \in Listener
      /\ listener.at = "matrix" /\ listener.left > 0 /\ FreshTask(listener.task)
      /\ listener.matrix # None /\ listener.matrix \in Issued
  BY Types DEF MatrixAllocate, Resume, Typing, ListenerTyped
<1>2. /\ listener' \in Listener /\ listener'.at = "insert_task"
      /\ listener'.jid = next_jid /\ listener'.task = listener.task
      /\ listener'.matrix = listener.matrix
  <2>1. listener.left - 1 \in Nat /\ listener.jids \cup {next_jid} \subseteq Nat
    BY <1>1 DEF Listener
  <2> QED
    BY <1>1, <2>1 DEF MatrixAllocate, Listener
<1>3. ListenerTyped'
  BY <1>1, <1>2, Wider DEF ListenerTyped
<1> QED
  BY <1>1, <1>2, <1>3, Wider, Types, SharedStep, PlacedFrame, WorkerFrame
     DEF MatrixAllocate, Resume, Unaffected

(* InsertTask preserves Typing.                                            *)
LEMMA InsertTaskTyping == ASSUME Typing, InsertTask PROVE Typing'
<1>1. /\ listener \in Listener /\ listener.at = "insert_task" /\ FreshTask(listener.task)
      /\ listener.jid \in Issued
  BY Types DEF InsertTask, Resume, Typing, ListenerTyped
<1>2. /\ listener' \in Listener /\ listener'.at = "insert_live"
      /\ listener'.jid = listener.jid /\ listener'.task = listener.task
      /\ listener'.matrix = listener.matrix
  BY <1>1 DEF InsertTask, Listener
<1>3. ListenerTyped'
  BY <1>1, <1>2 DEF InsertTask, Typing, ListenerTyped, Issued
<1>4. /\ IsMap(tasks', Issued, Task) /\ Placed' /\ DOMAIN tasks \subseteq DOMAIN tasks'
      /\ next_jid' = next_jid
  <2>1. tasks' = Put(tasks, listener.jid, listener.task) /\ next_jid' = next_jid
    BY DEF InsertTask
  <2>2. IsMap(tasks', Issued, Task)
    BY <1>1, <2>1, Types, PutMap DEF FreshTask
  <2>3. Placed' /\ DOMAIN tasks \subseteq DOMAIN tasks'
    BY <1>1, <2>1 DEF Typing, Placed, Put, FreshTask
  <2> QED BY <2>1, <2>2, <2>3
<1>5. IsMap(tasks', Issued', Task)
  BY <1>4 DEF Issued
<1> QED
  BY <1>2, <1>3, <1>4, <1>5, Wider, Types, SharedStep, WorkerFrame
     DEF InsertTask, Resume, Unaffected

(* InsertLive preserves Typing.                                            *)
LEMMA InsertLiveTyping == ASSUME Typing, InsertLive PROVE Typing'
<1>1. /\ listener \in Listener /\ listener.at = "insert_live" /\ listener.jid \in Issued
      /\ next_jid' = next_jid
  BY Types DEF InsertLive, Resume, Typing, ListenerTyped
<1>2. listener' \in Listener /\ ListenerTyped'
  <2>1. CASE listener.matrix = None
    <3>1. listener' = IdleListener
      BY <2>1 DEF InsertLive
    <3> QED
      BY <3>1 DEF IdleListener, Listener, ListenerTyped
  <2>2. CASE listener.matrix # None
    <3>1. /\ listener' \in Listener /\ listener'.at = "matrix"
          /\ listener'.task = listener.task /\ listener'.matrix = listener.matrix
      BY <1>1, <2>2 DEF InsertLive, Listener
    <3> QED
      BY <1>1, <2>2, <3>1 DEF Typing, ListenerTyped, Issued
  <2> QED BY <2>1, <2>2
<1>3. live_tasks' \subseteq Issued'
  BY <1>1, Types DEF InsertLive, Issued
<1> QED
  BY <1>1, <1>2, <1>3, Wider, Types, SharedStep, PlacedFrame, WorkerFrame
     DEF InsertLive, Resume, Unaffected

(* The listener between requests is well-formed.                           *)
LEMMA IdleListenerTyped == IdleListener \in Listener
                           /\ (listener' = IdleListener => ListenerTyped')
BY DEF IdleListener, Listener, ListenerTyped

(* PublishMatrix preserves Typing.                                         *)
LEMMA PublishMatrixTyping == ASSUME Typing, PublishMatrix PROVE Typing'
<1>1. /\ listener \in Listener /\ listener.matrix \in Issued /\ listener.jids \subseteq Nat
      /\ next_jid' = next_jid
  BY Types DEF PublishMatrix, Resume, Typing, ListenerTyped, Listener
<1>2. IsMap(matrices', Issued', SUBSET Nat)
  <2>1. IsMap(matrices', Issued, SUBSET Nat)
    BY <1>1, Types, PutMap DEF PublishMatrix
  <2> QED
    BY <1>1, <2>1 DEF Issued
<1> QED
  BY <1>1, <1>2, Wider, Types, SharedStep, PlacedFrame, WorkerFrame, IdleListenerTyped
     DEF PublishMatrix, Resume, Unaffected

(* InsertTagged preserves Typing.                                          *)
LEMMA InsertTaggedTyping == ASSUME Typing, InsertTagged PROVE Typing'
<1> DEFINE g == listener.task.tag
<1>1. /\ listener.jid \in Issued /\ FreshTask(listener.task) /\ next_jid' = next_jid
      /\ listener.jid \in Nat
  BY Types DEF InsertTagged, Resume, Typing, ListenerTyped, Issued
<1>2. CASE g \in DOMAIN tags
  <2>1. /\ tasks' = Put(tasks, listener.jid, listener.task)
        /\ tags' = [tags EXCEPT ![g] = @ \cup {listener.jid}]
        /\ live_tasks' = live_tasks \cup {listener.jid}
    BY <1>2 DEF InsertTagged
  <2>2. IsMap(tasks', Issued, Task) /\ live_tasks' \subseteq Issued
    BY <1>1, <2>1, Types, PutMap DEF FreshTask
  <2>3. tags[g] \in SUBSET Nat
    BY <1>2, Types, MapAt
  <2>4. IsMap(tags', Issued, SUBSET Nat)
    BY <1>1, <1>2, <2>1, <2>3, Types, SetMap
  <2>5. Placed' /\ DOMAIN tasks \subseteq DOMAIN tasks'
    BY <1>1, <2>1 DEF Typing, Placed, Put, FreshTask
  <2>6. /\ IsMap(tasks', Issued', Task) /\ live_tasks' \subseteq Issued'
        /\ IsMap(tags', Issued', SUBSET Nat)
    BY <1>1, <2>2, <2>4 DEF Issued
  <2> QED
    BY <1>1, <2>5, <2>6, Wider, Types, SharedStep, WorkerFrame, IdleListenerTyped
       DEF InsertTagged, Resume, Unaffected
<1>3. CASE g \notin DOMAIN tags
  BY <1>1, <1>3, Wider, Types, SharedStep, PlacedFrame, WorkerFrame, IdleListenerTyped
     DEF InsertTagged, Resume, Unaffected
<1> QED BY <1>2, <1>3

(* InsertTag preserves Typing.                                             *)
LEMMA InsertTagTyping == ASSUME Typing, InsertTag PROVE Typing'
<1>1. listener.jid \in Issued /\ next_jid' = next_jid
  BY DEF InsertTag, Resume, Typing, ListenerTyped
<1>2. IsMap(tags', Issued', SUBSET Nat)
  <2>1. IsMap(tags', Issued, SUBSET Nat)
    BY <1>1, Types, PutMap DEF InsertTag
  <2> QED
    BY <1>1, <2>1 DEF Issued
<1> QED
  BY <1>1, <1>2, Wider, Types, SharedStep, PlacedFrame, WorkerFrame, IdleListenerTyped
     DEF InsertTag, Resume, Unaffected

(* Any later critical section of a request preserves Typing.               *)
LEMMA FinishRequestTyping == ASSUME Typing, FinishRequest PROVE Typing'
BY MatrixAllocateTyping, InsertTaskTyping, InsertLiveTyping, PublishMatrixTyping,
   InsertTaggedTyping, InsertTagTyping DEF FinishRequest

-----------------------------------------------------------------------------
(* Every step of the server, and a stutter, preserves Typing.              *)
LEMMA StepTyping == Typing /\ [Next]_vars => Typing'
<1> SUFFICES ASSUME Typing, [Next]_vars PROVE Typing'
  OBVIOUS
<1>1. CASE Next
  BY <1>1, WorkThreadStepTyping, NewRequestTyping, FinishRequestTyping, EnvironmentTyping
     DEF Next
<1>2. CASE UNCHANGED vars
  <2>1. TypeOK'
    BY <1>2, Types DEF TypeOK, vars, shared, Issued
  <2> QED
    BY <1>2, <2>1, PlacedFrame, WorkerFrame, ListenerFrame DEF Typing, vars, shared
<1> QED BY <1>1, <1>2

(* The server never leaves Typing, whatever the constants are.             *)
THEOREM TypingInvariant == Spec => []Typing
BY InitTyping, StepTyping, PTL DEF Spec

(* Every map holds only well-formed entries, for ids already handed out,   *)
(* however requests, drives and exits interleave.                          *)
THEOREM TypeCorrect == Spec => []TypeOK
<1>1. Typing => TypeOK
  BY DEF Typing
<1> QED BY <1>1, TypingInvariant, PTL

(* Task::status (request.rs:77) never unwraps a missing machine.           *)
THEOREM StatusNeverPanics == Spec => []StatusHasMachine
<1>1. Typing => StatusHasMachine
  BY DEF Typing, Placed, HasMachine, StatusHasMachine
<1> QED BY <1>1, TypingInvariant, PTL

-----------------------------------------------------------------------------
(* Safety invariants of Server, each with the inductive invariant it       *)
(* needs: of every task, that it is driven, that its process is known,     *)
(* that its retries are bounded and that its copy is not lost (Safe); of   *)
(* every machine, that what it is said to be running will free it (Kept);  *)
(* of matrices and tags, that they list the tasks that name them and no    *)
(* others (Exact, Grouped).                                                *)

(* The inductive invariant.  It adds to the four properties: nothing left  *)
(* to drive was taken out of live_tasks in the meantime; process info      *)
(* belongs to tasks, none of them about to be reaped; an id the listener   *)
(* holds is not in use, and the task it holds has not been tried; what is  *)
(* to be cloned may be retried.                                            *)
TodoLive == worker.at = "drive" => worker.todo \subseteq live_tasks

HandlesOfTasks == /\ DOMAIN handles \subseteq DOMAIN tasks
                  /\ worker.to_remove \cap DOMAIN handles = {}

Untried(t) == t.state = "Waiting" /\ t.attempt = 0

ListenerFresh ==
    /\ listener.at \in {"insert_task", "insert_tagged"} => listener.jid \notin DOMAIN tasks
    /\ listener.at \in {"insert_task", "insert_tagged", "matrix"} => Untried(listener.task)
    /\ listener.at = "insert_live" /\ listener.matrix # None => Untried(listener.task)

ClonesAllowed == \A j \in worker.to_clone : MayRetry(tasks[j])

Safe == /\ LiveCoversActive /\ RunningIffProcess /\ RetryBound /\ NoLostCopy
        /\ TodoLive /\ HandlesOfTasks /\ ListenerFresh /\ ClonesAllowed

-----------------------------------------------------------------------------
(* Initially there is no task and no process (Server::new).                *)
LEMMA InitSafe == Init => Safe
<1> SUFFICES ASSUME Init PROVE Safe OBVIOUS
<1>1. /\ DOMAIN tasks = {} /\ DOMAIN handles = {}
      /\ listener.at = "idle" /\ worker.at = "idle" /\ worker.to_clone = {}
  BY DEF Init, EmptyMap, InitWorker, IdleListener
<1> QED
  BY <1>1 DEF Safe, LiveCoversActive, RunningIffProcess, RetryBound, NoLostCopy, TodoLive,
              HandlesOfTasks, ListenerFresh, ClonesAllowed

(* A step that leaves the tasks alone and takes nothing away from them.    *)
LEMMA SameTasks ==
    ASSUME Typing, Safe, UNCHANGED tasks,
           live_tasks \cap DOMAIN tasks \subseteq live_tasks',
           DOMAIN handles' = DOMAIN handles,
           \A k \in DOMAIN handles : handles'[k] = "running" => handles[k] = "running",
           copying \cup DOMAIN copying_flags \subseteq copying' \cup DOMAIN copying_flags',
           worker'.at = "drive" => worker'.todo \subseteq live_tasks',
           worker'.to_clone \subseteq worker.to_clone,
           worker'.to_remove \subseteq worker.to_remove,
           listener.at = "insert_live" => listener' = listener \/ listener.jid \in live_tasks',
           ListenerFresh'
    PROVE  Safe'
<1>1. LiveCoversActive'
  BY DEF Safe, LiveCoversActive
<1>2. RunningIffProcess' /\ HandlesOfTasks'
  BY DEF Safe, RunningIffProcess, HandlesOfTasks
<1>3. RetryBound' /\ NoLostCopy' /\ TodoLive' /\ ClonesAllowed'
  BY DEF Safe, RetryBound, NoLostCopy, TodoLive, ClonesAllowed
<1> QED
  BY <1>1, <1>2, <1>3 DEF Safe

(* A step that replaces one task.  What the four properties ask of it has  *)
(* to be shown; the other tasks lose nothing.                              *)
LEMMA OneTask ==
    ASSUME Typing, Safe, NEW j \in DOMAIN tasks, NEW t,
           tasks' = [tasks EXCEPT ![j] = t], UNCHANGED listener,
           t.job = tasks[j].job, t.attempt = tasks[j].attempt,
           live_tasks \ {j} \subseteq live_tasks',
           t.state \notin Terminal \/ t.canceled # None =>
               j \in live_tasks' \/ (listener.at = "insert_live" /\ listener.jid = j),
           DOMAIN handles' \ {j} = DOMAIN handles \ {j},
           \A k \in DOMAIN handles \ {j} : handles'[k] = handles[k],
           t.state = "Running" => j \in DOMAIN handles',
           j \in DOMAIN handles' /\ handles'[j] = "running" => t.state = "Running",
           (copying \cup DOMAIN copying_flags) \ {j} \subseteq copying' \cup DOMAIN copying_flags',
           t.state = "CopyingResults" => j \in copying' \cup DOMAIN copying_flags',
           worker'.at = worker.at, worker'.todo \subseteq worker.todo,
           worker.at = "drive" /\ j \notin live_tasks' => j \notin worker'.todo,
           worker'.to_clone \subseteq worker.to_clone \cup {j},
           j \in worker'.to_clone => MayRetry(t),
           worker'.to_remove \subseteq worker.to_remove \cup {j},
           j \in worker'.to_remove => j \notin DOMAIN handles'
    PROVE  Safe'
<1>1. DOMAIN tasks' = DOMAIN tasks /\ tasks'[j] = t
  BY Types DEF IsMap
<1>2. \A k \in DOMAIN tasks \ {j} : tasks'[k] = tasks[k]
  BY Types DEF IsMap
<1>3. LiveCoversActive'
  BY <1>1, <1>2 DEF Safe, LiveCoversActive
<1>4. RunningIffProcess'
  BY <1>1, <1>2 DEF Safe, RunningIffProcess
<1>5. HandlesOfTasks'
  BY <1>1 DEF Safe, HandlesOfTasks
<1>6. RetryBound'
  BY <1>1, <1>2 DEF Safe, RetryBound
<1>7. NoLostCopy'
  BY <1>1, <1>2 DEF Safe, NoLostCopy
<1>8. TodoLive'
  BY DEF Safe, TodoLive
<1>9. ListenerFresh'
  BY <1>1 DEF Safe, ListenerFresh
<1>10. ClonesAllowed'
  BY <1>1, <1>2, Types DEF Safe, ClonesAllowed, Typing, WorkerTyped
<1> QED
  BY <1>3, <1>4, <1>5, <1>6, <1>7, <1>8, <1>9, <1>10 DEF Safe

(* A step that adds a task that waits.                                     *)
LEMMA NewTaskStep ==
    ASSUME Typing, Safe, NEW n, n \notin DOMAIN tasks, NEW t, tasks' = Put(tasks, n, t),
           t.state = "Waiting",
           t.attempt > 0 => /\ t.job.repeat_on_fail
                            /\ t.job.maximum_failures # None
                                 => t.attempt <= t.job.maximum_failures,
           live_tasks \subseteq live_tasks',
           n \in live_tasks' \/ (listener'.at = "insert_live" /\ listener'.jid = n),
           listener.at = "insert_live" => listener' = listener, ListenerFresh',
           UNCHANGED <<handles, copying, copying_flags>>,
           worker'.at = worker.at, worker'.todo \subseteq worker.todo,
           worker'.to_clone \subseteq worker.to_clone, worker'.to_remove = worker.to_remove
    PROVE  Safe'
<1>1. DOMAIN tasks' = DOMAIN tasks \cup {n} /\ tasks'[n] = t
  BY DEF Put
<1>2. \A k \in DOMAIN tasks : tasks'[k] = tasks[k]
  BY DEF Put
<1>3. LiveCoversActive'
  BY <1>1, <1>2 DEF Safe, LiveCoversActive
<1>4. RunningIffProcess' /\ HandlesOfTasks'
  BY <1>1, <1>2 DEF Safe, RunningIffProcess, HandlesOfTasks
<1>5. RetryBound'
  BY <1>1, <1>2 DEF Safe, RetryBound
<1>6. NoLostCopy' /\ TodoLive'
  BY <1>1, <1>2 DEF Safe, NoLostCopy, TodoLive
<1>7. ClonesAllowed'
  BY <1>1, <1>2 DEF Safe, ClonesAllowed, Typing, WorkerTyped
<1> QED
  BY <1>3, <1>4, <1>5, <1>6, <1>7 DEF Safe

(* What a task that is being driven can count on.                          *)
LEMMA DrivenSafe ==
    ASSUME Typing, Safe, NEW j, Driving(j)
    PROVE  /\ j \in DOMAIN tasks /\ j \in live_tasks /\ j \in worker.todo
           /\ tasks[j] \in Task /\ worker \in Worker
           /\ worker.at = "drive" /\ j \notin worker.to_clone \cup worker.to_remove
           /\ tasks[j].state = "Running" => j \in DOMAIN handles
           /\ j \in DOMAIN handles /\ handles[j] = "running" => tasks[j].state = "Running"
           /\ tasks[j].state = "CopyingResults" => j \in copying \cup DOMAIN copying_flags
BY Driven, Types DEF Safe, TodoLive, RunningIffProcess, NoLostCopy

(* How the driven task leaves the list, when nothing is cloned or removed. *)
LEMMA Returned ==
    ASSUME Typing, NEW j, NEW b \in BOOLEAN, Return(j, b)
    PROVE  /\ worker'.at = worker.at /\ worker'.todo = worker.todo \ {j}
           /\ worker'.to_clone = worker.to_clone /\ worker'.to_remove = worker.to_remove
BY Types DEF Return, Worker

-----------------------------------------------------------------------------
(* DriveHeld, NoMachine, StillCopying: nothing happens to the task.        *)
LEMMA IdleDriveSafe ==
    ASSUME Typing, Safe, NEW j, Driving(j), NEW b \in BOOLEAN, Return(j, b),
           UNCHANGED <<shared, handles, copying, copying_flags, listener>>
    PROVE  Safe'
<1>1. ListenerFresh' /\ (worker'.at = "drive" => worker'.todo \subseteq live_tasks')
  BY Returned, DrivenSafe DEF Safe, ListenerFresh, TodoLive, shared
<1> QED
  BY <1>1, Returned, SameTasks DEF shared

(* A job that is started gets a process, or goes to Error without one.     *)
LEMMA StartSafe ==
    ASSUME Typing, Safe, NEW j, NEW m \in Machines, NEW spawned \in BOOLEAN,
           Start(j, m, spawned)
    PROVE  Safe'
<1> DEFINE t == Launched(tasks[j], m, spawned)
<1>1. Driving(j) /\ tasks' = [tasks EXCEPT ![j] = t] /\ StateOf(j) = "Waiting"
  BY DEF Start
<1>2. /\ t.job = tasks[j].job /\ t.attempt = tasks[j].attempt
      /\ t.state = IF spawned THEN "Running" ELSE "Error"
  BY <1>1, DrivenSafe DEF Launched, Task
<1>3. tasks[j].state = "Waiting"
  BY <1>1 DEF StateOf
<1>4. /\ handles' = IF spawned THEN Put(handles, j, "running") ELSE handles
      /\ UNCHANGED <<live_tasks, copying, copying_flags, listener>> /\ Return(j, TRUE)
  BY DEF Start
<1>5. /\ DOMAIN handles' \ {j} = DOMAIN handles \ {j}
      /\ \A k \in DOMAIN handles \ {j} : handles'[k] = handles[k]
      /\ t.state = "Running" => j \in DOMAIN handles'
      /\ j \in DOMAIN handles' /\ handles'[j] = "running" => t.state = "Running"
  BY <1>1, <1>2, <1>3, <1>4, DrivenSafe DEF Put
<1> HIDE DEF t
<1> QED
  BY <1>1, <1>2, <1>4, <1>5, DrivenSafe, Returned, OneTask

(* The last command is over: the process has exited.                       *)
LEMMA AllCommandsDoneSafe ==
    ASSUME Typing, Safe, NEW j, AllCommandsDone(j) PROVE Safe'
<1> DEFINE t == [tasks[j] EXCEPT !.state = "CheckingResults", !.index = 0]
<1>1. /\ Driving(j) /\ tasks' = [tasks EXCEPT ![j] = t] /\ handles[j] = "ok"
      /\ UNCHANGED <<live_tasks, handles, copying, copying_flags, listener>> /\ Return(j, TRUE)
  BY DEF AllCommandsDone, Polled
<1>2. /\ t.job = tasks[j].job /\ t.attempt = tasks[j].attempt
      /\ t.state = "CheckingResults"
  BY <1>1, DrivenSafe DEF Task
<1> HIDE DEF t
<1> QED
  BY <1>1, <1>2, DrivenSafe, Returned, OneTask

(* The next command takes the place of the one that exited.                *)
LEMMA NextCommandSafe ==
    ASSUME Typing, Safe, NEW j, NEW spawned \in BOOLEAN, NextCommand(j, spawned)
    PROVE  Safe'
<1> DEFINE t == Advanced(tasks[j], spawned)
<1>1. /\ Driving(j) /\ tasks' = [tasks EXCEPT ![j] = t] /\ handles[j] = "ok"
      /\ handles' = IF spawned THEN Put(handles, j, "running") ELSE handles
      /\ UNCHANGED <<live_tasks, copying, copying_flags, listener>> /\ Return(j, TRUE)
  BY DEF NextCommand, Polled
<1>2. /\ t.job = tasks[j].job /\ t.attempt = tasks[j].attempt
      /\ t.state = IF spawned THEN "Running" ELSE "Error"
  BY <1>1, DrivenSafe DEF Advanced, Task
<1>3. /\ DOMAIN handles' \ {j} = DOMAIN handles \ {j}
      /\ \A k \in DOMAIN handles \ {j} : handles'[k] = handles[k]
      /\ t.state = "Running" => j \in DOMAIN handles'
      /\ j \in DOMAIN handles' /\ handles'[j] = "running" => t.state = "Running"
  BY <1>1, <1>2, DrivenSafe DEF Put
<1> HIDE DEF t
<1> QED
  BY <1>1, <1>2, <1>3, DrivenSafe, Returned, OneTask

(* A command that failed has exited.                                       *)
LEMMA CommandFailedSafe ==
    ASSUME Typing, Safe, NEW j, CommandFailed(j) PROVE Safe'
<1> DEFINE t == [tasks[j] EXCEPT !.state = "Error"]
<1>1. /\ Driving(j) /\ tasks' = [tasks EXCEPT ![j] = t] /\ handles[j] = "fail"
      /\ UNCHANGED <<live_tasks, handles, copying, copying_flags, listener>> /\ Return(j, TRUE)
  BY DEF CommandFailed, Polled
<1>2. t.job = tasks[j].job /\ t.attempt = tasks[j].attempt /\ t.state = "Error"
  BY <1>1, DrivenSafe DEF Task
<1> HIDE DEF t
<1> QED
  BY <1>1, <1>2, DrivenSafe, Returned, OneTask

(* A task that times out is still running, and still live.                 *)
LEMMA TimeOutSafe ==
    ASSUME Typing, Safe, NEW j, TimeOut(j) PROVE Safe'
<1> DEFINE t == [tasks[j] EXCEPT !.timedout = tasks[j].index, !.canceled = "keep"]
<1>1. /\ Driving(j) /\ tasks' = [tasks EXCEPT ![j] = t] /\ StateOf(j) = "Running"
      /\ UNCHANGED <<live_tasks, handles, copying, copying_flags, listener>> /\ Return(j, TRUE)
  BY DEF TimeOut, Polled
<1>2. t.job = tasks[j].job /\ t.attempt = tasks[j].attempt /\ t.state = tasks[j].state
  BY <1>1, DrivenSafe DEF Task
<1> HIDE DEF t
<1> QED
  BY <1>1, <1>2, DrivenSafe, Returned, OneTask

(* A Running task has process info, so expect() does not panic.            *)
LEMMA StillRunningSafe ==
    ASSUME Typing, Safe, NEW j, StillRunning(j) PROVE Safe'
<1>1. Driving(j) /\ StateOf(j) = "Running"
  BY DEF StillRunning
<1>2. tasks[j].state = "Running"
  BY <1>1 DEF StateOf
<1>3. Return(j, FALSE)
  BY <1>1, <1>2, DrivenSafe DEF StillRunning
<1> QED
  BY <1>1, <1>3, IdleDriveSafe DEF StillRunning

(* A task only starts to wait for a copy that it has just requested.       *)
LEMMA CheckResultsSafe ==
    ASSUME Typing, Safe, NEW j, NEW produced \in BOOLEAN, CheckResults(j, produced)
    PROVE  Safe'
<1> DEFINE copies == tasks[j].job.cp_results /\ produced
           t == [tasks[j] EXCEPT !.state = IF copies THEN "CopyingResults" ELSE "Finalize"]
<1>1. /\ Driving(j) /\ tasks' = [tasks EXCEPT ![j] = t] /\ StateOf(j) = "CheckingResults"
      /\ IF copies THEN copying' = copying \cup {j} ELSE copying' = copying
      /\ UNCHANGED <<live_tasks, handles, copying_flags, listener>> /\ Return(j, TRUE)
  BY DEF CheckResults, RequestCopy
<1>2. /\ t.job = tasks[j].job /\ t.attempt = tasks[j].attempt
      /\ t.state = IF copies THEN "CopyingResults" ELSE "Finalize"
  BY <1>1, DrivenSafe DEF Task
<1>3. tasks[j].state = "CheckingResults"
  BY <1>1 DEF StateOf
<1> HIDE DEF t, copies
<1> QED
  BY <1>1, <1>2, <1>3, DrivenSafe, Returned, OneTask

(* A check that panics touches only the machine.                           *)
LEMMA CheckPanicsSafe == ASSUME Typing, Safe, NEW j, CheckPanics(j) PROVE Safe'
<1>1. /\ UNCHANGED <<tasks, live_tasks, handles, copying, copying_flags, listener, worker>>
  BY DEF CheckPanics
<1>2. ListenerFresh' /\ (worker'.at = "drive" => worker'.todo \subseteq live_tasks')
  BY <1>1 DEF Safe, ListenerFresh, TodoLive
<1> QED
  BY <1>1, <1>2, SameTasks

(* A report is only taken by the task that waits for it.                   *)
LEMMA CopyReportedSafe ==
    ASSUME Typing, Safe, NEW j, CopyReported(j) PROVE Safe'
<1> DEFINE t == IF copying_flags[j] = "Success"
                THEN [tasks[j] EXCEPT !.state = "Finalize", !.results = TRUE]
                ELSE [tasks[j] EXCEPT !.state = "Error"]
<1>1. /\ Driving(j) /\ tasks' = [tasks EXCEPT ![j] = t] /\ StateOf(j) = "CopyingResults"
      /\ DOMAIN copying_flags' = DOMAIN copying_flags \ {j}
      /\ UNCHANGED <<live_tasks, handles, copying, listener>> /\ Return(j, TRUE)
  BY DEF CopyReported, TakeFlag, Drop
<1>2. /\ t.job = tasks[j].job /\ t.attempt = tasks[j].attempt
      /\ t.state \in {"Finalize", "Error"}
  BY <1>1, DrivenSafe DEF Task
<1>3. tasks[j].state = "CopyingResults"
  BY <1>1 DEF StateOf
<1> HIDE DEF t
<1> QED
  BY <1>1, <1>2, <1>3, DrivenSafe, Returned, OneTask

(* A finished task has no process.                                         *)
LEMMA FinalizeSafe ==
    ASSUME Typing, Safe, NEW j, Finalize(j) PROVE Safe'
<1> DEFINE t == [tasks[j] EXCEPT !.state = IF tasks[j].results
                                           THEN "DoneWithResults" ELSE "Done"]
<1>1. /\ Driving(j) /\ tasks' = [tasks EXCEPT ![j] = t] /\ StateOf(j) = "Finalize"
      /\ UNCHANGED <<live_tasks, handles, copying, copying_flags, listener>> /\ Return(j, TRUE)
  BY DEF Finalize
<1>2. /\ t.job = tasks[j].job /\ t.attempt = tasks[j].attempt
      /\ t.state \in {"DoneWithResults", "Done"}
  BY <1>1, DrivenSafe DEF Task
<1>3. tasks[j].state = "Finalize"
  BY <1>1 DEF StateOf
<1> HIDE DEF t
<1> QED
  BY <1>1, <1>2, <1>3, DrivenSafe, Returned, OneTask

(* Only a task that is over, and not cancelled, leaves live_tasks here.    *)
LEMMA DriveTerminalSafe ==
    ASSUME Typing, Safe, NEW j, DriveTerminal(j) PROVE Safe'
<1> DEFINE b == j \in DOMAIN handles
<1>1. /\ Driving(j) /\ StateOf(j) \in Terminal /\ Return(j, b) /\ b \in BOOLEAN
      /\ UNCHANGED <<tasks, copying, copying_flags, listener>>
      /\ live_tasks' = live_tasks \ {j} /\ handles' = Drop(handles, {j})
  BY DEF DriveTerminal
<1>2. tasks' = [tasks EXCEPT ![j] = tasks[j]]
  BY <1>1, Types DEF IsMap
<1>3. tasks[j].state \in Terminal /\ tasks[j].canceled = None
  BY <1>1 DEF StateOf, Terminal
<1>4. tasks[j].state \notin {"Running", "CopyingResults"}
  BY <1>3 DEF Terminal
<1>5. /\ DOMAIN handles' = DOMAIN handles \ {j}
      /\ \A k \in DOMAIN handles \ {j} : handles'[k] = handles[k]
  BY <1>1 DEF Drop
<1>6. /\ worker'.at = worker.at /\ worker'.todo = worker.todo \ {j}
      /\ worker'.to_clone = worker.to_clone /\ worker'.to_remove = worker.to_remove
  BY <1>1, Returned
<1>7. /\ j \in DOMAIN tasks /\ j \notin worker.to_clone \cup worker.to_remove
  BY <1>1, DrivenSafe
<1> HIDE DEF b
<1> QED
  BY <1>1, <1>2, <1>3, <1>4, <1>5, <1>6, <1>7, OneTask

(* A failed task is only marked for cloning if it may be retried.          *)
LEMMA DriveErrorSafe ==
    ASSUME Typing, Safe, NEW j, DriveError(j) PROVE Safe'
<1> DEFINE t == [tasks[j] EXCEPT !.state = "ErrorDone"]
<1>1. /\ Driving(j) /\ tasks' = [tasks EXCEPT ![j] = t]
      /\ UNCHANGED <<live_tasks, copying, copying_flags, listener>>
      /\ handles' = Drop(handles, {j})
      /\ worker' = [worker EXCEPT !.todo = @ \ {j}, !.updated = TRUE,
                       !.to_clone = IF MayRetry(tasks[j]) THEN @ \cup {j} ELSE @]
  BY DEF DriveError
<1>2. t.job = tasks[j].job /\ t.attempt = tasks[j].attempt /\ t.state = "ErrorDone"
  BY <1>1, DrivenSafe DEF Task
<1>3. /\ DOMAIN handles' = DOMAIN handles \ {j}
      /\ \A k \in DOMAIN handles \ {j} : handles'[k] = handles[k]
  BY <1>1 DEF Drop
<1>4. MayRetry(t) <=> MayRetry(tasks[j])
  BY <1>2 DEF MayRetry
<1>5. /\ worker'.at = worker.at /\ worker'.todo = worker.todo \ {j}
      /\ worker'.to_remove = worker.to_remove
      /\ worker'.to_clone = IF MayRetry(tasks[j]) THEN worker.to_clone \cup {j}
                                                  ELSE worker.to_clone
  BY <1>1, DrivenSafe DEF Worker
<1> HIDE DEF t
<1> QED
  BY <1>1, <1>2, <1>3, <1>4, <1>5, DrivenSafe, OneTask

(* A cancelled task loses its process before it can be removed.            *)
LEMMA DriveCanceledSafe ==
    ASSUME Typing, Safe, NEW j, DriveCanceled(j) PROVE Safe'
<1> DEFINE t == Stopped(tasks[j])
<1>1. /\ Driving(j) /\ tasks' = [tasks EXCEPT ![j] = t]
      /\ UNCHANGED <<live_tasks, copying, copying_flags, listener>>
      /\ handles' = Drop(handles, {j})
      /\ worker' = [worker EXCEPT !.todo = @ \ {j}, !.updated = TRUE,
              !.to_remove = IF tasks[j].canceled = "remove" THEN @ \cup {j} ELSE @]
  BY DEF DriveCanceled, KillProcess
<1>2. /\ t.job = tasks[j].job /\ t.attempt = tasks[j].attempt
      /\ t.state \in {"Canceled", "Error", "Killed"}
  BY <1>1, DrivenSafe DEF Stopped, Task
<1>3. /\ DOMAIN handles' = DOMAIN handles \ {j}
      /\ \A k \in DOMAIN handles \ {j} : handles'[k] = handles[k]
  BY <1>1 DEF Drop
<1>4. /\ worker'.at = worker.at /\ worker'.todo = worker.todo \ {j}
      /\ worker'.to_clone = worker.to_clone
      /\ worker'.to_remove \subseteq worker.to_remove \cup {j}
  BY <1>1, DrivenSafe DEF Worker
<1> HIDE DEF t
<1> QED
  BY <1>1, <1>2, <1>3, <1>4, DrivenSafe, OneTask

(* Any drive.                                                              *)
LEMMA TryDriveSmSafe == ASSUME Typing, Safe, NEW j, TryDriveSm(j) PROVE Safe'
<1>1. DriveHeld(j) \/ NoMachine(j) \/ StillCopying(j) => Safe'
  BY IdleDriveSafe DEF DriveHeld, NoMachine, StillCopying
<1> QED
  BY <1>1, StartSafe, AllCommandsDoneSafe, NextCommandSafe, CommandFailedSafe, TimeOutSafe,
     StillRunningSafe, CheckResultsSafe, CheckPanicsSafe, CopyReportedSafe, FinalizeSafe, DriveTerminalSafe,
     DriveErrorSafe, DriveCanceledSafe DEF TryDriveSm

-----------------------------------------------------------------------------
(* The other steps of the work thread, and the environment.                *)
LEMMA ProcessNotificationsSafe ==
    ASSUME Typing, Safe, ProcessNotifications PROVE Safe'
<1>1. /\ UNCHANGED <<tasks, live_tasks, handles, copying, copying_flags, listener>>
      /\ worker.at = "idle"
  BY DEF ProcessNotifications, shared
<1>2. /\ worker'.at # "drive" /\ worker'.to_clone = worker.to_clone
      /\ worker'.to_remove = worker.to_remove
  BY <1>1, Types DEF ProcessNotifications, Worker
<1>3. ListenerFresh'
  BY <1>1 DEF Safe, ListenerFresh
<1> QED
  BY <1>1, <1>2, <1>3, SameTasks

(* The list of what to drive is a copy of live_tasks.                      *)
LEMMA BeginIterationSafe == ASSUME Typing, Safe, BeginIteration PROVE Safe'
<1>1. UNCHANGED <<tasks, live_tasks, handles, copying, copying_flags, listener>>
  BY DEF BeginIteration, shared
<1>2. /\ worker'.todo = live_tasks /\ worker'.to_clone = worker.to_clone
      /\ worker'.to_remove = worker.to_remove
  BY Types DEF BeginIteration, Worker
<1>3. ListenerFresh'
  BY <1>1 DEF Safe, ListenerFresh
<1> QED
  BY <1>1, <1>2, <1>3, SameTasks

(* What leaves live_tasks here has no task.                                *)
LEMMA EndDrivingSafe == ASSUME Typing, Safe, EndDriving PROVE Safe'
<1>1. /\ UNCHANGED <<tasks, handles, copying, copying_flags, listener>>
      /\ live_tasks' = live_tasks \ (worker.todo \ DOMAIN tasks)
  BY DEF EndDriving, Orphans
<1>2. /\ worker'.at = "reap" /\ worker'.to_clone = worker.to_clone
      /\ worker'.to_remove = worker.to_remove
  BY Types DEF EndDriving, Worker
<1>3. listener.at = "insert_live" => listener' = listener
  BY <1>1
<1>4. ListenerFresh'
  BY <1>1 DEF Safe, ListenerFresh
<1> QED
  BY <1>1, <1>2, <1>3, <1>4, SameTasks

(* EndIteration only changes where the work thread is.                     *)
LEMMA EndIterationSafe == ASSUME Typing, Safe, EndIteration PROVE Safe'
<1>1. UNCHANGED <<tasks, live_tasks, handles, copying, copying_flags, listener>>
  BY DEF EndIteration, shared
<1>2. /\ worker'.at = "idle" /\ worker'.to_clone = worker.to_clone
      /\ worker'.to_remove = worker.to_remove
  BY Types DEF EndIteration, Worker
<1>3. ListenerFresh'
  BY <1>1 DEF Safe, ListenerFresh
<1> QED
  BY <1>1, <1>2, <1>3, SameTasks

(* A process exits, or the copier thread reports.                          *)
LEMMA EnvironmentSafe == ASSUME Typing, Safe, NEW j, Environment(j) PROVE Safe'
<1> DEFINE Harmless ==
        /\ UNCHANGED <<tasks, live_tasks, listener, worker>>
        /\ DOMAIN handles' = DOMAIN handles
        /\ \A k \in DOMAIN handles : handles'[k] = "running" => handles[k] = "running"
        /\ copying \cup DOMAIN copying_flags \subseteq copying' \cup DOMAIN copying_flags'
<1>1. Harmless
  <2>1. ASSUME NEW status \in {"ok", "fail"}, ProcessExits(j, status) PROVE Harmless
    BY <2>1 DEF ProcessExits, shared
  <2>2. ASSUME NEW result \in CopierThreadResult, NEW again \in BOOLEAN,
               CopierReports(j, result, again)
        PROVE  Harmless
    BY <2>2 DEF CopierReports, shared, Put
  <2> HIDE DEF Harmless
  <2> QED
    BY <2>1, <2>2 DEF Environment
<1>2. ListenerFresh' /\ (worker'.at = "drive" => worker'.todo \subseteq live_tasks')
  BY <1>1 DEF Safe, ListenerFresh, TodoLive
<1> QED
  BY <1>1, <1>2, SameTasks

(* What is reaped has no process, and nothing that is left names it.       *)
LEMMA ReapSafe == ASSUME Typing, Safe, Reap PROVE Safe'
<1> DEFINE gone == worker.to_remove \cap DOMAIN tasks
<1>1. UNCHANGED <<handles, copying, copying_flags, listener>> /\ worker.at = "reap"
  BY DEF Reap
<1>2. CASE \E j \in gone : ~RefsResolve(tasks[j])
  <2>1. UNCHANGED <<tasks, live_tasks, worker>>
    BY <1>2 DEF Reap
  <2>2. ListenerFresh'
    BY <1>1, <2>1 DEF Safe, ListenerFresh
  <2> QED
    BY <1>1, <2>1, <2>2, SameTasks
<1>3. CASE ~ \E j \in gone : ~RefsResolve(tasks[j])
  <2>1. /\ tasks' = Drop(tasks, gone) /\ live_tasks' = live_tasks \ worker.to_remove
        /\ worker' = [worker EXCEPT !.at = "clone", !.to_remove = {}]
    BY <1>3 DEF Reap
  <2>2. /\ worker'.at = "clone" /\ worker'.to_remove = {}
        /\ worker'.to_clone = worker.to_clone
    BY <2>1, Types DEF Worker
  <2>3. /\ DOMAIN tasks' = DOMAIN tasks \ worker.to_remove
        /\ \A j \in DOMAIN tasks' : tasks'[j] = tasks[j]
    BY <2>1 DEF Drop
  <2>4. LiveCoversActive'
    BY <1>1, <2>1, <2>3 DEF Safe, LiveCoversActive
  <2>5. RunningIffProcess' /\ HandlesOfTasks'
    BY <1>1, <2>2, <2>3 DEF Safe, RunningIffProcess, HandlesOfTasks
  <2>6. RetryBound' /\ NoLostCopy' /\ TodoLive' /\ ListenerFresh'
    BY <1>1, <2>2, <2>3 DEF Safe, RetryBound, NoLostCopy, TodoLive, ListenerFresh
  <2>7. ClonesAllowed'
    BY <2>2, <2>3 DEF Safe, ClonesAllowed, Typing, WorkerTyped
  <2> QED
    BY <2>4, <2>5, <2>6, <2>7 DEF Safe
<1> QED BY <1>2, <1>3

-----------------------------------------------------------------------------
(* The next id names no task and is not the one the listener holds.        *)
LEMMA NextIdFresh ==
    ASSUME Typing
    PROVE  /\ next_jid \notin DOMAIN tasks
           /\ listener.at \in {"insert_task", "insert_live", "insert_tagged"}
                => listener.jid # next_jid
<1>1. next_jid \in Nat /\ DOMAIN tasks \subseteq Issued
  BY Types DEF IsMap
<1>2. next_jid \notin Issued
  BY <1>1 DEF Issued
<1> QED
  BY <1>1, <1>2 DEF Typing, ListenerTyped

(* A clone is live, waits, and inherits no process.                        *)
LEMMA InsertCloneSafe ==
    ASSUME Typing, Safe, NEW t, InsertClone(next_jid, t), t.state = "Waiting",
           t.attempt > 0 => /\ t.job.repeat_on_fail
                            /\ t.job.maximum_failures # None
                                 => t.attempt <= t.job.maximum_failures,
           UNCHANGED <<handles, copying, copying_flags, listener>>,
           worker'.at = worker.at, worker'.todo = worker.todo,
           worker'.to_clone \subseteq worker.to_clone, worker'.to_remove = worker.to_remove
    PROVE  Safe'
<1>1. /\ tasks' = Put(tasks, next_jid, t) /\ live_tasks' = live_tasks \cup {next_jid}
  BY DEF InsertClone
<1>2. DOMAIN tasks' = DOMAIN tasks \cup {next_jid}
  BY <1>1 DEF Put
<1>3. ListenerFresh'
  BY <1>2, NextIdFresh DEF Safe, ListenerFresh
<1> QED
  BY <1>1, <1>3, NextIdFresh, NewTaskStep

(* The retry of a task has one attempt more, which MayRetry allows.        *)
LEMMA CloneFailedSafe ==
    ASSUME Typing, Safe, NEW j \in worker.to_clone, CloneFailed(j) PROVE Safe'
<1> DEFINE t == [CloneTask(tasks[j]) EXCEPT !.attempt = tasks[j].attempt + 1]
<1>1. tasks[j] \in Task /\ MayRetry(tasks[j])
  BY Types, MapAt DEF Typing, WorkerTyped, Safe, ClonesAllowed
<1>2. /\ t.state = "Waiting" /\ t.job = tasks[j].job /\ t.attempt = tasks[j].attempt + 1
  BY <1>1 DEF CloneTask, Task
<1>3. /\ t.job.repeat_on_fail
      /\ t.job.maximum_failures # None => t.attempt <= t.job.maximum_failures
  <2>1. tasks[j].job.maximum_failures \in Nat \cup {None} /\ tasks[j].attempt \in Nat
    BY <1>1 DEF Task, JobSpec
  <2>2. /\ tasks[j].job.repeat_on_fail
        /\ \/ tasks[j].job.maximum_failures = None
           \/ tasks[j].attempt < tasks[j].job.maximum_failures
    BY <1>1 DEF MayRetry
  <2> HIDE DEF t
  <2>3. tasks[j].job.maximum_failures # None
        => tasks[j].attempt + 1 <= tasks[j].job.maximum_failures
    BY <2>1, <2>2
  <2> QED
    BY <1>2, <2>2, <2>3
<1>4. UNCHANGED <<handles, copying, copying_flags, listener>> /\ worker.at = "clone"
  BY DEF CloneFailed
<1>5. CASE RefsResolve(t)
  <2>1. InsertClone(next_jid, t) /\ worker' = [worker EXCEPT !.to_clone = @ \ {j}]
    BY <1>5 DEF CloneFailed
  <2>2. /\ worker'.at = worker.at /\ worker'.todo = worker.todo
        /\ worker'.to_clone \subseteq worker.to_clone /\ worker'.to_remove = worker.to_remove
    BY <2>1, Types DEF Worker
  <2> HIDE DEF t
  <2> QED
    BY <1>2, <1>3, <1>4, <2>1, <2>2, InsertCloneSafe
<1>6. CASE ~RefsResolve(t)
  <2>1. UNCHANGED <<tasks, live_tasks, worker>>
    BY <1>6 DEF CloneFailed
  <2>2. ListenerFresh'
    BY <1>4, <2>1 DEF Safe, ListenerFresh
  <2> QED
    BY <1>4, <2>1, <2>2, SameTasks
<1> QED BY <1>5, <1>6

(* Any step of the work thread.                                            *)
LEMMA WorkThreadStepSafe == ASSUME Typing, Safe, WorkThreadStep PROVE Safe'
BY ProcessNotificationsSafe, BeginIterationSafe, TryDriveSmSafe, EndDrivingSafe, ReapSafe,
   CloneFailedSafe, EndIterationSafe DEF WorkThreadStep

-----------------------------------------------------------------------------
(* A request is only taken up by an idle listener, and one that changes a  *)
(* task with the work thread out of its critical section.                  *)
LEMMA Handling ==
    ASSUME NEW kind, Handle(kind)
    PROVE  listener.at = "idle" /\ worker.at # "drive"
BY DEF Handle, Accept, WorkerHoldsLocks

(* A request that leaves the tasks alone and does not move the listener.   *)
LEMMA SameTasksRequest ==
    ASSUME Typing, Safe, UNCHANGED <<tasks, live_tasks, listener>>, Unaffected
    PROVE  Safe'
<1>1. ListenerFresh' /\ (worker'.at = "drive" => worker'.todo \subseteq live_tasks')
  BY DEF Safe, ListenerFresh, TodoLive, Unaffected
<1> QED
  BY <1>1, SameTasks DEF Unaffected

(* A request that changes one task without touching what it is doing.      *)
LEMMA OneTaskRequest ==
    ASSUME Typing, Safe, NEW j \in DOMAIN tasks, NEW t, tasks' = [tasks EXCEPT ![j] = t],
           t.job = tasks[j].job, t.attempt = tasks[j].attempt,
           \/ t.state = tasks[j].state
           \/ {t.state, tasks[j].state} \subseteq {"Waiting", "Held"},
           t.canceled = tasks[j].canceled \/ j \in live_tasks',
           live_tasks \subseteq live_tasks', UNCHANGED listener, Unaffected,
           worker.at # "drive"
    PROVE  Safe'
<1>1. UNCHANGED <<handles, copying, copying_flags, worker>>
  BY DEF Unaffected
<1>2. t.state \notin Terminal \/ t.canceled # None =>
         j \in live_tasks' \/ (listener.at = "insert_live" /\ listener.jid = j)
  BY DEF Safe, LiveCoversActive, Terminal
<1>3. /\ t.state = "Running" => j \in DOMAIN handles
      /\ j \in DOMAIN handles /\ handles[j] = "running" => t.state = "Running"
      /\ t.state = "CopyingResults" => j \in copying \cup DOMAIN copying_flags
  BY DEF Safe, RunningIffProcess, NoLostCopy
<1>4. /\ j \in worker.to_clone => MayRetry(t)
      /\ j \in worker.to_remove => j \notin DOMAIN handles
  BY DEF Safe, ClonesAllowed, MayRetry, HandlesOfTasks
<1> QED
  BY <1>1, <1>2, <1>3, <1>4, OneTask

(* A task that is cancelled becomes live (cancel_job).                     *)
LEMMA CancelSafe ==
    ASSUME Typing, Safe, NEW j \in DOMAIN tasks, NEW how, Cancel(j, how), Unaffected,
           UNCHANGED listener, worker.at # "drive"
    PROVE  Safe'
<1> DEFINE t == [tasks[j] EXCEPT !.canceled = how]
<1>1. tasks' = [tasks EXCEPT ![j] = t] /\ live_tasks' = live_tasks \cup {j}
  BY DEF Cancel
<1>2. tasks[j] \in Task
  BY Types, MapAt
<1>3. t.job = tasks[j].job /\ t.attempt = tasks[j].attempt /\ t.state = tasks[j].state
  BY <1>2 DEF Task
<1> HIDE DEF t
<1> QED
  BY <1>1, <1>3, OneTaskRequest

-----------------------------------------------------------------------------
(* RemoveAvailable cancels the running job, if there is one.               *)
LEMMA RemoveAvailableSafe ==
    ASSUME Typing, Safe, NEW m, RemoveAvailable(m) PROVE Safe'
<1>1. CASE machines[m].running \in DOMAIN tasks
  BY <1>1, Handling, CancelSafe DEF RemoveAvailable
<1>2. CASE machines[m].running \notin DOMAIN tasks
  BY <1>2, SameTasksRequest DEF RemoveAvailable
<1> QED BY <1>1, <1>2

(* Holding and releasing move a task between two states without a process. *)
LEMMA HoldJobSafe == ASSUME Typing, Safe, NEW j \in DOMAIN tasks, HoldJob(j) PROVE Safe'
<1> DEFINE t == [tasks[j] EXCEPT !.state = "Held"]
<1>1. /\ tasks' = [tasks EXCEPT ![j] = t] /\ Holdable(tasks[j]) /\ worker.at # "drive"
      /\ UNCHANGED <<live_tasks, listener>> /\ Unaffected
  BY Handling DEF HoldJob
<1>2. tasks[j] \in Task
  BY Types, MapAt
<1>3. /\ t.job = tasks[j].job /\ t.attempt = tasks[j].attempt /\ t.state = "Held"
      /\ t.canceled = tasks[j].canceled /\ tasks[j].state \in {"Waiting", "Held"}
  BY <1>1, <1>2 DEF Task, Holdable
<1> HIDE DEF t
<1> QED
  BY <1>1, <1>3, OneTaskRequest

(* The same of UnholdJob.                                                  *)
LEMMA UnholdJobSafe ==
    ASSUME Typing, Safe, NEW j \in DOMAIN tasks, UnholdJob(j) PROVE Safe'
<1> DEFINE t == [tasks[j] EXCEPT !.state = "Waiting"]
<1>1. /\ tasks' = [tasks EXCEPT ![j] = t] /\ tasks[j].state = "Held" /\ worker.at # "drive"
      /\ UNCHANGED <<live_tasks, listener>> /\ Unaffected
  BY Handling DEF UnholdJob
<1>2. tasks[j] \in Task
  BY Types, MapAt
<1>3. /\ t.job = tasks[j].job /\ t.attempt = tasks[j].attempt /\ t.state = "Waiting"
      /\ t.canceled = tasks[j].canceled
  BY <1>2 DEF Task
<1> HIDE DEF t
<1> QED
  BY <1>1, <1>3, OneTaskRequest

(* AddJobTimeout changes nothing that the invariant looks at.              *)
LEMMA AddJobTimeoutSafe ==
    ASSUME Typing, Safe, NEW j \in DOMAIN tasks, AddJobTimeout(j) PROVE Safe'
<1> DEFINE t == [tasks[j] EXCEPT !.timeout = TRUE]
<1>1. /\ tasks' = [tasks EXCEPT ![j] = t] /\ worker.at # "drive"
      /\ UNCHANGED <<live_tasks, listener>> /\ Unaffected
  BY Handling DEF AddJobTimeout
<1>2. tasks[j] \in Task
  BY Types, MapAt
<1>3. /\ t.job = tasks[j].job /\ t.attempt = tasks[j].attempt /\ t.state = tasks[j].state
      /\ t.canceled = tasks[j].canceled
  BY <1>2 DEF Task
<1> HIDE DEF t
<1> QED
  BY <1>1, <1>3, OneTaskRequest

(* Nor does TagJob, with a tag or without one.                             *)
LEMMA TagJobSafe ==
    ASSUME Typing, Safe, NEW j \in DOMAIN tasks, NEW g, TagJob(j, g) PROVE Safe'
<1> DEFINE t == [tasks[j] EXCEPT !.tag = g]
<1>1. /\ tasks' = [tasks EXCEPT ![j] = t] /\ worker.at # "drive"
      /\ UNCHANGED <<live_tasks, listener>> /\ Unaffected
  BY Handling DEF TagJob
<1>2. tasks[j] \in Task
  BY Types, MapAt
<1>3. /\ t.job = tasks[j].job /\ t.attempt = tasks[j].attempt /\ t.state = tasks[j].state
      /\ t.canceled = tasks[j].canceled
  BY <1>2 DEF Task
<1> HIDE DEF t
<1> QED
  BY <1>1, <1>3, OneTaskRequest

(* TagJob without a tag, which may panic instead.                          *)
LEMMA UntagJobSafe ==
    ASSUME Typing, Safe, NEW j \in DOMAIN tasks, UntagJob(j) PROVE Safe'
<1> DEFINE t == [tasks[j] EXCEPT !.tag = None]
<1>1. worker.at # "drive" /\ UNCHANGED <<live_tasks, listener>> /\ Unaffected
  BY Handling DEF UntagJob
<1>2. CASE tasks[j].tag \in DOMAIN tags
  <2>1. tasks' = [tasks EXCEPT ![j] = t]
    BY <1>2 DEF UntagJob
  <2>2. tasks[j] \in Task
    BY Types, MapAt
  <2>3. /\ t.job = tasks[j].job /\ t.attempt = tasks[j].attempt
        /\ t.state = tasks[j].state /\ t.canceled = tasks[j].canceled
    BY <2>2 DEF Task
  <2> HIDE DEF t
  <2> QED
    BY <1>1, <2>1, <2>3, OneTaskRequest
<1>3. CASE tasks[j].tag \notin DOMAIN tags
  BY <1>1, <1>3, SameTasksRequest DEF UntagJob
<1> QED BY <1>2, <1>3

(* A clone that a client asks for is a first attempt.                      *)
LEMMA CloneJobSafe == ASSUME Typing, Safe, NEW j \in DOMAIN tasks, CloneJob(j) PROVE Safe'
<1> DEFINE t == CloneTask(tasks[j])
<1>1. UNCHANGED listener /\ Unaffected
  BY DEF CloneJob
<1>2. tasks[j] \in Task
  BY Types, MapAt
<1>3. t.state = "Waiting" /\ ~(t.attempt > 0)
  BY <1>2 DEF CloneTask, Task
<1>4. CASE RefsResolve(t)
  <2>1. InsertClone(next_jid, t)
    BY <1>4 DEF CloneJob
  <2> HIDE DEF t
  <2> QED
    BY <1>1, <1>3, <2>1, InsertCloneSafe DEF Unaffected
<1>5. CASE ~RefsResolve(t)
  BY <1>1, <1>5, SameTasksRequest DEF CloneJob
<1> QED BY <1>4, <1>5

-----------------------------------------------------------------------------
(* A step of the listener that leaves tasks and live_tasks alone, in which *)
(* it comes to hold nothing but an id that is free and a task untried.     *)
LEMMA ListenerStep ==
    ASSUME Typing, Safe, UNCHANGED <<tasks, live_tasks>>, Unaffected,
           listener.at # "insert_live", ListenerFresh'
    PROVE  Safe'
<1>1. worker'.at = "drive" => worker'.todo \subseteq live_tasks'
  BY DEF Safe, TodoLive, Unaffected
<1> QED
  BY <1>1, SameTasks DEF Unaffected

(* An id is handed out, and the new task has not been tried.               *)
LEMMA AllocateSafe ==
    ASSUME Typing, Safe, listener.at = "idle",
           NEW point \in {"insert_task", "insert_tagged", "insert_tag"}, NEW task,
           point # "insert_tag" => Untried(task), Allocate(point, task)
    PROVE  Safe'
<1>1. /\ UNCHANGED <<tasks, live_tasks>> /\ Unaffected
      /\ listener' = [listener EXCEPT !.at = point, !.jid = next_jid, !.task = task]
  BY DEF Allocate
<1>2. listener'.at = point /\ listener'.jid = next_jid /\ listener'.task = task
  BY <1>1, Types DEF Listener
<1>3. ListenerFresh'
  BY <1>1, <1>2, NextIdFresh DEF ListenerFresh
<1> QED
  BY <1>1, <1>3, ListenerStep

(* What AddJob, SetUpMachine and AddMatrix make of a job.                  *)
LEMMA NewTaskUntried ==
    ASSUME NEW spec, NEW m, NEW x, NEW g PROVE Untried(NewTask(spec, m, x, g))
BY DEF NewTask, Untried

(* The requests that begin by taking an id.                                *)
LEMMA AddJobSafe == ASSUME Typing, Safe, NEW spec, AddJob(spec) PROVE Safe'
BY NewTaskUntried, AllocateSafe DEF AddJob, Accept

(* A setup task is given its machine.                                      *)
LEMMA SetUpMachineSafe ==
    ASSUME Typing, Safe, NEW spec, NEW m, SetUpMachine(spec, m) PROVE Safe'
BY NewTaskUntried, AllocateSafe DEF SetUpMachine, Accept

(* A tagged job is given its tag.                                          *)
LEMMA AddTaggedJobSafe ==
    ASSUME Typing, Safe, NEW spec, NEW g, AddTaggedJob(spec, g) PROVE Safe'
BY NewTaskUntried, AllocateSafe DEF AddTaggedJob, Accept

(* A tag comes with no task.                                               *)
LEMMA AddTagSafe == ASSUME Typing, Safe, AddTag PROVE Safe'
BY AllocateSafe DEF AddTag, Accept

(* The tasks of a matrix are made from one that has not been tried.        *)
LEMMA AddMatrixSafe == ASSUME Typing, Safe, NEW spec, NEW n, AddMatrix(spec, n) PROVE Safe'
<1> DEFINE task == NewTask([spec EXCEPT !.repeat_on_fail = TRUE], None, next_jid, None)
<1>1. /\ UNCHANGED <<tasks, live_tasks>> /\ Unaffected /\ listener.at = "idle"
      /\ listener'.at = "matrix" /\ listener'.task = task
  BY DEF AddMatrix, Accept
<1>2. Untried(task)
  BY NewTaskUntried
<1> HIDE DEF task
<1>3. ListenerFresh'
  BY <1>1, <1>2 DEF ListenerFresh
<1> QED
  BY <1>1, <1>3, ListenerStep

(* Each task of a matrix gets the next id.                                 *)
LEMMA MatrixAllocateSafe == ASSUME Typing, Safe, MatrixAllocate PROVE Safe'
<1>1. UNCHANGED <<tasks, live_tasks>> /\ Unaffected /\ listener.at = "matrix"
  BY DEF MatrixAllocate, Resume
<1>2. /\ listener'.at = "insert_task" /\ listener'.jid = next_jid
      /\ listener'.task = listener.task
  BY Types DEF MatrixAllocate, Listener
<1>3. ListenerFresh'
  BY <1>1, <1>2, NextIdFresh DEF Safe, ListenerFresh
<1> QED
  BY <1>1, <1>3, ListenerStep

(* The task is inserted first; until it is live the listener vouches for it*)
LEMMA InsertTaskSafe == ASSUME Typing, Safe, InsertTask PROVE Safe'
<1>1. /\ tasks' = Put(tasks, listener.jid, listener.task) /\ UNCHANGED live_tasks
      /\ Unaffected /\ listener.at = "insert_task"
  BY DEF InsertTask, Resume
<1>2. /\ listener'.at = "insert_live" /\ listener'.jid = listener.jid
      /\ listener'.task = listener.task
  BY Types DEF InsertTask, Listener
<1>3. listener.jid \notin DOMAIN tasks /\ Untried(listener.task)
  BY <1>1 DEF Safe, ListenerFresh
<1>4. ListenerFresh'
  BY <1>2, <1>3 DEF ListenerFresh
<1>5. listener.task.state = "Waiting" /\ ~(listener.task.attempt > 0)
  BY <1>3 DEF Untried
<1> QED
  BY <1>1, <1>2, <1>3, <1>4, <1>5, NewTaskStep DEF Unaffected

(* Then it is made live.                                                   *)
LEMMA InsertLiveSafe == ASSUME Typing, Safe, InsertLive PROVE Safe'
<1>1. /\ UNCHANGED tasks /\ live_tasks' = live_tasks \cup {listener.jid} /\ Unaffected
      /\ listener.at = "insert_live"
      /\ listener' = IF listener.matrix = None THEN IdleListener
                     ELSE [listener EXCEPT !.at = "matrix", !.jid = None]
  BY DEF InsertLive, Resume
<1>2. ListenerFresh'
  <2>1. CASE listener.matrix = None
    BY <1>1, <2>1 DEF ListenerFresh, IdleListener
  <2>2. CASE listener.matrix # None
    <3>1. listener'.at = "matrix" /\ listener'.task = listener.task
      BY <1>1, <2>2, Types DEF Listener
    <3> QED
      BY <1>1, <2>2, <3>1 DEF Safe, ListenerFresh
  <2> QED BY <2>1, <2>2
<1>3. worker'.at = "drive" => worker'.todo \subseteq live_tasks'
  BY <1>1 DEF Safe, TodoLive, Unaffected
<1> QED
  BY <1>1, <1>2, <1>3, SameTasks DEF Unaffected

(* A tagged job is inserted and made live in one critical section.         *)
LEMMA InsertTaggedSafe == ASSUME Typing, Safe, InsertTagged PROVE Safe'
<1>1. listener' = IdleListener /\ Unaffected /\ listener.at = "insert_tagged"
  BY DEF InsertTagged, Resume
<1>2. ListenerFresh'
  BY <1>1 DEF ListenerFresh, IdleListener
<1>3. CASE listener.task.tag \in DOMAIN tags
  <2>1. /\ tasks' = Put(tasks, listener.jid, listener.task)
        /\ live_tasks' = live_tasks \cup {listener.jid}
    BY <1>3 DEF InsertTagged
  <2>2. listener.jid \notin DOMAIN tasks /\ Untried(listener.task)
    BY <1>1 DEF Safe, ListenerFresh
  <2>3. listener.task.state = "Waiting" /\ ~(listener.task.attempt > 0)
    BY <2>2 DEF Untried
  <2> QED
    BY <1>1, <1>2, <2>1, <2>2, <2>3, NewTaskStep DEF Unaffected
<1>4. CASE listener.task.tag \notin DOMAIN tags
  BY <1>1, <1>2, <1>4, ListenerStep DEF InsertTagged
<1> QED BY <1>3, <1>4

(* The matrix, and the tag, are only entered in their own maps.            *)
LEMMA PublishSafe == ASSUME Typing, Safe, PublishMatrix \/ InsertTag PROVE Safe'
<1>1. /\ UNCHANGED <<tasks, live_tasks>> /\ Unaffected /\ listener' = IdleListener
      /\ listener.at \in {"matrix", "insert_tag"}
  BY DEF PublishMatrix, InsertTag, Resume
<1>2. ListenerFresh'
  BY <1>1 DEF ListenerFresh, IdleListener
<1> QED
  BY <1>1, <1>2, ListenerStep

(* Any request, and any critical section of one that was begun.            *)
LEMMA RequestSafe == ASSUME Typing, Safe, NewRequest \/ FinishRequest PROVE Safe'
<1>1. ASSUME NEW m, NEW c, MakeAvailable(m, c) PROVE Safe'
  BY <1>1, SameTasksRequest DEF MakeAvailable
<1>2. ASSUME NEW j \in DOMAIN tasks, NEW how, CancelJob(j, how) PROVE Safe'
  BY <1>2, Handling, CancelSafe DEF CancelJob
<1>3. CASE NewRequest
  BY <1>1, <1>2, <1>3, RemoveAvailableSafe, HoldJobSafe, UnholdJobSafe, AddJobTimeoutSafe,
     TagJobSafe, UntagJobSafe, CloneJobSafe, AddJobSafe, SetUpMachineSafe,
     AddTaggedJobSafe, AddTagSafe, AddMatrixSafe DEF NewRequest
<1>4. CASE FinishRequest
  BY <1>4, MatrixAllocateSafe, InsertTaskSafe, InsertLiveSafe, InsertTaggedSafe,
     PublishSafe DEF FinishRequest
<1> QED BY <1>3, <1>4

-----------------------------------------------------------------------------
(* Every step of the server, and a step in which nothing happens.          *)
LEMMA StepSafe == Typing /\ Safe /\ [Next]_vars => Safe'
<1> SUFFICES ASSUME Typing, Safe, [Next]_vars PROVE Safe' OBVIOUS
<1>1. CASE Next
  BY <1>1, WorkThreadStepSafe, RequestSafe, EnvironmentSafe DEF Next
<1>2. CASE UNCHANGED vars
  <2>1. UNCHANGED <<tasks, live_tasks, handles, copying, copying_flags, listener, worker>>
    BY <1>2 DEF vars, shared
  <2> QED
    BY <2>1 DEF Safe, LiveCoversActive, RunningIffProcess, RetryBound, NoLostCopy,
                TodoLive, HandlesOfTasks, ListenerFresh, Untried, ClonesAllowed
<1> QED BY <1>1, <1>2

(* Safe is an invariant, whatever the machines, the jobs and the bounds.   *)
THEOREM SafetyInvariant == Spec => []Safe
<1>1. Init => Safe
  BY InitSafe
<1>2. Typing /\ Safe /\ [Next]_vars => Safe'
  BY StepSafe
<1>3. Spec => []Typing
  BY TypingInvariant
<1> QED
  BY <1>1, <1>2, <1>3, PTL DEF Spec

(* No task that has steps to go drops out of the set that is driven        *)
(* (live_tasks, main.rs:58): the work thread forgets none.                 *)
THEOREM EveryActiveTaskIsLive == Spec => []LiveCoversActive
<1>1. Safe => LiveCoversActive
  BY DEF Safe
<1> QED
  BY <1>1, SafetyInvariant, PTL

(* Process info and the state Running never get out of step (running_job_  *)
(* handles, sm.rs:292): no process runs that the server has lost sight of. *)
THEOREM ProcessesAreKnown == Spec => []RunningIffProcess
<1>1. Safe => RunningIffProcess
  BY DEF Safe
<1> QED
  BY <1>1, SafetyInvariant, PTL

(* No chain of retries and clones exceeds maximum_failures (sm.rs:191).    *)
THEOREM RetriesAreBounded == Spec => []RetryBound
<1>1. Safe => RetryBound
  BY DEF Safe
<1> QED
  BY <1>1, SafetyInvariant, PTL

(* A task waiting for its results always has the copier thread, or its     *)
(* report, to wait for (copying_flags, sm.rs:341).                         *)
THEOREM NoCopyIsLost == Spec => []NoLostCopy
<1>1. Safe => NoLostCopy
  BY DEF Safe
<1> QED
  BY <1>1, SafetyInvariant, PTL

-----------------------------------------------------------------------------
(* What is about to be reaped has freed its machine.                       *)
RemovedAreCanceled ==
    \A j \in worker.to_remove : j \in DOMAIN tasks => tasks[j].state = "Canceled"

Kept == NoLeakedMachine /\ RemovedAreCanceled

(* The machines ms run nothing that the machines do not run now, but for j.*)
NoMore(ms, j) ==
    \A m \in DOMAIN ms : ms[m].running \notin {None, j} =>
        m \in DOMAIN machines /\ machines[m].running = ms[m].running
(* Where j runs in ms it is the task t that holds the machine.             *)
RunsAt(ms, j, t) ==
    \A m \in DOMAIN ms : ms[m].running = j => t.machine = m /\ t.state \in Holding

-----------------------------------------------------------------------------
(* Server::new has no machines.                                            *)
LEMMA InitKept == Init => Kept
BY DEF Init, Kept, NoLeakedMachine, RemovedAreCanceled, EmptyMap, InitWorker

(* A step that replaces one task.                                          *)
LEMMA OneTaskKept ==
    ASSUME Typing, Kept, NEW j \in DOMAIN tasks, NEW t, tasks' = [tasks EXCEPT ![j] = t],
           NoMore(machines', j), RunsAt(machines', j, t),
           worker'.to_remove \subseteq worker.to_remove \cup {j},
           j \in worker'.to_remove => t.state = "Canceled"
    PROVE  Kept'
<1>1. DOMAIN tasks' = DOMAIN tasks /\ tasks'[j] = t
  BY Types DEF IsMap
<1>2. \A k \in DOMAIN tasks \ {j} : tasks'[k] = tasks[k]
  BY Types DEF IsMap
<1>3. RemovedAreCanceled'
  BY <1>1, <1>2 DEF Kept, RemovedAreCanceled
<1>4. ASSUME NEW m \in DOMAIN machines', machines'[m].running # None
      PROVE  /\ machines'[m].running \in DOMAIN tasks'
             /\ tasks'[machines'[m].running].machine = m
             /\ tasks'[machines'[m].running].state \in Holding
  <2>1. CASE machines'[m].running = j
    BY <1>1, <2>1 DEF RunsAt
  <2>2. CASE machines'[m].running # j
    <3>1. m \in DOMAIN machines /\ machines[m].running = machines'[m].running
      BY <1>4, <2>2 DEF NoMore
    <3>2. /\ machines'[m].running \in DOMAIN tasks
          /\ tasks[machines'[m].running].machine = m
          /\ tasks[machines'[m].running].state \in Holding
      BY <1>4, <3>1 DEF Kept, NoLeakedMachine
    <3> QED
      BY <1>1, <1>2, <2>2, <3>2
  <2> QED
    BY <2>1, <2>2
<1>5. NoLeakedMachine'
  BY <1>4 DEF NoLeakedMachine
<1> QED
  BY <1>3, <1>5 DEF Kept

(* A step in which no task that runs is changed.                           *)
LEMMA SameTasksKept ==
    ASSUME Typing, Kept, NoMore(machines', None),
           \A k \in DOMAIN tasks : tasks[k].state \in Holding =>
               k \in DOMAIN tasks' /\ tasks'[k] = tasks[k],
           \A k \in worker'.to_remove : k \in DOMAIN tasks' =>
               /\ k \in worker.to_remove /\ k \in DOMAIN tasks /\ tasks'[k] = tasks[k]
    PROVE  Kept'
<1>1. RemovedAreCanceled'
  BY DEF Kept, RemovedAreCanceled
<1>2. NoLeakedMachine'
  BY DEF Kept, NoLeakedMachine, NoMore
<1> QED
  BY <1>1, <1>2 DEF Kept

(* Changes to machines other than to what they run.                        *)
LEMMA UpdateRuns ==
    ASSUME Typing, NEW m, NEW st,
           m \in DOMAIN machines => st.running = machines[m].running
    PROVE  /\ DOMAIN Update(m, st) = DOMAIN machines
           /\ \A n \in DOMAIN machines : Update(m, st)[n].running = machines[n].running
BY Types DEF Update, IsMap

(* free_machine (sm.rs:652): no machine runs the task any more, as only    *)
(* the one that the task names could.                                      *)
LEMMA FreedRuns ==
    ASSUME Typing, Kept, NEW j \in DOMAIN tasks, NEW ms,
           IsMap(ms, Machines, MachineStatus), DOMAIN ms = DOMAIN machines,
           \A n \in DOMAIN machines : ms[n].running = machines[n].running
    PROVE  LET freed == AfterFree(j, tasks[j], ms)
           IN  NoMore(freed, j) /\ \A m \in DOMAIN freed : freed[m].running # j
<1> DEFINE freed == AfterFree(j, tasks[j], ms)
           here  == tasks[j].machine
<1>1. j \in Nat /\ j # None
  <2>1. j \in Issued /\ next_jid \in Nat
    BY Types, MapAt
  <2> QED
    BY <2>1, NoneAssumption DEF Issued
<1>2. CASE Owns(j, tasks[j])
  <2>1. here \in DOMAIN ms /\ ms[here] \in MachineStatus
    BY <1>2, MapAt DEF Owns
  <2>2. Released(ms[here]).running = None
    BY <2>1 DEF Released, MachineStatus
  <2>3. /\ DOMAIN freed = DOMAIN ms /\ freed[here].running = None
        /\ \A m \in DOMAIN ms \ {here} : freed[m] = ms[m]
    BY <1>2, <2>1, <2>2 DEF AfterFree, IsMap
  <2>4. \A m \in DOMAIN ms \ {here} : freed[m].running # j
    BY <1>1, <2>3 DEF Kept, NoLeakedMachine
  <2> HIDE DEF freed
  <2>5. \A m \in DOMAIN freed : freed[m].running # j
    BY <1>1, <2>3, <2>4
  <2>6. NoMore(freed, j)
    BY <2>3 DEF NoMore
  <2> QED
    BY <2>5, <2>6 DEF freed
<1>3. CASE ~Owns(j, tasks[j])
  <2>1. freed = ms
    BY <1>3 DEF AfterFree
  <2>2. \A m \in DOMAIN machines : machines[m].running # j
    BY <1>1, <1>3 DEF Kept, NoLeakedMachine, Owns
  <2> HIDE DEF freed
  <2>3. NoMore(freed, j) /\ \A m \in DOMAIN freed : freed[m].running # j
    BY <2>1, <2>2 DEF NoMore
  <2> QED
    BY <2>3 DEF freed
<1> QED
  BY <1>2, <1>3

(* A drive in which the task goes on holding its machine, if it has one.   *)
LEMMA HeldOn ==
    ASSUME Typing, Kept, NEW j, Driving(j), NEW t, tasks' = [tasks EXCEPT ![j] = t],
           t.machine = tasks[j].machine, t.state \in Holding,
           DOMAIN machines' = DOMAIN machines,
           \A m \in DOMAIN machines : machines'[m].running = machines[m].running,
           worker'.to_remove = worker.to_remove
    PROVE  Kept'
<1>1. j \in DOMAIN tasks /\ j \notin worker.to_remove /\ j # None
  BY Driven, NoneAssumption
<1>2. NoMore(machines', j) /\ RunsAt(machines', j, t)
  BY <1>1 DEF NoMore, RunsAt, Kept, NoLeakedMachine
<1> QED
  BY <1>1, <1>2, OneTaskKept

(* A drive in which the task ends and its machine is freed.                *)
LEMMA LetGo ==
    ASSUME Typing, Kept, NEW j, Driving(j), NEW t, tasks' = [tasks EXCEPT ![j] = t],
           NEW ms, machines' = AfterFree(j, tasks[j], ms),
           IsMap(ms, Machines, MachineStatus), DOMAIN ms = DOMAIN machines,
           \A n \in DOMAIN machines : ms[n].running = machines[n].running,
           worker'.to_remove \subseteq worker.to_remove \cup {j},
           j \in worker'.to_remove => t.state = "Canceled"
    PROVE  Kept'
<1>1. j \in DOMAIN tasks
  BY Driven
<1>2. NoMore(machines', j) /\ RunsAt(machines', j, t)
  BY <1>1, FreedRuns DEF RunsAt
<1> QED
  BY <1>1, <1>2, OneTaskKept

-----------------------------------------------------------------------------
(* The drives.  One that is given a machine was not running on any.        *)
LEMMA StartKept ==
    ASSUME Typing, Kept, NEW j, NEW m \in Machines, NEW spawned \in BOOLEAN,
           Start(j, m, spawned)
    PROVE  Kept'
<1> DEFINE t == Launched(tasks[j], m, spawned)
           st == [machines[m] EXCEPT !.running = j]
<1>1. /\ Driving(j) /\ tasks' = [tasks EXCEPT ![j] = t] /\ StateOf(j) = "Waiting"
      /\ machines' = Update(m, st) /\ Return(j, TRUE)
  BY DEF Start
<1>2. /\ j \in DOMAIN tasks /\ tasks[j] \in Task /\ j \notin worker.to_remove
      /\ tasks[j].state = "Waiting" /\ j # None
  BY <1>1, Driven, NoneAssumption DEF StateOf
<1>3. t.machine = m /\ t.state \in Holding
  BY <1>2 DEF Launched, Task, Holding
<1>4. \A n \in DOMAIN machines : machines[n].running # j
  BY <1>2 DEF Kept, NoLeakedMachine, Holding
<1> HIDE DEF t
<1>5. /\ DOMAIN machines' = DOMAIN machines
      /\ \A n \in DOMAIN machines \ {m} : machines'[n] = machines[n]
      /\ m \in DOMAIN machines => machines'[m].running = j
  <2>1. m \in DOMAIN machines => machines[m] \in MachineStatus
    BY Types, MapAt
  <2>2. m \in DOMAIN machines => st.running = j
    BY <2>1 DEF MachineStatus
  <2> HIDE DEF st
  <2> QED
    BY <1>1, <2>2, Types DEF Update, IsMap
<1>6. NoMore(machines', j) /\ RunsAt(machines', j, t)
  BY <1>3, <1>4, <1>5 DEF NoMore, RunsAt
<1> QED
  BY <1>1, <1>2, <1>6, Returned, OneTaskKept

(* Steps of a task on the machine it has.                                  *)
LEMMA CommandsKept ==
    ASSUME Typing, Kept, NEW j, NEW spawned \in BOOLEAN,
           AllCommandsDone(j) \/ NextCommand(j, spawned) \/ CommandFailed(j)
    PROVE  Kept'
<1>1. /\ Driving(j) /\ Return(j, TRUE) /\ machines' = machines
  BY DEF AllCommandsDone, NextCommand, CommandFailed, Polled
<1>2. tasks[j] \in Task
  BY <1>1, Driven
<1>3. PICK t : /\ tasks' = [tasks EXCEPT ![j] = t]
               /\ t.machine = tasks[j].machine /\ t.state \in Holding
  <2>1. CASE AllCommandsDone(j)
    <3> DEFINE u == [tasks[j] EXCEPT !.state = "CheckingResults", !.index = 0]
    <3>1. u.machine = tasks[j].machine /\ u.state \in Holding
      BY <1>2 DEF Task, Holding
    <3> QED
      BY <2>1, <3>1 DEF AllCommandsDone
  <2>2. CASE NextCommand(j, spawned)
    <3> DEFINE u == Advanced(tasks[j], spawned)
    <3>1. u.machine = tasks[j].machine /\ u.state \in Holding
      BY <1>2 DEF Task, Holding, Advanced
    <3> QED
      BY <2>2, <3>1 DEF NextCommand
  <2>3. CASE CommandFailed(j)
    <3> DEFINE u == [tasks[j] EXCEPT !.state = "Error"]
    <3>1. u.machine = tasks[j].machine /\ u.state \in Holding
      BY <1>2 DEF Task, Holding
    <3> QED
      BY <2>3, <3>1 DEF CommandFailed
  <2> QED
    BY <2>1, <2>2, <2>3
<1> QED
  BY <1>1, <1>3, Returned, HeldOn

(* A task that times out is still running.                                 *)
LEMMA TimeOutKept == ASSUME Typing, Kept, NEW j, TimeOut(j) PROVE Kept'
<1> DEFINE t == [tasks[j] EXCEPT !.timedout = tasks[j].index, !.canceled = "keep"]
<1>1. /\ Driving(j) /\ tasks' = [tasks EXCEPT ![j] = t] /\ StateOf(j) = "Running"
      /\ machines' = machines /\ Return(j, TRUE)
  BY DEF TimeOut, Polled
<1>2. tasks[j] \in Task /\ tasks[j].state = "Running"
  BY <1>1, Driven DEF StateOf
<1>3. t.machine = tasks[j].machine /\ t.state \in Holding
  BY <1>2 DEF Task, Holding
<1> HIDE DEF t
<1> QED
  BY <1>1, <1>3, Returned, HeldOn

(* Checking results only resets the failures of the machine.               *)
LEMMA CheckResultsKept ==
    ASSUME Typing, Kept, NEW j, NEW produced \in BOOLEAN, CheckResults(j, produced)
    PROVE  Kept'
<1> DEFINE m == tasks[j].machine
           st == [machines[m] EXCEPT !.failures = 0]
           copies == tasks[j].job.cp_results /\ produced
           t == [tasks[j] EXCEPT !.state = IF copies THEN "CopyingResults" ELSE "Finalize"]
<1>1. /\ Driving(j) /\ tasks' = [tasks EXCEPT ![j] = t]
      /\ machines' = Update(m, st) /\ Return(j, TRUE)
  BY DEF CheckResults
<1>2. t.machine = tasks[j].machine /\ t.state \in Holding
  <2>1. tasks[j] \in Task
    BY <1>1, Driven
  <2> QED
    BY <2>1 DEF Task, Holding
<1>3. m \in DOMAIN machines => st.running = machines[m].running
  BY Types, MapAt DEF MachineStatus
<1> HIDE DEF t, st
<1>4. /\ DOMAIN machines' = DOMAIN machines
      /\ \A n \in DOMAIN machines : machines'[n].running = machines[n].running
  BY <1>1, <1>3, UpdateRuns
<1> QED
  BY <1>1, <1>2, <1>4, Returned, HeldOn

(* So does a check that panics.                                            *)
LEMMA CheckPanicsKept == ASSUME Typing, Kept, NEW j, CheckPanics(j) PROVE Kept'
<1> DEFINE m == tasks[j].machine
           st == [machines[m] EXCEPT !.failures = 0]
<1>1. machines' = Update(m, st) /\ UNCHANGED <<tasks, worker>>
  BY DEF CheckPanics
<1>2. m \in DOMAIN machines => st.running = machines[m].running
  BY Types, MapAt DEF MachineStatus
<1> HIDE DEF st
<1>3. /\ DOMAIN machines' = DOMAIN machines
      /\ \A n \in DOMAIN machines : machines'[n].running = machines[n].running
  BY <1>1, <1>2, UpdateRuns
<1>4. NoMore(machines', None)
  BY <1>3 DEF NoMore
<1> QED
  BY <1>1, <1>4, SameTasksKept DEF Kept, RemovedAreCanceled

(* The report may change the class of the machine.                         *)
LEMMA CopyReportedKept == ASSUME Typing, Kept, NEW j, CopyReported(j) PROVE Kept'
<1> DEFINE m == tasks[j].machine
           st == [machines[m] EXCEPT !.class = UnknownHostClass]
           t == IF copying_flags[j] = "Success"
                THEN [tasks[j] EXCEPT !.state = "Finalize", !.results = TRUE]
                ELSE [tasks[j] EXCEPT !.state = "Error"]
<1>1. /\ Driving(j) /\ tasks' = [tasks EXCEPT ![j] = t]
      /\ machines' \in {machines, Update(m, st)} /\ Return(j, TRUE)
  BY DEF CopyReported
<1>2. t.machine = tasks[j].machine /\ t.state \in Holding
  BY <1>1, Driven DEF Task, Holding
<1>3. m \in DOMAIN machines => st.running = machines[m].running
  BY Types, MapAt DEF MachineStatus
<1> HIDE DEF t, st
<1>4. /\ DOMAIN machines' = DOMAIN machines
      /\ \A n \in DOMAIN machines : machines'[n].running = machines[n].running
  BY <1>1, <1>3, UpdateRuns
<1> QED
  BY <1>1, <1>2, <1>4, Returned, HeldOn

(* A setup task that joins a class keeps what its machine is running.      *)
LEMMA FinalizeKept == ASSUME Typing, Kept, NEW j, Finalize(j) PROVE Kept'
<1> DEFINE t == [tasks[j] EXCEPT !.state = IF tasks[j].results
                                           THEN "DoneWithResults" ELSE "Done"]
           m == tasks[j].machine
           running == IF m \in DOMAIN machines THEN machines[m].running ELSE None
           st == [class |-> tasks[j].job.class, running |-> running, failures |-> 0]
           joins == /\ tasks[j].job.ty = "SetupTask" /\ tasks[j].job.class # None
                    /\ ~Owns(j, tasks[j])
<1>1. /\ Driving(j) /\ tasks' = [tasks EXCEPT ![j] = t] /\ Return(j, TRUE)
      /\ machines' = IF joins THEN Put(machines, m, st) ELSE AfterFree(j, tasks[j], machines)
  BY DEF Finalize
<1>2. j \in DOMAIN tasks /\ j # None /\ j \notin worker.to_remove
  BY <1>1, Driven, NoneAssumption
<1>3. CASE joins
  <2>1. machines' = Put(machines, m, st) /\ st.running = running
    BY <1>1, <1>3
  <2>2. ASSUME NEW n \in DOMAIN machines' PROVE machines'[n].running # j
    <3>1. CASE n = m
      BY <1>2, <1>3, <2>1, <3>1 DEF Put, Owns
    <3>2. CASE n # m
      BY <1>2, <2>1, <2>2, <3>2 DEF Put, Kept, NoLeakedMachine
    <3> QED
      BY <3>1, <3>2
  <2>3. NoMore(machines', j)
    BY <2>1 DEF NoMore, Put
  <2> HIDE DEF t, st, running, joins
  <2>4. RunsAt(machines', j, t)
    BY <2>2 DEF RunsAt
  <2> QED
    BY <1>1, <1>2, <2>3, <2>4, Returned, OneTaskKept
<1>4. CASE ~joins
  <2> HIDE DEF t, st
  <2> QED
    BY <1>1, <1>2, <1>4, Types, Returned, LetGo
<1> QED
  BY <1>3, <1>4

(* A failure is blamed on the machine, which is then freed.                *)
LEMMA DriveErrorKept == ASSUME Typing, Kept, NEW j, DriveError(j) PROVE Kept'
<1> DEFINE m == tasks[j].machine
           failures == IF machines[m].failures < MachineFailures
                       THEN machines[m].failures + 1 ELSE MachineFailures
           st == [machines[m] EXCEPT !.failures = failures]
           blamed == Update(m, st)
           t == [tasks[j] EXCEPT !.state = "ErrorDone"]
<1>1. /\ Driving(j) /\ tasks' = [tasks EXCEPT ![j] = t]
      /\ machines' = AfterFree(j, tasks[j], blamed)
      /\ worker' = [worker EXCEPT !.todo = @ \ {j}, !.updated = TRUE,
                       !.to_clone = IF MayRetry(tasks[j]) THEN @ \cup {j} ELSE @]
  BY DEF DriveError
<1>2. m \in DOMAIN machines => st \in MachineStatus /\ st.running = machines[m].running
  <2>1. m \in DOMAIN machines => machines[m] \in MachineStatus
    BY Types, MapAt
  <2>2. m \in DOMAIN machines => failures \in 0..MachineFailures
    <3>1. m \in DOMAIN machines => machines[m].failures \in 0..MachineFailures
      BY <2>1 DEF MachineStatus
    <3> QED
      BY <3>1, BoundAssumption
  <2> HIDE DEF failures
  <2> QED
    BY <2>1, <2>2 DEF MachineStatus
<1> HIDE DEF st
<1>3. /\ IsMap(blamed, Machines, MachineStatus) /\ DOMAIN blamed = DOMAIN machines
      /\ \A n \in DOMAIN machines : blamed[n].running = machines[n].running
  BY <1>2, Types, UpdateMap, UpdateRuns
<1>4. worker'.to_remove = worker.to_remove /\ j \notin worker.to_remove
  BY <1>1, Types, Driven DEF Worker
<1> HIDE DEF t, blamed
<1> QED
  BY <1>1, <1>3, <1>4, LetGo

(* A cancelled task gives its machine back, and stays cancelled if it is   *)
(* to be reaped.                                                           *)
LEMMA DriveCanceledKept == ASSUME Typing, Kept, NEW j, DriveCanceled(j) PROVE Kept'
<1> DEFINE t == Stopped(tasks[j])
<1>1. /\ Driving(j) /\ tasks' = [tasks EXCEPT ![j] = t]
      /\ machines' = AfterFree(j, tasks[j], machines)
      /\ worker' = [worker EXCEPT !.todo = @ \ {j}, !.updated = TRUE,
              !.to_remove = IF tasks[j].canceled = "remove" THEN @ \cup {j} ELSE @]
  BY DEF DriveCanceled
<1>2. /\ worker'.to_remove = IF tasks[j].canceled = "remove" THEN worker.to_remove \cup {j}
                             ELSE worker.to_remove
      /\ j \notin worker.to_remove /\ tasks[j] \in Task
  BY <1>1, Types, Driven DEF Worker
<1>3. tasks[j].canceled = "remove" => t.state = "Canceled"
  BY <1>2 DEF Stopped, Task
<1> HIDE DEF t
<1> QED
  BY <1>1, <1>2, <1>3, Types, LetGo

(* Any drive.                                                              *)
LEMMA TryDriveSmKept == ASSUME Typing, Safe, Kept, NEW j, TryDriveSm(j) PROVE Kept'
<1>1. ASSUME UNCHANGED <<machines, tasks>>, worker'.to_remove = worker.to_remove PROVE Kept'
  BY <1>1 DEF Kept, NoLeakedMachine, RemovedAreCanceled
<1>2. DriveHeld(j) \/ NoMachine(j) \/ StillCopying(j) \/ DriveTerminal(j) => Kept'
  <2>1. (j \in DOMAIN handles) \in BOOLEAN
    OBVIOUS
  <2> QED
    BY <1>1, <2>1, Returned DEF DriveHeld, NoMachine, StillCopying, DriveTerminal, shared
<1>3. StillRunning(j) => Kept'
  BY <1>1, Returned DEF StillRunning, shared
<1> QED
  BY <1>2, <1>3, StartKept, CommandsKept, TimeOutKept, CheckResultsKept, CheckPanicsKept,
     CopyReportedKept, FinalizeKept, DriveErrorKept, DriveCanceledKept DEF TryDriveSm

-----------------------------------------------------------------------------
(* The other steps of the work thread, and the environment.                *)
LEMMA IdleKept ==
    ASSUME Typing, Kept, UNCHANGED <<machines, tasks>>,
           worker'.to_remove \subseteq worker.to_remove
    PROVE  Kept'
BY DEF Kept, NoLeakedMachine, RemovedAreCanceled

(* The parts of an iteration that touch no task and no machine keep Kept.  *)
LEMMA WorkerIdleKept ==
    ASSUME Typing, Kept, ProcessNotifications \/ BeginIteration \/ EndDriving \/ EndIteration
    PROVE  Kept'
<1>1. UNCHANGED <<machines, tasks>>
  BY DEF ProcessNotifications, BeginIteration, EndDriving, EndIteration, shared
<1>2. worker'.to_remove = worker.to_remove
  BY Types DEF ProcessNotifications, BeginIteration, EndDriving, EndIteration, Worker
<1> QED
  BY <1>1, <1>2, IdleKept

(* Nor do processes and copies touch one.                                  *)
LEMMA EnvironmentKept == ASSUME Typing, Kept, NEW j, Environment(j) PROVE Kept'
<1>1. UNCHANGED <<machines, tasks, worker>>
  BY DEF Environment, ProcessExits, CopierReports, shared
<1> QED
  BY <1>1, IdleKept

(* What is reaped runs on no machine.                                      *)
LEMMA ReapKept == ASSUME Typing, Kept, Reap PROVE Kept'
<1> DEFINE gone == worker.to_remove \cap DOMAIN tasks
<1>1. UNCHANGED machines
  BY DEF Reap
<1>2. CASE \E j \in gone : ~RefsResolve(tasks[j])
  BY <1>1, <1>2, IdleKept DEF Reap
<1>3. CASE ~ \E j \in gone : ~RefsResolve(tasks[j])
  <2>1. /\ tasks' = Drop(tasks, gone)
        /\ worker' = [worker EXCEPT !.at = "clone", !.to_remove = {}]
    BY <1>3 DEF Reap
  <2>2. worker'.to_remove = {}
    BY <2>1, Types DEF Worker
  <2>3. \A k \in DOMAIN tasks : tasks[k].state \in Holding => k \notin gone
    BY DEF Kept, RemovedAreCanceled, Holding
  <2>4. \A k \in DOMAIN tasks \ gone : k \in DOMAIN tasks' /\ tasks'[k] = tasks[k]
    BY <2>1 DEF Drop
  <2>5. NoMore(machines', None)
    BY <1>1 DEF NoMore
  <2> QED
    BY <2>2, <2>3, <2>4, <2>5, SameTasksKept
<1> QED
  BY <1>2, <1>3

(* A task that is inserted under a free id takes nobody's machine.         *)
LEMMA InsertKept ==
    ASSUME Typing, Kept, NEW n, n \notin DOMAIN tasks, NEW t, tasks' = Put(tasks, n, t),
           UNCHANGED machines, worker'.to_remove = {}
    PROVE  Kept'
<1>1. \A k \in DOMAIN tasks : k \in DOMAIN tasks' /\ tasks'[k] = tasks[k]
  BY DEF Put
<1>2. NoMore(machines', None)
  BY DEF NoMore
<1> QED
  BY <1>1, <1>2, SameTasksKept

(* A retry is a new task, that no machine runs.                            *)
LEMMA CloneFailedKept ==
    ASSUME Typing, Kept, NEW j \in worker.to_clone, CloneFailed(j) PROVE Kept'
<1> DEFINE t == [CloneTask(tasks[j]) EXCEPT !.attempt = tasks[j].attempt + 1]
<1>1. UNCHANGED machines /\ worker.to_remove = {}
  BY DEF CloneFailed, Typing, WorkerTyped
<1>2. CASE RefsResolve(t)
  <2>1. /\ tasks' = Put(tasks, next_jid, t)
        /\ worker' = [worker EXCEPT !.to_clone = @ \ {j}]
    BY <1>2 DEF CloneFailed, InsertClone
  <2>2. worker'.to_remove = {}
    BY <1>1, <2>1, Types DEF Worker
  <2> HIDE DEF t
  <2> QED
    BY <1>1, <2>1, <2>2, NextIdFresh, InsertKept
<1>3. CASE ~RefsResolve(t)
  BY <1>1, <1>3, IdleKept DEF CloneFailed
<1> QED
  BY <1>2, <1>3

(* Every step of the work thread keeps Kept.                               *)
LEMMA WorkThreadStepKept == ASSUME Typing, Safe, Kept, WorkThreadStep PROVE Kept'
BY WorkerIdleKept, TryDriveSmKept, ReapKept, CloneFailedKept DEF WorkThreadStep

-----------------------------------------------------------------------------
(* The requests.  None is handled between a drive and the reaping.         *)
LEMMA NothingToRemove == ASSUME Typing, ~WorkerHoldsLocks PROVE worker.to_remove = {}
<1>1. worker.at \in {"idle", "sleep"}
  BY Types DEF WorkerHoldsLocks, Worker
<1> QED
  BY <1>1 DEF Typing, WorkerTyped

(* A request that leaves tasks and machines alone.                         *)
LEMMA OtherRequestKept ==
    ASSUME Typing, Kept, UNCHANGED <<machines, tasks>>, Unaffected PROVE Kept'
BY IdleKept DEF Unaffected

(* A request that changes one task, but neither where nor whether it runs. *)
LEMMA TaskRequestKept ==
    ASSUME Typing, Kept, ~WorkerHoldsLocks, Unaffected, NEW j \in DOMAIN tasks, NEW t,
           tasks' = [tasks EXCEPT ![j] = t], NoMore(machines', None),
           t.machine = tasks[j].machine,
           t.state = tasks[j].state \/ tasks[j].state \notin Holding
    PROVE  Kept'
<1>1. worker'.to_remove = {} /\ j # None
  <2>1. j \in Issued /\ next_jid \in Nat
    BY Types, MapAt
  <2> QED
    BY <2>1, NothingToRemove, NoneAssumption DEF Unaffected, Issued
<1>2. NoMore(machines', j) /\ RunsAt(machines', j, t)
  BY <1>1 DEF NoMore, RunsAt, Kept, NoLeakedMachine
<1> QED
  BY <1>1, <1>2, OneTaskKept

(* A cancelled task keeps its machine until it is driven.                  *)
LEMMA CancelKept ==
    ASSUME Typing, Kept, ~WorkerHoldsLocks, Unaffected, NEW j \in DOMAIN tasks, NEW how,
           Cancel(j, how), NoMore(machines', None)
    PROVE  Kept'
<1> DEFINE t == [tasks[j] EXCEPT !.canceled = how]
<1>1. tasks' = [tasks EXCEPT ![j] = t] /\ tasks[j] \in Task
  BY Types, MapAt DEF Cancel
<1>2. t.machine = tasks[j].machine /\ t.state = tasks[j].state
  BY <1>1 DEF Task
<1> HIDE DEF t
<1> QED
  BY <1>1, <1>2, TaskRequestKept

(* The pool of machines: one that joins again keeps what it is running.    *)
LEMMA MakeAvailableKept ==
    ASSUME Typing, Kept, NEW m, NEW class, MakeAvailable(m, class) PROVE Kept'
<1>1. UNCHANGED tasks /\ worker' = worker
  BY DEF MakeAvailable, Unaffected
<1>2. NoMore(machines', None)
  BY DEF MakeAvailable, NoMore, Put
<1> QED
  BY <1>1, <1>2, SameTasksKept

(* A machine that is removed takes its claim on a task along.              *)
LEMMA RemoveAvailableKept ==
    ASSUME Typing, Kept, NEW m, RemoveAvailable(m) PROVE Kept'
<1>1. ~WorkerHoldsLocks /\ Unaffected /\ machines' = Drop(machines, {m})
  BY DEF RemoveAvailable, Handle
<1>2. NoMore(machines', None)
  BY <1>1 DEF NoMore, Drop
<1>3. CASE machines[m].running \in DOMAIN tasks
  BY <1>1, <1>2, <1>3, CancelKept DEF RemoveAvailable
<1>4. CASE machines[m].running \notin DOMAIN tasks
  <2>1. UNCHANGED tasks /\ worker' = worker
    BY <1>1, <1>4 DEF RemoveAvailable, Unaffected
  <2> QED
    BY <1>2, <2>1, SameTasksKept
<1> QED
  BY <1>3, <1>4

(* Requests about one task.                                                *)
LEMMA OneTaskRequestKept ==
    ASSUME Typing, Kept, NEW j \in DOMAIN tasks, NEW g,
           HoldJob(j) \/ UnholdJob(j) \/ AddJobTimeout(j) \/ TagJob(j, g) \/ UntagJob(j)
    PROVE  Kept'
<1>1. ~WorkerHoldsLocks /\ Unaffected /\ UNCHANGED machines
  BY DEF HoldJob, UnholdJob, AddJobTimeout, TagJob, UntagJob, Handle
<1>2. tasks[j] \in Task
  BY Types, MapAt
<1>3. NoMore(machines', None)
  BY <1>1 DEF NoMore
<1>4. CASE UNCHANGED tasks
  BY <1>1, <1>4, OtherRequestKept
<1>5. CASE ~UNCHANGED tasks
  <2> DEFINE hold    == [tasks[j] EXCEPT !.state = "Held"]
             unhold  == [tasks[j] EXCEPT !.state = "Waiting"]
             timeout == [tasks[j] EXCEPT !.timeout = TRUE]
             tag     == [tasks[j] EXCEPT !.tag = g]
             untag   == [tasks[j] EXCEPT !.tag = None]
  <2>1. \/ tasks' = [tasks EXCEPT ![j] = hold] /\ tasks[j].state \in {"Waiting", "Held"}
        \/ tasks' = [tasks EXCEPT ![j] = unhold] /\ tasks[j].state = "Held"
        \/ \E t \in {timeout, tag, untag} : tasks' = [tasks EXCEPT ![j] = t]
    BY <1>5 DEF HoldJob, Holdable, UnholdJob, AddJobTimeout, TagJob, UntagJob
  <2>2. \A t \in {hold, unhold, timeout, tag, untag} : t.machine = tasks[j].machine
    BY <1>2 DEF Task
  <2>3. \A t \in {timeout, tag, untag} : t.state = tasks[j].state
    BY <1>2 DEF Task
  <2> HIDE DEF hold, unhold, timeout, tag, untag
  <2>4. PICK t : /\ tasks' = [tasks EXCEPT ![j] = t] /\ t.machine = tasks[j].machine
                 /\ t.state = tasks[j].state \/ tasks[j].state \notin Holding
    BY <2>1, <2>2, <2>3 DEF Holding
  <2> QED
    BY <1>1, <1>3, <2>4, TaskRequestKept
<1> QED
  BY <1>4, <1>5

(* A clone is a new task, that no machine runs.                            *)
LEMMA CloneJobKept == ASSUME Typing, Kept, NEW j \in DOMAIN tasks, CloneJob(j) PROVE Kept'
<1>1. ~WorkerHoldsLocks /\ Unaffected /\ UNCHANGED machines
  BY DEF CloneJob, Handle
<1>2. CASE UNCHANGED tasks
  BY <1>1, <1>2, OtherRequestKept
<1>3. CASE tasks' = Put(tasks, next_jid, CloneTask(tasks[j]))
  <2>1. worker'.to_remove = {}
    BY <1>1, NothingToRemove DEF Unaffected
  <2> QED
    BY <1>1, <1>3, <2>1, NextIdFresh, InsertKept
<1> QED
  BY <1>2, <1>3 DEF CloneJob, InsertClone

(* Taking up any request keeps Kept.                                       *)
LEMMA NewRequestKept == ASSUME Typing, Kept, NewRequest PROVE Kept'
<1>1. ASSUME NEW spec, NEW n, NEW m,
             \/ AddJob(spec) \/ AddTaggedJob(spec, n) \/ AddMatrix(spec, n)
             \/ SetUpMachine(spec, m) \/ AddTag
      PROVE  Kept'
  BY <1>1, OtherRequestKept
     DEF AddJob, AddTaggedJob, AddMatrix, SetUpMachine, AddTag, Allocate
<1>2. ASSUME NEW j \in DOMAIN tasks, NEW how, CancelJob(j, how) PROVE Kept'
  <2>1. ~WorkerHoldsLocks /\ Unaffected /\ Cancel(j, how) /\ UNCHANGED machines
    BY <1>2 DEF CancelJob, Handle
  <2>2. NoMore(machines', None)
    BY <2>1 DEF NoMore
  <2> QED
    BY <2>1, <2>2, CancelKept
<1> QED
  BY <1>1, <1>2, MakeAvailableKept, RemoveAvailableKept, OneTaskRequestKept, CloneJobKept
     DEF NewRequest

(* So do the later critical sections of a request.                         *)
LEMMA FinishRequestKept == ASSUME Typing, Safe, Kept, FinishRequest PROVE Kept'
<1>1. Unaffected /\ UNCHANGED machines
  BY DEF FinishRequest, MatrixAllocate, InsertTask, InsertLive, PublishMatrix, InsertTagged,
         InsertTag
<1>2. CASE UNCHANGED tasks
  BY <1>1, <1>2, OtherRequestKept
<1>3. CASE ~UNCHANGED tasks
  <2>1. /\ tasks' = Put(tasks, listener.jid, listener.task) /\ ~WorkerHoldsLocks
        /\ listener.at \in {"insert_task", "insert_tagged"}
    BY <1>3 DEF FinishRequest, MatrixAllocate, InsertTask, InsertLive, PublishMatrix,
               InsertTagged, InsertTag, Resume
  <2>2. listener.jid \notin DOMAIN tasks
    BY <2>1 DEF Safe, ListenerFresh
  <2>3. worker'.to_remove = {}
    BY <1>1, <2>1, NothingToRemove DEF Unaffected
  <2> QED
    BY <1>1, <2>1, <2>2, <2>3, InsertKept
<1> QED
  BY <1>2, <1>3

-----------------------------------------------------------------------------
(* Every step keeps Kept.                                                  *)
LEMMA StepKept == Typing /\ Safe /\ Kept /\ [Next]_vars => Kept'
<1> SUFFICES ASSUME Typing, Safe, Kept, [Next]_vars PROVE Kept'
  OBVIOUS
<1>1. CASE UNCHANGED vars
  BY <1>1, IdleKept DEF vars, shared
<1> QED
  BY <1>1, WorkThreadStepKept, NewRequestKept, FinishRequestKept, EnvironmentKept DEF Next

(* No machine is ever leaked (free_machine, sm.rs): whatever clients and   *)
(* processes do, a machine that is taken is taken by a task that exists,   *)
(* was placed there, and still has the step to go that frees it.           *)
THEOREM MachinesAreFreed == Spec => []NoLeakedMachine
<1>1. Init => Kept
  BY InitKept
<1>2. Typing /\ Safe /\ Kept /\ [Next]_vars => Kept'
  BY StepKept
<1>3. Spec => []Typing
  BY TypingInvariant
<1>4. Spec => []Safe
  BY SafetyInvariant
<1>5. Kept => NoLeakedMachine
  BY DEF Kept
<1> QED
  BY <1>1, <1>2, <1>3, <1>4, <1>5, PTL DEF Spec

-----------------------------------------------------------------------------
(* What a step does to the tasks.  A drive and a request replace one task  *)
(* by one of the same job and matrix; a clone is like its original and     *)
(* names groups that exist; the listener inserts the task it holds.        *)
Inserting == listener.at \in {"insert_task", "insert_tagged"}
Replaced ==
    \E j \in DOMAIN tasks : \E t :
        /\ tasks' = [tasks EXCEPT ![j] = t]
        /\ t.job = tasks[j].job /\ t.matrix = tasks[j].matrix
        /\ t.tag \in {tasks[j].tag, None} \cup DOMAIN tags
Cloned ==
    \E j \in DOMAIN tasks : \E t :
        /\ tasks' = Put(tasks, next_jid, t) /\ next_jid' = next_jid + 1 /\ RefsResolve(t)
        /\ t.state = "Waiting" /\ t.job = tasks[j].job /\ t.matrix = tasks[j].matrix
Inserted ==
    /\ tasks' = Put(tasks, listener.jid, listener.task) /\ Inserting
    /\ listener.at = "insert_tagged" => listener.task.tag \in DOMAIN tags
Reaped == \E S : tasks' = Drop(tasks, S)

(* A drive keeps what its task belongs to, and its job.                    *)
LEMMA DriveForm ==
    ASSUME Typing, NEW j, TryDriveSm(j)
    PROVE  /\ UNCHANGED <<matrices, tags, listener, next_jid>>
           /\ \/ UNCHANGED tasks
              \/ \E t : /\ tasks' = [tasks EXCEPT ![j] = t]
                        /\ t.job = tasks[j].job
                        /\ t.matrix = tasks[j].matrix /\ t.tag = tasks[j].tag
<1>1. UNCHANGED <<matrices, tags, listener, next_jid>>
  BY DEF TryDriveSm, DriveHeld, NoMachine, Start, AllCommandsDone, CommandFailed, NextCommand,
         TimeOut, StillRunning, CheckResults, CheckPanics, CopyReported, StillCopying, Finalize,
         DriveTerminal, DriveError, DriveCanceled, shared
<1>2. Driving(j)
  BY DEF TryDriveSm, DriveHeld, NoMachine, Start, AllCommandsDone, CommandFailed, NextCommand,
         TimeOut, StillRunning, CheckResults, CheckPanics, CopyReported, StillCopying, Finalize,
         DriveTerminal, DriveError, DriveCanceled, Polled
<1>3. tasks[j] \in Task /\ j \in DOMAIN tasks
  BY <1>2, Driven
<1> DEFINE Same(t) == /\ t.job = tasks[j].job
                      /\ t.matrix = tasks[j].matrix /\ t.tag = tasks[j].tag
           Form == UNCHANGED tasks \/ \E t : tasks' = [tasks EXCEPT ![j] = t] /\ Same(t)
<1>6. \A st : Same([tasks[j] EXCEPT !.state = st])
  BY <1>3 DEF Task
<1>7. \A st, n : Same([tasks[j] EXCEPT !.state = st, !.index = n])
  BY <1>3 DEF Task
<1>8. \A st : Same([tasks[j] EXCEPT !.state = st, !.results = TRUE])
  BY <1>3 DEF Task
<1>9. \A n : Same([tasks[j] EXCEPT !.timedout = n, !.canceled = "keep"])
  BY <1>3 DEF Task
<1>10. Same(Stopped(tasks[j]))
  BY <1>3 DEF Task, Stopped
<1>11. \A m, spawned : Same(Launched(tasks[j], m, spawned)) /\ Same(Advanced(tasks[j], spawned))
  BY <1>3 DEF Task, Launched, Advanced
<1> HIDE DEF Same
<1>12. (\/ DriveHeld(j) \/ NoMachine(j) \/ StillRunning(j) \/ StillCopying(j)
        \/ DriveTerminal(j) \/ CheckPanics(j))
         => Form
  BY DEF DriveHeld, NoMachine, StillRunning, StillCopying, DriveTerminal, CheckPanics, shared
<1>13. ASSUME NEW m, NEW spawned, Start(j, m, spawned) \/ NextCommand(j, spawned) PROVE Form
  BY <1>11, <1>13 DEF Start, NextCommand
<1>14. AllCommandsDone(j) => Form
  BY <1>7 DEF AllCommandsDone
<1>15. CommandFailed(j) \/ Finalize(j) \/ DriveError(j) => Form
  BY <1>6 DEF CommandFailed, Finalize, DriveError
<1>16. ASSUME NEW produced, CheckResults(j, produced) PROVE Form
  BY <1>6, <1>16 DEF CheckResults
<1>17. CopyReported(j) => Form
  <2>1. CopyReported(j) =>
           \/ tasks' = [tasks EXCEPT ![j] = [tasks[j] EXCEPT !.state = "Finalize",
                                                            !.results = TRUE]]
           \/ tasks' = [tasks EXCEPT ![j] = [tasks[j] EXCEPT !.state = "Error"]]
    BY DEF CopyReported
  <2> QED
    BY <1>6, <1>8, <2>1
<1>18. TimeOut(j) => Form
  BY <1>9 DEF TimeOut
<1>19. DriveCanceled(j) => Form
  BY <1>10 DEF DriveCanceled
<1>20. Form
  BY <1>12, <1>13, <1>14, <1>15, <1>16, <1>17, <1>18, <1>19 DEF TryDriveSm
<1> QED
  BY <1>1, <1>20 DEF Same

(* A new request replaces or clones one task, if it touches any.           *)
LEMMA RequestForm ==
    ASSUME Typing, NewRequest PROVE UNCHANGED tasks \/ Replaced \/ Cloned
<1>1. \A k \in DOMAIN tasks : tasks[k] \in Task
  BY Types, MapAt
<1>2. CASE UNCHANGED tasks
  BY <1>2
<1>4. ASSUME NEW k \in DOMAIN tasks, CloneJob(k), ~UNCHANGED tasks PROVE Cloned
  <2> DEFINE t == CloneTask(tasks[k])
  <2>1. tasks' = Put(tasks, next_jid, t) /\ next_jid' = next_jid + 1 /\ RefsResolve(t)
    BY <1>4 DEF CloneJob, InsertClone
  <2>2. t.state = "Waiting" /\ t.job = tasks[k].job /\ t.matrix = tasks[k].matrix
    BY <1>1 DEF CloneTask, Task
  <2> HIDE DEF t
  <2> QED
    BY <2>1, <2>2 DEF Cloned
<1>5. ASSUME NEW m, RemoveAvailable(m), ~UNCHANGED tasks PROVE Replaced
  <2>1. machines[m].running \in DOMAIN tasks /\ Cancel(machines[m].running, "keep")
    BY <1>5 DEF RemoveAvailable
  <2> DEFINE k == machines[m].running
             cancel == [tasks[k] EXCEPT !.canceled = "keep"]
  <2>2. tasks' = [tasks EXCEPT ![k] = cancel] /\ k \in DOMAIN tasks
    BY <2>1 DEF Cancel
  <2>3. /\ cancel.job = tasks[k].job /\ cancel.matrix = tasks[k].matrix
        /\ cancel.tag = tasks[k].tag
    BY <1>1, <2>2 DEF Task
  <2> HIDE DEF cancel, k
  <2> QED
    BY <2>2, <2>3 DEF Replaced
<1>6. ASSUME NEW k \in DOMAIN tasks, NEW how,
             \/ HoldJob(k) \/ UnholdJob(k) \/ AddJobTimeout(k) \/ UntagJob(k)
             \/ CancelJob(k, how) \/ \E g \in DOMAIN tags : TagJob(k, g),
             ~UNCHANGED tasks
      PROVE  Replaced
  <2>1. tasks[k] \in Task
    BY <1>1
  <2> DEFINE hold    == [tasks[k] EXCEPT !.state = "Held"]
             unhold  == [tasks[k] EXCEPT !.state = "Waiting"]
             timeout == [tasks[k] EXCEPT !.timeout = TRUE]
             tag(g)  == [tasks[k] EXCEPT !.tag = g]
             untag   == [tasks[k] EXCEPT !.tag = None]
             cancel  == [tasks[k] EXCEPT !.canceled = how]
             Like(t) == /\ t.job = tasks[k].job /\ t.matrix = tasks[k].matrix
                        /\ t.tag \in {tasks[k].tag, None} \cup DOMAIN tags
  <2>2. \/ \E t \in {hold, unhold, timeout, untag, cancel} : tasks' = [tasks EXCEPT ![k] = t]
        \/ \E g \in DOMAIN tags : tasks' = [tasks EXCEPT ![k] = tag(g)]
    BY <1>6 DEF HoldJob, UnholdJob, AddJobTimeout, TagJob, UntagJob, CancelJob, Cancel
  <2>3. \A t \in {hold, unhold, timeout, untag, cancel} : Like(t)
    BY <2>1 DEF Task
  <2>4. \A g \in DOMAIN tags : Like(tag(g))
    BY <2>1 DEF Task
  <2> HIDE DEF hold, unhold, timeout, tag, untag, cancel
  <2> QED
    BY <2>2, <2>3, <2>4 DEF Replaced
<1>7. ASSUME NEW spec, NEW m, NEW n,
             \/ AddJob(spec) \/ AddTaggedJob(spec, n) \/ AddMatrix(spec, n)
             \/ SetUpMachine(spec, m) \/ AddTag \/ MakeAvailable(m, n)
      PROVE  UNCHANGED tasks
  BY <1>7 DEF AddJob, AddTaggedJob, AddMatrix, SetUpMachine, AddTag, Allocate, MakeAvailable
<1> QED
  BY <1>2, <1>4, <1>5, <1>6, <1>7 DEF NewRequest

(* A retry is a clone.                                                     *)
LEMMA CloneFailedForm ==
    ASSUME Typing, NEW j \in worker.to_clone, CloneFailed(j) PROVE UNCHANGED tasks \/ Cloned
<1> DEFINE t == [CloneTask(tasks[j]) EXCEPT !.attempt = tasks[j].attempt + 1]
<1>1. j \in DOMAIN tasks /\ tasks[j] \in Task
  BY Types, MapAt DEF Typing, WorkerTyped
<1>2. t.state = "Waiting" /\ t.job = tasks[j].job /\ t.matrix = tasks[j].matrix
  BY <1>1 DEF CloneTask, Task
<1>3. \/ UNCHANGED tasks
      \/ tasks' = Put(tasks, next_jid, t) /\ next_jid' = next_jid + 1 /\ RefsResolve(t)
  BY DEF CloneFailed, InsertClone
<1> HIDE DEF t
<1> QED
  BY <1>1, <1>2, <1>3 DEF Cloned

(* What the listener inserts is the task it holds.                         *)
LEMMA InsertionForm == ASSUME FinishRequest PROVE UNCHANGED tasks \/ Inserted
BY DEF FinishRequest, MatrixAllocate, InsertTask, InsertLive, PublishMatrix, InsertTagged,
       InsertTag, Resume, Inserted, Inserting

(* So that every step has one of five forms.                               *)
LEMMA StepForm ==
    ASSUME Typing, [Next]_vars
    PROVE  UNCHANGED tasks \/ Replaced \/ Cloned \/ Inserted \/ Reaped
<1>1. ASSUME NEW j, Environment(j) PROVE UNCHANGED tasks
  BY <1>1 DEF Environment, ProcessExits, CopierReports, shared
<1>2. ASSUME NEW j \in ToDrive, TryDriveSm(j) PROVE UNCHANGED tasks \/ Replaced
  BY <1>2, DriveForm DEF Replaced, ToDrive
<1>3. Reap => UNCHANGED tasks \/ Reaped
  BY DEF Reap, Reaped
<1>4. ProcessNotifications \/ BeginIteration \/ EndDriving \/ EndIteration => UNCHANGED tasks
  BY DEF ProcessNotifications, BeginIteration, EndDriving, EndIteration, shared
<1>5. UNCHANGED vars => UNCHANGED tasks
  BY DEF vars, shared
<1> QED
  BY <1>1, <1>2, <1>3, <1>4, <1>5, CloneFailedForm, RequestForm, InsertionForm
     DEF Next, WorkThreadStep

-----------------------------------------------------------------------------
(* A matrix lists nothing but its own tasks.                               *)
Members == \A m \in DOMAIN matrices : \A k \in matrices[m] :
              k \in DOMAIN tasks /\ tasks[k].matrix = m

(* The matrix that is being added has an id of its own, and keeps every    *)
(* task that was made for it: none can be reaped before it is published.   *)
Adding ==
    listener.matrix # None =>
        /\ listener.at \in {"matrix", "insert_task", "insert_live"}
        /\ listener.matrix \notin DOMAIN matrices
        /\ listener.task.matrix = listener.matrix /\ listener.task.tag = None
        /\ listener.at = "insert_task" => listener.jid \in listener.jids
        /\ \A k \in listener.jids :
              \/ k = listener.jid /\ listener.at = "insert_task"
              \/ k \in DOMAIN tasks /\ tasks[k].matrix = listener.matrix

(* The other tasks, and the tag, that the listener is about to insert.     *)
Single ==
    /\ listener.at \in {"insert_task", "insert_tagged"} /\ listener.matrix = None
         => listener.task.matrix = None
    /\ listener.at = "insert_task" => listener.task.tag = None
    /\ listener.at = "insert_tag" => listener.jid \notin DOMAIN tags

Exact   == Members /\ Adding /\ Single
Grouped == GroupsListMembers /\ Exact

(* Exact is inductive by itself; GroupsListMembers is so relative to it.   *)
KeepsGroups == Exact' /\ (GroupsListMembers => GroupsListMembers')

-----------------------------------------------------------------------------
(* At first there are no groups.                                           *)
LEMMA InitGrouped == Init => Grouped
BY DEF Init, Grouped, Exact, GroupsListMembers, Members, Adding, Single, EmptyMap, IdleListener

(* Ids are not None.                                                       *)
LEMMA IdsAreNumbers ==
    ASSUME Typing
    PROVE  /\ \A k \in Issued : k # None
           /\ next_jid \notin Issued /\ next_jid # None
           /\ DOMAIN matrices \subseteq Issued /\ DOMAIN tags \subseteq Issued
BY Types, NoneAssumption DEF Issued, IsMap

(* A step that leaves alone what tasks belong to.                          *)
LEMMA SameGroups ==
    ASSUME Exact, UNCHANGED <<matrices, tags, listener>>, DOMAIN tasks' = DOMAIN tasks,
           \A k \in DOMAIN tasks : /\ tasks'[k].matrix = tasks[k].matrix
                                   /\ tasks'[k].tag = tasks[k].tag
    PROVE  KeepsGroups
<1>1. GroupsListMembers => GroupsListMembers'
  BY DEF GroupsListMembers
<1>2. Members' /\ Adding' /\ Single'
  BY DEF Exact, Members, Adding, Single
<1> QED
  BY <1>1, <1>2 DEF KeepsGroups, Exact

(* A step that touches no task and no group.                               *)
LEMMA IdleGrouped ==
    ASSUME Exact, UNCHANGED <<tasks, matrices, tags, listener>> PROVE KeepsGroups
BY SameGroups

(* A step that replaces a task by one of the same matrix and tag.          *)
LEMMA OneTaskGrouped ==
    ASSUME Typing, Exact, NEW j \in DOMAIN tasks, NEW t, tasks' = [tasks EXCEPT ![j] = t],
           t.matrix = tasks[j].matrix, t.tag = tasks[j].tag,
           UNCHANGED <<matrices, tags, listener>>
    PROVE  KeepsGroups
<1>1. DOMAIN tasks' = DOMAIN tasks
  BY Types DEF IsMap
<1>2. \A k \in DOMAIN tasks : tasks'[k] = IF k = j THEN t ELSE tasks[k]
  BY Types DEF IsMap
<1> QED
  BY <1>1, <1>2, SameGroups

(* A task that is inserted under a free id.                                *)
LEMMA InsertGrouped ==
    ASSUME Typing, Exact, NEW n \in Issued \cup {next_jid}, n \notin DOMAIN tasks, NEW t,
           tasks' = Put(tasks, n, t), DOMAIN matrices' = DOMAIN matrices,
           DOMAIN tags' = DOMAIN tags,
           \A m \in DOMAIN matrices : matrices'[m] = IF t.matrix = m THEN matrices[m] \cup {n}
                                                     ELSE matrices[m],
           \A g \in DOMAIN tags : tags'[g] = IF t.tag = g THEN tags[g] \cup {n} ELSE tags[g],
           \/ t.matrix = None \/ t.matrix \in DOMAIN matrices
           \/ t.matrix = listener'.matrix /\ n \in listener'.jids,
           t.tag = None \/ t.tag \in DOMAIN tags,
           listener.matrix # None =>
              listener'.matrix = listener.matrix /\ listener'.jids = listener.jids,
           Adding', Single'
    PROVE  KeepsGroups
<1>1. DOMAIN tasks' = DOMAIN tasks \cup {n} /\ tasks'[n] = t
  BY DEF Put
<1>2. \A k \in DOMAIN tasks : tasks'[k] = tasks[k]
  BY DEF Put
<1>3. Members'
  BY <1>1, <1>2 DEF Exact, Members
<1>4. GroupsListMembers => GroupsListMembers'
  <2> SUFFICES ASSUME GroupsListMembers, NEW k \in DOMAIN tasks'
               PROVE  /\ tasks'[k].matrix # None =>
                            \/ /\ tasks'[k].matrix \in DOMAIN matrices'
                               /\ k \in matrices'[tasks'[k].matrix]
                            \/ listener'.matrix = tasks'[k].matrix /\ k \in listener'.jids
                      /\ tasks'[k].tag # None =>
                            /\ tasks'[k].tag \in DOMAIN tags'
                            /\ k \in tags'[tasks'[k].tag]
    BY DEF GroupsListMembers
  <2>1. CASE k = n
    BY <1>1, <2>1
  <2>2. CASE k # n
    <3>1. k \in DOMAIN tasks /\ tasks'[k] = tasks[k]
      BY <1>1, <1>2, <2>2
    <3>2. /\ tasks[k].matrix # None =>
                \/ tasks[k].matrix \in DOMAIN matrices /\ k \in matrices[tasks[k].matrix]
                \/ listener.matrix = tasks[k].matrix /\ k \in listener.jids
          /\ tasks[k].tag # None => tasks[k].tag \in DOMAIN tags /\ k \in tags[tasks[k].tag]
      BY <3>1 DEF GroupsListMembers
    <3> QED
      BY <3>1, <3>2
  <2> QED
    BY <2>1, <2>2
<1> QED
  BY <1>3, <1>4 DEF KeepsGroups, Exact

(* A clone joins the matrix and the tag of its original, which exist.      *)
LEMMA CloneGrouped ==
    ASSUME Typing, Exact, NEW t, RefsResolve(t), InsertClone(next_jid, t), UNCHANGED listener
    PROVE  KeepsGroups
<1>1. /\ tasks' = Put(tasks, next_jid, t) /\ next_jid \notin DOMAIN tasks
      /\ DOMAIN matrices' = DOMAIN matrices /\ DOMAIN tags' = DOMAIN tags
      /\ \A m \in DOMAIN matrices : matrices'[m] = IF t.matrix = m
                                       THEN matrices[m] \cup {next_jid} ELSE matrices[m]
      /\ \A g \in DOMAIN tags : tags'[g] = IF t.tag = g THEN tags[g] \cup {next_jid}
                                           ELSE tags[g]
  BY NextIdFresh DEF InsertClone
<1>2. \A k \in DOMAIN tasks : k \in DOMAIN tasks' /\ tasks'[k] = tasks[k]
  BY <1>1 DEF Put
<1>3. Adding'
  BY <1>1, <1>2 DEF Exact, Adding
<1>4. Single'
  BY <1>1 DEF Exact, Single
<1> QED
  BY <1>1, <1>3, <1>4, InsertGrouped DEF RefsResolve

-----------------------------------------------------------------------------
(* No drive changes what a task belongs to.                                *)
LEMMA TryDriveSmGrouped == ASSUME Typing, Exact, NEW j, TryDriveSm(j) PROVE KeepsGroups
<1>1. CASE UNCHANGED tasks
  BY <1>1, DriveForm, IdleGrouped
<1>2. ASSUME NEW t, tasks' = [tasks EXCEPT ![j] = t],
             t.matrix = tasks[j].matrix, t.tag = tasks[j].tag
      PROVE  KeepsGroups
  <2>1. CASE j \in DOMAIN tasks
    BY <1>2, <2>1, DriveForm, OneTaskGrouped
  <2>2. CASE j \notin DOMAIN tasks
    BY <1>1, <1>2, <2>2, Types DEF IsMap
  <2> QED
    BY <2>1, <2>2
<1> QED
  BY <1>1, <1>2, DriveForm

(* What is reaped leaves the matrix and the tag it names; a matrix that is *)
(* dropped is one that no task names any more.                             *)
LEMMA ReapGrouped == ASSUME Typing, Exact, Reap PROVE KeepsGroups
<1> DEFINE gone == worker.to_remove \cap DOMAIN tasks
           left == MatricesWithout(gone)
<1>1. UNCHANGED listener
  BY DEF Reap
<1>2. CASE \E j \in gone : ~RefsResolve(tasks[j])
  BY <1>1, <1>2, IdleGrouped DEF Reap
<1>3. CASE ~ \E j \in gone : ~RefsResolve(tasks[j])
  <2>1. /\ tasks' = Drop(tasks, gone)
        /\ matrices' = Drop(left, {m \in DOMAIN left : left[m] = {}})
        /\ tags' = [t \in DOMAIN tags |-> tags[t] \ {j \in gone : tasks[j].tag = t}]
    BY <1>3 DEF Reap
  <2>2. /\ DOMAIN tasks' = DOMAIN tasks \ gone
        /\ \A k \in DOMAIN tasks \ gone : tasks'[k] = tasks[k]
    BY <2>1 DEF Drop
  <2>3. /\ DOMAIN left = DOMAIN matrices
        /\ \A m \in DOMAIN matrices :
              left[m] = matrices[m] \ {j \in gone : tasks[j].matrix = m}
    BY DEF MatricesWithout
  <2> HIDE DEF left
  <2>4. /\ DOMAIN matrices' \subseteq DOMAIN matrices
        /\ \A m \in DOMAIN matrices : left[m] # {} => m \in DOMAIN matrices'
        /\ \A m \in DOMAIN matrices' :
              matrices'[m] = matrices[m] \ {j \in gone : tasks[j].matrix = m}
    BY <2>1, <2>3 DEF Drop
  <2>5. /\ DOMAIN tags' = DOMAIN tags
        /\ \A g \in DOMAIN tags : tags'[g] = tags[g] \ {j \in gone : tasks[j].tag = g}
    BY <2>1
  <2>6. \A k \in gone : tasks[k].matrix # None => tasks[k].matrix \in DOMAIN matrices
    BY <1>3 DEF RefsResolve
  <2> HIDE DEF gone
  <2>7. Members'
    <3>1. ASSUME NEW m \in DOMAIN matrices', NEW k \in matrices'[m]
          PROVE  k \in DOMAIN tasks' /\ tasks'[k].matrix = m
      <4>1. k \in matrices[m] /\ m \in DOMAIN matrices
            /\ ~(k \in gone /\ tasks[k].matrix = m)
        BY <2>4, <3>1
      <4>2. k \in DOMAIN tasks /\ tasks[k].matrix = m
        BY <4>1 DEF Exact, Members
      <4> QED
        BY <2>2, <4>1, <4>2
    <3> QED
      BY <3>1 DEF Members
  <2>8. ASSUME GroupsListMembers, NEW k \in DOMAIN tasks', tasks'[k].matrix # None,
               listener'.matrix # tasks'[k].matrix \/ k \notin listener'.jids
        PROVE  tasks'[k].matrix \in DOMAIN matrices' /\ k \in matrices'[tasks'[k].matrix]
    <3>1. k \in DOMAIN tasks /\ k \notin gone /\ tasks'[k] = tasks[k]
      BY <2>2
    <3> DEFINE m == tasks[k].matrix
    <3>2. m \in DOMAIN matrices /\ k \in matrices[m]
      BY <1>1, <2>8, <3>1 DEF GroupsListMembers
    <3>3. k \in left[m]
      BY <2>3, <3>1, <3>2
    <3>4. m \in DOMAIN matrices'
      BY <2>4, <3>2, <3>3
    <3> QED
      BY <2>4, <3>1, <3>2, <3>4
  <2>9. ASSUME GroupsListMembers, NEW k \in DOMAIN tasks', tasks'[k].tag # None
        PROVE  tasks'[k].tag \in DOMAIN tags' /\ k \in tags'[tasks'[k].tag]
    <3>1. k \in DOMAIN tasks /\ k \notin gone /\ tasks'[k] = tasks[k]
      BY <2>2
    <3>2. tasks[k].tag \in DOMAIN tags /\ k \in tags[tasks[k].tag]
      BY <2>9, <3>1 DEF GroupsListMembers
    <3> QED
      BY <2>5, <3>1, <3>2
  <2>10. GroupsListMembers => GroupsListMembers'
    BY <2>8, <2>9 DEF GroupsListMembers
  <2>11. Adding'
    <3> SUFFICES ASSUME listener.matrix # None PROVE Adding'
      BY <1>1 DEF Adding
    <3>1. /\ listener.at \in {"matrix", "insert_task", "insert_live"}
          /\ listener.matrix \notin DOMAIN matrices
          /\ listener.task.matrix = listener.matrix /\ listener.task.tag = None
          /\ listener.at = "insert_task" => listener.jid \in listener.jids
          /\ \A k \in listener.jids :
                \/ k = listener.jid /\ listener.at = "insert_task"
                \/ k \in DOMAIN tasks /\ tasks[k].matrix = listener.matrix
      BY DEF Exact, Adding
    <3>2. ASSUME NEW k \in DOMAIN tasks, tasks[k].matrix = listener.matrix
          PROVE  k \in DOMAIN tasks' /\ tasks'[k].matrix = listener.matrix
      BY <2>2, <2>6, <3>1, <3>2
    <3>3. listener.matrix \notin DOMAIN matrices'
      BY <2>4, <3>1
    <3> QED
      BY <1>1, <3>1, <3>2, <3>3 DEF Adding
  <2>12. Single'
    BY <1>1, <2>5 DEF Exact, Single
  <2> QED
    BY <2>7, <2>10, <2>11, <2>12 DEF KeepsGroups, Exact
<1> QED
  BY <1>2, <1>3

(* A retry joins the groups of the task it repeats.                        *)
LEMMA CloneFailedGrouped ==
    ASSUME Typing, Exact, NEW j, CloneFailed(j) PROVE KeepsGroups
<1> DEFINE t == [CloneTask(tasks[j]) EXCEPT !.attempt = tasks[j].attempt + 1]
<1>1. UNCHANGED listener
  BY DEF CloneFailed
<1>2. CASE RefsResolve(t)
  <2>1. InsertClone(next_jid, t)
    BY <1>2 DEF CloneFailed
  <2> HIDE DEF t
  <2> QED
    BY <1>1, <1>2, <2>1, CloneGrouped
<1>3. CASE ~RefsResolve(t)
  BY <1>1, <1>3, IdleGrouped DEF CloneFailed
<1> QED
  BY <1>2, <1>3

(* Every step of the work thread keeps the groups.                            *)
LEMMA WorkThreadStepGrouped == ASSUME Typing, Exact, WorkThreadStep PROVE KeepsGroups
<1>1. ProcessNotifications \/ BeginIteration \/ EndDriving \/ EndIteration => KeepsGroups
  BY IdleGrouped DEF ProcessNotifications, BeginIteration, EndDriving, EndIteration, shared
<1> QED
  BY <1>1, TryDriveSmGrouped, ReapGrouped, CloneFailedGrouped DEF WorkThreadStep

-----------------------------------------------------------------------------
(* The requests.  A new one is taken up while no matrix is being added.    *)
LEMMA IdleListenerAdds ==
    ASSUME Typing, listener.at = "idle" PROVE listener.matrix = None
BY DEF Typing, ListenerTyped

(* Requests that leave the groups, and what tasks belong to, alone.        *)
LEMMA PlainRequestGrouped ==
    ASSUME Typing, Exact, NEW j \in DOMAIN tasks, NEW m, NEW c, NEW how,
           \/ MakeAvailable(m, c) \/ RemoveAvailable(m) \/ CancelJob(j, how)
           \/ HoldJob(j) \/ UnholdJob(j) \/ AddJobTimeout(j)
    PROVE  KeepsGroups
<1>1. UNCHANGED <<matrices, tags, listener>>
  BY DEF MakeAvailable, RemoveAvailable, CancelJob, HoldJob, UnholdJob, AddJobTimeout
<1>2. ASSUME NEW k \in DOMAIN tasks, NEW st PROVE
         /\ \A t \in {[tasks[k] EXCEPT !.state = st], [tasks[k] EXCEPT !.canceled = st],
                     [tasks[k] EXCEPT !.timeout = st]} :
               t.matrix = tasks[k].matrix /\ t.tag = tasks[k].tag
  BY Types, MapAt DEF Task
<1>3. ASSUME NEW k \in DOMAIN tasks, NEW st, Cancel(k, st) PROVE KeepsGroups
  BY <1>1, <1>2, <1>3, OneTaskGrouped DEF Cancel
<1>4. MakeAvailable(m, c) => KeepsGroups
  BY <1>1, IdleGrouped DEF MakeAvailable
<1>5. RemoveAvailable(m) => KeepsGroups
  BY <1>1, <1>3, IdleGrouped DEF RemoveAvailable
<1>6. CancelJob(j, how) => KeepsGroups
  BY <1>3 DEF CancelJob
<1>7. HoldJob(j) \/ UnholdJob(j) => KeepsGroups
  BY <1>1, <1>2, OneTaskGrouped DEF HoldJob, UnholdJob
<1>8. AddJobTimeout(j) => KeepsGroups
  BY <1>1, <1>2, OneTaskGrouped DEF AddJobTimeout
<1> QED
  BY <1>4, <1>5, <1>6, <1>7, <1>8

(* So does a clone that a client asks for.                                 *)
LEMMA CloneJobGrouped ==
    ASSUME Typing, Exact, NEW j \in DOMAIN tasks, CloneJob(j) PROVE KeepsGroups
<1> DEFINE t == CloneTask(tasks[j])
<1>1. UNCHANGED listener
  BY DEF CloneJob
<1>2. CASE RefsResolve(t)
  <2>1. InsertClone(next_jid, t)
    BY <1>2 DEF CloneJob
  <2> HIDE DEF t
  <2> QED
    BY <1>1, <1>2, <2>1, CloneGrouped
<1>3. CASE ~RefsResolve(t)
  BY <1>1, <1>3, IdleGrouped DEF CloneJob
<1> QED
  BY <1>2, <1>3

(* A task that is tagged is listed under its new tag.                      *)
LEMMA TagJobGrouped ==
    ASSUME Typing, Exact, NEW j \in DOMAIN tasks, NEW g \in DOMAIN tags, TagJob(j, g)
    PROVE  KeepsGroups
<1> DEFINE t == [tasks[j] EXCEPT !.tag = g]
<1>1. /\ tasks' = [tasks EXCEPT ![j] = t] /\ tags' = [tags EXCEPT ![g] = @ \cup {j}]
      /\ UNCHANGED <<matrices, listener>> /\ listener.matrix = None
  BY IdleListenerAdds DEF TagJob, Handle, Accept
<1>2. tasks[j] \in Task
  BY Types, MapAt
<1>3. t.matrix = tasks[j].matrix /\ t.tag = g
  BY <1>2 DEF Task
<1> HIDE DEF t
<1>4. /\ DOMAIN tasks' = DOMAIN tasks /\ tasks'[j] = t
      /\ \A k \in DOMAIN tasks \ {j} : tasks'[k] = tasks[k]
  BY <1>1, Types DEF IsMap
<1>5. /\ DOMAIN tags' = DOMAIN tags /\ tags'[g] = tags[g] \cup {j}
      /\ \A h \in DOMAIN tags : tags[h] \subseteq tags'[h]
  BY <1>1, Types DEF IsMap
<1>6. GroupsListMembers => GroupsListMembers'
  BY <1>1, <1>3, <1>4, <1>5 DEF GroupsListMembers
<1>7. Members'
  BY <1>1, <1>3, <1>4 DEF Exact, Members
<1>8. Adding' /\ Single'
  BY <1>1, <1>5 DEF Exact, Adding, Single
<1> QED
  BY <1>6, <1>7, <1>8 DEF KeepsGroups, Exact

(* One that is untagged is taken off the list of the tag it had.           *)
LEMMA UntagJobGrouped ==
    ASSUME Typing, Exact, NEW j \in DOMAIN tasks, UntagJob(j) PROVE KeepsGroups
<1> DEFINE g == tasks[j].tag
           t == [tasks[j] EXCEPT !.tag = None]
<1>1. UNCHANGED <<matrices, listener>> /\ listener.matrix = None
  BY IdleListenerAdds DEF UntagJob, Handle, Accept
<1>2. CASE g \notin DOMAIN tags
  BY <1>1, <1>2, IdleGrouped DEF UntagJob
<1>3. CASE g \in DOMAIN tags
  <2>1. tasks' = [tasks EXCEPT ![j] = t] /\ tags' = [tags EXCEPT ![g] = @ \ {j}]
    BY <1>3 DEF UntagJob
  <2>2. tasks[j] \in Task
    BY Types, MapAt
  <2>3. t.matrix = tasks[j].matrix /\ t.tag = None
    BY <2>2 DEF Task
  <2> HIDE DEF t
  <2>4. /\ DOMAIN tasks' = DOMAIN tasks /\ tasks'[j] = t
        /\ \A k \in DOMAIN tasks \ {j} : tasks'[k] = tasks[k]
    BY <2>1, Types DEF IsMap
  <2>5. /\ DOMAIN tags' = DOMAIN tags
        /\ \A h \in DOMAIN tags : tags[h] \ {j} \subseteq tags'[h]
    BY <2>1, Types DEF IsMap
  <2>6. GroupsListMembers => GroupsListMembers'
    BY <1>1, <2>3, <2>4, <2>5 DEF GroupsListMembers
  <2>7. Members'
    BY <1>1, <2>3, <2>4 DEF Exact, Members
  <2>8. Adding' /\ Single'
    BY <1>1, <2>5 DEF Exact, Adding, Single
  <2> QED
    BY <2>6, <2>7, <2>8 DEF KeepsGroups, Exact
<1> QED
  BY <1>2, <1>3

(* An id is handed out.                                                    *)
LEMMA AllocateGrouped ==
    ASSUME Typing, Exact, listener.at = "idle",
           NEW point \in {"insert_task", "insert_tagged", "insert_tag"}, NEW task,
           point # "insert_tag" => task.matrix = None,
           point = "insert_task" => task.tag = None, Allocate(point, task)
    PROVE  KeepsGroups
<1>1. UNCHANGED <<tasks, matrices, tags>>
  BY DEF Allocate
<1>2. /\ listener'.at = point /\ listener'.jid = next_jid /\ listener'.task = task
      /\ listener'.matrix = listener.matrix /\ listener.matrix = None
  BY Types, IdleListenerAdds DEF Allocate, Listener
<1>3. (GroupsListMembers => GroupsListMembers') /\ Members' /\ Adding'
  BY <1>1, <1>2 DEF Exact, GroupsListMembers, Members, Adding
<1>4. Single'
  BY <1>1, <1>2, IdsAreNumbers DEF Single
<1> QED
  BY <1>3, <1>4 DEF KeepsGroups, Exact

(* Taking up a submission names a matrix or tag, but inserts nothing yet.  *)
LEMMA AddGrouped ==
    ASSUME Typing, Exact, NEW spec, NEW g, NEW m,
           AddJob(spec) \/ AddTaggedJob(spec, g) \/ SetUpMachine(spec, m) \/ AddTag
    PROVE  KeepsGroups
<1>1. \A n, h : /\ NewTask(spec, n, None, h).matrix = None
                /\ NewTask(spec, n, None, h).tag = h
  BY DEF NewTask
<1> QED
  BY <1>1, AllocateGrouped DEF AddJob, AddTaggedJob, SetUpMachine, AddTag, Accept

(* The id of a new matrix is nobody else's, and it has no tasks yet.       *)
LEMMA AddMatrixGrouped ==
    ASSUME Typing, Exact, NEW spec, NEW n, AddMatrix(spec, n) PROVE KeepsGroups
<1> DEFINE task == NewTask([spec EXCEPT !.repeat_on_fail = TRUE], None, next_jid, None)
<1>1. /\ UNCHANGED <<tasks, matrices, tags>> /\ listener.matrix = None
      /\ listener'.at = "matrix" /\ listener'.matrix = next_jid /\ listener'.jids = {}
      /\ listener'.task = task
  BY IdleListenerAdds DEF AddMatrix, Accept
<1>2. task.matrix = next_jid /\ task.tag = None
  BY DEF NewTask
<1> HIDE DEF task
<1>3. Adding' /\ Single'
  BY <1>1, <1>2, IdsAreNumbers DEF Adding, Single
<1>4. (GroupsListMembers => GroupsListMembers') /\ Members'
  BY <1>1 DEF Exact, GroupsListMembers, Members
<1> QED
  BY <1>3, <1>4 DEF KeepsGroups, Exact

(* Taking up any request keeps the groups.                                    *)
LEMMA NewRequestGrouped == ASSUME Typing, Exact, NewRequest PROVE KeepsGroups
<1>1. ASSUME NEW m, NEW c, MakeAvailable(m, c) \/ RemoveAvailable(m) PROVE KeepsGroups
  <2>1. UNCHANGED <<matrices, tags, listener>>
    BY <1>1 DEF MakeAvailable, RemoveAvailable
  <2>2. CASE UNCHANGED tasks
    BY <2>1, <2>2, IdleGrouped
  <2>3. CASE ~UNCHANGED tasks
    <3>1. \E j \in DOMAIN tasks : TRUE
      BY <1>1, <2>3 DEF MakeAvailable, RemoveAvailable
    <3> QED
      BY <1>1, <3>1, PlainRequestGrouped
  <2> QED
    BY <2>2, <2>3
<1>2. ASSUME NEW j \in DOMAIN tasks, NEW how,
             CancelJob(j, how) \/ HoldJob(j) \/ UnholdJob(j) \/ AddJobTimeout(j)
      PROVE  KeepsGroups
  BY <1>2, PlainRequestGrouped
<1> QED
  BY <1>1, <1>2, CloneJobGrouped, TagJobGrouped, UntagJobGrouped, AddGrouped, AddMatrixGrouped
     DEF NewRequest

-----------------------------------------------------------------------------
(* The later critical sections of a request.                               *)
LEMMA MatrixAllocateGrouped == ASSUME Typing, Exact, MatrixAllocate PROVE KeepsGroups
<1>1. /\ UNCHANGED <<tasks, matrices, tags>> /\ listener.at = "matrix"
      /\ listener.matrix # None
  BY DEF MatrixAllocate, Resume, Typing, ListenerTyped
<1>2. /\ listener'.at = "insert_task" /\ listener'.jid = next_jid
      /\ listener'.jids = listener.jids \cup {next_jid}
      /\ listener'.task = listener.task /\ listener'.matrix = listener.matrix
  BY Types DEF MatrixAllocate, Listener
<1>3. Adding' /\ Single'
  BY <1>1, <1>2 DEF Exact, Adding, Single
<1>4. (GroupsListMembers => GroupsListMembers') /\ Members'
  BY <1>1, <1>2 DEF Exact, GroupsListMembers, Members
<1> QED
  BY <1>3, <1>4 DEF KeepsGroups, Exact

(* A task that is inserted is listed in its matrix, or about to be.        *)
LEMMA InsertTaskGrouped == ASSUME Typing, Safe, Exact, InsertTask PROVE KeepsGroups
<1>1. /\ tasks' = Put(tasks, listener.jid, listener.task) /\ UNCHANGED <<matrices, tags>>
      /\ listener.at = "insert_task"
  BY DEF InsertTask, Resume
<1>2. /\ listener'.at = "insert_live" /\ listener'.jid = listener.jid
      /\ listener'.task = listener.task /\ listener'.matrix = listener.matrix
      /\ listener'.jids = listener.jids
  BY Types DEF InsertTask, Listener
<1>3. listener.jid \notin DOMAIN tasks /\ listener.jid \in Issued
  BY <1>1 DEF Safe, ListenerFresh, Typing, ListenerTyped
<1>4. /\ listener.task.tag = None
      /\ listener.task.matrix = listener.matrix
      /\ listener.matrix # None => listener.jid \in listener.jids
  BY <1>1 DEF Exact, Adding, Single
<1>5. /\ DOMAIN tasks' = DOMAIN tasks \cup {listener.jid}
      /\ tasks'[listener.jid] = listener.task
      /\ \A k \in DOMAIN tasks : tasks'[k] = tasks[k]
  BY <1>1, <1>3 DEF Put
<1>6. Adding'
  BY <1>1, <1>2, <1>4, <1>5 DEF Exact, Adding
<1>7. Single'
  BY <1>2 DEF Single
<1>8. /\ \A m \in DOMAIN matrices : listener.task.matrix # m
      /\ \A g \in DOMAIN tags : listener.task.tag # g
  BY <1>4, IdsAreNumbers DEF Exact, Adding
<1> QED
  BY <1>1, <1>2, <1>3, <1>4, <1>6, <1>7, <1>8, InsertGrouped

(* Making a task live leaves the groups alone.                             *)
LEMMA InsertLiveGrouped == ASSUME Typing, Exact, InsertLive PROVE KeepsGroups
<1>1. UNCHANGED <<tasks, matrices, tags>> /\ listener.at = "insert_live"
  BY DEF InsertLive, Resume
<1>2. CASE listener.matrix = None
  <2>1. listener'.at = "idle" /\ listener'.matrix = None
    BY <1>2 DEF InsertLive, IdleListener
  <2> QED
    BY <1>1, <1>2, <2>1 DEF KeepsGroups, Exact, GroupsListMembers, Members, Adding, Single
<1>3. CASE listener.matrix # None
  <2>1. /\ listener'.at = "matrix" /\ listener'.matrix = listener.matrix
        /\ listener'.jids = listener.jids /\ listener'.task = listener.task
    BY <1>3, Types DEF InsertLive, Listener
  <2> QED
    BY <1>1, <1>3, <2>1 DEF KeepsGroups, Exact, GroupsListMembers, Members, Adding, Single
<1> QED
  BY <1>2, <1>3

(* The matrix that is published lists all that was made for it.            *)
LEMMA PublishMatrixGrouped == ASSUME Typing, Exact, PublishMatrix PROVE KeepsGroups
<1> DEFINE m == listener.matrix
<1>1. /\ UNCHANGED <<tasks, tags>> /\ matrices' = Put(matrices, m, listener.jids)
      /\ listener'.at = "idle" /\ listener'.matrix = None
      /\ listener.at = "matrix" /\ m # None
  BY DEF PublishMatrix, Resume, IdleListener, Typing, ListenerTyped
<1>2. m \notin DOMAIN matrices /\ \A k \in listener.jids : k \in DOMAIN tasks /\ tasks[k].matrix = m
  BY <1>1 DEF Exact, Adding
<1>3. /\ DOMAIN matrices' = DOMAIN matrices \cup {m} /\ matrices'[m] = listener.jids
      /\ \A x \in DOMAIN matrices : matrices'[x] = matrices[x]
  BY <1>1, <1>2 DEF Put
<1>4. GroupsListMembers => GroupsListMembers'
  BY <1>1, <1>3 DEF GroupsListMembers
<1>5. Members'
  BY <1>1, <1>2, <1>3 DEF Exact, Members
<1>6. Adding' /\ Single'
  BY <1>1 DEF Adding, Single
<1> QED
  BY <1>4, <1>5, <1>6 DEF KeepsGroups, Exact

(* A tagged task is inserted together with its place in the tag.           *)
LEMMA InsertTaggedGrouped == ASSUME Typing, Safe, Exact, InsertTagged PROVE KeepsGroups
<1> DEFINE g == listener.task.tag
           n == listener.jid
<1>1. /\ listener.at = "insert_tagged" /\ UNCHANGED matrices
      /\ listener'.at = "idle" /\ listener'.matrix = None
  BY DEF InsertTagged, Resume, IdleListener
<1>2. listener.matrix = None /\ listener.task.matrix = None
  BY <1>1 DEF Exact, Adding, Single
<1>3. Adding' /\ Single'
  BY <1>1 DEF Adding, Single
<1>4. CASE g \in DOMAIN tags
  <2>1. /\ tasks' = Put(tasks, n, listener.task)
        /\ tags' = [tags EXCEPT ![g] = @ \cup {n}]
    BY <1>4 DEF InsertTagged
  <2>2. n \notin DOMAIN tasks /\ n \in Issued
    BY <1>1 DEF Safe, ListenerFresh, Typing, ListenerTyped
  <2>3. DOMAIN tags' = DOMAIN tags
        /\ \A h \in DOMAIN tags : tags'[h] = IF g = h THEN tags[h] \cup {n} ELSE tags[h]
    BY <2>1, Types DEF IsMap
  <2>4. \A m \in DOMAIN matrices : listener.task.matrix # m
    BY <1>2, IdsAreNumbers
  <2> QED
    BY <1>1, <1>2, <1>3, <1>4, <2>1, <2>2, <2>3, <2>4, InsertGrouped
<1>5. CASE g \notin DOMAIN tags
  <2>1. UNCHANGED <<tasks, tags>>
    BY <1>5 DEF InsertTagged
  <2>2. (GroupsListMembers => GroupsListMembers') /\ Members'
    BY <1>1, <1>2, <2>1 DEF Exact, GroupsListMembers, Members
  <2> QED
    BY <1>3, <2>2 DEF KeepsGroups, Exact
<1> QED
  BY <1>4, <1>5

(* A new tag replaces none that tasks name.                                *)
LEMMA InsertTagGrouped == ASSUME Typing, Exact, InsertTag PROVE KeepsGroups
<1>1. /\ UNCHANGED <<tasks, matrices>> /\ tags' = Put(tags, listener.jid, {})
      /\ listener'.at = "idle" /\ listener'.matrix = None
      /\ listener.at = "insert_tag"
  BY DEF InsertTag, Resume, IdleListener
<1>2. listener.jid \notin DOMAIN tags /\ listener.matrix = None
  BY <1>1 DEF Exact, Adding, Single
<1>3. /\ DOMAIN tags \subseteq DOMAIN tags'
      /\ \A g \in DOMAIN tags : tags'[g] = tags[g]
  BY <1>1, <1>2 DEF Put
<1>4. GroupsListMembers => GroupsListMembers'
  BY <1>1, <1>2, <1>3 DEF GroupsListMembers
<1>5. Members' /\ Adding' /\ Single'
  BY <1>1 DEF Exact, Members, Adding, Single
<1> QED
  BY <1>4, <1>5 DEF KeepsGroups, Exact

-----------------------------------------------------------------------------
(* Every step keeps Grouped.                                               *)
LEMMA StepGroups == Typing /\ Safe /\ Exact /\ [Next]_vars => KeepsGroups
<1> SUFFICES ASSUME Typing, Safe, Exact, [Next]_vars PROVE KeepsGroups
  OBVIOUS
<1>1. CASE UNCHANGED vars
  BY <1>1, IdleGrouped DEF vars, shared
<1>2. ASSUME NEW j, Environment(j) PROVE KeepsGroups
  BY <1>2, IdleGrouped DEF Environment, ProcessExits, CopierReports, shared
<1>3. FinishRequest => KeepsGroups
  BY MatrixAllocateGrouped, InsertTaskGrouped, InsertLiveGrouped, PublishMatrixGrouped,
     InsertTaggedGrouped, InsertTagGrouped DEF FinishRequest
<1> QED
  BY <1>1, <1>2, <1>3, WorkThreadStepGrouped, NewRequestGrouped DEF Next

(* Grouped holds throughout.                                               *)
LEMMA AlwaysGrouped == Spec => []Grouped
<1>1. Init => Grouped
  BY InitGrouped
<1>2. Typing /\ Safe /\ Grouped /\ [Next]_vars => Grouped'
  BY StepGroups DEF Grouped, KeepsGroups
<1>3. Spec => []Typing
  BY TypingInvariant
<1>4. Spec => []Safe
  BY SafetyInvariant
<1> QED
  BY <1>1, <1>2, <1>3, <1>4, PTL DEF Spec

(* A task that names a matrix or a tag is listed there (or in the matrix   *)
(* that AddMatrix has yet to publish), so that reaping it takes it off.    *)
THEOREM GroupsAreComplete == Spec => []GroupsListMembers
<1>1. Grouped => GroupsListMembers
  BY DEF Grouped
<1> QED
  BY <1>1, AlwaysGrouped, PTL

(* A matrix lists no task that was reaped, not even one that was cancelled *)
(* while the matrix was being added (AddMatrix, request.rs).               *)
THEOREM MatricesAreExact == Spec => []MatrixHasNoGhost
<1>1. Grouped => MatrixHasNoGhost
  BY DEF Grouped, Exact, Members, MatrixHasNoGhost
<1> QED
  BY <1>1, AlwaysGrouped, PTL
=============================================================================
