----------------------------- MODULE ServerState -----------------------------
(***************************************************************************)
(* The state of the experiment job server (src/src/bin/server/main.rs):    *)
(* the maps that struct Server shares between its threads, the local       *)
(* variables of the work thread, and how far the listener thread is in the *)
(* request it is serving.  The modules StateMachine, WorkThread and        *)
(* Requests define the steps; Server composes them.                        *)
(*                                                                         *)
(* A Rust map is a function whose domain is the set of its keys; None is   *)
(* Option::None; a string that nothing interprets (a command, a path) is   *)
(* not represented.                                                        *)
(***************************************************************************)
EXTENDS Integers, FiniteSets

CONSTANTS
    Machines,          \* machine names (HOST:PORT) clients can mention
    Classes,           \* machine classes clients can mention
    None,              \* Option::None
    UnknownHostClass,  \* the class UNKNOWN_HOST_ERROR_CLASS
    BrokenClass,       \* stands for every class named "<class>-broken"
    JobSpecs,          \* the jobs clients may submit
    SetupSpecs,        \* the setup tasks clients may submit
    MachineFailures,   \* MACHINE_FAILURES: failures that break a machine
    ImmediateEvents,   \* the --notify_* flags the server was started with
    MatrixSizes,       \* numbers of jobs a matrix may expand to
    Offered,           \* the requests clients send in this instance
    MaxRequests,       \* bound: requests the listener accepts
    MaxFaults          \* bound: failures of the environment

Requests == {"AddJob", "AddTaggedJob", "SetUpMachine", "AddMatrix", "AddTag",
             "MakeAvailable", "RemoveAvailable", "HoldJob", "UnholdJob",
             "CancelJob", "CloneJob", "TagJob", "AddJobTimeout"}
Events   == {"running", "complete", "results_copied", "task_failed",
             "machine_broken"}

(* What a client fixes when it submits a task.  cmds is the number of      *)
(* commands; cp_results says whether a destination for results was given.  *)
JobSpec == [ty : {"Job", "SetupTask"}, class : Classes \cup {None},
            cmds : Nat \ {0}, cp_results : BOOLEAN, repeat_on_fail : BOOLEAN,
            maximum_failures : Nat \cup {None}, timeout : BOOLEAN,
            notify : BOOLEAN]

ASSUME NoneAssumption ==
    /\ None \notin Machines \cup Classes \cup Nat
    /\ None \notin {"keep", "remove"}
(* Jids and machine names are different types in the code.                 *)
ASSUME NameAssumption == Machines \cap Nat = {}
ASSUME SpecAssumption ==
    /\ JobSpecs \subseteq {s \in JobSpec : s.ty = "Job" /\ s.cmds = 1 /\ s.class # None}
    /\ SetupSpecs \subseteq {s \in JobSpec : /\ s.ty = "SetupTask"
                                             /\ ~s.cp_results /\ ~s.repeat_on_fail
                                             /\ s.maximum_failures = None}
ASSUME BoundAssumption ==
    /\ MachineFailures \in Nat \ {0}
    /\ MaxRequests \in Nat /\ MaxFaults \in Nat
    /\ MatrixSizes \subseteq Nat
    /\ Offered \subseteq Requests /\ ImmediateEvents \subseteq Events

VARIABLES
    machines,       \* machine -> MachineStatus
    tasks,          \* jid -> Task
    live_tasks,     \* jids the work thread drives
    matrices,       \* matrix id -> the jids in it
    tags,           \* tag id -> the jids in it
    next_jid,       \* next id, shared by tasks, matrices and tags
    immediate,      \* SlackNotifications::enqueued_immediate
    handles,        \* running_job_handles: jid -> what try_wait returns
    copying,        \* jids handed to the copier thread and not given up by it
    copying_flags,  \* jid -> what the copier thread reported
    worker,         \* the work thread's locals
    listener,       \* the request being served
    requests,       \* requests accepted so far
    faults,         \* environment failures so far
    panicked        \* a thread panicked: its mutexes are poisoned

shared == <<machines, tasks, live_tasks, matrices, tags, next_jid>>
vars == <<shared, immediate, handles, copying, copying_flags, worker, listener,
          requests, faults, panicked>>

-----------------------------------------------------------------------------
(* Maps. *)
Put(f, k, v)  == [x \in DOMAIN f \cup {k} |-> IF x = k THEN v ELSE f[x]]
Drop(f, S)    == [x \in DOMAIN f \ S |-> f[x]]
EmptyMap      == [x \in {} |-> None]
IsMap(f, K, V) == /\ f = [k \in DOMAIN f |-> f[k]]
                  /\ DOMAIN f \subseteq K
                  /\ \A k \in DOMAIN f : f[k] \in V

(* enum TaskState, without the data the properties do not need. *)
Holding  == {"Running", "CheckingResults", "CopyingResults", "Finalize", "Error"}
Terminal == {"Done", "DoneWithResults", "Killed", "Unknown", "ErrorDone"}
TaskState == {"Waiting", "Held", "Canceled"} \cup Holding \cup Terminal

(* struct Task.  index is the command of Running, Error and ErrorDone;     *)
(* results is whether Finalize carries a results path.                     *)
Task == [job : JobSpec, machine : Machines \cup {None}, state : TaskState,
         index : Nat, results : BOOLEAN, canceled : {None, "keep", "remove"},
         attempt : Nat, timeout : BOOLEAN, timedout : Nat \cup {None},
         matrix : Nat \cup {None}, tag : Nat \cup {None}]

NewTask(spec, machine, matrix, tag) ==
    [job |-> spec, machine |-> machine, state |-> "Waiting", index |-> 0,
     results |-> FALSE, canceled |-> None, attempt |-> 0,
     timeout |-> spec.timeout, timedout |-> None, matrix |-> matrix, tag |-> tag]

MachineClass == Classes \cup {UnknownHostClass, BrokenClass}

(* struct MachineStatus.  failures only ever matters through a comparison  *)
(* with MACHINE_FAILURES, so it saturates there.                           *)
MachineStatus == [class : MachineClass, running : Nat \cup {None},
                  failures : 0..MachineFailures]

CopierThreadResult == {"Success", "SshUnknownHostKey", "OtherFailure"}
ExitStatus         == {"running", "ok", "fail"}

(* The work thread.  at: idle (snapshot taken, notifications not yet       *)
(* processed), sleep, drive, reap, clone; the last three hold every lock.  *)
(* todo is what is left of live_tasks_snapshot.                            *)
Worker == [at : {"idle", "sleep", "drive", "reap", "clone"}, todo : SUBSET Nat,
           updated : BOOLEAN, to_remove : SUBSET Nat, to_clone : SUBSET Nat]
InitWorker == [at |-> "idle", todo |-> {}, updated |-> TRUE,
               to_remove |-> {}, to_clone |-> {}]

(* The listener thread serves one request at a time; only the requests     *)
(* that take their locks one after the other have intermediate points.     *)
Listener == [at : {"idle", "insert_task", "insert_live", "insert_tagged",
                   "insert_tag", "matrix"},
             jid : Nat \cup {None}, task : Task \cup {None},
             matrix : Nat \cup {None}, left : Nat, jids : SUBSET Nat]
IdleListener == [at |-> "idle", jid |-> None, task |-> None, matrix |-> None,
                 left |-> 0, jids |-> {}]

WorkerHoldsLocks == worker.at \in {"drive", "reap", "clone"}

(* Server::new with no snapshot file and --allow_snap_fail. *)
Init == /\ machines = EmptyMap /\ tasks = EmptyMap /\ live_tasks = {}
        /\ matrices = EmptyMap /\ tags = EmptyMap /\ next_jid = 0
        /\ immediate = {} /\ handles = EmptyMap
        /\ copying = {} /\ copying_flags = EmptyMap
        /\ worker = InitWorker /\ listener = IdleListener
        /\ requests = 0 /\ faults = 0 /\ panicked = FALSE

(* Types: every map holds only well-formed entries for ids already handed  *)
(* out (main.rs, struct Server).                                           *)
TypeOK == /\ IsMap(machines, Machines, MachineStatus)
          /\ IsMap(tasks, 0..(next_jid - 1), Task)
          /\ live_tasks \subseteq 0..(next_jid - 1)
          /\ IsMap(matrices, 0..(next_jid - 1), SUBSET Nat)
          /\ IsMap(tags, 0..(next_jid - 1), SUBSET Nat)
          /\ next_jid \in Nat
          /\ immediate \subseteq Nat \cup Machines
          /\ IsMap(handles, 0..(next_jid - 1), ExitStatus)
          /\ copying \subseteq 0..(next_jid - 1)
          /\ IsMap(copying_flags, 0..(next_jid - 1), CopierThreadResult)
          /\ worker \in Worker /\ listener \in Listener
          /\ requests \in 0..MaxRequests /\ faults \in 0..MaxFaults
          /\ panicked \in BOOLEAN
=============================================================================
