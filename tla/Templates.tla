----------------------------- MODULE Templates -----------------------------
(***************************************************************************)
(* The variables of command templates: the map the server keeps for `j var *)
(* set`, the values a task is given when it is submitted, the combinations *)
(* a matrix expands to, and the log file that each command writes, whose   *)
(* name is computed from all of these again whenever it is needed.         *)
(*                                                                         *)
(* Text is not represented: a command is told by its index in its task,    *)
(* the variables and the machine that are put into it.                     *)
(***************************************************************************)
EXTENDS Server, Sequences

CONSTANTS Names, Values,   \* variables, and what they can be set to
          Expansions       \* what clients ask of a matrix: the values its
                           \* variables take, and the jobs per combination

ASSUME TemplateAssumption ==
    /\ IsFiniteSet(Names) /\ IsFiniteSet(Values)
    /\ \A e \in Expansions :
          /\ DOMAIN e.given \subseteq Names
          /\ \A x \in DOMAIN e.given : e.given[x] \subseteq Values
          /\ e.repeat \in Nat

VARIABLES
    variables,    \* Server::variables
    env,          \* jid -> Task::variables
    pending,      \* the variables of the tasks the listener is to insert
    matrix_vars,  \* matrix id -> Matrix::variables, and the jobs of each kind
    log           \* jid -> the file its last command was to write

templateVars == <<vars, variables, env, pending, matrix_vars, log>>

TemplateInit == /\ Init
                /\ variables = EmptyMap /\ env = EmptyMap /\ pending = << >>
                /\ matrix_vars = EmptyMap /\ log = EmptyMap

(* run_cmd: cmd_to_path of the expanded command.                           *)
LogPath(j, index, values, machine) ==
    [jid |-> j, index |-> index, values |-> values, machine |-> machine]

-----------------------------------------------------------------------------
SetVar(x, v) ==
    /\ ~panicked /\ listener.at = "idle"
    /\ requests < MaxRequests /\ requests' = requests + 1
    /\ variables' = Put(variables, x, v)
    /\ UNCHANGED <<shared, immediate, handles, copying, copying_flags, worker,
                   listener, faults, panicked, env, pending, matrix_vars, log>>

(* Every task takes the server's variables as they are.                    *)
SubmitTask ==
    /\ \/ \E spec \in JobSpecs : AddJob(spec) \/ \E t \in 0..next_jid : AddTaggedJob(spec, t)
       \/ \E spec \in SetupSpecs, m \in Machines : SetUpMachine(spec, m)
    /\ pending' = <<variables>>
    /\ UNCHANGED <<variables, env, matrix_vars, log>>

(* vars.extend(server variables): the server's value wins.                 *)
Merged(given) == [x \in DOMAIN given \cup DOMAIN variables |->
                    IF x \in DOMAIN variables THEN {variables[x]} ELSE given[x]]

(* cartesian_product, which is empty if there is no variable.              *)
Product(values) == IF DOMAIN values = {} THEN {}
                   ELSE {f \in [DOMAIN values -> Values] :
                           \A x \in DOMAIN values : f[x] \in values[x]}

(* The jobs of a matrix: the combinations in some order, each repeated.    *)
(* Wrong variant: each only once.                                          *)
Once(order, repeat) == order
Repeated(order, repeat) ==
    [i \in 1..(repeat * Len(order)) |-> order[((i - 1) \div repeat) + 1]]

SubmitMatrix(spec, e) ==
    LET configs == Product(Merged(e.given)) IN
    \E order \in [1..Cardinality(configs) -> configs] :
        /\ {order[i] : i \in DOMAIN order} = configs
        /\ pending' = Repeated(order, e.repeat)
        /\ Len(pending') \in MatrixSizes
        /\ AddMatrix(spec, Len(pending'))
        /\ matrix_vars' = Put(matrix_vars, next_jid,
                              [values |-> Merged(e.given), repeat |-> e.repeat])
        /\ UNCHANGED <<variables, env, log>>

InsertWithVariables ==
    /\ InsertTask \/ InsertTagged
    /\ env' = IF listener.jid \in DOMAIN tasks' THEN Put(env, listener.jid, Head(pending))
              ELSE env
    /\ pending' = Tail(pending)
    /\ UNCHANGED <<variables, matrix_vars, log>>

(* clone_task.  Wrong variant: the clone takes the variables of today.     *)
InheritNothing(j) == env' = Put(env, next_jid, variables)
Inherit(j)        == env' = Put(env, next_jid, env[j])
Clone(j) == /\ CloneJob(j) \/ (j \in worker.to_clone /\ CloneFailed(j))
            /\ IF panicked' THEN env' = env ELSE Inherit(j)
            /\ UNCHANGED <<variables, pending, matrix_vars, log>>

(* run_cmd opens the file before it spawns the process.                    *)
RunCommand(j) ==
    /\ \E spawned \in BOOLEAN :
          NextCommand(j, spawned) \/ \E m \in Machines : Start(j, m, spawned)
    /\ log' = Put(log, j, LogPath(j, tasks'[j].index, env[j], tasks'[j].machine))
    /\ UNCHANGED <<variables, env, pending, matrix_vars>>

(* Removed tasks take their variables along, and so do empty matrices.     *)
ReapWithVariables ==
    /\ Reap
    /\ env' = Drop(env, DOMAIN tasks \ DOMAIN tasks')
    /\ log' = Drop(log, DOMAIN tasks \ DOMAIN tasks')
    /\ matrix_vars' = Drop(matrix_vars, DOMAIN matrices \ DOMAIN matrices')
    /\ UNCHANGED <<variables, pending>>

(* The other requests: nothing is submitted. *)
OtherRequest ==
    \/ \E m \in Machines : RemoveAvailable(m) \/ \E c \in Classes : MakeAvailable(m, c)
    \/ \E j \in DOMAIN tasks :
          \/ \E how \in {"keep", "remove"} : CancelJob(j, how)
          \/ HoldJob(j) \/ UnholdJob(j) \/ AddJobTimeout(j)
          \/ \E t \in DOMAIN tags : TagJob(j, t)
          \/ UntagJob(j)
    \/ AddTag

(* The transitions that start no command. *)
OtherDrive(j) ==
    \/ DriveHeld(j) \/ NoMachine(j) \/ AllCommandsDone(j) \/ CommandFailed(j)
    \/ TimeOut(j) \/ StillRunning(j)
    \/ \E produced \in BOOLEAN : CheckResults(j, produced)
    \/ CheckPanics(j) \/ CopyReported(j) \/ StillCopying(j)
    \/ Finalize(j) \/ DriveTerminal(j) \/ DriveError(j) \/ DriveCanceled(j)

TemplateNext ==
    \/ \E x \in Names, v \in Values : SetVar(x, v)
    \/ SubmitTask
    \/ \E spec \in JobSpecs, e \in Expansions : SubmitMatrix(spec, e)
    \/ InsertWithVariables
    \/ \E j \in DOMAIN tasks : Clone(j)
    \/ \E j \in ToDrive : RunCommand(j)
    \/ ReapWithVariables
    \/ /\ \/ OtherRequest \/ MatrixAllocate \/ InsertLive \/ PublishMatrix \/ InsertTag
          \/ \E j \in ToDrive : OtherDrive(j)
          \/ ProcessNotifications \/ BeginIteration \/ EndDriving \/ EndIteration
          \/ \E j \in DOMAIN handles \cup copying : Environment(j)
       /\ UNCHANGED <<variables, env, pending, matrix_vars, log>>

TemplateSpec == TemplateInit /\ [][TemplateNext]_templateVars

-----------------------------------------------------------------------------
(* JobStatus: the log of the command that the state names; that of the     *)
(* last command once the commands are over.  Wrong variant: expanded with  *)
(* the variables the server has now.                                       *)
StatusIndex(t) ==
    IF t.state \in {"Waiting", "Held"} THEN 0
    ELSE IF t.state \in {"Running", "Error", "ErrorDone"} THEN t.index
    ELSE t.job.cmds - 1
VariablesNow(j) == variables
VariablesOf(j)  == env[j]
StatusLog(j) == LogPath(j, StatusIndex(tasks[j]), VariablesOf(j), tasks[j].machine)

(* The log that a client is pointed at, and in which the work thread looks *)
(* for the results (sm.rs:412 expects that file to exist), is the one that *)
(* the last command of the task wrote, whatever has been set, retried or   *)
(* cloned since.  (Not so for a setup task that was killed: README, 5.)    *)
LogWhereWritten ==
    \A j \in DOMAIN tasks :
        tasks[j].state \in Holding \cup {"Done", "DoneWithResults", "ErrorDone"}
        => j \in DOMAIN log /\ log[j] = StatusLog(j)

(* Every job of a matrix, retries and clones included, runs one of the     *)
(* combinations that StatMatrix and ListJobs report for the matrix.        *)
MatrixJobsFit ==
    \A j \in DOMAIN tasks :
        tasks[j].matrix # None =>
            /\ tasks[j].matrix \in DOMAIN matrix_vars
            /\ env[j] \in Product(matrix_vars[tasks[j].matrix].values)

(* A new matrix has, for every combination, as many jobs as were asked     *)
(* for, although its jobs run, fail and are retried while it is expanded.  *)
MatrixCovered ==
    [][\A m \in DOMAIN matrices' \ DOMAIN matrices :
          \A config \in Product(matrix_vars[m].values) :
              Cardinality({j \in matrices'[m] : env[j] = config}) = matrix_vars[m].repeat
      ]_templateVars
=============================================================================
