------------------------------ MODULE Recovery ------------------------------
(***************************************************************************)
(* Snapshots and restarts (src/src/bin/server/snapshot.rs).  Before each   *)
(* iteration the work thread copies the maps of the server, one after the  *)
(* other and each under its own lock, while the listener goes on serving;  *)
(* then it writes the copy over the old file.  The server may stop at any  *)
(* point, in the middle of the write included, and start again from what   *)
(* the file holds.                                                         *)
(*                                                                         *)
(* The backup of the file is not represented: nothing reads it.            *)
(***************************************************************************)
EXTENDS Server, Sequences

CONSTANT MaxRestarts   \* bound: how often the server is stopped and started

ASSUME RestartAssumption == MaxRestarts \in Nat

VARIABLES
    saving,    \* Snapshot::from: the part to copy next, and the parts copied
    file,      \* server-snapshot: a snapshot, or what is not one
    stale,     \* the last attempt to write the file left an older snapshot
    restarts,  \* restarts so far
    cuts       \* the kinds of cut files that the server was started from

recoveryVars == <<vars, saving, file, stale, restarts, cuts>>

(* The order in which the maps are copied.  Wrong variant: tags first.     *)
TagsFirst == <<"machines", "tags", "tasks", "matrices">>
Parts     == <<"machines", "tasks", "matrices", "tags">>
InitSaving == [next |-> 1, machines |-> EmptyMap, tasks |-> EmptyMap,
               matrices |-> EmptyMap, tags |-> EmptyMap]

(* SnapshotTask::from; retries are not scheduled again after a restart.    *)
SnapshotTask(t) == IF t.state = "Error" THEN [t EXCEPT !.state = "ErrorDone"] ELSE t

(* SnapshotTask::to_task.  Wrong variant: Finalize is not told from the    *)
(* states before it.                                                       *)
RestoredUnknown(t) ==
    IF t.state \in {"Running", "CheckingResults", "CopyingResults", "Finalize"}
    THEN "Unknown" ELSE t.state
RestoredState(t) ==
    CASE t.state \in {"Running", "CheckingResults", "CopyingResults"} -> "Unknown"
      [] t.state = "Finalize" /\ t.results  -> "DoneWithResults"
      [] t.state = "Finalize" /\ ~t.results -> "Done"
      [] OTHER -> t.state
ToTask(t) == [t EXCEPT !.canceled = None, !.state = RestoredState(t)]

-----------------------------------------------------------------------------
(* take_snapshot, by the work thread, which holds no other lock.           *)
(* No file, or one that cannot be decoded, holds nothing. *)
Unreadable(kind) == [kind |-> kind, machines |-> EmptyMap, tasks |-> EmptyMap,
                     matrices |-> EmptyMap, tags |-> EmptyMap, next_jid |-> 0]

(* What is left of s when its writing is cut short where it can still be   *)
(* decoded: prost writes the fields in the order of their numbers, which   *)
(* puts next_jid and tags last, and the entries of each map in any order,  *)
(* and it reads 0 where the required next_jid is missing.  A file that is  *)
(* cut anywhere else is not decoded.                                       *)
CutFiles(s) ==
    LET SomeOf(f)      == {Drop(f, S) : S \in SUBSET DOMAIN f}
        NoIds(ms)      == [Unreadable("torn") EXCEPT !.machines = ms]
        NoNext(ts, xs) == [Unreadable("no_jid") EXCEPT
                             !.machines = s.machines, !.tasks = ts, !.matrices = xs]
    IN  {NoIds(ms) : ms \in SomeOf(s.machines)}
   \cup {NoNext(ts, EmptyMap) : ts \in SomeOf(s.tasks) \ {EmptyMap}}
   \cup {NoNext(s.tasks, xs) : xs \in SomeOf(s.matrices) \ {EmptyMap}}
   \cup {[s EXCEPT !.kind = "no_tags", !.tags = gs] : gs \in SomeOf(s.tags) \ {s.tags}}

Saving == ~panicked /\ worker.at = "idle"

SaveMap ==
    /\ Saving /\ saving.next \in DOMAIN Parts
    /\ LET part == Parts[saving.next] IN
       saving' = [saving EXCEPT !.next = @ + 1,
                     ![part] = CASE part = "machines" -> machines
                                 [] part = "tasks"    -> [j \in DOMAIN tasks |->
                                                            SnapshotTask(tasks[j])]
                                 [] part = "matrices" -> matrices
                                 [] part = "tags"     -> tags]
    /\ UNCHANGED <<vars, file, stale, restarts, cuts>>

(* next_jid is read last.  Wrong variant: it is derived from the tasks.    *)
NextAfterTasks == IF DOMAIN saving.tasks = {} THEN 0
                  ELSE 1 + CHOOSE j \in DOMAIN saving.tasks :
                               \A k \in DOMAIN saving.tasks : k <= j
SavedNextJid == next_jid

Copied  == Saving /\ saving.next = Len(Parts) + 1
Written == [kind |-> "good", machines |-> saving.machines,
            tasks |-> saving.tasks, matrices |-> saving.matrices,
            tags |-> saving.tags, next_jid |-> SavedNextJid]
Leave(content, isStale) == /\ file' = content /\ stale' = isStale
                           /\ saving' = [saving EXCEPT !.next = @ + 1]
                           /\ UNCHANGED <<restarts, cuts>>

Write == Copied /\ Leave(Written, FALSE) /\ UNCHANGED vars

(* What there is of the file when its writing stops in the middle.         *)
HalfWritten == {Unreadable("torn")} \cup CutFiles(Written)

(* An error is logged and the loop goes on, with the old file or with part *)
(* of the new one.  (Bound: not of a file that no restart will read.)      *)
WriteFails ==
    /\ Copied /\ restarts < MaxRestarts
    /\ \/ Leave(file, TRUE)
       \/ \E content \in HalfWritten : Leave(content, FALSE)
    /\ Fault
    /\ UNCHANGED <<shared, immediate, handles, copying, copying_flags, worker,
                   listener, requests, panicked>>

AfterSnapshot == /\ saving.next = Len(Parts) + 2
                 /\ ProcessNotifications
                 /\ saving' = InitSaving
                 /\ UNCHANGED <<file, stale, restarts, cuts>>

-----------------------------------------------------------------------------
(* load_snapshot.  Every machine is free, and every task is live.  Wrong   *)
(* variants: machines stay busy; tasks that are waiting are not live; the  *)
(* jids a matrix lists are believed.                                       *)
MachineAsSaved(m)  == [m EXCEPT !.failures = 0]
RestoredMachine(m) == [m EXCEPT !.running = None, !.failures = 0]
LiveIfStarted(ts)  == {j \in DOMAIN ts : ts[j].state \notin {"Waiting", "Held"}}
RestoredLive(ts)   == DOMAIN ts
MembersAsSaved(members, ts)  == members
RestoredMembers(members, ts) == members \cap DOMAIN ts

Load(s) ==
    /\ machines' = [m \in DOMAIN s.machines |-> RestoredMachine(s.machines[m])]
    /\ tasks' = [j \in DOMAIN s.tasks |-> ToTask(s.tasks[j])]
    /\ live_tasks' = RestoredLive(s.tasks)
    /\ matrices' = [m \in DOMAIN s.matrices |-> RestoredMembers(s.matrices[m], s.tasks)]
    /\ tags' = s.tags
    /\ next_jid' = s.next_jid

(* The server stops, anywhere, and starts again; without a file that can   *)
(* be decoded it needs --allow_snap_fail, and starts with nothing.  Its    *)
(* processes are forgotten, and so is all that the threads and the copier  *)
(* knew.  (Bound: not before the first request, when nothing would change.) *)
Restart ==
    /\ restarts < MaxRestarts /\ requests > 0
    /\ restarts' = restarts + 1
    /\ file' \in IF Copied THEN {file} \cup HalfWritten ELSE {file}
    /\ Load(file')
    /\ cuts' = cuts \cup ({file'.kind} \cap {"no_jid", "no_tags"})
    /\ stale' = FALSE
    /\ saving' = InitSaving
    /\ worker' = InitWorker /\ listener' = IdleListener
    /\ handles' = EmptyMap /\ copying' = {} /\ copying_flags' = EmptyMap
    /\ immediate' = {} /\ panicked' = FALSE
    /\ UNCHANGED <<requests, faults>>

(* A file that was cut before next_jid is loaded like any other (and needs *)
(* no --allow_snap_fail), and the server hands out from 0 ids that are in  *)
(* use: from then on an id no longer names one task, one matrix or one     *)
(* tag, and most of what is said below is not said of it.                  *)
IdsKept == "no_jid" \notin cuts

RecoveryInit == /\ Init
                /\ saving = InitSaving /\ file = Unreadable("none") /\ stale = FALSE
                /\ restarts = 0 /\ cuts = {}

RecoveryNext ==
    \/ SaveMap \/ Write \/ WriteFails \/ AfterSnapshot
    \/ Restart
    \/ /\ \/ worker.at # "idle" /\ WorkThreadStep
          \/ IdsKept /\ NewRequest    \* bound: none after ids were taken back
          \/ FinishRequest
          \/ \E j \in DOMAIN handles \cup copying : Environment(j)
       /\ UNCHANGED <<saving, file, stale, restarts, cuts>>

RecoverySpec == RecoveryInit /\ [][RecoveryNext]_recoveryVars

-----------------------------------------------------------------------------
(* No id that names a task, a matrix or a tag, or that one of these names, *)
(* is handed out again, however the snapshot and the requests interleave.  *)
UsedIds == DOMAIN tasks \cup DOMAIN matrices \cup DOMAIN tags \cup live_tasks
           \cup (UNION {matrices[m] : m \in DOMAIN matrices})
           \cup (UNION {tags[t] : t \in DOMAIN tags})
           \cup (UNION {{tasks[j].matrix, tasks[j].tag} \ {None} : j \in DOMAIN tasks})
FreshIds == IdsKept => \A id \in UsedIds : id < next_jid

(* A task never names a tag that does not exist, so that main.rs:430 and   *)
(* main.rs:459 can unwrap it (a matrix it can: see README, 5), unless the  *)
(* server was started from a file cut before the end of its tags.          *)
TagsResolve == cuts = {} =>
    \A j \in DOMAIN tasks : tasks[j].tag # None => tasks[j].tag \in DOMAIN tags

(* Restarts leak no machine to a task that is gone, and no matrix lists a  *)
(* task that is gone.  (Removals and setup tasks are in the run progress.) *)
NoLeakAcrossRestarts  == IdsKept => NoLeakedMachine
NoGhostAcrossRestarts == IdsKept => MatrixHasNoGhost

(* How a task that ran to an end did so is not changed by a restart from   *)
(* the last snapshot, if it was written: the snapshot may be one drive of  *)
(* the task behind.  That a task was killed is changed (README, 5): if it  *)
(* was after the snapshot, it waits, and runs, or is Unknown again.        *)
Restarted == /\ restarts' # restarts
             /\ file'.kind = "good" /\ ~stale /\ IdsKept
OutcomeSurvives ==
    [][Restarted =>
          \A j \in DOMAIN tasks :
              tasks[j].state \in {"Done", "DoneWithResults", "ErrorDone"}
              => j \in DOMAIN tasks' /\ tasks'[j].state = tasks[j].state]_recoveryVars

(* A restart from the last snapshot, if it was written, puts at most one   *)
(* task that was already started back into the queue: an iteration starts  *)
(* at most one, and a snapshot precedes each.  (A snapshot that could not  *)
(* be written leaves an older one, and more of them.)                      *)
Requeued == {i \in DOMAIN tasks \cap DOMAIN tasks' :
               tasks[i].state \in Holding /\ tasks'[i].state = "Waiting"}
RequeuesAtMostOne == [][Restarted => \A j, k \in Requeued : j = k]_recoveryVars
=============================================================================
