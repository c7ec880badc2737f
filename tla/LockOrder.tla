------------------------------ MODULE LockOrder ------------------------------
(***************************************************************************)
(* The mutexes of the server and the order in which its threads take them  *)
(* (src/src/bin/server/main.rs:36).  Every request handler, the loop of    *)
(* the work thread and the loop of the copier thread is a program: the     *)
(* sequence of the sets of locks it holds.  From one set to the next it    *)
(* takes at most one lock, for which it may have to wait, and drops any    *)
(* number.  What is done with the data is left to the other modules.       *)
(*                                                                         *)
(* A guard in the condition of an `if let` or in the scrutinee of a match  *)
(* lives to the end of the statement; one in a `let` with a method call    *)
(* behind it is dropped at the semicolon.                                  *)
(***************************************************************************)
EXTENDS Integers, Sequences

CONSTANT MaxMatrixJobs   \* bound: jobs of a matrix

ASSUME MatrixAssumption == MaxMatrixJobs \in Nat

Threads == {"listener", "work_thread", "copier_thread"}

(* struct Server, in the documented order; then the map of flags and the   *)
(* queue that the work thread shares with the copier thread.               *)
Rank == [variables |-> 1, machines |-> 2, tasks |-> 3, live_tasks |-> 4,
         matrices |-> 5, tags |-> 6, notifications |-> 7,
         copying_flags |-> 8, incoming |-> 9]
Locks == DOMAIN Rank

VARIABLES
    ahead,   \* thread -> the lock sets it has yet to go through
    held,    \* thread -> the locks it holds
    stuck    \* threads that have asked for a lock they hold themselves

vars == <<ahead, held, stuck>>

-----------------------------------------------------------------------------
(* Programs. *)
Apart(locks)  == [i \in 1..(2 * Len(locks)) |->
                    IF i % 2 = 1 THEN {locks[(i + 1) \div 2]} ELSE {}]
Taking(locks) == [i \in 1..Len(locks) |-> {locks[k] : k \in 1..i}]
Nested(locks) == Taking(locks) \o <<{}>>

(* cancel_job.  Wrong variant: live_tasks first. *)
CancelLocksReversed == <<"live_tasks", "tasks">>
CancelLocks         == <<"tasks", "live_tasks">>

(* handle_request.  The names are those of the requests; Ping and the      *)
(* reading and writing of the socket take no lock.                         *)
OneLock == {Apart(<<"machines">>),     \* MakeAvailable, ListAvailable
            Apart(<<"variables">>),    \* ListVars, SetVar
            Apart(<<"tasks">>),        \* HoldJob, UnholdJob, JobStatus, AddJobTimeout
            Apart(<<"matrices">>),     \* StatMatrix
            Apart(<<"tags">>)}         \* AddTag, StatTag
CancelJob       == Nested(CancelLocks)
RemoveAvailable == Nested(<<"machines">> \o CancelLocks)
AddUntagged     == Apart(<<"variables", "tasks", "live_tasks">>)   \* and SetUpMachine
AddTagged       == Apart(<<"variables">>) \o Nested(<<"tasks", "live_tasks", "tags">>)
ListJobs        == Apart(<<"tasks", "tasks", "matrices", "tags">>)
CloneJob        == <<{"tasks"}, {"tasks", "live_tasks"}, {"tasks"}, {"tasks", "matrices"},
                     {"tasks"}, {"tasks", "tags"}, {}>>
TagJob          == Nested(<<"tasks", "tags">>)
AddMatrix(n)    == Apart(<<"variables">>
                         \o [i \in 1..(2 * n) |-> IF i % 2 = 1 THEN "tasks" ELSE "live_tasks"]
                         \o <<"matrices">>)

Handlers == OneLock
            \cup {CancelJob, RemoveAvailable, AddUntagged, AddTagged, ListJobs,
                  CloneJob, TagJob}
            \cup {AddMatrix(n) : n \in 0..MaxMatrixJobs}

(* work_thread: take_snapshot, process_notifications (which also talks to  *)
(* Slack with all its locks held), and the iteration; a drive may look     *)
(* into copying_flags or hand a copy to the copier thread.  Wrong variant: *)
(* notifications look at the tasks before the machines.                    *)
NotificationsTasksFirst ==
    Nested(<<"variables", "tasks", "machines", "matrices", "notifications">>)
Notifications ==
    Nested(<<"variables", "machines", "tasks", "matrices", "notifications">>)
Everything == {"machines", "tasks", "live_tasks", "matrices", "tags", "notifications"}
Drive == {<<>>, <<Everything \cup {"copying_flags"}, Everything>>,
                <<Everything \cup {"incoming"}, Everything>>}
WorkLoop == {Apart(<<"machines", "tasks", "matrices", "tags", "variables">>)
             \o Notifications
             \o Taking(<<"machines", "tasks", "live_tasks", "matrices", "tags",
                         "notifications">>)
             \o drive \o <<{}>> : drive \in Drive}

(* copier_thread: the queue while copies are started (see StartFails),     *)
(* then a report or a retry for each ongoing copy.                         *)
CopierLoop == {Apart(<<"incoming">>), Apart(<<"copying_flags">>)}

Programs == [t \in Threads |-> CASE t = "listener"      -> Handlers
                                 [] t = "work_thread"   -> WorkLoop
                                 [] t = "copier_thread" -> CopierLoop]

-----------------------------------------------------------------------------
Init == /\ ahead = [t \in Threads |-> << >>] /\ held = [t \in Threads |-> {}]
        /\ stuck = {}

(* The next request, or the next round of the loop. *)
Begin(t) == /\ ahead[t] = << >>
            /\ \E program \in Programs[t] : ahead' = [ahead EXCEPT ![t] = program]
            /\ UNCHANGED <<held, stuck>>

Wanted(t) == IF t \in stuck THEN {"incoming"}
             ELSE IF ahead[t] = << >> THEN {} ELSE Head(ahead[t]) \ held[t]
Free(l)   == \A t \in Threads : l \notin held[t]

Step(t) == /\ ahead[t] # << >>
           /\ \A l \in Wanted(t) : Free(l)
           /\ held' = [held EXCEPT ![t] = Head(ahead[t])]
           /\ ahead' = [ahead EXCEPT ![t] = Tail(ahead[t])]
           /\ UNCHANGED stuck

(* A copy cannot be started: copier.rs:131 locks the queue, which the      *)
(* guard in the condition of the loop at copier.rs:111 still holds.        *)
StartFails == /\ "incoming" \in held["copier_thread"]
              /\ stuck' = stuck \cup {"copier_thread"}
              /\ UNCHANGED <<ahead, held>>

(* Early returns: everything is dropped.  So it is by a panic, after which *)
(* nobody can take the lock; panics are in Server and Copier.              *)
ReturnEarly == /\ ahead["listener"] # << >> /\ held["listener"] # {}
               /\ held' = [held EXCEPT !["listener"] = {}]
               /\ ahead' = [ahead EXCEPT !["listener"] = << >>]
               /\ UNCHANGED stuck

Next == (\E t \in Threads : Begin(t) \/ Step(t)) \/ StartFails \/ ReturnEarly
Spec == Init /\ [][Next]_vars

(* A mutex that is released again and again is granted in the end: the     *)
(* work thread and the copier thread sleep between their rounds without    *)
(* holding any, and the listener holds none between two requests.          *)
FairSpec == Spec /\ \A t \in Threads : SF_vars(Step(t))

-----------------------------------------------------------------------------
(* main.rs:36, "Lock ordering": a thread that takes a lock holds only      *)
(* locks that come before it.  The code departs from this in one place:    *)
(* the copier thread asks for the lock of its queue, which it holds.       *)
OrderRespected ==
    /\ stuck \subseteq {"copier_thread"}
    /\ \A t \in Threads \ stuck : \A l \in Wanted(t), k \in held[t] : Rank[k] < Rank[l]

(* No threads wait for each other in a circle. *)
WaitsFor(t, u) == t # u /\ Wanted(t) \cap held[u] # {}
NoCircularWait ==
    \A W \in (SUBSET Threads) \ {{}} : \E t \in W : \A u \in W : ~WaitsFor(t, u)

(* Every request is answered and every round of a loop ends, as long as    *)
(* copies can be started.  Otherwise the round of the copier thread never  *)
(* ends, the work thread blocks in copy() with all locks of the server,    *)
(* and the next request behind it.                                         *)
EveryRoundEnds == \A t \in Threads : ahead[t] # << >> ~> ahead[t] = << >> \/ stuck # {}
=============================================================================
