----------------------------- MODULE WorkThread -----------------------------
(***************************************************************************)
(* The loop of the work thread (src/src/bin/server/main.rs, work_thread):  *)
(* process notifications, sleep, then one iteration under all locks that   *)
(* drives the live tasks, reaps removed ones and clones failed ones.  The  *)
(* length of the sleep (100 ms to 30 s, by `updated` and client_ping) is   *)
(* not represented: it always ends.  take_snapshot reads the state and is  *)
(* not part of this module.                                                *)
(***************************************************************************)
EXTENDS StateMachine

(* The states for which send_individual_notification is unreachable!().    *)
(* Wrong variant: CheckingResults has no arm either.                       *)
UnsendableOrChecking == {"Waiting", "Held", "Unknown", "Killed", "Canceled",
                         "CheckingResults"}
Unsendable == {"Waiting", "Held", "Unknown", "Killed", "Canceled"}
CannotSend == \E j \in immediate \cap DOMAIN tasks : tasks[j].state \in Unsendable

(* process_notifications sends every immediate one and forgets it.  Without *)
(* a Slack endpoint it forgets them unsent.                                *)
ProcessNotifications ==
    /\ ~panicked /\ worker.at = "idle"
    /\ IF CannotSend THEN panicked' = TRUE /\ UNCHANGED <<immediate, worker>>
       ELSE /\ immediate' = {}
            /\ worker' = [worker EXCEPT !.at = "sleep"]
            /\ UNCHANGED panicked
    /\ UNCHANGED <<shared, handles, copying, copying_flags, listener, requests, faults>>

(* Wake up, lock everything, take live_tasks_snapshot. *)
BeginIteration ==
    /\ ~panicked /\ worker.at = "sleep"
    /\ worker' = [worker EXCEPT !.at = "drive", !.todo = live_tasks, !.updated = FALSE]
    /\ UNCHANGED <<shared, immediate, handles, copying, copying_flags, listener,
                   requests, faults, panicked>>

(* Live jids that turned out to have no task.  Wrong variant: the ones that *)
(* were passed over as well.                                               *)
PassedOver == worker.todo
Orphans == worker.todo \ DOMAIN tasks

(* Every live task was tried, or one was updated and the others are passed *)
(* over.  Orphans leave live_tasks.                                        *)
EndDriving ==
    /\ ~panicked /\ worker.at = "drive"
    /\ worker.updated \/ ToDrive = {}
    /\ live_tasks' = live_tasks \ Orphans
    /\ worker' = [worker EXCEPT !.at = "reap", !.todo = {}]
    /\ UNCHANGED <<machines, tasks, matrices, tags, next_jid, immediate, handles,
                   copying, copying_flags, listener, requests, faults, panicked>>

(* get_mut(..).unwrap() of the matrix and of the tag of task t. *)
RefsResolve(t) == /\ t.matrix # None => t.matrix \in DOMAIN matrices
                  /\ t.tag # None => t.tag \in DOMAIN tags

(* Each removed task leaves the matrix it names. *)
MatricesWithout(gone) == [m \in DOMAIN matrices |->
                            matrices[m] \ {j \in gone : tasks[j].matrix = m}]

(* Remove to_remove from tasks, live_tasks, their matrices and tags, then  *)
(* the matrices that have become empty.                                    *)
Reap ==
    LET gone == worker.to_remove \cap DOMAIN tasks
        left == MatricesWithout(gone)
    IN
    /\ ~panicked /\ worker.at = "reap"
    /\ IF \E j \in gone : ~RefsResolve(tasks[j])
       THEN panicked' = TRUE /\ UNCHANGED <<tasks, live_tasks, matrices, tags, worker>>
       ELSE /\ tasks' = Drop(tasks, gone)
            /\ live_tasks' = live_tasks \ worker.to_remove
            /\ matrices' = Drop(left, {m \in DOMAIN left : left[m] = {}})
            /\ tags' = [t \in DOMAIN tags |-> tags[t] \ {j \in gone : tasks[j].tag = t}]
            /\ worker' = [worker EXCEPT !.at = "clone", !.to_remove = {}]
            /\ UNCHANGED panicked
    /\ UNCHANGED <<machines, next_jid, immediate, handles, copying, copying_flags,
                   listener, requests, faults>>

(* clone_task *)
CloneTask(t) ==
    [t EXCEPT !.state = "Waiting", !.index = 0, !.results = FALSE,
              !.machine = IF t.job.ty = "SetupTask" THEN @ ELSE None,
              !.canceled = None, !.attempt = 0, !.timedout = None]

(* Wrong variant: a clone that its tag does not list. *)
InsertUntagged(jid, t) ==
    /\ tasks' = Put(tasks, jid, t)
    /\ live_tasks' = live_tasks \cup {jid}
    /\ matrices' = [m \in DOMAIN matrices |->
                      IF t.matrix = m THEN matrices[m] \cup {jid} ELSE matrices[m]]
    /\ UNCHANGED tags

(* Insert a clone as jid into tasks, live_tasks, and its matrix and tag.   *)
InsertClone(jid, t) ==
    /\ tasks' = Put(tasks, jid, t)
    /\ live_tasks' = live_tasks \cup {jid}
    /\ matrices' = [m \in DOMAIN matrices |->
                      IF t.matrix = m THEN matrices[m] \cup {jid} ELSE matrices[m]]
    /\ tags' = [g \in DOMAIN tags |->
                  IF t.tag = g THEN tags[g] \cup {jid} ELSE tags[g]]

CloneFailed(j) ==
    LET t == [CloneTask(tasks[j]) EXCEPT !.attempt = tasks[j].attempt + 1] IN
    /\ ~panicked /\ worker.at = "clone" /\ j \in worker.to_clone
    /\ next_jid' = next_jid + 1
    /\ IF RefsResolve(t)
       THEN /\ InsertClone(next_jid, t)
            /\ worker' = [worker EXCEPT !.to_clone = @ \ {j}]
            /\ UNCHANGED panicked
       ELSE panicked' = TRUE /\ UNCHANGED <<tasks, live_tasks, matrices, tags, worker>>
    /\ UNCHANGED <<machines, immediate, handles, copying, copying_flags, listener,
                   requests, faults>>

EndIteration ==
    /\ ~panicked /\ worker.at = "clone" /\ worker.to_clone = {}
    /\ worker' = [worker EXCEPT !.at = "idle"]
    /\ UNCHANGED <<shared, immediate, handles, copying, copying_flags, listener,
                   requests, faults, panicked>>

WorkThreadStep ==
    \/ ProcessNotifications \/ BeginIteration
    \/ \E j \in ToDrive : TryDriveSm(j)
    \/ EndDriving \/ Reap
    \/ \E j \in worker.to_clone : CloneFailed(j)
    \/ EndIteration
=============================================================================
