------------------------------- MODULE Copier -------------------------------
(***************************************************************************)
(* The copier thread (src/src/bin/server/copier.rs): a queue of copy       *)
(* requests filled by the work thread, at most MAX_CONCURRENCY rsync       *)
(* processes in principle, retries, and flags that tell the work thread    *)
(* how each copy ended.                                                    *)
(***************************************************************************)
EXTENDS Integers, Sequences, FiniteSets

CONSTANTS
    Jids,            \* jobs with results to copy
    MAX_CONCURRENCY, \* copier.rs:17
    RETRIES,         \* copier.rs:15
    Troubles,        \* what may go wrong: a subset of Trouble
    MaxFaults,       \* bound: how often something goes wrong
    MaxDuplicates    \* bound: how often one request is in the queue

Trouble == {"log", "spawn", "exit", "host_key", "wait", "timeout"}
Results == {"Success", "SshUnknownHostKey", "OtherFailure"}

ASSUME CopierAssumption ==
    /\ Jids \subseteq Nat
    /\ MAX_CONCURRENCY \in Nat \ {0} /\ RETRIES \in Nat
    /\ Troubles \subseteq Trouble /\ MaxFaults \in Nat /\ MaxDuplicates \in Nat \ {0}

VARIABLES
    incoming,  \* CopierThreadQueue: CopyJobInfo, oldest first
    ongoing,   \* jid -> ResultsInfo
    flags,     \* copying_flags: jid -> what was reported
    copier,    \* the thread's locals
    waiting,   \* tasks in CopyingResults, as the work thread sees them
    faults     \* troubles so far

vars == <<incoming, ongoing, flags, copier, waiting, faults>>

(* struct CopyJobInfo; machine and paths never matter here. *)
CopyJobInfo == [jid : Jids, attempt : 0..RETRIES]
(* struct ResultsInfo: late is whether RSYNC_TIMEOUT minutes have passed.  *)
ResultsInfo == [attempt : 0..RETRIES, late : BOOLEAN,
                process : {"running", "ok", "failed", "unknown_host"}]
(* at: sleep, start (emptying the queue), check (going over ongoing),      *)
(* stuck (waiting for the lock of the queue, which it holds itself), dead  *)
(* (panicked); hand: the copy it could not start when it stopped.          *)
Copier == [at : {"sleep", "start", "check", "stuck", "dead"}, todo : SUBSET Jids,
           to_remove : SUBSET Jids, hand : SUBSET Jids]
Serving == copier.at \notin {"stuck", "dead"}

Queued == {incoming[i].jid : i \in DOMAIN incoming}

Init == /\ incoming = << >>
        /\ ongoing = [j \in {} |-> 0] /\ flags = [j \in {} |-> 0]
        /\ copier = [at |-> "sleep", todo |-> {}, to_remove |-> {}, hand |-> {}]
        /\ waiting = {} /\ faults = 0

Fault(trouble) == /\ trouble \in Troubles
                  /\ faults < MaxFaults /\ faults' = faults + 1

With(f, k, v) == [x \in DOMAIN f \cup {k} |-> IF x = k THEN v ELSE f[x]]
Without(f, S) == [x \in DOMAIN f \ S |-> f[x]]

-----------------------------------------------------------------------------
(* The work thread.  copy() is called once per task, on entering           *)
(* CopyingResults.  It blocks while the copier thread has the queue locked *)
(* and, when that thread died doing so, unwraps the poisoned lock: the     *)
(* work thread panics (StateMachine, CheckPanics).                         *)
Copy(j) ==
    /\ j \notin waiting \cup Queued \cup DOMAIN ongoing \cup DOMAIN flags
    /\ Serving
    /\ incoming' = Append(incoming, [jid |-> j, attempt |-> 0])
    /\ waiting' = waiting \cup {j}
    /\ UNCHANGED <<ongoing, flags, copier, faults>>

(* A client cancels the task: the copy goes on, nobody will take its flag. *)
Abandon(j) == /\ j \in waiting
              /\ waiting' = waiting \ {j}
              /\ UNCHANGED <<incoming, ongoing, flags, copier, faults>>

(* sm.rs:98: copying_flags.remove(&jid) *)
TakeFlag(j) == /\ j \in waiting /\ j \in DOMAIN flags
               /\ flags' = Without(flags, {j})
               /\ waiting' = waiting \ {j}
               /\ UNCHANGED <<incoming, ongoing, copier, faults>>

-----------------------------------------------------------------------------
(* The processes and the clock. *)
RsyncExits(j) ==
    /\ j \in DOMAIN ongoing /\ ongoing[j].process = "running"
    /\ \E how \in {"ok", "failed", "unknown_host"} :
          /\ ongoing' = [ongoing EXCEPT ![j] = [@ EXCEPT !.process = how]]
          /\ CASE how = "ok"           -> UNCHANGED faults
               [] how = "failed"       -> Fault("exit")
               [] how = "unknown_host" -> Fault("host_key")
    /\ UNCHANGED <<incoming, flags, copier, waiting>>

RsyncLate(j) ==
    /\ j \in DOMAIN ongoing /\ ongoing[j].process = "running" /\ ~ongoing[j].late
    /\ ongoing' = [ongoing EXCEPT ![j] = [@ EXCEPT !.late = TRUE]]
    /\ Fault("timeout")
    /\ UNCHANGED <<incoming, flags, copier, waiting>>

-----------------------------------------------------------------------------
(* The loop of copier_thread. *)
BeginCheck == [copier EXCEPT !.at = "check", !.todo = DOMAIN ongoing]

Wake ==
    /\ copier.at = "sleep"
    /\ copier' = IF Cardinality(DOMAIN ongoing) < MAX_CONCURRENCY
                 THEN [copier EXCEPT !.at = "start"] ELSE BeginCheck
    /\ UNCHANGED <<incoming, ongoing, flags, waiting, faults>>

(* One turn of `while let Some(new) = incoming.lock().unwrap().pop_front()`.*)
(* The guard lives to the end of the body.  Whatever was going on for the  *)
(* same job is killed first.                                               *)
StartCopy ==
    LET new == Head(incoming) IN
    /\ copier.at = "start" /\ incoming # << >>
    /\ incoming' = Tail(incoming)
    /\ ongoing' = With(ongoing, new.jid, [attempt |-> new.attempt, late |-> FALSE,
                                          process |-> "running"])
    /\ UNCHANGED <<flags, copier, waiting, faults>>

(* When rsync cannot be spawned, the push_back in the body waits for the   *)
(* thread's own lock.  When its log cannot be opened, start_copy panics:   *)
(* the thread is gone, nobody watches the processes it started, and the    *)
(* lock of the queue is poisoned.                                          *)
StartFails ==
    LET new == Head(incoming) IN
    /\ copier.at = "start" /\ incoming # << >>
    /\ incoming' = Tail(incoming)
    /\ ongoing' = Without(ongoing, {new.jid})
    /\ \E at \in {"stuck", "dead"} :
          /\ copier' = [copier EXCEPT !.at = at, !.hand = {new.jid}]
          /\ Fault(IF at = "stuck" THEN "spawn" ELSE "log")
    /\ UNCHANGED <<flags, waiting>>

QueueEmpty ==
    /\ copier.at = "start" /\ incoming = << >>
    /\ copier' = BeginCheck
    /\ UNCHANGED <<incoming, ongoing, flags, waiting, faults>>

(* What the check of one ongoing copy does, in any order of the HashMap.   *)
Checking(j) == copier.at = "check" /\ j \in copier.todo
Checked(j)  == copier' = [copier EXCEPT !.todo = @ \ {j}]
Finished(j) == copier' = [copier EXCEPT !.todo = @ \ {j}, !.to_remove = @ \cup {j}]
AgainForgotten(j) == incoming   \* wrong variant: no push_back
(* push_back; the same request beyond MaxDuplicates times is left out.     *)
Again(j) ==
    LET new == [jid |-> j, attempt |-> ongoing[j].attempt + 1]
        same == {i \in DOMAIN incoming : incoming[i] = new}
    IN IF Cardinality(same) < MaxDuplicates THEN Append(incoming, new) ELSE incoming

(* Wrong variants: one retry too many; giving up without a report. *)
RetryOnceMore(j) == IF ongoing[j].attempt <= RETRIES
                    THEN incoming' = Again(j) /\ UNCHANGED flags
                    ELSE flags' = With(flags, j, "OtherFailure") /\ UNCHANGED incoming
RetryOrSayNothing(j) == /\ incoming' = IF ongoing[j].attempt < RETRIES
                                       THEN Again(j) ELSE incoming
                        /\ UNCHANGED flags
RetryOrGiveUp(j) == IF ongoing[j].attempt < RETRIES
                    THEN incoming' = Again(j) /\ UNCHANGED flags
                    ELSE flags' = With(flags, j, "OtherFailure") /\ UNCHANGED incoming

CheckSuccess(j) ==
    /\ Checking(j) /\ ongoing[j].process = "ok"
    /\ flags' = With(flags, j, "Success")
    /\ Finished(j)
    /\ UNCHANGED <<incoming, ongoing, waiting, faults>>

CheckUnknownHost(j) ==
    /\ Checking(j) /\ ongoing[j].process = "unknown_host"
    /\ flags' = With(flags, j, "SshUnknownHostKey")
    /\ Finished(j)
    /\ UNCHANGED <<incoming, ongoing, waiting, faults>>

CheckFailed(j) ==
    /\ Checking(j) /\ ongoing[j].process = "failed"
    /\ RetryOrGiveUp(j)
    /\ Finished(j)
    /\ UNCHANGED <<ongoing, waiting, faults>>

(* try_wait itself fails: retried without killing the process. *)
CheckError(j) ==
    /\ Checking(j) /\ Fault("wait")
    /\ RetryOrGiveUp(j)
    /\ Finished(j)
    /\ UNCHANGED <<ongoing, waiting>>

(* A late copy that may be retried stays in ongoing until it is restarted. *)
CheckLate(j) ==
    /\ Checking(j) /\ ongoing[j].process = "running" /\ ongoing[j].late
    /\ RetryOrGiveUp(j)
    /\ IF ongoing[j].attempt < RETRIES THEN Checked(j) ELSE Finished(j)
    /\ UNCHANGED <<ongoing, waiting, faults>>

StillCopying(j) ==
    /\ Checking(j) /\ ongoing[j].process = "running" /\ ~ongoing[j].late
    /\ Checked(j)
    /\ UNCHANGED <<incoming, ongoing, flags, waiting, faults>>

EndCheck ==
    /\ copier.at = "check" /\ copier.todo = {}
    /\ ongoing' = Without(ongoing, copier.to_remove)
    /\ copier' = [copier EXCEPT !.at = "sleep", !.to_remove = {}]
    /\ UNCHANGED <<incoming, flags, waiting, faults>>

Loop == \/ Wake \/ StartCopy \/ StartFails \/ QueueEmpty
        \/ \E j \in copier.todo : \/ CheckSuccess(j) \/ CheckUnknownHost(j)
                                  \/ CheckFailed(j) \/ CheckError(j)
                                  \/ CheckLate(j) \/ StillCopying(j)
        \/ EndCheck

WorkThread == \E j \in Jids : Copy(j) \/ Abandon(j) \/ TakeFlag(j)
Rsync == \E j \in DOMAIN ongoing : RsyncExits(j) \/ RsyncLate(j)

Next == Loop \/ WorkThread \/ Rsync
Spec == Init /\ [][Next]_vars

(* The thread loops for ever, waking every second.                         *)
FairLoop == Spec /\ WF_vars(Loop)
(* Time passes: an rsync process that was started exits, or is late.  A    *)
(* late one may go on for ever (--timeout only ends it without I/O).       *)
ExitsOrLate(j) == ~ongoing[j].late /\ (RsyncExits(j) \/ RsyncLate(j))
FairSpec == FairLoop /\ \A j \in Jids : WF_vars(j \in DOMAIN ongoing /\ ExitsOrLate(j))

-----------------------------------------------------------------------------
(* Types; no copy is attempted more than RETRIES times over.               *)
TypeOK == /\ incoming \in Seq(CopyJobInfo)
          /\ DOMAIN ongoing \subseteq Jids
          /\ \A j \in DOMAIN ongoing : ongoing[j] \in ResultsInfo
          /\ DOMAIN flags \subseteq Jids
          /\ \A j \in DOMAIN flags : flags[j] \in Results
          /\ copier \in Copier /\ waiting \subseteq Jids /\ faults \in 0..MaxFaults

(* The thread implements the service that Server relies on, whatever goes  *)
(* wrong; when it has stopped (StartFails) it holds its copies for ever,   *)
(* the one in its hand included, which the service allows.                 *)
Held == Queued \cup (DOMAIN ongoing \ copier.to_remove) \cup copier.hand
Service == INSTANCE CopyService WITH copying <- Held
ImplementsService == Service!Spec

(* As long as the thread serves, a task that waits for its results has a   *)
(* copy that is queued or under way, or a report to read, through          *)
(* failures, timeouts, duplicates and retries.                             *)
NoLostCopy ==
    Serving => waiting \subseteq Queued \cup (DOMAIN ongoing \ copier.to_remove)
                                \cup DOMAIN flags

(* Every copy that a task waits for is reported on in the end.  The code   *)
(* leaves two exceptions: the thread has stopped (StartFails); or it is    *)
(* clogged for ever: every slot is taken by a copy that is late, was       *)
(* queued again, and could be restarted only if a slot were free.          *)
Clogged == /\ Cardinality(DOMAIN ongoing) >= MAX_CONCURRENCY
           /\ \A j \in DOMAIN ongoing : /\ ongoing[j].process = "running"
                                       /\ ongoing[j].late /\ ongoing[j].attempt < RETRIES
EveryCopyReported ==
    \/ <>[]Clogged
    \/ \A j \in Jids : j \in waiting ~> \/ j \in waiting => j \in DOMAIN flags
                                       \/ ~Serving

-----------------------------------------------------------------------------
(* What a comment of copier.rs says, and the code does not do.             *)

(* copier.rs:125: "Otherwise, re-enqueue and try again later."             *)
StartTriedAgain == \A j \in Jids : j \in copier.hand ~> j \in Queued \cup DOMAIN ongoing
=============================================================================
