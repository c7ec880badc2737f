------------------------------ MODULE Notifier ------------------------------
(***************************************************************************)
(* Slack notifications in full (src/src/bin/server/notify.rs): the events  *)
(* that wait for a summary beside the immediate ones of Server, and what   *)
(* the channel was last told.  A message names a jid only; what it says is *)
(* read off the task when it is sent, after the locks were released and    *)
(* taken again.  SLACK_API is set throughout.  Wording, and whether Slack  *)
(* accepts the message, are not represented.                               *)
(***************************************************************************)
EXTENDS Server

(* What messages say.                                                      *)
Sayings == {"started", "checking", "copying", "completed", "copied", "timed out",
            "failed", "broken"}
ASSUME MessageAssumption == None \notin Sayings

VARIABLES summary,   \* SlackNotifications::enqueued_summarize
          told       \* task or machine -> what the last message about it said

notifierVars == <<vars, summary, told>>

NotifierInit == Init /\ summary = {} /\ told = EmptyMap

(* What a message about a task says; None where the summary skips it.      *)
Category(t) ==
    CASE t.state = "Running" -> "started"
      [] t.state = "CheckingResults" -> "checking"
      [] t.state = "CopyingResults" -> "copying"
      [] t.state = "Done" \/ (t.state = "Finalize" /\ ~t.results) -> "completed"
      [] t.state = "DoneWithResults" \/ (t.state = "Finalize" /\ t.results) -> "copied"
      [] t.state \in {"Error", "ErrorDone"} ->
            IF t.timedout # None THEN "timed out" ELSE "failed"
      [] OTHER -> None

(* enqueue_task_notification: a task whose owner wants no messages is only *)
(* summarized; summaries include what was announced immediately.           *)
SummaryWithTask(j) ==
    LET t == tasks'[j] IN
    summary' = IF ~t.job.notify THEN summary \cup {j}
               ELSE summary \cup immediate'
                    \cup {i \in {j} : EventOf(t) # {} /\ EventOf(t) \cap ImmediateEvents = {}}

(* enqueue_machine_notification, called by free_machine.  Wrong variant:   *)
(* asked before the failure is counted.                                    *)
SummaryBeforeBlame(j) ==
    LET m == tasks[j].machine
        broken == Owns(j, tasks[j]) /\ machines[m].failures >= MachineFailures
    IN summary' = IF broken /\ "machine_broken" \notin ImmediateEvents
                  THEN summary \cup {m} ELSE summary
SummaryWithMachine(j) ==
    LET m == tasks[j].machine
        broken == Owns(j, tasks[j]) /\ machines'[m].failures >= MachineFailures
    IN summary' = IF broken /\ "machine_broken" \notin ImmediateEvents
                  THEN summary \cup {m} ELSE summary

(* The transitions that announce the new state, those that may announce a  *)
(* broken machine, and those that announce nothing.                        *)
Announce(j) ==
    /\ \/ \E m \in Machines, spawned \in BOOLEAN : Start(j, m, spawned)
       \/ AllCommandsDone(j) \/ CommandFailed(j) \/ TimeOut(j)
       \/ \E produced \in BOOLEAN : CheckResults(j, produced)
    /\ SummaryWithTask(j)
    /\ UNCHANGED told

FreeMachine(j) == /\ Finalize(j) \/ DriveError(j) \/ DriveCanceled(j)
                  /\ SummaryWithMachine(j)
                  /\ UNCHANGED told

Quiet(j) == \/ DriveHeld(j) \/ NoMachine(j) \/ StillRunning(j)
            \/ \E spawned \in BOOLEAN : NextCommand(j, spawned)
            \/ CheckPanics(j) \/ CopyReported(j) \/ StillCopying(j) \/ DriveTerminal(j)

(* process_notifications: the immediate ones, and the summary when it is   *)
(* due.  Wrong variant: the summary is forgotten when it is not due.       *)
KeepNothing(due) == {}
KeepUndue(due) == IF due THEN {} ELSE summary

Messages(S) == {j \in S \cap DOMAIN tasks : Category(tasks[j]) # None}
Send ==
    /\ ProcessNotifications
    /\ \E due \in BOOLEAN :
          LET summarized == IF due THEN summary ELSE {}
              about == Messages(immediate \cup summarized)
              broken == (immediate \cap DOMAIN machines) \cup (summarized \cap Machines)
          IN IF panicked' THEN UNCHANGED <<summary, told>>
             ELSE /\ summary' = KeepUndue(due)
                  /\ told' = [x \in DOMAIN told \cup about \cup broken |->
                                IF x \in about THEN Category(tasks[x])
                                ELSE IF x \in broken THEN "broken" ELSE told[x]]

NotifierNext ==
    \/ Send
    \/ \E j \in ToDrive : Announce(j) \/ FreeMachine(j)
    \/ /\ \/ \E j \in ToDrive : Quiet(j)
          \/ BeginIteration \/ EndDriving \/ Reap
          \/ \E j \in worker.to_clone : CloneFailed(j)
          \/ EndIteration
          \/ NewRequest \/ FinishRequest
          \/ \E j \in DOMAIN handles \cup copying : Environment(j)
       /\ UNCHANGED <<summary, told>>

NotifierSpec == NotifierInit /\ [][NotifierNext]_notifierVars

-----------------------------------------------------------------------------
(* How a task ended is told, or is still to be told, although the states   *)
(* it ends in announce nothing: the message about an earlier state is sent *)
(* late enough, or says the same.  What the code cannot tell is left out:  *)
(* a task that timed out, and how a copy ended once it was told to be      *)
(* under way.                                                              *)
OutcomeTold ==
    \A j \in DOMAIN tasks :
        LET t == tasks[j]
            copied == t.job.cp_results /\ t.state # "Done"
        IN t.state \in {"Done", "DoneWithResults", "ErrorDone"} /\ t.timedout = None
           => \/ j \in summary \cup immediate
              \/ /\ j \in DOMAIN told
                 /\ told[j] \in {Category(t)} \cup (IF copied THEN {"copying"} ELSE {})

(* A machine is never taken out of its class without a message.  (What was *)
(* told is not taken back when clients add the machine again: of a machine *)
(* that breaks a second time this says nothing.)                           *)
BrokenTold ==
    \A m \in DOMAIN machines :
        machines[m].class = BrokenClass
        => m \in summary \cup immediate \/ (m \in DOMAIN told /\ told[m] = "broken")
=============================================================================
