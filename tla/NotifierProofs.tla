---------------------------- MODULE NotifierProofs ----------------------------
(***************************************************************************)
(* What Notifier promises: a machine that was taken out of its class, and  *)
(* the outcome of a task, are told or still enqueued to be told.  Notifier *)
(* adds two variables to Server and constrains none of its steps, so that  *)
(* every invariant of Server holds of it as well.                          *)
(***************************************************************************)
EXTENDS Notifier, TaskProofs

(* Drives, in the three kinds that Notifier distinguishes.                 *)
LEMMA KindsOfDrive ==
    ASSUME NEW j, Announce(j) \/ FreeMachine(j) \/ Quiet(j) PROVE TryDriveSm(j)
BY DEF Announce, FreeMachine, Quiet, TryDriveSm

(* A step of Notifier is one of Server.                                    *)
LEMMA NotifierStep == [NotifierNext]_notifierVars => [Next]_vars
<1>1. Send => Next
  BY DEF Send, Next, WorkThreadStep
<1>2. ASSUME NEW j \in ToDrive, Announce(j) \/ FreeMachine(j) \/ Quiet(j) PROVE Next
  BY <1>2, KindsOfDrive DEF Next, WorkThreadStep
<1>3. \/ BeginIteration \/ EndDriving \/ Reap
      \/ \E j \in worker.to_clone : CloneFailed(j)
      \/ EndIteration
      \/ NewRequest \/ FinishRequest
      \/ \E j \in DOMAIN handles \cup copying : Environment(j)
      => Next
  BY DEF Next, WorkThreadStep
<1>4. UNCHANGED notifierVars => UNCHANGED vars
  BY DEF notifierVars
<1> QED
  BY <1>1, <1>2, <1>3, <1>4 DEF NotifierNext

(* Notifier implements Server: what is proved of the server holds with the *)
(* notifications in full.                                                  *)
THEOREM NotifierIsServer == NotifierSpec => Spec
<1>1. NotifierInit => Init
  BY DEF NotifierInit
<1> QED
  BY <1>1, NotifierStep, PTL DEF NotifierSpec, Spec

-----------------------------------------------------------------------------
(* Clients name no class <class>-broken.                                   *)
NoBrokenName == BrokenClass \notin Classes \cup {UnknownHostClass}

(* What is enqueued, or was told, stays so but for the sending.            *)
Enqueued == summary \cup immediate
Growing == Enqueued \subseteq Enqueued' /\ UNCHANGED told

(* A step that breaks no machine.                                          *)
NothingBreaks == \A m \in DOMAIN machines' :
    machines'[m].class = BrokenClass => m \in DOMAIN machines /\ machines[m].class = BrokenClass
LEMMA NothingBreaksTold ==
    ASSUME BrokenTold, NothingBreaks, Growing PROVE BrokenTold'
BY DEF BrokenTold, NothingBreaks, Growing, Enqueued

(* A machine whose class is kept, or replaced by another than broken.      *)
LEMMA UpdateBreaksNone ==
    ASSUME Typing, NEW m, NEW st, machines' = Update(m, st),
           m \in DOMAIN machines => st.class = machines[m].class \/ st.class # BrokenClass
    PROVE  NothingBreaks
BY Types DEF Update, NothingBreaks, IsMap

(* enqueue_task_notification leaves everything that was enqueued.          *)
LEMMA AnnounceGrows ==
    ASSUME NEW j, Announce(j) PROVE Growing
<1>1. \A t : NotifyTask(j, t) => immediate \subseteq immediate'
  BY DEF NotifyTask
<1>2. immediate \subseteq immediate'
  BY <1>1 DEF Announce, Start, AllCommandsDone, CommandFailed, TimeOut, CheckResults
<1>3. summary \subseteq summary' /\ UNCHANGED told
  BY DEF Announce, SummaryWithTask
<1> QED
  BY <1>2, <1>3 DEF Growing, Enqueued

(* So does enqueue_machine_notification.                                   *)
LEMMA FreeMachineGrows ==
    ASSUME NEW j, FreeMachine(j) PROVE Growing
<1>1. \A t, ms : NotifyBroken(j, t, ms) => immediate \subseteq immediate'
  BY DEF NotifyBroken
<1>2. immediate \subseteq immediate'
  BY <1>1 DEF FreeMachine, Finalize, DriveError, DriveCanceled
<1>3. summary \subseteq summary' /\ UNCHANGED told
  BY DEF FreeMachine, SummaryWithMachine
<1> QED
  BY <1>2, <1>3 DEF Growing, Enqueued

(* Starting, and checking results, leave the class of the machine.         *)
LEMMA AnnounceBroken ==
    ASSUME Typing, NEW j, Announce(j) PROVE NothingBreaks
<1>1. \A m \in DOMAIN machines : machines[m] \in MachineStatus
  BY Types, MapAt
<1>2. ASSUME NEW m \in Machines, NEW spawned, Start(j, m, spawned) PROVE NothingBreaks
  <2> DEFINE st == [machines[m] EXCEPT !.running = j]
  <2>1. machines' = Update(m, st) /\ (m \in DOMAIN machines => st.class = machines[m].class)
    BY <1>1, <1>2 DEF Start, MachineStatus
  <2> HIDE DEF st
  <2> QED
    BY <2>1, UpdateBreaksNone
<1>3. ASSUME NEW produced, CheckResults(j, produced) PROVE NothingBreaks
  <2> DEFINE m  == tasks[j].machine
             st == [machines[m] EXCEPT !.failures = 0]
  <2>1. machines' = Update(m, st) /\ (m \in DOMAIN machines => st.class = machines[m].class)
    BY <1>1, <1>3 DEF CheckResults, MachineStatus
  <2> HIDE DEF st, m
  <2> QED
    BY <2>1, UpdateBreaksNone
<1>4. AllCommandsDone(j) \/ CommandFailed(j) \/ TimeOut(j) => NothingBreaks
  BY DEF AllCommandsDone, CommandFailed, TimeOut, NothingBreaks
<1> QED
  BY <1>2, <1>3, <1>4 DEF Announce

(* The drives that announce nothing at most mark the machine as an unknown *)
(* host, or reset its failures.                                            *)
LEMMA QuietBroken ==
    ASSUME NoBrokenName, Typing, NEW j, Quiet(j), UNCHANGED <<summary, told>>
    PROVE  NothingBreaks /\ Growing
<1>1. \A m \in DOMAIN machines : machines[m] \in MachineStatus
  BY Types, MapAt
<1>2. UNCHANGED immediate
  BY DEF Quiet, DriveHeld, NoMachine, StillRunning, NextCommand, CheckPanics, CopyReported,
         StillCopying, DriveTerminal
<1>3. CopyReported(j) => NothingBreaks
  <2> DEFINE m  == tasks[j].machine
             st == [machines[m] EXCEPT !.class = UnknownHostClass]
  <2>1. CopyReported(j) => machines' = Update(m, st) \/ UNCHANGED machines
    BY DEF CopyReported
  <2>2. m \in DOMAIN machines => st.class # BrokenClass
    BY <1>1 DEF MachineStatus, NoBrokenName
  <2> HIDE DEF st, m
  <2> QED
    BY <2>1, <2>2, UpdateBreaksNone DEF NothingBreaks
<1>4. CheckPanics(j) => NothingBreaks
  <2> DEFINE m  == tasks[j].machine
             st == [machines[m] EXCEPT !.failures = 0]
  <2>1. CheckPanics(j) => machines' = Update(m, st)
    BY DEF CheckPanics
  <2>2. m \in DOMAIN machines => st.class = machines[m].class
    BY <1>1 DEF MachineStatus
  <2> HIDE DEF st, m
  <2> QED
    BY <2>1, <2>2, UpdateBreaksNone
<1>5. ~CopyReported(j) /\ ~CheckPanics(j) => UNCHANGED machines
  BY DEF Quiet, DriveHeld, NoMachine, StillRunning, NextCommand, StillCopying, DriveTerminal,
         shared
<1> QED
  BY <1>2, <1>3, <1>4, <1>5 DEF NothingBreaks, Growing, Enqueued

(* free_machine announces the machine that it takes out of its class.      *)
LEMMA FreeMachineBroken ==
    ASSUME NoBrokenName, Typing, BrokenTold, NEW j, FreeMachine(j) PROVE BrokenTold'
<1> DEFINE here  == tasks[j].machine
           Broken == Owns(j, tasks[j]) /\ machines'[here].failures >= MachineFailures
<1>1. \A m \in DOMAIN machines : machines[m] \in MachineStatus
  BY Types, MapAt
<1>2. Growing
  BY FreeMachineGrows
<1>3. /\ Driving(j) /\ tasks[j] \in Task
  <2>1. Driving(j)
    BY DEF FreeMachine, Finalize, DriveError, DriveCanceled
  <2> QED
    BY <2>1, Driven
<1>4. ASSUME NEW ms, machines' = AfterFree(j, tasks[j], ms), NotifyBroken(j, tasks[j], ms),
             DOMAIN ms = DOMAIN machines,
             \A m \in DOMAIN ms : ms[m] \in MachineStatus /\ ms[m].class = machines[m].class
      PROVE  BrokenTold'
  <2>1. CASE ~Owns(j, tasks[j])
    <3>1. NothingBreaks
      BY <1>4, <2>1 DEF AfterFree, NothingBreaks
    <3> QED
      BY <1>2, <3>1, NothingBreaksTold
  <2>2. CASE Owns(j, tasks[j]) /\ ms[here].failures < MachineFailures
    <3>1. here \in DOMAIN ms /\ ms[here] \in MachineStatus
      BY <1>4, <2>2 DEF Owns
    <3>2. Released(ms[here]).class = ms[here].class
      BY <2>2, <3>1, BoundAssumption DEF Released, MachineStatus
    <3>3. machines' = [ms EXCEPT ![here] = Released(ms[here])]
      BY <1>4, <2>2 DEF AfterFree
    <3>4. NothingBreaks
      BY <1>4, <3>1, <3>2, <3>3 DEF NothingBreaks
    <3> QED
      BY <1>2, <3>4, NothingBreaksTold
  <2>3. CASE Owns(j, tasks[j]) /\ ms[here].failures >= MachineFailures
    <3>1. here \in DOMAIN ms /\ ms[here] \in MachineStatus
      BY <1>4, <2>3 DEF Owns
    <3>2. Released(ms[here]).failures = ms[here].failures
      BY <3>1 DEF Released, MachineStatus
    <3>3. machines' = [ms EXCEPT ![here] = Released(ms[here])]
      BY <1>4, <2>3 DEF AfterFree
    <3>4. here \in Enqueued'
      <4>1. machines'[here].failures >= MachineFailures
        BY <2>3, <3>1, <3>2, <3>3
      <4>2. CASE "machine_broken" \in ImmediateEvents
        BY <1>4, <2>3, <4>2 DEF NotifyBroken, Enqueued
      <4>3. CASE "machine_broken" \notin ImmediateEvents
        BY <2>3, <4>1, <4>3 DEF FreeMachine, SummaryWithMachine, Enqueued
      <4> QED
        BY <4>2, <4>3
    <3>5. \A m \in DOMAIN machines' \ {here} : m \in DOMAIN machines
                                               /\ machines'[m].class = machines[m].class
      BY <1>4, <3>3
    <3> QED
      BY <1>2, <3>4, <3>5 DEF BrokenTold, Growing, Enqueued
  <2>4. ms[here].failures < MachineFailures \/ ms[here].failures >= MachineFailures
        \/ ~Owns(j, tasks[j])
    BY <1>4, BoundAssumption DEF Owns, MachineStatus
  <2> QED
    BY <2>1, <2>2, <2>3, <2>4
<1>5. DriveCanceled(j) => BrokenTold'
  BY <1>1, <1>4 DEF DriveCanceled
<1>6. DriveError(j) => BrokenTold'
  <2> DEFINE failures == IF machines[here].failures < MachineFailures
                         THEN machines[here].failures + 1 ELSE MachineFailures
             st == [machines[here] EXCEPT !.failures = failures]
             ms == Update(here, st)
  <2>1. DriveError(j) => /\ machines' = AfterFree(j, tasks[j], ms)
                         /\ NotifyBroken(j, tasks[j], ms)
    BY DEF DriveError
  <2>2. here \in DOMAIN machines => st \in MachineStatus /\ st.class = machines[here].class
    BY <1>1, BoundAssumption DEF MachineStatus
  <2> HIDE DEF st
  <2>3. /\ DOMAIN ms = DOMAIN machines
        /\ \A m \in DOMAIN ms : ms[m] \in MachineStatus /\ ms[m].class = machines[m].class
    BY <1>1, <2>2 DEF Update
  <2> HIDE DEF ms
  <2> QED
    BY <1>4, <2>1, <2>3
<1>7. Finalize(j) => BrokenTold'
  <2> SUFFICES ASSUME Finalize(j) PROVE BrokenTold'
    OBVIOUS
  <2>1. CASE machines' = AfterFree(j, tasks[j], machines)
    BY <1>1, <1>4, <2>1 DEF Finalize
  <2>2. CASE machines' # AfterFree(j, tasks[j], machines)
    <3>1. PICK st : machines' = Put(machines, here, st) /\ st.class = tasks[j].job.class
                    /\ st.class # None
      BY <2>2 DEF Finalize
    <3>2. st.class # BrokenClass
      BY <1>3, <3>1 DEF Task, JobSpec, NoBrokenName
    <3>3. NothingBreaks
      BY <3>1, <3>2 DEF Put, NothingBreaks
    <3> QED
      BY <1>2, <3>3, NothingBreaksTold
  <2> QED
    BY <2>1, <2>2
<1> QED
  BY <1>5, <1>6, <1>7 DEF FreeMachine

-----------------------------------------------------------------------------
(* Every message about a task in such a state says something.              *)
Tellable(t) == t.state \in Holding \cup {"Done", "DoneWithResults", "ErrorDone"}
LEMMA Tells == ASSUME NEW t, Tellable(t) PROVE Category(t) \in Sayings /\ Category(t) # None
<1>1. t.state = "Running" => Category(t) = "started"
  BY DEF Category
<1>2. t.state = "CheckingResults" => Category(t) = "checking"
  BY DEF Category
<1>3. t.state = "CopyingResults" => Category(t) = "copying"
  BY DEF Category
<1>4. t.state = "Done" \/ (t.state = "Finalize" /\ ~t.results) => Category(t) = "completed"
  BY DEF Category
<1>5. t.state = "DoneWithResults" \/ (t.state = "Finalize" /\ t.results) => Category(t) = "copied"
  BY DEF Category
<1>6. t.state \in {"Error", "ErrorDone"} => Category(t) \in {"timed out", "failed"}
  BY DEF Category
<1>7. \/ t.state \in {"Running", "CheckingResults", "CopyingResults", "Done", "DoneWithResults"}
      \/ t.state = "Finalize" \/ t.state \in {"Error", "ErrorDone"}
  BY DEF Tellable, Holding
<1> HIDE DEF Category
<1>8. Category(t) \in Sayings
  BY <1>1, <1>2, <1>3, <1>4, <1>5, <1>6, <1>7 DEF Sayings
<1> QED
  BY <1>8, MessageAssumption

(* What is sent is told, and nothing is forgotten unsent (KeepUndue).      *)
LEMMA SendTells ==
    ASSUME Typing, Send
    PROVE  /\ UNCHANGED <<machines, tasks>>
           /\ \A m \in DOMAIN machines \cap Enqueued :
                 m \in Enqueued' \/ (m \in DOMAIN told' /\ told'[m] = "broken")
           /\ \A j \in DOMAIN tasks \cap Enqueued :
                 Tellable(tasks[j]) =>
                    j \in Enqueued' \/ (j \in DOMAIN told' /\ told'[j] = Category(tasks[j]))
           /\ \A m \in DOMAIN machines : m \in DOMAIN told /\ told[m] = "broken"
                 => m \in DOMAIN told' /\ told'[m] = "broken"
           /\ \A j \in DOMAIN tasks \cap DOMAIN told :
                 j \in DOMAIN told' /\ told'[j] \in {told[j], Category(tasks[j])}
<1>1. ProcessNotifications /\ UNCHANGED <<machines, tasks>>
  BY DEF Send, ProcessNotifications, shared
<1>2. CASE panicked'
  <2>1. panicked' => UNCHANGED immediate
    BY <1>1, <1>2 DEF ProcessNotifications
  <2>2. UNCHANGED <<summary, told, immediate>>
    BY <1>2, <2>1 DEF Send
  <2> QED
    BY <1>1, <2>2 DEF Enqueued
<1>3. CASE ~panicked'
  <2>1. PICK due \in BOOLEAN :
          LET summarized == IF due THEN summary ELSE {}
              about == Messages(immediate \cup summarized)
              broken == (immediate \cap DOMAIN machines) \cup (summarized \cap Machines)
          IN  /\ summary' = KeepUndue(due)
              /\ told' = [x \in DOMAIN told \cup about \cup broken |->
                            IF x \in about THEN Category(tasks[x])
                            ELSE IF x \in broken THEN "broken" ELSE told[x]]
    BY <1>3 DEF Send
  <2> DEFINE summarized == IF due THEN summary ELSE {}
             about == Messages(immediate \cup summarized)
             broken == (immediate \cap DOMAIN machines) \cup (summarized \cap Machines)
  <2>2. /\ DOMAIN told' = DOMAIN told \cup about \cup broken
        /\ \A x \in about : told'[x] = Category(tasks[x])
        /\ \A x \in broken \ about : told'[x] = "broken"
        /\ \A x \in DOMAIN told \ (about \cup broken) : told'[x] = told[x]
    BY <2>1
  <2>3. summary \subseteq summarized \cup summary'
    BY <2>1 DEF KeepUndue
  <2>4. about \subseteq DOMAIN tasks
    BY DEF Messages
  <2>5. \A j \in DOMAIN tasks \cap (immediate \cup summarized) :
           Tellable(tasks[j]) => j \in about
    BY Tells DEF Messages
  <2>6. DOMAIN machines \subseteq Machines /\ DOMAIN tasks \cap Machines = {}
        /\ DOMAIN machines \cap DOMAIN tasks = {}
    BY Types, NameAssumption DEF IsMap, Issued
  <2>7. broken \cap DOMAIN tasks = {}
    BY <2>6
  <2>8. \A m \in DOMAIN machines \cap (immediate \cup summarized) : m \in broken \ about
    BY <2>4, <2>6
  <2> HIDE DEF summarized, about, broken
  <2>9. \A m \in DOMAIN machines \cap Enqueued :
           m \in Enqueued' \/ (m \in DOMAIN told' /\ told'[m] = "broken")
    BY <2>2, <2>3, <2>8 DEF Enqueued
  <2>10. \A j \in DOMAIN tasks \cap Enqueued : Tellable(tasks[j]) =>
            j \in Enqueued' \/ (j \in DOMAIN told' /\ told'[j] = Category(tasks[j]))
    BY <2>2, <2>3, <2>5 DEF Enqueued
  <2>11. \A m \in DOMAIN machines : m \in DOMAIN told /\ told[m] = "broken"
            => m \in DOMAIN told' /\ told'[m] = "broken"
    BY <2>2, <2>4, <2>6
  <2>12. \A j \in DOMAIN tasks \cap DOMAIN told :
            j \in DOMAIN told' /\ told'[j] \in {told[j], Category(tasks[j])}
    BY <2>2, <2>7
  <2> QED
    BY <1>1, <2>9, <2>10, <2>11, <2>12
<1> QED
  BY <1>2, <1>3

(* The other steps break no machine.                                       *)
LEMMA OtherBroken ==
    ASSUME NoBrokenName, Typing,
           \/ BeginIteration \/ EndDriving \/ Reap
           \/ \E j \in worker.to_clone : CloneFailed(j)
           \/ EndIteration
           \/ NewRequest \/ FinishRequest
           \/ \E j \in DOMAIN handles \cup copying : Environment(j)
           \/ UNCHANGED vars
    PROVE  NothingBreaks /\ UNCHANGED immediate
<1>1. UNCHANGED machines => NothingBreaks
  BY DEF NothingBreaks
<1>2. ASSUME NEW m, NEW c \in Classes, MakeAvailable(m, c) PROVE NothingBreaks
  BY <1>2 DEF MakeAvailable, Put, NothingBreaks, NoBrokenName
<1>3. ASSUME NEW m, RemoveAvailable(m) PROVE NothingBreaks
  BY <1>3 DEF RemoveAvailable, Drop, NothingBreaks
<1>4. ASSUME NEW j, NEW g, NEW how, NEW spec, NEW m,
             \/ HoldJob(j) \/ UnholdJob(j) \/ AddJobTimeout(j) \/ CloneJob(j) \/ TagJob(j, g)
             \/ UntagJob(j) \/ CancelJob(j, how) \/ AddJob(spec) \/ AddTaggedJob(spec, g)
             \/ AddMatrix(spec, g) \/ SetUpMachine(spec, m) \/ AddTag
      PROVE  UNCHANGED machines
  BY <1>4 DEF HoldJob, UnholdJob, AddJobTimeout, CloneJob, TagJob, UntagJob, CancelJob, AddJob,
     AddTaggedJob, AddMatrix, SetUpMachine, AddTag, Allocate
<1>5. NewRequest => NothingBreaks
  BY <1>1, <1>2, <1>3, <1>4 DEF NewRequest
<1>6. NewRequest \/ FinishRequest => UNCHANGED immediate
  BY ListenerCopies DEF Unaffected
<1>7. FinishRequest => UNCHANGED machines
  BY DEF FinishRequest, MatrixAllocate, InsertTask, InsertLive, PublishMatrix, InsertTagged,
         InsertTag
<1>8. ASSUME NEW j, Environment(j) \/ CloneFailed(j) PROVE UNCHANGED <<machines, immediate>>
  BY <1>8 DEF Environment, ProcessExits, CopierReports, CloneFailed, shared
<1>9. \/ BeginIteration \/ EndDriving \/ Reap \/ EndIteration \/ UNCHANGED vars
      => UNCHANGED <<machines, immediate>>
  BY DEF BeginIteration, EndDriving, Reap, EndIteration, shared, vars
<1> QED
  BY <1>1, <1>5, <1>6, <1>7, <1>8, <1>9

(* Every step keeps BrokenTold.                                            *)
LEMMA StepBrokenTold ==
    NoBrokenName /\ Typing /\ BrokenTold /\ [NotifierNext]_notifierVars => BrokenTold'
<1> SUFFICES ASSUME NoBrokenName, Typing, BrokenTold, [NotifierNext]_notifierVars
             PROVE  BrokenTold'
  OBVIOUS
<1>1. Send => BrokenTold'
  BY SendTells DEF BrokenTold, Enqueued
<1>2. ASSUME NEW j, Announce(j) PROVE BrokenTold'
  BY <1>2, AnnounceGrows, AnnounceBroken, NothingBreaksTold
<1>3. ASSUME NEW j, FreeMachine(j) PROVE BrokenTold'
  BY <1>3, FreeMachineBroken
<1>4. ASSUME NEW j, Quiet(j), UNCHANGED <<summary, told>> PROVE BrokenTold'
  BY <1>4, QuietBroken, NothingBreaksTold
<1>5. ASSUME \/ BeginIteration \/ EndDriving \/ Reap
             \/ \E j \in worker.to_clone : CloneFailed(j)
             \/ EndIteration
             \/ NewRequest \/ FinishRequest
             \/ \E j \in DOMAIN handles \cup copying : Environment(j)
             \/ UNCHANGED vars,
             UNCHANGED <<summary, told>>
      PROVE  BrokenTold'
  <2>1. NothingBreaks /\ UNCHANGED immediate
    BY <1>5, OtherBroken
  <2> QED
    BY <1>5, <2>1, NothingBreaksTold DEF Growing, Enqueued
<1>6. UNCHANGED notifierVars => UNCHANGED vars /\ UNCHANGED <<summary, told>>
  BY DEF notifierVars
<1> QED
  BY <1>1, <1>2, <1>3, <1>4, <1>5, <1>6 DEF NotifierNext

(* No machine is taken out of its class in silence: free_machine enqueues  *)
(* a message when it does so, and every message that is enqueued is kept   *)
(* until it is sent (notify.rs), however the summaries fall.               *)
THEOREM BreakingIsTold == NoBrokenName => (NotifierSpec => []BrokenTold)
<1> SUFFICES ASSUME NoBrokenName PROVE NotifierSpec => []BrokenTold
  OBVIOUS
<1>1. NotifierInit => BrokenTold
  BY DEF NotifierInit, Init, BrokenTold, EmptyMap
<1>2. Typing /\ BrokenTold /\ [NotifierNext]_notifierVars => BrokenTold'
  BY StepBrokenTold
<1>3. NotifierSpec => []Typing
  BY NotifierIsServer, TypingInvariant, PTL
<1> QED
  BY <1>1, <1>2, <1>3, PTL DEF NotifierSpec

-----------------------------------------------------------------------------
(* Setup tasks of one command: when a later command cannot be started,     *)
(* try_drive_sm_running announces nothing.                                 *)
SingleSetups == \A s \in SetupSpecs : s.cmds = 1
OneCommand == \A j \in DOMAIN tasks : tasks[j].state = "Running" => tasks[j].index = 0

(* Results are only copied for a task that wants them.                     *)
WantsResults == \A j \in DOMAIN tasks :
    tasks[j].state = "CopyingResults" => tasks[j].job.cp_results

(* The states from which nothing more, or only the end, is announced; what *)
(* the last message may have said of a task in one of them.                *)
Ending(t) == /\ t.state \in {"CopyingResults", "Finalize", "Error",
                             "Done", "DoneWithResults", "ErrorDone"}
             /\ t.timedout = None
Copied(t) == /\ t.job.cp_results
             /\ \/ t.state \in {"CopyingResults", "Error", "DoneWithResults", "ErrorDone"}
                \/ t.state = "Finalize" /\ t.results
Says(t) == {Category(t)} \cup (IF Copied(t) THEN {"copying"} ELSE {})
Heard == \A j \in DOMAIN tasks : Ending(tasks[j]) =>
    j \in Enqueued \/ (j \in DOMAIN told /\ told[j] \in Says(tasks[j]))
Telling == OneCommand /\ WantsResults /\ Heard

(* Says depends on the progress of a task only.                            *)
SameStory(s, t) == /\ t.state = s.state \/ t.state \in {"Waiting", "Held"}
                   /\ t.index = s.index /\ t.results = s.results
                   /\ t.timedout = s.timedout /\ t.job = s.job
LEMMA SameStorySays ==
    ASSUME NEW s, NEW t, SameStory(s, t), Ending(t)
    PROVE  Ending(s) /\ Says(t) = Says(s)
BY DEF SameStory, Ending, Says, Copied, Category

(* A step that keeps the story of every task.                              *)
LEMMA StoryKept ==
    ASSUME Telling, Growing,
           \A k \in DOMAIN tasks' : \/ k \in DOMAIN tasks /\ SameStory(tasks[k], tasks'[k])
                                    \/ tasks'[k].state = "Waiting"
    PROVE  Telling'
<1>1. OneCommand' /\ WantsResults'
  BY DEF Telling, OneCommand, WantsResults, SameStory
<1>2. ASSUME NEW k \in DOMAIN tasks', Ending(tasks'[k])
      PROVE  k \in Enqueued' \/ (k \in DOMAIN told' /\ told'[k] \in Says(tasks'[k]))
  <2>1. k \in DOMAIN tasks /\ SameStory(tasks[k], tasks'[k])
    BY <1>2 DEF Ending
  <2>2. Ending(tasks[k]) /\ Says(tasks'[k]) = Says(tasks[k])
    BY <1>2, <2>1, SameStorySays
  <2> QED
    BY <2>1, <2>2 DEF Telling, Heard, Growing
<1>3. Heard'
  BY <1>2 DEF Heard, Ending, Says, Copied, Category
<1> QED
  BY <1>1, <1>3 DEF Telling

(* A step that replaces one task.  It is enqueued, or does not end, or     *)
(* what was said of it still stands.                                       *)
LEMMA StoryReplaced ==
    ASSUME Telling, Growing, NEW j \in DOMAIN tasks, NEW t, tasks' = [tasks EXCEPT ![j] = t],
           t.state = "Running" => t.index = 0,
           t.state = "CopyingResults" => t.job.cp_results,
           Ending(t) => \/ j \in Enqueued'
                        \/ Ending(tasks[j]) /\ Says(tasks[j]) \subseteq Says(t)
    PROVE  Telling'
<1>1. OneCommand' /\ WantsResults'
  BY DEF Telling, OneCommand, WantsResults
<1>2. ASSUME NEW k \in DOMAIN tasks', Ending(tasks'[k])
      PROVE  k \in Enqueued' \/ (k \in DOMAIN told' /\ told'[k] \in Says(tasks'[k]))
  BY <1>2 DEF Telling, Heard, Growing
<1>3. Heard'
  BY <1>2 DEF Heard, Ending, Says, Copied, Category
<1> QED
  BY <1>1, <1>3 DEF Telling

(* enqueue_task_notification enqueues a task in any of these states.       *)
LEMMA Announced ==
    ASSUME NEW j, NEW t, NotifyTask(j, t), t = tasks'[j], SummaryWithTask(j),
           t.state \in Holding
    PROVE  j \in Enqueued'
<1>1. EventOf(t) # {}
  <2>1. t.state = "Running" => EventOf(t) = {"running"}
    BY DEF EventOf
  <2>2. t.state \in {"CheckingResults", "CopyingResults"} => EventOf(t) = {"complete"}
    BY DEF EventOf
  <2>3. t.state = "Finalize" /\ ~t.results => EventOf(t) = {"complete"}
    BY DEF EventOf
  <2>4. t.state = "Finalize" /\ t.results => EventOf(t) = {"results_copied"}
    BY DEF EventOf
  <2>5. t.state = "Error" => EventOf(t) = {"task_failed"}
    BY DEF EventOf
  <2> HIDE DEF EventOf
  <2> QED
    BY <2>1, <2>2, <2>3, <2>4, <2>5 DEF Holding
<1>2. CASE ~t.job.notify
  BY <1>2 DEF SummaryWithTask, Enqueued
<1>3. CASE t.job.notify /\ EventOf(t) \cap ImmediateEvents # {}
  BY <1>3 DEF NotifyTask, Enqueued
<1>4. CASE t.job.notify /\ EventOf(t) \cap ImmediateEvents = {}
  BY <1>1, <1>4 DEF SummaryWithTask, Enqueued
<1> QED
  BY <1>2, <1>3, <1>4

(* The drives that announce the new state.                                 *)
LEMMA AnnounceTelling ==
    ASSUME Typing, Telling, NEW j, Announce(j) PROVE Telling'
<1>1. Growing
  BY AnnounceGrows
<1>2. Driving(j)
  BY DEF Announce, Start, AllCommandsDone, CommandFailed, TimeOut, CheckResults, Polled
<1>3. tasks[j] \in Task /\ j \in DOMAIN tasks
  BY <1>2, Driven
<1>4. ASSUME NEW t, tasks' = [tasks EXCEPT ![j] = t], NotifyTask(j, tasks'[j]),
             t.state \in Holding, t.state = "Running" => t.index = 0,
             t.state = "CopyingResults" => t.job.cp_results
      PROVE  Telling'
  <2>1. tasks'[j] = t
    BY <1>3, <1>4
  <2>2. j \in Enqueued'
    BY <1>4, <2>1, Announced DEF Announce
  <2> QED
    BY <1>1, <1>3, <1>4, <2>2, StoryReplaced
<1>5. ASSUME NEW m, NEW spawned, Start(j, m, spawned) PROVE Telling'
  <2> DEFINE t == Launched(tasks[j], m, spawned)
  <2>1. t.state \in {"Running", "Error"} /\ t.index = 0
    BY <1>3 DEF Launched, Task
  <2>2. tasks' = [tasks EXCEPT ![j] = t] /\ NotifyTask(j, tasks'[j])
    BY <1>5 DEF Start
  <2> HIDE DEF t
  <2> QED
    BY <1>4, <2>1, <2>2 DEF Holding
<1>6. ASSUME AllCommandsDone(j) PROVE Telling'
  <2> DEFINE t == [tasks[j] EXCEPT !.state = "CheckingResults", !.index = 0]
  <2>1. t.state = "CheckingResults"
    BY <1>3 DEF Task
  <2>2. tasks' = [tasks EXCEPT ![j] = t] /\ NotifyTask(j, tasks'[j])
    BY <1>6 DEF AllCommandsDone
  <2> HIDE DEF t
  <2> QED
    BY <1>4, <2>1, <2>2 DEF Holding
<1>7. ASSUME CommandFailed(j) PROVE Telling'
  <2> DEFINE t == [tasks[j] EXCEPT !.state = "Error"]
  <2>1. t.state = "Error"
    BY <1>3 DEF Task
  <2>2. tasks' = [tasks EXCEPT ![j] = t] /\ NotifyTask(j, tasks'[j])
    BY <1>7 DEF CommandFailed
  <2> HIDE DEF t
  <2> QED
    BY <1>4, <2>1, <2>2 DEF Holding
<1>8. ASSUME TimeOut(j) PROVE Telling'
  <2> DEFINE t == [tasks[j] EXCEPT !.timedout = tasks[j].index, !.canceled = "keep"]
  <2>1. tasks[j].state = "Running"
    BY <1>8 DEF TimeOut, Polled, StateOf
  <2>2. t.state = "Running" /\ t.index = 0
    BY <1>3, <2>1 DEF Task, Telling, OneCommand
  <2>3. tasks' = [tasks EXCEPT ![j] = t] /\ NotifyTask(j, tasks'[j])
    BY <1>8 DEF TimeOut
  <2> HIDE DEF t
  <2> QED
    BY <1>4, <2>2, <2>3 DEF Holding
<1>9. ASSUME NEW produced, CheckResults(j, produced) PROVE Telling'
  <2> DEFINE t == [tasks[j] EXCEPT !.state = IF tasks[j].job.cp_results /\ produced
                                             THEN "CopyingResults" ELSE "Finalize"]
  <2>1. /\ t.state \in {"CopyingResults", "Finalize"}
        /\ t.state = "CopyingResults" => t.job.cp_results
    BY <1>3 DEF Task
  <2>2. tasks' = [tasks EXCEPT ![j] = t] /\ NotifyTask(j, tasks'[j])
    BY <1>9 DEF CheckResults
  <2> HIDE DEF t
  <2> QED
    BY <1>4, <2>1, <2>2 DEF Holding
<1> QED
  BY <1>5, <1>6, <1>7, <1>8, <1>9 DEF Announce

(* The end of a task says what was said when it was announced.             *)
LEMMA FreeMachineTelling ==
    ASSUME Typing, Telling, NEW j, FreeMachine(j) PROVE Telling'
<1>1. Growing
  BY FreeMachineGrows
<1>2. Driving(j)
  BY DEF FreeMachine, Finalize, DriveError, DriveCanceled
<1>3. tasks[j] \in Task /\ j \in DOMAIN tasks
  BY <1>2, Driven
<1>4. ASSUME Finalize(j) PROVE Telling'
  <2> DEFINE s == tasks[j]
             t == [s EXCEPT !.state = IF s.results THEN "DoneWithResults" ELSE "Done"]
  <2>1. s.state = "Finalize" /\ tasks' = [tasks EXCEPT ![j] = t]
    BY <1>4 DEF Finalize, StateOf
  <2>2. /\ t.state = IF s.results THEN "DoneWithResults" ELSE "Done"
        /\ t.job = s.job /\ t.timedout = s.timedout
    BY <1>3 DEF Task
  <2> HIDE DEF t
  <2>3. Category(t) = Category(s) /\ (Copied(s) => Copied(t))
    BY <2>1, <2>2 DEF Category, Copied
  <2>4. Ending(t) => Ending(s) /\ Says(s) \subseteq Says(t)
    BY <2>1, <2>2, <2>3 DEF Ending, Says
  <2> QED
    BY <1>1, <1>3, <2>1, <2>2, <2>4, StoryReplaced
<1>5. ASSUME DriveError(j) PROVE Telling'
  <2> DEFINE s == tasks[j]
             t == [s EXCEPT !.state = "ErrorDone"]
  <2>1. s.state = "Error" /\ tasks' = [tasks EXCEPT ![j] = t]
    BY <1>5 DEF DriveError, StateOf
  <2>2. t.state = "ErrorDone" /\ t.job = s.job /\ t.timedout = s.timedout
    BY <1>3 DEF Task
  <2> HIDE DEF t
  <2>3. Category(t) = Category(s) /\ (Copied(s) => Copied(t))
    BY <2>1, <2>2 DEF Category, Copied
  <2>4. Ending(t) => Ending(s) /\ Says(s) \subseteq Says(t)
    BY <2>1, <2>2, <2>3 DEF Ending, Says
  <2> QED
    BY <1>1, <1>3, <2>1, <2>2, <2>4, StoryReplaced
<1>6. ASSUME DriveCanceled(j) PROVE Telling'
  <2> DEFINE t == Stopped(tasks[j])
  <2>1. tasks' = [tasks EXCEPT ![j] = t]
    BY <1>6 DEF DriveCanceled
  <2>2. t.state \in {"Canceled", "Killed"} \/ (t.state = "Error" /\ t.timedout # None)
    BY <1>3 DEF Stopped, Task
  <2> HIDE DEF t
  <2> QED
    BY <1>1, <1>3, <2>1, <2>2, StoryReplaced DEF Ending
<1> QED
  BY <1>4, <1>5, <1>6 DEF FreeMachine

(* Every task has one command.                                             *)
LEMMA JobsHaveOneCommand ==
    ASSUME SingleSetups, AsSubmitted, NEW j \in DOMAIN tasks PROVE tasks[j].job.cmds = 1
<1>1. \A s \in JobSpecs : s.cmds = 1 /\ [s EXCEPT !.repeat_on_fail = TRUE].cmds = 1
  BY SpecAssumption DEF JobSpec
<1>2. \/ tasks[j].job \in JobSpecs \cup {[s EXCEPT !.repeat_on_fail = TRUE] : s \in JobSpecs}
      \/ tasks[j].job \in SetupSpecs
  BY DEF AsSubmitted, Submittable
<1> DEFINE job == tasks[j].job
<1>3. job \in JobSpecs => job.cmds = 1
  BY <1>1
<1>4. ASSUME NEW s \in JobSpecs, job = [s EXCEPT !.repeat_on_fail = TRUE] PROVE job.cmds = 1
  BY <1>1, <1>4
<1>5. job \in SetupSpecs => job.cmds = 1
  BY DEF SingleSetups
<1>6. \/ job \in JobSpecs \/ job \in SetupSpecs
      \/ \E s \in JobSpecs : job = [s EXCEPT !.repeat_on_fail = TRUE]
  BY <1>2
<1> HIDE DEF job
<1>7. job.cmds = 1
  BY <1>3, <1>4, <1>5, <1>6
<1> QED
  BY <1>7 DEF job

(* The copier's report is not announced, but that the copy is under way    *)
(* was, or is about to be.                                                 *)
LEMMA QuietTelling ==
    ASSUME SingleSetups, NoBrokenName, AsSubmitted, Typing, Telling, NEW j, Quiet(j),
           UNCHANGED <<summary, told>>
    PROVE  Telling'
<1>1. Growing
  BY QuietBroken
<1>2. Driving(j)
  BY DEF Quiet, DriveHeld, NoMachine, StillRunning, NextCommand, CheckPanics, CopyReported,
         StillCopying, DriveTerminal, Polled
<1>3. tasks[j] \in Task /\ j \in DOMAIN tasks
  BY <1>2, Driven
<1>4. UNCHANGED tasks => Telling'
  BY <1>1, StoryKept DEF SameStory
<1>5. \/ DriveHeld(j) \/ NoMachine(j) \/ StillRunning(j) \/ StillCopying(j)
      \/ DriveTerminal(j) \/ CheckPanics(j)
      => UNCHANGED tasks
  BY DEF DriveHeld, NoMachine, StillRunning, StillCopying, DriveTerminal, CheckPanics, shared
<1>6. ASSUME NEW spawned, NextCommand(j, spawned) PROVE FALSE
  <2>1. tasks[j].state = "Running" /\ tasks[j].index # tasks[j].job.cmds - 1
    BY <1>6 DEF NextCommand, Polled, LastCommand, StateOf
  <2> QED
    BY <1>3, <2>1, JobsHaveOneCommand DEF Telling, OneCommand
<1>7. ASSUME CopyReported(j) PROVE Telling'
  <2> DEFINE s      == tasks[j]
             copied == [s EXCEPT !.state = "Finalize", !.results = TRUE]
             failed == [s EXCEPT !.state = "Error"]
  <2>1. s.state = "CopyingResults" /\ \E t \in {copied, failed} : tasks' = [tasks EXCEPT ![j] = t]
    BY <1>7 DEF CopyReported, StateOf
  <2>2. /\ copied.state = "Finalize" /\ copied.results
        /\ copied.job = s.job /\ copied.timedout = s.timedout
        /\ failed.state = "Error" /\ failed.job = s.job /\ failed.timedout = s.timedout
    BY <1>3 DEF Task
  <2> HIDE DEF copied, failed
  <2>3. PICK t \in {copied, failed} : tasks' = [tasks EXCEPT ![j] = t]
    BY <2>1
  <2>4. s.job.cp_results
    BY <1>3, <2>1 DEF Telling, WantsResults
  <2>5. Category(s) = "copying"
    BY <2>1 DEF Category
  <2>6. Copied(t) /\ t.timedout = s.timedout /\ t.state \in {"Finalize", "Error"}
    BY <2>2, <2>3, <2>4 DEF Copied
  <2>7. Ending(t) => Ending(s) /\ Says(s) \subseteq Says(t)
    BY <2>1, <2>5, <2>6 DEF Ending, Says
  <2> QED
    BY <1>1, <1>3, <2>3, <2>6, <2>7, StoryReplaced
<1> QED
  BY <1>4, <1>5, <1>6, <1>7 DEF Quiet

(* Sending.                                                                *)
LEMMA SendTelling == ASSUME Typing, Telling, Send PROVE Telling'
<1>1. UNCHANGED tasks
  BY SendTells
<1>2. OneCommand' /\ WantsResults'
  BY <1>1 DEF Telling, OneCommand, WantsResults
<1>3. ASSUME NEW k \in DOMAIN tasks, Ending(tasks[k])
      PROVE  k \in Enqueued' \/ (k \in DOMAIN told' /\ told'[k] \in Says(tasks[k]))
  <2>1. Tellable(tasks[k])
    BY <1>3 DEF Ending, Tellable, Holding
  <2>2. Category(tasks[k]) \in Says(tasks[k])
    BY DEF Says
  <2>3. CASE k \in Enqueued
    BY <1>3, <2>1, <2>2, <2>3, SendTells
  <2>4. CASE k \in DOMAIN told /\ told[k] \in Says(tasks[k])
    BY <1>3, <2>2, <2>4, SendTells
  <2> QED
    BY <1>3, <2>3, <2>4 DEF Telling, Heard
<1>4. \A k \in DOMAIN tasks' : Ending(tasks'[k])
         => k \in Enqueued' \/ (k \in DOMAIN told' /\ told'[k] \in Says(tasks'[k]))
  BY <1>1, <1>3
<1>5. Heard'
  BY <1>4 DEF Heard
<1> QED
  BY <1>2, <1>5 DEF Telling

(* A request keeps the job of every task.                                  *)
LEMMA RequestKeepsJobs ==
    ASSUME Typing, Safe, NewRequest \/ FinishRequest, NEW k \in DOMAIN tasks
    PROVE  k \in DOMAIN tasks' /\ tasks'[k].job = tasks[k].job
<1>1. CASE NewRequest
  <2>1. Cloned => k \in DOMAIN tasks' /\ tasks'[k].job = tasks[k].job
    BY NextIdFresh DEF Cloned, Put
  <2>2. Replaced => k \in DOMAIN tasks' /\ tasks'[k].job = tasks[k].job
    BY DEF Replaced
  <2> QED
    BY <1>1, <2>1, <2>2, RequestForm
<1>2. CASE FinishRequest
  <2>1. Inserted => k \in DOMAIN tasks' /\ tasks'[k].job = tasks[k].job
    BY DEF Inserted, Inserting, Put, Safe, ListenerFresh
  <2> QED
    BY <1>2, <2>1, InsertionForm
<1> QED
  BY <1>1, <1>2

(* The steps that tell nothing and drive nothing.                          *)
LEMMA OtherTelling ==
    ASSUME NoBrokenName, Typing, Safe, Telling, UNCHANGED <<summary, told>>,
           \/ BeginIteration \/ EndDriving \/ Reap
           \/ \E j \in worker.to_clone : CloneFailed(j)
           \/ EndIteration
           \/ NewRequest \/ FinishRequest
           \/ \E j \in DOMAIN handles \cup copying : Environment(j)
           \/ UNCHANGED vars
    PROVE  Telling'
<1>1. Growing
  BY OtherBroken DEF Growing, Enqueued
<1> DEFINE Story == \A k \in DOMAIN tasks' :
              \/ k \in DOMAIN tasks /\ SameStory(tasks[k], tasks'[k])
              \/ tasks'[k].state = "Waiting"
<1>2. \A t : SameStory(t, t)
  BY DEF SameStory
<1>3. UNCHANGED tasks => Story
  BY <1>2
<1>4. BeginIteration \/ EndDriving \/ EndIteration \/ UNCHANGED vars => UNCHANGED tasks
  BY DEF BeginIteration, EndDriving, EndIteration, shared, vars
<1>5. ASSUME NEW j, Environment(j) PROVE UNCHANGED tasks
  BY <1>5 DEF Environment, ProcessExits, CopierReports, shared
<1>6. Reap => Story
  BY <1>2 DEF Reap, Drop
<1>7. ASSUME NEW j \in worker.to_clone, CloneFailed(j) PROVE Story
  <2>1. Cloned => Story
    BY <1>2 DEF Cloned, Put
  <2> QED
    BY <1>3, <1>7, <2>1, CloneFailedForm
<1>8. ASSUME NewRequest \/ FinishRequest PROVE Story
  <2>1. ASSUME NEW k \in DOMAIN tasks PROVE SameStory(tasks[k], tasks'[k])
    <3>1. SameRun(tasks[k], tasks'[k])
      BY <1>8, NewRequestKeeps, FinishRequestKeeps DEF RequestKeeps
    <3>2. tasks'[k].job = tasks[k].job
      BY <1>8, RequestKeepsJobs
    <3> QED
      BY <3>1, <3>2 DEF SameRun, SameStory
  <2>2. \A k \in DOMAIN tasks' \ DOMAIN tasks : tasks'[k].state = "Waiting"
    BY <1>8, NewRequestForm, FinishRequestForm DEF TasksKept, TaskReplaced, TaskInserted, Put
  <2> QED
    BY <2>1, <2>2
<1>9. Story
  BY <1>3, <1>4, <1>5, <1>6, <1>7, <1>8
<1> QED
  BY <1>1, <1>9, StoryKept

(* Every step keeps Telling.                                               *)
LEMMA StepTelling ==
    /\ SingleSetups /\ NoBrokenName /\ Typing /\ Safe /\ AsSubmitted /\ Telling
    /\ [NotifierNext]_notifierVars
    => Telling'
<1> SUFFICES ASSUME SingleSetups, NoBrokenName, Typing, Safe, AsSubmitted, Telling,
                    [NotifierNext]_notifierVars
             PROVE  Telling'
  OBVIOUS
<1>1. ASSUME NEW j, Quiet(j), UNCHANGED <<summary, told>> PROVE Telling'
  BY <1>1, QuietTelling
<1>2. UNCHANGED notifierVars => UNCHANGED vars /\ UNCHANGED <<summary, told>>
  BY DEF notifierVars
<1> QED
  BY <1>1, <1>2, SendTelling, AnnounceTelling, FreeMachineTelling, OtherTelling
     DEF NotifierNext

(* What was heard of a finished task is its outcome.                       *)
LEMMA HeardOutcome == Telling => OutcomeTold
BY DEF Telling, Heard, OutcomeTold, Ending, Says, Copied, Enqueued

(* How a task ended is told, although the states it ends in announce       *)
(* nothing (notify.rs): the last message that was enqueued about it is     *)
(* sent with the state it has then, or says the same as the outcome.  A    *)
(* setup task of several commands is excepted: when a later command cannot *)
(* be started, nothing is enqueued (try_drive_sm_running).                 *)
THEOREM OutcomesAreTold ==
    SingleSetups /\ NoBrokenName => (NotifierSpec => []OutcomeTold)
<1> SUFFICES ASSUME SingleSetups, NoBrokenName PROVE NotifierSpec => []OutcomeTold
  OBVIOUS
<1>1. NotifierInit => Telling
  BY DEF NotifierInit, Init, Telling, OneCommand, WantsResults, Heard, EmptyMap
<1>2. Typing /\ Safe /\ AsSubmitted /\ Telling /\ [NotifierNext]_notifierVars => Telling'
  BY StepTelling
<1>3. /\ NotifierSpec => []Typing
      /\ NotifierSpec => []Safe
      /\ NotifierSpec => []AsSubmitted
  BY NotifierIsServer, TypingInvariant, SafetyInvariant, JobsAsSubmitted, PTL
<1> QED
  BY <1>1, <1>2, <1>3, HeardOutcome, PTL DEF NotifierSpec

==============================================================================
