---------------------------- MODULE ClientProofs ----------------------------
(***************************************************************************)
(* What a listing of the client shows (Client), although it is put         *)
(* together from answers that were given in different states of the        *)
(* server: what an answer said of a job stays true of it for as long as    *)
(* the job is there.  Client takes the steps of Server, so that the        *)
(* invariants of Server hold of it as well.                                *)
(***************************************************************************)
EXTENDS Client, TaskProofs, FiniteSetTheorems, WellFoundedInduction

(* A step of the server, or one of the client, which the server does not   *)
(* notice.                                                                 *)
ServerMoves == /\ \/ WorkThreadStep
                  \/ ~Serving /\ NewRequest
                  \/ FinishRequest
                  \/ \E j \in DOMAIN handles \cup copying : Environment(j)
               /\ UNCHANGED client

(* The steps of both are steps of the server, as far as it can tell.       *)
LEMMA StepOfServer ==
    /\ [ClientNext]_clientVars => [Next]_vars
    /\ ClientNext => ServerMoves \/ (Listing /\ UNCHANGED vars)
    /\ ServerMoves => Next
BY DEF ClientNext, clientVars, ServerMoves, Next

(* The client changes nothing in the server.                               *)
THEOREM ClientIsServer == ClientSpec => Spec
<1>1. ClientInit => Init
  BY DEF ClientInit
<1> QED
  BY <1>1, StepOfServer, PTL DEF ClientSpec, Spec

-----------------------------------------------------------------------------
(* Ids name tasks, matrices or tags, and keep doing so: what was given to  *)
(* one kind is never used for another.  Those in the hands of the listener *)
(* are of a kind that is not visible yet.                                  *)
Groups == DOMAIN matrices \cup DOMAIN tags
InHand == IF listener.at \in {"insert_task", "insert_tagged", "insert_tag"}
          THEN {listener.jid} ELSE {}
Coming == {listener.matrix} \cup InHand
JobIds == Issued \ (Groups \cup Coming)

Apart == /\ DOMAIN tasks \subseteq JobIds
         /\ Groups \cap Coming = {} /\ DOMAIN matrices \cap DOMAIN tags = {}
         /\ listener.matrix \notin InHand

(* As long as jobs are not retagged a tag lists its own jobs only, and a   *)
(* job is newer than its tag and in no matrix.                             *)
NoRetagging == "TagJob" \notin Offered
Tagged(t, j) == t.tag # None => t.tag < j /\ t.matrix = None
TagsOwn == \A g \in DOMAIN tags : \A k \in tags[g] : k \in DOMAIN tasks /\ tasks[k].tag = g
TagsExact == /\ TagsOwn
             /\ \A j \in DOMAIN tasks : Tagged(tasks[j], j)
             /\ listener.at = "insert_tagged" => listener.task.tag \in 0..listener.jid

-----------------------------------------------------------------------------
(* What a step does to tasks and groups, in one of these ways: every task  *)
(* keeps its groups; one is retagged; one is cloned; some are reaped; an   *)
(* id is handed out; the listener inserts what it has in hand.             *)
Keeps == /\ UNCHANGED <<matrices, tags, listener>> /\ DOMAIN tasks' = DOMAIN tasks
         /\ \A k \in DOMAIN tasks : /\ tasks'[k].matrix = tasks[k].matrix
                                    /\ tasks'[k].tag = tasks[k].tag
         /\ next_jid' \in {next_jid, next_jid + 1}
Retags == /\ "TagJob" \in Offered /\ UNCHANGED <<matrices, listener, next_jid>>
          /\ DOMAIN tasks' = DOMAIN tasks /\ DOMAIN tags' = DOMAIN tags
Clones == \E j \in DOMAIN tasks : \E t :
    /\ InsertClone(next_jid, t) /\ next_jid' = next_jid + 1 /\ UNCHANGED listener
    /\ RefsResolve(t) /\ t.matrix = tasks[j].matrix /\ t.tag = tasks[j].tag
Begins == /\ next_jid' = next_jid + 1 /\ UNCHANGED <<tasks, matrices, tags>>
          /\ listener.at \in {"idle", "matrix"}

(* A step that replaces one task keeps the domain.                         *)
LEMMA OneTaskKeeps ==
    ASSUME Typing, NEW j, NEW t, tasks' = [tasks EXCEPT ![j] = t],
           j \in DOMAIN tasks => t.matrix = tasks[j].matrix /\ t.tag = tasks[j].tag,
           UNCHANGED <<matrices, tags, listener, next_jid>>
    PROVE  Keeps
<1>1. /\ DOMAIN tasks' = DOMAIN tasks
      /\ \A k \in DOMAIN tasks : tasks'[k] = IF k = j THEN t ELSE tasks[k]
  BY Types DEF IsMap
<1> QED
  BY <1>1 DEF Keeps

(* A clone names the groups of its original.                               *)
LEMMA CloneGroups ==
    ASSUME NEW t \in Task, NEW n
    PROVE  /\ CloneTask(t).matrix = t.matrix /\ CloneTask(t).tag = t.tag
           /\ [CloneTask(t) EXCEPT !.attempt = n].matrix = t.matrix
           /\ [CloneTask(t) EXCEPT !.attempt = n].tag = t.tag
BY DEF CloneTask, Task

(* Requests in one critical section.                                       *)
LEMMA RequestBelongs ==
    ASSUME Typing, NewRequest PROVE Keeps \/ Retags \/ Clones \/ Begins
<1>1. \A k \in DOMAIN tasks : tasks[k] \in Task
  BY Types, MapAt
<1>2. ASSUME UNCHANGED <<tasks, matrices, tags, listener, next_jid>> PROVE Keeps
  BY <1>2 DEF Keeps
<1>3. ASSUME NEW k \in DOMAIN tasks, NEW how, NEW t,
             \/ t = [tasks[k] EXCEPT !.state = how]
             \/ t = [tasks[k] EXCEPT !.timeout = how]
             \/ t = [tasks[k] EXCEPT !.canceled = how],
             tasks' = [tasks EXCEPT ![k] = t], UNCHANGED <<matrices, tags, listener, next_jid>>
      PROVE  Keeps
  <2>1. t.matrix = tasks[k].matrix /\ t.tag = tasks[k].tag
    BY <1>1, <1>3 DEF Task
  <2> QED
    BY <1>3, <2>1, OneTaskKeeps
<1>4. ASSUME NEW k \in DOMAIN tasks, NEW how, Cancel(k, how),
             UNCHANGED <<matrices, tags, listener, next_jid>>
      PROVE  Keeps
  BY <1>3, <1>4 DEF Cancel
<1>5. ASSUME NEW m, NEW c, MakeAvailable(m, c) \/ RemoveAvailable(m) PROVE Keeps
  BY <1>2, <1>4, <1>5 DEF MakeAvailable, RemoveAvailable
<1>6. ASSUME NEW k \in DOMAIN tasks, NEW how,
             CancelJob(k, how) \/ HoldJob(k) \/ UnholdJob(k) \/ AddJobTimeout(k)
      PROVE  Keeps
  BY <1>3, <1>4, <1>6 DEF CancelJob, HoldJob, UnholdJob, AddJobTimeout
<1>7. ASSUME NEW k \in DOMAIN tasks, NEW g, TagJob(k, g) \/ UntagJob(k) PROVE Retags
  BY <1>7, Types DEF TagJob, UntagJob, Handle, Accept, IsMap, Retags
<1>8. ASSUME NEW k \in DOMAIN tasks, CloneJob(k) PROVE Keeps \/ Clones
  <2>1. CASE RefsResolve(CloneTask(tasks[k]))
    BY <1>1, <1>8, <2>1, CloneGroups DEF CloneJob, Clones
  <2>2. CASE ~RefsResolve(CloneTask(tasks[k]))
    BY <1>8, <2>2 DEF CloneJob, Keeps
  <2> QED
    BY <2>1, <2>2
<1>9. ASSUME NEW spec, NEW m, NEW n,
             \/ AddJob(spec) \/ AddTaggedJob(spec, n) \/ AddMatrix(spec, n)
             \/ SetUpMachine(spec, m) \/ AddTag
      PROVE  Begins
  BY <1>9 DEF AddJob, AddTaggedJob, AddMatrix, SetUpMachine, AddTag, Allocate, Accept, Begins
<1> QED
  BY <1>5, <1>6, <1>7, <1>8, <1>9 DEF NewRequest

(* Steps of the work thread, of processes and of the copier thread.        *)
LEMMA OtherBelongs ==
    ASSUME Typing, WorkThreadStep \/ \E j \in DOMAIN handles \cup copying : Environment(j)
    PROVE  Keeps \/ Clones \/ Reap
<1>1. ASSUME NEW j, Environment(j) PROVE Keeps
  BY <1>1 DEF Environment, ProcessExits, CopierReports, shared, Keeps
<1>2. ASSUME NEW j, TryDriveSm(j) PROVE Keeps
  BY <1>2, DriveForm, OneTaskKeeps DEF Keeps
<1>3. ProcessNotifications \/ BeginIteration \/ EndDriving \/ EndIteration => Keeps
  BY DEF ProcessNotifications, BeginIteration, EndDriving, EndIteration, shared, Keeps
<1>4. ASSUME NEW j \in worker.to_clone, CloneFailed(j) PROVE Keeps \/ Clones
  <2> DEFINE t == [CloneTask(tasks[j]) EXCEPT !.attempt = tasks[j].attempt + 1]
  <2>1. j \in DOMAIN tasks /\ tasks[j] \in Task
    BY Types, MapAt DEF Typing, WorkerTyped
  <2>2. t.matrix = tasks[j].matrix /\ t.tag = tasks[j].tag
    BY <2>1, CloneGroups
  <2>3. RefsResolve(t) => InsertClone(next_jid, t) /\ next_jid' = next_jid + 1 /\ UNCHANGED listener
    BY <1>4 DEF CloneFailed
  <2>4. ~RefsResolve(t) => Keeps
    BY <1>4 DEF CloneFailed, Keeps
  <2> HIDE DEF t
  <2> QED
    BY <2>1, <2>2, <2>3, <2>4 DEF Clones
<1> QED
  BY <1>1, <1>2, <1>3, <1>4 DEF WorkThreadStep

(* So every step has one of these forms.                                   *)
LEMMA StepBelongs ==
    ASSUME Typing, [Next]_vars
    PROVE  Keeps \/ Retags \/ Clones \/ Reap \/ (Begins /\ NewRequest) \/ FinishRequest
<1>1. UNCHANGED vars => Keeps
  BY DEF vars, shared, Keeps
<1> QED
  BY <1>1, RequestBelongs, OtherBelongs DEF Next

-----------------------------------------------------------------------------
(* Ids keep their kind: a step leaves those of jobs what they are, and     *)
(* gives a new task an id that was not among them.                         *)
KeepsIds == /\ Apart' /\ JobIds \subseteq JobIds'
            /\ JobIds \cap DOMAIN tasks' \subseteq DOMAIN tasks

(* The ids that were handed out are numbers below the next one.            *)
LEMMA MoreIssued ==
    ASSUME Typing, next_jid' \in {next_jid, next_jid + 1}
    PROVE  /\ Issued \subseteq Issued' /\ next_jid \notin Issued
           /\ None \notin Issued /\ None # next_jid
           /\ next_jid' = next_jid + 1 => next_jid \in Issued'
BY Types, IdsAreNumbers DEF Issued

(* A step that the listener takes no part in.                              *)
LEMMA UnheardIds ==
    ASSUME Typing, Apart, UNCHANGED listener, next_jid' \in {next_jid, next_jid + 1},
           DOMAIN tags' = DOMAIN tags, DOMAIN matrices' \subseteq DOMAIN matrices,
           \/ DOMAIN tasks' \subseteq DOMAIN tasks
           \/ DOMAIN tasks' = DOMAIN tasks \cup {next_jid} /\ next_jid' = next_jid + 1
    PROVE  KeepsIds
<1>1. /\ Issued \subseteq Issued' /\ next_jid \notin Issued
      /\ next_jid' = next_jid + 1 => next_jid \in Issued'
  BY MoreIssued
<1>2. Groups' \subseteq Groups /\ Coming' = Coming /\ InHand' = InHand
  BY DEF Groups, Coming, InHand
<1>3. Groups \subseteq Issued /\ Coming \subseteq Issued \cup {None}
  BY Types DEF IsMap, Groups, Coming, InHand, Typing, ListenerTyped
<1>4. next_jid \notin Groups \cup Coming
  BY <1>1, <1>3, MoreIssued
<1>5. JobIds \subseteq JobIds'
  BY <1>1, <1>2 DEF JobIds
<1>6. JobIds \cap DOMAIN tasks' \subseteq DOMAIN tasks
  BY <1>1 DEF JobIds
<1>7. DOMAIN tasks' \subseteq JobIds'
  BY <1>1, <1>2, <1>4, <1>5 DEF Apart, JobIds
<1>8. Apart'
  BY <1>2, <1>7 DEF Apart, Groups
<1> QED
  BY <1>5, <1>6, <1>8 DEF KeepsIds

(* The listener takes a new id.                                            *)
LEMMA BeginIds ==
    ASSUME Typing, Apart, next_jid' = next_jid + 1, UNCHANGED <<tasks, matrices, tags>>,
           InHand = {}, Coming' \subseteq Coming \cup {next_jid, None},
           listener'.matrix \notin InHand'
    PROVE  KeepsIds
<1>1. /\ Issued \subseteq Issued' /\ next_jid \notin Issued
      /\ None \notin Issued /\ None # next_jid
  BY MoreIssued
<1>2. Groups' = Groups /\ Groups \subseteq Issued
  BY Types DEF IsMap, Groups
<1>3. JobIds \subseteq JobIds'
  BY <1>1, <1>2 DEF JobIds
<1>4. Groups' \cap Coming' = {}
  BY <1>1, <1>2 DEF Apart
<1>5. Apart'
  BY <1>3, <1>4 DEF Apart
<1> QED
  BY <1>3, <1>5 DEF KeepsIds, Apart

(* Requests that take an id, or more.                                      *)
LEMMA NewRequestBegins ==
    ASSUME Typing, Apart, Begins, NewRequest PROVE KeepsIds
<1>1. listener.at = "idle" /\ listener.matrix = None
  <2>1. listener.at = "idle"
    BY DEF NewRequest, MakeAvailable, RemoveAvailable, CancelJob, HoldJob, UnholdJob,
       AddJobTimeout, TagJob, UntagJob, CloneJob, AddJob, AddTaggedJob, AddMatrix,
       SetUpMachine, AddTag, Handle, Accept
  <2> QED
    BY <2>1 DEF Typing, ListenerTyped
<1>2. listener \in Listener /\ next_jid # None
  BY Types, IdsAreNumbers
<1> DEFINE Takes(task, at) == listener' = [listener EXCEPT !.at = at, !.jid = next_jid,
                                                            !.task = task]
<1>3. ASSUME NEW task, NEW at \in {"insert_task", "insert_tagged", "insert_tag"},
             Takes(task, at)
      PROVE  Coming' \subseteq {None, next_jid} /\ listener'.matrix \notin InHand'
  <2>1. listener'.at = at /\ listener'.jid = next_jid /\ listener'.matrix = None
    BY <1>1, <1>2, <1>3 DEF Listener
  <2>2. InHand' = {next_jid} /\ Coming' = {None, next_jid}
    BY <2>1 DEF Coming, InHand
  <2> QED
    BY <1>2, <2>1, <2>2
<1>4. ASSUME UNCHANGED listener
      PROVE  Coming' \subseteq {None, next_jid} /\ listener'.matrix \notin InHand'
  BY <1>1, <1>4 DEF Coming, InHand
<1>5. ASSUME NEW spec, NEW m, NEW n,
             \/ AddJob(spec) \/ AddTaggedJob(spec, n) \/ SetUpMachine(spec, m) \/ AddTag
      PROVE  \E task : \E at \in {"insert_task", "insert_tagged", "insert_tag"} : Takes(task, at)
  BY <1>5 DEF AddJob, AddTaggedJob, SetUpMachine, AddTag, Allocate
<1>6. ASSUME NEW spec, NEW n, AddMatrix(spec, n)
      PROVE  Coming' \subseteq {None, next_jid} /\ listener'.matrix \notin InHand'
  <2>1. listener'.at = "matrix" /\ listener'.matrix = next_jid
    BY <1>6 DEF AddMatrix
  <2>2. InHand' = {} /\ Coming' = {next_jid}
    BY <2>1 DEF Coming, InHand
  <2> QED
    BY <2>1, <2>2
<1>7. ASSUME NEW k, NEW m, NEW c, NEW how,
             \/ MakeAvailable(m, c) \/ RemoveAvailable(m) \/ CancelJob(k, how) \/ HoldJob(k)
             \/ UnholdJob(k) \/ AddJobTimeout(k) \/ TagJob(k, c) \/ UntagJob(k) \/ CloneJob(k)
      PROVE  UNCHANGED listener
  BY <1>7 DEF MakeAvailable, RemoveAvailable, CancelJob, HoldJob, UnholdJob, AddJobTimeout,
     TagJob, UntagJob, CloneJob
<1> HIDE DEF Takes
<1>8. Coming' \subseteq {None, next_jid} /\ listener'.matrix \notin InHand'
  <2>1. ASSUME NEW spec, NEW m, NEW n,
               \/ AddJob(spec) \/ AddTaggedJob(spec, n) \/ AddMatrix(spec, n)
               \/ SetUpMachine(spec, m) \/ AddTag
        PROVE  Coming' \subseteq {None, next_jid} /\ listener'.matrix \notin InHand'
    BY <1>3, <1>5, <1>6, <2>1
  <2>2. ASSUME NEW k, NEW m, NEW c, NEW how,
               \/ MakeAvailable(m, c) \/ RemoveAvailable(m) \/ CancelJob(k, how) \/ HoldJob(k)
               \/ UnholdJob(k) \/ AddJobTimeout(k) \/ TagJob(k, c) \/ UntagJob(k) \/ CloneJob(k)
        PROVE  Coming' \subseteq {None, next_jid} /\ listener'.matrix \notin InHand'
    BY <1>4, <1>7, <2>2
  <2> QED
    BY <2>1, <2>2 DEF NewRequest
<1>9. InHand = {}
  BY <1>1 DEF InHand
<1> QED
  BY <1>8, <1>9, BeginIds DEF Begins

(* The later critical sections.                                            *)
LEMMA FinishIds ==
    ASSUME Typing, Apart, Exact, FinishRequest PROVE KeepsIds
<1>1. listener \in Listener /\ next_jid # None
  BY Types, IdsAreNumbers
<1>2. CASE MatrixAllocate
  <2>1. /\ next_jid' = next_jid + 1 /\ UNCHANGED <<tasks, matrices, tags>>
        /\ listener.at = "matrix" /\ listener'.matrix = listener.matrix
        /\ InHand' = {next_jid}
    BY <1>1, <1>2 DEF MatrixAllocate, Resume, Listener, InHand
  <2>2. listener.matrix # next_jid
    BY MoreIssued, <2>1 DEF Typing, ListenerTyped
  <2>3. InHand = {} /\ Coming' \subseteq Coming \cup {next_jid}
    BY <2>1 DEF InHand, Coming
  <2> QED
    BY <2>1, <2>2, <2>3, BeginIds
<1>3. CASE InsertTask \/ InsertTagged
  <2>1. /\ UNCHANGED <<matrices, next_jid>> /\ DOMAIN tags' = DOMAIN tags
        /\ InHand = {listener.jid} /\ listener.jid \in Issued
    BY <1>3 DEF InsertTask, InsertTagged, Resume, InHand, Typing, ListenerTyped
  <2>2. InHand' = {} /\ listener'.matrix \in {listener.matrix, None}
    BY <1>1, <1>3 DEF InsertTask, InsertTagged, Resume, InHand, Listener, IdleListener
  <2>3. DOMAIN tasks' \subseteq DOMAIN tasks \cup {listener.jid}
    BY <1>3 DEF InsertTask, InsertTagged, Put
  <2>4. Issued' = Issued /\ Groups' = Groups /\ None \notin Groups \cup Issued
    BY <2>1, IdsAreNumbers DEF Issued, Groups
  <2>5. Coming' \subseteq Coming \cup {None} /\ listener.jid \notin Coming'
    BY <2>1, <2>2, <2>4 DEF Coming, Apart
  <2>6. JobIds \subseteq JobIds' /\ listener.jid \in JobIds'
    BY <2>1, <2>4, <2>5 DEF JobIds, Apart, Coming
  <2>7. listener.jid \notin JobIds
    BY <2>1 DEF JobIds, Coming
  <2>8. Apart'
    BY <2>1, <2>2, <2>3, <2>4, <2>5, <2>6 DEF Apart
  <2> QED
    BY <2>3, <2>6, <2>7, <2>8 DEF KeepsIds
<1>4. CASE InsertLive
  <2>1. UNCHANGED <<tasks, matrices, tags, next_jid>> /\ InHand = {} /\ InHand' = {}
    BY <1>1, <1>4 DEF InsertLive, Resume, InHand, IdleListener, Listener
  <2>2. listener'.matrix \in {listener.matrix, None}
    BY <1>1, <1>4 DEF InsertLive, IdleListener, Listener
  <2>3. Issued' = Issued /\ Groups' = Groups /\ None \notin Groups \cup Issued
    BY <2>1, IdsAreNumbers DEF Issued, Groups
  <2>4. Coming' \subseteq Coming \cup {None}
    BY <2>1, <2>2 DEF Coming
  <2>5. JobIds \subseteq JobIds'
    BY <2>3, <2>4 DEF JobIds
  <2> QED
    BY <2>1, <2>3, <2>4, <2>5 DEF KeepsIds, Apart
<1>5. CASE PublishMatrix
  <2>1. /\ UNCHANGED <<tasks, tags, next_jid>> /\ InHand = {} /\ InHand' = {}
        /\ DOMAIN matrices' = DOMAIN matrices \cup {listener.matrix}
        /\ listener'.matrix = None
    BY <1>5 DEF PublishMatrix, Resume, InHand, IdleListener, Put
  <2>2. Issued' = Issued /\ Groups' = Groups \cup {listener.matrix}
    BY <2>1 DEF Issued, Groups
  <2>3. Coming = {listener.matrix} /\ Coming' = {None} /\ None \notin Issued
    BY <2>1, IdsAreNumbers DEF Coming
  <2>4. JobIds \subseteq JobIds'
    BY <2>2, <2>3 DEF JobIds
  <2>5. listener.matrix \in Issued
    BY <1>5 DEF PublishMatrix, Resume, Typing, ListenerTyped
  <2>6. None \notin Groups'
    BY <2>2, <2>3, <2>5, IdsAreNumbers DEF Groups
  <2>7. DOMAIN matrices' \cap DOMAIN tags' = {}
    BY <2>1, <2>3 DEF Apart, Groups
  <2> QED
    BY <2>1, <2>2, <2>3, <2>4, <2>6, <2>7 DEF KeepsIds, Apart
<1>6. CASE InsertTag
  <2>1. /\ UNCHANGED <<tasks, matrices, next_jid>> /\ InHand = {listener.jid} /\ InHand' = {}
        /\ DOMAIN tags' = DOMAIN tags \cup {listener.jid}
        /\ listener'.matrix = None /\ listener.jid \in Issued
    BY <1>6 DEF InsertTag, Resume, InHand, IdleListener, Put, Typing, ListenerTyped
  <2>2. Issued' = Issued /\ Groups' = Groups \cup {listener.jid}
    BY <2>1 DEF Issued, Groups
  <2>3. Coming = {listener.matrix, listener.jid} /\ Coming' = {None} /\ None \notin Issued
    BY <2>1, IdsAreNumbers DEF Coming
  <2>4. JobIds \subseteq JobIds'
    BY <2>2, <2>3 DEF JobIds
  <2>5. None \notin Groups'
    BY <2>1, <2>2, <2>3, IdsAreNumbers DEF Groups
  <2>6. DOMAIN matrices' \cap DOMAIN tags' = {}
    BY <2>1, <2>3 DEF Apart, Groups
  <2> QED
    BY <2>1, <2>2, <2>3, <2>4, <2>5, <2>6 DEF KeepsIds, Apart
<1> QED
  BY <1>2, <1>3, <1>4, <1>5, <1>6 DEF FinishRequest

(* So every step keeps the ids of jobs.                                    *)
LEMMA StepIds == ServerHolds /\ Apart /\ [Next]_vars => KeepsIds
<1> SUFFICES ASSUME ServerHolds, Apart, [Next]_vars PROVE KeepsIds
  OBVIOUS
<1>1. Typing /\ Exact
  BY DEF ServerHolds, Grouped
<1>2. Keeps => KeepsIds
  BY <1>1, UnheardIds DEF Keeps
<1>3. Retags => KeepsIds
  BY <1>1, UnheardIds DEF Retags
<1>4. Clones => KeepsIds
  BY <1>1, UnheardIds DEF Clones, InsertClone, Put
<1>5. Reap => KeepsIds
  BY <1>1, UnheardIds DEF Reap, Drop, MatricesWithout
<1> QED
  BY <1>1, <1>2, <1>3, <1>4, <1>5, NewRequestBegins, FinishIds, StepBelongs

-----------------------------------------------------------------------------
(* A task keeps its tag where jobs are not retagged.                       *)
LEMMA TagsKept ==
    ASSUME ServerHolds, NoRetagging, [Next]_vars, NEW k \in DOMAIN tasks, k \in DOMAIN tasks'
    PROVE  tasks'[k].tag = tasks[k].tag
<1>1. Typing /\ Safe
  BY DEF ServerHolds
<1>2. Keeps => tasks'[k].tag = tasks[k].tag
  BY DEF Keeps
<1>3. ~Retags
  BY DEF Retags, NoRetagging
<1>4. Clones => tasks'[k] = tasks[k]
  BY <1>1, NextIdFresh DEF Clones, InsertClone, Put
<1>5. Reap => tasks'[k] = tasks[k]
  BY DEF Reap, Drop
<1>6. Begins => tasks'[k] = tasks[k]
  BY DEF Begins
<1>7. FinishRequest => tasks'[k] = tasks[k]
  BY <1>1 DEF FinishRequest, MatrixAllocate, InsertTask, InsertLive, PublishMatrix, InsertTagged,
     InsertTag, Safe, ListenerFresh, Inserting, Resume, Put
<1> QED
  BY <1>1, <1>2, <1>3, <1>4, <1>5, <1>6, <1>7, StepBelongs

(* A request for a tagged job names a tag that there could be.             *)
LEMMA TaggedRequest ==
    ASSUME Typing, NewRequest, listener'.at = "insert_tagged"
    PROVE  listener'.task.tag \in 0..listener'.jid
<1>1. listener \in Listener
  BY Types
<1>2. listener.at = "idle"
  BY DEF NewRequest, MakeAvailable, RemoveAvailable, CancelJob, HoldJob, UnholdJob,
     AddJobTimeout, TagJob, UntagJob, CloneJob, AddJob, AddTaggedJob, AddMatrix,
     SetUpMachine, AddTag, Handle, Accept
<1>3. ASSUME NEW at, NEW task, at # "insert_tagged", Allocate(at, task) PROVE FALSE
  BY <1>1, <1>3 DEF Allocate, Listener
<1>4. ASSUME NEW spec, NEW m, NEW n, AddJob(spec) \/ SetUpMachine(spec, m) \/ AddTag
                                     \/ AddMatrix(spec, n)
      PROVE  FALSE
  <2>1. AddMatrix(spec, n) => listener'.at = "matrix"
    BY DEF AddMatrix
  <2> QED
    BY <1>3, <1>4, <2>1 DEF AddJob, SetUpMachine, AddTag
<1>5. ASSUME NEW k, NEW m, NEW c, NEW how,
             \/ MakeAvailable(m, c) \/ RemoveAvailable(m) \/ CancelJob(k, how) \/ HoldJob(k)
             \/ UnholdJob(k) \/ AddJobTimeout(k) \/ TagJob(k, c) \/ UntagJob(k) \/ CloneJob(k)
      PROVE  FALSE
  BY <1>2, <1>5 DEF MakeAvailable, RemoveAvailable, CancelJob, HoldJob, UnholdJob, AddJobTimeout,
     TagJob, UntagJob, CloneJob
<1>6. \E spec \in JobSpecs : \E t \in 0..next_jid : AddTaggedJob(spec, t)
  <2>1. ASSUME NEW spec \in JobSpecs, NEW t \in 0..next_jid, AddTaggedJob(spec, t)
        PROVE  \E s \in JobSpecs : \E u \in 0..next_jid : AddTaggedJob(s, u)
    BY <2>1
  <2> QED
    BY <1>4, <1>5, <2>1 DEF NewRequest
<1>7. PICK spec \in JobSpecs : \E t \in 0..next_jid : AddTaggedJob(spec, t)
  BY <1>6
<1>8. PICK t \in 0..next_jid : AddTaggedJob(spec, t)
  BY <1>7
<1>9. listener'.task = NewTask(spec, None, None, t) /\ listener'.jid = next_jid
  BY <1>1, <1>8 DEF AddTaggedJob, Allocate, Listener
<1>10. NewTask(spec, None, None, t).tag = t
  BY DEF NewTask
<1> QED
  BY <1>9, <1>10

(* The later critical sections of a request.                               *)
LEMMA FinishTags ==
    ASSUME ServerHolds, Apart, TagsExact, FinishRequest PROVE TagsExact'
<1>1. /\ Typing /\ listener \in Listener /\ Exact /\ Single /\ Adding
      /\ listener.at \in {"insert_task", "insert_tagged"} => listener.jid \notin DOMAIN tasks
  BY Types DEF ServerHolds, Grouped, Exact, Safe, ListenerFresh, Inserting
<1>2. listener'.at # "insert_tagged"
  <2>1. MatrixAllocate \/ InsertTask => listener'.at \in {"insert_task", "insert_live"}
    BY <1>1 DEF MatrixAllocate, InsertTask, Listener
  <2>2. InsertLive => listener'.at \in {"idle", "matrix"}
    BY <1>1 DEF InsertLive, Listener, IdleListener
  <2>3. PublishMatrix \/ InsertTagged \/ InsertTag => listener'.at = "idle"
    BY DEF PublishMatrix, InsertTagged, InsertTag, IdleListener
  <2> QED
    BY <2>1, <2>2, <2>3 DEF FinishRequest
<1>3. ASSUME UNCHANGED <<tasks, tags>> PROVE TagsExact'
  BY <1>2, <1>3 DEF TagsExact, TagsOwn, Tagged
<1>4. MatrixAllocate \/ InsertLive \/ PublishMatrix => UNCHANGED <<tasks, tags>>
  BY DEF MatrixAllocate, InsertLive, PublishMatrix
<1>5. CASE InsertTask
  <2>1. /\ listener.at = "insert_task" /\ UNCHANGED tags
        /\ tasks' = Put(tasks, listener.jid, listener.task)
    BY <1>5 DEF InsertTask, Resume
  <2>2. listener.task.tag = None
    BY <1>1, <2>1 DEF Single
  <2>3. TagsOwn'
    BY <1>1, <2>1 DEF TagsExact, TagsOwn, Put
  <2>4. \A j \in DOMAIN tasks' : Tagged(tasks'[j], j)
    BY <1>1, <2>1, <2>2 DEF TagsExact, Tagged, Put
  <2> QED
    BY <1>2, <2>3, <2>4 DEF TagsExact, Tagged
<1>6. CASE InsertTagged
  <2> DEFINE t == listener.task.tag
  <2>1. /\ listener.at = "insert_tagged"
        /\ t \in DOMAIN tags =>
              /\ tasks' = Put(tasks, listener.jid, listener.task)
              /\ tags' = [tags EXCEPT ![t] = @ \cup {listener.jid}]
        /\ t \notin DOMAIN tags => UNCHANGED <<tasks, tags>>
    BY <1>6 DEF InsertTagged, Resume
  <2>2. SUFFICES ASSUME t \in DOMAIN tags PROVE TagsExact'
    BY <1>3, <2>1
  <2>3. listener.jid \notin DOMAIN tags /\ listener.jid \in Issued /\ DOMAIN tags \subseteq Issued
    BY <1>1, <2>1, Types DEF Apart, Groups, Coming, InHand, Typing, ListenerTyped, IsMap
  <2>4. t \in 0..listener.jid /\ t # listener.jid
    BY <2>1, <2>2, <2>3 DEF TagsExact
  <2>5. t < listener.jid
    BY <2>3, <2>4, Types, <1>1 DEF Issued
  <2>6. listener.task.matrix = None
    BY <1>1, <2>1 DEF Single, Adding
  <2>7. TagsOwn'
    <3>1. ASSUME NEW g \in DOMAIN tags', NEW k \in tags'[g]
          PROVE  k \in DOMAIN tasks' /\ tasks'[k].tag = g
      <4>1. g \in DOMAIN tags /\ (k \in tags[g] \/ (g = t /\ k = listener.jid))
        BY <2>1, <2>2, <3>1
      <4> QED
        BY <1>1, <2>1, <2>2, <4>1 DEF TagsExact, TagsOwn, Put
    <3> QED
      BY <3>1 DEF TagsOwn
  <2>8. \A j \in DOMAIN tasks' : Tagged(tasks'[j], j)
    BY <1>1, <2>1, <2>2, <2>5, <2>6 DEF TagsExact, Tagged, Put
  <2> QED
    BY <1>2, <2>7, <2>8 DEF TagsExact, Tagged
<1>7. CASE InsertTag
  <2>1. tags' = Put(tags, listener.jid, {}) /\ UNCHANGED tasks
    BY <1>7 DEF InsertTag
  <2>2. TagsOwn'
    BY <2>1 DEF TagsExact, TagsOwn, Put
  <2> QED
    BY <1>2, <2>1, <2>2 DEF TagsExact, Tagged
<1> QED
  BY <1>3, <1>4, <1>5, <1>6, <1>7 DEF FinishRequest

(* Every step.                                                             *)
LEMMA StepTags ==
    ServerHolds /\ Apart /\ TagsExact /\ NoRetagging /\ [Next]_vars => TagsExact'
<1> SUFFICES ASSUME ServerHolds, Apart, TagsExact, NoRetagging, [Next]_vars PROVE TagsExact'
  OBVIOUS
<1>1. Typing /\ next_jid \notin DOMAIN tasks /\ DOMAIN tasks \subseteq Issued
  BY NextIdFresh, Types DEF ServerHolds, IsMap
<1>2. CASE Keeps
  <2>1. \A j \in DOMAIN tasks : Tagged(tasks'[j], j)
    BY <1>2 DEF Keeps, TagsExact, Tagged
  <2>2. TagsOwn'
    BY <1>2 DEF Keeps, TagsExact, TagsOwn
  <2> QED
    BY <1>2, <2>1, <2>2 DEF Keeps, TagsExact, Tagged
<1>3. ~Retags
  BY DEF Retags, NoRetagging
<1>4. CASE Clones
  <2>1. PICK j \in DOMAIN tasks : \E t :
            /\ InsertClone(next_jid, t) /\ next_jid' = next_jid + 1 /\ UNCHANGED listener
            /\ RefsResolve(t) /\ t.matrix = tasks[j].matrix /\ t.tag = tasks[j].tag
    BY <1>4 DEF Clones
  <2>2. PICK t : /\ InsertClone(next_jid, t) /\ UNCHANGED listener
                 /\ t.matrix = tasks[j].matrix /\ t.tag = tasks[j].tag
    BY <2>1
  <2>3. Tagged(tasks[j], j) /\ j < next_jid /\ j \in Nat /\ next_jid \in Nat
    BY <1>1, Types DEF TagsExact, Issued
  <2>4. /\ DOMAIN tasks' = DOMAIN tasks \cup {next_jid} /\ tasks'[next_jid] = t
        /\ \A k \in DOMAIN tasks : tasks'[k] = tasks[k]
    BY <1>1, <2>2 DEF InsertClone, Put
  <2>5. t.tag # None => t.tag < next_jid /\ t.matrix = None
    <3>1. SUFFICES ASSUME t.tag # None PROVE t.tag < next_jid
      BY <2>2, <2>3 DEF Tagged
    <3>2. tasks[j] \in Task
      BY <1>1, Types, MapAt
    <3>3. t.tag \in Nat
      BY <2>2, <3>1, <3>2 DEF Task
    <3> QED
      BY <2>2, <2>3, <3>1, <3>3 DEF Tagged
  <2>6. \A k \in DOMAIN tasks' : Tagged(tasks'[k], k)
    BY <2>4, <2>5 DEF TagsExact, Tagged
  <2>7. TagsOwn'
    BY <2>2, <2>4 DEF TagsExact, TagsOwn, InsertClone
  <2> QED
    BY <2>2, <2>6, <2>7 DEF TagsExact, Tagged
<1>5. CASE Reap
  <2> DEFINE gone == worker.to_remove \cap DOMAIN tasks
  <2>1. /\ UNCHANGED listener
        /\ \/ UNCHANGED <<tasks, tags>>
           \/ /\ tasks' = Drop(tasks, gone)
              /\ tags' = [t \in DOMAIN tags |-> tags[t] \ {j \in gone : tasks[j].tag = t}]
    BY <1>5 DEF Reap
  <2>2. /\ DOMAIN tasks' \subseteq DOMAIN tasks
        /\ \A k \in DOMAIN tasks' : tasks'[k] = tasks[k]
    BY <2>1 DEF Drop
  <2>3. TagsOwn'
    BY <2>1 DEF TagsExact, TagsOwn, Drop
  <2>4. \A j \in DOMAIN tasks' : Tagged(tasks'[j], j)
    BY <2>2 DEF TagsExact, Tagged
  <2> QED
    BY <2>1, <2>3, <2>4 DEF TagsExact, Tagged
<1>6. CASE Begins /\ NewRequest
  <2>1. UNCHANGED <<tasks, tags>>
    BY <1>6 DEF Begins
  <2> QED
    BY <1>1, <1>6, <2>1, TaggedRequest DEF TagsExact, TagsOwn, Tagged
<1> QED
  BY <1>1, <1>2, <1>3, <1>4, <1>5, <1>6, FinishTags, StepBelongs

-----------------------------------------------------------------------------
(* A set of numbers has a least one.                                       *)
LEMMA LeastOf ==
    ASSUME NEW S, S \subseteq Nat, S # {}
    PROVE  Least(S) \in S /\ \A y \in S : Least(S) <= y
<1> DEFINE R == OpToRel(<, Nat)
<1>1. IsWellFoundedOn(R, Nat)
  BY NatLessThanWellFounded
<1>2. \A x, y \in Nat : y < x => <<y, x>> \in R
  BY DEF OpToRel
<1> HIDE DEF R
<1>3. PICK x \in S : \A y \in S : ~(<<y, x>> \in R)
  BY <1>1, WFMin
<1>4. ASSUME NEW y \in S PROVE x <= y
  <2>1. x \in Nat /\ y \in Nat /\ ~(y < x)
    BY <1>2, <1>3
  <2> QED
    BY <2>1
<1> QED
  BY <1>4 DEF Least

(* A set of numbers below some bound has a greatest one.                   *)
LEMMA GreatestOf ==
    ASSUME NEW n \in Nat, NEW S, S \subseteq 0..n, S # {}
    PROVE  Greatest(S) \in S /\ \A y \in S : Greatest(S) >= y
<1> DEFINE T == {n - x : x \in S}
<1>1. T # {}
  OBVIOUS
<1>2. T \subseteq Nat
  <2>1. ASSUME NEW x \in S PROVE n - x \in Nat
    OBVIOUS
  <2> QED
    BY <2>1
<1>3. \A y \in S : n - y \in T
  OBVIOUS
<1>4. \A z \in T : \E x \in S : z = n - x
  OBVIOUS
<1> HIDE DEF T
<1>5. Least(T) \in T /\ \A y \in T : Least(T) <= y
  BY <1>1, <1>2, LeastOf
<1>6. PICK x \in S : Least(T) = n - x
  BY <1>4, <1>5
<1>7. ASSUME NEW y \in S PROVE x >= y
  <2>1. n - x <= n - y /\ x \in Nat /\ y \in Nat
    BY <1>3, <1>5, <1>6
  <2> QED
    BY <2>1
<1> QED
  BY <1>7 DEF Greatest

-----------------------------------------------------------------------------
(* The state of a listing.  What each step of the client changes.          *)
Fields == {"at", "mode", "known", "jids", "running", "matrices", "tags", "asked", "any_tags",
           "specified", "left", "processed_tags", "item", "members", "info"}
Item == [kind : {"matrix", "tag", "job"}, id : Nat, jobs : SUBSET Nat]

SameAnswers == /\ client'.mode = client.mode /\ client'.known = client.known
               /\ client'.jids = client.jids /\ client'.running = client.running
               /\ client'.matrices = client.matrices /\ client'.tags = client.tags
SameAsked   == client'.asked = client.asked /\ client'.any_tags = client.any_tags
SameChoice  == client'.specified = client.specified
SameWork    == /\ client'.left = client.left /\ client'.processed_tags = client.processed_tags
               /\ client'.item = client.item /\ client'.members = client.members
               /\ client'.info = client.info

(* A new listing: nothing is known but the jobs there are.                 *)
LEMMA BeginForm ==
    ASSUME NEW mode, BeginListing(mode)
    PROVE  /\ DOMAIN client' = Fields /\ client'.at = "running" /\ client'.mode = mode
           /\ client'.known = DOMAIN tasks
           /\ client'.jids = {j \in DOMAIN tasks : tasks[j].matrix = None}
           /\ client'.running = {} /\ client'.matrices = EmptyMap /\ client'.tags = {}
           /\ client'.asked = {} /\ client'.any_tags = EmptyMap
           /\ client'.left = {} /\ client'.processed_tags = {} /\ client'.members = {}
           /\ client'.info = << >>
BY DEF BeginListing, IdleClient, Fields

(* The second part of the answer: what is running.                         *)
LEMMA ReadRunningForm ==
    ASSUME DOMAIN client = Fields, ReadRunning
    PROVE  /\ DOMAIN client' = Fields /\ client'.at = "matrices"
           /\ client'.running = {j \in DOMAIN tasks : tasks[j].state = "Running"}
           /\ client'.mode = client.mode /\ client'.known = client.known
           /\ client'.jids = client.jids /\ client'.matrices = client.matrices
           /\ client'.tags = client.tags
           /\ SameAsked /\ SameChoice /\ SameWork
BY DEF ReadRunning, Fields, SameAsked, SameChoice, SameWork

(* The third part: the matrices.                                           *)
LEMMA ReadMatricesForm ==
    ASSUME DOMAIN client = Fields, ReadMatrices
    PROVE  /\ DOMAIN client' = Fields /\ client'.at = "tags" /\ client'.matrices = matrices
           /\ client'.mode = client.mode /\ client'.known = client.known
           /\ client'.jids = client.jids /\ client'.running = client.running
           /\ client'.tags = client.tags
           /\ SameAsked /\ SameChoice /\ SameWork
BY DEF ReadMatrices, Fields, SameAsked, SameChoice, SameWork

(* The fourth part: the tags.                                              *)
LEMMA ReadTagsForm ==
    ASSUME DOMAIN client = Fields, ReadTags
    PROVE  /\ DOMAIN client' = Fields /\ client'.tags = DOMAIN tags
           /\ client'.at = IF client.mode = "suffix_running" THEN "any_tags" ELSE "choose"
           /\ client'.mode = client.mode /\ client'.known = client.known
           /\ client'.jids = client.jids /\ client'.running = client.running
           /\ client'.matrices = client.matrices
           /\ SameAsked /\ SameChoice /\ SameWork
BY DEF ReadTags, Fields, SameAsked, SameChoice, SameWork

(* A running job is asked for its tag.                                     *)
LEMMA AskTagForm ==
    ASSUME DOMAIN client = Fields, AskTag, NEW j, j = Least(client.running \ client.asked)
    PROVE  /\ DOMAIN client' = Fields /\ client'.at = "any_tags"
           /\ client'.asked = client.asked \cup {j}
           /\ client'.any_tags = IF j \in DOMAIN tasks /\ tasks[j].tag # None
                                 THEN Put(client.any_tags, j, tasks[j].tag)
                                 ELSE client.any_tags
           /\ SameAnswers /\ SameChoice /\ SameWork
BY DEF AskTag, Fields, SameAnswers, SameChoice, SameWork

(* All of them have been asked.                                            *)
LEMMA TagsAskedForm ==
    ASSUME DOMAIN client = Fields, TagsAsked
    PROVE  /\ DOMAIN client' = Fields /\ client'.at = "choose"
           /\ SameAnswers /\ SameAsked /\ SameChoice /\ SameWork
BY DEF TagsAsked, Fields, SameAnswers, SameAsked, SameChoice, SameWork

(* What to show is chosen, or `last` has nothing to stand for.             *)
LEMMA ChooseForm ==
    ASSUME DOMAIN client = Fields, ChooseIds
    PROVE  /\ DOMAIN client' = Fields
           /\ client'.processed_tags = client.processed_tags /\ client'.info = client.info
           /\ client'.members = client.members
           /\ SameAnswers /\ SameAsked
           /\ \/ /\ client.mode = "last" /\ Counted = {} /\ client'.at = "done"
                 /\ client'.specified = client.specified /\ client'.left = client.left
              \/ /\ ~(client.mode = "last" /\ Counted = {}) /\ client'.at = "next"
                 /\ client'.specified = Specified /\ client'.left = ToShow
BY DEF ChooseIds, Fields, SameAnswers, SameAsked

(* A matrix, or a tag, of which the members are now to be looked up.       *)
Expands(kind, id, jids) ==
    /\ DOMAIN client' = Fields /\ client'.at = "members" /\ client'.members = jids
    /\ client'.left = client.left \ {Id} /\ client'.info = client.info
    /\ client'.item = [kind |-> kind, id |-> id, jobs |-> {}]
    /\ SameAnswers /\ SameAsked /\ SameChoice

(* A matrix: its members are those of the answer.                          *)
LEMMA ShowMatrixForm ==
    ASSUME DOMAIN client = Fields, ShowMatrix
    PROVE  /\ Expands("matrix", Id, client.matrices[Id])
           /\ client'.processed_tags = client.processed_tags
BY DEF ShowMatrix, Expand, Fields, Expands, SameAnswers, SameAsked, SameChoice

(* A tag: its members are those it has now.                                *)
LEMMA ExpandTagForm ==
    ASSUME DOMAIN client = Fields, NEW t, client' = ExpandTag(t)
    PROVE  /\ Expands("tag", t, tags[t])
           /\ client'.processed_tags = client.processed_tags \cup {t}
BY DEF ExpandTag, Expand, Remember, Fields, Expands, SameAnswers, SameAsked, SameChoice

(* A job is skipped, shown, or found to be one of a tag.                   *)
LEMMA ShowJobForm ==
    ASSUME DOMAIN client = Fields, ShowJob
    PROVE  /\ DOMAIN client' = Fields /\ client'.processed_tags = client.processed_tags
           /\ SameAnswers /\ SameAsked /\ SameChoice
           /\ \/ /\ client'.at = "next" /\ client'.left = client.left \ {Id}
                 /\ \/ /\ Id \notin DOMAIN tasks \/ tasks[Id].tag \in client.processed_tags
                       /\ client'.info = client.info
                    \/ /\ Id \in DOMAIN tasks
                       /\ tasks[Id].tag = None \/ Id \in client.specified
                       /\ client'.info = Append(client.info, [kind |-> "job", id |-> Id,
                                                              jobs |-> {Id}])
              \/ /\ client'.at = "lump" /\ client'.left = client.left
                 /\ client'.info = client.info
                 /\ Id \in DOMAIN tasks /\ Id \notin client.specified
                 /\ tasks[Id].tag \notin client.processed_tags \cup {None}
                 /\ client'.item = tasks[Id].tag
BY DEF ShowJob, Next_, Fields, SameAnswers, SameAsked, SameChoice

(* One of the members is looked up.                                        *)
LEMMA AskMemberForm ==
    ASSUME DOMAIN client = Fields, AskMember, NEW j, j = Least(client.members)
    PROVE  /\ DOMAIN client' = Fields /\ client'.at = "members"
           /\ client'.members = client.members \ {j}
           /\ client'.item = [client.item EXCEPT !.jobs = IF j \in DOMAIN tasks THEN @ \cup {j}
                                                          ELSE @]
           /\ client'.left = client.left /\ client'.processed_tags = client.processed_tags
           /\ client'.info = client.info
           /\ SameAnswers /\ SameAsked /\ SameChoice
BY DEF AskMember, Fields, SameAnswers, SameAsked, SameChoice

(* What has been looked up is listed.                                      *)
LEMMA EndItemForm ==
    ASSUME DOMAIN client = Fields, EndItem
    PROVE  /\ DOMAIN client' = Fields /\ client'.at = "next"
           /\ client'.info = Append(client.info, client.item)
           /\ client'.left = client.left /\ client'.processed_tags = client.processed_tags
           /\ client'.members = client.members
           /\ SameAnswers /\ SameAsked /\ SameChoice
BY DEF EndItem, Fields, SameAnswers, SameAsked, SameChoice

(* Nothing is left.                                                        *)
LEMMA EndListingForm ==
    ASSUME DOMAIN client = Fields, EndListing
    PROVE  /\ DOMAIN client' = Fields /\ client'.at = "done"
           /\ SameAnswers /\ SameAsked /\ SameChoice /\ SameWork
BY DEF EndListing, Fields, SameAnswers, SameAsked, SameChoice, SameWork

(* The steps after ListJobs has been answered.                             *)
LEMMA LaterForm ==
    ASSUME DOMAIN client = Fields,
           \/ AskTag \/ TagsAsked \/ ChooseIds \/ ShowMatrix \/ ShowTag \/ ShowJob \/ Lump
           \/ AskMember \/ EndItem \/ EndListing
    PROVE  /\ DOMAIN client' = Fields /\ SameAnswers
           /\ client.at \notin {"idle", "running", "matrices", "tags"}
           /\ client'.at \notin {"idle", "running", "matrices", "tags"}
<1>1. \/ AskTag \/ TagsAsked \/ ChooseIds \/ ShowJob \/ AskMember \/ EndItem \/ EndListing
      => DOMAIN client' = Fields /\ SameAnswers
         /\ client'.at \notin {"idle", "running", "matrices", "tags"}
  BY AskTagForm, TagsAskedForm, ChooseForm, ShowJobForm, AskMemberForm, EndItemForm,
     EndListingForm
<1>2. ShowMatrix \/ ShowTag \/ Lump
      => DOMAIN client' = Fields /\ SameAnswers /\ client'.at = "members"
  BY ShowMatrixForm, ExpandTagForm DEF ShowTag, Lump, Expands
<1>3. client.at \notin {"idle", "running", "matrices", "tags"}
  BY DEF AskTag, TagsAsked, ChooseIds, ShowMatrix, ShowTag, ShowJob, Lump, AskMember,
     EndItem, EndListing, Next_
<1> QED
  BY <1>1, <1>2, <1>3

-----------------------------------------------------------------------------
(* What the client knows, and for how long it stays true.                  *)
Expanded == UNION {client.matrices[m] : m \in DOMAIN client.matrices}
Jobs     == client.known \cup client.jids \cup client.running \cup Expanded
Queried  == client.at \notin {"idle", "running", "matrices", "tags"}
Chosen   == client.at \in {"next", "lump", "members", "done"}

(* The ids are of jobs, of matrices and of tags; a job that is still there *)
(* belongs to the matrix that it did.                                      *)
Alone(k)   == k \in DOMAIN tasks => tasks[k].matrix = None
Belongs(k) == tasks[k].matrix # None => /\ tasks[k].matrix \in DOMAIN client.matrices
                                        /\ k \in client.matrices[tasks[k].matrix]
KnowsJobs ==
    /\ Jobs \subseteq JobIds /\ DOMAIN client.matrices \subseteq Issued
    /\ \A k \in client.jids : Alone(k)
    /\ \A k \in client.known \cap DOMAIN tasks : tasks[k].matrix = None => k \in client.jids
    /\ \A m \in DOMAIN client.matrices : \A k \in client.matrices[m] \cap DOMAIN tasks :
          tasks[k].matrix = m
    /\ client.at = "tags" \/ Queried =>
          \A k \in (client.known \cup client.running) \cap DOMAIN tasks : Belongs(k)
KnowsKinds ==
    /\ client.at = "tags" \/ Queried => Jobs \cap DOMAIN client.matrices = {}
    /\ client.at = "tags" => DOMAIN client.matrices \cap DOMAIN tags = {}
    /\ Queried => client.tags \cap (Jobs \cup DOMAIN client.matrices) = {}
StartsEmpty == ~Chosen => client.info = << >> /\ client.processed_tags = {}
Knows == /\ DOMAIN client = Fields /\ KnowsJobs /\ KnowsKinds /\ StartsEmpty
         /\ Serving => listener.at = "idle"

(* A job keeps its matrix, and its id.                                     *)
Base == ServerHolds /\ Apart

(* The id of a job stays one, and a job in the table keeps its matrix.     *)
LEMMA JobStays ==
    ASSUME Base, [Next]_vars, NEW k \in JobIds
    PROVE  /\ k \in JobIds'
           /\ k \in DOMAIN tasks' => k \in DOMAIN tasks /\ tasks'[k].matrix = tasks[k].matrix
<1>1. KeepsIds
  BY StepIds DEF Base
<1> QED
  BY <1>1, JobsKept DEF Base, KeepsIds

(* Ids that were handed out stay so.                                       *)
LEMMA IssuedGrows ==
    ASSUME Base, [Next]_vars PROVE Issued \subseteq Issued'
<1>1. Typing
  BY DEF Base, ServerHolds
<1>2. Keeps \/ Retags \/ Clones \/ Reap \/ Begins => next_jid' \in {next_jid, next_jid + 1}
  BY DEF Keeps, Retags, Clones, Reap, Begins
<1>3. FinishRequest => next_jid' \in {next_jid, next_jid + 1}
  BY DEF FinishRequest, MatrixAllocate, InsertTask, InsertLive, PublishMatrix, InsertTagged,
     InsertTag
<1> QED
  BY <1>1, <1>2, <1>3, StepBelongs, MoreIssued

(* While the listener serves ListJobs, it begins nothing else.             *)
LEMMA ServingKeeps ==
    ASSUME Base, ServerMoves, Serving, listener.at = "idle"
    PROVE  listener' = listener /\ DOMAIN tags' = DOMAIN tags
<1>1. WorkThreadStep \/ \E j \in DOMAIN handles \cup copying : Environment(j)
  BY DEF ServerMoves, FinishRequest, MatrixAllocate, InsertTask, InsertLive, PublishMatrix,
     InsertTagged, InsertTag, Resume
<1>2. Keeps \/ Clones \/ Reap
  BY <1>1, OtherBelongs DEF Base, ServerHolds
<1>3. Reap => listener' = listener /\ DOMAIN tags' = DOMAIN tags
  BY DEF Reap
<1> QED
  BY <1>2, <1>3 DEF Keeps, Clones, InsertClone

(* A step of the server leaves what the client knows as true as it was.    *)
LEMMA ServerKeepsKnowing ==
    ASSUME Base, Knows, ServerMoves PROVE Knows'
<1>1. client' = client /\ [Next]_vars
  BY StepOfServer DEF ServerMoves
<1>2. \A k \in JobIds : /\ k \in JobIds'
                        /\ k \in DOMAIN tasks' =>
                             k \in DOMAIN tasks /\ tasks'[k].matrix = tasks[k].matrix
  BY <1>1, JobStays
<1>3. Jobs' = Jobs /\ Jobs \subseteq JobIds
  BY <1>1 DEF Jobs, Expanded, Knows, KnowsJobs
<1>4. Issued \subseteq Issued'
  BY <1>1, IssuedGrows
<1>5. \A k \in client.jids : Alone(k)'
  BY <1>2, <1>3 DEF Jobs, Alone, Knows, KnowsJobs
<1>6. \A m \in DOMAIN client.matrices : \A k \in client.matrices[m] \cap DOMAIN tasks' :
         tasks'[k].matrix = m
  BY <1>2, <1>3 DEF Jobs, Expanded, Knows, KnowsJobs
<1>7. \A k \in client.known \cup client.running : k \in DOMAIN tasks' /\ Belongs(k) => Belongs(k)'
  BY <1>1, <1>2, <1>3 DEF Jobs, Belongs
<1>8. KnowsJobs'
  <2>1. Jobs' \subseteq JobIds' /\ DOMAIN client'.matrices \subseteq Issued'
    BY <1>1, <1>2, <1>3, <1>4 DEF Knows, KnowsJobs
  <2>2. \A k \in client.known \cap DOMAIN tasks' : tasks'[k].matrix = None => k \in client.jids
    BY <1>2, <1>3 DEF Jobs, Knows, KnowsJobs
  <2>3. client.at = "tags" \/ Queried =>
          \A k \in (client.known \cup client.running) \cap DOMAIN tasks' : Belongs(k)'
    BY <1>2, <1>3, <1>7 DEF Jobs, Knows, KnowsJobs
  <2>4. Queried' <=> Queried
    BY <1>1 DEF Queried
  <2> QED
    BY <1>1, <1>5, <1>6, <2>1, <2>2, <2>3, <2>4 DEF KnowsJobs
<1>9. Serving => listener' = listener /\ DOMAIN tags' = DOMAIN tags
  BY ServingKeeps DEF Knows
<1>10. KnowsKinds'
  BY <1>1, <1>3, <1>9 DEF KnowsKinds, Knows, Queried, Serving
<1> QED
  BY <1>1, <1>8, <1>9, <1>10 DEF Knows, StartsEmpty, Chosen, Serving

-----------------------------------------------------------------------------
(* The client's own steps.                                                 *)
LEMMA SameServer ==
    ASSUME UNCHANGED vars
    PROVE  /\ UNCHANGED <<tasks, matrices, tags, listener>>
           /\ JobIds' = JobIds /\ Issued' = Issued
BY DEF vars, shared, JobIds, Issued, Groups, Coming, InHand

(* When the listener answers, every task is in the groups that it names.   *)
LEMMA AnswersAreTrue ==
    ASSUME Base, Answered
    PROVE  /\ listener.at = "idle"
           /\ DOMAIN tasks \subseteq JobIds
           /\ DOMAIN matrices \cap JobIds = {} /\ DOMAIN tags \cap JobIds = {}
           /\ DOMAIN matrices \cap DOMAIN tags = {}
           /\ DOMAIN matrices \subseteq Issued
           /\ \A m \in DOMAIN matrices : \A k \in matrices[m] :
                 k \in DOMAIN tasks /\ tasks[k].matrix = m
           /\ \A k \in DOMAIN tasks : tasks[k].matrix # None =>
                 tasks[k].matrix \in DOMAIN matrices /\ k \in matrices[tasks[k].matrix]
           /\ \A k \in DOMAIN tasks : tasks[k].tag # None =>
                 tasks[k].tag \in DOMAIN tags /\ k \in tags[tasks[k].tag]
<1>1. listener.at = "idle"
  BY DEF Answered
<1>2. listener.matrix = None
  BY <1>1, IdleAddsNothing DEF Base
<1>3. \A k \in DOMAIN tasks : tasks[k].matrix # None =>
         tasks[k].matrix \in DOMAIN matrices /\ k \in matrices[tasks[k].matrix]
  BY <1>2, NamedMatrices DEF Base
<1>4. \A k \in DOMAIN tasks : tasks[k].tag # None =>
         tasks[k].tag \in DOMAIN tags /\ k \in tags[tasks[k].tag]
  BY DEF Base, ServerHolds, Grouped, GroupsListMembers
<1>5. \A m \in DOMAIN matrices : \A k \in matrices[m] : k \in DOMAIN tasks /\ tasks[k].matrix = m
  BY DEF Base, ServerHolds, Grouped, Exact, Members
<1>6. DOMAIN matrices \subseteq Issued
  BY IdsAreNumbers DEF Base, ServerHolds
<1> QED
  BY <1>1, <1>3, <1>4, <1>5, <1>6 DEF Base, Apart, JobIds, Groups

(* A new listing knows of the jobs in the table.                           *)
LEMMA BeginKnows ==
    ASSUME Base, UNCHANGED vars, NEW mode, BeginListing(mode) PROVE Knows'
<1>1. Answered
  BY DEF BeginListing
<1>2. listener' = listener /\ tasks' = tasks /\ JobIds' = JobIds /\ Issued' = Issued
  BY SameServer
<1>3. /\ DOMAIN client' = Fields /\ client'.at = "running" /\ client'.known = DOMAIN tasks
      /\ client'.jids = {j \in DOMAIN tasks : tasks[j].matrix = None}
      /\ client'.running = {} /\ DOMAIN client'.matrices = {}
      /\ client'.info = << >> /\ client'.processed_tags = {}
  BY BeginForm DEF EmptyMap
<1>4. Jobs' \subseteq JobIds
  BY <1>1, <1>3, AnswersAreTrue DEF Jobs, Expanded
<1>5. KnowsJobs'
  BY <1>2, <1>3, <1>4 DEF KnowsJobs, Alone, Queried
<1>6. KnowsKinds' /\ StartsEmpty'
  BY <1>3 DEF KnowsKinds, StartsEmpty, Queried
<1> QED
  BY <1>1, <1>2, <1>3, <1>5, <1>6, AnswersAreTrue DEF Knows

(* Running jobs are in the table.                                          *)
LEMMA ReadRunningKnows ==
    ASSUME Base, Knows, UNCHANGED vars, ReadRunning PROVE Knows'
<1>1. Answered
  BY DEF ReadRunning
<1>2. listener' = listener /\ tasks' = tasks /\ JobIds' = JobIds /\ Issued' = Issued
  BY SameServer
<1>3. /\ DOMAIN client' = Fields /\ client'.at = "matrices" /\ client'.known = client.known
      /\ client'.jids = client.jids /\ client'.matrices = client.matrices
      /\ client'.running \subseteq DOMAIN tasks
      /\ client'.info = client.info /\ client'.processed_tags = client.processed_tags
  BY ReadRunningForm DEF Knows, SameWork
<1>4. Jobs' \subseteq JobIds
  BY <1>1, <1>3, AnswersAreTrue DEF Jobs, Expanded, Knows, KnowsJobs
<1>5. KnowsJobs'
  BY <1>2, <1>3, <1>4 DEF Knows, KnowsJobs, Alone, Queried
<1>6. KnowsKinds'
  BY <1>3 DEF KnowsKinds, Queried
<1>7. ~Chosen
  BY DEF ReadRunning, Chosen
<1> QED
  BY <1>1, <1>2, <1>3, <1>5, <1>6, <1>7, AnswersAreTrue DEF Knows, StartsEmpty

(* Matrices list the jobs that name them, and all of those.                *)
LEMMA ReadMatricesKnows ==
    ASSUME Base, Knows, UNCHANGED vars, ReadMatrices PROVE Knows'
<1>1. Answered
  BY DEF ReadMatrices
<1>2. /\ listener' = listener /\ tasks' = tasks /\ tags' = tags
      /\ JobIds' = JobIds /\ Issued' = Issued
  BY SameServer
<1>3. /\ DOMAIN client' = Fields /\ client'.at = "tags" /\ client'.known = client.known
      /\ client'.jids = client.jids /\ client'.matrices = matrices
      /\ client'.running = client.running
      /\ client'.info = client.info /\ client'.processed_tags = client.processed_tags
  BY ReadMatricesForm DEF Knows, SameWork
<1>4. Expanded' \subseteq DOMAIN tasks
  BY <1>1, <1>3, AnswersAreTrue DEF Expanded
<1>5. Jobs' \subseteq JobIds
  BY <1>1, <1>3, <1>4, AnswersAreTrue DEF Jobs, Knows, KnowsJobs
<1>6. \A k \in DOMAIN tasks : Belongs(k)'
  BY <1>1, <1>2, <1>3, AnswersAreTrue DEF Belongs
<1>7. KnowsJobs'
  <2>1. DOMAIN client'.matrices \subseteq Issued'
    BY <1>1, <1>2, <1>3, AnswersAreTrue
  <2>2. \A k \in client'.jids : Alone(k)'
    BY <1>2, <1>3 DEF Knows, KnowsJobs, Alone
  <2>3. \A m \in DOMAIN client'.matrices : \A k \in client'.matrices[m] \cap DOMAIN tasks' :
           tasks'[k].matrix = m
    BY <1>1, <1>2, <1>3, AnswersAreTrue
  <2>4. \A k \in client'.known \cap DOMAIN tasks' : tasks'[k].matrix = None => k \in client'.jids
    BY <1>2, <1>3 DEF Knows, KnowsJobs
  <2> QED
    BY <1>2, <1>5, <1>6, <2>1, <2>2, <2>3, <2>4 DEF KnowsJobs
<1>8. KnowsKinds'
  BY <1>1, <1>2, <1>3, <1>5, AnswersAreTrue DEF KnowsKinds, Queried
<1>9. ~Chosen
  BY DEF ReadMatrices, Chosen
<1> QED
  BY <1>1, <1>2, <1>3, <1>7, <1>8, <1>9, AnswersAreTrue DEF Knows, StartsEmpty

(* Tags are neither jobs nor matrices.                                     *)
LEMMA ReadTagsKnows ==
    ASSUME Base, Knows, UNCHANGED vars, ReadTags PROVE Knows'
<1>1. Answered /\ client.at = "tags"
  BY DEF ReadTags
<1>2. /\ tasks' = tasks /\ tags' = tags /\ JobIds' = JobIds /\ Issued' = Issued
  BY SameServer
<1>3. /\ DOMAIN client' = Fields /\ client'.at \in {"any_tags", "choose"}
      /\ client'.known = client.known /\ client'.jids = client.jids
      /\ client'.matrices = client.matrices /\ client'.running = client.running
      /\ client'.tags = DOMAIN tags
      /\ client'.info = client.info /\ client'.processed_tags = client.processed_tags
  BY ReadTagsForm DEF Knows, SameWork
<1>4. Jobs' = Jobs /\ Jobs \subseteq JobIds
  BY <1>3 DEF Jobs, Expanded, Knows, KnowsJobs
<1>5. KnowsJobs'
  BY <1>1, <1>2, <1>3, <1>4 DEF Knows, KnowsJobs, Alone, Belongs
<1>6. KnowsKinds'
  BY <1>1, <1>3, <1>4, AnswersAreTrue DEF Knows, KnowsKinds
<1>7. ~Chosen
  BY DEF ReadTags, Chosen
<1> QED
  BY <1>3, <1>5, <1>6, <1>7 DEF Knows, StartsEmpty, Serving

(* ListJobs has been answered, and nothing is forgotten.                   *)
LEMMA LaterKnows ==
    ASSUME Base, Knows, UNCHANGED vars,
           \/ AskTag \/ TagsAsked \/ ChooseIds \/ ShowMatrix \/ ShowTag \/ ShowJob \/ Lump
           \/ AskMember \/ EndItem \/ EndListing
    PROVE  Knows'
<1>1. /\ tasks' = tasks /\ tags' = tags /\ JobIds' = JobIds /\ Issued' = Issued
  BY SameServer
<1>2. DOMAIN client' = Fields /\ SameAnswers /\ Queried /\ Queried'
  BY LaterForm DEF Knows, Queried
<1>3. Jobs' = Jobs
  BY <1>2 DEF SameAnswers, Jobs, Expanded
<1>4. KnowsJobs' /\ KnowsKinds'
  BY <1>1, <1>2, <1>3 DEF SameAnswers, Knows, KnowsJobs, KnowsKinds, Alone, Belongs, Queried
<1>5. AskTag \/ TagsAsked => ~Chosen /\ client'.info = client.info
                             /\ client'.processed_tags = client.processed_tags
  BY AskTagForm, TagsAskedForm DEF Knows, AskTag, TagsAsked, Chosen, SameWork
<1>6. ChooseIds \/ ShowJob \/ AskMember \/ EndItem \/ EndListing => Chosen'
  BY ChooseForm, ShowJobForm, AskMemberForm, EndItemForm, EndListingForm DEF Knows, Chosen
<1>7. ShowMatrix \/ ShowTag \/ Lump => Chosen'
  BY ShowMatrixForm, ExpandTagForm DEF Knows, ShowTag, Lump, Expands, Chosen
<1>8. StartsEmpty'
  BY <1>5, <1>6, <1>7 DEF Knows, StartsEmpty
<1> QED
  BY <1>2, <1>4, <1>8 DEF Knows, Queried, Serving

(* Base and Knows are inductive.                                           *)
LEMMA InitKnows == ClientInit => Base /\ Knows
<1> SUFFICES ASSUME ClientInit PROVE Base /\ Knows
  OBVIOUS
<1>1. ServerHolds
  BY InitServerHolds DEF ClientInit
<1>2. Apart
  BY NoneAssumption DEF ClientInit, Init, Apart, JobIds, Groups, Coming, InHand, EmptyMap,
     IdleListener
<1>3. /\ DOMAIN client = Fields /\ client.at = "idle" /\ client.known = {}
      /\ client.jids = {} /\ client.running = {} /\ DOMAIN client.matrices = {}
      /\ client.info = << >> /\ client.processed_tags = {}
  BY DEF ClientInit, IdleClient, EmptyMap, Fields
<1>4. Jobs = {}
  BY <1>3 DEF Jobs, Expanded
<1>5. KnowsJobs /\ KnowsKinds /\ StartsEmpty
  BY <1>3, <1>4 DEF KnowsJobs, KnowsKinds, StartsEmpty, Queried
<1> QED
  BY <1>1, <1>2, <1>3, <1>5 DEF Base, Knows, Serving

(* Every step of the client or of the server keeps them.                   *)
LEMMA StepKnows == Base /\ Knows /\ [ClientNext]_clientVars => Base' /\ Knows'
<1> SUFFICES ASSUME Base, Knows, [ClientNext]_clientVars PROVE Base' /\ Knows'
  OBVIOUS
<1>1. [Next]_vars
  BY StepOfServer
<1>2. Base'
  BY <1>1, NextServerHolds, StepIds DEF Base, KeepsIds
<1>3. CASE UNCHANGED clientVars
  <2>1. UNCHANGED vars /\ client' = client
    BY <1>3 DEF clientVars
  <2>2. Jobs' = Jobs
    BY <2>1 DEF Jobs, Expanded
  <2>3. KnowsJobs' /\ KnowsKinds'
    BY <2>1, <2>2, SameServer DEF Knows, KnowsJobs, KnowsKinds, Alone, Belongs, Queried
  <2>4. listener' = listener
    BY <2>1, SameServer
  <2> QED
    BY <1>2, <2>1, <2>3, <2>4 DEF Knows, StartsEmpty, Chosen, Serving
<1>4. CASE Listing /\ UNCHANGED vars
  <2>1. ASSUME NEW mode, BeginListing(mode) PROVE Knows'
    BY <1>4, <2>1, BeginKnows
  <2> QED
    BY <1>2, <1>4, <2>1, ReadRunningKnows, ReadMatricesKnows, ReadTagsKnows, LaterKnows
       DEF Listing
<1> QED
  BY <1>2, <1>3, <1>4, StepOfServer, ServerKeepsKnowing

-----------------------------------------------------------------------------
(* What the client works through are numbers.                              *)
Numbers == /\ client.mode \in {"suffix", "suffix_running", "last"}
           /\ client.left \subseteq Nat /\ client.processed_tags \subseteq Nat
           /\ client.members \subseteq Nat /\ client.info \in Seq(Item)
           /\ client.at = "members" => client.item \in Item
           /\ client.at = "lump" => client.item \in Nat /\ client.left # {}
           /\ \A k \in DOMAIN client.any_tags : client.any_tags[k] \in Nat

(* All the ids that the client has been given are numbers below the next.  *)
LEMMA IssuedNumbers ==
    ASSUME Base, Knows
    PROVE  /\ next_jid \in Nat /\ Issued \subseteq 0..next_jid /\ Issued \subseteq Nat
           /\ Jobs \subseteq Issued /\ Counted \subseteq Issued
           /\ client.jids \subseteq Issued /\ client.running \subseteq Issued
           /\ \A m \in DOMAIN client.matrices : m \in Issued /\ client.matrices[m] \subseteq Issued
<1>1. next_jid \in Nat
  BY Types DEF Base, ServerHolds
<1>2. Issued \subseteq 0..next_jid /\ Issued \subseteq Nat
  BY <1>1 DEF Issued
<1>3. Jobs \subseteq Issued
  BY DEF Knows, KnowsJobs, JobIds
<1>4. Counted \subseteq Issued
  BY <1>3 DEF Counted, Knows, KnowsJobs, Jobs
<1> QED
  BY <1>1, <1>2, <1>3, <1>4 DEF Jobs, Expanded, Knows, KnowsJobs

(* The first of the ids that are left.                                     *)
LEMMA IdIsLeft ==
    ASSUME client.left \subseteq Nat, client.left # {}
    PROVE  Id \in client.left /\ Id \in Nat /\ \A x \in client.left : Id <= x
BY LeastOf DEF Id

(* The newest job: none of those in the answer is newer.  A matrix without *)
(* jobs counts as job 0.                                                   *)
HasJobs(ms) == \E m \in DOMAIN ms : ms[m] # {}

LEMMA NewestOf ==
    ASSUME Base, Knows, Counted # {}
    PROVE  /\ Newest \in Nat
           /\ \A j \in client.jids : j <= Newest
           /\ \A m \in DOMAIN client.matrices : \A k \in client.matrices[m] : k <= Newest
           /\ client.jids # {} \/ HasJobs(client.matrices) => Newest \in Jobs
<1> DEFINE top(m) == IF client.matrices[m] = {} THEN 0 ELSE Greatest(client.matrices[m])
           S == client.jids \cup {top(m) : m \in DOMAIN client.matrices}
<1>1. ASSUME NEW m \in DOMAIN client.matrices
      PROVE  /\ top(m) \in 0..next_jid
             /\ client.matrices[m] # {} => top(m) \in client.matrices[m]
             /\ \A k \in client.matrices[m] : k <= top(m)
  <2>1. next_jid \in Nat /\ client.matrices[m] \subseteq 0..next_jid
    BY IssuedNumbers
  <2>2. client.matrices[m] # {} => /\ Greatest(client.matrices[m]) \in client.matrices[m]
                                   /\ \A k \in client.matrices[m] :
                                         Greatest(client.matrices[m]) >= k
    BY <2>1, GreatestOf
  <2> QED
    BY <2>1, <2>2
<1>2. Newest = Greatest(S)
  BY DEF Newest
<1>3. client.jids \subseteq 0..next_jid /\ next_jid \in Nat
  BY IssuedNumbers
<1> HIDE DEF top
<1>4. S \subseteq 0..next_jid
  BY <1>1, <1>3
<1>5. S # {}
  BY DEF Counted
<1>6. /\ \A m \in DOMAIN client.matrices : top(m) \in S
      /\ client.jids \subseteq S
      /\ \A x \in S : x \in client.jids \/ \E m \in DOMAIN client.matrices : x = top(m)
  OBVIOUS
<1> HIDE DEF S
<1>7. Newest \in S /\ \A y \in S : Newest >= y
  BY <1>2, <1>3, <1>4, <1>5, GreatestOf
<1>8. ASSUME NEW m \in DOMAIN client.matrices, NEW k \in client.matrices[m]
      PROVE  k <= Newest
  <2>1. k <= top(m) /\ top(m) <= Newest /\ k \in Nat /\ top(m) \in Nat /\ Newest \in Nat
    BY <1>1, <1>4, <1>6, <1>7, IssuedNumbers
  <2> QED
    BY <2>1
<1>9. Newest \in Nat /\ \A j \in client.jids : j <= Newest
  <2>1. S \subseteq Nat
    BY <1>3, <1>4
  <2>2. Newest \in Nat
    BY <1>7, <2>1
  <2>3. ASSUME NEW j \in client.jids PROVE j <= Newest
    <3>1. j \in Nat /\ Newest >= j
      BY <1>3, <1>6, <1>7
    <3> QED
      BY <2>2, <3>1
  <2> QED
    BY <2>2, <2>3
<1>10. ASSUME client.jids # {} \/ HasJobs(client.matrices) PROVE Newest \in Jobs
  <2>1. PICK x \in Jobs : x \in Nat /\ x <= Newest
    <3>1. CASE client.jids # {}
      <4>1. PICK x \in client.jids : TRUE
        BY <3>1
      <4> QED
        BY <1>3, <1>9, <4>1 DEF Jobs
    <3>2. CASE HasJobs(client.matrices)
      <4>1. PICK m \in DOMAIN client.matrices : client.matrices[m] # {}
        BY <3>2 DEF HasJobs
      <4>2. PICK x \in client.matrices[m] : TRUE
        BY <4>1
      <4> QED
        BY <1>8, <4>1, <4>2, IssuedNumbers DEF Jobs, Expanded
    <3> QED
      BY <1>10, <3>1, <3>2
  <2>2. Newest = 0 => x = Newest
    BY <2>1
  <2>3. Newest \in client.jids \/ \E m \in DOMAIN client.matrices : Newest = top(m)
    BY <1>6, <1>7
  <2>4. CASE Newest \in client.jids
    BY <2>4 DEF Jobs
  <2>5. ASSUME NEW m \in DOMAIN client.matrices, Newest = top(m) PROVE Newest \in Jobs
    <3>1. client.matrices[m] = {} => top(m) = 0
      BY DEF top
    <3> QED
      BY <1>1, <2>1, <2>2, <2>5, <3>1 DEF Jobs, Expanded
  <2> QED
    BY <2>3, <2>4, <2>5
<1> QED
  BY <1>8, <1>9, <1>10

(* The matrix a running job is shown as is one that lists it.              *)
LEMMA ShownAsForm ==
    ASSUME Base, Knows, NEW j
    PROVE  \/ /\ ShownAs(j) \in DOMAIN client.matrices
              /\ j \in client.matrices[ShownAs(j)]
           \/ /\ \A m \in DOMAIN client.matrices : j \notin client.matrices[m]
              /\ \/ j \in DOMAIN client.any_tags /\ ShownAs(j) = client.any_tags[j]
                 \/ j \notin DOMAIN client.any_tags /\ ShownAs(j) = j
<1> DEFINE of == {m \in DOMAIN client.matrices : j \in client.matrices[m]}
<1>1. ShownAs(j) = IF of # {} THEN Least(of)
                   ELSE IF j \in DOMAIN client.any_tags THEN client.any_tags[j] ELSE j
  BY DEF ShownAs
<1>2. of \subseteq Nat
  BY IssuedNumbers
<1>3. of # {} => Least(of) \in of
  BY <1>2, LeastOf
<1> QED
  BY <1>1, <1>3

(* What is chosen to be shown.                                             *)
LEMMA ChosenNumbers ==
    ASSUME Base, Knows, Numbers, ~(client.mode = "last" /\ Counted = {})
    PROVE  ToShow \subseteq Nat
<1>1. Selected \subseteq Nat
  BY IssuedNumbers DEF Selected
<1>2. ASSUME NEW j \in client.running PROVE ShownAs(j) \in Nat
  BY <1>2, IssuedNumbers, ShownAsForm DEF Numbers
<1>3. client.mode = "last" => Newest \in Nat
  BY NewestOf
<1>4. CASE client.mode = "last"
  BY <1>1, <1>3, <1>4 DEF Specified, ToShow
<1>5. CASE client.mode = "suffix_running"
  BY <1>1, <1>2, <1>5 DEF Specified, ToShow
<1>6. CASE client.mode = "suffix"
  BY <1>1, <1>6 DEF Specified, ToShow
<1> QED
  BY <1>4, <1>5, <1>6 DEF Numbers

(* Every step of the client leaves numbers.                                *)
LEMMA ReadNumbers ==
    ASSUME Base, Knows, Numbers, UNCHANGED vars,
           ReadRunning \/ ReadMatrices \/ ReadTags \/ TagsAsked \/ EndListing
    PROVE  Numbers'
<1>1. /\ client'.mode = client.mode /\ client'.at \notin {"members", "lump"}
      /\ SameAsked /\ SameWork
  BY ReadRunningForm, ReadMatricesForm, ReadTagsForm, TagsAskedForm, EndListingForm
     DEF Knows, SameAnswers
<1> QED
  BY <1>1 DEF Numbers, SameAsked, SameWork

(* Tags are numbers.                                                       *)
LEMMA AskTagNumbers ==
    ASSUME Base, Knows, Numbers, UNCHANGED vars, AskTag PROVE Numbers'
<1> DEFINE j == Least(client.running \ client.asked)
<1>1. /\ client'.at = "any_tags" /\ SameAnswers /\ SameWork
      /\ client'.any_tags = IF j \in DOMAIN tasks /\ tasks[j].tag # None
                            THEN Put(client.any_tags, j, tasks[j].tag) ELSE client.any_tags
  BY AskTagForm DEF Knows
<1>2. ASSUME j \in DOMAIN tasks, tasks[j].tag # None PROVE tasks[j].tag \in Nat
  <2>1. tasks[j] \in Task
    BY <1>2, Types, MapAt DEF Base, ServerHolds
  <2> QED
    BY <1>2, <2>1 DEF Task
<1> HIDE DEF j
<1>3. \A k \in DOMAIN client'.any_tags : client'.any_tags[k] \in Nat
  BY <1>1, <1>2 DEF Numbers, Put
<1> QED
  BY <1>1, <1>3 DEF Numbers, SameAnswers, SameWork

(* What is left to show after the choice.                                  *)
LEMMA ChooseNumbers ==
    ASSUME Base, Knows, Numbers, ChooseIds PROVE Numbers'
<1>1. /\ client'.at \in {"done", "next"} /\ client'.mode = client.mode
      /\ client'.processed_tags = client.processed_tags /\ client'.info = client.info
      /\ client'.members = client.members /\ client'.any_tags = client.any_tags
      /\ \/ client'.left = client.left
         \/ ~(client.mode = "last" /\ Counted = {}) /\ client'.left = ToShow
  BY ChooseForm DEF Knows, SameAnswers, SameAsked
<1>2. client'.left \subseteq Nat
  BY <1>1, ChosenNumbers DEF Numbers
<1> QED
  BY <1>1, <1>2 DEF Numbers

(* The members of matrices and of tags.                                    *)
LEMMA ExpandNumbers ==
    ASSUME Base, Knows, Numbers, ShowMatrix \/ ShowTag \/ Lump PROVE Numbers'
<1>1. ASSUME NEW kind \in {"matrix", "tag"}, NEW id \in Nat, NEW jids \in SUBSET Nat,
             Expands(kind, id, jids), client'.processed_tags \subseteq Nat
      PROVE  Numbers'
  BY <1>1 DEF Expands, Numbers, Item, SameAnswers, SameAsked
<1>2. DOMAIN client = Fields /\ client.left \subseteq Nat /\ client.processed_tags \subseteq Nat
  BY DEF Knows, Numbers
<1>3. ASSUME NEW t \in DOMAIN tags PROVE t \in Nat /\ tags[t] \in SUBSET Nat
  BY Types, MapAt, IssuedNumbers DEF Base, ServerHolds
<1>4. CASE ShowMatrix
  <2>1. client.left # {} /\ Id \in DOMAIN client.matrices
    BY <1>4 DEF ShowMatrix, Next_
  <2>2. Id \in Nat /\ client.matrices[Id] \in SUBSET Nat
    BY <2>1, IssuedNumbers
  <2> QED
    BY <1>1, <1>2, <1>4, <2>2, ShowMatrixForm
<1>5. CASE ShowTag
  <2>1. Id \in DOMAIN tags /\ client' = ExpandTag(Id)
    BY <1>5 DEF ShowTag
  <2> QED
    BY <1>1, <1>2, <1>3, <2>1, ExpandTagForm
<1>6. CASE Lump
  <2>1. client.item \in DOMAIN tags /\ client' = ExpandTag(client.item)
    BY <1>6 DEF Lump
  <2> QED
    BY <1>1, <1>2, <1>3, <2>1, ExpandTagForm
<1> QED
  BY <1>4, <1>5, <1>6

(* A job that is shown, or its tag.                                        *)
LEMMA ShowJobNumbers ==
    ASSUME Base, Knows, Numbers, ShowJob PROVE Numbers'
<1>1. DOMAIN client = Fields /\ client.left # {} /\ client.at = "next"
  BY DEF Knows, ShowJob, Next_
<1>2. Id \in Nat
  BY <1>1, IdIsLeft DEF Numbers
<1>3. [kind |-> "job", id |-> Id, jobs |-> {Id}] \in Item
  BY <1>2 DEF Item
<1>4. ASSUME Id \in DOMAIN tasks, tasks[Id].tag # None PROVE tasks[Id].tag \in Nat
  <2>1. tasks[Id] \in Task
    BY <1>4, Types, MapAt DEF Base, ServerHolds
  <2> QED
    BY <1>4, <2>1 DEF Task
<1>5. /\ client'.left \subseteq client.left /\ client'.at \in {"next", "lump"}
      /\ \/ client'.info = client.info
         \/ client'.info = Append(client.info, [kind |-> "job", id |-> Id, jobs |-> {Id}])
      /\ client'.at = "lump" => /\ client'.left = client.left
                                /\ client'.item = tasks[Id].tag /\ Id \in DOMAIN tasks
                                /\ tasks[Id].tag # None
      /\ client'.processed_tags = client.processed_tags
      /\ client'.any_tags = client.any_tags /\ client'.mode = client.mode
  BY <1>1, ShowJobForm DEF SameAnswers, SameAsked
<1>6. client'.info \in Seq(Item)
  BY <1>3, <1>5 DEF Numbers
<1>7. client'.members = client.members
  BY <1>1 DEF ShowJob, Next_, Fields
<1> QED
  BY <1>1, <1>4, <1>5, <1>6, <1>7 DEF Numbers

(* Asking about one more member of what is shown.                          *)
LEMMA AskedMember ==
    ASSUME Knows, Numbers, AskMember, NEW j, j = Least(client.members)
    PROVE  /\ j \in client.members /\ j \in Nat /\ client.item \in Item
           /\ client'.item \in Item
           /\ client'.item.kind = client.item.kind /\ client'.item.id = client.item.id
           /\ client'.item.jobs = IF j \in DOMAIN tasks THEN client.item.jobs \cup {j}
                                  ELSE client.item.jobs
<1>1. client.members # {} /\ client.at = "members"
  BY DEF AskMember
<1>2. j \in client.members /\ j \in Nat
  BY <1>1, LeastOf DEF Numbers
<1>3. client.item \in Item
  BY <1>1 DEF Numbers
<1>4. client'.item = [client.item EXCEPT !.jobs = IF j \in DOMAIN tasks THEN @ \cup {j} ELSE @]
  BY AskMemberForm DEF Knows
<1> QED
  BY <1>2, <1>3, <1>4 DEF Item

(* What is being looked up.                                                *)
LEMMA MemberNumbers ==
    ASSUME Base, Knows, Numbers, AskMember \/ EndItem PROVE Numbers'
<1>1. DOMAIN client = Fields
  BY DEF Knows
<1>2. CASE AskMember
  <2> DEFINE j == Least(client.members)
  <2>1. client'.item \in Item
    BY <1>2, AskedMember
  <2>2. /\ client'.members = client.members \ {j} /\ client'.left = client.left
        /\ client'.processed_tags = client.processed_tags /\ client'.info = client.info
        /\ client'.at = "members" /\ SameAnswers /\ SameAsked
    BY <1>1, <1>2, AskMemberForm
  <2> QED
    BY <2>1, <2>2 DEF Numbers, SameAnswers, SameAsked
<1>3. CASE EndItem
  <2>1. client.item \in Item
    BY <1>3 DEF Numbers, EndItem
  <2>2. /\ client'.at = "next" /\ client'.info = Append(client.info, client.item)
        /\ client'.left = client.left /\ client'.processed_tags = client.processed_tags
        /\ client'.members = client.members /\ SameAnswers /\ SameAsked
    BY <1>1, <1>3, EndItemForm
  <2>3. client'.info \in Seq(Item)
    BY <2>1, <2>2 DEF Numbers
  <2> QED
    BY <2>2, <2>3 DEF Numbers, SameAnswers, SameAsked
<1> QED
  BY <1>2, <1>3

(* Every step leaves numbers.                                              *)
LEMMA StepNumbers == Base /\ Knows /\ Numbers /\ [ClientNext]_clientVars => Numbers'
<1> SUFFICES ASSUME Base, Knows, Numbers, [ClientNext]_clientVars PROVE Numbers'
  OBVIOUS
<1>1. client' = client => Numbers'
  BY DEF Numbers
<1>2. ASSUME NEW mode \in Modes, BeginListing(mode) PROVE Numbers'
  <2>1. /\ client'.at = "running" /\ client'.mode = mode /\ DOMAIN client'.any_tags = {}
        /\ client'.left = {} /\ client'.processed_tags = {} /\ client'.members = {}
        /\ client'.info = << >>
    BY <1>2, BeginForm DEF EmptyMap
  <2>2. mode \in {"suffix", "suffix_running", "last"}
    BY ClientAssumption
  <2>3. << >> \in Seq(Item)
    OBVIOUS
  <2> QED
    BY <2>1, <2>2, <2>3 DEF Numbers
<1>3. Listing /\ UNCHANGED vars => Numbers'
  BY <1>2, ReadNumbers, AskTagNumbers, ChooseNumbers, ExpandNumbers, ShowJobNumbers,
     MemberNumbers DEF Listing
<1> QED
  BY <1>1, <1>3, StepOfServer DEF ServerMoves, clientVars

-----------------------------------------------------------------------------
(* A job keeps the tag that it had when the client was told of it.         *)
KnowsTags ==
    /\ Queried => \A k \in (client.known \cup client.running) \cap DOMAIN tasks :
                     tasks[k].tag \in client.tags \cup {None}
    /\ client.asked \subseteq client.running
    /\ DOMAIN client.any_tags \subseteq client.asked
    /\ \A k \in DOMAIN client.any_tags : client.any_tags[k] \in client.tags
    /\ \A k \in DOMAIN client.any_tags \cap DOMAIN tasks : tasks[k].tag = client.any_tags[k]
    /\ \A k \in client.asked \cap DOMAIN tasks :
          tasks[k].tag # None => k \in DOMAIN client.any_tags
    /\ ~Queried => client.asked = {}
    /\ client.at = "choose" /\ client.mode = "suffix_running"
          => client.running \subseteq client.asked

(* The server moves: no job gets another tag.                              *)
LEMMA ServerKeepsTags ==
    ASSUME Base, NoRetagging, Knows, KnowsTags, [Next]_vars, client' = client
    PROVE  KnowsTags'
<1>1. client.known \cup client.running \subseteq JobIds
  BY DEF Knows, KnowsJobs, Jobs
<1>2. \A k \in client.known \cup client.running : k \in DOMAIN tasks' =>
         k \in DOMAIN tasks /\ tasks'[k].tag = tasks[k].tag
  BY <1>1, JobStays, TagsKept DEF Base
<1> QED
  BY <1>2 DEF KnowsTags, Queried

(* A new listing knows of no tag.                                          *)
LEMMA BeginTags ==
    ASSUME NEW mode, BeginListing(mode) PROVE KnowsTags'
<1>1. /\ client'.at = "running" /\ client'.asked = {} /\ DOMAIN client'.any_tags = {}
      /\ client'.running = {}
  BY BeginForm DEF EmptyMap
<1> QED
  BY <1>1 DEF KnowsTags, Queried

(* Nor do the first parts of the answer tell of one.                       *)
LEMMA ReadingTags ==
    ASSUME Base, Knows, KnowsTags, UNCHANGED vars, ReadRunning \/ ReadMatrices PROVE KnowsTags'
<1>1. ~Queried
  BY DEF ReadRunning, ReadMatrices, Queried
<1>2. client'.at \in {"matrices", "tags"} /\ client'.tags = client.tags /\ SameAsked
  BY ReadRunningForm, ReadMatricesForm DEF Knows
<1>3. client.asked = {} /\ DOMAIN client.any_tags = {}
  BY <1>1 DEF KnowsTags
<1> QED
  BY <1>2, <1>3 DEF KnowsTags, SameAsked, Queried

(* When tags are read, every tagged job has its tag there.                 *)
LEMMA ReadTagsTags ==
    ASSUME Base, Knows, KnowsTags, UNCHANGED vars, ReadTags PROVE KnowsTags'
<1>1. Answered /\ ~Queried
  BY DEF ReadTags, Queried
<1>2. /\ client'.at = IF client.mode = "suffix_running" THEN "any_tags" ELSE "choose"
      /\ client'.tags = DOMAIN tags /\ client'.mode = client.mode /\ SameAsked
      /\ client'.running = client.running
  BY ReadTagsForm DEF Knows
<1>3. client.asked = {} /\ DOMAIN client.any_tags = {}
  BY <1>1 DEF KnowsTags
<1>4. \A k \in DOMAIN tasks : tasks[k].tag \in DOMAIN tags \cup {None}
  BY <1>1, AnswersAreTrue
<1>5. tasks' = tasks
  BY SameServer
<1> QED
  BY <1>2, <1>3, <1>4, <1>5 DEF KnowsTags, SameAsked, Queried

(* The answer for one job.                                                 *)
LEMMA AskTagTags ==
    ASSUME Base, Knows, Numbers, KnowsTags, UNCHANGED vars, AskTag PROVE KnowsTags'
<1> DEFINE j == Least(client.running \ client.asked)
<1>1. /\ client'.at = "any_tags" /\ SameAnswers
      /\ client'.asked = client.asked \cup {j}
      /\ client'.any_tags = IF j \in DOMAIN tasks /\ tasks[j].tag # None
                            THEN Put(client.any_tags, j, tasks[j].tag) ELSE client.any_tags
  BY AskTagForm DEF Knows
<1>2. j \in client.running \ client.asked
  <2>1. client.running \ client.asked # {} /\ client.running \subseteq Nat
    BY IssuedNumbers DEF AskTag
  <2> QED
    BY <2>1, LeastOf
<1>3. tasks' = tasks /\ Queried /\ Queried'
  BY <1>1, SameServer DEF AskTag, Queried
<1> HIDE DEF j
<1>4. j \in DOMAIN tasks /\ tasks[j].tag # None => tasks[j].tag \in client.tags
  BY <1>2, <1>3 DEF KnowsTags
<1>5. CASE j \in DOMAIN tasks /\ tasks[j].tag # None
  <2>1. /\ DOMAIN client'.any_tags = DOMAIN client.any_tags \cup {j}
        /\ client'.any_tags[j] = tasks[j].tag
        /\ \A k \in DOMAIN client.any_tags \ {j} : client'.any_tags[k] = client.any_tags[k]
    BY <1>1, <1>5 DEF Put
  <2> QED
    BY <1>1, <1>2, <1>3, <1>4, <1>5, <2>1 DEF KnowsTags, SameAnswers
<1>6. CASE ~(j \in DOMAIN tasks /\ tasks[j].tag # None)
  BY <1>1, <1>2, <1>3, <1>6 DEF KnowsTags, SameAnswers
<1> QED
  BY <1>5, <1>6

(* Later steps do not ask.                                                 *)
LEMMA LaterTags ==
    ASSUME Base, Knows, KnowsTags, UNCHANGED vars,
           \/ TagsAsked \/ ChooseIds \/ ShowMatrix \/ ShowTag \/ ShowJob \/ Lump
           \/ AskMember \/ EndItem \/ EndListing
    PROVE  KnowsTags'
<1>1. tasks' = tasks
  BY SameServer
<1>2. SameAnswers /\ Queried /\ Queried'
  BY LaterForm DEF Knows, Queried
<1>3. SameAsked
  BY TagsAskedForm, ChooseForm, ShowMatrixForm, ExpandTagForm, ShowJobForm, AskMemberForm,
     EndItemForm, EndListingForm DEF Knows, ShowTag, Lump, Expands
<1>4. ~TagsAsked => client'.at # "choose"
  BY ChooseForm, ShowMatrixForm, ExpandTagForm, ShowJobForm, AskMemberForm,
     EndItemForm, EndListingForm DEF Knows, ShowTag, Lump, Expands
<1>5. TagsAsked => client.running \subseteq client.asked
  BY DEF TagsAsked
<1> QED
  BY <1>1, <1>2, <1>3, <1>4, <1>5 DEF KnowsTags, SameAnswers, SameAsked

(* Every step.                                                             *)
LEMMA StepKnowsTags ==
    Base /\ NoRetagging /\ Knows /\ Numbers /\ KnowsTags /\ [ClientNext]_clientVars => KnowsTags'
<1> SUFFICES ASSUME Base, NoRetagging, Knows, Numbers, KnowsTags, [ClientNext]_clientVars
             PROVE  KnowsTags'
  OBVIOUS
<1>1. ServerMoves \/ UNCHANGED clientVars => KnowsTags'
  BY ServerKeepsTags, StepOfServer DEF ServerMoves, clientVars
<1>2. ASSUME NEW mode, BeginListing(mode) PROVE KnowsTags'
  BY <1>2, BeginTags
<1>3. Listing /\ UNCHANGED vars => KnowsTags'
  BY <1>2, ReadingTags, ReadTagsTags, AskTagTags, LaterTags DEF Listing
<1> QED
  BY <1>1, <1>3, StepOfServer

-----------------------------------------------------------------------------
(* What is left to show, and what has been shown.  A job that is shown is  *)
(* filed under its matrix, under its tag, or by itself, and stays there.   *)
Files(e, k) ==
    /\ k \in JobIds
    /\ e.kind = "job" => k = e.id
    /\ k \in DOMAIN tasks =>
          /\ e.kind = "matrix" => tasks[k].matrix = e.id
          /\ e.kind = "tag" => tasks[k].tag = e.id
          /\ e.kind = "job" => tasks[k].matrix = None /\ tasks[k].tag = None
LeftOK == \A k \in client.left \ (client.tags \cup DOMAIN client.matrices) :
              /\ k \in JobIds /\ Alone(k)
              /\ k \in client.specified /\ k \in DOMAIN tasks => tasks[k].tag = None
Filed == /\ \A i \in DOMAIN client.info : \A k \in client.info[i].jobs :
               Files(client.info[i], k)
         /\ client.at = "members" => /\ client.item.kind # "job"
                                     /\ \A k \in client.item.jobs \cup client.members :
                                           Files(client.item, k)

(* Ids are taken in increasing order, tags are remembered: nothing is      *)
(* shown twice.                                                            *)
Past(e) == /\ e.kind = "tag" => e.id \in client.processed_tags
           /\ e.kind # "tag" => \A x \in client.left : e.id < x
Differ(e, f) == ~(e.kind = f.kind /\ e.id = f.id) /\ e.jobs \cap f.jobs = {}
Distinct(s) == \A i, k \in DOMAIN s : i # k => Differ(s[i], s[k])
Once == /\ \A p \in client.processed_tags : \A x \in client.left : p < x
        /\ \A i \in DOMAIN client.info : Past(client.info[i])
        /\ Distinct(client.info)
        /\ client.at = "members" =>
              /\ Past(client.item)
              /\ \A i \in DOMAIN client.info : Differ(client.info[i], client.item)
        /\ client.at = "lump" => /\ client.item \notin client.processed_tags
                                 /\ client.item < Id
                                 /\ Id \notin client.tags \cup DOMAIN client.matrices
                                 /\ Id \in DOMAIN tasks => tasks[Id].tag = client.item
InOrder == Chosen /\ client.mode # "last" => LeftOK /\ Filed /\ Once

(* One more entry.                                                         *)
LEMMA Appended ==
    ASSUME NEW s \in Seq(Item), NEW e \in Item
    PROVE  /\ DOMAIN Append(s, e) = DOMAIN s \cup {Len(s) + 1} /\ Len(s) + 1 \notin DOMAIN s
           /\ Append(s, e)[Len(s) + 1] = e
           /\ \A i \in DOMAIN s : Append(s, e)[i] = s[i]
OBVIOUS

(* An entry that differs from all the others may be added.                 *)
LEMMA StaysDistinct ==
    ASSUME NEW s \in Seq(Item), NEW e \in Item, Distinct(s),
           \A i \in DOMAIN s : Differ(s[i], e)
    PROVE  Distinct(Append(s, e))
<1> DEFINE t == Append(s, e)
<1>1. /\ DOMAIN t = DOMAIN s \cup {Len(s) + 1} /\ t[Len(s) + 1] = e
      /\ \A i \in DOMAIN s : t[i] = s[i]
  BY Appended
<1> HIDE DEF t
<1>2. \A i \in DOMAIN s : Differ(e, s[i])
  BY DEF Differ
<1>3. ASSUME NEW i \in DOMAIN t, NEW k \in DOMAIN t, i # k PROVE Differ(t[i], t[k])
  <2>1. CASE i \in DOMAIN s /\ k \in DOMAIN s
    BY <1>1, <1>3, <2>1 DEF Distinct
  <2>2. CASE i \in DOMAIN s /\ k = Len(s) + 1
    BY <1>1, <2>2
  <2>3. CASE i = Len(s) + 1 /\ k \in DOMAIN s
    BY <1>1, <1>2, <2>3
  <2> QED
    BY <1>1, <1>3, <2>1, <2>2, <2>3
<1>4. Distinct(t)
  BY <1>3 DEF Distinct
<1> QED
  BY <1>4 DEF t

(* A job that is there belongs in one place only.                          *)
LEMMA OnePlace ==
    ASSUME TagsExact, NEW e \in Item, NEW f \in Item, NEW k \in DOMAIN tasks,
           Files(e, k), Files(f, k)
    PROVE  e.kind = f.kind /\ e.id = f.id
<1>1. /\ e.kind \in {"matrix", "tag", "job"} /\ f.kind \in {"matrix", "tag", "job"}
      /\ e.id # None /\ f.id # None
  BY NoneAssumption DEF Item
<1>2. tasks[k].tag # None => tasks[k].matrix = None
  BY DEF TagsExact, Tagged
<1> QED
  BY <1>1, <1>2 DEF Files

(* The server moves.                                                       *)
LEMMA ServerKeepsOrder ==
    ASSUME Base, NoRetagging, Numbers, InOrder, [Next]_vars, client' = client PROVE InOrder'
<1>1. \A k \in JobIds : /\ k \in JobIds'
                        /\ k \in DOMAIN tasks' =>
                             /\ k \in DOMAIN tasks /\ tasks'[k].matrix = tasks[k].matrix
                             /\ tasks'[k].tag = tasks[k].tag
  BY JobStays, TagsKept DEF Base
<1>2. SUFFICES ASSUME Chosen, client.mode # "last", LeftOK, Filed, Once
               PROVE  LeftOK' /\ Filed' /\ Once'
  BY DEF InOrder, Chosen
<1>3. LeftOK'
  BY <1>1, <1>2 DEF LeftOK, Alone
<1>4. Filed'
  BY <1>1, <1>2 DEF Filed, Files
<1>5. Once'
  <2>1. Id' = Id
    BY DEF Id
  <2>2. client.at = "lump" => (Id \in DOMAIN tasks' => tasks'[Id].tag = client.item)
    <3>1. SUFFICES ASSUME client.at = "lump"
                   PROVE  Id \in DOMAIN tasks' => tasks'[Id].tag = client.item
      OBVIOUS
    <3>2. Id \in client.left
      BY <3>1, IdIsLeft DEF Numbers
    <3>3. Id \in JobIds
      BY <1>2, <3>1, <3>2 DEF LeftOK, Once
    <3> QED
      BY <1>1, <1>2, <3>1, <3>3 DEF Once
  <2> QED
    BY <1>2, <2>1, <2>2 DEF Once, Past
<1> QED
  BY <1>3, <1>4, <1>5

(* What is chosen.                                                         *)
LEMMA ChooseInOrder ==
    ASSUME Base, Knows, Numbers, KnowsTags, UNCHANGED vars, ChooseIds, client.mode # "last"
    PROVE  LeftOK' /\ Filed' /\ Once'
<1>1. client.at = "choose" /\ client.info = << >> /\ client.processed_tags = {}
  BY DEF ChooseIds, Knows, StartsEmpty, Chosen
<1>2. /\ client'.at = "next" /\ client'.info = << >> /\ client'.processed_tags = {}
      /\ client'.specified = Specified /\ client'.left = Selected \cup Specified
      /\ SameAnswers
  BY <1>1, ChooseForm DEF Knows, ToShow
<1>3. tasks' = tasks /\ JobIds' = JobIds
  BY SameServer
<1>4. ASSUME client.mode = "suffix_running", NEW j \in client.running,
             ShownAs(j) \notin client.tags \cup DOMAIN client.matrices
      PROVE  ShownAs(j) = j /\ Alone(j) /\ (j \in DOMAIN tasks => tasks[j].tag = None)
  <2>1. /\ \A m \in DOMAIN client.matrices : j \notin client.matrices[m]
        /\ j \notin DOMAIN client.any_tags /\ ShownAs(j) = j
    BY <1>4, ShownAsForm DEF KnowsTags
  <2>2. Queried
    BY <1>1 DEF Queried
  <2>3. Alone(j)
    BY <2>1, <2>2 DEF Alone, Knows, KnowsJobs, Belongs
  <2>4. j \in client.asked
    BY <1>1, <1>4 DEF KnowsTags
  <2> QED
    BY <2>1, <2>3, <2>4 DEF KnowsTags
<1>5. LeftOK'
  <2>1. ASSUME NEW k \in Selected \cup Specified, k \notin client.tags \cup DOMAIN client.matrices
        PROVE  /\ k \in JobIds /\ Alone(k)
               /\ k \in Specified /\ k \in DOMAIN tasks => tasks[k].tag = None
    <3>1. k \in Selected => k \in client.jids
      BY <2>1 DEF Selected, Counted
    <3>2. client.jids \cup client.running \subseteq JobIds /\ \A i \in client.jids : Alone(i)
      BY DEF Knows, KnowsJobs, Jobs
    <3>3. k \in Specified => /\ client.mode = "suffix_running"
                             /\ \E j \in client.running : k = ShownAs(j)
      BY DEF Specified, Numbers
    <3>4. k \in Specified => /\ k \in client.running /\ Alone(k)
                             /\ k \in DOMAIN tasks => tasks[k].tag = None
      BY <1>4, <2>1, <3>3
    <3> QED
      BY <3>1, <3>2, <3>4
  <2> QED
    BY <1>2, <1>3, <2>1 DEF LeftOK, Alone, SameAnswers
<1>6. Filed'
  BY <1>2 DEF Filed
<1>7. Once'
  BY <1>2 DEF Once, Distinct
<1> QED
  BY <1>5, <1>6, <1>7

(* A matrix or a tag is looked into.                                       *)
LEMMA ExpandInOrder ==
    ASSUME Numbers, LeftOK, Filed, Once, UNCHANGED vars, client.left # {},
           NEW kind \in {"matrix", "tag"}, NEW id \in Nat, NEW jids, Expands(kind, id, jids),
           kind = "matrix" => id = Id /\ client'.processed_tags = client.processed_tags,
           kind = "tag" => /\ id <= Id /\ id \notin client.processed_tags
                           /\ client'.processed_tags = client.processed_tags \cup {id},
           \A k \in jids : /\ k \in JobIds
                           /\ k \in DOMAIN tasks => /\ kind = "matrix" => tasks[k].matrix = id
                                                    /\ kind = "tag" => tasks[k].tag = id
    PROVE  LeftOK' /\ Filed' /\ Once'
<1>1. /\ client'.at = "members" /\ client'.members = jids /\ client'.left = client.left \ {Id}
      /\ client'.info = client.info /\ client'.item = [kind |-> kind, id |-> id, jobs |-> {}]
      /\ SameAnswers /\ SameChoice
  BY DEF Expands
<1>2. client'.item.kind = kind /\ client'.item.id = id /\ client'.item.jobs = {}
  BY <1>1
<1>3. tasks' = tasks /\ JobIds' = JobIds
  BY SameServer
<1>4. Id \in client.left /\ Id \in Nat /\ \A x \in client.left : Id <= x /\ x \in Nat
  BY IdIsLeft DEF Numbers
<1>5. \A x \in client'.left : x \in client.left /\ Id < x
  BY <1>1, <1>4
<1>6. LeftOK'
  BY <1>1, <1>3 DEF LeftOK, Alone, SameAnswers, SameChoice
<1>7. Filed'
  <2>1. \A i \in DOMAIN client'.info : \A k \in client'.info[i].jobs : Files(client.info[i], k)'
    BY <1>1, <1>3 DEF Filed, Files
  <2>2. \A k \in client'.item.jobs \cup client'.members : Files(client.item, k)'
    BY <1>1, <1>2, <1>3 DEF Files
  <2>3. client'.item.kind # "job"
    BY <1>2
  <2> QED
    BY <2>1, <2>2, <2>3 DEF Filed
<1>8. \A p \in client'.processed_tags : \A x \in client'.left : p < x
  <2>1. ASSUME NEW p \in client.processed_tags, NEW x \in client'.left PROVE p < x
    BY <1>5, <2>1 DEF Once
  <2>2. ASSUME NEW x \in client'.left, id <= Id PROVE id < x
    BY <1>4, <1>5, <2>2
  <2> QED
    BY <2>1, <2>2
<1>9. \A i \in DOMAIN client.info : Past(client.info[i])'
  BY <1>1, <1>5 DEF Once, Past
<1>10. Past(client.item)'
  BY <1>1, <1>2, <1>5 DEF Past
<1>11. ASSUME NEW i \in DOMAIN client.info PROVE Differ(client.info[i], client'.item)
  <2>1. Past(client.info[i]) /\ client.info[i] \in Item
    BY <1>11 DEF Once, Numbers
  <2>2. kind = "matrix" /\ client.info[i].kind = "matrix" => client.info[i].id # id
    <3>1. SUFFICES ASSUME kind = "matrix", client.info[i].kind = "matrix"
                   PROVE  client.info[i].id # id
      OBVIOUS
    <3>2. client.info[i].id < Id /\ client.info[i].id \in Nat
      BY <1>4, <2>1, <3>1 DEF Past, Item
    <3> QED
      BY <1>4, <3>1, <3>2
  <2>3. kind = "tag" /\ client.info[i].kind = "tag" => client.info[i].id # id
    BY <2>1 DEF Past
  <2> QED
    BY <1>2, <2>2, <2>3 DEF Differ
<1>12. Once'
  BY <1>1, <1>8, <1>9, <1>10, <1>11 DEF Once
<1> QED
  BY <1>6, <1>7, <1>12

(* A matrix, a tag that was asked for, a tag found through its job.        *)
LEMMA ShowGroupInOrder ==
    ASSUME Base, TagsExact, Knows, Numbers, LeftOK, Filed, Once, UNCHANGED vars,
           ShowMatrix \/ ShowTag \/ Lump
    PROVE  LeftOK' /\ Filed' /\ Once'
<1>1. DOMAIN client = Fields /\ client.left # {}
  BY DEF Knows, Numbers, ShowMatrix, ShowTag, Lump, Next_
<1>2. Id \in client.left /\ Id \in Nat
  BY <1>1, IdIsLeft DEF Numbers
<1>3. ASSUME NEW t \in DOMAIN tags
      PROVE  /\ t \in Nat
             /\ \A k \in tags[t] : k \in JobIds /\ k \in DOMAIN tasks /\ tasks[k].tag = t
  <2>1. t \in Nat
    BY Types, MapAt, IssuedNumbers DEF Base, ServerHolds
  <2> QED
    BY <1>3, <2>1 DEF Base, Apart, TagsExact, TagsOwn
<1>4. CASE ShowMatrix
  <2>1. Id \in DOMAIN client.matrices
    BY <1>4 DEF ShowMatrix, Next_
  <2>2. \A k \in client.matrices[Id] : k \in JobIds /\ (k \in DOMAIN tasks => tasks[k].matrix = Id)
    BY <2>1 DEF Knows, KnowsJobs, Jobs, Expanded
  <2> QED
    BY <1>1, <1>2, <1>4, <2>2, ShowMatrixForm, ExpandInOrder
<1>5. CASE ShowTag
  <2>1. Id \in DOMAIN tags /\ client' = ExpandTag(Id)
    BY <1>5 DEF ShowTag
  <2>2. Id \notin client.processed_tags /\ Id <= Id
    BY <1>2 DEF Once
  <2>3. /\ Expands("tag", Id, tags[Id])
        /\ client'.processed_tags = client.processed_tags \cup {Id}
    BY <1>1, <2>1, ExpandTagForm
  <2> QED
    BY <1>1, <1>2, <1>3, <2>1, <2>2, <2>3, ExpandInOrder
<1>6. CASE Lump
  <2>1. client.item \in DOMAIN tags /\ client' = ExpandTag(client.item) /\ client.at = "lump"
    BY <1>6 DEF Lump
  <2>2. client.item \notin client.processed_tags /\ client.item <= Id /\ client.item \in Nat
    BY <1>2, <1>3, <2>1 DEF Once
  <2>3. /\ Expands("tag", client.item, tags[client.item])
        /\ client'.processed_tags = client.processed_tags \cup {client.item}
    BY <1>1, <2>1, ExpandTagForm
  <2> QED
    BY <1>1, <1>3, <2>1, <2>2, <2>3, ExpandInOrder
<1> QED
  BY <1>4, <1>5, <1>6

(* A job is shown, or found to have a tag, or to be gone.                  *)
LEMMA ShowJobInOrder ==
    ASSUME Base, TagsExact, Knows, Numbers, LeftOK, Filed, Once, UNCHANGED vars, ShowJob
    PROVE  LeftOK' /\ Filed' /\ Once'
<1>1. /\ DOMAIN client = Fields /\ client.left # {} /\ client.at = "next"
      /\ Id \notin client.tags \cup DOMAIN client.matrices
  BY DEF Knows, ShowJob, Next_
<1>2. Id \in client.left /\ Id \in Nat /\ \A x \in client.left : Id <= x /\ x \in Nat
  BY <1>1, IdIsLeft DEF Numbers
<1>3. tasks' = tasks /\ JobIds' = JobIds
  BY SameServer
<1>4. /\ client'.processed_tags = client.processed_tags /\ SameAnswers /\ SameChoice
      /\ client'.left \subseteq client.left /\ client'.at \in {"next", "lump"}
  BY <1>1, ShowJobForm
<1>5. LeftOK'
  BY <1>3, <1>4 DEF LeftOK, Alone, SameAnswers, SameChoice
<1>6. CASE client'.at = "lump"
  <2>1. /\ client'.left = client.left /\ client'.info = client.info
        /\ Id \in DOMAIN tasks /\ client'.item = tasks[Id].tag
        /\ tasks[Id].tag \notin client.processed_tags \cup {None}
    BY <1>1, <1>6, ShowJobForm
  <2>2. Filed'
    BY <1>3, <1>6, <2>1 DEF Filed, Files
  <2>3. Id' = Id
    BY <2>1 DEF Id
  <2>4. tasks[Id].tag < Id
    BY <2>1 DEF TagsExact, Tagged
  <2>5. Once'
    BY <1>1, <1>3, <1>4, <1>6, <2>1, <2>3, <2>4 DEF Once, Past, SameAnswers
  <2> QED
    BY <1>5, <2>2, <2>5
<1>7. CASE client'.at = "next" /\ client'.info = client.info
  <2>1. Filed'
    BY <1>3, <1>7 DEF Filed, Files
  <2>2. Once'
    BY <1>4, <1>7 DEF Once, Past
  <2> QED
    BY <1>5, <2>1, <2>2
<1>8. ASSUME NEW e, e = [kind |-> "job", id |-> Id, jobs |-> {Id}],
             client'.at = "next", client'.info = Append(client.info, e),
             client'.left = client.left \ {Id}, Id \in DOMAIN tasks,
             tasks[Id].tag = None \/ Id \in client.specified
      PROVE  LeftOK' /\ Filed' /\ Once'
  <2>1. e \in Item /\ client.info \in Seq(Item)
    BY <1>2, <1>8 DEF Item, Numbers
  <2>2. e.kind = "job" /\ e.id = Id /\ e.jobs = {Id}
    BY <1>8
  <2>3. Files(e, Id)
    BY <1>1, <1>2, <1>8, <2>2 DEF Files, LeftOK, Alone
  <2>4. ASSUME NEW i \in DOMAIN client.info PROVE Differ(client.info[i], e)
    <3>1. client.info[i] \in Item /\ Past(client.info[i])
      BY <2>1, <2>4 DEF Once
    <3>2. ~(client.info[i].kind = e.kind /\ client.info[i].id = e.id)
      <4>1. SUFFICES ASSUME client.info[i].kind = "job" PROVE client.info[i].id # Id
        BY <2>2
      <4>2. client.info[i].id < Id /\ client.info[i].id \in Nat
        BY <1>2, <3>1, <4>1 DEF Past, Item
      <4> QED
        BY <1>2, <4>2
    <3>3. Id \notin client.info[i].jobs
      <4>1. SUFFICES ASSUME Id \in client.info[i].jobs PROVE FALSE
        OBVIOUS
      <4>2. Files(client.info[i], Id)
        BY <2>4, <4>1 DEF Filed
      <4> QED
        BY <1>8, <2>1, <2>3, <3>1, <3>2, <4>2, OnePlace
    <3> QED
      BY <2>2, <3>2, <3>3 DEF Differ
  <2>5. Distinct(client'.info)
    BY <1>8, <2>1, <2>4, StaysDistinct DEF Once
  <2>6. /\ DOMAIN client'.info = DOMAIN client.info \cup {Len(client.info) + 1}
        /\ client'.info[Len(client.info) + 1] = e
        /\ \A i \in DOMAIN client.info : client'.info[i] = client.info[i]
    BY <1>8, <2>1, Appended
  <2>7. \A k \in e.jobs : Files(e, k)'
    BY <1>3, <2>2, <2>3 DEF Files
  <2>8. Filed'
    <3>1. ASSUME NEW i \in DOMAIN client'.info, NEW k \in client'.info[i].jobs
          PROVE  Files(client.info[i], k)'
      <4>1. CASE i \in DOMAIN client.info
        BY <1>3, <2>6, <3>1, <4>1 DEF Filed, Files
      <4>2. CASE i = Len(client.info) + 1
        BY <2>6, <2>7, <3>1, <4>2 DEF Files
      <4> QED
        BY <2>6, <4>1, <4>2
    <3> QED
      BY <1>8, <3>1 DEF Filed
  <2>9. \A i \in DOMAIN client'.info : Past(client.info[i])'
    <3>1. \A x \in client'.left : x \in client.left /\ Id < x
      BY <1>2, <1>8
    <3>2. ASSUME NEW i \in DOMAIN client.info PROVE Past(client.info[i])'
      BY <1>4, <2>6, <3>1, <3>2 DEF Once, Past
    <3>3. ASSUME NEW i, i = Len(client.info) + 1 PROVE Past(client.info[i])'
      BY <2>2, <2>6, <3>1, <3>3 DEF Past
    <3> QED
      BY <2>6, <3>2, <3>3
  <2>10. Once'
    BY <1>4, <1>8, <2>5, <2>9 DEF Once
  <2> QED
    BY <1>5, <2>8, <2>10
<1> QED
  BY <1>1, <1>6, <1>7, <1>8, ShowJobForm

(* The members of a matrix or a tag are looked up.                         *)
LEMMA AskMemberInOrder ==
    ASSUME TagsExact, Knows, Numbers, LeftOK, Filed, Once, UNCHANGED vars, AskMember
    PROVE  LeftOK' /\ Filed' /\ Once'
<1>1. PICK j : j = Least(client.members)
  OBVIOUS
<1>2. /\ j \in client.members /\ client.item \in Item /\ client'.item \in Item
      /\ client'.item.kind = client.item.kind /\ client'.item.id = client.item.id
      /\ client'.item.jobs = IF j \in DOMAIN tasks THEN client.item.jobs \cup {j}
                             ELSE client.item.jobs
  BY <1>1, AskedMember
<1>3. /\ client.at = "members" /\ client'.at = "members"
      /\ client'.members = client.members \ {j} /\ client'.left = client.left
      /\ client'.processed_tags = client.processed_tags /\ client'.info = client.info
      /\ SameAnswers /\ SameChoice
  BY <1>1, AskMemberForm DEF Knows, AskMember
<1>4. tasks' = tasks /\ JobIds' = JobIds
  BY SameServer
<1>5. LeftOK'
  BY <1>3, <1>4 DEF LeftOK, Alone, SameAnswers, SameChoice
<1>6. Filed'
  <2>1. \A i \in DOMAIN client'.info : \A k \in client'.info[i].jobs : Files(client.info[i], k)'
    BY <1>3, <1>4 DEF Filed, Files
  <2>2. \A k \in client'.item.jobs \cup client'.members : Files(client.item, k)'
    BY <1>2, <1>3, <1>4 DEF Filed, Files
  <2>3. client'.item.kind # "job"
    BY <1>2, <1>3 DEF Filed
  <2> QED
    BY <2>1, <2>2, <2>3 DEF Filed
<1>7. ASSUME NEW i \in DOMAIN client.info PROVE Differ(client.info[i], client'.item)
  <2>1. Differ(client.info[i], client.item) /\ client.info[i] \in Item
    BY <1>3, <1>7 DEF Once, Numbers
  <2>2. j \in DOMAIN tasks => j \notin client.info[i].jobs
    <3>1. SUFFICES ASSUME j \in DOMAIN tasks, j \in client.info[i].jobs PROVE FALSE
      OBVIOUS
    <3>2. Files(client.info[i], j) /\ Files(client.item, j)
      BY <1>2, <1>3, <1>7, <3>1 DEF Filed
    <3> QED
      BY <1>2, <2>1, <3>1, <3>2, OnePlace DEF Differ
  <2> QED
    BY <1>2, <2>1, <2>2 DEF Differ
<1>8. Past(client.item)'
  BY <1>2, <1>3 DEF Once, Past
<1>9. Once'
  BY <1>3, <1>7, <1>8 DEF Once, Past
<1> QED
  BY <1>5, <1>6, <1>9

(* What has been looked up is listed, in its order.                        *)
LEMMA EndItemInOrder ==
    ASSUME Knows, Numbers, LeftOK, Filed, Once, UNCHANGED vars, EndItem
    PROVE  LeftOK' /\ Filed' /\ Once'
<1>1. PICK e : e = client.item
  OBVIOUS
<1>2. /\ client.at = "members" /\ client'.at = "next" /\ client'.info = Append(client.info, e)
      /\ client'.left = client.left /\ client'.processed_tags = client.processed_tags
      /\ SameAnswers /\ SameChoice
  BY <1>1, EndItemForm DEF Knows, EndItem
<1>3. e \in Item /\ client.info \in Seq(Item)
  BY <1>1, <1>2 DEF Numbers
<1>4. tasks' = tasks /\ JobIds' = JobIds
  BY SameServer
<1>5. LeftOK'
  BY <1>2, <1>4 DEF LeftOK, Alone, SameAnswers, SameChoice
<1>6. /\ DOMAIN client'.info = DOMAIN client.info \cup {Len(client.info) + 1}
      /\ client'.info[Len(client.info) + 1] = e
      /\ \A i \in DOMAIN client.info : client'.info[i] = client.info[i]
  BY <1>2, <1>3, Appended
<1>7. \A k \in e.jobs : Files(e, k)'
  BY <1>1, <1>2, <1>4 DEF Filed, Files
<1>8. Past(e)'
  BY <1>1, <1>2 DEF Once, Past
<1>9. ASSUME NEW i \in DOMAIN client'.info
      PROVE  Past(client.info[i])' /\ \A k \in client'.info[i].jobs : Files(client.info[i], k)'
  <2>1. CASE i \in DOMAIN client.info
    BY <1>2, <1>4, <1>6, <2>1 DEF Once, Past, Filed, Files
  <2>2. CASE i = Len(client.info) + 1
    BY <1>6, <1>7, <1>8, <2>2 DEF Past, Files
  <2> QED
    BY <1>6, <1>9, <2>1, <2>2
<1>10. Distinct(client'.info)
  BY <1>1, <1>2, <1>3, StaysDistinct DEF Once
<1>11. Filed' /\ Once'
  BY <1>2, <1>9, <1>10 DEF Filed, Once
<1> QED
  BY <1>5, <1>11

(* The end of the listing.                                                 *)
LEMMA EndListingInOrder ==
    ASSUME Knows, LeftOK, Filed, Once, UNCHANGED vars, EndListing
    PROVE  LeftOK' /\ Filed' /\ Once'
<1>1. client'.at = "done" /\ SameAnswers /\ SameChoice /\ SameWork
  BY EndListingForm DEF Knows
<1>2. tasks' = tasks /\ JobIds' = JobIds
  BY SameServer
<1> QED
  BY <1>1, <1>2 DEF LeftOK, Filed, Once, Alone, Files, Past, SameAnswers, SameChoice, SameWork

(* Every step.                                                             *)
Informed == Base /\ Knows /\ Numbers
InformedOfTags == Informed /\ TagsExact /\ KnowsTags

(* Where jobs are not retagged, every step keeps the order.                *)
LEMMA StepInOrder ==
    InformedOfTags /\ NoRetagging /\ InOrder /\ [ClientNext]_clientVars => InOrder'
<1> SUFFICES ASSUME InformedOfTags, NoRetagging, InOrder, [ClientNext]_clientVars PROVE InOrder'
  OBVIOUS
<1>1. Base /\ Knows /\ Numbers /\ TagsExact /\ KnowsTags /\ DOMAIN client = Fields
  BY DEF InformedOfTags, Informed, Knows
<1>2. ServerMoves \/ UNCHANGED clientVars => InOrder'
  BY <1>1, ServerKeepsOrder, StepOfServer DEF ServerMoves, clientVars
<1>3. ASSUME NEW mode, BeginListing(mode) PROVE InOrder'
  BY <1>3, BeginForm DEF InOrder, Chosen
<1>4. ReadRunning \/ ReadMatrices \/ ReadTags \/ AskTag \/ TagsAsked => InOrder'
  BY <1>1, ReadRunningForm, ReadMatricesForm, ReadTagsForm, AskTagForm, TagsAskedForm
     DEF InOrder, Chosen
<1>5. ASSUME ChooseIds, UNCHANGED vars PROVE InOrder'
  BY <1>1, <1>5, ChooseInOrder, ChooseForm DEF InOrder, SameAnswers
<1>6. ASSUME UNCHANGED vars, \/ ShowMatrix \/ ShowTag \/ ShowJob \/ Lump \/ AskMember \/ EndItem
                            \/ EndListing
      PROVE  InOrder'
  <2>1. Chosen
    BY <1>6 DEF ShowMatrix, ShowTag, ShowJob, Lump, AskMember, EndItem, EndListing, Next_, Chosen
  <2>2. client'.mode = client.mode
    BY <1>1, <1>6, LaterForm DEF SameAnswers
  <2>3. SUFFICES ASSUME LeftOK, Filed, Once PROVE LeftOK' /\ Filed' /\ Once'
    BY <2>1, <2>2 DEF InOrder
  <2> QED
    BY <1>1, <1>6, <2>3, ShowGroupInOrder, ShowJobInOrder, AskMemberInOrder, EndItemInOrder,
       EndListingInOrder
<1> QED
  BY <1>2, <1>3, <1>4, <1>5, <1>6, StepOfServer DEF Listing

-----------------------------------------------------------------------------
(* `last` shows one thing at most.                                         *)
OneShown ==
    client.mode = "last" /\ Chosen =>
        /\ client.at # "lump" /\ Len(client.info) <= 1
        /\ client.at = "next" => /\ client.left \subseteq client.specified
                                 /\ \A x, y \in client.left : x = y
                                 /\ client.left # {} => client.info = << >>
        /\ client.at = "members" => client.left = {} /\ client.info = << >>

(* The client's own steps, from the choice on.                             *)
LEMMA ShowOne ==
    ASSUME Informed, OneShown, client.mode = "last",
           \/ ChooseIds \/ ShowMatrix \/ ShowTag \/ ShowJob \/ Lump \/ AskMember \/ EndItem
           \/ EndListing
    PROVE  OneShown'
<1>1. DOMAIN client = Fields /\ client.left \subseteq Nat /\ client.info \in Seq(Item)
  BY DEF Informed, Knows, Numbers
<1>2. ASSUME client.at = "next", client.left # {}
      PROVE  client.left \ {Id} = {} /\ client.info = << >> /\ Id \in client.specified
  <2>1. Id \in client.left
    BY <1>1, <1>2, IdIsLeft
  <2> QED
    BY <1>2, <2>1 DEF OneShown, Chosen
<1>3. ASSUME NEW e \in Item, client.info = << >> PROVE Len(Append(client.info, e)) = 1
  BY <1>1, <1>3
<1>4. CASE ChooseIds
  <2>1. client.info = << >>
    BY <1>4 DEF Informed, Knows, StartsEmpty, ChooseIds, Chosen
  <2>2. Selected = {} /\ Specified = {Newest}
    BY DEF Selected, Specified
  <2>3. /\ client'.info = << >>
        /\ \/ client'.at = "done"
           \/ client'.at = "next" /\ client'.left = {Newest} /\ client'.specified = {Newest}
    BY <1>1, <1>4, <2>1, <2>2, ChooseForm DEF ToShow
  <2> QED
    BY <2>3 DEF OneShown
<1>5. ASSUME NEW kind, NEW id, NEW jids, client.at = "next", client.left # {},
             Expands(kind, id, jids)
      PROVE  OneShown'
  BY <1>2, <1>5 DEF Expands, OneShown
<1>6. CASE ShowMatrix \/ ShowTag
  BY <1>1, <1>5, <1>6, ShowMatrixForm, ExpandTagForm DEF ShowMatrix, ShowTag, Next_
<1>7. CASE ShowJob
  <2>1. client.at = "next" /\ client.left # {}
    BY <1>7 DEF ShowJob, Next_
  <2>2. Id \in Nat
    BY <1>1, <2>1, IdIsLeft
  <2>3. [kind |-> "job", id |-> Id, jobs |-> {Id}] \in Item
    BY <2>2 DEF Item
  <2>4. PICK e \in Item : e = [kind |-> "job", id |-> Id, jobs |-> {Id}]
    BY <2>3
  <2>5. /\ client'.at = "next" /\ client'.left = {}
        /\ client'.info = << >> \/ client'.info = Append(client.info, e)
    BY <1>1, <1>2, <1>7, <2>1, <2>4, ShowJobForm
  <2>6. Len(client'.info) <= 1
    BY <1>2, <1>3, <2>1, <2>5
  <2> QED
    BY <2>5, <2>6 DEF OneShown
<1>8. ~Lump
  BY DEF Lump, OneShown, Chosen
<1>9. CASE AskMember
  <2>1. /\ client.at = "members" /\ client'.at = "members"
        /\ client'.info = client.info /\ client'.left = client.left
    BY <1>1, <1>9, AskMemberForm DEF AskMember
  <2> QED
    BY <2>1 DEF OneShown, Chosen
<1>10. CASE EndItem
  <2>1. client.at = "members" /\ client.item \in Item
    BY <1>10 DEF EndItem, Informed, Numbers
  <2>2. /\ client'.at = "next" /\ client'.info = Append(client.info, client.item)
        /\ client'.left = client.left
    BY <1>1, <1>10, EndItemForm
  <2>3. client.left = {} /\ client.info = << >>
    BY <2>1 DEF OneShown, Chosen
  <2> QED
    BY <1>3, <2>1, <2>2, <2>3 DEF OneShown
<1>11. CASE EndListing
  <2>1. client.at = "next" /\ client'.at = "done" /\ client'.info = client.info
    BY <1>1, <1>11, EndListingForm DEF EndListing, SameWork
  <2> QED
    BY <2>1 DEF OneShown, Chosen
<1> QED
  BY <1>4, <1>6, <1>7, <1>8, <1>9, <1>10, <1>11

(* Every step.                                                             *)
LEMMA StepOneShown == Informed /\ OneShown /\ [ClientNext]_clientVars => OneShown'
<1> SUFFICES ASSUME Informed, OneShown, [ClientNext]_clientVars PROVE OneShown'
  OBVIOUS
<1>1. DOMAIN client = Fields
  BY DEF Informed, Knows
<1>2. client' = client => OneShown'
  BY DEF OneShown, Chosen
<1>3. ASSUME NEW mode, BeginListing(mode) PROVE OneShown'
  BY <1>3, BeginForm DEF OneShown, Chosen
<1>4. ReadRunning \/ ReadMatrices \/ ReadTags \/ AskTag \/ TagsAsked => OneShown'
  BY <1>1, ReadRunningForm, ReadMatricesForm, ReadTagsForm, AskTagForm, TagsAskedForm
     DEF OneShown, Chosen
<1>5. ASSUME \/ ChooseIds \/ ShowMatrix \/ ShowTag \/ ShowJob \/ Lump \/ AskMember \/ EndItem
             \/ EndListing
      PROVE  OneShown'
  <2>1. client'.mode = client.mode
    BY <1>1, <1>5, LaterForm DEF SameAnswers
  <2> QED
    BY <1>5, <2>1, ShowOne DEF OneShown
<1> QED
  BY <1>2, <1>3, <1>4, <1>5, StepOfServer DEF ServerMoves, Listing, clientVars

-----------------------------------------------------------------------------
(* The inductive invariants.                                               *)
LEMMA InitInformed == ClientInit => InformedOfTags
<1> SUFFICES ASSUME ClientInit PROVE InformedOfTags
  OBVIOUS
<1>1. Base /\ Knows
  BY InitKnows
<1>2. /\ client.mode = "suffix" /\ client.at = "idle" /\ client.left = {}
      /\ client.processed_tags = {} /\ client.members = {} /\ client.info = << >>
      /\ client.asked = {} /\ client.running = {} /\ DOMAIN client.any_tags = {}
  BY DEF ClientInit, IdleClient, EmptyMap
<1>3. << >> \in Seq(Item)
  OBVIOUS
<1>4. Numbers /\ KnowsTags
  BY <1>2, <1>3 DEF Numbers, KnowsTags, Queried
<1>5. TagsExact
  BY DEF ClientInit, Init, TagsExact, TagsOwn, EmptyMap, IdleListener
<1> QED
  BY <1>1, <1>4, <1>5 DEF InformedOfTags, Informed

(* What holds whatever other clients ask for.                              *)
LEMMA StepInformed == Informed /\ [ClientNext]_clientVars => Informed'
BY StepKnows, StepNumbers DEF Informed

(* What holds as long as they do not retag.                                *)
LEMMA StepInformedOfTags ==
    InformedOfTags /\ NoRetagging /\ [ClientNext]_clientVars => InformedOfTags'
<1> SUFFICES ASSUME InformedOfTags, NoRetagging, [ClientNext]_clientVars PROVE InformedOfTags'
  OBVIOUS
<1>1. Informed /\ Base /\ Knows /\ Numbers /\ TagsExact /\ KnowsTags
  BY DEF InformedOfTags, Informed
<1>2. TagsExact'
  BY <1>1, StepTags, StepOfServer DEF Base
<1> QED
  BY <1>1, <1>2, StepInformed, StepKnowsTags DEF InformedOfTags

(* No job is listed twice, whatever other clients and the work thread do   *)
(* while a listing is put together, unless they retag jobs: list_jobs.     *)
THEOREM ListingsShowOnce == NoRetagging => (ClientSpec => []ListedOnce)
<1> SUFFICES ASSUME NoRetagging PROVE ClientSpec => []ListedOnce
  OBVIOUS
<1>1. ClientInit => InformedOfTags /\ InOrder /\ OneShown
  <2> SUFFICES ASSUME ClientInit PROVE InformedOfTags /\ InOrder /\ OneShown
    OBVIOUS
  <2>1. ~Chosen
    BY DEF ClientInit, IdleClient, Chosen
  <2> QED
    BY <2>1, InitInformed DEF InOrder, OneShown
<1>2. InformedOfTags /\ InOrder /\ OneShown /\ [ClientNext]_clientVars
      => (InformedOfTags /\ InOrder /\ OneShown)'
  BY StepInformedOfTags, StepInOrder, StepOneShown DEF InformedOfTags
<1>3. InformedOfTags /\ InOrder /\ OneShown => ListedOnce
  <2> SUFFICES ASSUME InformedOfTags, InOrder, OneShown, client.at = "done",
                      NEW i \in DOMAIN client.info, NEW k \in DOMAIN client.info, i # k
               PROVE  client.info[i].jobs \cap client.info[k].jobs = {}
    BY DEF ListedOnce
  <2>1. Chosen /\ client.info \in Seq(Item)
    BY DEF Chosen, InformedOfTags, Informed, Numbers
  <2>2. CASE client.mode = "last"
    <3>1. Len(client.info) <= 1 /\ i \in 1..Len(client.info) /\ k \in 1..Len(client.info)
      BY <2>1, <2>2 DEF OneShown
    <3> QED
      BY <2>1, <3>1
  <2>3. CASE client.mode # "last"
    BY <2>1, <2>3 DEF InOrder, Once, Distinct, Differ
  <2> QED
    BY <2>2, <2>3
<1> QED
  BY <1>1, <1>2, <1>3, PTL DEF ClientSpec

-----------------------------------------------------------------------------
(* What a listing has to show is in it, or being looked up, or still to    *)
(* come: under its matrix, by itself or under its tag.                     *)
Requested ==
    CASE client.mode = "suffix" -> IF Cardinality(Counted) <= SuffixLen THEN client.known ELSE {}
      [] client.mode = "suffix_running" -> client.known \cap client.running
      [] OTHER -> {}
Showing(j) == \/ j \in Listed
              \/ client.at = "members" /\ j \in client.item.jobs \cup client.members
Due(j) == IF tasks[j].matrix # None THEN tasks[j].matrix \in client.left
          ELSE j \in client.left \/ tasks[j].tag \in client.left
Covers ==
    Chosen /\ client.mode # "last" =>
        /\ \A j \in Requested \cap DOMAIN tasks : Showing(j) \/ Due(j)
        /\ \A j \in client.known \cap DOMAIN tasks :
              tasks[j].tag \in client.processed_tags => Showing(j)
        /\ client.at = "done" => client.left = {}

(* Only jobs that were there at first are promised.                        *)
LEMMA RequestedKnown == Requested \subseteq client.known
BY DEF Requested

(* One more entry is listed.                                               *)
LEMMA OneMoreListed ==
    ASSUME client.info \in Seq(Item), NEW e \in Item, client'.info = Append(client.info, e)
    PROVE  \A j : j \in Listed' <=> j \in Listed \/ j \in e.jobs
<1>1. /\ DOMAIN client'.info = DOMAIN client.info \cup {Len(client.info) + 1}
      /\ client'.info[Len(client.info) + 1] = e
      /\ \A i \in DOMAIN client.info : client'.info[i] = client.info[i]
  BY Appended
<1> QED
  BY <1>1 DEF Listed

(* What a step of the client has to see to.                                *)
LEMMA CoverStep ==
    ASSUME Covers, UNCHANGED vars, SameAnswers, Chosen, client.mode # "last",
           \A j \in client.known \cap DOMAIN tasks :
              /\ Showing(j) => Showing(j)'
              /\ Due(j) => Due(j)' \/ Showing(j)'
              /\ tasks[j].tag \in client'.processed_tags
                 => tasks[j].tag \in client.processed_tags \/ Showing(j)',
           client'.at = "done" => client'.left = {}
    PROVE  Covers'
<1>1. tasks' = tasks
  BY SameServer
<1>2. Requested' = Requested /\ client'.known = client.known
  BY DEF Requested, Counted, SameAnswers
<1>3. \A j \in Requested \cap DOMAIN tasks : j \in client.known /\ (Showing(j) \/ Due(j))
  BY RequestedKnown DEF Covers
<1>4. \A j \in Requested \cap DOMAIN tasks : (Showing(j) \/ Due(j))'
  BY <1>3
<1>5. \A j \in client.known \cap DOMAIN tasks :
         tasks[j].tag \in client'.processed_tags => Showing(j)'
  BY DEF Covers
<1> QED
  BY <1>1, <1>2, <1>4, <1>5 DEF Covers

(* The server moves.                                                       *)
LEMMA ServerKeepsCover ==
    ASSUME Base, NoRetagging, Knows, Covers, [Next]_vars, client' = client PROVE Covers'
<1>1. client.known \subseteq JobIds
  BY DEF Knows, KnowsJobs, Jobs
<1>2. \A j \in client.known \cap DOMAIN tasks' : /\ j \in DOMAIN tasks
                                                 /\ tasks'[j].matrix = tasks[j].matrix
                                                 /\ tasks'[j].tag = tasks[j].tag
  BY <1>1, JobStays, TagsKept DEF Base
<1>3. Requested' = Requested /\ Listed' = Listed
  BY DEF Requested, Counted, Listed
<1>4. \A j \in client.known \cap DOMAIN tasks' : /\ Showing(j) => Showing(j)'
                                                 /\ Due(j) => Due(j)'
  BY <1>2, <1>3 DEF Showing, Due
<1>5. (Chosen' <=> Chosen) /\ client'.mode = client.mode
  BY DEF Chosen
<1> QED
  BY <1>2, <1>3, <1>4, <1>5, RequestedKnown DEF Covers

(* If there are few enough, all of them are chosen.                        *)
LEMMA SelectsAll ==
    ASSUME Base, Knows, client.mode # "last", Cardinality(Counted) <= SuffixLen
    PROVE  Counted \subseteq Selected
<1>1. next_jid \in Nat /\ Counted \subseteq 0..next_jid
  BY IssuedNumbers
<1>2. IsFiniteSet(Counted)
  <2>1. IsFiniteSet(0..next_jid)
    BY <1>1, FS_Interval
  <2>2. Counted \in SUBSET (0..next_jid)
    BY <1>1
  <2> QED
    BY <2>1, <2>2, FS_Subset
<1>3. ASSUME NEW i \in Counted PROVE Cardinality({k \in Counted : k > i}) < SuffixLen
  <2> DEFINE newer == {k \in Counted : k > i}
             others == Counted \ {i}
  <2>1. \A k \in newer : k \in Counted /\ k > i
    OBVIOUS
  <2>2. i \in Nat
    BY <1>1
  <2> HIDE DEF newer
  <2>3. newer \in SUBSET others
    BY <2>1, <2>2
  <2>4. IsFiniteSet(others) /\ Cardinality(others) = Cardinality(Counted) - 1
    BY <1>2, FS_RemoveElement
  <2>5. IsFiniteSet(newer) /\ Cardinality(newer) <= Cardinality(others)
    BY <2>3, <2>4, FS_Subset
  <2>6. Cardinality(newer) \in Nat /\ Cardinality(Counted) \in Nat
    BY <1>2, <2>5, FS_CardinalityType
  <2>7. Cardinality(newer) < SuffixLen
    BY <2>4, <2>5, <2>6, ClientAssumption
  <2> QED
    BY <2>7 DEF newer
<1> QED
  BY <1>3 DEF Selected

(* What is chosen stands for all that has to be shown.                     *)
LEMMA ChooseCovers ==
    ASSUME Base, Knows, Numbers, KnowsTags, UNCHANGED vars, ChooseIds, client.mode # "last"
    PROVE  Covers'
<1>1. client.at = "choose" /\ client.info = << >> /\ client.processed_tags = {} /\ Queried
  BY DEF ChooseIds, Knows, StartsEmpty, Chosen, Queried
<1>2. /\ client'.at = "next" /\ client'.processed_tags = {}
      /\ client'.left = Selected \cup Specified /\ SameAnswers
  BY <1>1, ChooseForm DEF Knows, ToShow
<1>3. tasks' = tasks
  BY SameServer
<1>4. Requested' = Requested
  BY <1>2 DEF Requested, Counted, SameAnswers
<1>5. ASSUME NEW j \in Requested, j \in DOMAIN tasks PROVE Due(j)'
  <2>1. CASE client.mode = "suffix"
    <3>1. j \in client.known /\ Counted \subseteq client'.left
      BY <1>2, <1>5, <2>1, SelectsAll DEF Requested
    <3>2. IF tasks[j].matrix # None THEN tasks[j].matrix \in DOMAIN client.matrices
          ELSE j \in client.jids
      BY <1>1, <1>5, <3>1 DEF Knows, KnowsJobs, Belongs
    <3> QED
      BY <1>3, <3>1, <3>2 DEF Due, Counted
  <2>2. CASE client.mode = "suffix_running"
    <3>1. j \in client.running /\ ShownAs(j) \in client'.left
      BY <1>2, <1>5, <2>2 DEF Requested, Specified
    <3>2. tasks[j].matrix # None => /\ tasks[j].matrix \in DOMAIN client.matrices
                                    /\ j \in client.matrices[tasks[j].matrix]
      BY <1>1, <1>5, <3>1 DEF Knows, KnowsJobs, Belongs
    <3>3. ASSUME NEW m \in DOMAIN client.matrices, j \in client.matrices[m]
          PROVE  m # None /\ tasks[j].matrix = m
      BY <1>5, <3>3, IssuedNumbers, NoneAssumption DEF Knows, KnowsJobs
    <3>4. j \in DOMAIN client.any_tags => tasks[j].tag = client.any_tags[j]
      BY <1>5 DEF KnowsTags
    <3> QED
      BY <1>3, <3>1, <3>2, <3>3, <3>4, ShownAsForm DEF Due
  <2> QED
    BY <2>1, <2>2 DEF Numbers
<1> QED
  BY <1>2, <1>3, <1>4, <1>5 DEF Covers

(* A matrix or a tag is looked into: members are asked for all those that  *)
(* it stood for.                                                           *)
LEMMA ExpandCovers ==
    ASSUME Covers, UNCHANGED vars, Chosen, client.mode # "last", client.at # "members",
           NEW kind, NEW id, NEW jids, Expands(kind, id, jids),
           \A j \in client.known \cap DOMAIN tasks :
              \/ Id \in {j, tasks[j].matrix, tasks[j].tag}
              \/ tasks[j].tag \in client'.processed_tags \ client.processed_tags
              => j \in jids
    PROVE  Covers'
<1>1. /\ client'.at = "members" /\ client'.members = jids /\ client'.left = client.left \ {Id}
      /\ client'.info = client.info /\ SameAnswers
  BY DEF Expands
<1>2. tasks' = tasks /\ Listed' = Listed
  BY <1>1, SameServer DEF Listed
<1>3. \A j \in client.known \cap DOMAIN tasks : Showing(j) => Showing(j)'
  BY <1>2 DEF Showing
<1>4. \A j \in client.known \cap DOMAIN tasks : j \in jids => Showing(j)'
  BY <1>1 DEF Showing
<1>5. \A j \in client.known \cap DOMAIN tasks : Due(j) => Due(j)' \/ Showing(j)'
  BY <1>1, <1>2, <1>4 DEF Due
<1> QED
  BY <1>1, <1>3, <1>4, <1>5, CoverStep

(* Ids that are neither of a tag nor of a matrix stand for one job only.   *)
LEMMA IdOfJob ==
    ASSUME Informed, KnowsTags, Queried, Id \in Nat,
           NEW j \in client.known, j \in DOMAIN tasks, Id \in {j, tasks[j].matrix, tasks[j].tag}
    PROVE  /\ Id \in DOMAIN client.matrices => tasks[j].matrix = Id
           /\ Id \in client.tags \ DOMAIN client.matrices => tasks[j].tag = Id
           /\ Id \notin client.tags \cup DOMAIN client.matrices => j = Id
<1>1. /\ tasks[j].matrix # None => tasks[j].matrix \in DOMAIN client.matrices
      /\ tasks[j].tag \in client.tags \cup {None}
  BY DEF Informed, Knows, KnowsJobs, KnowsTags, Belongs
<1>2. Id # None
  BY NoneAssumption
<1>3. /\ j \notin client.tags \cup DOMAIN client.matrices
      /\ client.tags \cap DOMAIN client.matrices = {}
  BY DEF Informed, Knows, KnowsKinds, Jobs
<1> QED
  BY <1>1, <1>2, <1>3

(* A matrix, a tag that was asked for, a tag found through its job.        *)
LEMMA ShowGroupCovers ==
    ASSUME InformedOfTags, InOrder, Covers, UNCHANGED vars, client.mode # "last",
           ShowMatrix \/ ShowTag \/ Lump
    PROVE  Covers'
<1>1. /\ DOMAIN client = Fields /\ client.left # {} /\ client.left \subseteq Nat
      /\ Chosen /\ Queried /\ client.at # "members"
  BY DEF InformedOfTags, Informed, Knows, Numbers, ShowMatrix, ShowTag, Lump, Next_, Chosen,
     Queried
<1>2. Id \in Nat
  BY <1>1, IdIsLeft
<1>3. Informed /\ Base /\ KnowsTags
  BY DEF InformedOfTags, Informed
<1>4. CASE ShowMatrix
  <2>1. Id \in DOMAIN client.matrices /\ Expands("matrix", Id, client.matrices[Id])
        /\ client'.processed_tags = client.processed_tags
    BY <1>1, <1>4, ShowMatrixForm DEF ShowMatrix, Next_
  <2>2. ASSUME NEW j \in client.known \cap DOMAIN tasks, Id \in {j, tasks[j].matrix, tasks[j].tag}
        PROVE  j \in client.matrices[Id]
    <3>1. tasks[j].matrix = Id /\ Id # None
      BY <1>1, <1>2, <1>3, <2>1, <2>2, IdOfJob, NoneAssumption
    <3> QED
      BY <1>1, <1>3, <2>2, <3>1 DEF Informed, Knows, KnowsJobs, Belongs
  <2> QED
    BY <1>1, <2>1, <2>2, ExpandCovers
<1>5. ASSUME Answered, NEW t \in DOMAIN tags, NEW j \in DOMAIN tasks, tasks[j].tag = t
      PROVE  j \in tags[t]
  <2>1. t # None
    BY <1>3, <1>5, Types, MapAt, NoneAssumption DEF Base, ServerHolds, Issued
  <2> QED
    BY <1>3, <1>5, <2>1, AnswersAreTrue
<1>6. CASE ShowTag
  <2>1. /\ Answered /\ Id \in DOMAIN tags /\ client' = ExpandTag(Id)
        /\ Id \in client.tags \ DOMAIN client.matrices
    BY <1>6 DEF ShowTag, Next_
  <2>2. /\ Expands("tag", Id, tags[Id])
        /\ client'.processed_tags = client.processed_tags \cup {Id}
    BY <1>1, <2>1, ExpandTagForm
  <2>3. ASSUME NEW j \in client.known \cap DOMAIN tasks, Id \in {j, tasks[j].matrix, tasks[j].tag}
        PROVE  tasks[j].tag = Id
    BY <1>1, <1>2, <1>3, <2>1, <2>3, IdOfJob
  <2> QED
    BY <1>1, <1>5, <2>1, <2>2, <2>3, ExpandCovers
<1>7. CASE Lump
  <2>1. /\ Answered /\ client.item \in DOMAIN tags /\ client' = ExpandTag(client.item)
        /\ client.at = "lump"
    BY <1>7 DEF Lump
  <2>2. /\ Id \notin client.tags \cup DOMAIN client.matrices
        /\ Id \in DOMAIN tasks => tasks[Id].tag = client.item
    BY <1>1, <2>1 DEF InOrder, Once
  <2>3. /\ Expands("tag", client.item, tags[client.item])
        /\ client'.processed_tags = client.processed_tags \cup {client.item}
    BY <1>1, <2>1, ExpandTagForm
  <2>4. ASSUME NEW j \in client.known \cap DOMAIN tasks, Id \in {j, tasks[j].matrix, tasks[j].tag}
        PROVE  tasks[j].tag = client.item
    BY <1>1, <1>2, <1>3, <2>2, <2>4, IdOfJob
  <2> QED
    BY <1>1, <1>5, <2>1, <2>3, <2>4, ExpandCovers
<1> QED
  BY <1>4, <1>6, <1>7

(* A job is shown, or is gone, or has been shown under its tag.            *)
LEMMA ShowJobCovers ==
    ASSUME InformedOfTags, Covers, UNCHANGED vars, client.mode # "last", ShowJob
    PROVE  Covers'
<1>1. /\ DOMAIN client = Fields /\ client.left # {} /\ client.left \subseteq Nat
      /\ Chosen /\ Queried /\ client.at = "next"
      /\ Id \notin client.tags \cup DOMAIN client.matrices /\ client.info \in Seq(Item)
  BY DEF InformedOfTags, Informed, Knows, Numbers, ShowJob, Next_, Chosen, Queried
<1>2. Id \in Nat /\ Informed /\ KnowsTags
  BY <1>1, IdIsLeft DEF InformedOfTags
<1>3. /\ tasks' = tasks /\ SameAnswers /\ client'.processed_tags = client.processed_tags
      /\ client'.at \in {"next", "lump"}
  BY <1>1, SameServer, ShowJobForm
<1>4. ASSUME client'.info = client.info
      PROVE  \A j : Showing(j) => Showing(j)'
  BY <1>1, <1>4 DEF Showing, Listed
<1>5. CASE client'.at = "lump"
  <2>1. client'.left = client.left /\ client'.info = client.info
    BY <1>1, <1>5, ShowJobForm
  <2>2. \A j \in DOMAIN tasks : Due(j) => Due(j)'
    BY <1>3, <2>1 DEF Due
  <2> QED
    BY <1>1, <1>3, <1>4, <1>5, <2>1, <2>2, CoverStep
<1>6. ASSUME client'.left = client.left \ {Id}, NEW j \in client.known \cap DOMAIN tasks,
             Due(j), ~Due(j)'
      PROVE  j = Id
  <2>1. Id \in {j, tasks[j].matrix, tasks[j].tag}
    BY <1>3, <1>6 DEF Due
  <2> QED
    BY <1>1, <1>2, <1>6, <2>1, IdOfJob
<1>7. CASE /\ client'.at = "next" /\ client'.left = client.left \ {Id}
           /\ client'.info = client.info
           /\ Id \notin DOMAIN tasks \/ tasks[Id].tag \in client.processed_tags
  <2>1. Id \in client.known \cap DOMAIN tasks => Showing(Id)
    BY <1>1, <1>7 DEF Covers
  <2>2. \A j \in client.known \cap DOMAIN tasks : Due(j) => Due(j)' \/ Showing(j)'
    BY <1>4, <1>6, <1>7, <2>1
  <2> QED
    BY <1>1, <1>3, <1>4, <1>7, <2>2, CoverStep
<1>8. ASSUME NEW e \in Item, e = [kind |-> "job", id |-> Id, jobs |-> {Id}],
             client'.at = "next", client'.left = client.left \ {Id},
             client'.info = Append(client.info, e)
      PROVE  Covers'
  <2>1. e.jobs = {Id}
    BY <1>8
  <2>2. \A j : j \in Listed' <=> j \in Listed \/ j = Id
    BY <1>1, <1>8, <2>1, OneMoreListed
  <2>3. \A j : Showing(j) \/ j = Id => Showing(j)'
    BY <1>1, <2>2 DEF Showing
  <2>4. \A j \in client.known \cap DOMAIN tasks : Due(j) => Due(j)' \/ Showing(j)'
    BY <1>6, <1>8, <2>3
  <2> QED
    BY <1>1, <1>3, <1>8, <2>3, <2>4, CoverStep
<1>9. [kind |-> "job", id |-> Id, jobs |-> {Id}] \in Item
  BY <1>2 DEF Item
<1> QED
  BY <1>1, <1>5, <1>7, <1>8, <1>9, ShowJobForm

(* A member is looked up; it is listed if it is still there.               *)
LEMMA AskMemberCovers ==
    ASSUME InformedOfTags, Covers, UNCHANGED vars, client.mode # "last", AskMember
    PROVE  Covers'
<1>1. PICK j : j = Least(client.members)
  OBVIOUS
<1>2. DOMAIN client = Fields /\ Chosen /\ client.at = "members"
  BY DEF InformedOfTags, Informed, Knows, AskMember, Chosen
<1>3. client'.item.jobs = IF j \in DOMAIN tasks THEN client.item.jobs \cup {j}
                          ELSE client.item.jobs
  BY <1>1, AskedMember DEF InformedOfTags, Informed
<1>4. /\ client'.at = "members" /\ client'.members = client.members \ {j}
      /\ client'.left = client.left /\ client'.processed_tags = client.processed_tags
      /\ client'.info = client.info /\ SameAnswers
  BY <1>1, <1>2, AskMemberForm
<1>5. tasks' = tasks /\ Listed' = Listed
  BY <1>4, SameServer DEF Listed
<1>6. \A k \in DOMAIN tasks : /\ Showing(k) => Showing(k)'
                              /\ Due(k) => Due(k)'
  BY <1>2, <1>3, <1>4, <1>5 DEF Showing, Due
<1> QED
  BY <1>2, <1>4, <1>6, CoverStep

(* All members have been looked up.                                        *)
LEMMA EndItemCovers ==
    ASSUME InformedOfTags, Covers, UNCHANGED vars, client.mode # "last", EndItem
    PROVE  Covers'
<1>1. /\ DOMAIN client = Fields /\ Chosen /\ client.at = "members" /\ client.members = {}
      /\ client.item \in Item /\ client.info \in Seq(Item)
  BY DEF InformedOfTags, Informed, Knows, Numbers, EndItem, Chosen
<1>2. /\ client'.at = "next" /\ client'.left = client.left
      /\ client'.processed_tags = client.processed_tags
      /\ client'.info = Append(client.info, client.item) /\ SameAnswers
  BY <1>1, EndItemForm
<1>3. tasks' = tasks
  BY SameServer
<1>4. \A k : k \in Listed' <=> k \in Listed \/ k \in client.item.jobs
  BY <1>1, <1>2, OneMoreListed
<1>5. \A k \in DOMAIN tasks : /\ Showing(k) => Showing(k)'
                              /\ Due(k) => Due(k)'
  BY <1>1, <1>2, <1>3, <1>4 DEF Showing, Due
<1> QED
  BY <1>1, <1>2, <1>5, CoverStep

(* Nothing is due at the end.                                              *)
LEMMA EndListingCovers ==
    ASSUME InformedOfTags, Covers, UNCHANGED vars, client.mode # "last", EndListing
    PROVE  Covers'
<1>1. DOMAIN client = Fields /\ Chosen /\ client.at = "next" /\ client.left = {}
  BY DEF InformedOfTags, Informed, Knows, EndListing, Chosen
<1>2. client'.at = "done" /\ SameAnswers /\ SameWork
  BY <1>1, EndListingForm
<1>3. tasks' = tasks /\ Listed' = Listed
  BY <1>2, SameServer DEF Listed, SameWork
<1>4. \A k \in DOMAIN tasks : /\ Showing(k) => Showing(k)'
                              /\ Due(k) => Due(k)'
  BY <1>1, <1>2, <1>3 DEF Showing, Due, SameWork
<1> QED
  BY <1>1, <1>2, <1>4, CoverStep DEF SameWork

(* Every step.                                                             *)
LEMMA StepCovers ==
    InformedOfTags /\ NoRetagging /\ InOrder /\ Covers /\ [ClientNext]_clientVars => Covers'
<1> SUFFICES ASSUME InformedOfTags, NoRetagging, InOrder, Covers, [ClientNext]_clientVars
             PROVE  Covers'
  OBVIOUS
<1>1. Base /\ Knows /\ Numbers /\ KnowsTags /\ DOMAIN client = Fields
  BY DEF InformedOfTags, Informed, Knows
<1>2. ServerMoves \/ UNCHANGED clientVars => Covers'
  BY <1>1, ServerKeepsCover, StepOfServer DEF ServerMoves, clientVars
<1>3. ASSUME NEW mode, BeginListing(mode) PROVE Covers'
  BY <1>3, BeginForm DEF Covers, Chosen
<1>4. ReadRunning \/ ReadMatrices \/ ReadTags \/ AskTag \/ TagsAsked => Covers'
  BY <1>1, ReadRunningForm, ReadMatricesForm, ReadTagsForm, AskTagForm, TagsAskedForm
     DEF Covers, Chosen
<1>5. ASSUME UNCHANGED vars, \/ ChooseIds \/ ShowMatrix \/ ShowTag \/ ShowJob \/ Lump
                            \/ AskMember \/ EndItem \/ EndListing
      PROVE  Covers'
  <2>1. client'.mode = client.mode
    BY <1>1, <1>5, LaterForm DEF SameAnswers
  <2>2. CASE client.mode = "last"
    BY <2>1, <2>2 DEF Covers
  <2>3. CASE client.mode # "last"
    BY <1>1, <1>5, <2>3, ChooseCovers, ShowGroupCovers, ShowJobCovers, AskMemberCovers,
       EndItemCovers, EndListingCovers
  <2> QED
    BY <2>2, <2>3
<1> QED
  BY <1>2, <1>3, <1>4, <1>5, StepOfServer DEF Listing

(* What a listing covers when it is done.                                  *)
LEMMA CoversAll ==
    NoRetagging => (ClientSpec => [](InformedOfTags /\ Covers))
<1> SUFFICES ASSUME NoRetagging PROVE ClientSpec => [](InformedOfTags /\ Covers)
  OBVIOUS
<1>1. ClientInit => InformedOfTags /\ InOrder /\ Covers
  <2> SUFFICES ASSUME ClientInit PROVE InformedOfTags /\ InOrder /\ Covers
    OBVIOUS
  <2>1. ~Chosen
    BY DEF ClientInit, IdleClient, Chosen
  <2> QED
    BY <2>1, InitInformed DEF InOrder, Covers
<1>2. InformedOfTags /\ InOrder /\ Covers /\ [ClientNext]_clientVars
      => (InformedOfTags /\ InOrder /\ Covers)'
  BY StepInformedOfTags, StepInOrder, StepCovers
<1> QED
  BY <1>1, <1>2, PTL DEF ClientSpec

(* When a listing is done nothing is due any more.                         *)
LEMMA AllIsListed ==
    ASSUME InformedOfTags, Covers, client.at = "done", client.mode # "last"
    PROVE  Requested \cap DOMAIN tasks \subseteq Listed
<1>1. client.left = {} /\ \A j \in Requested \cap DOMAIN tasks : Showing(j) \/ Due(j)
  BY DEF Covers, Chosen
<1> QED
  BY <1>1 DEF Showing, Due

(* A listing that is long enough misses no job that was there throughout,  *)
(* although matrices and tags are looked into one after the other while    *)
(* jobs finish, are reaped and are added: list_jobs.                       *)
THEOREM ListingsAreComplete == NoRetagging => (ClientSpec => []ListingComplete)
<1>1. InformedOfTags /\ Covers => ListingComplete
  BY AllIsListed DEF ListingComplete, Throughout, Requested
<1> QED
  BY <1>1, CoversAll, PTL

(* `job ls` misses no job that is running throughout: list_jobs.           *)
THEOREM RunningIsShown == NoRetagging => (ClientSpec => []RunningShown)
<1>1. InformedOfTags /\ Covers => RunningShown
  BY AllIsListed DEF RunningShown, Throughout, Requested
<1> QED
  BY <1>1, CoversAll, PTL

-----------------------------------------------------------------------------
(* `last` shows the newest job, and nothing else.                          *)
SomeJob(ms) == client.jids # {} \/ DOMAIN ms = {} \/ HasJobs(ms)
JobsToName ==
    client.known # {} =>
        /\ client.at \in {"running", "matrices"} => SomeJob(matrices)
        /\ client.at = "tags" \/ Queried => SomeJob(client.matrices)
LastJob ==
    client.mode = "last" /\ client.known # {} /\ Chosen =>
        /\ client.at \in {"next", "done"}
        /\ client.at = "next" => \A k \in client.left : /\ k = Newest /\ k \in Jobs
                                                        /\ k \in client.specified
        /\ \A i \in DOMAIN client.info : /\ client.info[i].kind = "job"
                                         /\ client.info[i].id = Newest

(* A matrix that lost all its jobs is gone at once, and none is published  *)
(* while the listener serves ListJobs: if there were jobs, then the answer *)
(* has a job, or nothing at all.                                           *)
LEMMA ServingLeavesJobs ==
    ASSUME Informed, ServerMoves, Serving, SomeJob(matrices) PROVE SomeJob(matrices)'
<1>1. Base /\ Typing /\ client' = client
  BY DEF Informed, Base, ServerHolds, ServerMoves
<1>2. WorkThreadStep \/ \E j \in DOMAIN handles \cup copying : Environment(j)
  BY DEF Informed, Knows, ServerMoves, FinishRequest, MatrixAllocate, InsertTask, InsertLive,
     PublishMatrix, InsertTagged, InsertTag, Resume
<1>3. Keeps \/ Clones \/ Reap
  BY <1>1, <1>2, OtherBelongs
<1>4. CASE Keeps
  BY <1>1, <1>4 DEF Keeps, SomeJob, HasJobs
<1>5. CASE Clones
  <2>1. /\ DOMAIN matrices' = DOMAIN matrices
        /\ \A m \in DOMAIN matrices : matrices[m] \subseteq matrices'[m]
    BY <1>5 DEF Clones, InsertClone
  <2> QED
    BY <1>1, <2>1 DEF SomeJob, HasJobs
<1>6. CASE Reap
  <2>1. \/ UNCHANGED matrices
        \/ \E left : matrices' = Drop(left, {m \in DOMAIN left : left[m] = {}})
    BY <1>6 DEF Reap
  <2>2. UNCHANGED matrices \/ \A m \in DOMAIN matrices' : matrices'[m] # {}
    BY <2>1 DEF Drop
  <2> QED
    BY <1>1, <2>2 DEF SomeJob, HasJobs
<1> QED
  BY <1>3, <1>4, <1>5, <1>6

(* Every step.                                                             *)
LEMMA StepJobsToName == Informed /\ JobsToName /\ [ClientNext]_clientVars => JobsToName'
<1> SUFFICES ASSUME Informed, JobsToName, [ClientNext]_clientVars PROVE JobsToName'
  OBVIOUS
<1>1. DOMAIN client = Fields /\ Base
  BY DEF Informed, Knows
<1>2. CASE ServerMoves
  <2>1. client' = client
    BY <1>2 DEF ServerMoves
  <2>2. client.at \in {"running", "matrices"} => Serving
    BY DEF Serving
  <2>3. SomeJob(client.matrices) => SomeJob(client.matrices)'
    BY <2>1 DEF SomeJob, HasJobs
  <2> QED
    BY <1>2, <2>1, <2>2, <2>3, ServingLeavesJobs DEF JobsToName, Queried
<1>3. ASSUME UNCHANGED vars, NEW mode, BeginListing(mode) PROVE JobsToName'
  <2>1. /\ client'.at = "running" /\ client'.known = DOMAIN tasks
        /\ client'.jids = {j \in DOMAIN tasks : tasks[j].matrix = None}
        /\ Answered /\ matrices' = matrices
    BY <1>3, BeginForm, SameServer DEF BeginListing
  <2>2. ASSUME NEW k \in DOMAIN tasks PROVE client'.jids # {} \/ HasJobs(matrices)
    BY <1>1, <2>1, AnswersAreTrue DEF HasJobs
  <2> QED
    BY <2>1, <2>2 DEF JobsToName, SomeJob, Queried
<1>4. CASE UNCHANGED vars /\ ReadRunning
  <2>1. /\ client.at = "running" /\ client'.at = "matrices" /\ client'.known = client.known
        /\ client'.jids = client.jids /\ matrices' = matrices
    BY <1>1, <1>4, ReadRunningForm, SameServer DEF ReadRunning
  <2> QED
    BY <2>1 DEF JobsToName, SomeJob, Queried
<1>5. CASE UNCHANGED vars /\ ReadMatrices
  <2>1. /\ client.at = "matrices" /\ client'.at = "tags" /\ client'.known = client.known
        /\ client'.jids = client.jids /\ client'.matrices = matrices
    BY <1>1, <1>5, ReadMatricesForm DEF ReadMatrices
  <2> QED
    BY <2>1 DEF JobsToName, SomeJob, Queried
<1>6. CASE ReadTags
  <2>1. /\ client.at = "tags" /\ client'.at \in {"any_tags", "choose"}
        /\ client'.known = client.known /\ client'.jids = client.jids
        /\ client'.matrices = client.matrices
    BY <1>1, <1>6, ReadTagsForm DEF ReadTags
  <2> QED
    BY <2>1 DEF JobsToName, SomeJob
<1>7. CASE \/ AskTag \/ TagsAsked \/ ChooseIds \/ ShowMatrix \/ ShowTag \/ ShowJob \/ Lump
           \/ AskMember \/ EndItem \/ EndListing
  <2>1. SameAnswers /\ Queried /\ client'.at \notin {"idle", "running", "matrices", "tags"}
    BY <1>1, <1>7, LaterForm DEF Queried
  <2> QED
    BY <2>1 DEF JobsToName, SomeJob, SameAnswers
<1>8. CASE UNCHANGED clientVars
  BY <1>8, SameServer DEF clientVars, JobsToName, SomeJob, Queried
<1> QED
  BY <1>2, <1>3, <1>4, <1>5, <1>6, <1>7, <1>8, StepOfServer DEF Listing

(* The client's own steps once there is an answer.                         *)
LEMMA ShowLast ==
    ASSUME Informed, JobsToName, LastJob, client.mode = "last", client.known # {},
           \/ ChooseIds \/ ShowMatrix \/ ShowTag \/ ShowJob \/ Lump \/ AskMember \/ EndItem
           \/ EndListing
    PROVE  LastJob'
<1>1. /\ DOMAIN client = Fields /\ client.left \subseteq Nat /\ client.info \in Seq(Item)
      /\ Base /\ Knows
  BY DEF Informed, Knows, Numbers
<1>2. ASSUME SameAnswers PROVE Newest' = Newest /\ Jobs' = Jobs
  BY <1>2 DEF SameAnswers, Newest, Jobs, Expanded
<1>3. ASSUME client.at = "next", client.left # {}
      PROVE  /\ Id = Newest /\ Id \in client.specified /\ Id \in Nat
             /\ Id \notin client.tags \cup DOMAIN client.matrices
  <2>1. Id \in client.left /\ Id \in Nat
    BY <1>1, <1>3, IdIsLeft
  <2>2. Id \in Jobs /\ Id = Newest /\ Id \in client.specified
    BY <1>3, <2>1 DEF LastJob, Chosen
  <2>3. Queried
    BY <1>3 DEF Queried
  <2> QED
    BY <1>1, <2>1, <2>2, <2>3 DEF Knows, KnowsKinds
<1>4. CASE ChooseIds
  <2>1. client.info = << >>
    BY <1>1, <1>4 DEF Knows, StartsEmpty, ChooseIds, Chosen
  <2>2. Selected = {} /\ Specified = {Newest}
    BY DEF Selected, Specified
  <2>3. /\ client'.info = << >> /\ SameAnswers
        /\ \/ client'.at = "done"
           \/ /\ Counted # {} /\ client'.at = "next"
              /\ client'.left = {Newest} /\ client'.specified = {Newest}
    BY <1>1, <1>4, <2>1, <2>2, ChooseForm DEF ToShow
  <2>4. Counted # {} => Newest \in Jobs
    <3>1. SomeJob(client.matrices)
      BY <1>4 DEF JobsToName, ChooseIds, Queried
    <3> QED
      BY <1>1, <3>1, NewestOf DEF SomeJob, Counted
  <2> QED
    BY <1>2, <2>3, <2>4 DEF LastJob
<1>5. ~(ShowMatrix \/ ShowTag)
  BY <1>3 DEF ShowMatrix, ShowTag, Next_
<1>6. ~(Lump \/ AskMember \/ EndItem)
  BY DEF Lump, AskMember, EndItem, LastJob, Chosen
<1>7. CASE ShowJob
  <2>1. client.at = "next" /\ client.left # {}
    BY <1>7 DEF ShowJob, Next_
  <2>2. PICK e : e = [kind |-> "job", id |-> Id, jobs |-> {Id}]
    OBVIOUS
  <2>3. e \in Item /\ e.kind = "job" /\ e.id = Newest
    BY <1>3, <2>1, <2>2 DEF Item
  <2>4. /\ client'.at = "next" /\ client'.left \subseteq client.left
        /\ client'.info = client.info \/ client'.info = Append(client.info, e)
        /\ SameAnswers /\ SameChoice
    BY <1>1, <1>3, <1>7, <2>1, <2>2, ShowJobForm
  <2>5. /\ \A k \in client.left : k = Newest /\ k \in Jobs /\ k \in client.specified
        /\ \A i \in DOMAIN client.info : client.info[i].kind = "job" /\ client.info[i].id = Newest
    BY <2>1 DEF LastJob, Chosen
  <2>6. \A i \in DOMAIN client'.info : client'.info[i].kind = "job" /\ client'.info[i].id = Newest
    <3>1. CASE client'.info = client.info
      BY <2>5, <3>1
    <3>2. CASE client'.info = Append(client.info, e)
      <4>1. /\ DOMAIN client'.info = DOMAIN client.info \cup {Len(client.info) + 1}
            /\ client'.info[Len(client.info) + 1] = e
            /\ \A i \in DOMAIN client.info : client'.info[i] = client.info[i]
        BY <1>1, <2>3, <3>2, Appended
      <4> QED
        BY <2>3, <2>5, <4>1
    <3> QED
      BY <2>4, <3>1, <3>2
  <2> QED
    BY <1>2, <2>4, <2>5, <2>6 DEF LastJob, SameChoice
<1>8. CASE EndListing
  <2>1. /\ client.at = "next" /\ client'.at = "done" /\ client'.info = client.info /\ SameAnswers
    BY <1>1, <1>8, EndListingForm DEF EndListing, SameWork
  <2> QED
    BY <1>2, <2>1 DEF LastJob, Chosen
<1> QED
  BY <1>4, <1>5, <1>6, <1>7, <1>8

(* Every step.                                                             *)
LEMMA StepLastJob ==
    Informed /\ JobsToName /\ LastJob /\ [ClientNext]_clientVars => LastJob'
<1> SUFFICES ASSUME Informed, JobsToName, LastJob, [ClientNext]_clientVars PROVE LastJob'
  OBVIOUS
<1>1. DOMAIN client = Fields
  BY DEF Informed, Knows
<1>2. client' = client => LastJob'
  BY DEF LastJob, Chosen, Newest, Jobs, Expanded
<1>3. ASSUME NEW mode, BeginListing(mode) PROVE LastJob'
  BY <1>3, BeginForm DEF LastJob, Chosen
<1>4. ReadRunning \/ ReadMatrices \/ ReadTags \/ AskTag \/ TagsAsked => LastJob'
  BY <1>1, ReadRunningForm, ReadMatricesForm, ReadTagsForm, AskTagForm, TagsAskedForm
     DEF LastJob, Chosen
<1>5. ASSUME \/ ChooseIds \/ ShowMatrix \/ ShowTag \/ ShowJob \/ Lump \/ AskMember \/ EndItem
             \/ EndListing
      PROVE  LastJob'
  <2>1. client'.mode = client.mode /\ client'.known = client.known
    BY <1>1, <1>5, LaterForm DEF SameAnswers
  <2> QED
    BY <1>5, <2>1, ShowLast DEF LastJob
<1> QED
  BY <1>2, <1>3, <1>4, <1>5, StepOfServer DEF ServerMoves, Listing, clientVars

(* What `last` stands for is a job, and no job that was there when it was  *)
(* asked for is newer, if there was one: JobListMode::Last.                *)
THEOREM LastIsNewestJob == ClientSpec => []LastIsNewest
<1> DEFINE Inv == Informed /\ JobsToName /\ LastJob
<1>1. ClientInit => Inv
  <2> SUFFICES ASSUME ClientInit PROVE Inv
    OBVIOUS
  <2>1. Informed
    BY InitInformed DEF InformedOfTags
  <2>2. client.known = {}
    BY DEF ClientInit, IdleClient
  <2> QED
    BY <2>1, <2>2 DEF JobsToName, LastJob
<1>2. Inv /\ [ClientNext]_clientVars => Inv'
  BY StepInformed, StepJobsToName, StepLastJob
<1>3. Inv => LastIsNewest
  <2> SUFFICES ASSUME Inv, client.at = "done", client.mode = "last", client.known # {},
                      NEW i \in DOMAIN client.info
               PROVE  /\ client.info[i].kind = "job"
                      /\ \A j \in Throughout : j <= client.info[i].id
    BY DEF LastIsNewest
  <2>1. client.info[i].kind = "job" /\ client.info[i].id = Newest
    BY DEF LastJob, Chosen
  <2>2. ASSUME NEW j \in Throughout PROVE j <= Newest
    <3>1. \/ j \in client.jids
          \/ \E m \in DOMAIN client.matrices : j \in client.matrices[m]
      BY <2>2 DEF Informed, Knows, KnowsJobs, Belongs, Throughout, Queried
    <3>2. Counted # {}
      BY <3>1 DEF Counted
    <3> QED
      BY <3>1, <3>2, NewestOf DEF Informed
  <2> QED
    BY <2>1, <2>2
<1> QED
  BY <1>1, <1>2, <1>3, PTL DEF ClientSpec
=============================================================================
