---------------------------- MODULE CopierProofs ----------------------------
(***************************************************************************)
(* Proofs about Copier, for any number of jobs, retries and failures: its  *)
(* types, that no copy is lost, and that it implements CopyService.        *)
(***************************************************************************)
EXTENDS Copier, FiniteSetTheorems, TLAPS

(* The locals of the thread mean something only at the points where the    *)
(* code has them: what is left to check is ongoing and not yet finished.   *)
Locals == /\ copier.at # "check" => copier.todo = {} /\ copier.to_remove = {}
          /\ Serving => copier.hand = {}
          /\ copier.todo \subseteq DOMAIN ongoing
          /\ copier.todo \cap copier.to_remove = {}

CopierInv == TypeOK /\ Locals /\ NoLostCopy

-----------------------------------------------------------------------------
(* push_back adds one jid to those in the queue.                           *)
LEMMA QueueGrows ==
    ASSUME incoming \in Seq(CopyJobInfo), NEW e \in CopyJobInfo,
           incoming' = Append(incoming, e)
    PROVE  incoming' \in Seq(CopyJobInfo) /\ Queued' = Queued \cup {e.jid}
<1>1. incoming' \in Seq(CopyJobInfo) /\ Len(incoming') = Len(incoming) + 1
  OBVIOUS
<1>2. \A i \in DOMAIN incoming : i \in DOMAIN incoming' /\ incoming'[i] = incoming[i]
  OBVIOUS
<1>3. Len(incoming) + 1 \in DOMAIN incoming' /\ incoming'[Len(incoming) + 1] = e
  OBVIOUS
<1>4. \A i \in DOMAIN incoming' : i \in DOMAIN incoming \/ i = Len(incoming) + 1
  BY <1>1
<1> QED
  BY <1>1, <1>2, <1>3, <1>4 DEF Queued

(* pop_front takes the jid of the head, which may be queued once more.     *)
LEMMA QueueShrinks ==
    ASSUME incoming \in Seq(CopyJobInfo), incoming # << >>, incoming' = Tail(incoming)
    PROVE  /\ incoming' \in Seq(CopyJobInfo)
           /\ Head(incoming) \in CopyJobInfo
           /\ Queued = Queued' \cup {Head(incoming).jid}
<1>1. /\ incoming' \in Seq(CopyJobInfo) /\ Head(incoming) \in CopyJobInfo
      /\ Len(incoming') = Len(incoming) - 1 /\ Head(incoming) = incoming[1]
      /\ 1 \in DOMAIN incoming
  OBVIOUS
<1>2. \A i \in DOMAIN incoming' : i + 1 \in DOMAIN incoming /\ incoming'[i] = incoming[i + 1]
  OBVIOUS
<1>3. \A i \in DOMAIN incoming : i # 1 => i - 1 \in DOMAIN incoming' /\ incoming[i] = incoming'[i - 1]
  OBVIOUS
<1>4. ASSUME NEW i \in DOMAIN incoming
      PROVE  incoming[i].jid \in Queued' \cup {Head(incoming).jid}
  <2>1. CASE i = 1
    BY <1>1, <2>1
  <2>2. CASE i # 1
    BY <1>3, <2>2 DEF Queued
  <2> QED
    BY <2>1, <2>2
<1>5. Queued' \cup {Head(incoming).jid} \subseteq Queued
  BY <1>1, <1>2 DEF Queued
<1>6. Queued \subseteq Queued' \cup {Head(incoming).jid}
  BY <1>4 DEF Queued
<1> QED
  BY <1>1, <1>5, <1>6

(* The push_back of a retry: whether or not the same request is left out   *)
(* because it is queued often enough, the job is in the queue afterwards.  *)
LEMMA AgainQueued ==
    ASSUME TypeOK, NEW j \in DOMAIN ongoing, ongoing[j].attempt < RETRIES,
           incoming' = Again(j)
    PROVE  incoming' \in Seq(CopyJobInfo) /\ Queued' = Queued \cup {j}
<1> DEFINE new  == [jid |-> j, attempt |-> ongoing[j].attempt + 1]
           same == {i \in DOMAIN incoming : incoming[i] = new}
<1>1. incoming \in Seq(CopyJobInfo) /\ new \in CopyJobInfo
  BY CopierAssumption DEF TypeOK, CopyJobInfo, ResultsInfo
<1>2. CASE Cardinality(same) < MaxDuplicates
  <2>1. incoming' = Append(incoming, new)
    BY <1>2 DEF Again
  <2> QED
    BY <1>1, <2>1, QueueGrows
<1>3. CASE ~(Cardinality(same) < MaxDuplicates)
  <2>1. incoming' = incoming
    BY <1>3 DEF Again
  <2>2. same # {}
    BY <1>3, FS_EmptySet, CopierAssumption
  <2>3. j \in Queued
    BY <2>2 DEF Queued
  <2> QED
    BY <1>1, <2>1, <2>3 DEF Queued
<1> QED
  BY <1>2, <1>3

(* What a failed copy leads to: it is queued again, or its failure is      *)
(* reported.                                                               *)
GaveUp(j) == Queued' = Queued /\ flags' = With(flags, j, "OtherFailure")
TryAgain(j) == Queued' = Queued \cup {j} /\ flags' = flags

(* A copy that goes wrong is queued again until its attempts are used up.  *)
LEMMA RetriedOrReported ==
    ASSUME TypeOK, NEW j \in DOMAIN ongoing, RetryOrGiveUp(j)
    PROVE  /\ incoming' \in Seq(CopyJobInfo)
           /\ IF ongoing[j].attempt < RETRIES THEN TryAgain(j) ELSE GaveUp(j)
<1>1. CASE ongoing[j].attempt < RETRIES
  BY <1>1, AgainQueued DEF RetryOrGiveUp, TryAgain
<1>2. CASE ~(ongoing[j].attempt < RETRIES)
  BY <1>2 DEF RetryOrGiveUp, GaveUp, TypeOK, Queued
<1> QED
  BY <1>1, <1>2

(* A report is a well-formed entry of copying_flags.                       *)
LEMMA FlagTyped ==
    ASSUME TypeOK, NEW j \in Jids, NEW r \in Results, flags' = With(flags, j, r)
    PROVE  /\ DOMAIN flags' = DOMAIN flags \cup {j}
           /\ DOMAIN flags' \subseteq Jids
           /\ \A k \in DOMAIN flags' : flags'[k] \in Results
BY DEF TypeOK, With

(* The check of one copy that keeps ongoing: the thread moves on, and the  *)
(* job is still held or was reported on.                                   *)
LEMMA CheckedKeeps ==
    ASSUME CopierInv, NEW j \in copier.todo, copier.at = "check",
           Finished(j) \/ Checked(j),
           UNCHANGED <<ongoing, waiting>>, faults' \in 0..MaxFaults,
           incoming' \in Seq(CopyJobInfo),
           DOMAIN flags' \subseteq Jids, \A k \in DOMAIN flags' : flags'[k] \in Results,
           Queued \subseteq Queued', DOMAIN flags \subseteq DOMAIN flags',
           Finished(j) => j \in Queued' \cup DOMAIN flags'
    PROVE  CopierInv'
<1>1. j \in Jids /\ copier \in Copier
  BY DEF CopierInv, TypeOK, Copier
<1>2. /\ copier' \in Copier /\ copier'.at = "check" /\ copier'.hand = copier.hand
      /\ copier'.todo = copier.todo \ {j}
      /\ copier'.to_remove = copier.to_remove
           \/ (Finished(j) /\ copier'.to_remove = copier.to_remove \cup {j})
  <2>1. CASE Finished(j)
    BY <1>1, <2>1 DEF Finished, Copier
  <2>2. CASE Checked(j)
    BY <1>1, <2>2 DEF Checked, Copier
  <2> QED
    BY <2>1, <2>2
<1>3. TypeOK'
  BY <1>2 DEF CopierInv, TypeOK
<1>4. Locals'
  BY <1>2 DEF CopierInv, Locals, Serving
<1>5. Queued \cup (DOMAIN ongoing \ copier.to_remove) \subseteq
        Queued' \cup (DOMAIN ongoing' \ copier'.to_remove) \cup DOMAIN flags'
  BY <1>2
<1>6. NoLostCopy'
  BY <1>5 DEF CopierInv, NoLostCopy, Serving
<1> QED
  BY <1>3, <1>4, <1>6 DEF CopierInv

-----------------------------------------------------------------------------
(* Initially nothing is queued, under way or waited for.                   *)
LEMMA InitCopier == Init => CopierInv
<1> SUFFICES ASSUME Init PROVE CopierInv
  OBVIOUS
<1>1. TypeOK
  BY CopierAssumption DEF Init, TypeOK, Copier
<1>2. Locals /\ NoLostCopy
  BY DEF Init, Locals, NoLostCopy, Serving
<1> QED
  BY <1>1, <1>2 DEF CopierInv

(* The steps of the work thread.                                           *)
LEMMA WorkThreadCopier == CopierInv /\ WorkThread => CopierInv'
<1> SUFFICES ASSUME CopierInv, NEW j \in Jids, Copy(j) \/ Abandon(j) \/ TakeFlag(j)
             PROVE  CopierInv'
  BY DEF WorkThread
<1>1. CASE Copy(j)
  <2>1. [jid |-> j, attempt |-> 0] \in CopyJobInfo
    BY CopierAssumption DEF CopyJobInfo
  <2>2. incoming' \in Seq(CopyJobInfo) /\ Queued' = Queued \cup {j}
    BY <1>1, <2>1, QueueGrows DEF Copy, CopierInv, TypeOK
  <2>3. TypeOK' /\ Locals' /\ NoLostCopy'
    BY <1>1, <2>2 DEF Copy, CopierInv, TypeOK, Locals, NoLostCopy, Serving
  <2> QED
    BY <2>3 DEF CopierInv
<1>2. CASE Abandon(j)
  BY <1>2 DEF Abandon, CopierInv, TypeOK, Locals, NoLostCopy, Serving, Queued
<1>3. CASE TakeFlag(j)
  BY <1>3 DEF TakeFlag, Without, CopierInv, TypeOK, Locals, NoLostCopy, Serving, Queued
<1> QED
  BY <1>1, <1>2, <1>3

(* What happens to the processes.                                          *)
LEMMA RsyncCopier == CopierInv /\ Rsync => CopierInv'
<1> SUFFICES ASSUME CopierInv, NEW j \in DOMAIN ongoing, RsyncExits(j) \/ RsyncLate(j)
             PROVE  CopierInv'
  BY DEF Rsync
<1>1. /\ DOMAIN ongoing' = DOMAIN ongoing
      /\ \A k \in DOMAIN ongoing' : ongoing'[k] \in ResultsInfo
  BY DEF RsyncExits, RsyncLate, CopierInv, TypeOK, ResultsInfo
<1>2. faults' \in 0..MaxFaults /\ UNCHANGED <<incoming, flags, copier, waiting>>
  BY CopierAssumption DEF RsyncExits, RsyncLate, Fault, CopierInv, TypeOK
<1> QED
  BY <1>1, <1>2 DEF CopierInv, TypeOK, Locals, NoLostCopy, Serving, Queued

(* The turns of the loop that empties the queue.                           *)
LEMMA StartCopier ==
    CopierInv /\ (Wake \/ StartCopy \/ StartFails \/ QueueEmpty) => CopierInv'
<1> SUFFICES ASSUME CopierInv, Wake \/ StartCopy \/ StartFails \/ QueueEmpty
             PROVE  CopierInv'
  OBVIOUS
<1> USE DEF CopierInv
<1>1. CASE Wake
  BY <1>1 DEF Wake, BeginCheck, TypeOK, Copier, Locals, NoLostCopy, Serving, Queued
<1>2. CASE QueueEmpty
  <2>1. /\ copier' = BeginCheck /\ copier.at = "start"
        /\ UNCHANGED <<incoming, ongoing, flags, waiting, faults>>
    BY <1>2 DEF QueueEmpty
  <2>2. /\ copier'.at = "check" /\ copier'.todo = DOMAIN ongoing
        /\ copier'.to_remove = {} /\ copier'.hand = {} /\ copier' \in Copier
    BY <2>1 DEF BeginCheck, TypeOK, Copier, Locals, Serving
  <2>3. TypeOK' /\ Locals' /\ NoLostCopy'
    BY <2>1, <2>2 DEF TypeOK, Locals, NoLostCopy, Serving, Queued
  <2> QED
    BY <2>3
<1>3. ASSUME copier.at = "start", incoming # << >>, incoming' = Tail(incoming)
      PROVE  /\ incoming' \in Seq(CopyJobInfo)
             /\ Head(incoming) \in CopyJobInfo
             /\ Queued = Queued' \cup {Head(incoming).jid}
  BY <1>3, QueueShrinks DEF TypeOK
<1>4. CASE StartCopy
  <2>1. /\ DOMAIN ongoing' = DOMAIN ongoing \cup {Head(incoming).jid}
        /\ \A k \in DOMAIN ongoing' : ongoing'[k] \in ResultsInfo
    BY <1>3, <1>4 DEF StartCopy, With, TypeOK, ResultsInfo, CopyJobInfo
  <2>2. TypeOK'
    BY <1>3, <1>4, <2>1 DEF StartCopy, TypeOK, CopyJobInfo
  <2>3. Locals' /\ NoLostCopy'
    BY <1>3, <1>4, <2>1 DEF StartCopy, Locals, NoLostCopy, Serving
  <2> QED
    BY <2>2, <2>3
<1>5. CASE StartFails
  <2>1. /\ DOMAIN ongoing' = DOMAIN ongoing \ {Head(incoming).jid}
        /\ \A k \in DOMAIN ongoing' : ongoing'[k] = ongoing[k]
    BY <1>5 DEF StartFails, Without
  <2>2. PICK at \in {"stuck", "dead"} :
          copier' = [copier EXCEPT !.at = at, !.hand = {Head(incoming).jid}]
    BY <1>5 DEF StartFails
  <2>3. Head(incoming).jid \in Jids
    BY <1>3, <1>5 DEF StartFails, CopyJobInfo
  <2>4. /\ ~Serving' /\ copier'.at # "check"
        /\ copier'.todo = copier.todo /\ copier'.to_remove = copier.to_remove
        /\ copier' \in Copier
    BY <2>2, <2>3 DEF TypeOK, Copier, Serving
  <2>5. /\ incoming' \in Seq(CopyJobInfo) /\ UNCHANGED <<flags, waiting>>
        /\ faults' \in 0..MaxFaults
    BY <1>3, <1>5, CopierAssumption DEF StartFails, Fault, TypeOK
  <2>6. TypeOK'
    BY <2>1, <2>4, <2>5 DEF TypeOK
  <2>7. Locals' /\ NoLostCopy'
    BY <1>5, <2>4 DEF StartFails, Locals, NoLostCopy
  <2> QED
    BY <2>6, <2>7
<1> QED
  BY <1>1, <1>2, <1>4, <1>5

(* The check of one ongoing copy.                                          *)
Check(j) == \/ CheckSuccess(j) \/ CheckUnknownHost(j) \/ CheckFailed(j)
            \/ CheckError(j) \/ CheckLate(j) \/ StillCopying(j)

(* One pass over an ongoing copy (copier.rs, 146-252) keeps CopierInv.     *)
LEMMA CheckCopier ==
    ASSUME CopierInv, NEW j \in copier.todo, Check(j)
    PROVE  CopierInv'
<1> USE DEF CopierInv
<1>1. j \in DOMAIN ongoing /\ j \in Jids /\ copier.at = "check"
  BY DEF Check, Locals, TypeOK, Copier, CheckSuccess, CheckUnknownHost, CheckFailed,
         CheckError, CheckLate, StillCopying, Checking
<1>2. UNCHANGED <<ongoing, waiting>> /\ faults' \in 0..MaxFaults
  BY CopierAssumption DEF Check, TypeOK, Fault, CheckSuccess, CheckUnknownHost,
         CheckFailed, CheckError, CheckLate, StillCopying
<1>3. CASE CheckSuccess(j) \/ CheckUnknownHost(j)
  <2>1. PICK r \in Results : flags' = With(flags, j, r)
    BY <1>3 DEF CheckSuccess, CheckUnknownHost, Results
  <2>2. Finished(j) /\ incoming' = incoming
    BY <1>3 DEF CheckSuccess, CheckUnknownHost
  <2>3. /\ DOMAIN flags' = DOMAIN flags \cup {j}
        /\ DOMAIN flags' \subseteq Jids
        /\ \A k \in DOMAIN flags' : flags'[k] \in Results
    BY <1>1, <2>1, FlagTyped
  <2>4. incoming' \in Seq(CopyJobInfo) /\ Queued \subseteq Queued'
    BY <2>2 DEF TypeOK, Queued
  <2> QED
    BY <1>1, <1>2, <2>2, <2>3, <2>4, CheckedKeeps
<1>4. CASE CheckFailed(j) \/ CheckError(j) \/ CheckLate(j)
  <2>1. /\ RetryOrGiveUp(j)
        /\ \/ Finished(j)
           \/ Checked(j) /\ ongoing[j].attempt < RETRIES
    <3>1. CASE CheckFailed(j)
      BY <3>1 DEF CheckFailed
    <3>2. CASE CheckError(j)
      BY <3>2 DEF CheckError
    <3>3. CASE CheckLate(j)
      BY <3>3 DEF CheckLate
    <3> QED
      BY <1>4, <3>1, <3>2, <3>3
  <2>2. /\ incoming' \in Seq(CopyJobInfo)
        /\ IF ongoing[j].attempt < RETRIES THEN TryAgain(j) ELSE GaveUp(j)
    BY <1>1, <2>1, RetriedOrReported
  <2>3. CASE TryAgain(j)
    BY <1>1, <1>2, <2>1, <2>2, <2>3, CheckedKeeps DEF TryAgain, TypeOK
  <2>4. CASE GaveUp(j)
    <3>1. /\ DOMAIN flags' = DOMAIN flags \cup {j}
          /\ DOMAIN flags' \subseteq Jids
          /\ \A k \in DOMAIN flags' : flags'[k] \in Results
      BY <1>1, <2>4, FlagTyped DEF GaveUp, Results
    <3> QED
      BY <1>1, <1>2, <2>1, <2>2, <2>4, <3>1, CheckedKeeps DEF GaveUp
  <2> QED
    BY <2>2, <2>3, <2>4
<1>5. CASE StillCopying(j)
  <2>1. Checked(j) /\ UNCHANGED <<incoming, flags>>
    BY <1>5 DEF StillCopying
  <2>2. ~Finished(j) \/ copier.to_remove = copier.to_remove \cup {j}
    BY <1>1, <2>1 DEF Checked, Finished, TypeOK, Copier
  <2> QED
    BY <1>1, <1>2, <2>1, <2>2 DEF Checked, TypeOK, Copier, Locals, NoLostCopy, Serving, Queued
<1> QED
  BY <1>3, <1>4, <1>5 DEF Check

(* So does dropping the copies that are finished from ongoing.             *)
LEMMA EndCheckCopier == CopierInv /\ EndCheck => CopierInv'
<1> SUFFICES ASSUME CopierInv, EndCheck PROVE CopierInv'
  OBVIOUS
<1>1. /\ DOMAIN ongoing' = DOMAIN ongoing \ copier.to_remove
      /\ \A k \in DOMAIN ongoing' : ongoing'[k] = ongoing[k]
  BY DEF EndCheck, Without
<1>2. /\ copier'.at = "sleep" /\ copier'.todo = {} /\ copier'.to_remove = {}
      /\ copier'.hand = copier.hand /\ copier' \in Copier /\ copier.at = "check"
  BY DEF EndCheck, CopierInv, TypeOK, Copier
<1>3. UNCHANGED <<incoming, flags, waiting, faults>>
  BY DEF EndCheck
<1>4. TypeOK' /\ Locals'
  BY <1>1, <1>2, <1>3 DEF CopierInv, TypeOK, Locals, Serving
<1>5. NoLostCopy'
  BY <1>1, <1>2, <1>3 DEF CopierInv, NoLostCopy, Serving, Queued
<1> QED
  BY <1>4, <1>5 DEF CopierInv

(* Every step, and stuttering.                                             *)
LEMMA NextCopier == CopierInv /\ [Next]_vars => CopierInv'
<1> SUFFICES ASSUME CopierInv, [Next]_vars PROVE CopierInv'
  OBVIOUS
<1>1. CASE Loop
  BY <1>1, StartCopier, CheckCopier, EndCheckCopier DEF Loop, Check
<1>2. CASE WorkThread
  BY <1>2, WorkThreadCopier
<1>3. CASE Rsync
  BY <1>3, RsyncCopier
<1>4. CASE UNCHANGED vars
  BY <1>4 DEF vars, CopierInv, TypeOK, Locals, NoLostCopy, Serving, Queued
<1> QED
  BY <1>1, <1>2, <1>3, <1>4 DEF Next

(* The invariant of the copier thread, in every instance.                  *)
THEOREM CopierInvariant == Spec => []CopierInv
BY InitCopier, NextCopier, PTL DEF Spec

(* Every copy that is queued, under way or reported on is well-formed and  *)
(* none is attempted more than RETRIES times over (copier.rs:197).         *)
THEOREM CopierTypes == Spec => []TypeOK
BY CopierInvariant, PTL DEF CopierInv

(* As long as the thread serves, a task that waits for its results has a   *)
(* copy that is queued or under way, or a report to read, however often    *)
(* copies fail, are late or are started twice (copier.rs, copier_thread);  *)
(* only the two ends of the thread in StartFails lose one.                 *)
THEOREM CopierLosesNothing == Spec => []NoLostCopy
BY CopierInvariant, PTL DEF CopierInv

-----------------------------------------------------------------------------
(* The refinement.  Every step of Copier is a step of CopyService or       *)
(* leaves its variables, Held and flags, alone.                            *)
ServiceStep == Service!Next \/ UNCHANGED <<Held, flags>>

(* Nothing is held at first, and nothing reported.                         *)
LEMMA ServiceInit == Init => Service!Init
BY DEF Init, Service!Init, Held, Queued

(* A report on a job that is held is a Report of the service.              *)
LEMMA ReportIsService ==
    ASSUME NEW j \in Jids, NEW r \in Results, j \in Held,
           flags' = With(flags, j, r), Held' = Held \/ Held' = Held \ {j}
    PROVE  ServiceStep
BY DEF ServiceStep, Service!Next, Service!Report, With

(* The calls of the work thread are requests and takes of CopyService.     *)
LEMMA WorkThreadIsService == CopierInv /\ WorkThread => ServiceStep
<1> SUFFICES ASSUME CopierInv, NEW j \in Jids, Copy(j) \/ Abandon(j) \/ TakeFlag(j)
             PROVE  ServiceStep
  BY DEF WorkThread
<1>1. CASE Copy(j)
  <2>1. [jid |-> j, attempt |-> 0] \in CopyJobInfo
    BY CopierAssumption DEF CopyJobInfo
  <2>2. Queued' = Queued \cup {j}
    BY <1>1, <2>1, QueueGrows DEF Copy, CopierInv, TypeOK
  <2>3. Held' = Held \cup {j} /\ j \notin Held
    BY <1>1, <2>2 DEF Copy, Held, CopierInv, Locals, Serving
  <2> QED
    BY <1>1, <2>3 DEF Copy, ServiceStep, Service!Next, Service!Request
<1>2. CASE Abandon(j)
  BY <1>2 DEF Abandon, ServiceStep, Held, Queued
<1>3. CASE TakeFlag(j)
  BY <1>3 DEF TakeFlag, Without, ServiceStep, Held, Queued, Service!Next, Service!Take
<1> QED
  BY <1>1, <1>2, <1>3

(* Starting a copy, or failing to, is none of its steps.                   *)
LEMMA StartIsService ==
    CopierInv /\ (Wake \/ StartCopy \/ StartFails \/ QueueEmpty \/ EndCheck) => ServiceStep
<1> SUFFICES ASSUME CopierInv, Wake \/ StartCopy \/ StartFails \/ QueueEmpty \/ EndCheck
             PROVE  UNCHANGED <<Held, flags>>
  BY DEF ServiceStep
<1> USE DEF CopierInv
<1>1. CASE Wake
  BY <1>1 DEF Wake, BeginCheck, TypeOK, Copier, Locals, Held, Queued
<1>2. CASE QueueEmpty
  <2>1. /\ copier'.to_remove = {} /\ copier'.hand = {}
        /\ copier.to_remove = {} /\ copier.hand = {}
    BY <1>2 DEF QueueEmpty, BeginCheck, TypeOK, Copier, Locals, Serving
  <2> QED
    BY <1>2, <2>1 DEF QueueEmpty, Held, Queued
<1>3. CASE StartCopy
  <2>1. Queued = Queued' \cup {Head(incoming).jid}
    BY <1>3, QueueShrinks DEF StartCopy, TypeOK
  <2>2. DOMAIN ongoing' = DOMAIN ongoing \cup {Head(incoming).jid}
    BY <1>3 DEF StartCopy, With
  <2>3. copier.to_remove = {} /\ UNCHANGED <<copier, flags>>
    BY <1>3 DEF StartCopy, Locals
  <2> QED
    BY <2>1, <2>2, <2>3 DEF Held
<1>4. CASE StartFails
  <2>1. Queued = Queued' \cup {Head(incoming).jid}
    BY <1>4, QueueShrinks DEF StartFails, TypeOK
  <2>2. DOMAIN ongoing' = DOMAIN ongoing \ {Head(incoming).jid}
    BY <1>4 DEF StartFails, Without
  <2>3. /\ copier.to_remove = {} /\ copier.hand = {} /\ UNCHANGED flags
        /\ copier'.to_remove = {} /\ copier'.hand = {Head(incoming).jid}
    BY <1>4 DEF StartFails, Locals, TypeOK, Copier, Serving
  <2> QED
    BY <2>1, <2>2, <2>3 DEF Held
<1>5. CASE EndCheck
  <2>1. DOMAIN ongoing' = DOMAIN ongoing \ copier.to_remove
    BY <1>5 DEF EndCheck, Without
  <2>2. copier'.to_remove = {} /\ copier'.hand = copier.hand
    BY <1>5 DEF EndCheck, TypeOK, Copier
  <2>3. Queued' = Queued /\ UNCHANGED flags
    BY <1>5 DEF EndCheck, Queued
  <2> QED
    BY <2>1, <2>2, <2>3 DEF Held
<1> QED
  BY <1>1, <1>2, <1>3, <1>4, <1>5

(* What a pass reports is a report on a copy that is held.                 *)
LEMMA CheckIsService ==
    ASSUME CopierInv, NEW j \in copier.todo, Check(j)
    PROVE  ServiceStep
<1> USE DEF CopierInv
<1>1. /\ j \in DOMAIN ongoing /\ j \in Jids /\ j \in Held /\ ongoing' = ongoing
  BY DEF Check, Locals, TypeOK, Copier, Held, CheckSuccess, CheckUnknownHost, CheckFailed,
         CheckError, CheckLate, StillCopying, Checking
<1>2. ASSUME Finished(j) \/ Checked(j)
      PROVE  /\ copier'.hand = copier.hand
             /\ copier'.to_remove = copier.to_remove
                  \/ copier'.to_remove = copier.to_remove \cup {j}
  <2>1. CASE Finished(j)
    BY <2>1 DEF Finished, TypeOK, Copier
  <2>2. CASE Checked(j)
    BY <2>2 DEF Checked, TypeOK, Copier
  <2> QED
    BY <1>2, <2>1, <2>2
<1>3. CASE CheckSuccess(j) \/ CheckUnknownHost(j)
  <2>1. PICK r \in Results : flags' = With(flags, j, r)
    BY <1>3 DEF CheckSuccess, CheckUnknownHost, Results
  <2>2. Finished(j) /\ Queued' = Queued
    BY <1>3 DEF CheckSuccess, CheckUnknownHost, Queued
  <2>3. Held' = Held \/ Held' = Held \ {j}
    BY <1>1, <1>2, <2>2 DEF Held
  <2> QED
    BY <1>1, <2>1, <2>3, ReportIsService
<1>4. CASE CheckFailed(j) \/ CheckError(j) \/ CheckLate(j)
  <2>1. RetryOrGiveUp(j) /\ (Finished(j) \/ Checked(j))
    <3>1. CASE CheckFailed(j)
      BY <3>1 DEF CheckFailed
    <3>2. CASE CheckError(j)
      BY <3>2 DEF CheckError
    <3>3. CASE CheckLate(j)
      BY <3>3 DEF CheckLate
    <3> QED
      BY <1>4, <3>1, <3>2, <3>3
  <2>2. TryAgain(j) \/ GaveUp(j)
    BY <1>1, <2>1, RetriedOrReported
  <2>3. CASE TryAgain(j)
    <3>1. Held' = Held
      BY <1>1, <1>2, <2>1, <2>3 DEF TryAgain, Held
    <3> QED
      BY <2>3, <3>1 DEF TryAgain, ServiceStep
  <2>4. CASE GaveUp(j)
    <3>1. Held' = Held \/ Held' = Held \ {j}
      BY <1>1, <1>2, <2>1, <2>4 DEF GaveUp, Held
    <3> QED
      BY <1>1, <2>4, <3>1, ReportIsService DEF GaveUp, Results
  <2> QED
    BY <2>2, <2>3, <2>4
<1>5. CASE StillCopying(j)
  <2>1. copier'.to_remove = copier.to_remove /\ copier'.hand = copier.hand
    BY <1>5 DEF StillCopying, Checked, TypeOK, Copier
  <2> QED
    BY <1>1, <1>5, <2>1 DEF StillCopying, ServiceStep, Held, Queued
<1> QED
  BY <1>3, <1>4, <1>5 DEF Check

(* Every step of the copier thread is a step of CopyService, or none.      *)
LEMMA NextIsService == CopierInv /\ [Next]_vars => [Service!Next]_<<Held, flags>>
<1> SUFFICES ASSUME CopierInv, [Next]_vars PROVE ServiceStep
  BY DEF ServiceStep
<1>1. CASE Loop
  BY <1>1, StartIsService, CheckIsService DEF Loop, Check
<1>2. CASE WorkThread
  BY <1>2, WorkThreadIsService
<1>3. CASE Rsync
  BY <1>3 DEF Rsync, RsyncExits, RsyncLate, ServiceStep, Held, Queued
<1>4. CASE UNCHANGED vars
  BY <1>4 DEF vars, ServiceStep, Held, Queued
<1> QED
  BY <1>1, <1>2, <1>3, <1>4 DEF Next

(* The copier thread keeps the promise that Server relies on: a requested  *)
(* copy is held until it is reported on, nothing is reported that was not  *)
(* requested, and a report stays until it is taken or replaced.            *)
THEOREM CopierImplementsService == Spec => ImplementsService
<1>1. Init => Service!Init
  BY ServiceInit
<1>2. CopierInv /\ [Next]_vars => [Service!Next]_<<Held, flags>>
  BY NextIsService
<1> QED
  BY <1>1, <1>2, CopierInvariant, PTL DEF Spec, ImplementsService, Service!Spec
==============================================================================
