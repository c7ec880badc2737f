------------------------------ MODULE JobStatus ------------------------------
(***************************************************************************)
(* What a client that polls JobStatus sees of the tasks: a status, the     *)
(* machine, and whether there is a results path.  The transitions allowed  *)
(* here are those of the state diagram of docs/architecture.html, plus     *)
(* what follows from CopyingResults and from cancelling a finished task.   *)
(***************************************************************************)
CONSTANTS Jids, Machines, None

Status == {"Waiting", "Held", "Running", "Copyresults", "Done", "Failed", "Canceled"}
View == [status : Status, machine : Machines \cup {None}, output : BOOLEAN]

VARIABLE view   \* jid -> View, for the tasks that exist

Placed(v) == v.status \in {"Running", "Copyresults", "Done", "Failed"}

(* A placed task shows its machine, no other one does; only a task that is *)
(* done shows output.                                                      *)
WellFormed(v) == /\ v \in View
                 /\ v.machine # None <=> Placed(v)
                 /\ v.output => v.status = "Done"

Init == view = [j \in {} |-> None]

Submit(j) == /\ j \notin DOMAIN view
             /\ view' = [k \in DOMAIN view \cup {j} |->
                           IF k = j THEN [status |-> "Waiting", machine |-> None, output |-> FALSE]
                           ELSE view[k]]

Become(j, v) == view' = [view EXCEPT ![j] = v]
Views(statuses, m) == {v \in [status : statuses, machine : m, output : BOOLEAN] : WellFormed(v)}

Hold(j)   == view[j].status = "Waiting" /\ \E v \in Views({"Held"}, {None}) : Become(j, v)
Unhold(j) == view[j].status = "Held" /\ \E v \in Views({"Waiting"}, {None}) : Become(j, v)
Cancel(j) == \E v \in Views({"Canceled"}, {None}) : Become(j, v)
Place(j)  == /\ view[j].status = "Waiting"
             /\ \E v \in Views({"Running", "Failed"}, Machines) : Become(j, v)

(* From placement to the end the machine stays the same, and there is no   *)
(* way back to waiting.                                                    *)
Advance(j) == /\ view[j].status = "Running"
              /\ \E v \in Views({"Copyresults", "Done", "Failed"}, {view[j].machine}) : Become(j, v)
Copied(j)  == /\ view[j].status = "Copyresults"
              /\ \E v \in Views({"Running", "Failed"}, {view[j].machine}) : Become(j, v)
Forget(j) == /\ view[j].status = "Canceled"
             /\ view' = [k \in DOMAIN view \ {j} |-> view[k]]

Next == \/ \E j \in Jids : Submit(j)
        \/ \E j \in DOMAIN view : \/ Hold(j) \/ Unhold(j) \/ Place(j) \/ Advance(j)
                                   \/ Copied(j) \/ Cancel(j) \/ Forget(j)

Spec == Init /\ [][Next]_view
=============================================================================
