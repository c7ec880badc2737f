----------------------------- MODULE CopyService -----------------------------
(***************************************************************************)
(* What the copier thread promises the work thread: a copy that was        *)
(* requested is held until it is reported on, nothing is reported that     *)
(* was not requested, and a report stays until the work thread takes it    *)
(* or a newer one replaces it.  A report may be repeated.  Server uses     *)
(* this abstraction; Copier, the thread itself, implements it.             *)
(***************************************************************************)
CONSTANTS Jids, Results

VARIABLES copying,  \* jids whose copy was requested and is still held
          flags     \* jid -> the report not yet taken

Init == copying = {} /\ flags = [j \in {} |-> "none"]

Request(j) == /\ j \notin copying \cup DOMAIN flags
              /\ copying' = copying \cup {j}
              /\ UNCHANGED flags

Report(j, result) ==
    /\ j \in copying
    /\ copying' \in {copying, copying \ {j}}
    /\ flags' = [k \in DOMAIN flags \cup {j} |-> IF k = j THEN result ELSE flags[k]]

Take(j) == /\ j \in DOMAIN flags
           /\ flags' = [k \in DOMAIN flags \ {j} |-> flags[k]]
           /\ UNCHANGED copying

Next == \E j \in Jids : \/ Request(j) \/ Take(j)
                        \/ \E result \in Results : Report(j, result)

Spec == Init /\ [][Next]_<<copying, flags>>
=============================================================================
