------------------------------ MODULE MCServer ------------------------------
(* Values of the constants of Server for TLC. *)
EXTENDS Server, TLC

CONSTANTS m1, m2, fast, slow

(* A job of a class with one command, and variations of it. *)
Plain   == [ty |-> "Job", class |-> fast, cmds |-> 1, cp_results |-> FALSE,
            repeat_on_fail |-> FALSE, maximum_failures |-> None,
            timeout |-> FALSE, notify |-> FALSE]
Other   == [Plain EXCEPT !.class = slow]
Retried == [Plain EXCEPT !.repeat_on_fail = TRUE, !.maximum_failures = 1]
Timed   == [Retried EXCEPT !.timeout = TRUE]
Full    == [Timed EXCEPT !.cp_results = TRUE, !.notify = TRUE]

(* Setup tasks that add their machine to a class.                          *)
Setup      == [Plain EXCEPT !.ty = "SetupTask", !.cmds = 2]

PlainJobs   == {Plain}
ClassJobs   == {Plain, Other}
TimedJobs   == {Timed}
FullJobs    == {Full}
Setups      == {Setup}
NoSpecs     == {}

(* All ids that are handed out to three requests, one of them taken by a   *)
(* machine, and a retry.                                                   *)
FirstIds == 0..3

(* Machines are interchangeable. *)
Symmetry == Permutations(Machines)
=============================================================================
