----------------------------- MODULE MCRecovery -----------------------------
(* Values of the constants of Recovery for TLC. *)
EXTENDS Recovery, TLC

CONSTANTS m1, m2, fast, slow

(* A job with one command (those of a matrix are retried). *)
Plain == [ty |-> "Job", class |-> fast, cmds |-> 1, cp_results |-> FALSE,
          repeat_on_fail |-> FALSE, maximum_failures |-> None,
          timeout |-> FALSE, notify |-> FALSE]

PlainJobs == {Plain}
NoSpecs   == {}
Symmetry  == Permutations(Machines)
=============================================================================
