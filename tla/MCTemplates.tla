---------------------------- MODULE MCTemplates ----------------------------
(* Values of the constants of Templates for TLC. *)
EXTENDS Templates, TLC

CONSTANTS m1, m2, fast, slow, x, one, two

(* A job with one command that may be retried once. *)
Retried == [ty |-> "Job", class |-> fast, cmds |-> 1, cp_results |-> FALSE,
            repeat_on_fail |-> TRUE, maximum_failures |-> 1,
            timeout |-> FALSE, notify |-> FALSE]

RetryJobs == {Retried}
NoSpecs   == {}

(* Two jobs for the server's variables alone, and a job for each of two    *)
(* values of x.                                                            *)
Asked == {[given |-> [y \in {} |-> {}], repeat |-> 2],
          [given |-> [y \in {x} |-> {one, two}], repeat |-> 1]}

(* Values are interchangeable. *)
Symmetry == Permutations({one, two})
=============================================================================
