------------------------------ MODULE MCClient ------------------------------
(* Values of the constants of Client for TLC. *)
EXTENDS Client, TLC

CONSTANTS m1, m2, fast, slow

(* A job with one command. *)
Plain == [ty |-> "Job", class |-> fast, cmds |-> 1, cp_results |-> FALSE,
          repeat_on_fail |-> FALSE, maximum_failures |-> None,
          timeout |-> FALSE, notify |-> FALSE]

PlainJobs == {Plain}
NoSpecs   == {}
=============================================================================
