----------------------------- MODULE MCNotifier -----------------------------
(* Values of the constants of Notifier for TLC. *)
EXTENDS Notifier, TLC

CONSTANTS m1, m2, fast, slow

(* A job with results that may time out and is retried once, and one whose *)
(* owner asks for no messages.                                             *)
Loud == [ty |-> "Job", class |-> fast, cmds |-> 1, cp_results |-> TRUE,
         repeat_on_fail |-> TRUE, maximum_failures |-> 1,
         timeout |-> TRUE, notify |-> TRUE]
Silent == [Loud EXCEPT !.cp_results = FALSE, !.notify = FALSE]

BothJobs == {Loud, Silent}
NoSpecs  == {}
Ids      == 0..9
Symmetry == Permutations(Machines)
=============================================================================
