----------------------------- MODULE MCDispatch -----------------------------
(* The dispatcher as the programs build it, over tasks that must edit; and *)
(* a library use: capped batches (as in bin/demo.rs), a time limit, one    *)
(* permit, no second check.                                                *)
EXTENDS Dispatch

MCSettings == {[cap |-> 0, permits |-> 2, timeouts |-> FALSE, verify |-> TRUE,
                contract |-> "must_edit"],
               [cap |-> 2, permits |-> 1, timeouts |-> TRUE, verify |-> FALSE,
                contract |-> "text"]}
============================================================================
