---------------------------- MODULE MCGraphLoop ----------------------------
(* The loops the program builds, and an embedding of the library:          *)
(* GraphLoop::new with a schema and nothing optional.                      *)
EXTENDS GraphLoop

Library == [SubLoop EXCEPT !.schema = TRUE, !.repairer = FALSE]

MCProfiles == {WebLoop, HeartbeatLoop, CliLoop, SubLoop, Library}
============================================================================
