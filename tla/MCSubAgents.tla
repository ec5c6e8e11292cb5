----------------------------- MODULE MCSubAgents ----------------------------
(* Two sub-agents side by side.                                            *)
EXTENDS SubAgents

MCItems == <<"a", "b">>
=============================================================================
