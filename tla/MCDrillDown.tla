---------------------------- MODULE MCDrillDown ----------------------------
(* The default depth of two, and sub-runs enough for a second fork of the  *)
(* root beside a chain.                                                    *)
EXTENDS DrillDown
============================================================================
