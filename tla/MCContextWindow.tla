-------------------------- MODULE MCContextWindow ---------------------------
(* The instance TLC checks: see MCGraphData.cfg for the bounds.        *)
EXTENDS ContextWindow

MCEdges == {<<1, 2>>, <<2, 3>>, <<3, 1>>}
MCCodeBudget == [d \in 0..2 |-> 4 - d]

Text(loads, size, described, does) ==
  [loads |-> loads, body |-> size, head |-> size, outline |-> size \div 2,
   described |-> described, does |-> does, how |-> does, rest |-> 1]

(* Long; short, without code; short, without a description.                *)
MCSources == {Text(TRUE, 9, TRUE, 5), Text(FALSE, 0, TRUE, 1), Text(TRUE, 3, FALSE, 0)}
=============================================================================
