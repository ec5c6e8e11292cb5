----------------------------- MODULE MCTaskGraph ----------------------------
(* Two tasks and two ids for sub-nodes.  Plans with and without order, one *)
(* that runs in a circle and an empty one; skills with a flow and with a   *)
(* loop; expansions that name a task, a parent's child or nothing known.   *)
EXTENDS TaskGraph

MCPlans == {
  [ids |-> {"a", "b"}, deps |-> {<<"b", "a">>}],
  [ids |-> {"a", "b"}, deps |-> {<<"a", "b">>, <<"b", "a">>}],
  [ids |-> {"a"}, deps |-> {<<"a", "b">>}],
  [ids |-> {}, deps |-> {}]}

MCFlows == {
  [ids |-> {"a", "b"}, flow |-> {<<"a", "b">>, <<"b", "d">>}],
  [ids |-> {"a", "b"}, flow |-> {<<"a", "b">>, <<"b", "a">>}],
  [ids |-> {}, flow |-> {}]}

MCGrowths == {
  [ids |-> {"c"}, concrete |-> {"c"}, flow |-> {}],
  [ids |-> {"c", "d"}, concrete |-> {"c"}, flow |-> {<<"c", "d">>}],
  [ids |-> {"a", "d"}, concrete |-> {}, flow |-> {<<"d", "a">>}],
  [ids |-> {"d"}, concrete |-> {}, flow |-> {<<"c", "d">>}],
  [ids |-> {}, concrete |-> {}, flow |-> {}]}
=============================================================================
