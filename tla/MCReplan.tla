------------------------------ MODULE MCReplan ------------------------------
(* Three steps and one id for a new node.  The patches are those a model   *)
(* makes after a failure: a replacement whose predecessor keeps its edges, *)
(* a new step, an edge the wrong way round, a cut, one the graph refuses,  *)
(* one that puts another anchor in its place, one that overwrites it.      *)
EXTENDS Replan

L(s, t) == [from |-> s, to |-> t, rel |-> "LeadsTo"]
D(s, t) == [from |-> s, to |-> t, rel |-> "DependsOn"]
C(s, t) == [from |-> s, to |-> t, rel |-> "Contains"]

Steps == {"start", "b", "c"}
Chain == {L("start", "b"), L("b", "c"), D("c", "b")}
MCSeeds == {[nodes |-> Steps, fixed |-> {"start"}, links |-> l] :
              l \in {Chain, {L("start", "b"), L("b", "c"), L("c", "b"), C("b", "c")}}}

MCPatches == {
  [NoPatch EXCEPT !.add = {"n"}, !.link = {L("b", "n")}, !.gone = {"c"}],
  [NoPatch EXCEPT !.add = {"n"}, !.link = {L("start", "n"), L("n", "c")}, !.gone = {"b"}],
  [NoPatch EXCEPT !.link = {D("b", "c")}],
  [NoPatch EXCEPT !.link = {L("n", "c"), C("c", "b")}],
  [NoPatch EXCEPT !.cut = {L("b", "c")}],
  [NoPatch EXCEPT !.add = {"n"}, !.mark = {"n"}, !.link = {L("n", "b")}, !.gone = {"start"}],
  [NoPatch EXCEPT !.add = {"start"}]}
============================================================================
