------------------------------- MODULE MCSession -------------------------------
(* Values for model checking Session: the followed connection and another one
   from the same address, under limits that are changed. *)
EXTENDS Session, TLC

CONSTANTS a, b, x, i, j

SameIP == [c \in Conns |-> x]
Symmetry == Permutations(Ids)
TwoLimits == {[all |-> 1, pending |-> 1, perIP |-> 0], [all |-> 2, pending |-> 1, perIP |-> 1]}
================================================================================
