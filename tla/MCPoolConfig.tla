----------------------------- MODULE MCPoolConfig -----------------------------
(* Values for model checking PoolConfig: ids and names are interchangeable. *)
EXTENDS PoolConfig, TLC

(* A pool that takes part in profit switching, so that it may be the main
   pool; a solo pool marked for the timer; and what the editor refuses. *)
Kinds == {[profit |-> TRUE, timed |-> FALSE, solo |-> FALSE],
          [profit |-> FALSE, timed |-> TRUE, solo |-> TRUE],
          [profit |-> TRUE, timed |-> FALSE, solo |-> TRUE]}
SomeInputs ==
    {[name |-> n, profit |-> k.profit, timed |-> k.timed, solo |-> k.solo] : n \in Names, k \in Kinds}

Symmetry == Permutations(PoolIds) \cup Permutations(Names) \cup Permutations(Settings)
===============================================================================
