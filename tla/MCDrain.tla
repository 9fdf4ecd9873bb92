-------------------------------- MODULE MCDrain --------------------------------
(* Values for model checking Drain.  Pools are interchangeable, so which of   *)
(* them is active at the start is fixed.                                      *)
EXTENDS Drain, TLC

CONSTANT First

MCInit == Init /\ active = First
MCFairSpec == MCInit /\ [][Next]_vars /\ Fairness
===============================================================================
