------------------------------- MODULE MCControls ------------------------------
(* Values for model checking Controls: two bots, two messages of the first. *)
EXTENDS Controls

CONSTANTS u1, u2, a, b, m1, m2, p, q

ToQ == [kind |-> "switch", to |-> q]
TurnOn == [kind |-> "mode", to |-> "on"]
Buttons == {ToQ, TurnOn}
TapsOf == {<<u1, m1>>, <<u1, m2>>, <<u2, m1>>}
AtP == [active |-> {p}, mode |-> {"off"}]
TwoMessages == [m \in {m1, m2} |-> a]
================================================================================
