----------------------------- MODULE MCProfitSwitch ----------------------------
(* Values for model checking ProfitSwitch: a pool for each of three coins. *)
EXTENDS ProfitSwitch

CONSTANTS h, x, y

PoolCoin == [p \in Pools |-> p]

(* Leads below, at and above both margins, and data that is missing. *)
SomeWorlds ==
    {[c \in Coins |-> CASE c = h -> w[1] [] c = x -> w[2] [] c = y -> w[3]] :
        w \in {<<100, 101, 95>>, <<100, 106, 112>>, <<100, 0, 98>>}}

HomeDown == [p \in Pools |-> IF p = h THEN "DOWN" ELSE "UP"]
SomeHealths == {[p \in Pools |-> "UNKNOWN"], HomeDown}
SomeParts == {Pools, {h, x}}
SomeMains == {h}
SomeMargins == {[margin |-> 5, ret |-> 1], [margin |-> 10, ret |-> 8], [margin |-> 1, ret |-> 5]}
================================================================================
