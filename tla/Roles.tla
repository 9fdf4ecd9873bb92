--------------------------------- MODULE Roles ---------------------------------
(***************************************************************************)
(* What the saved configuration promises about the roles of pools, whoever *)
(* changes it and whenever the program dies: they change in one step, by   *)
(* one operation, and that step is never taken back.  PoolConfig           *)
(* implements it with the copy, the check and the write of Store.Mutate.   *)
(***************************************************************************)
EXTENDS Naturals, Sequences

CONSTANTS PoolIds, None

VARIABLE roles \* which pools exist, which is active, the order behind it, and
               \* who is the timed target and the main pool (one or nobody)

Mentioned(s) == {s[i] : i \in DOMAIN s}
Distinct(s) == \A i, j \in DOMAIN s : s[i] = s[j] => i = j

(* What is left of t in s is in the order of t. *)
InOrder(s, t) ==
    \A i, j \in DOMAIN s : i < j => \E k, l \in DOMAIN t : k < l /\ t[k] = s[i] /\ t[l] = s[j]

NoRoles == [pools |-> {}, active |-> None, order |-> <<>>, timed |-> {}, home |-> {}]

-----------------------------------------------------------------------------
(* From the roles r to the roles s. *)

(* The first pool becomes the active one. *)
Adds(r, s) ==
    \E id \in PoolIds \ r.pools :
        /\ s.pools = r.pools \cup {id}
        /\ s.active = IF r.active = None THEN id ELSE r.active
        /\ s.timed \in {r.timed, {id}}
        /\ s.order = r.order /\ s.home = r.home

Edits(r, s) ==
    \E id \in r.pools :
        /\ s.timed \in {r.timed \ {id}, {id}}
        /\ s.home \in {r.home, r.home \ {id}}
        /\ s.pools = r.pools /\ s.active = r.active /\ s.order = r.order

(* The others keep their place. *)
Removes(r, s) ==
    \E id \in r.pools \ {r.active} :
        /\ s.pools = r.pools \ {id}
        /\ Mentioned(s.order) = Mentioned(r.order) \ {id} /\ Distinct(s.order)
        /\ InOrder(s.order, r.order)
        /\ s.timed = r.timed \ {id} /\ s.home = r.home \ {id}
        /\ s.active = r.active

(* Another active pool, another order, or both. *)
Routes(r, s) ==
    /\ s.active \in s.pools
    /\ Mentioned(s.order) \subseteq s.pools \ {s.active} /\ Distinct(s.order)
    /\ s.pools = r.pools /\ s.timed = r.timed /\ s.home = r.home

Homes(r, s) ==
    /\ \E id \in r.pools : s.home \in {{}, {id}}
    /\ s.pools = r.pools /\ s.active = r.active /\ s.order = r.order /\ s.timed = r.timed

Changes(r, s) == Adds(r, s) \/ Edits(r, s) \/ Removes(r, s) \/ Routes(r, s) \/ Homes(r, s)

Init == roles = NoRoles

Next == Changes(roles, roles')

Spec == Init /\ [][Next]_roles
===============================================================================
