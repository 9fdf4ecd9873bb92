---------------------------- MODULE MCHealthTracker ----------------------------
(* Values for model checking HealthTracker: addresses, logins and test workers
   are interchangeable. *)
EXTENDS HealthTracker, TLC

Symmetry == Permutations(Addrs) \cup Permutations(Creds) \cup Permutations(Workers)
===============================================================================
