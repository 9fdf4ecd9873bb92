------------------------------- MODULE MCWatcher -------------------------------
(* Values for model checking Watcher: two eCash pools and a pool of another coin. *)
EXTENDS Watcher

XECPool(id, login, solo, timed) ==
    [id |-> id, login |-> login, coin |-> "XEC", solo |-> solo, timed |-> timed, dials |-> TRUE]
Other == [id |-> "b", login |-> "x", coin |-> "BTC", solo |-> TRUE, timed |-> TRUE, dials |-> TRUE]

(* The timed target behind a plain pool; its account edited and the mark gone;
   no eCash pool with an address. *)
SomeRegistries ==
    {<<XECPool("p", "x", FALSE, FALSE), XECPool("s", "x", TRUE, TRUE)>>,
     <<Other, XECPool("p", "x", FALSE, FALSE), XECPool("s", "y", TRUE, FALSE)>>,
     <<Other, [XECPool("s", "x", TRUE, TRUE) EXCEPT !.dials = FALSE]>>}
================================================================================
