--------------------------------- MODULE Drain ---------------------------------
(***************************************************************************)
(* Moving miners between pools: the session registry and its gradual drain *)
(* (internal/session/registry.go), the life of a session around it         *)
(* (session.go, Serve and Close) and the operations of the pool manager    *)
(* that start a drain (internal/pool/manager.go, probe.go).                *)
(*                                                                         *)
(* A drain is two critical sections of its caller (collect the targets,    *)
(* start) and a goroutine that closes one target at a time.  Callers hold  *)
(* Manager.opMu, so one call runs at a time; sessions, the goroutines of   *)
(* older drains and the shutdown interleave with it freely.  How long a    *)
(* drain waits between two targets is left open.                           *)
(***************************************************************************)
EXTENDS Naturals, FiniteSets

CONSTANTS
    Sessions,  \* session ids; none is used twice
    Pools,
    NoPool,    \* the pool of a connection without a session
    MaxDrains  \* bound on the drains of one behaviour

ASSUME DrainsAssumption == MaxDrains \in Nat
ASSUME NoPoolAssumption == NoPool \notin Pools

VARIABLES
    session,   \* phase of each session and its pool
    active,    \* the active pool
    caller,    \* the Drain call in progress, under opMu
    gen,       \* Registry.drainGen
    draining,  \* Registry.draining
    cancelled, \* generations whose context is cancelled
    runs,      \* the goroutine of each generation
    shutdown,  \* progress of the shutdown
    closeList, \* what CloseAll still has to close
    latest,    \* history: the targets of the latest drain
    due        \* history: what the last switch or pool change has to reconnect

registry == <<gen, draining, cancelled, runs>>
ending == <<shutdown, closeList>>
vars == <<session, active, caller, registry, ending, latest, due>>

Gens == 1 .. MaxDrains

-----------------------------------------------------------------------------
(* Sessions. *)

In(phases) == {s \in Sessions : session[s].phase \in phases}
Open == In({"added", "live"})
(* Registry.sessions: from add to remove, closed connections included. *)
Registered == Open \cup In({"closed"})
(* Mutant: a session counts once its relay has started. *)
OnRelaying(pools) == {s \in In({"live"}) : session[s].pool \in pools}
On(pools) == {s \in Registered : session[s].pool \in pools}

(* Session.Close: the first call closes, the others do nothing. *)
Close(s) ==
    session' = IF s \in Open THEN [session EXCEPT ![s].phase = "closed"] ELSE session

None == [phase |-> "none", pool |-> NoPool]
Gone == [phase |-> "gone", pool |-> NoPool]

(* Pick reads the configuration and dials.  Which pool answers is a matter of
   health and of the fallback order. *)
Pick(s, p) ==
    /\ session[s].phase = "none"
    /\ shutdown = "no"
    /\ session' = [session EXCEPT ![s] = [phase |-> "dialing", pool |-> p]]

PickFails(s) ==
    /\ session[s].phase = "dialing"
    /\ session' = [session EXCEPT ![s] = Gone]

(* Registry.add. *)
Add(s) ==
    /\ session[s].phase = "dialing"
    /\ session' = [session EXCEPT ![s].phase = "added"]

(* Mutant: no look at the context after add. *)
StartAnyway(s) ==
    /\ session[s].phase = "added"
    /\ session' = [session EXCEPT ![s].phase = "live"]

(* The look at the context after add, and the relay when it is not done. *)
Start(s) ==
    /\ session[s].phase = "added"
    /\ IF shutdown = "no" THEN session' = [session EXCEPT ![s].phase = "live"] ELSE Close(s)

(* The miner or the pool hangs up. *)
HangUp(s) ==
    /\ session[s].phase = "live"
    /\ Close(s)

(* Registry.remove, when Serve returns. *)
Remove(s) ==
    /\ session[s].phase = "closed"
    /\ session' = [session EXCEPT ![s] = Gone]

Proceed(s) ==
    /\ PickFails(s) \/ Add(s) \/ Start(s) \/ Remove(s)
    /\ UNCHANGED <<active, caller, registry, ending, latest, due>>

Serve(s) ==
    \/ Proceed(s)
    \/ /\ (\E p \in Pools : Pick(s, p)) \/ HangUp(s)
       /\ UNCHANGED <<active, caller, registry, ending, latest, due>>

-----------------------------------------------------------------------------
(* The callers of Drain, with opMu held from here to StartDrain. *)

NoCall == [at |-> "idle", background |-> FALSE, filter |-> {}, targets |-> {}]

Call(background, filter) ==
    /\ caller.at = "idle"
    /\ gen < MaxDrains
    /\ caller' = [at |-> "collect", background |-> background, filter |-> filter, targets |-> {}]
    /\ UNCHANGED <<session, registry, ending, latest>>

Due(by, of) == [by |-> by, of |-> of, gen |-> gen + 1]

(* activate: setSnapshot has switched the routing before the drain. *)
Switch(id) ==
    /\ Call(FALSE, Pools \ {id})
    /\ active' = id
    /\ due' = Due("switch", {s \in Open : session[s].pool # id})

(* Update with reconnect: dials from now on use the new configuration. *)
Update(id) ==
    /\ Call(FALSE, {id})
    /\ due' = Due("update", {s \in Open : session[s].pool = id})
    /\ UNCHANGED active

Delete(id) ==
    /\ id # active
    /\ Call(FALSE, {id})
    /\ UNCHANGED <<active, due>>

ReconnectAll == Call(FALSE, Pools) /\ UNCHANGED <<active, due>>

(* What the background loop starts by itself only between two drains:
   checkFailback once the active pool has been UP for long enough, and
   checkFailover with the failed addresses, kept here as pools. *)
Background(filter) ==
    /\ ~draining
    /\ On(filter) # {}
    /\ Call(TRUE, filter)
    /\ UNCHANGED <<active, due>>

Failback == Background(Pools \ {active})
Failover(failed) == Background(failed)

-----------------------------------------------------------------------------
(* Registry.Drain. *)

Collect ==
    /\ caller.at = "collect"
    /\ caller' = [caller EXCEPT !.at = "start", !.targets = On(caller.filter)]
    /\ UNCHANGED <<session, active, registry, ending, latest, due>>

(* Under drainMu: cancel the drain in progress and take the next generation. *)
StartDrain ==
    /\ caller.at = "start"
    /\ cancelled' = cancelled \cup {gen}
    /\ gen' = gen + 1
    /\ draining' = (caller.targets # {})
    /\ runs' = IF caller.targets = {} THEN runs
               ELSE [runs EXCEPT ![gen + 1] = [at |-> "run", todo |-> caller.targets]]
    /\ latest' = caller.targets
    /\ caller' = NoCall
    /\ UNCHANGED <<session, active, ending, due>>

(* Mutant: an older goroutine goes on. *)
NeverStale(g) == FALSE
Stale(g) == g \in cancelled \/ gen # g

(* Mutant: the loop stops one target too early. *)
DrainStepShort(g) ==
    /\ runs[g].at = "run"
    /\ IF Stale(g)
       THEN /\ runs' = [runs EXCEPT ![g] = [at |-> "end", todo |-> {}]]
            /\ UNCHANGED session
       ELSE \E s \in runs[g].todo :
               /\ Close(s)
               /\ runs' = [runs EXCEPT ![g] =
                     [at |-> IF Cardinality(@.todo) <= 2 THEN "end" ELSE "run", todo |-> @.todo \ {s}]]
    /\ UNCHANGED <<active, caller, gen, draining, cancelled, ending, latest, due>>

(* One turn of the goroutine's loop, check and close under drainMu. *)
DrainStep(g) ==
    /\ runs[g].at = "run"
    /\ IF Stale(g)
       THEN /\ runs' = [runs EXCEPT ![g] = [at |-> "end", todo |-> {}]]
            /\ UNCHANGED session
       ELSE \E s \in runs[g].todo :
               /\ Close(s)
               /\ runs' = [runs EXCEPT ![g] =
                     [at |-> IF @.todo = {s} THEN "end" ELSE "run", todo |-> @.todo \ {s}]]
    /\ UNCHANGED <<active, caller, gen, draining, cancelled, ending, latest, due>>

(* Mutants: the flag is cleared under a newer drain, or never. *)
DrainEndClears(g) ==
    /\ runs[g].at = "end"
    /\ runs' = [runs EXCEPT ![g].at = "done"]
    /\ draining' = FALSE
    /\ UNCHANGED <<session, active, caller, gen, cancelled, ending, latest, due>>
DrainEndLeaves(g) ==
    /\ runs[g].at = "end"
    /\ runs' = [runs EXCEPT ![g].at = "done"]
    /\ UNCHANGED <<session, active, caller, gen, draining, cancelled, ending, latest, due>>

(* The goroutine's last critical section. *)
DrainEnd(g) ==
    /\ runs[g].at = "end"
    /\ runs' = [runs EXCEPT ![g].at = "done"]
    /\ draining' = (draining /\ gen # g)
    /\ UNCHANGED <<session, active, caller, gen, cancelled, ending, latest, due>>

-----------------------------------------------------------------------------
(* Shutdown: the context of the sessions is cancelled, CloseAll follows. *)

Stop ==
    /\ shutdown = "no"
    /\ shutdown' = "stop"
    /\ UNCHANGED <<session, active, caller, registry, closeList, latest, due>>

(* Mutant: the drain to come is cancelled too. *)
CancelDrainNext ==
    /\ shutdown = "stop"
    /\ shutdown' = "cancelled"
    /\ cancelled' = cancelled \cup {gen, gen + 1}
    /\ UNCHANGED <<session, active, caller, gen, draining, runs, closeList, latest, due>>

CancelDrain ==
    /\ shutdown = "stop"
    /\ shutdown' = "cancelled"
    /\ cancelled' = cancelled \cup {gen}
    /\ UNCHANGED <<session, active, caller, gen, draining, runs, closeList, latest, due>>

ListAll ==
    /\ shutdown = "cancelled"
    /\ shutdown' = "closing"
    /\ closeList' = Registered
    /\ UNCHANGED <<session, active, caller, registry, latest, due>>

CloseOne(s) ==
    /\ s \in closeList
    /\ Close(s)
    /\ closeList' = closeList \ {s}
    /\ UNCHANGED <<active, caller, registry, shutdown, latest, due>>

CloseAll == CancelDrain \/ ListAll \/ \E s \in Sessions : CloseOne(s)

-----------------------------------------------------------------------------

Init ==
    /\ active \in Pools
    /\ session = [s \in Sessions |-> None]
    /\ caller = NoCall
    /\ gen = 0
    /\ draining = FALSE
    /\ cancelled = {}
    /\ runs = [g \in Gens |-> [at |-> "none", todo |-> {}]]
    /\ shutdown = "no"
    /\ closeList = {}
    /\ latest = {}
    /\ due = [by |-> "none", of |-> {}, gen |-> 0]

Operate ==
    \/ \E id \in Pools : Switch(id) \/ Update(id) \/ Delete(id)
    \/ ReconnectAll \/ Failback
    \/ \E failed \in SUBSET Pools : Failover(failed)

Run(g) == DrainStep(g) \/ DrainEnd(g)

Next ==
    \/ \E s \in Sessions : Serve(s)
    \/ Operate \/ Collect \/ StartDrain
    \/ \E g \in Gens : Run(g)
    \/ Stop \/ CloseAll

Spec == Init /\ [][Next]_vars

(* Goroutines are scheduled and timers fire; a dial ends, by its timeout at
   the latest.  Nobody has to operate, hang up or stop the program. *)
Fairness ==
    /\ WF_vars(Collect \/ StartDrain) /\ WF_vars(CloseAll)
    /\ \A g \in Gens : WF_vars(Run(g))
    /\ \A s \in Sessions : WF_vars(Proceed(s))

FairSpec == Spec /\ Fairness

-----------------------------------------------------------------------------
(* Properties. *)

TypeOK ==
    /\ session \in [Sessions -> [phase : {"none", "dialing", "added", "live", "closed", "gone"},
                                 pool : Pools \cup {NoPool}]]
    /\ active \in Pools
    /\ caller \in [at : {"idle", "collect", "start"}, background : BOOLEAN,
                   filter : SUBSET Pools, targets : SUBSET Sessions]
    /\ gen \in 0 .. MaxDrains
    /\ draining \in BOOLEAN
    /\ cancelled \subseteq 0 .. MaxDrains
    /\ runs \in [Gens -> [at : {"none", "run", "end", "done"}, todo : SUBSET Sessions]]
    /\ shutdown \in {"no", "stop", "cancelled", "closing"}
    /\ closeList \subseteq Sessions
    /\ latest \subseteq Sessions
    /\ due \in [by : {"none", "switch", "update"}, of : SUBSET Sessions, gen : Nat]

(* Failover and failback wait for Draining(): it is true exactly while the
   goroutine of the latest drain is at work, so a cancelled or empty drain can
   neither leave it set for ever nor clear it under a running one. *)
DrainingIsReal == draining <=> gen \in Gens /\ runs[gen].at \in {"run", "end"}

(* When no drain is in progress, nobody the latest one was to reconnect is
   still connected, unless the shutdown stepped in. *)
DrainFinishes == ~draining /\ gen \notin cancelled => latest \cap Open = {}

(* A switch or a change of a pool that no other drain follows misses no
   session that was open when the routing changed, including one that had
   just been registered. *)
NobodyMissed ==
    due.gen = gen /\ ~draining /\ gen \notin cancelled => due.of \cap Open = {}

(* "This drain never closes a session the new one wants to keep" (Drain): a
   drain closes only targets of the latest drain, however late the goroutine
   of an older one wakes up. *)
OnlyLatest ==
    [][runs' # runs => \A s \in Open : session'[s].phase = "closed" => s \in latest]_vars

(* A background drain never cuts short a drain in progress, although the
   check and the start are separate critical sections. *)
BackgroundWaits ==
    [][gen' # gen /\ caller.background => ~draining]_vars

(* Every drain comes to its end or is replaced. *)
DrainEnds == \A g \in Gens : []<>(~draining \/ gen # g)

(* After the shutdown began every session ends, one that was being dialed
   when CloseAll made its list included; the shutdown is not taken back, so
   this is shutdown # "no" ~> Sessions = In({"none", "gone"}). *)
ShutdownEnds == []<>(shutdown = "no" \/ Sessions = In({"none", "gone"}))

-----------------------------------------------------------------------------
(* What the documents say and the code does not do. *)

Quiet == caller.at = "idle" /\ ~draining /\ shutdown = "no"

(* "Every switch reconnects all miners within switch_drain" (README). *)
SwitchReconnects == Quiet /\ due.by = "switch" => due.of \cap Open = {}
===============================================================================
