-------------------------------- MODULE Watcher --------------------------------
(***************************************************************************)
(* The block watcher (internal/rtt): a quiet Stratum connection to an      *)
(* eCash pool.  A job on a new previous block means that a block arrived;  *)
(* the arrival times give how hard the next block is now (Factor), and     *)
(* block hunting leaves its pool when OnBlock is called.                   *)
(*                                                                         *)
(* A block is its height; `found` says how long ago each was found, `view` *)
(* how far the node of each pool is; the pools' registry is a sequence that*)
(* the operator may replace.  Times are ages, in ticks of some minutes, as *)
(* far as they matter; the pauses between two attempts are shorter.        *)
(***************************************************************************)
EXTENDS Naturals, Sequences, SequencesExt, FiniteSets, FiniteSetsExt

CONSTANTS
    Pools,         \* identities of the eCash pools
    Registries,    \* what the pool registry may be: sequences of pool records
    Blocks,        \* rtt.Blocks: arrivals kept
    Stale,         \* stale: how long block times are used while disconnected
    Silence,       \* silence: the wait for a line before reconnecting
    Dead,          \* the real-time target binds so long after a block
    MaxBlocks, MaxSent,
    MaxFaults      \* failures, edits of the registry and restarts together

ASSUME TimesAssumption ==
    Stale \in Nat /\ Dead \in Nat /\ Silence \in Nat \ {0} /\ Blocks \in Nat \ {0}
ASSUME PoolsAssumption == "none" \notin Pools
ASSUME RegistriesAssumption ==
    \A ps \in Registries : /\ DOMAIN ps = 1..Len(ps) /\ Len(ps) \in Nat
                           /\ \A i \in DOMAIN ps : ps[i].coin = "XEC" => ps[i].id \in Pools

VARIABLES
    pools,      \* the registry
    found,      \* found[b]: the age of block b
    view,       \* the newest block of each pool's node
    at,         \* where Run is: "pick", "seed", "dial", "read" or "pause"
    watched,    \* the pool Run picked: p of watch
    cancelled,  \* the ticker of watch cancelled it with errChanged
    stream,     \* lines from the pool that have not been read
    announced,  \* the newest block the pool has sent a job for on this connection
    broken,     \* "no", "closed", or "silent": nothing more comes, unnoticed
    quiet,      \* since the wait for the next line began
    connected, arrivals, prevhash, updated, \* Watcher's fields; ages for times
    status,     \* Watcher.pool and whether lastErr is set
    faults,     \* failures, edits and restarts so far
    last        \* history: the pool read last and the newest block it told of

world == <<pools, found, view>>
link == <<watched, cancelled, stream, announced, broken, quiet>>
times == <<arrivals, prevhash, updated>>
vars == <<world, at, link, connected, times, status, faults, last>>

NoPool == [id |-> "none", login |-> "none", coin |-> "none", solo |-> FALSE, timed |-> FALSE, dials |-> FALSE]
Tip == Len(found)
NoBlock == 0 \* prevhash = ""

-----------------------------------------------------------------------------
(* pick, same, known, Live, Factor. *)

(* The pool to watch: the timed target, else the first solo, else the first
   of the eCash pools with an address; NoPool when there is none. *)
Pick ==
    LET ecash == {i \in DOMAIN pools : pools[i].coin = "XEC" /\ pools[i].dials}
        target == {i \in ecash : pools[i].timed}
        solo == {i \in ecash : pools[i].solo}
        best == IF target # {} THEN target ELSE IF solo # {} THEN solo ELSE ecash
    IN IF best = {} THEN NoPool ELSE pools[Min(best)]

(* The same pool with the same way in (addresses, TLS, account). *)
Same(p, q) == p.id = q.id /\ p.login = q.login

Known == arrivals # <<>> /\ (connected \/ updated < Stale)
Live == connected /\ prevhash # NoBlock

(* The window of Factor that reaches one block back binds: Hardness above 1. *)
Binds(arrived) == arrived < Dead
Hard == Known /\ Binds(arrivals[1].age)

-----------------------------------------------------------------------------
(* The rest of the world. *)

Block ==
    /\ Tip < MaxBlocks
    /\ found' = Append(found, 0)
    /\ UNCHANGED <<pools, view, at, link, connected, times, status, faults, last>>

(* The node of a pool has the newest block. *)
NodeLearns(p) ==
    /\ view[p] < Tip
    /\ view' = [view EXCEPT ![p] = Tip]
    /\ UNCHANGED <<pools, found, at, link, connected, times, status, faults, last>>

(* Silence has passed: the read deadline fires on time, and reading what has
   come takes no time to speak of. *)
Overdue == at = "read" /\ quiet >= Silence

(* Something goes wrong, or the operator does something. *)
Fault == faults < MaxFaults /\ faults' = faults + 1

Send(line) ==
    /\ at = "read" /\ broken = "no" /\ ~Overdue /\ Len(stream) < MaxSent
    /\ stream' = Append(stream, line)
    /\ UNCHANGED <<world, at, watched, cancelled, broken, quiet, connected, times, status, last>>

(* A job as soon as the node has another block. *)
PoolSendsJob ==
    /\ at = "read" /\ announced # view[watched.id]
    /\ announced' = view[watched.id]
    /\ Send([kind |-> "job", block |-> view[watched.id]])
    /\ UNCHANGED faults

(* The answer to mining.authorize: at any place among the jobs. *)
PoolAccepts ==
    /\ ~connected /\ ~Contains(stream, [kind |-> "accepted"])
    /\ Send([kind |-> "accepted"])
    /\ UNCHANGED <<announced, faults>>

(* A refused login, client.reconnect, or a line the watcher has no use for. *)
PoolSendsOther ==
    /\ Fault
    /\ \E kind \in {"refused", "reconnect", "other"} : Send([kind |-> kind])
    /\ UNCHANGED announced

(* The connection breaks: the watcher reads an error after what has come, or
   waits for a line that never comes. *)
Break ==
    /\ at = "read" /\ broken = "no" /\ Fault
    /\ broken' \in {"closed", "silent"}
    /\ UNCHANGED <<world, at, watched, cancelled, stream, announced, quiet, connected, times,
                   status, last>>

EditPools ==
    /\ Fault
    /\ pools' \in Registries \ {pools}
    /\ UNCHANGED <<found, view, at, link, connected, times, status, last>>

(* A tick is longer than a pool takes to answer a login. *)
Older(age, limit) == Min({age + 1, limit})
Tick ==
    /\ ~Overdue /\ stream = <<>>
    /\ at = "read" /\ broken = "no" => connected
    /\ found' = [b \in DOMAIN found |-> Older(found[b], Dead)]
    /\ arrivals' = [i \in DOMAIN arrivals |-> [arrivals[i] EXCEPT !.age = Older(@, Dead)]]
    /\ updated' = Older(updated, Stale)
    /\ quiet' = IF at = "read" THEN Older(quiet, Silence) ELSE quiet
    /\ UNCHANGED <<pools, view, at, watched, cancelled, stream, announced, broken, connected,
                   prevhash, status, faults, last>>

-----------------------------------------------------------------------------
(* Run and seed. *)

PickOne ==
    /\ at = "pick"
    /\ IF Pick = NoPool
       THEN /\ at' = "pause" /\ connected' = FALSE
            /\ status' = [pool |-> "none", err |-> FALSE]
            /\ UNCHANGED watched
       ELSE /\ at' = "seed" /\ watched' = Pick
            /\ UNCHANGED <<connected, status>>
    /\ UNCHANGED <<world, cancelled, stream, announced, broken, quiet, times, faults, last>>

Fresh == arrivals # <<>> /\ updated < Stale

(* The blocks up to b, newest first. *)
Seeds(b) == [i \in 1..Min({b, Blocks}) |-> [age |-> found[b + 1 - i], own |-> FALSE]]

(* seed: nothing when the times are fresh or the source fails; else the times
   up to the newest block the source has.  The next job is the baseline. *)
Seed ==
    /\ at = "seed"
    /\ at' = "dial"
    /\ \/ UNCHANGED times
       \/ /\ ~Fresh
          /\ \E b \in 1..Tip : arrivals' = Seeds(b)
          /\ prevhash' = NoBlock
          /\ UNCHANGED updated
    /\ UNCHANGED <<world, link, connected, status, faults, last>>

(* Run after watch returned: at once again when the pool has changed, after
   a pause when it failed. *)
Left(changed) ==
    /\ at' = IF changed THEN "pick" ELSE "pause"
    /\ connected' = FALSE
    /\ status' = [status EXCEPT !.err = @ \/ ~changed]
    /\ stream' = <<>> /\ broken' = "no" /\ announced' = NoBlock
    /\ cancelled' = FALSE /\ quiet' = 0
    /\ UNCHANGED watched

Wake ==
    /\ at = "pause"
    /\ at' = "pick"
    /\ UNCHANGED <<world, link, connected, times, status, faults, last>>

-----------------------------------------------------------------------------
(* watch and job. *)

(* The ticker: another pool is to be watched. *)
Notice ==
    /\ at \in {"dial", "read"} /\ ~cancelled
    /\ ~Same(watched, Pick)
    /\ cancelled' = TRUE
    /\ UNCHANGED <<world, at, watched, stream, announced, broken, quiet, connected, times,
                   status, faults, last>>

(* A new connection keeps the baseline of the last one: the first job tells
   of a block that arrived meanwhile.  Mutant: it starts without. *)
LoginForgets ==
    /\ at = "dial"
    /\ at' = "read"
    /\ status' = [pool |-> watched.id, err |-> FALSE]
    /\ prevhash' = NoBlock
    /\ UNCHANGED <<world, link, connected, arrivals, updated, faults, last>>
Login ==
    /\ at = "dial"
    /\ at' = "read"
    /\ status' = [pool |-> watched.id, err |-> FALSE]
    /\ UNCHANGED <<world, link, connected, times, faults, last>>

(* No address answers, or the context was cancelled meanwhile. *)
DialFails ==
    /\ at = "dial"
    /\ \/ cancelled /\ UNCHANGED faults
       \/ ~cancelled /\ Fault
    /\ Left(FALSE)
    /\ UNCHANGED <<world, times, last>>

(* The read fails: cancelled, closed by the pool, or silent too long.
   Mutant: no read deadline. *)
ReadFailsEndless ==
    /\ at = "read"
    /\ cancelled \/ (broken = "closed" /\ stream = <<>>)
    /\ Left(cancelled)
    /\ UNCHANGED <<world, times, faults, last>>
ReadFails ==
    /\ at = "read"
    /\ cancelled \/ (broken = "closed" /\ stream = <<>>) \/ Overdue
    /\ Left(cancelled)
    /\ UNCHANGED <<world, times, faults, last>>

(* job: a new previous block is a block, unless there was no baseline.
   Mutant: the baseline counts as a block too. *)
IsBlockAlways(b) == b # prevhash
IsBlock(b) == prevhash # NoBlock /\ b # prevhash

Job(b) ==
    /\ updated' = 0
    /\ prevhash' = b
    /\ arrivals' = IF IsBlock(b)
                   THEN <<[age |-> 0, own |-> TRUE]>>
                        \o SubSeq(arrivals, 1, Min({Len(arrivals), Blocks - 1}))
                   ELSE arrivals
    /\ last' = [pool |-> watched.id,
                block |-> IF last.pool = watched.id THEN Max({b, last.block}) ELSE b]

Read ==
    /\ at = "read" /\ stream # <<>>
    /\ LET line == Head(stream) IN
       \/ /\ line.kind = "job"
          /\ Job(line.block)
          /\ stream' = Tail(stream) /\ quiet' = 0
          /\ UNCHANGED <<at, watched, cancelled, announced, broken, connected, status>>
       \/ /\ line.kind = "accepted"
          /\ connected' = TRUE
          /\ stream' = Tail(stream) /\ quiet' = 0
          /\ UNCHANGED <<at, watched, cancelled, announced, broken, times, status, last>>
       \/ /\ line.kind = "other"
          /\ stream' = Tail(stream) /\ quiet' = 0
          /\ UNCHANGED <<at, watched, cancelled, announced, broken, connected, times, status, last>>
       \/ /\ line.kind \in {"refused", "reconnect"}
          /\ Left(FALSE)
          /\ UNCHANGED <<times, last>>
    /\ UNCHANGED <<world, faults>>

(* The process starts anew: nothing of the watcher is kept. *)
Restart ==
    /\ Fault
    /\ at' = "pick" /\ watched' = NoPool /\ cancelled' = FALSE
    /\ stream' = <<>> /\ announced' = NoBlock /\ broken' = "no" /\ quiet' = 0
    /\ connected' = FALSE /\ arrivals' = <<>> /\ prevhash' = NoBlock /\ updated' = Stale
    /\ status' = [pool |-> "none", err |-> FALSE]
    /\ last' = [pool |-> "none", block |-> NoBlock]
    /\ UNCHANGED world

-----------------------------------------------------------------------------
Init ==
    /\ pools \in Registries
    /\ found = <<0>> /\ view = [p \in Pools |-> 1]
    /\ at = "pick" /\ watched = NoPool /\ cancelled = FALSE
    /\ stream = <<>> /\ announced = NoBlock /\ broken = "no" /\ quiet = 0
    /\ connected = FALSE /\ arrivals = <<>> /\ prevhash = NoBlock /\ updated = Stale
    /\ status = [pool |-> "none", err |-> FALSE]
    /\ last = [pool |-> "none", block |-> NoBlock]
    /\ faults = 0

World ==
    \/ Block \/ \E p \in Pools : NodeLearns(p)
    \/ PoolSendsJob \/ PoolAccepts \/ PoolSendsOther \/ Break \/ EditPools \/ Tick
Run == PickOne \/ Seed \/ Wake \/ Login \/ DialFails \/ ReadFails \/ Read
Next == World \/ Run \/ Notice \/ Restart

(* Run goes on, the ticker ticks, nodes learn of blocks; a pool that is asked
   again and again answers at last. *)
Fairness ==
    /\ WF_vars(Run) /\ WF_vars(Notice) /\ WF_vars(Tick)
    /\ \A p \in Pools : WF_vars(NodeLearns(p))
    /\ WF_vars(PoolAccepts) /\ SF_vars(PoolSendsJob)
Spec == Init /\ [][Next]_vars
FairSpec == Spec /\ Fairness

-----------------------------------------------------------------------------
(* Properties. *)

Line == [kind : {"job"}, block : 1..MaxBlocks]
        \cup [kind : {"accepted", "refused", "reconnect", "other"}]

(* Every variable has its type, and the watcher is connected only while it
   reads from the pool its status shows (watch.go:120, 206, 244). *)
TypeOK ==
    /\ pools \in Registries
    /\ found \in Seq(0..Dead) /\ Tip \in 1..MaxBlocks
    /\ view \in [Pools -> 1..Tip]
    /\ at \in {"pick", "seed", "dial", "read", "pause"}
    /\ watched = NoPool \/ watched.id \in Pools
    /\ cancelled \in BOOLEAN /\ broken \in {"no", "closed", "silent"}
    /\ stream \in Seq(Line) /\ Len(stream) <= MaxSent
    /\ announced \in 0..Tip /\ quiet \in 0..Silence
    /\ arrivals \in Seq([age : 0..Dead, own : BOOLEAN]) /\ Len(arrivals) <= Blocks
    /\ prevhash \in 0..Tip /\ updated \in 0..Stale
    /\ status \in [pool : Pools \cup {"none"}, err : BOOLEAN]
    /\ connected => at = "read" /\ status = [pool |-> watched.id, err |-> FALSE]

(* The next block is never taken for easier than the newest block that the
   watcher builds on makes it: once the newest time is one the watcher saw
   itself, the block of the current job does not bind unseen, not even when
   it arrived while the watcher was reconnecting, from another pool, or was
   the first after a seed (watch.go:152, 264). *)
NeverUnderstated ==
    Known /\ arrivals[1].own /\ prevhash # NoBlock /\ Binds(found[prevhash]) => Hard

(* The farm is not called off its hunt for a block it knew: OnBlock is called
   for a block only when the same pool had not told of it before, over all
   reconnects, seeds and edits, and never before a baseline is known.  After a
   move to another pool, whose node may be behind, it may be (watch.go:264). *)
Alarm == at = "read" /\ at' = "read" /\ stream # <<>> /\ stream' = Tail(stream) /\ arrivals' # arrivals
NoFalseAlarm ==
    [][Alarm => /\ last.pool # "none"
                /\ last.pool = watched.id => prevhash' > last.block]_vars

(* Whatever breaks, refuses, falls silent or is edited, the watcher is again
   and again on the newest block, live, with the pool it is to watch
   (watch.go:106, 184, 218). *)
Follows ==
    []<>(Pick = NoPool \/ (Live /\ Same(watched, Pick) /\ prevhash = Tip))
================================================================================
