--------------------------------- MODULE Monitor -------------------------------
(***************************************************************************)
(* The ASIC monitor (internal/monitor/monitor.go): it looks at the live    *)
(* sessions, finds the ASICs that went silent or came back, and keeps what *)
(* it knows in monitor.json.  An ASIC stands for all sessions of one       *)
(* worker name.  Time is counted in ticks longer than the monitor's own    *)
(* tick, so that a check runs in each of them; ages stop at Cap.           *)
(* What becomes of the changes is up to the module that extends this one.  *)
(***************************************************************************)
EXTENDS Integers, FiniteSets, Functions

CONSTANTS
    ASICs,
    Slow,          \* ASICs that share rarely: their own wait is SlowWait
    SlowWait,      \* shareGaps of their usual intervals
    OfflineAfters, \* values of offline_after
    StartGrace, SaveEvery, ForgetAfter,
    MaxWorkers,    \* maxWorkers
    DiskFails,     \* whether a write of monitor.json may fail
    MaxStops       \* bound on shutdowns and crashes

ASSUME SlowAssumption == Slow \subseteq ASICs
ASSUME WaitsAssumption ==
    /\ ForgetAfter \in Nat
    /\ \A t \in OfflineAfters \cup {SlowWait} : t \in 1 .. ForgetAfter - 1

VARIABLES
    offlineAfter, \* the setting in force
    open,         \* ASICs with a live session
    share,        \* age of the last share in a live session; Cap: none
    worker,       \* Monitor.workers: age of the last share seen, offline or not
    rated,        \* slow ASICs whose hashrate and difficulty are known
    dirty,        \* Monitor.dirty
    savedAge,     \* age of Monitor.savedAt
    disk,         \* monitor.json
    uptime,       \* since Monitor.started
    checked,      \* a check has run in this tick
    stops         \* shutdowns and crashes so far

memory == <<worker, rated, dirty, savedAge, uptime>>
monitorVars == <<offlineAfter, open, share, disk, checked, stops, memory>>

Cap == ForgetAfter + 1
Ages == 0 .. Cap
Older(age) == IF age < Cap THEN age + 1 ELSE Cap
Up(n, max) == IF n < max THEN n + 1 ELSE n

-----------------------------------------------------------------------------
(* The ASICs. *)

Connect(w) ==
    /\ w \notin open
    /\ open' = open \cup {w}
    /\ UNCHANGED <<offlineAfter, share, disk, checked, stops, memory>>

Share(w) ==
    /\ w \in open
    /\ share' = [share EXCEPT ![w] = 0]
    /\ UNCHANGED <<offlineAfter, open, disk, checked, stops, memory>>

Disconnect(w) ==
    /\ w \in open
    /\ open' = open \ {w}
    /\ share' = [share EXCEPT ![w] = Cap]
    /\ UNCHANGED <<offlineAfter, disk, checked, stops, memory>>

-----------------------------------------------------------------------------
(* check. *)

Newcomers == {w \in ASICs \ DOMAIN worker : share[w] < Cap}

(* The newcomers that are watched: as many as there is room for. *)
Admissions ==
    {add \in SUBSET Newcomers :
        /\ Cardinality(DOMAIN worker \cup add) <= MaxWorkers
        /\ add # Newcomers => Cardinality(DOMAIN worker \cup add) = MaxWorkers}

(* The estimates after the check: only live sessions change them. *)
Estimates == {r \in SUBSET Slow : r \ open = rated \ open}

wait(w, r) == IF w \in r /\ SlowWait > offlineAfter THEN SlowWait ELSE offlineAfter

(* The workers after the loop over the sessions. *)
Seen(add) ==
    [w \in DOMAIN worker \cup add |->
        IF w \in add \/ share[w] < worker[w].age
        THEN [age |-> share[w], off |-> FALSE]
        ELSE worker[w]]

Back(add) == {w \in DOMAIN worker : worker[w].off /\ ~Seen(add)[w].off}

Falls(add, r) ==
    {w \in DOMAIN Seen(add) :
        /\ ~Seen(add)[w].off
        /\ uptime >= StartGrace
        /\ Seen(add)[w].age > wait(w, r)}

Forgotten(add) == {w \in DOMAIN Seen(add) : Seen(add)[w].off /\ Seen(add)[w].age > ForgetAfter}

(* The changes of one check, the offline ones first: of two about one ASIC the
   second remains. *)
Changes(add, r) ==
    [w \in Back(add) \cup Falls(add, r) |-> IF w \in Back(add) THEN "on" ELSE "off"]

Check(add, r, written) ==
    LET news == dirty \/ Seen(add) # worker \/ Forgotten(add) # {}
        save == news /\ (DOMAIN Changes(add, r) # {} \/ savedAge >= SaveEvery)
    IN /\ add \in Admissions
       /\ r \in Estimates
       /\ worker' = [w \in DOMAIN Seen(add) \ Forgotten(add) |->
                        [Seen(add)[w] EXCEPT !.off = @ \/ w \in Falls(add, r)]]
       /\ rated' = r \cap DOMAIN worker'
       /\ dirty' = (news /\ ~save)
       /\ savedAge' = IF save THEN 0 ELSE savedAge
       /\ disk' = IF save /\ written THEN worker' ELSE disk
       /\ checked' = TRUE
       /\ UNCHANGED <<offlineAfter, open, share, uptime, stops>>

-----------------------------------------------------------------------------
(* Shutdown, crash and start: New reads what was saved. *)

Restart(saved) ==
    /\ stops < MaxStops
    /\ stops' = stops + 1
    /\ disk' = saved
    /\ worker' = saved
    /\ rated' = {}
    /\ dirty' = FALSE
    /\ savedAge' = SaveEvery
    /\ uptime' = 0
    /\ open' = {}
    /\ share' = [w \in ASICs |-> Cap]
    /\ checked' = FALSE
    /\ UNCHANGED offlineAfter

(* Run saves when the context is done.  A write that fails is only logged. *)
Stop == \E written \in {TRUE, ~DiskFails} : Restart(IF written THEN worker ELSE disk)

Crash == Restart(disk)

SetOfflineAfter ==
    /\ offlineAfter' \in OfflineAfters
    /\ UNCHANGED <<open, share, disk, checked, stops, memory>>

(* A session without a message for so long has met miner_idle_timeout. *)
MonitorTick ==
    /\ checked
    /\ checked' = FALSE
    /\ open' = {w \in open : share[w] # ForgetAfter}
    /\ share' = [w \in ASICs |-> Older(share[w])]
    /\ worker' = [w \in DOMAIN worker |-> [worker[w] EXCEPT !.age = Older(@)]]
    /\ disk' = [w \in DOMAIN disk |-> [disk[w] EXCEPT !.age = Older(@)]]
    /\ savedAge' = Up(savedAge, SaveEvery)
    /\ uptime' = Up(uptime, StartGrace)
    /\ UNCHANGED <<offlineAfter, rated, dirty, stops>>

MonitorInit ==
    /\ offlineAfter \in OfflineAfters
    /\ open = {}
    /\ share = [w \in ASICs |-> Cap]
    /\ worker = << >>
    /\ rated = {}
    /\ dirty = FALSE
    /\ savedAge = SaveEvery
    /\ disk = << >>
    /\ uptime = 0
    /\ checked = FALSE
    /\ stops = 0

Workers == UNION {[S -> [age : Ages, off : BOOLEAN]] : S \in SUBSET ASICs}

MonitorTypeOK ==
    /\ offlineAfter \in OfflineAfters
    /\ open \subseteq ASICs
    /\ share \in [ASICs -> Ages]
    /\ worker \in Workers /\ disk \in Workers
    /\ rated \subseteq Slow \cap DOMAIN worker
    /\ dirty \in BOOLEAN /\ checked \in BOOLEAN
    /\ savedAge \in 0 .. SaveEvery
    /\ uptime \in 0 .. StartGrace
    /\ stops \in 0 .. MaxStops
================================================================================
