----------------------------- MODULE HealthTracker -----------------------------
(***************************************************************************)
(* The health of one pool's addresses and everything that feeds it or      *)
(* invalidates it: background checks, the checks of an activation, session *)
(* dials, failures of live sessions, pool edits, test worker changes       *)
(* (internal/pool/health.go, probe.go and manager.go).                     *)
(*                                                                         *)
(* Manager.opMu is held across several steps by pool operations (op) and   *)
(* for a moment by checks and session failures; dials do not take it.      *)
(* Manager.hmu makes each change of the health one step.  The state        *)
(* store's lock (store) is held by a save of the settings from the new     *)
(* values becoming visible to the end of its listeners.                    *)
(*                                                                         *)
(* Other pools share only the locks.  Time is left open: a check, a dial   *)
(* or a probe interval ends whenever it likes.  Latency belongs to another *)
(* module.                                                                 *)
(***************************************************************************)
EXTENDS Naturals, FiniteSets

CONSTANTS
    Addrs,      \* addresses the pool may have
    Creds,      \* login and TLS settings the pool may have
    Spellings,  \* ways to write the host names, in upper or lower case
    Workers,    \* test workers
    Absent,     \* the configuration of a deleted pool
    MaxVersion, \* bound on what invalidates checks
    MaxLive     \* bound on the open sessions

Configs == [addrs : SUBSET Addrs \ {{}}, cred : Creds, spelled : Spellings]

ASSUME AbsentAssumption == Absent \notin Configs
ASSUME BoundAssumption == MaxVersion \in Nat /\ MaxLive \in Nat

VARIABLES
    cfg,      \* the pool in the published snapshot
    active,   \* whether it is the active pool
    worker,   \* settings.TestWorker
    version,  \* Manager.versions of the pool
    addr,     \* Manager.addrs: health of each address
    pool,     \* Manager.pools: health of the pool
    pending,  \* Manager.probePending
    op,       \* the pool operation that holds opMu
    store,    \* the settings save that holds the state store
    probe,    \* where Run is in startProbe
    check,    \* the gate of each address and the check that holds it
    act,      \* the activation in progress
    dial,     \* the dial of a Pick in progress
    live,     \* open sessions: the address and configuration they were dialed with
    stall     \* history: OK checks an address still owes after a job timeout

config == <<cfg, active, worker>>
health == <<addr, pool, version>>
checks == <<probe, check, act>>
sessions == <<dial, live>>
vars == <<config, health, pending, op, store, checks, sessions, stall>>

-----------------------------------------------------------------------------
(* Health of an address and of the pool.  A missing entry is a fresh one. *)

probeFailsToDown == 2
dialFailsToDown == 3
probeOKsToUp == 2

(* Counters stop at their thresholds; clean stands for upSince being set. *)
Fresh == [status |-> "UNKNOWN", probeFails |-> 0, probeOKs |-> 0, dialFails |-> 0, clean |-> FALSE]
Up(n, top) == IF n = top THEN top ELSE n + 1

(* Mutant: a failed check does not end the healthy run. *)
ProbeFailedLightly(h) ==
    LET fails == Up(h.probeFails, probeFailsToDown)
    IN  [h EXCEPT !.probeOKs = 0, !.probeFails = fails,
                  !.status = IF fails = probeFailsToDown THEN "DOWN" ELSE @]
(* probeResultIf. *)
ProbeFailed(h) ==
    LET fails == Up(h.probeFails, probeFailsToDown)
    IN  [h EXCEPT !.probeOKs = 0, !.probeFails = fails, !.clean = FALSE,
                  !.status = IF fails = probeFailsToDown THEN "DOWN" ELSE @]
(* Mutant: checks do not end a DOWN verdict. *)
ProbePassedInVain(h) ==
    LET oks == Up(h.probeOKs, probeOKsToUp)
    IN  [h EXCEPT !.probeFails = 0, !.dialFails = 0, !.probeOKs = oks,
                  !.status = IF oks = probeOKsToUp /\ @ # "DOWN" THEN "UP" ELSE @]
ProbePassed(h) ==
    LET oks == Up(h.probeOKs, probeOKsToUp)
    IN  [h EXCEPT !.probeFails = 0, !.dialFails = 0, !.probeOKs = oks,
                  !.status = IF oks = probeOKsToUp THEN "UP" ELSE @,
                  !.clean = @ \/ oks = probeOKsToUp]
Probed(h, ok) == IF ok THEN ProbePassed(h) ELSE ProbeFailed(h)

(* dialResult. *)
Dialed(h, ok) ==
    LET fails == Up(h.dialFails, dialFailsToDown)
    IN  IF ok THEN [h EXCEPT !.dialFails = 0]
        ELSE IF h.status = "DOWN" \/ fails < dialFailsToDown THEN [h EXCEPT !.dialFails = fails]
        ELSE [h EXCEPT !.dialFails = fails, !.status = "DOWN", !.probeOKs = 0, !.clean = FALSE]

(* sessionFailure, of a session that got no usable job. *)
Stalled == [Fresh EXCEPT !.status = "DOWN"]

(* refreshPoolLocked, for the address list of the caller's copy of the pool. *)
Derived(h, list) ==
    [status |-> IF \E a \in list : h[a].status = "UP" THEN "UP"
                ELSE IF \A a \in list : h[a].status = "DOWN" THEN "DOWN" ELSE "UNKNOWN",
     up |-> \E a \in list : h[a].status = "UP" /\ h[a].clean]
Unknown == [status |-> "UNKNOWN", up |-> FALSE]

(* stillHas, of a captured configuration and one of its addresses.  It compares
   host names as they are written, addrKey without their case. *)
StillHas(c, a) == cfg # Absent /\ cfg.cred = c.cred /\ a \in cfg.addrs /\ cfg.spelled = c.spelled

(* forgetHealth. *)
Forget ==
    /\ addr' = [a \in Addrs |-> Fresh]
    /\ pool' = Unknown
    /\ version' = version + 1
    /\ stall' = [a \in Addrs |-> 0]

(* History: what an activation, or a check, is about has changed. *)
SpoilAct == act' = IF act.at = "idle" THEN act ELSE [act EXCEPT !.dirty = TRUE]
Spoil ==
    /\ check' = [a \in Addrs |-> IF check[a].at = "running" THEN [check[a] EXCEPT !.dirty = TRUE]
                                 ELSE check[a]]
    /\ SpoilAct

-----------------------------------------------------------------------------
(* Pool operations: the snapshot is published first, the health follows. *)

Free == op = "free"
Roomy == version < MaxVersion

(* Update, of the addresses, the login or TLS. *)
EditSave(c) ==
    /\ Free /\ store = "free" /\ Roomy
    /\ cfg # Absent /\ c # cfg
    /\ cfg' = c
    /\ op' = IF c.cred = cfg.cred THEN "edited" ELSE "forget"
    /\ Spoil
    /\ UNCHANGED <<active, worker, health, pending, store, probe, sessions, stall>>

(* poolEdited, when only addresses changed; those not in the list are gone. *)
EditHealth ==
    /\ op = "edited"
    /\ addr' = [a \in Addrs |-> IF a \in cfg.addrs THEN addr[a] ELSE Fresh]
    /\ pool' = Derived(addr', cfg.addrs)
    /\ version' = version + 1
    /\ stall' = [a \in Addrs |-> IF a \in cfg.addrs THEN stall[a] ELSE 0]
    /\ op' = "free"
    /\ UNCHANGED <<config, pending, store, checks, sessions>>

DeleteSave ==
    /\ Free /\ store = "free" /\ Roomy
    /\ cfg # Absent /\ ~active
    /\ cfg' = Absent
    /\ op' = "forget"
    /\ Spoil
    /\ UNCHANGED <<active, worker, health, pending, store, probe, sessions, stall>>

(* Create, with the id of a pool deleted before. *)
CreateSave(c) ==
    /\ Free /\ store = "free"
    /\ cfg = Absent
    /\ cfg' = c
    /\ UNCHANGED <<active, worker, health, pending, op, store, checks, sessions, stall>>

ForgetHealth ==
    /\ op = "forget"
    /\ Forget
    /\ op' = "free"
    /\ UNCHANGED <<config, pending, store, checks, sessions>>

(* Another pool becomes the active one. *)
SwitchAway ==
    /\ Free /\ store = "free"
    /\ active
    /\ active' = FALSE
    /\ UNCHANGED <<cfg, worker, health, pending, op, store, checks, sessions, stall>>

-----------------------------------------------------------------------------
(* A save of the settings: Commit, then settingsChanged as its listener. *)

SavePublish(w) ==
    /\ store = "free" /\ Roomy
    /\ w # worker
    /\ worker' = w
    /\ store' = "saving"
    /\ SpoilAct
    /\ UNCHANGED <<cfg, active, health, pending, op, probe, check, sessions, stall>>

SaveListen ==
    /\ store = "saving"
    /\ Forget
    /\ store' = "request"
    /\ UNCHANGED <<config, pending, op, checks, sessions>>

SaveRequest ==
    /\ store = "request"
    /\ pending' = [a \in Addrs |-> pending[a] \/ (cfg # Absent /\ a \in cfg.addrs)]
    /\ store' = "free"
    /\ UNCHANGED <<config, health, op, checks, sessions, stall>>

-----------------------------------------------------------------------------
(* Background checks: startProbe, step by step, then the check itself. *)

NoCheck == [at |-> "free"]
Running(c, v, w, by) ==
    [at |-> "running", c |-> c, version |-> v, worker |-> w, by |-> by, dirty |-> FALSE]

ProbeTake(a) ==
    /\ probe.at = "idle"
    /\ cfg # Absent /\ a \in cfg.addrs
    /\ check[a] = NoCheck
    /\ check' = [check EXCEPT ![a] = [at |-> "held"]]
    /\ probe' = [at |-> "held", a |-> a, c |-> cfg]
    /\ UNCHANGED <<config, health, pending, op, store, act, sessions, stall>>

ProbeWorker ==
    /\ probe.at = "held" /\ Free
    /\ op' = "probe"
    /\ probe' = [at |-> "worker", a |-> probe.a, c |-> probe.c, worker |-> worker]
    /\ UNCHANGED <<config, health, pending, store, check, act, sessions, stall>>

(* Mutant: the gate is not released when the address has changed. *)
ProbeVersionHolds ==
    /\ probe.at = "worker"
    /\ op' = "free"
    /\ IF StillHas(probe.c, probe.a)
       THEN probe' = [at |-> "ready", a |-> probe.a,
                      run |-> Running(probe.c, version, probe.worker, "loop")]
       ELSE probe' = [at |-> "idle"]
    /\ UNCHANGED <<config, health, pending, store, check, act, sessions, stall>>

ProbeVersion ==
    /\ probe.at = "worker"
    /\ op' = "free"
    /\ IF StillHas(probe.c, probe.a)
       THEN /\ probe' = [at |-> "ready", a |-> probe.a,
                         run |-> Running(probe.c, version, probe.worker, "loop")]
            /\ UNCHANGED check
       ELSE /\ probe' = [at |-> "idle"]
            /\ check' = [check EXCEPT ![probe.a] = NoCheck]
    /\ UNCHANGED <<config, health, pending, store, act, sessions, stall>>

ProbeRun ==
    /\ probe.at = "ready"
    /\ pending' = [pending EXCEPT ![probe.a] = FALSE]
    /\ check' = [check EXCEPT ![probe.a] = probe.run]
    /\ probe' = [at |-> "idle"]
    /\ UNCHANGED <<config, health, op, store, act, sessions, stall>>

(* Mutant: a check with another test worker counts. *)
AcceptOther(a) == StillHas(check[a].c, a) /\ version = check[a].version

(* recordCheck: what still applies counts, the rest is dropped. *)
Accept(a) ==
    LET k == check[a]
    IN  StillHas(k.c, a) /\ worker = k.worker /\ version = k.version

Record(a, ok) ==
    /\ check[a].at = "running" /\ Free
    /\ IF Accept(a)
       THEN /\ addr' = [addr EXCEPT ![a] = Probed(@, ok)]
            /\ pool' = Derived(addr', check[a].c.addrs)
            /\ stall' = [stall EXCEPT ![a] = IF @ = 0 \/ check[a].dirty THEN @
                                             ELSE IF ok THEN @ - 1 ELSE probeOKsToUp]
       ELSE UNCHANGED <<addr, pool, stall>>
    /\ act' = IF check[a].by = "act"
              THEN [act EXCEPT !.left = @ \ {a}, !.ok = @ \/ ok] ELSE act
    /\ check' = [check EXCEPT ![a] = NoCheck]
    /\ UNCHANGED <<config, version, pending, op, store, probe, sessions>>

-----------------------------------------------------------------------------
(* An activation: capture, check every address, validate again, persist. *)

NoAct == [at |-> "idle"]

ActBegin ==
    /\ act = NoAct
    /\ cfg # Absent
    /\ act' = [at |-> "begun", c |-> cfg, dirty |-> FALSE]
    /\ UNCHANGED <<config, health, pending, op, store, probe, check, sessions, stall>>

ActCapture ==
    /\ act.at = "begun"
    /\ act' = [at |-> "captured", c |-> act.c, dirty |-> FALSE,
               version |-> version, worker |-> worker]
    /\ UNCHANGED <<config, health, pending, op, store, probe, check, sessions, stall>>

(* checkSaved reads the worker and the version of its own checks. *)
ActArm ==
    /\ act.at = "captured" /\ Free
    /\ act' = [at |-> "checking", c |-> act.c, dirty |-> act.dirty,
               version |-> act.version, worker |-> act.worker,
               run |-> [version |-> version, worker |-> worker],
               todo |-> act.c.addrs, left |-> act.c.addrs, ok |-> FALSE]
    /\ UNCHANGED <<config, health, pending, op, store, probe, check, sessions, stall>>

ActCheck(a) ==
    /\ act.at = "checking" /\ a \in act.todo
    /\ check[a] = NoCheck
    /\ check' = [check EXCEPT ![a] = Running(act.c, act.run.version, act.run.worker, "act")]
    /\ act' = [act EXCEPT !.todo = @ \ {a}]
    /\ UNCHANGED <<config, health, pending, op, store, probe, sessions, stall>>

(* The gate did not come free in time. *)
ActMiss(a) ==
    /\ act.at = "checking" /\ a \in act.todo
    /\ act' = [act EXCEPT !.todo = @ \ {a}, !.left = @ \ {a}]
    /\ UNCHANGED <<config, health, pending, op, store, probe, check, sessions, stall>>

(* Mutant: only the configuration is compared, not what happened to it. *)
UnchangedLooks == cfg = act.c /\ worker = act.worker

(* activate, from taking opMu to the end of Mutate. *)
Unchanged == cfg = act.c /\ version = act.version /\ worker = act.worker

ActCommit ==
    /\ act.at = "checking" /\ act.left = {}
    /\ Free /\ store = "free" /\ Roomy
    /\ act' = NoAct
    /\ IF act.ok /\ Unchanged
       THEN active' = TRUE /\ op' = "forget"
       ELSE UNCHANGED <<active, op>>
    /\ UNCHANGED <<cfg, worker, health, pending, store, probe, check, sessions, stall>>

(* Restore, or an activation forced by the operator. *)
ActForce ==
    /\ Free /\ store = "free" /\ Roomy
    /\ cfg # Absent
    /\ active' = TRUE
    /\ op' = "forget"
    /\ Spoil
    /\ UNCHANGED <<cfg, worker, health, pending, store, probe, sessions, stall>>

-----------------------------------------------------------------------------
(* Sessions: Pick dials without opMu; a live session reports its failure. *)

NoDial == [at |-> "idle"]

DialStart(a) ==
    /\ dial = NoDial /\ Cardinality(live) < MaxLive
    /\ cfg # Absent /\ a \in cfg.addrs
    /\ pool.status # "DOWN" /\ addr[a].status # "DOWN"
    /\ dial' = [at |-> "dialing", a |-> a, c |-> cfg]
    /\ UNCHANGED <<config, health, pending, op, store, checks, live, stall>>

(* The dial ended; stillHas looks at the snapshot before the result counts. *)
DialEnd(ok) ==
    /\ dial.at = "dialing"
    /\ IF StillHas(dial.c, dial.a)
       THEN dial' = [at |-> "ended", a |-> dial.a, c |-> dial.c, ok |-> ok] /\ UNCHANGED live
       ELSE /\ dial' = NoDial
            /\ live' = IF ok THEN live \cup {[a |-> dial.a, c |-> dial.c]} ELSE live
    /\ UNCHANGED <<config, health, pending, op, store, checks, stall>>

DialResult ==
    /\ dial.at = "ended"
    /\ addr' = [addr EXCEPT ![dial.a] = Dialed(@, dial.ok)]
    /\ pool' = Derived(addr', dial.c.addrs)
    /\ live' = IF dial.ok THEN live \cup {[a |-> dial.a, c |-> dial.c]} ELSE live
    /\ dial' = NoDial
    /\ UNCHANGED <<config, version, pending, op, store, checks, stall>>

(* upstream_connect_budget ran out: the pool is not to blame. *)
DialExpires ==
    /\ dial.at = "dialing"
    /\ dial' = NoDial
    /\ UNCHANGED <<config, health, pending, op, store, checks, live, stall>>

(* sessionFailure, for a lost connection and for missing jobs. *)
SessionLost(s) ==
    /\ s \in live /\ Free
    /\ live' = live \ {s}
    /\ pending' = IF StillHas(s.c, s.a) THEN [pending EXCEPT ![s.a] = TRUE] ELSE pending
    /\ UNCHANGED <<config, health, op, store, checks, dial, stall>>

(* Mutant: the OK checks of before the stall still count. *)
JobTimeoutKeeps(s) ==
    /\ s \in live /\ Free /\ Roomy
    /\ StillHas(s.c, s.a)
    /\ live' = live \ {s}
    /\ addr' = [addr EXCEPT ![s.a].status = "DOWN", ![s.a].clean = FALSE]
    /\ pool' = Derived(addr', s.c.addrs)
    /\ version' = version + 1
    /\ stall' = [stall EXCEPT ![s.a] = probeOKsToUp]
    /\ pending' = [pending EXCEPT ![s.a] = TRUE]
    /\ Spoil
    /\ UNCHANGED <<config, op, store, probe, dial>>

JobTimeout(s) ==
    /\ s \in live /\ Free /\ Roomy
    /\ StillHas(s.c, s.a)
    /\ live' = live \ {s}
    /\ addr' = [addr EXCEPT ![s.a] = Stalled]
    /\ pool' = Derived(addr', s.c.addrs)
    /\ version' = version + 1
    /\ stall' = [stall EXCEPT ![s.a] = probeOKsToUp]
    /\ pending' = [pending EXCEPT ![s.a] = TRUE]
    /\ Spoil
    /\ UNCHANGED <<config, op, store, probe, dial>>

-----------------------------------------------------------------------------

Init ==
    /\ cfg \in Configs
    /\ active \in BOOLEAN
    /\ worker \in Workers
    /\ version = 0
    /\ addr = [a \in Addrs |-> Fresh]
    /\ pool = Unknown
    /\ pending = [a \in Addrs |-> FALSE]
    /\ op = "free"
    /\ store = "free"
    /\ probe = [at |-> "idle"]
    /\ check = [a \in Addrs |-> NoCheck]
    /\ act = NoAct
    /\ dial = NoDial
    /\ live = {}
    /\ stall = [a \in Addrs |-> 0]

Operate ==
    \/ \E c \in Configs : EditSave(c) \/ CreateSave(c)
    \/ DeleteSave \/ SwitchAway \/ ActForce
    \/ \E w \in Workers : SavePublish(w)

Finish == EditHealth \/ ForgetHealth \/ SaveListen \/ SaveRequest

Probing == ProbeWorker \/ ProbeVersion \/ ProbeRun

Activate == ActCapture \/ ActArm \/ (\E a \in Addrs : ActCheck(a) \/ ActMiss(a)) \/ ActCommit

Dialing == (\E ok \in BOOLEAN : DialEnd(ok)) \/ DialResult \/ DialExpires

Fails == \E s \in live : SessionLost(s) \/ JobTimeout(s)

Next ==
    \/ Operate \/ Finish
    \/ (\E a \in Addrs : ProbeTake(a)) \/ Probing
    \/ \E a \in Addrs, ok \in BOOLEAN : Record(a, ok)
    \/ ActBegin \/ Activate
    \/ (\E a \in Addrs : DialStart(a)) \/ Dialing
    \/ Fails

Spec == Init /\ [][Next]_vars

(* The loop of Run tries every address again and again, and gates, dials and
   operations are held for a bounded time; a gate may be taken whenever Run
   tries, so trying has to be strongly fair.  Nobody has to operate, and
   nothing has to succeed. *)
Fairness ==
    /\ WF_vars(Finish) /\ WF_vars(Probing) /\ WF_vars(Activate) /\ WF_vars(Dialing)
    /\ \A a \in Addrs : /\ SF_vars(ProbeTake(a))
                         /\ SF_vars(\E ok \in BOOLEAN : Record(a, ok))

FairSpec == Spec /\ Fairness

-----------------------------------------------------------------------------
(* Properties. *)

Entry == [status : {"UNKNOWN", "UP", "DOWN"}, probeFails : 0 .. probeFailsToDown,
          probeOKs : 0 .. probeOKsToUp, dialFails : 0 .. dialFailsToDown, clean : BOOLEAN]

RunningCheck == [at : {"running"}, c : Configs, version : Nat, worker : Workers,
                 by : {"loop", "act"}, dirty : BOOLEAN]

TypeOK ==
    /\ cfg \in Configs \cup {Absent}
    /\ active \in BOOLEAN
    /\ worker \in Workers
    /\ version \in Nat
    /\ addr \in [Addrs -> Entry]
    /\ pool \in [status : {"UNKNOWN", "UP", "DOWN"}, up : BOOLEAN]
    /\ pending \in [Addrs -> BOOLEAN]
    /\ op \in {"free", "edited", "forget", "probe"}
    /\ store \in {"free", "saving", "request"}
    /\ check \in [Addrs -> RunningCheck \cup {NoCheck, [at |-> "held"]}]
    /\ live \subseteq [a : Addrs, c : Configs]
    /\ stall \in [Addrs -> 0 .. probeOKsToUp]

(* A verdict of a check counts only if it used the current test worker and
   nothing has happened to the pool since it started: no edit, deletion or
   forced activation, and no session found it stalled (recordCheck, and "a
   check started before the stalled session was detected cannot override the
   verdict", sessionFailure). *)
NoStaleVerdict ==
    [][\A a \in Addrs : check[a].at = "running" /\ check'[a] = NoCheck /\ addr'[a] # addr[a]
                           => ~check[a].dirty /\ check[a].worker = worker]_vars

(* An activation with a check makes the pool active only if nothing changed
   between reading what to check and saving the switch, although it holds no
   lock while it checks (activate). *)
ActivationFresh ==
    [][act.at = "checking" /\ act' = NoAct /\ op' # op => ~act.dirty /\ cfg = act.c]_vars

(* The verdicts are never overdue or undeserved, whatever order dials, checks
   and job timeouts come in: below the thresholds while not DOWN, a failed
   check ends the healthy run that failback waits for, and UP follows
   probeOKsToUp checks in a row. *)
Hysteresis ==
    \A a \in Addrs :
        /\ addr[a].status # "DOWN" => /\ addr[a].probeFails < probeFailsToDown
                                      /\ addr[a].dialFails < dialFailsToDown
        /\ addr[a].status # "UP" => addr[a].probeOKs < probeOKsToUp
        /\ addr[a].clean => addr[a].status = "UP" /\ addr[a].probeOKs = probeOKsToUp

(* "Recovery needs two subsequent full checks" (sessionFailure): an address
   that stalled a session is UP only after as many OK checks started later. *)
StallHolds == \A a \in Addrs : addr[a].status = "UP" => stall[a] = 0

(* A requested check is made, unless the address goes away. *)
RequestServed ==
    \A a \in Addrs : []<>(~pending[a] \/ cfg = Absent \/ a \notin cfg.addrs)

(* Whatever happened before, an address that passes all its checks and dials
   from some time on is UP from some time on. *)
Sound ==
    /\ \A a \in Addrs : ~Record(a, FALSE)
    /\ ~DialEnd(FALSE)
Recovers ==
    <>[][Sound]_vars =>
        \A a \in Addrs : <>[](cfg # Absent /\ a \in cfg.addrs => addr[a].status = "UP")
===============================================================================
