# A TLA+ model of simple-mining-proxy

The proxy sits between a farm of ASICs and mining pools.  It speaks Stratum to
both, routes every miner to the active pool or, when that one fails, to a
fallback, and lets an operator, a profit rule, a timer or the easy blocks of a
chain move the whole farm to another pool.

This directory holds a specification of the parts that decide where miners go
and that must not go wrong under concurrency, failure and restart: TLA+
modules, model-checking configurations for TLC, and proofs for TLAPS.
Paths without a prefix are under `src/internal/`.  `PROJECT.json` lists, for
every definition, the lines of code it stands for.

## 1. The system

### Parts, their state and their operations

| part | code | state | operations |
|---|---|---|---|
| State store | `state/`, `atomicfile/` | `state.json`: pools, active pool, fallback order, settings; the current copy | Open, Mutate (apply, check, write, publish) |
| Pool manager, configuration | `pool/manager.go` | the published snapshot, `opMu` | Create, Update, Delete, SetFallback, Activate, Restore, SetProfitHome |
| Health and checks | `pool/health.go`, `pool/probe.go` | per address: status, three counters, start of the healthy run; per pool: derived status; versions, requested checks, gates | check results, dial results, session failures, edits, `settingsChanged` |
| Routing | `pool/manager.go` Pick, `pool/dial.go`, `pool/health.go` `chooseLocked` | latency and choice of the address | Pick, `checkFailover`, `checkFailback` |
| Session registry | `session/registry.go` | sessions, the drain in progress, its generation, the flag `draining` | add, remove, Drain, CloseAll |
| Session relay | `session/session.go` | the two connections, pending requests, job deadlines | Serve, Close, `reportFailure` |
| Timed switching, block hunting | `timed/` | the switch to undo, schedule, hunter; `timed.json` | one step every five seconds, StartNow |
| Profit switching | `profit/` | market data, last check | due, Check |
| Block watcher | `rtt/` | block times, hardness of the next block, liveness | feed of jobs, reconnect, seeding |
| Settings | `settings/` | the values in force | Save with listeners |
| Connection limits | `listener/` | slots in total, before the first message, per address | acquire, promote, release |
| ASIC monitor | `monitor/` | known ASICs, online or offline | share, silence, sweep |
| Telegram alerts and controls | `telegram/` | queue, what the chat was told, confirmations | Notify, send, buttons |
| History | `history/` | points of a minute, an hour, a day | record, roll up, recover |
| Login guard | `admin/guard.go` | failed logins in windows, locks | attempt, success |
| Admin API, web interface | `admin/`, `src/web/` | sessions of the browser | requests to the parts above |

### How they interact

- *Configuration.*  Every change of pools and roles goes through
  `Manager.opMu` and then `Store.Mutate`, under the store's own lock.  Settings
  are saved to the same file without `opMu`; their listeners run under the
  store's lock and call into the pool manager.  Readers use an atomic snapshot
  and take no lock.
- *Health.*  A loop checks every address at an interval and on request.  A gate
  per address keeps two checks apart.  Results of checks, of the dials sessions
  make, and of sessions that stop receiving jobs meet in one record per address
  under `hmu`.  Checks and dials run for seconds without a lock, so every
  result may be late.
- *Moving miners.*  A switch publishes the new roles and then closes the
  sessions on other pools, one at a time over `switch_drain`, so that the farm
  does not reconnect at once.  Failover and failback of the background loop use
  the same drain.
- *Everybody switches.*  The operator, profit switching, the timer and hunting
  all call `activate`.  They find out about each other only through the
  published snapshot and the reason of the last switch.
- *Restarts.*  `state.json`, `timed.json`, the monitor's and the history's
  files are replaced atomically; everything else is lost with the process.

### What is hard here

Results computed on a copy and applied after an edit; drains that replace each
other while the goroutine of the older one still runs; sessions that register
between two steps of a drain or of the shutdown; crashes between the file and
the memory, and between the two saves around a temporary switch; operators who
switch by hand while a component has the farm away.  `PROJECT.json`, "hazards",
has the list, each at its line, with the properties about it.

### What makes each part correct

- Configuration: what the operations accept, the next start accepts; roles and
  marks never contradict each other; what readers see is in the file; a switch
  there and back changes nothing, and no switch loses a pool.
- Health: only results that still apply count; a stalled address needs two
  *later* good checks; thresholds hold in any order of events; a requested
  check is made, and a healthy address comes back.
- Activation: what is made active is what was checked.
- Drains: only the latest drain closes sessions; it closes all it was started
  for; the flag is true exactly while it works; it ends; the shutdown ends.
- Timed switching: the way back is always in the file while the farm is away;
  the time on the target is the time set; the roles of before come back; a
  choice by hand stands; turning it off brings the farm home.
- Session: a request's answer is taken for what it answers although ids are
  used again; only a pool that is silent or rejects a login is reported; a
  deadline is the one in force.
- Limits: slots are given back exactly once, however a connection ends.
- Monitor and alerts: the chat ends up knowing the present state, or what it
  missed was lost in a way the code accepts; a flapping ASIC is held back.
- Profit switching: on an unchanged market the farm never bounces; two switches
  are an interval apart; it comes home when the lead is gone.
- Block watcher: the next block is never taken for easier than the newest one
  makes it; a hunt is not called off for a block already known; the watcher
  recovers from everything.
- Controls: a confirmation works once, for whom and for what it was shown.
- Routing (not modelled): the first pool in order that is not DOWN gets the
  miner; failover and failback wait their delays and both come to pass.
- History, guard (not modelled): nothing counted twice or lost over a restart
  but what had not been written; locks grow and expire.

## 2. The modules

### Roles: what the configuration promises

The abstract specification of the roles of pools - which exist, which is
active, the order of fallbacks, the timed target and the main pool.  Each
operation of the pool manager is one step, and a step is never taken back.
Only a switch or a new order moves the active pool (or the first pool there is);
a deletion keeps the others in their order; an edit moves no mark but its own
and the one it takes away.

### PoolConfig: the saved configuration

`state/state.go` and the operations of `pool/manager.go` on what it stores.
`disk` is the file, `cur` the current copy (the published snapshot holds the
same pools and roles), `next` the copy a `Mutate` works on.  One action per
operation checks and computes the new copy; `Write`, `WriteFails` and `Commit`
are the other steps of `Mutate`; `Crash` may come between any two, `Open` is
the next start.  An operation the code refuses is the stutter `Refuse`.  A
change that `File.check` turns down sets `rejected`: the code would answer with
an internal error.  Names, ids and settings are values of small sets.
Addresses and logins are in HealthTracker; how the text of a host name or an
id is validated is left out.  PoolConfig implements Roles with the roles of the
file: an operation takes effect when its file is in place, and what a failed
write or a crash loses never had.

### Drain: sessions, drains, shutdown

`session/registry.go`, the frame of `session/session.go` Serve, and the
callers of `Drain` in the pool manager.  `session` is a phase and a pool;
`caller` is the Drain call in progress (one at a time, under `opMu`), in two
steps as in the code: collect the targets under `mu`, start under `drainMu`.
`runs[g]` is the goroutine of generation `g`; replaced goroutines go on running
until they look.  `Stop`, `CancelDrain`, `ListAll` and `CloseOne` are the
shutdown.  `latest` and `due` are history variables of the properties.
How long a drain waits between two targets is open: any step may come any time.

### HealthTracker: health, checks, activation

`pool/health.go`, `pool/probe.go` and the parts of `pool/manager.go` that feed
or void the health of one pool.  A configuration is a set of addresses, a login
and the spelling of the host names, because `addrKey` folds their case and
`stillHas` does not.  `op` and `store` are the holders of `opMu` and
of the store's lock over several steps; a step that takes `hmu` is atomic.
`probe` walks through `startProbe` line by line, because it reads the
configuration, the worker and the version at three moments; `check[a]` is the
gate of an address with what the running check was started from; `act` is an
activation from its first look to its commit; `dial` and `live` are sessions.
`version` counts what voids checks, and is the bound of the model.  `dirty` and
`stall` are history.  The counters stop at their thresholds, beyond which the
code does not tell values apart.  Times and latency are left out: a result may
come at any moment, or after anything else.

### TimedSwitch: timer and block hunting

`timed/timed.go` and `timed/hunt.go`.  `Step` is the decision of one step of
`Run` as the code takes it from one look at the roles, the settings and the
chain; what it decided on is carried out in further actions (`LeaveCommit`,
`LeaveSave`, `ReturnCommit`, `ReturnSave` and their failures), with everybody
else in between: `Manual`, `SetFallback`, `Delete`, `Mark`, `SetModes`,
`StartNow`, the look and the later switch of profit switching, the chain,
`Crash` and `Restart`.  `file` is `timed.json`; writes of it may fail if
`DiskFails`.  Time is counted in minutes.  `trip`, `hand`, `real` and `looked`
are history.  `hand` is who was overridden by a switch away from the target,
unless a switch back is on its way or the period, the block or the hunt is over
and the switcher has not noticed yet; whoever puts the farm back on the target
before the switcher has noticed takes it back.  Hardness is low, mid or high: at most the threshold to go, between
the two, or above the one to pause.

A fallback order names no pool twice (`IsOrder`), which every operation of the
manager sees to.  What the list helpers give for such an order is stated without
recursion, so that it can be reasoned about: `without` moves what follows up by
one, and `IsExistingOnce` says which order `existingOnce` returns.

### Limits and Session: one connection

Limits is `listener/listener.go`: three counters over `acquire`, `firstDone`
and `release`, with the lock taken only where the code takes it, for any number
of connections.  `acquire` reads the settings (`Arrive`) before it takes the
lock (`Admit`, `Reject`); `cfg` is what it has read for a connection, and the
limits may change in between.  Session is the whole of `session/session.go` `Serve` for one
connection, `me`, which uses an instance of Limits together with all the other
connections.  `miner` and `pool` say where its two goroutines are; `asked` and
`wire` are the peers: requests without an answer, lines sent ahead.  The checks
of `jobTimedOut`, the setting of a deadline, a read, the write to the miner and
the two steps of `reportFailure` are separate actions with everything else in
between.  A change of the timeout is published (`SaveTimeout`) before it is
applied to open sessions (`RefreshDeadlines`).  A tick passes only while
nothing but a slow peer or the clock can go on.  The lists of open requests
are bounded by `MaxAuth` and `MaxSubmits`: a request that finds its list full is
passed on without being recorded (`Recorded`).  `quiet`, `slow` and `forgotten`
are history; `forgotten` are the ids of requests that were dropped as too old,
or not recorded while as many of their kind as the list takes had no answer.
Messages are kinds with an id; what rewriting does to them is left out, and with
it the list of logins and its bound (`maxTrackedLogin`).

### Monitor and Alerts: from a share to the chat

Monitor is `monitor/monitor.go`: who shares, who is silent, when the file is
saved, what a restart knows.  Alerts extends it with the way to the chats:
`Bot.Notify` and its queue, the notifier's batches, flapping records and
retries, the broadcast that may reach some chats only.  `StartOver` is a
shutdown or a crash of both.  `told`, `said` and `lost` are history: what each
chat was told, when, and which news was lost in a way the code accepts.

### ProfitSwitch: the switch for profit

`profit/switcher.go` and the cache of `profit/market.go`.  A check is `Begin`
(take the mutex and the settings), `Decide` (fetch and compare), `Switched` or
`SwitchFailed`, and `Finish` (save the time); edits of everything it looked at,
a switch by hand, timed switching and crashes come between the steps.  The
revenue of a coin is a number, so the two margins are compared as the code does.

### Watcher: the block watcher

`rtt/watch.go` and the use of `rtt/rtt.go`.  Run picks a pool, seeds the block
times, dials, logs in and reads; a ticker beside it notices that the registry
has another pool to watch.  Blocks are heights; nodes of pools learn of them
late.  A pool is one node, which never shows an older block after a newer one.
That is an assumption about the pool: the watcher tries its addresses in order
(`rtt/watch.go:195`), and the nodes behind them, or behind a load balancer, need
not agree.  Times are ages that stop where they no longer matter.  What the
formula of the target gives is reduced to whether the newest block still binds.

### Controls: buttons and confirmations

`telegram/controls.go` with the polling of `telegram/telegram.go`.  A tap stays
in the `inbox` of its bot until an offset after it is confirmed, so it may be
fetched again after a crash or a failed answer.  The handler `h` goes through
the steps of `handleCallback`: consume the confirmation, answer, say that the
pool is checked, activate, reply; the token, the list of chats and the farm may
change between them.  Alerts is the other half of the same bot, so the names of
Controls differ from its names (`asking` is `Bot.pending`, `ControlsSpec` the
specification): one module of proofs extends both.

### How the modules compose

Session instantiates Limits, and Alerts extends Monitor.  The others meet at
named interfaces: a drain in Drain is what a switch of PoolConfig or an edit
starts; the verdicts that HealthTracker keeps are an input of ProfitSwitch
(`health`); hardness and liveness, which Watcher gives, are inputs of
TimedSwitch (`chain`); the scheduled check of ProfitSwitch is a step of the
environment in TimedSwitch, and timed switching one in ProfitSwitch (`Leave`,
`Return`).  Each side leaves the other free to do more than it does.

### MC modules and the proofs

`MCPoolConfig`, `MCDrain`, `MCHealthTracker`, `MCTimedSwitch`, `MCSession`,
`MCAlerts`, `MCProfitSwitch`, `MCWatcher` and `MCControls` give values for TLC
and the symmetry sets.  `PoolConfigProofs`, `DrainProofs`, `HealthProofs`,
`TimedProofs`, `SessionProofs`, `ProfitProofs`, `WatcherProofs` and
`TelegramProofs` (of Alerts and of Controls) hold the theorems.  A definition commented "Mutant" is a
plausible mistake in the definition after it; no specification uses it.  Each
property of a passing run has one that breaks it.

## 3. What the runs check

| run | shows |
|---|---|
| `pool_config` | `CheckNeverFails`: no legal sequence of operations ends in a file `File.check` refuses. `MarksConsistent`: one timer pool, one main pool, which takes part in profit switching - `File.check` does not look at that, every operation has to keep it. `Durable`: what readers see and what the file holds, at every step, write failure and crash. `RoundTrip`: a switch and the return with the order of before give the roles of before. `ChainKept`: no switch loses or reorders fallbacks. `ImplementsRoles`: the refinement of Roles. |
| `drain` | `DrainingIsReal`: failover and failback are held back exactly while a drain works. `DrainFinishes`: a drain that ended closed all its targets. `NobodyMissed`: and its targets were everybody the switch or the edit concerned. `OnlyLatest`: a replaced drain closes nobody. `DrainEnds`, `ShutdownEnds`: the flag is not left set; a session that was dialing while the shutdown listed the sessions ends too. |
| `drain_switch` | violated: `SwitchReconnects` (section 6). |
| `health_edits` | `NoStaleVerdict`: with edits, deletions, re-creation, forced switches, stalls and a new test worker around it, a check counts only if nothing voided it. `StallHolds`: after a stall, two good checks that started later. `Hysteresis`: thresholds and the healthy run in every order of checks, dials and stalls. `ActivationFresh`: an activation commits only what it checked. |
| `health_live` | `RequestServed`: the gate is always given back and the request taken off. `Recovers`: no order of events, an edit of the spelling of a host under a running check among them, leaves an address DOWN for good. |
| `timed_timer` | `WayBackSaved`, `StintsFit`, `HandStands` for the timer and hunting over a whole period with pauses, two operations or switches for profit, and one crash. |
| `timed_live` | `TurnedOff`, `RolesRestored` with failing writes and a crash: switched off, the farm comes home. |
| `session` | `SlotsExact`: the session gives back its slots once, whichever of its goroutines, the shutdown or the peers ends it. `DeadlineInForce`: the read deadline is that of the timeout in force. `StallIsReal`: no pool is reported for silence it did not keep. `AnswersCount`: with ids used again, late answers, full lists and requests dropped as too old, each answer counts for what it answers, and that of a forgotten request as nothing. |
| `alerts` | `ChatKnows`, `OutageTold`: what the chats know in the end. `FlapLimited`: the hold on a flapping ASIC. |
| `profit` | `NoBounce`, `Paced`, `ComesHome`. |
| `watcher` | `NeverUnderstated`, `NoFalseAlarm`, `Follows`. |
| `controls` | `Once`, `Sanctioned`, `Dealt`. |

The health runs and `pool_config` look for deadlocks too.  In the others
everybody may run out of work, because drains, time, edits, faults and taps are
bounded and a connection is used once: they do not.

### Bounds, and why they are enough

- `pool_config`: three ids, so that there is an active pool with an order of
  two fallbacks, the least in which an order can be wrong; three names; a pool
  that takes part in profit switching, a solo pool marked for the timer, and a
  combination the editor refuses.  `MaxCrashes` = 1: a crash loses nothing that
  a second one could combine with, and what survives is checked in every state.
- `drain`: two drains, so that one replaces another whose goroutine has not
  noticed yet; two sessions and two pools, so that a target and a bystander
  exist.  No symmetry, which is unsound for liveness; instead the pool that is
  active at the start is fixed, the other being its mirror image.
  `drain_switch` has a third pool, the one that is edited.
- `health_*`: `MaxVersion` bounds edits and stalls: two, one while a check is on
  its way and one after.  `MaxLive` bounds sessions: one stall spoils one check.
  Two logins and two test workers make a change and a change back possible.
  `health_live` has one edit, of the spelling.  One address: with two the state
  space is beyond a run; the health of an address depends on the other one only
  through the shared locks and the version, which the operations here stand for.
- `timed_*`: `timed_timer` has a period of four minutes with two on the target and
  a shortest stint of one, so that a pause can leave a rest that is too short;
  `MaxTime` spans the beginning of the next period.  `MaxEdits` = 2 and
  `MaxCrashes` = 1: two switches, by hand or for profit, so that one overrides
  the switcher and the other puts the farm back, and one crash at any point of
  a switch there and back.  `timed_live` sees the end of the time on the target,
  with one operation and failing writes.  Two pools, home and target, in both:
  the three properties of `timed_timer` and `RolesRestored` are proved for any
  number of pools, operations and crashes.
- `session`: two connections on one address, limits of one and of two; two ids,
  so that an id is used again while the other waits; two timeouts, `Cap` above
  both; one line ahead (`MaxWire`), which a slow write leaves unread; requests
  lapse after one tick.  Each list takes one request (`MaxAuth`, `MaxSubmits`),
  so that the second of its kind finds it full; the code has 128 and 10000, and
  `AnswersAreCounted` is proved for any bounds.
- `alerts`: one ASIC with one chat.  The notifier keeps its records by ASIC, so a
  second one matters for the batch and the queue only; `QueueMax` = 1 fills it
  with one.  One stop.  `Slow` is empty, disk writes succeed and a broadcast
  takes no tick (`MaxBusy` = 0) in this run; the model has all three.
- `profit`: three coins, so that there is a way to a third pool that is better
  than the second; three markets with leads below, at and above both margins
  and one with missing data; two pairs of margins that the settings accept and one
  that they refuse.  The main pool is always `h`; a farm without one is left to
  the proofs.
  `Interval` = 3 against a check of at most one tick.  One edit and one crash
  beside a departure of timed switching, whose return needs none.
- `watcher`: three blocks, two faults, one line ahead; the factor of one arrival
  (`Blocks` = 1).  Registries with the target, with its login edited, and with
  no pool to watch.
- `controls`: two bots, two messages of the first, two users, three taps (a tap,
  its repetition and another), one fault.  A confirmation lives one tick.

### Fairness

Assumed only where a liveness property needs it, and only of the program:

- Drain: the caller of a drain, the goroutines, CloseAll and the steps of a
  session are scheduled; a dial ends by its timeout at the latest.  Nobody has
  to hang up, operate or stop the program.
- HealthTracker: operations, dials, checks and activations end by their own
  timeouts (weak fairness).  Run tries every address again and again and takes
  the gate when it happens to be free, and a finished check waits for `opMu`:
  strong fairness of `ProbeTake` and `Record`, since others take the gate and
  `opMu` in between.  No check has to succeed; `Recovers` assumes that they do,
  in the property itself.
- TimedSwitch: `Run` takes step after step, calls return, the service manager
  restarts the program (weak fairness); a write of `state.json` that is tried
  every five seconds succeeds some time (strong fairness of `ReturnCommit`).
- Alerts: the monitor's loop and time go on (weak); `sendLoop` gets to its
  queue although ticks come in between, and a message that is tried again and
  again is delivered some time (strong).
- ProfitSwitch: time and Run go on and a check ends (weak).  The source of
  market data and the check of a pool that works do not fail for ever, and the
  mutex is free again and again (strong).
- Watcher: Run, its ticker and time go on, nodes learn of blocks, a pool answers
  a login (weak); a pool that is asked over many connections sends a job (strong).
- Controls: the bot polls and handles on and hears of a new token (weak).

A property of the form `[]<>` is used instead of "leads to" where the condition,
once true, stays true until the event.

## 4. What is proved

For every value of the constants that satisfies the named assumptions of the
modules.

### PoolConfigProofs

Theorems `TypeCorrect`, `ChecksSuffice` (`CheckNeverFails`),
`MarksStayConsistent`, `NamesStayDistinct`, `FileIsDurable` (`Durable`),
`SwitchesKeepChain` (`ChainKept`), `WayBackIsExact` (`RoundTrip`) and
`RolesImplemented` (`ImplementsRoles`).

None of these is inductive.  The invariant `IInv` says of each of the three
copies - the file, the current one and the one being written - that it is
*good*: it passes `File.check`, its marks are consistent and its names
distinct; that the copies are *staged*: equal when no change is in flight, the
file being the old or the new copy otherwise; and that nothing has been
rejected.  The heart is one lemma per operation: a good configuration that the
operation accepts becomes a good one.  `Write`, `WriteFails`, `Commit`, `Crash`
and `Open` only move good copies around.  The refinement adds to that invariant
that a change in flight is one Roles allows (one lemma per operation); `Write`
is then the step of Roles, everything else a stutter.

`ChainKept` and `RoundTrip` follow from what a good configuration is and from
what the list helpers do: without keeps the order (`WithoutKeepsOrder`), a pool
put in front of a list changes no other's place (`OrderAround`), and two lists of
the same pools, once each and in the same order, are one list (`OneOrder`).  The
last is the induction it looks like, made as an argument about the least position
where a numbering that goes up falls behind (`GoingUp`).  The assumptions are that
the empty id is no pool and what the editor can send.

### DrainProofs

Theorems `TypeCorrect`, `FlagIsReal` (`DrainingIsReal`), `DrainsFinish`
(`DrainFinishes`), `OldDrainsAreHarmless` (`OnlyLatest`), `NobodyIsMissed`
(`NobodyMissed`) and `BackgroundIsPatient` (`BackgroundWaits`), for any number
of sessions, pools and drains.

`IInv` adds what the properties leave unsaid: a generation that has not been
taken has no goroutine (`FutureRuns`); a call in progress may still take one
(`CallFits`, the bound on drains); a background call found no drain in progress
and none begins while it holds `opMu` (`BackgroundIdle`); targets have
registered, so none of them is yet to be dialed (`TargetsAreKnown`); and the
goroutine of a drain that is neither replaced nor cancelled has every open
target still in its list, and no session that is no target (`WorkLeft`,
`NoneYet`).  `OnlyLatest` follows from the last one, `DrainFinishes` from its
case of a goroutine that has no work left.
A session only moves forward through its phases; that one fact
(`SessionStepKeeps`) covers every step of a session, of a replaced goroutine
and of CloseAll.

### TimedProofs

Theorems `WayBackKnown` (`WayBackSaved`), `NeverTooLong` (`StintsFit`),
`ChoiceStands` (`HandStands`), `RolesReturn` (`RolesRestored`) and the types
(`TimedTyped`), for any pools, period, duration, shortest stint, modes, states
of the chain and bounds, with and without writes that fail.

`IInv` has a part for each thing the first three rest on.  `StepOK`: what is done with
the pools is about the switch in memory - a step holds `stepMu`, and only a
crash changes `cur` under it.  `FileOK`: if writes do not fail the file has what
the memory has, but for a period that has begun since the last write, of which
nothing is spent.  `TripOK`: while the farm is on the target, the switch in
memory and the one in the file name the pool it is on; the exceptions are
the two windows in which the code itself has one of them late.  `TimeOK`: the
time really spent is at most what is booked for the current period plus the
stint that runs; none is booked in this period while a stint of an earlier one
runs, and a stint that has been looked at since the clock moved has time left
(`HasTime`), so a minute later the sum is at most the duration.  `HandOK`:
whoever was overridden has it noted (`done` of the period, or `hold`), or the
switcher still has the farm away and will see that it is not on the target when
its next step begins, before it decides on anything.

The proof corrected the model: the history `hand` did not know that an operator
may put the farm back on the target before the switcher has looked, and then
nobody is overridden.  It takes two operations in one behaviour to see, and the
run had one; now it has two.

`RolesReturn` needs two more invariants.  `RolesOK`: the fallbacks are an order
of other pools than the active one.  `WayOK`: while nobody else has changed the
roles, the pool and the order of before can be followed from `leave`, which reads
them, through the record in memory and in the file (`WayBack`) to the return; and
the order the record names for comparison is the current one, so `back` restores
the saved order and not the current one.  At the return none of its pools is gone,
and an order that keeps all pools in their places is the same order (`NoneGone`,
by the least position at which two orders would differ).

Here too the attempt corrected a property.  `RolesRestored` used to say it of
every return, and TLC finds that false with two operations, a write that fails
and a crash: if the write after a return fails, the file still has the switch
that was undone; a crash before the next write brings it back, and if the farm
has been put on that target meanwhile, the switcher returns it once more.  The
property is now about a farm that is where the switcher has sent it (`trip.on`).

The assumptions are that a period and the duration are at least a minute, which
the settings check (`settings/registry.go:229`), and that the shortest stint is
a minute (`timed/timed.go:57`).

### SessionProofs

Theorems `SlotsStayExact` (`SlotsExact`), `LimitsHold` (`NeverOver`),
`DeadlineHolds` (`DeadlineInForce`), `StallsAreReal` (`StallIsReal`) and
`AnswersAreCounted` (`AnswersCount`), for any connections, addresses, limits,
timeouts, ids and lines sent ahead.

Every step of Session is a step of Limits or leaves its variables alone
(`SlotsAreLimits`); each step of Limits adds one connection to the sets that are
counted or takes one from them, and the counters follow (`SlotsOK`).
`NeverOver` compares with the limits that were in force when the connection came
to `acquire`; one lowered before it has the lock does not count.  The
deadline and the stall need that a goroutine at work belongs to a relay that was
started (`Started`) and that the silence the program counts is not longer than
the real one but for a job that waits unread or a slow write (`SilenceCounted`).

That an answer is taken for what it answers is not inductive: the tables of the
relay are keyed by id, and miners use ids again.  `BookOK` says that an id in use
is in one place only - with the miner's goroutine, asked, or answered and on the
wire (`OnePlace`); that what is in use is noted in the table of its kind or
forgotten (`AllNoted`), and never both or in two tables (`Apart`); and that as
long as the miner may still send, nothing else is in the tables (`AllOpen`), so
an id that is free to be used again is in none of them.  It follows that what is
in a table between two requests waits for its answer (`ListsAreOpen`), so a
table is full only if as many requests as it takes wait (`FullListWaits`): no
entry leaks.

The assumptions are that the job timeout is at most the idle timeout, which the
settings check, that ages are counted beyond both, that the set of connections
is finite, and that of the ids too (a line has a largest length), that the age
at which requests are dropped and the bounds of the tables are numbers, and that
`"none"`, the model's word for a goroutine without a request, is no id.

### HealthProofs

Theorems `VerdictsHold` (`Hysteresis`), `StallsHold` (`StallHolds`),
`NoVerdictIsStale` (`NoStaleVerdict`) and `ActivationIsFresh`
(`ActivationFresh`), for any addresses, logins, spellings, test workers and
bounds.

`IInv` says of each address that its verdict keeps to the thresholds and that
the good checks it owes after a stall and those it has make at most two
(`HealthOK`); and of each check and of the activation that its version is not
ahead of the pool's, and that if something has happened to what it is about,
the version has moved or the operation that will move it is still at work
(`GatesOK`, `ActOK`).  That last part is what makes the comparison of versions
in `recordCheck` and `activate` enough: they need `opMu`, so the operation has
ended by then.  A check between its two looks holds `opMu` (`ProbeOK`), and an
activation waits for the checks it began (`Waits`).

### ProfitProofs

Theorems `NeverBounces` (`NoBounce`) and `SwitchesArePaced` (`Paced`), for any
pools, coins, markets, margins, interval and bounds.

`ChainOK` is why two margins are enough.  Of the pools the farm has left since
anything changed, each earns less than the active one, or was left for the main
pool because its lead over it was within the return margin; and if the main pool
was left, the lead over it is at least the switch margin.  A switch to a better
coin keeps that because it beats what was left for the main pool by the larger
margin, hence by the smaller; a return home is impossible after the main pool
was left, because the settings refuse a return margin above the switch margin.
The markets may be any: the argument uses nothing but the order of
`a * 100 >= b * (100 + percent)`.  `TargetOK` carries the decision over the pool
check that comes before the switch, and `HeldOK` says that while timed switching
has the farm at most one more check switches, the one that was due before.

`PaceOK` follows the three clocks: the last scheduled check, the one in
`profit.json` and the last switch.  A switch is at most the length of a check
before the end of its report, so the first is never far behind the last, unless
the report is still to come; a check that may switch is an interval after it.

The proof corrected the model: a check works with the margins it read when it
began (`profit/switcher.go:221`), and the history `sound` did not know that they
may change before it decides.  It takes three pairs of margins to see, and the
run had two; now it has three.

The assumptions are that revenues and margins are natural numbers, that every
pool has a coin, and that a check takes less than the interval.

### WatcherProofs

Theorems `HardnessStands` (`NeverUnderstated`) and `AlarmsAreNew`
(`NoFalseAlarm`), for any pools, registries, times, faults and number of blocks.

`NeverUnderstated` compares the newest time the watcher has with when the newest
block it was told of was really found.  That holds only because the baseline
`prevhash`, the block of `last` and the jobs on their way are in order: `IInv`
says that the jobs of a connection are what its node knew, in the order it
learnt it and none older than what the same pool has told before (`StreamOK`),
that the baseline is the newest block of the pool read last (`BaselineOK`), and
that the newest arrival of the watcher's own, if there is one, is not earlier
than the block of the baseline (`ArrivalsOK`).  Run has a pool whenever it
does anything (`RunOK`): the first of a non-empty set of indices exists
(`Smallest`, by well-foundedness).  The
assumptions are that `"none"` is no pool's id, that times are natural numbers,
`silence` at least one, and that a registry lists eCash pools by their ids.

### TelegramProofs: Alerts

Theorems `NobodyMisled` (`ChatKnows`) and `FlappingWaits` (`FlapLimited`), for
any ASICs and chats, any length of the queue, any waits and any number of
crashes.

`ChatKnows` speaks of an empty queue; alerts, however, leave the queue one by one,
are merged with what is pending, are cut by what a chat knows already, by what
is held back and by what the batch waits for, and go out while the next ones
arrive.  `AInv` follows the news through all of it:

- `NewsOK`: for each chat and ASIC that is not in `lost`, the *newest* alert
  about the ASIC in the queue says how it is now, or, if none is there, what is
  pending, or else what the chat was told;
- `MessageOK`: what is being sent is still pending, so that a failure loses
  nothing;
- `ReportedOK`: what the notifier believes a chat knows is what it was told,
  which is why `take` may drop a change that is "back to what the chat already
  knows";
- `SeenOK`: an ASIC is never behind the share of its session, but for a share
  that came since the last check.  Without it a check could find an ASIC silent
  and heard of at once, and the change it reports would be no change.

For each way the code has of losing news (`Notify` to a full queue, a message to
some of the chats or to none, a list of chats that changes, a restart, an ASIC
that is forgotten) the proof has to find the news in `lost`.  One lemma says what
`take` leaves (`TakeIs`), whatever it was called with; `ChangesAre` says what one
check reports.

`FlapLimited` compares the next message with the last two that went out, which
the code does not keep: it keeps the times of its own record, drops those older
than `flapWindow` (`recent`), and forgets whole records.  `SaidOK` says that what
is still within `flapWindow` is at the end of the record, in that order.  A record
is forgotten only when its times are gone, so nothing within the window is lost;
that the times within it are an end of the record needs the first of them
(`Least`, by well-foundedness).  The assumptions are those of the constants of
the code: `Batch <= Gap <= FlapHold < FlapWindow`, `FlapChanges` one or two (the
history keeps two messages; the code has 2), and a wait below `ForgetAfter`.

### TelegramProofs: Controls

Theorems `ControlsTyped`, `EachOnce` (`Once`) and `OnlySanctioned`
(`Sanctioned`), for any users, bots, messages, targets, taps and faults.

A confirmation may be tapped twice, fetched again after a crash, and be under
the handler while the token changes, so `Once` is not inductive.  `CInv` says
that what is pending is the last question, has had no effect and was not left
by its user (`PendingOK`); that the confirmation in the handler has had no
effect and is no longer pending, so that none other can be consumed with it
(`HandlerOK`); that no tap carries a code which was not shown (`InboxOK`); and
that the poller has fetched and confirmed no more than there is (`PollerOK`).
`Sanctioned` is the guard of `handleCallback` read against that invariant: the
code alone does not say that the question of a pending confirmation was shown.
The assumptions are that messages belong to bots and taps to known users and
messages, that something can be offered, that a confirmation lives at least a
tick, and that the farm starts on a pool and in a mode there is.

### Model-checked only

- Liveness and everything under fairness, which the prover cannot do:
  `DrainEnds`, `ShutdownEnds`, `RequestServed`, `Recovers`, `TurnedOff`,
  `OutageTold`, `ComesHome`, `Follows`, `Dealt`.  Every safety property of a
  passing run is proved.

### Proved only

`NamesDistinct`, `BackgroundWaits`, `NeverOver` and the type invariants of Drain,
TimedSwitch and Controls are in no run: their theorems cover every instance.

## 5. Plan

Done: PoolConfig with Roles, Drain, HealthTracker, TimedSwitch, Limits, Session,
Monitor, Alerts, ProfitSwitch, Watcher, Controls; the proofs of section 4.
Left, in the order of what a miner would notice:

1. **Routing**: Pick over active pool and fallbacks with several addresses, the
   choice of the address (`chooseLocked`, its margin and hold time), and
   `checkFailover` and `checkFailback` with their delays, composed of the
   verdicts of HealthTracker and the drain of Drain at their interfaces.
2. **History**: the roll-up over crashes against an abstract sum.
3. **Guard**: windows and locks of failed logins.

## 6. Where the documents and the code differ

One run shows it; the counterexample is a few steps long.

- `drain_switch`: "Every switch reconnects all miners within `switch_drain`"
  (`src/README.md`).  A later drain cancels the one in progress before it looks
  whether it has targets of its own, so editing an unused pool in the middle of
  a switch leaves miners on the previous pool until the failback of the
  background loop.

Two more of the kind, which the properties except:

- "the farm returns to the pool that was active before" (`src/README.md`): the
  pool to return to is read before the pool check (`timed/timed.go:371`); a
  switch by hand during the check is forgotten.
- "Profit switching waits with its scheduled check until the farm is back"
  (`src/README.md`): it looks once (`profit/switcher.go:207`), then fetches
  market data and checks the pool, and switches even though the farm has left
  meanwhile.

Smaller differences and limits met on the way:

- `dialResult` may be recorded for an address an edit has just removed
  (`pool/manager.go:156`), and `refreshPoolLocked` derives the status of the
  pool from the address list its caller was started with
  (`pool/health.go:226`): both last until the next edit or result.
- A check that was prepared before a change of the test worker takes the
  request that this change made off the queue (`pool/probe.go:110`): the pool
  is checked again only at the next interval.
- A session that is dialing while its pool is edited is in no registry yet and
  keeps the old configuration (`pool/manager.go:668`).
- The order right after a timed switch gets into the file only with the second
  save (`timed/timed.go:396`): after a crash before it the farm returns, the
  fallback order of before does not.  `RolesRestored` excepts that case.
- A write of `timed.json` that fails is only logged (`timed/timed.go:458`).  If it
  was the one after a return, the file keeps a switch that is undone already, and
  after a restart the switcher may undo it again.
- That hunting waits for the next block after a choice by hand is not saved
  (`timed/timed.go:411`) and does not survive a restart.  `HandStands` excepts
  that case.
- The relay remembers 128 authorizations and 10000 submits without an answer
  (`session/session.go:533`, `session/session.go:576`;
  `TestSessionTrackingMapsAreBounded`).  What comes beyond is passed on, but its
  answer is not counted and a rejected login not noticed.  `AnswersCount`
  excepts such a request only while that many really wait.
- `acquire` reads the limits before it takes the lock (`listener/listener.go:42`):
  a limit lowered in between is overrun by the connections that have read it.
- `reportFailure` looks whether the session was closed and then calls
  (`session/session.go:388`): a drain in between turns into a report of a
  failure that was one when it was seen.
- An ASIC that is forgotten after seven days offline (`monitor/monitor.go:230`)
  comes back as a new one, whose next outage the notifier takes for one already
  reported if nothing was said about it in between (`telegram/notifier.go:58`).
- Going offline alone does not make the monitor save (`monitor/monitor.go:241`),
  so an outage may be reported again after a crash; the other way round, a
  shutdown saves it while the alert is still queued, and nobody hears of it.
- An ASIC that is offline and online again before the first batch is sent is
  reported as online only.
- On an unchanged market two switches in a row are possible, to a better coin
  and from there home: the two margins compare with different pools.
  `NoBounce` says that the farm does not go back to what it left for profit.
  It may, if the margins are changed while a check runs: the check decides by
  the old ones (`profit/switcher.go:221`), the next one by the new.
- After a crash between a switch for profit and the save of `profit.json` the
  next check may come early; `Paced` excepts it.
- `profit_interval` is a constant of ProfitSwitch, although a change of the
  setting is in force at once (`profit/switcher.go:171`): `Paced` says nothing of
  the two intervals around such a change.
- `StintsFit` bounds the time on the target from above; how short a stint may
  get is not a property.
- Blocks that arrive while the watcher reconnects count as one arrival, and a
  move to a pool whose node is behind raises `OnBlock` for a block that is not
  new (`rtt/watch.go:264`).  A connection that is dead but open keeps the
  watcher live for as long as `silence`.
- A confirmed switch goes to the pool with the id that was shown, even if it was
  edited meanwhile; a change of the token between the consumption of a
  confirmation and the next look at the context lets it take effect.
- A query of the history reads the files before it takes the lock
  (`history/query.go:24`): a point written in between is missing once.

## 7. Not modelled

- `stats/`, `events/`: counters and a ring buffer, each under one lock.
- `stratum/`, parsing of market data: pure functions on text.
- `admin/`, the web interface: translate requests into the operations modelled
  here.  The guard's windows and locks are sequential code under one lock.
- `history/`: one goroutine writes; what a crash may lose is an open part of the
  plan.
- `config/`, `tlsutil/`: read at start-up; a reload of certificates replaces a
  pointer.
- Routing beyond what section 2 says of a dial: latency, the choice among
  several addresses, the delays of failover and failback.
- Statistics of hunts and texts for the status page in `timed/`; commands and
  menus of the bot that change nothing.
- The order in which `cmd/proxy/main.go` starts and stops the components.
