------------------------------- MODULE ProfitSwitch ----------------------------
(***************************************************************************)
(* Profit switching (internal/profit/switcher.go): the scheduled check and *)
(* the check from the UI, what they decide, the way back to the main pool, *)
(* and profit.json, which keeps the schedule over a restart.  The revenue  *)
(* of a coin is what the market says 1 TH/s earns in a day, in any unit;   *)
(* 0 stands for data that is stale or missing.  Pools, their health and    *)
(* timed switching are the environment; the switch itself is pool.Manager's*)
(* ActivateFor, which checks the target for some time before it switches.  *)
(***************************************************************************)
EXTENDS Integers, FiniteSets

CONSTANTS
    Pools, NoPool,
    Coins, CoinOf,     \* the coin of each pool
    Worlds,            \* what the market may be
    Healths,           \* what the health of the pools may be
    Participants,      \* the sets of pools that may take part
    Mains,             \* the main pools the operator may choose
    Margins,           \* values of profit_margin and profit_return_margin
    Interval, StartDelay, \* profit_interval, startDelay, in ticks
    MaxCheck,          \* bound on the ticks one check takes
    MaxEdits, MaxCrashes

ASSUME CoinsAssumption == CoinOf \in [Pools -> Coins] /\ Worlds \subseteq [Coins -> Nat]
ASSUME NoPoolAssumption == NoPool \notin Pools
ASSUME FarmAssumption == Participants \subseteq SUBSET Pools /\ Mains \subseteq Pools \cup {NoPool}
ASSUME MarginsAssumption == Margins \subseteq [margin : Nat, ret : Nat]
ASSUME IntervalAssumption ==
    /\ StartDelay \in Nat /\ MaxCheck \in Nat /\ Interval \in Nat
    /\ StartDelay <= Interval /\ MaxCheck < Interval

VARIABLES
    mode, margins, \* the settings in force
    world,         \* the market now
    health,        \* of each pool
    parts, main,   \* pools with profit_switch; the one with profit_home
    active,        \* the active pool
    held,          \* Deps.Home: the pool timed switching returns to
    market,        \* Switcher.market while it is not older than cacheFor
    due,           \* Run found the check due and waits for checkMu
    check,         \* the check that holds checkMu
    lastRun,       \* age of Switcher.lastRun
    saved,         \* age of last_run in profit.json
    uptime,        \* since Run began
    edits, crashes,
    left,          \* history: pools left for profit since anything changed
    moved,         \* history: age of the last switch for profit
    kept           \* history: profit.json knows the check that switched

settings == <<mode, margins>>
farm == <<parts, main, held>>
schedule == <<lastRun, saved, uptime>>
history == <<left, moved, kept>>
vars == <<settings, world, health, farm, active, market, due, check, schedule,
          edits, crashes, history>>

Never == Interval
NoMarket == [c \in Coins |-> 0]
NoMargins == [margin |-> 0, ret |-> 0]
NoCheck == [at |-> "idle", scheduled |-> FALSE, mode |-> "off", v |-> NoMargins,
            target |-> NoPool, age |-> 0, sound |-> FALSE]
Up(n, max) == IF n < max THEN n + 1 ELSE n

Modes == {"off", "advise", "auto"}

(* crossCheck of the settings.  Mutant: without it. *)
ValidAny(m) == m.margin \in Nat
Valid(m) == m.ret <= m.margin

-----------------------------------------------------------------------------
(* decide. *)

(* The first earns at least that many percent more than the second. *)
Beats(a, b, percent) == a * 100 >= b * (100 + percent)

Usable(coin, m) == m[coin] > 0

(* The pools of a coin that take part and are not DOWN; one that is UP first. *)
Choices(coin) == {p \in parts : CoinOf[p] = coin /\ health[p] # "DOWN"}
Picks(coin) ==
    LET up == {p \in Choices(coin) : health[p] = "UP"}
    IN IF up # {} THEN up ELSE Choices(coin)

(* The coins that earn the most: the current one unless another earns more. *)
Best(cur, m) ==
    LET better == {c \in Coins : Choices(c) # {} /\ m[c] > m[cur]}
    IN IF better = {} THEN {cur}
       ELSE {c \in better : \A d \in better : m[d] <= m[c]}

Home == main \in parts
(* homePool: the farm is away from the main pool.  Mutant: a main pool is only
   known as one while it is UP. *)
AwayFromUp(pool, m) ==
    Home /\ health[main] = "UP" /\ Usable(CoinOf[main], m) /\ pool # main
Away(pool, m) == Home /\ Usable(CoinOf[main], m) /\ pool # main

Stay(reason) == [decision |-> reason, target |-> NoPool]

(* The decisions for the pool that is compared, with the margins v. *)
Decisions(pool, m, v) ==
    IF pool = NoPool THEN {Stay("no_candidates")}
    ELSE IF pool \notin parts THEN {Stay("manual")}
    ELSE IF ~Usable(CoinOf[pool], m) THEN {Stay("no_data")}
    ELSE UNION {
        LET cur == CoinOf[pool]
            away == Away(pool, m)
            over == Beats(m[cur], m[CoinOf[main]], v.ret)
        IN IF best = cur /\ ~away THEN {Stay("best")}
           ELSE IF best # cur /\ Beats(m[best], m[cur], v.margin)
                       /\ ~(away /\ best = CoinOf[main])
           THEN {[decision |-> "recommend", target |-> p] : p \in Picks(best)}
           ELSE IF ~away THEN {Stay("below_margin")}
           ELSE IF over \/ health[main] = "DOWN" THEN {Stay("away_stay")}
           ELSE {[decision |-> "return_home", target |-> main]}
        : best \in Best(CoinOf[pool], m)}

-----------------------------------------------------------------------------
(* Run and Check. *)

(* An interval after the last scheduled check, but not in the first minutes. *)
Due == uptime >= StartDelay /\ lastRun >= Interval

(* The check is due; it waits for one from the UI to end. *)
Schedule ==
    /\ ~due /\ ~check.scheduled
    /\ mode # "off" /\ held = NoPool
    /\ Due
    /\ due' = TRUE
    /\ UNCHANGED <<settings, world, health, farm, active, market, check, schedule,
                   edits, crashes, history>>

Begin(scheduled) ==
    /\ check.at = "idle"
    /\ scheduled => due
    /\ due' = (due /\ ~scheduled)
    /\ check' = [at |-> "fetch", scheduled |-> scheduled, mode |-> mode, v |-> margins,
                 target |-> NoPool, age |-> 0, sound |-> FALSE]
    /\ UNCHANGED <<settings, world, health, farm, active, market, schedule,
                   edits, crashes, history>>

(* Only a scheduled check in auto mode switches. *)
MayMove(target) == target # NoPool /\ check.mode = "auto" /\ check.scheduled

(* The market data, from the cache or the source, and the decision.  Without
   data the cache stays empty.  History: the decision is sound if the market and
   the margins are still those it was made from. *)
Decide ==
    /\ check.at = "fetch"
    /\ \E m \in IF market # NoMarket THEN {market} ELSE {world, NoMarket} :
          /\ market' = m
          /\ \E d \in IF m = NoMarket THEN {Stay("no_data")}
                      ELSE Decisions(IF held # NoPool THEN held ELSE active, m, check.v) :
                LET go == MayMove(d.target)
                IN check' = [check EXCEPT !.at = IF go THEN "activate" ELSE "finish",
                                          !.target = IF go THEN d.target ELSE NoPool,
                                          !.sound = m = world /\ check.v = margins]
    /\ UNCHANGED <<settings, world, health, farm, active, due, schedule,
                   edits, crashes, history>>

(* ActivateFor: the target has passed the pool check, or not. *)
Switched ==
    /\ check.at = "activate"
    /\ active' = check.target
    /\ health' = [health EXCEPT ![check.target] = "UP"]
    /\ check' = [check EXCEPT !.at = "finish"]
    /\ left' = IF check.sound THEN left \cup {active} ELSE {}
    /\ moved' = 0
    /\ kept' = FALSE
    /\ UNCHANGED <<settings, world, farm, market, due, schedule, edits, crashes>>

SwitchFailed ==
    /\ check.at = "activate"
    /\ check' = [check EXCEPT !.at = "finish", !.target = NoPool]
    /\ UNCHANGED <<settings, world, health, farm, active, market, due, schedule,
                   edits, crashes, history>>

(* The report; a scheduled check moves the schedule.  A write that fails is
   only logged. *)
Finish ==
    /\ check.at = "finish"
    /\ lastRun' = IF check.scheduled THEN check.age ELSE lastRun
    /\ \/ saved' = lastRun' /\ kept' = TRUE
       \/ saved' = saved /\ kept' = (kept /\ ~check.scheduled)
    /\ check' = NoCheck
    /\ UNCHANGED <<settings, world, health, farm, active, market, due, uptime,
                   edits, crashes, left, moved>>

-----------------------------------------------------------------------------
(* What happens around it. *)

(* Anything that changes what a check would decide. *)
Changed ==
    /\ left' = {}
    /\ check' = [check EXCEPT !.sound = FALSE]
    /\ UNCHANGED <<market, due, schedule, crashes, moved, kept>>
Edit ==
    /\ edits < MaxEdits
    /\ edits' = edits + 1
    /\ Changed

MarketMoves ==
    /\ world' \in Worlds \ {world}
    /\ Edit
    /\ UNCHANGED <<settings, health, farm, active>>

HealthChanges ==
    /\ health' \in Healths \ {health}
    /\ Edit
    /\ UNCHANGED <<settings, world, farm, active>>

SwitchByHand ==
    /\ active' \in Pools \ {active}
    /\ Edit
    /\ UNCHANGED <<settings, world, health, farm>>

SaveSettings ==
    /\ mode' \in Modes
    /\ margins' \in {m \in Margins : Valid(m)}
    /\ Edit
    /\ UNCHANGED <<world, health, farm, active>>

(* A pool that no longer takes part is not the main pool either. *)
EditPools ==
    /\ parts' \in Participants
    /\ main' \in {p \in Mains : p # NoPool => p \in parts'}
    /\ Edit
    /\ UNCHANGED <<settings, world, health, active, held>>

(* Timed switching or a hunt takes the farm away and brings it back. *)
Leave ==
    /\ held = NoPool
    /\ held' = active
    /\ active' \in Pools \ {active}
    /\ Edit
    /\ UNCHANGED <<settings, world, health, parts, main>>

Return ==
    /\ held # NoPool
    /\ active' = held
    /\ held' = NoPool
    /\ Changed
    /\ UNCHANGED <<settings, world, health, parts, main, edits>>

(* New: the schedule that was saved.  Mutant: it is not read. *)
LoadNothing == lastRun' = Never
Load == lastRun' = saved

(* Any time, also between the switch and the report. *)
Crash ==
    /\ crashes < MaxCrashes
    /\ crashes' = crashes + 1
    /\ Load
    /\ uptime' = 0
    /\ market' = NoMarket
    /\ due' = FALSE
    /\ check' = NoCheck
    /\ moved' = IF kept THEN moved ELSE Never
    /\ UNCHANGED <<settings, world, health, farm, active, saved, edits, left, kept>>

(* cacheFor is shorter than a tick. *)
Tick ==
    /\ check.at = "idle" \/ check.age < MaxCheck
    /\ check' = IF check.at = "idle" THEN check ELSE [check EXCEPT !.age = @ + 1]
    /\ lastRun' = Up(lastRun, Never)
    /\ saved' = Up(saved, Never)
    /\ moved' = Up(moved, Never)
    /\ uptime' = Up(uptime, StartDelay)
    /\ market' = NoMarket
    /\ UNCHANGED <<settings, world, health, farm, active, due, edits, crashes, left, kept>>

Init ==
    /\ mode \in Modes
    /\ margins \in {m \in Margins : Valid(m)}
    /\ world \in Worlds
    /\ health \in Healths
    /\ parts \in Participants
    /\ main \in {p \in Mains : p # NoPool => p \in parts}
    /\ active \in Pools
    /\ held = NoPool
    /\ market = NoMarket
    /\ due = FALSE
    /\ check = NoCheck
    /\ lastRun = Never /\ saved = Never /\ uptime = 0
    /\ edits = 0 /\ crashes = 0
    /\ left = {} /\ moved = Never /\ kept = TRUE

Next ==
    \/ Schedule \/ Begin(TRUE) \/ Begin(FALSE) \/ Decide \/ Switched \/ SwitchFailed \/ Finish
    \/ MarketMoves \/ HealthChanges \/ SwitchByHand \/ SaveSettings \/ EditPools
    \/ Leave \/ Return \/ Crash \/ Tick

Spec == Init /\ [][Next]_vars

(* Run goes on, a check that has begun ends, and neither the market source nor
   the check of a pool that works fails for ever. *)
FairSpec ==
    /\ Spec
    /\ WF_vars(Tick) /\ WF_vars(Schedule) /\ SF_vars(Begin(TRUE))
    /\ WF_vars(Decide) /\ SF_vars(Decide /\ check.scheduled /\ market' # NoMarket)
    /\ WF_vars(Switched \/ SwitchFailed) /\ SF_vars(Switched)
    /\ WF_vars(Finish)

-----------------------------------------------------------------------------

TypeOK ==
    /\ mode \in Modes /\ margins \in Margins
    /\ world \in Worlds /\ market \in Worlds \cup {NoMarket}
    /\ health \in [Pools -> {"UP", "DOWN", "UNKNOWN"}]
    /\ parts \in Participants /\ main \in Mains
    /\ active \in Pools /\ held \in Pools \cup {NoPool}
    /\ check.at \in {"idle", "fetch", "activate", "finish"}
    /\ check.at = "activate" => check.scheduled /\ check.mode = "auto" /\ check.target \in Pools
    /\ lastRun \in 0 .. Never /\ saved \in 0 .. Never /\ moved \in 0 .. Never

(* The margins keep the farm from bouncing (crossCheck and decide): while the
   market, the pools and the settings stay, no check brings it back to a pool
   that an earlier one left for profit. *)
NoBounce ==
    [][Switched /\ check.sound => check.target \notin left]_vars

(* Two switches for profit are an interval apart, but for the time a check
   takes, whatever restarts come between them, unless profit.json missed the
   first one (Check saves after the switch, and a failed write is logged). *)
Paced ==
    [][Switched => moved >= Interval - MaxCheck]_vars

(* Nothing takes the farm away from profit switching, and no other coin earns
   the return margin more than the main pool's. *)
Calm ==
    /\ mode = "auto" /\ held = NoPool
    /\ Home /\ active \in parts
    /\ health[main] # "DOWN"
    /\ Usable(CoinOf[main], world) /\ Usable(CoinOf[active], world)
    /\ \A c \in Coins \ {CoinOf[main]} : ~Beats(world[c], world[CoinOf[main]], margins.ret)

(* decide brings the farm home for good once the lead of the other coins is
   gone, over failed checks, failed fetches and restarts. *)
ComesHome == <>[]Calm => <>[](active = main)
================================================================================
