----------------------------- MODULE ProfitProofs -----------------------------
(***************************************************************************)
(* Proofs about profit switching, for any pools, coins, markets, margins,  *)
(* interval and bounds.                                                    *)
(***************************************************************************)
EXTENDS ProfitSwitch, TLAPS

Revenue(p) == world[CoinOf[p]]

CheckRecs == [at : {"idle", "fetch", "activate", "finish"}, scheduled : BOOLEAN, mode : Modes,
              v : [margin : Nat, ret : Nat], target : Pools \cup {NoPool}, age : 0 .. MaxCheck,
              sound : BOOLEAN]

(* The margins in force have passed the check of the settings. *)
FarmOK ==
    /\ world \in [Coins -> Nat] /\ market \in [Coins -> Nat]
    /\ margins \in [margin : Nat, ret : Nat] /\ margins.ret <= margins.margin
    /\ parts \subseteq Pools /\ main \in Pools \cup {NoPool}
    /\ active \in Pools /\ held \in Pools \cup {NoPool}
    /\ left \subseteq Pools /\ due \in BOOLEAN /\ mode \in Modes

CheckOK ==
    /\ check \in CheckRecs
    /\ check.at = "idle" => check.scheduled = FALSE
    /\ check.scheduled = TRUE => due = FALSE
    /\ check.at = "activate" => check.scheduled = TRUE /\ check.target # NoPool

(* A check that may still switch. *)
Coming == due = TRUE \/ (check.scheduled = TRUE /\ check.at \in {"fetch", "activate"})

(* While timed switching has the farm no check becomes due: the one that was due
   before is the last, and the only one to switch. *)
HeldOK == held # NoPool => left = {} \/ ~Coming

(* Every pool that was left earned less than the active one, but for those that
   were left for the main pool because their lead over it was too small.  When
   the main pool was left, the lead over it was the larger margin. *)
ChainOK ==
    held = NoPool =>
       /\ \A p \in left :
             /\ p # active
             /\ \/ Revenue(p) < Revenue(active)
                \/ active = main /\ ~Beats(Revenue(p), Revenue(main), margins.ret)
       /\ main \in left => Beats(Revenue(active), Revenue(main), margins.margin)

(* What a check may decide, for the pool p and what the market m says. *)
Upward(p, q, m, v) ==
    q \in Pools /\ m[CoinOf[q]] > m[CoinOf[p]] /\ Beats(m[CoinOf[q]], m[CoinOf[p]], v.margin)
Homeward(p, q, m, v) ==
    q = main /\ main \in Pools /\ p # main /\ ~Beats(m[CoinOf[p]], m[CoinOf[main]], v.ret)

TargetOK ==
    check.at = "activate" /\ check.sound = TRUE /\ held = NoPool =>
        Upward(active, check.target, world, margins) \/ Homeward(active, check.target, world, margins)

(* The last scheduled check began not much earlier than the last switch. *)
Reported == check.at = "finish" /\ check.scheduled = TRUE
PaceOK ==
    /\ lastRun \in 0 .. Interval /\ saved \in 0 .. Interval /\ moved \in 0 .. Interval
    /\ ~Reported => moved >= lastRun - MaxCheck
    /\ kept = TRUE => moved >= saved - MaxCheck
    /\ Coming => moved >= Interval - MaxCheck

IInv == FarmOK /\ CheckOK /\ HeldOK /\ ChainOK /\ TargetOK /\ PaceOK

-----------------------------------------------------------------------------
(* What decide decides. *)

LEMMA DecisionIs ==
    ASSUME FarmOK, NEW pool \in Pools \cup {NoPool}, NEW m \in [Coins -> Nat],
           NEW v \in [margin : Nat, ret : Nat], NEW d \in Decisions(pool, m, v), d.target # NoPool
    PROVE  /\ pool \in Pools /\ d.target \in Pools
           /\ Upward(pool, d.target, m, v) \/ Homeward(pool, d.target, m, v)
<1> DEFINE cur == CoinOf[pool]
           away == Away(pool, m)
           over == Beats(m[cur], m[CoinOf[main]], v.ret)
           For(best) ==
              IF best = cur /\ ~away THEN {Stay("best")}
              ELSE IF best # cur /\ Beats(m[best], m[cur], v.margin) /\ ~(away /\ best = CoinOf[main])
              THEN {[decision |-> "recommend", target |-> p] : p \in Picks(best)}
              ELSE IF ~away THEN {Stay("below_margin")}
              ELSE IF over \/ health[main] = "DOWN" THEN {Stay("away_stay")}
              ELSE {[decision |-> "return_home", target |-> main]}
<1>1. \A reason : Stay(reason).target = NoPool
  BY DEF Stay
<1>2. pool # NoPool /\ pool \in parts /\ d \in UNION {For(best) : best \in Best(cur, m)}
  BY <1>1 DEF Decisions
<1>3. PICK best \in Best(cur, m) : d \in For(best)
  BY <1>2
<1>4. CASE best # cur /\ Beats(m[best], m[cur], v.margin) /\ ~(away /\ best = CoinOf[main])
  <2>1. PICK p \in Picks(best) : d = [decision |-> "recommend", target |-> p]
    BY <1>3, <1>4
  <2>2. p \in Pools /\ CoinOf[p] = best
    BY DEF Picks, Choices, FarmOK
  <2>3. m[best] > m[cur]
    BY <1>4 DEF Best
  <2> QED BY <1>2, <1>4, <2>1, <2>2, <2>3 DEF Upward, FarmOK
<1>5. CASE ~(best # cur /\ Beats(m[best], m[cur], v.margin) /\ ~(away /\ best = CoinOf[main]))
  <2>1. away /\ ~over /\ d = [decision |-> "return_home", target |-> main]
    BY <1>1, <1>3, <1>5
  <2> QED BY <1>2, <2>1 DEF Away, Home, Homeward, FarmOK
<1> QED BY <1>4, <1>5

(* The market data that Decide works with, and the next check. *)
LEMMA DecideIs ==
    ASSUME IInv, Decide
    PROVE  /\ check.at = "fetch" /\ check' \in CheckRecs /\ market' \in [Coins -> Nat]
           /\ check'.scheduled = check.scheduled /\ check'.at \in {"activate", "finish"}
           /\ check'.at = "activate" => check.scheduled = TRUE /\ check'.target # NoPool
           /\ check'.at = "activate" /\ check'.sound = TRUE /\ held = NoPool =>
                 Upward(active, check'.target, world, margins) \/ Homeward(active, check'.target, world, margins)
<1>0. FarmOK /\ CheckOK /\ check \in CheckRecs /\ check.at = "fetch"
  BY DEF IInv, CheckOK, Decide
<1>1. PICK m \in IF market # NoMarket THEN {market} ELSE {world, NoMarket} :
         /\ market' = m
         /\ \E d \in IF m = NoMarket THEN {Stay("no_data")}
                     ELSE Decisions(IF held # NoPool THEN held ELSE active, m, check.v) :
               LET go == MayMove(d.target)
               IN check' = [check EXCEPT !.at = IF go THEN "activate" ELSE "finish",
                                         !.target = IF go THEN d.target ELSE NoPool,
                                         !.sound = m = world /\ check.v = margins]
  BY DEF Decide
<1>2. m \in [Coins -> Nat]
  BY <1>0 DEF FarmOK, NoMarket
<1>3. PICK d \in IF m = NoMarket THEN {Stay("no_data")}
                 ELSE Decisions(IF held # NoPool THEN held ELSE active, m, check.v) :
           check' = [check EXCEPT !.at = IF MayMove(d.target) THEN "activate" ELSE "finish",
                                  !.target = IF MayMove(d.target) THEN d.target ELSE NoPool,
                                  !.sound = m = world /\ check.v = margins]
  BY <1>1
<1> DEFINE pool == IF held # NoPool THEN held ELSE active
           go == MayMove(d.target)
           sound == m = world /\ check.v = margins
<1>4. pool \in Pools \cup {NoPool} /\ check.v \in [margin : Nat, ret : Nat]
  BY <1>0 DEF FarmOK, CheckRecs
<1>5. ASSUME go PROVE /\ d.target \in Pools /\ d.target # NoPool /\ check.scheduled = TRUE
                      /\ Upward(pool, d.target, m, check.v) \/ Homeward(pool, d.target, m, check.v)
  <2>1. d.target # NoPool /\ check.scheduled
    BY <1>5 DEF MayMove
  <2>2. m # NoMarket
    BY <1>3, <2>1 DEF Stay
  <2>3. d \in Decisions(pool, m, check.v)
    BY <1>3, <2>2
  <2> QED BY <1>0, <1>2, <1>4, <2>1, <2>3, DecisionIs
<1>6. go \in BOOLEAN
  BY <1>0 DEF MayMove, CheckRecs
<1> HIDE DEF go, sound, pool
<1>7. check' = [at |-> IF go THEN "activate" ELSE "finish", scheduled |-> check.scheduled, mode |-> check.mode,
                v |-> check.v, target |-> IF go THEN d.target ELSE NoPool, age |-> check.age, sound |-> sound]
  BY <1>0, <1>3 DEF CheckRecs, go, sound
<1>8. check' \in CheckRecs
  <2>1. sound \in BOOLEAN
    BY DEF sound
  <2> QED BY <1>0, <1>5, <1>7, <2>1 DEF CheckRecs
<1>9. ASSUME check'.at = "activate", check'.sound = TRUE, held = NoPool
      PROVE  Upward(active, check'.target, world, margins) \/ Homeward(active, check'.target, world, margins)
  <2>1. go /\ check'.target = d.target /\ m = world /\ check.v = margins /\ pool = active
    BY <1>7, <1>9 DEF sound, pool
  <2> QED BY <1>5, <2>1
<1> QED BY <1>0, <1>1, <1>2, <1>5, <1>7, <1>8, <1>9

-----------------------------------------------------------------------------
(* The margins. *)

LEMMA BeatsBoth ==
    ASSUME NEW x \in Nat, NEW y \in Nat, NEW r \in Nat, NEW m \in Nat, r <= m, Beats(x, y, m)
    PROVE  Beats(x, y, r)
<1>1. y * (100 + m) = y * (100 + r) + y * (m - r)
  OBVIOUS
<1>2. m - r \in Nat /\ y * (m - r) \in Nat
  OBVIOUS
<1>3. y * (100 + r) \in Nat /\ y * (100 + m) \in Nat
  OBVIOUS
<1> DEFINE s == y * (100 + r)
           t == y * (100 + m)
           u == y * (m - r)
<1>4. x * 100 >= t /\ t = s + u /\ u \in Nat /\ s \in Nat /\ t \in Nat
  BY <1>1, <1>2, <1>3 DEF Beats
<1> HIDE DEF s, t, u
<1>5. x * 100 >= s
  BY <1>4
<1> QED BY <1>5 DEF s, Beats

LEMMA BeatsMore ==
    ASSUME NEW x \in Nat, NEW y \in Nat, NEW z \in Nat, NEW r \in Nat, Beats(x, y, r)
    PROVE  /\ x <= z => Beats(z, y, r)
           /\ ~Beats(z, y, r) => z < x
<1> DEFINE t == y * (100 + r)
<1>1. x * 100 >= t /\ t \in Nat
  BY DEF Beats
<1>2. Beats(z, y, r) <=> z * 100 >= t
  BY DEF Beats
<1> HIDE DEF t
<1> QED BY <1>1, <1>2

-----------------------------------------------------------------------------
(* One step of each kind. *)

Edits ==
    MarketMoves \/ HealthChanges \/ SwitchByHand \/ SaveSettings \/ EditPools \/ Leave \/ Return

LEMMA EditIs ==
    ASSUME CheckOK, Edits
    PROVE  /\ left' = {} /\ check' \in CheckRecs /\ check'.at = check.at /\ check'.scheduled = check.scheduled
           /\ check'.target = check.target /\ check'.age = check.age /\ check'.sound = FALSE
           /\ UNCHANGED <<market, due, schedule, moved, kept>>
<1>1. /\ left' = {} /\ check' = [check EXCEPT !.sound = FALSE]
      /\ UNCHANGED <<market, due, schedule, moved, kept>>
  BY DEF Edits, MarketMoves, HealthChanges, SwitchByHand, SaveSettings, EditPools, Leave, Return, Edit, Changed
<1> QED BY <1>1 DEF CheckOK, CheckRecs

LEMMA FarmKept == ASSUME IInv, [Next]_vars PROVE FarmOK'
<1> USE DEF settings, farm, schedule, history
<1>0. FarmOK /\ CheckOK
  BY DEF IInv
<1>1. CASE Schedule \/ SwitchFailed \/ Finish \/ (\E s \in BOOLEAN : Begin(s))
  BY <1>0, <1>1 DEF FarmOK, CheckOK, CheckRecs, Schedule, SwitchFailed, Finish, Begin
<1>2. CASE Decide
  BY <1>0, <1>2, DecideIs DEF FarmOK, Decide
<1>3. CASE Switched
  <2>1. check.target \in Pools
    BY <1>0, <1>3 DEF CheckOK, CheckRecs, Switched
  <2> QED BY <1>0, <1>3, <2>1 DEF FarmOK, Switched
<1>4. CASE Edits
  <2>1. left' = {} /\ market' = market /\ due' = due
    BY <1>0, <1>4, EditIs
  <2>2. CASE MarketMoves
    BY <1>0, <2>1, <2>2, CoinsAssumption DEF FarmOK, MarketMoves
  <2>3. CASE HealthChanges \/ SwitchByHand
    BY <1>0, <2>1, <2>3 DEF FarmOK, HealthChanges, SwitchByHand
  <2>4. CASE SaveSettings
    BY <1>0, <2>1, <2>4, MarginsAssumption DEF FarmOK, SaveSettings, Valid
  <2>5. CASE EditPools
    BY <1>0, <2>1, <2>5, FarmAssumption DEF FarmOK, EditPools
  <2>6. CASE Leave \/ Return
    BY <1>0, <2>1, <2>6 DEF FarmOK, Leave, Return
  <2> QED BY <1>4, <2>2, <2>3, <2>4, <2>5, <2>6 DEF Edits
<1>5. CASE Crash \/ Tick
  <2>1. NoMarket \in [Coins -> Nat]
    BY DEF NoMarket
  <2>2. /\ market' = NoMarket /\ due' \in BOOLEAN /\ UNCHANGED <<world, margins, mode>>
        /\ UNCHANGED <<parts, main, active, held, left>>
    BY <1>0, <1>5 DEF FarmOK, Crash, Tick
  <2> QED BY <1>0, <2>1, <2>2 DEF FarmOK
<1>6. CASE UNCHANGED vars
  BY <1>0, <1>6 DEF FarmOK, vars
<1> QED BY <1>1, <1>2, <1>3, <1>4, <1>5, <1>6 DEF Next, Edits

LEMMA CheckKept == ASSUME IInv, [Next]_vars PROVE CheckOK'
<1> USE DEF settings, farm, schedule, history
<1>0. CheckOK /\ FarmOK /\ check \in CheckRecs /\ MaxCheck \in Nat
  BY IntervalAssumption DEF IInv, CheckOK
<1>1. CASE Schedule
  BY <1>0, <1>1 DEF CheckOK, Schedule
<1>2. ASSUME NEW s \in BOOLEAN, Begin(s) PROVE CheckOK'
  <2>1. check' = [at |-> "fetch", scheduled |-> s, mode |-> mode, v |-> margins,
                  target |-> NoPool, age |-> 0, sound |-> FALSE]
    BY <1>2 DEF Begin
  <2>2. check' \in CheckRecs
    BY <1>0, <2>1 DEF CheckRecs, FarmOK
  <2>3. s = TRUE => due' = FALSE
    BY <1>0, <1>2 DEF Begin, FarmOK
  <2> QED BY <1>0, <2>1, <2>2, <2>3 DEF CheckOK
<1>3. CASE Decide
  <2>1. due' = due
    BY <1>3 DEF Decide
  <2> QED BY <1>0, <1>3, <2>1, DecideIs DEF CheckOK
<1>4. CASE Switched \/ SwitchFailed
  <2>1. due' = due /\ \/ check' = [check EXCEPT !.at = "finish"]
                      \/ check' = [check EXCEPT !.at = "finish", !.target = NoPool]
    BY <1>4 DEF Switched, SwitchFailed
  <2>2. check' \in CheckRecs
    BY <1>0, <2>1 DEF CheckRecs
  <2>3. check'.at = "finish" /\ check'.scheduled = check.scheduled
    BY <1>0, <2>1 DEF CheckRecs
  <2> QED BY <1>0, <2>1, <2>2, <2>3 DEF CheckOK
<1>5. CASE Finish \/ Crash
  <2>1. NoCheck \in CheckRecs /\ check' = NoCheck /\ NoCheck.at = "idle" /\ NoCheck.scheduled = FALSE
    BY <1>0, <1>5 DEF NoCheck, NoMargins, CheckRecs, Modes, Finish, Crash
  <2> QED BY <2>1 DEF CheckOK
<1>6. CASE Edits
  BY <1>0, <1>6, EditIs DEF CheckOK
<1>7. CASE Tick
  <2>1. /\ check' \in CheckRecs /\ check'.at = check.at /\ check'.scheduled = check.scheduled
        /\ check'.target = check.target /\ due' = due
    BY <1>0, <1>7 DEF Tick, CheckRecs
  <2> QED BY <1>0, <2>1 DEF CheckOK
<1>8. CASE UNCHANGED vars
  BY <1>0, <1>8 DEF CheckOK, vars
<1> QED BY <1>1, <1>2, <1>3, <1>4, <1>5, <1>6, <1>7, <1>8 DEF Next, Edits

LEMMA HeldKept == ASSUME IInv, [Next]_vars PROVE HeldOK'
<1> USE DEF settings, farm, schedule, history
<1>0. HeldOK /\ CheckOK
  BY DEF IInv
<1>1. CASE Schedule
  BY <1>1 DEF HeldOK, Schedule
<1>2. ASSUME NEW s \in BOOLEAN, Begin(s) PROVE HeldOK'
  <2>1. /\ check'.scheduled = s /\ due' = (due /\ ~s) /\ (s => due)
        /\ left' = left /\ held' = held
    BY <1>2 DEF Begin
  <2> QED BY <1>0, <2>1 DEF HeldOK, Coming
<1>3. CASE Decide
  <2>1. left' = left /\ held' = held /\ due' = due
    BY <1>3 DEF Decide
  <2> QED BY <1>0, <1>3, <2>1, DecideIs DEF HeldOK, Coming
<1>4. CASE Switched \/ SwitchFailed
  <2>1. check'.at = "finish" /\ due' = due /\ check.at = "activate" /\ held' = held
    BY <1>0, <1>4 DEF CheckOK, CheckRecs, Switched, SwitchFailed
  <2>2. due = FALSE
    BY <1>0, <2>1 DEF CheckOK
  <2> QED BY <2>1, <2>2 DEF HeldOK, Coming
<1>5. CASE Finish \/ Crash
  <2>1. check'.at = "idle" /\ left' = left /\ held' = held /\ (due' = due \/ due' = FALSE)
    BY <1>5 DEF NoCheck, Finish, Crash
  <2> QED BY <1>0, <2>1 DEF HeldOK, Coming
<1>6. CASE Edits
  BY <1>0, <1>6, EditIs DEF HeldOK
<1>7. CASE Tick
  <2>1. /\ check'.at = check.at /\ check'.scheduled = check.scheduled
        /\ due' = due /\ left' = left /\ held' = held
    BY <1>0, <1>7 DEF Tick, CheckOK, CheckRecs
  <2> QED BY <1>0, <2>1 DEF HeldOK, Coming
<1>8. CASE UNCHANGED vars
  BY <1>0, <1>8 DEF HeldOK, Coming, vars
<1> QED BY <1>1, <1>2, <1>3, <1>4, <1>5, <1>6, <1>7, <1>8 DEF Next, Edits

LEMMA TargetKept == ASSUME IInv, [Next]_vars PROVE TargetOK'
<1> USE DEF settings, farm, schedule, history
<1>0. TargetOK /\ CheckOK
  BY DEF IInv
<1>1. CASE Decide
  <2>1. active' = active /\ world' = world /\ margins' = margins /\ held' = held /\ main' = main
    BY <1>1 DEF Decide
  <2> QED BY <1>1, <2>1, DecideIs DEF TargetOK, Upward, Homeward
<1>2. ASSUME NEW s \in BOOLEAN, Begin(s) PROVE TargetOK'
  <2>1. check'.at = "fetch"
    BY <1>2 DEF Begin
  <2> QED BY <2>1 DEF TargetOK
<1>3. CASE Switched \/ SwitchFailed
  <2>1. check'.at = "finish"
    BY <1>0, <1>3 DEF CheckOK, CheckRecs, Switched, SwitchFailed
  <2> QED BY <2>1 DEF TargetOK
<1>6. CASE Finish \/ Crash
  <2>1. check'.at = "idle"
    BY <1>6 DEF Finish, Crash, NoCheck
  <2> QED BY <2>1 DEF TargetOK
<1>4. CASE Edits
  BY <1>0, <1>4, EditIs DEF TargetOK
<1>5. CASE Schedule \/ Tick \/ UNCHANGED vars
  <2>1. /\ check'.at = check.at /\ check'.sound = check.sound /\ check'.target = check.target
        /\ active' = active /\ world' = world /\ margins' = margins /\ held' = held /\ main' = main
    BY <1>0, <1>5 DEF CheckOK, CheckRecs, Schedule, Tick, vars
  <2> QED BY <1>0, <2>1 DEF TargetOK, Upward, Homeward
<1> QED BY <1>1, <1>2, <1>3, <1>4, <1>5, <1>6 DEF Next, Edits

(* A sound switch goes to a pool that was not left, and keeps the order. *)
LEMMA SoundSwitch ==
    ASSUME IInv, Switched, check.sound = TRUE
    PROVE  check.target \notin left /\ (held = NoPool => ChainOK')
<1>0. /\ FarmOK /\ CheckOK /\ HeldOK /\ ChainOK /\ TargetOK
      /\ check.at = "activate" /\ check.scheduled = TRUE /\ check.target \in Pools
  BY DEF IInv, Switched, CheckOK, CheckRecs
<1>1. CASE held # NoPool
  BY <1>0, <1>1 DEF HeldOK, Coming
<1>2. CASE held = NoPool
  <2> DEFINE q == check.target
             W(p) == Revenue(p)
  <2>1. Upward(active, q, world, margins) \/ Homeward(active, q, world, margins)
    BY <1>0, <1>2 DEF TargetOK
  <2>2. /\ active' = q /\ left' = left \cup {active} /\ held' = held /\ main' = main
        /\ world' = world /\ margins' = margins
    BY DEF Switched, settings, farm
  <2>3. /\ \A p \in Pools : W(p) \in Nat
        /\ margins.ret \in Nat /\ margins.margin \in Nat /\ margins.ret <= margins.margin
        /\ left \subseteq Pools /\ active \in Pools /\ q \in Pools
    BY <1>0, CoinsAssumption DEF FarmOK, Revenue
  <2>4. /\ \A p \in left : p # active /\ (W(p) < W(active) \/ (active = main /\ ~Beats(W(p), W(main), margins.ret)))
        /\ main \in left => Beats(W(active), W(main), margins.margin)
    BY <1>0, <1>2 DEF ChainOK
  <2>5. CASE Upward(active, q, world, margins)
    <3>1. W(q) > W(active) /\ Beats(W(q), W(active), margins.margin)
      BY <2>5 DEF Upward, Revenue
    <3>2. ASSUME NEW p \in left PROVE W(p) < W(q)
      <4>1. CASE W(p) < W(active)
        BY <2>3, <3>1, <4>1
      <4>2. CASE active = main /\ ~Beats(W(p), W(main), margins.ret)
        <5>1. Beats(W(q), W(main), margins.ret)
          BY <2>3, <3>1, <4>2, BeatsBoth
        <5> QED BY <2>3, <4>2, <5>1, BeatsMore
      <4> QED BY <2>4, <4>1, <4>2
    <3>3. \A p \in left \cup {active} : W(p) < W(q)
      BY <3>1, <3>2
    <3>4. \A p \in left \cup {active} : p # q
      BY <2>3, <3>3
    <3>5. main \in left \cup {active} => Beats(W(q), W(main), margins.margin)
      <4>1. CASE main = active
        BY <3>1, <4>1
      <4>2. CASE main \in left
        BY <2>3, <2>4, <3>1, <4>2, BeatsMore
      <4> QED BY <4>1, <4>2
    <3>6. ChainOK'
      BY <2>2, <3>3, <3>4, <3>5 DEF ChainOK, Revenue
    <3> QED BY <3>4, <3>6
  <2>6. CASE Homeward(active, q, world, margins)
    <3>1. q = main /\ active # main /\ ~Beats(W(active), W(main), margins.ret)
      BY <2>6 DEF Homeward, Revenue
    <3>2. main \notin left
      <4>1. main \in left => Beats(W(active), W(main), margins.ret)
        BY <2>3, <2>4, <3>1, BeatsBoth
      <4> QED BY <3>1, <4>1
    <3>3. \A p \in left : ~Beats(W(p), W(main), margins.ret)
      <4> SUFFICES ASSUME NEW p \in left, Beats(W(p), W(main), margins.ret) PROVE FALSE
        OBVIOUS
      <4>1. W(active) < W(p)
        BY <2>3, <3>1, BeatsMore
      <4>2. W(p) < W(active)
        BY <2>4, <3>1
      <4> QED BY <2>3, <4>1, <4>2
    <3>4. \A p \in left \cup {active} : p # q /\ ~Beats(W(p), W(main), margins.ret)
      BY <3>1, <3>2, <3>3
    <3>5. ChainOK'
      BY <2>2, <3>1, <3>2, <3>4 DEF ChainOK, Revenue
    <3> QED BY <3>2, <3>1, <3>5
  <2> QED BY <2>1, <2>5, <2>6
<1> QED BY <1>1, <1>2

LEMMA ChainKept == ASSUME IInv, [Next]_vars PROVE ChainOK'
<1> USE DEF settings, farm, schedule, history
<1>0. ChainOK /\ CheckOK
  BY DEF IInv
<1>1. CASE Switched
  <2>1. CASE check.sound = TRUE
    <3>1. held' = held
      BY <1>1 DEF Switched
    <3> QED BY <1>1, <2>1, <3>1, SoundSwitch DEF ChainOK
  <2>2. CASE check.sound # TRUE
    <3>1. left' = {}
      BY <1>0, <1>1, <2>2 DEF Switched, CheckOK, CheckRecs
    <3> QED BY <3>1 DEF ChainOK
  <2> QED BY <2>1, <2>2
<1>2. CASE Edits
  <2>1. left' = {}
    BY <1>0, <1>2, EditIs
  <2> QED BY <2>1 DEF ChainOK
<1>3. CASE \/ Schedule \/ Decide \/ SwitchFailed \/ Finish \/ Crash \/ Tick \/ (\E s \in BOOLEAN : Begin(s))
           \/ UNCHANGED vars
  <2>1. /\ active' = active /\ world' = world /\ margins' = margins /\ held' = held /\ main' = main
        /\ left' = left
    BY <1>3 DEF Schedule, Decide, SwitchFailed, Finish, Crash, Tick, Begin, vars
  <2> QED BY <1>0, <2>1 DEF ChainOK, Revenue
<1> QED BY <1>1, <1>2, <1>3 DEF Next, Edits

LEMMA PaceKept == ASSUME IInv, [Next]_vars PROVE PaceOK'
<1> USE DEF settings, farm, schedule, history
<1>0. /\ PaceOK /\ CheckOK /\ check \in CheckRecs
      /\ Interval \in Nat /\ MaxCheck \in Nat
  BY IntervalAssumption DEF IInv, CheckOK
<1>1. CASE Schedule
  <2>1. /\ lastRun >= Interval /\ check.scheduled # TRUE /\ check' = check
        /\ UNCHANGED <<lastRun, saved, moved, kept>>
    BY <1>1 DEF Schedule, Due
  <2>2. ~Reported /\ (Reported' <=> Reported)
    BY <2>1 DEF Reported
  <2>3. moved >= Interval - MaxCheck
    BY <1>0, <2>1, <2>2 DEF PaceOK
  <2> QED BY <1>0, <2>1, <2>2, <2>3 DEF PaceOK
<1>2. ASSUME NEW s \in BOOLEAN, Begin(s) PROVE PaceOK'
  <2>1. /\ check.at = "idle" /\ check'.at = "fetch" /\ check'.scheduled = s
        /\ due' = (due /\ ~s) /\ (s => due)
        /\ UNCHANGED <<lastRun, saved, moved, kept>>
    BY <1>2 DEF Begin
  <2>2. Coming' => Coming
    BY <2>1 DEF Coming
  <2> QED BY <1>0, <2>1, <2>2 DEF PaceOK, Reported
<1>3. CASE Decide
  <2>1. due' = due /\ UNCHANGED <<lastRun, saved, moved, kept>>
    BY <1>3 DEF Decide
  <2>2. (Coming' => Coming) /\ ~Reported
    BY <1>3, <2>1, DecideIs DEF Coming, Reported
  <2> QED BY <1>0, <2>1, <2>2 DEF PaceOK
<1>4. CASE Switched \/ SwitchFailed
  <2>1. /\ check'.at = "finish" /\ check'.scheduled = TRUE /\ due' = FALSE
        /\ UNCHANGED <<lastRun, saved>>
        /\ (moved' = 0 /\ kept' = FALSE) \/ (moved' = moved /\ kept' = kept)
    BY <1>0, <1>4 DEF CheckOK, CheckRecs, Switched, SwitchFailed
  <2>2. Reported' /\ ~Coming'
    BY <2>1 DEF Reported, Coming
  <2> QED BY <1>0, <2>1, <2>2 DEF PaceOK
<1>5. CASE Finish
  <2>1. /\ check'.at = "idle" /\ due' = due /\ moved' = moved
        /\ lastRun' = IF check.scheduled = TRUE THEN check.age ELSE lastRun
        /\ saved' = lastRun' \/ (saved' = saved /\ (kept' = TRUE => kept = TRUE))
    BY <1>0, <1>5 DEF Finish, NoCheck, CheckRecs
  <2>2. check.age \in 0 .. MaxCheck
    BY <1>0 DEF CheckRecs
  <2>3. /\ lastRun' \in 0 .. Interval /\ moved' >= lastRun' - MaxCheck
    BY <1>0, <2>1, <2>2, IntervalAssumption DEF PaceOK, Reported
  <2>4. Coming' => Coming
    BY <2>1 DEF Coming
  <2> QED BY <1>0, <2>1, <2>3, <2>4 DEF PaceOK
<1>6. CASE Crash
  <2>1. /\ check'.at = "idle" /\ due' = FALSE /\ lastRun' = saved /\ saved' = saved
        /\ moved' = (IF kept = TRUE THEN moved ELSE Interval) /\ kept' = kept
    BY <1>6 DEF Crash, NoCheck, Load, Never
  <2>2. ~Coming'
    BY <2>1 DEF Coming
  <2> QED BY <1>0, <2>1, <2>2 DEF PaceOK
<1>7. CASE Edits
  <2>1. UNCHANGED <<lastRun, saved, moved, kept>> /\ (Coming' <=> Coming) /\ (Reported' <=> Reported)
    BY <1>0, <1>7, EditIs DEF Coming, Reported
  <2> QED BY <1>0, <2>1 DEF PaceOK
<1>8. CASE Tick
  <2>1. /\ check'.at = check.at /\ check'.scheduled = check.scheduled /\ due' = due /\ kept' = kept
        /\ lastRun' = Up(lastRun, Interval) /\ saved' = Up(saved, Interval) /\ moved' = Up(moved, Interval)
    BY <1>0, <1>8 DEF Tick, CheckRecs, Never
  <2>2. (Coming' <=> Coming) /\ (Reported' <=> Reported)
    BY <2>1 DEF Coming, Reported
  <2> QED BY <1>0, <2>1, <2>2 DEF PaceOK, Up
<1>9. CASE UNCHANGED vars
  BY <1>0, <1>9 DEF PaceOK, Coming, Reported, vars
<1> QED BY <1>1, <1>2, <1>3, <1>4, <1>5, <1>6, <1>7, <1>8, <1>9 DEF Next, Edits

-----------------------------------------------------------------------------
(* The invariant, and the theorems. *)

LEMMA InitHolds == Init => IInv
<1> SUFFICES ASSUME Init PROVE IInv
  OBVIOUS
<1>1. FarmOK
  <2>1. NoMarket \in [Coins -> Nat]
    BY DEF NoMarket
  <2> QED BY <2>1, CoinsAssumption, MarginsAssumption, FarmAssumption DEF Init, FarmOK, Valid
<1>2. CheckOK /\ check.at = "idle"
  <2>1. NoCheck \in CheckRecs /\ NoCheck.at = "idle" /\ NoCheck.scheduled = FALSE
    BY IntervalAssumption DEF NoCheck, NoMargins, CheckRecs, Modes
  <2> QED BY <2>1 DEF Init, CheckOK
<1>3. HeldOK /\ ChainOK
  BY DEF Init, HeldOK, ChainOK
<1>4. TargetOK
  BY <1>2 DEF TargetOK
<1>5. PaceOK
  BY <1>2, IntervalAssumption DEF Init, PaceOK, Never, Coming
<1> QED BY <1>1, <1>2, <1>3, <1>4, <1>5 DEF IInv

LEMMA StepKeeps == IInv /\ [Next]_vars => IInv'
  BY FarmKept, CheckKept, HeldKept, ChainKept, TargetKept, PaceKept DEF IInv

LEMMA Invariant == Spec => []IInv
<1>1. Init => IInv
  BY InitHolds
<1>2. IInv /\ [Next]_vars => IInv'
  BY StepKeeps
<1> QED BY <1>1, <1>2, PTL DEF Spec

(* crossCheck and decide keep the farm from bouncing: as long as the market,
   the pools and the settings stay, no check brings it back to a pool that an
   earlier check left, over any number of checks and restarts. *)
THEOREM NeverBounces == Spec => NoBounce
<1>1. IInv /\ [Next]_vars => [Switched /\ check.sound => check.target \notin left]_vars
  <2> SUFFICES ASSUME IInv, Switched, check.sound PROVE check.target \notin left
    OBVIOUS
  <2> QED BY SoundSwitch
<1> QED BY <1>1, Invariant, PTL DEF Spec, NoBounce

(* Two switches for profit are an interval apart, but for the time a check
   takes, over any number of restarts and failed writes of profit.json, unless
   the write after the first switch was the one that failed. *)
THEOREM SwitchesArePaced == Spec => Paced
<1>1. IInv /\ [Next]_vars => [Switched => moved >= Interval - MaxCheck]_vars
  <2> SUFFICES ASSUME IInv, Switched PROVE moved >= Interval - MaxCheck
    OBVIOUS
  <2>1. Coming
    BY DEF IInv, CheckOK, Switched, Coming
  <2> QED BY <2>1 DEF IInv, PaceOK
<1> QED BY <1>1, Invariant, PTL DEF Spec, Paced
================================================================================
