------------------------------ MODULE TimedSwitch ------------------------------
(***************************************************************************)
(* Timed switching and block hunting (internal/timed/timed.go, hunt.go):   *)
(* the farm goes to one pool for part of every period, or while a block is *)
(* easy, and comes back.  Around it: everyone else who changes the roles   *)
(* (the operator, profit switching), the block chain, and crashes.         *)
(*                                                                         *)
(* One step of the schedule holds Switcher.stepMu.  It reads the roles,    *)
(* the settings and the hardness when it begins; a switch it decides on is *)
(* carried out later (a pool check takes up to ten seconds), and the state *)
(* file is written before and after it.  Everybody else interleaves.       *)
(*                                                                         *)
(* Time is counted in minutes, the resolution of minStint.                 *)
(***************************************************************************)
EXTENDS Naturals, Sequences, FiniteSets, SequencesExt

CONSTANTS
    Pools,
    ECash,      \* pools that mine eCash solo
    Profit,     \* pools that take part in profit switching
    NoPool,
    Period, Duration, minStint,
    Marks,      \* pools the operator may mark for the timer, or NoPool
    Modes,      \* modes of the timer and of hunting the operator may choose
    Chains,     \* hardness of the next block, and whether blocks are seen
    DiskFails,  \* whether a write of the state file may fail
    MaxTime,    \* bound on the time of one behaviour
    MaxEdits,   \* bound on the changes by the operator and by profit switching
    MaxCrashes  \* bound on the crashes

ASSUME PoolAssumption == NoPool \notin Pools /\ ECash \subseteq Pools /\ Profit \subseteq Pools
ASSUME TimeAssumption == Period \in Nat \ {0} /\ Duration \in Nat \ {0} /\ minStint \in Nat \ {0}
ASSUME InputAssumption ==
    /\ Marks \subseteq Pools \cup {NoPool} /\ Modes \subseteq BOOLEAN \X BOOLEAN
    /\ Chains \subseteq {"low", "mid", "high"} \X BOOLEAN
ASSUME LimitAssumption == MaxTime \in Nat /\ MaxEdits \in Nat /\ MaxCrashes \in Nat

VARIABLES
    pools, active, fallback, \* the published configuration
    mark, timerOn, huntOn,   \* the pool marked for the timer; the two modes
    hard, live, now,         \* the eCash chain, whether its blocks are seen, the clock
    cur,     \* Switcher.cur: the switch to undo
    sched,   \* Switcher.anchor, period, spent and done
    hold, retry, \* hunter: a pool was chosen by hand; pause after a failed switch
    file,    \* timed.json
    step,    \* the step in progress, under stepMu; or down after a crash
    profit,  \* the scheduled check of profit switching in progress
    trip,    \* history: the stay on the target, what was before it, and cut:
             \* the order to compare with on the way back is not in the file;
             \* late: a switch back has failed and is tried again
    hand,    \* history: who was overridden by hand: timer, hunt, or nobody; lost by a crash
    real,    \* history: time really spent on the timer's target in this period
    looked,  \* history: a step has begun since the clock moved
    edits, crashes

roles == <<pools, active, fallback>>
modes == <<mark, timerOn, huntOn>>
world == <<hard, live, now>>
memory == <<cur, sched, hold, retry>>
limits == <<edits, crashes>>
vars == <<roles, modes, world, memory, file, step, profit, trip, hand, real, looked, limits>>

-----------------------------------------------------------------------------
(* Fallback orders: no pool is in one twice. *)

IsOrder(s) == s \in Seq(Pools) /\ \A i, j \in DOMAIN s : s[i] = s[j] => i = j
Orders == {s \in UNION {[1 .. n -> Pools] : n \in 0 .. Cardinality(Pools)} : IsOrder(s)}

-----------------------------------------------------------------------------
(* What a step sees. *)

NoAway == [reason |-> "none"]
Idle == [at |-> "idle"]

(* periodStart; an anchor of zero stands for none. *)
PeriodOf(t, anchor) == anchor + ((t - anchor) \div Period) * Period

(* The schedule after the change of period has been noticed. *)
Turned ==
    LET p == PeriodOf(now, sched.anchor)
    IN  IF p = sched.period THEN sched
        ELSE [sched EXCEPT !.period = p, !.spent = 0, !.done = FALSE]

On == timerOn /\ mark # NoPool

huntTarget ==
    IF mark \in ECash THEN mark
    ELSE IF ECash \cap pools = {} THEN NoPool ELSE CHOOSE p \in ECash \cap pools : TRUE
Hunting == huntOn /\ huntTarget # NoPool

(* Hardness of a block for the timer's pool and for hunting: at most
   resumeBelow (low), below pauseAbove (mid), or more (high). *)
TimerHard == IF On /\ mark \in ECash THEN hard ELSE "low"
HuntHard == IF Hunting THEN hard ELSE "low"

Held == hold /\ Hunting /\ HuntHard # "high"

left ==
    LET stint == IF cur.reason = "timer" /\ cur.period = Turned.period THEN now - cur.since ELSE 0
        used == Turned.spent + stint
    IN  IF used >= Duration THEN 0 ELSE Duration - used
periodLeft == Turned.period + Period - now

Due == On /\ ~Turned.done /\ left >= minStint /\ periodLeft >= minStint
timerDue == Due /\ TimerHard = "low"
wants == Hunting /\ live /\ ~Held /\ ~retry /\ HuntHard = "low"
keeps == Hunting /\ live /\ ~Held /\ cur.target = huntTarget /\ HuntHard # "high"

-----------------------------------------------------------------------------
(* What a step does. *)

(* save; a failed write is logged, and the old file stays. *)
Save(a, s) ==
    /\ cur' = a
    /\ sched' = s
    /\ \/ file' = [away |-> a, sched |-> s]
       \/ DiskFails /\ UNCHANGED file

(* Mutants: a stint is not booked, or does not end the others of its period. *)
EndedUnbooked(a, s, final) ==
    IF a.reason = "timer" /\ a.period = s.period THEN [s EXCEPT !.done = @ \/ final] ELSE s
EndedOpen(a, s, final) ==
    IF a.reason = "timer" /\ a.period = s.period THEN [s EXCEPT !.spent = @ + (now - a.since)] ELSE s

(* ended. *)
Ended(a, s, final) ==
    IF a.reason = "timer" /\ a.period = s.period
    THEN [s EXCEPT !.spent = @ + (now - a.since), !.done = @ \/ final]
    ELSE s

Rest ==
    /\ sched' = Turned /\ hold' = Held
    /\ UNCHANGED <<cur, retry, file, step, trip>>

Keep(a, s) ==
    /\ Save(a, s)
    /\ hold' = Held
    /\ UNCHANGED <<retry, step, trip>>

HandOver(reason) ==
    Keep([cur EXCEPT !.reason = reason, !.period = Turned.period, !.since = now],
         Ended(cur, Turned, TRUE))

(* Mutant: the way back is only saved after the switch. *)
LeaveUnsaved(reason, target) ==
    LET a == [reason |-> reason, period |-> Turned.period, since |-> now, target |-> target,
              home |-> active, fallback |-> fallback, set |-> <<>>]
    IN  /\ cur' = a /\ sched' = Turned
        /\ hold' = Held
        /\ step' = [at |-> "check", a |-> a]
        /\ trip' = [on |-> FALSE, from |-> active, fallback |-> fallback,
                    touched |-> FALSE, cut |-> FALSE, late |-> FALSE]
        /\ UNCHANGED <<retry, file>>

(* leave, up to the pool check. *)
Leave(reason, target) ==
    LET a == [reason |-> reason, period |-> Turned.period, since |-> now, target |-> target,
              home |-> active, fallback |-> fallback, set |-> <<>>]
    IN  /\ Save(a, Turned)
        /\ hold' = Held
        /\ step' = [at |-> "check", a |-> a]
        /\ trip' = [on |-> FALSE, from |-> active, fallback |-> fallback,
                    touched |-> FALSE, cut |-> FALSE, late |-> FALSE]
        /\ UNCHANGED retry

(* back, up to Restore; without a switch to undo it is over here. *)
Back(final) ==
    IF active # cur.target \/ cur.home \notin pools
    THEN /\ Save(NoAway, Ended(cur, Turned, TRUE))
         /\ hold' = (Held \/ active # cur.target)
         /\ trip' = [trip EXCEPT !.on = FALSE]
         /\ UNCHANGED <<retry, step>>
    ELSE /\ sched' = Turned /\ hold' = Held
         /\ step' = [at |-> "return", a |-> cur, final |-> final,
                     order |-> IF fallback = cur.set THEN cur.fallback ELSE fallback]
         /\ UNCHANGED <<cur, retry, file, trip>>

-----------------------------------------------------------------------------
(* step, stepHunt and maybeHunt: the decision. *)

MaybeHunt == IF wants /\ active # huntTarget THEN Leave("hunt", huntTarget) ELSE Rest

AtHome ==
    IF ~Due \/ TimerHard # "low" THEN MaybeHunt
    ELSE IF active = mark THEN Keep(NoAway, [Turned EXCEPT !.done = TRUE]) \* finish
    ELSE Leave("timer", mark)

OnTimer ==
    LET renewed == cur.period # Turned.period /\ On /\ cur.target = mark
        over    == ~On \/ cur.target # mark \/ left = 0
    IN  CASE active # cur.target -> Back(TRUE)
          [] active = cur.target /\ renewed ->
                IF TimerHard # "high" THEN Keep([cur EXCEPT !.period = Turned.period, !.since = now], Turned)
                ELSE Back(FALSE)
          [] active = cur.target /\ ~renewed /\ over -> IF keeps THEN HandOver("hunt") ELSE Back(TRUE)
          [] active = cur.target /\ ~renewed /\ ~over ->
                IF TimerHard = "high" /\ left >= minStint THEN Back(FALSE) ELSE Rest

(* Mutant: turning hunting off does not end a hunt. *)
OnHuntStays ==
    IF active # cur.target THEN Back(TRUE)
    ELSE IF timerDue /\ mark = cur.target THEN HandOver("timer")
    ELSE IF timerDue \/ ~live \/ HuntHard = "high" THEN Back(TRUE)
    ELSE Rest

OnHunt ==
    IF active # cur.target THEN Back(TRUE)
    ELSE IF timerDue /\ mark = cur.target THEN HandOver("timer")
    ELSE IF timerDue \/ ~Hunting \/ cur.target # huntTarget \/ ~live \/ HuntHard = "high" THEN Back(TRUE)
    ELSE Rest

Step ==
    /\ step = Idle
    /\ CASE cur.reason = "none" -> AtHome
         [] cur.reason = "timer" -> OnTimer
         [] cur.reason = "hunt" -> OnHunt
    /\ looked' = TRUE
    /\ UNCHANGED <<roles, modes, world, profit, hand, real, limits>>

-----------------------------------------------------------------------------
(* The switches a step decided on: activate and Restore of the pool manager. *)

(* without, for an order. *)
without(s, p) ==
    IF p \notin ToSet(s) THEN s
    ELSE LET k == CHOOSE i \in DOMAIN s : s[i] = p
         IN  [i \in 1 .. Len(s) - 1 |-> IF i < k THEN s[i] ELSE s[i + 1]]

(* existingOnce, for an order: t holds what is left of list, in its order. *)
IsExistingOnce(t, list, skip) ==
    /\ ToSet(t) = (ToSet(list) \cap pools) \ {skip}
    /\ \A i, j \in DOMAIN t, k, l \in DOMAIN list :
          i < j /\ list[k] = t[i] /\ list[l] = t[j] => k < l

(* activate, from Mutate on: the previous active pool becomes the first
   fallback. *)
Activated(id) ==
    /\ id \in pools
    /\ active' = id
    /\ fallback' = IF active = id THEN without(fallback, id)
                   ELSE <<active>> \o without(without(fallback, id), active)
    /\ UNCHANGED pools

LeaveCommit ==
    /\ step.at = "check"
    /\ Activated(step.a.target)
    /\ trip' = [trip EXCEPT !.on = TRUE, !.from = active, !.cut = TRUE]
    /\ step' = [at |-> "switched", a |-> step.a]
    /\ UNCHANGED <<modes, world, memory, file, profit, hand, real, looked, limits>>

LeaveFails ==
    /\ step.at = "check"
    /\ Save(NoAway, IF step.a.reason = "timer" THEN [sched EXCEPT !.done = TRUE] ELSE sched)
    /\ retry' = (retry \/ step.a.reason = "hunt")
    /\ step' = Idle
    /\ UNCHANGED <<roles, modes, world, hold, profit, trip, hand, real, looked, limits>>

(* Mutant: the order after the switch is not kept. *)
LeaveSaveNoOrder ==
    /\ step.at = "switched"
    /\ Save(step.a, sched)
    /\ step' = Idle
    /\ trip' = [trip EXCEPT !.cut = file'.away # cur']
    /\ UNCHANGED <<roles, modes, world, hold, retry, profit, hand, real, looked, limits>>

(* leave, after the switch: the order to compare with on the way back. *)
LeaveSave ==
    /\ step.at = "switched"
    /\ Save([step.a EXCEPT !.set = fallback], sched)
    /\ step' = Idle
    /\ trip' = [trip EXCEPT !.cut = file'.away # cur']
    /\ UNCHANGED <<roles, modes, world, hold, retry, profit, hand, real, looked, limits>>

ReturnCommit ==
    /\ step.at = "return"
    /\ step.a.home \in pools
    /\ active' = step.a.home
    /\ fallback' \in {t \in Orders : IsExistingOnce(t, step.order, step.a.home)}
    /\ trip' = [trip EXCEPT !.on = FALSE]
    /\ step' = [step EXCEPT !.at = "returned"]
    /\ UNCHANGED <<pools, modes, world, memory, file, profit, hand, real, looked, limits>>

(* state.json was not written, or the pool has been deleted meanwhile. *)
ReturnFails ==
    /\ step.at = "return"
    /\ step' = Idle
    /\ trip' = [trip EXCEPT !.late = TRUE]
    /\ UNCHANGED <<roles, modes, world, memory, file, profit, hand, real, looked, limits>>

ReturnSave ==
    /\ step.at = "returned"
    /\ Save(NoAway, Ended(step.a, sched, step.final))
    /\ step' = Idle
    /\ UNCHANGED <<roles, modes, world, hold, retry, profit, trip, hand, real, looked, limits>>

-----------------------------------------------------------------------------
(* The operator and profit switching. *)

Edit == edits < MaxEdits /\ edits' = edits + 1
Up == step.at # "down"

StartNow ==
    /\ Edit /\ step = Idle /\ On
    /\ LET s == [anchor |-> now, period |-> now, spent |-> 0, done |-> FALSE]
           a == [cur EXCEPT !.reason = "timer", !.period = now, !.since = now]
       IN  Save(IF cur.reason = "timer" \/ (cur.reason = "hunt" /\ cur.target = mark) THEN a ELSE cur, s)
    /\ hand' = IF hand = "timer" THEN "nobody" ELSE hand
    /\ real' = 0
    /\ UNCHANGED <<roles, modes, world, hold, retry, step, profit, trip, looked, crashes>>

(* History: a switch away from the target, unless one back is on its way, or
   the switcher has not noticed yet that the period, the block or the hunt is
   over.  Whoever puts the farm on the target again before the switcher has
   noticed takes it back. *)
PutBack(id) == cur # NoAway /\ active # cur.target /\ id = cur.target
Overridden(id) ==
    IF /\ trip.on /\ cur # NoAway /\ active = cur.target /\ id # active
       /\ step.at # "return"
       /\ cur.reason = "timer" => cur.period = PeriodOf(now, sched.anchor)
       /\ cur.reason = "hunt" => huntOn /\ hard # "high"
    THEN cur.reason
    ELSE IF PutBack(id) THEN "nobody" ELSE hand

Manual(id) ==
    /\ Edit /\ Up
    /\ Activated(id)
    /\ trip' = [trip EXCEPT !.on = FALSE, !.touched = TRUE]
    /\ hand' = Overridden(id)
    /\ UNCHANGED <<modes, world, memory, file, step, profit, real, looked, crashes>>

SetFallback(order) ==
    /\ Edit /\ Up
    /\ fallback' = order
    /\ trip' = [trip EXCEPT !.touched = TRUE]
    /\ UNCHANGED <<pools, active, modes, world, memory, file, step, profit, hand, real, looked, crashes>>

Delete(id) ==
    /\ Edit /\ Up
    /\ id \in pools \ {active}
    /\ pools' = pools \ {id}
    /\ fallback' = without(fallback, id)
    /\ mark' = IF mark = id THEN NoPool ELSE mark
    /\ trip' = [trip EXCEPT !.touched = TRUE]
    /\ UNCHANGED <<active, timerOn, huntOn, world, memory, file, step, profit, hand, real, looked, crashes>>

Mark(id) ==
    /\ Edit /\ Up
    /\ mark' = id
    /\ UNCHANGED <<roles, timerOn, huntOn, world, memory, file, step, profit, trip, hand, real, looked, crashes>>

SetModes(timer, hunt) ==
    /\ Edit /\ Up
    /\ timerOn' = timer /\ huntOn' = hunt
    /\ hand' = IF hand \in {"hunt", "lost"} /\ ~hunt THEN "nobody" ELSE hand
    /\ UNCHANGED <<roles, mark, world, memory, file, step, profit, trip, real, looked, crashes>>

(* due looks whether the farm is away; market data and the pool check of
   ActivateFor come before the switch. *)
ProfitDue ==
    /\ Up /\ ~profit /\ cur = NoAway
    /\ profit' = TRUE
    /\ UNCHANGED <<roles, modes, world, memory, file, step, trip, hand, real, looked, limits>>

ProfitSwitch(id) ==
    /\ Edit /\ profit
    /\ id # active
    /\ Activated(id)
    /\ profit' = FALSE
    /\ trip' = [trip EXCEPT !.on = FALSE, !.touched = TRUE]
    /\ hand' = IF PutBack(id) THEN "nobody" ELSE hand
    /\ UNCHANGED <<modes, world, memory, file, step, real, looked, crashes>>

ProfitStays ==
    /\ profit
    /\ profit' = FALSE
    /\ UNCHANGED <<roles, modes, world, memory, file, step, trip, hand, real, looked, limits>>

-----------------------------------------------------------------------------
(* The chain, the clock and crashes. *)

Chain(h, l) ==
    /\ hard' = h /\ live' = l
    /\ hand' = IF hand \in {"hunt", "lost"} /\ h = "high" THEN "nobody" ELSE hand
    /\ UNCHANGED <<roles, modes, now, memory, file, step, profit, trip, real, looked, limits>>

RetryDue ==
    /\ retry
    /\ retry' = FALSE
    /\ UNCHANGED <<roles, modes, world, cur, sched, hold, file, step, profit, trip, hand, real, looked, limits>>

(* A step begins every five seconds and, apart from the pool check, ends at
   once: a minute passes only with a step in it. *)
Minute ==
    /\ now < MaxTime
    /\ Up => looked /\ step.at \in {"idle", "check"}
    /\ now' = now + 1
    /\ looked' = FALSE
    /\ LET turns == PeriodOf(now + 1, sched.anchor) # PeriodOf(now, sched.anchor)
       IN  /\ real' = IF turns THEN 0
                       ELSE IF Up /\ trip.on /\ ~trip.late /\ cur.reason = "timer" THEN real + 1
                       ELSE real
           /\ hand' = IF turns /\ hand = "timer" THEN "nobody" ELSE hand
    /\ UNCHANGED <<roles, modes, hard, live, memory, file, step, profit, trip, limits>>

(* The last record did not get into the file. *)
Unwritten == DiskFails /\ file # [away |-> cur, sched |-> sched]

Crash ==
    /\ Up /\ crashes < MaxCrashes
    /\ crashes' = crashes + 1
    /\ step' = [at |-> "down"]
    /\ profit' = FALSE
    /\ hand' = IF hand = "hunt" \/ (hand = "timer" /\ Unwritten) THEN "lost" ELSE hand
    /\ UNCHANGED <<roles, modes, world, memory, file, trip, real, looked, edits>>

(* New. *)
Restart ==
    /\ step.at = "down"
    /\ cur' = file.away
    /\ sched' = file.sched
    /\ hold' = FALSE /\ retry' = FALSE
    /\ step' = Idle
    /\ looked' = FALSE
    /\ UNCHANGED <<roles, modes, world, file, profit, trip, hand, real, limits>>

-----------------------------------------------------------------------------

Init ==
    /\ pools = Pools
    /\ active \in Pools
    /\ fallback \in Orders /\ active \notin ToSet(fallback)
    /\ mark \in Marks
    /\ \E m \in Modes : timerOn = m[1] /\ huntOn = m[2]
    /\ \E c \in Chains : hard = c[1] /\ live = c[2]
    /\ now = 0
    /\ cur = NoAway
    /\ sched = [anchor |-> 0, period |-> 0, spent |-> 0, done |-> FALSE]
    /\ hold = FALSE /\ retry = FALSE
    /\ file = [away |-> NoAway, sched |-> sched]
    /\ step = Idle
    /\ profit = FALSE
    /\ trip = [on |-> FALSE, from |-> active, fallback |-> fallback, touched |-> FALSE, cut |-> FALSE, late |-> FALSE]
    /\ hand = "nobody"
    /\ real = 0
    /\ looked = FALSE
    /\ edits = 0 /\ crashes = 0

Operate ==
    \/ StartNow
    \/ \E id \in Pools : Manual(id) \/ Delete(id)
    \/ \E order \in Orders : ToSet(order) \subseteq pools \ {active} /\ SetFallback(order)
    \/ \E id \in Marks \cap (pools \cup {NoPool}) : id # mark /\ Mark(id)
    \/ \E m \in Modes : m # <<timerOn, huntOn>> /\ SetModes(m[1], m[2])

ProfitCheck == ProfitDue \/ ProfitStays \/ \E id \in Profit : ProfitSwitch(id)

Carry == LeaveCommit \/ LeaveFails \/ LeaveSave \/ ReturnCommit \/ ReturnFails \/ ReturnSave

Next ==
    \/ Step \/ Carry
    \/ Operate \/ ProfitCheck
    \/ \E c \in Chains : c # <<hard, live>> /\ Chain(c[1], c[2])
    \/ RetryDue \/ Minute
    \/ Crash \/ Restart

Spec == Init /\ [][Next]_vars

(* Run begins a step again and again, every call it makes returns, and the
   program is restarted after a crash.  A write of state.json that is tried
   again and again succeeds. *)
Fairness ==
    /\ WF_vars(Step) /\ WF_vars(Carry) /\ WF_vars(Restart)
    /\ SF_vars(ReturnCommit)

FairSpec == Spec /\ Fairness

-----------------------------------------------------------------------------
(* Properties. *)

Aways == [reason : {"timer", "hunt"}, period : Nat, since : Nat, target : Pools, home : Pools,
          fallback : Seq(Pools), set : Seq(Pools)] \cup {NoAway}
Scheds == [anchor : Nat, period : Nat, spent : Nat, done : BOOLEAN]

TypeOK ==
    /\ pools \subseteq Pools /\ active \in pools
    /\ IsOrder(fallback) /\ ToSet(fallback) \subseteq pools \ {active}
    /\ mark \in pools \cup {NoPool}
    /\ cur \in Aways /\ file.away \in Aways
    /\ sched \in Scheds /\ file.sched \in Scheds
    /\ step.at \in {"idle", "check", "switched", "return", "returned", "down"}
    /\ hand \in {"nobody", "timer", "hunt", "lost"}

(* "A restart in the middle does not strand the farm" (README): as long as the
   farm is where the switcher has sent it, the file knows the way back, at
   whatever moment the program dies, if the record of the switch was written. *)
WayBackSaved ==
    trip.on /\ (DiskFails => ~trip.cut) => file.away # NoAway /\ file.away.target = active

(* "If you switch pools by hand during that time, your choice stays" and
   "hunting waits for the next block": nobody who was overridden by hand on the
   target sends the farm there again in the same period, or before a block.  The
   hold of hunting is lost by a restart, as is what could not be written. *)
HandStands == [][LeaveCommit => step.a.reason # hand]_vars

(* A farm that is on the target comes back to the roles of before, through
   pauses, hand-overs, new periods and restarts, if nobody else changed them
   meanwhile and the record of the switch got into the file. *)
RolesRestored ==
    [][ReturnCommit /\ trip.on /\ ~trip.touched /\ ~trip.cut
         => active' = trip.from /\ fallback' = trip.fallback]_vars

(* "The farm spends the set time on the timer pool" of every period and no
   more, in one stint or several, with crashes, new periods and restarts of
   the schedule in between, as long as state.json can be written. *)
StintsFit == ~DiskFails => real <= Duration

(* With the timer and hunting turned off for good, the farm is back or left
   where the operator put it, whatever step the modes were turned off in,
   unless the record of the switch never got into the file. *)
TurnedOff ==
    <>[](~timerOn /\ ~huntOn) => <>[](cur = NoAway /\ (trip.on => DiskFails /\ trip.cut))
===============================================================================
