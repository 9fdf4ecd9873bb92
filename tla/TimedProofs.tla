------------------------------ MODULE TimedProofs ------------------------------
(***************************************************************************)
(* Proofs about timed switching and block hunting, for any pools, period,  *)
(* duration, modes and bounds.                                             *)
(***************************************************************************)
EXTENDS TimedSwitch, SequenceTheorems, WellFoundedInduction, TLAPS

Current == PeriodOf(now, sched.anchor)

(* A record of a switch to undo, and one of the schedule. *)
Shaped(a) ==
    a = [reason |-> a.reason, period |-> a.period, since |-> a.since, target |-> a.target,
         home |-> a.home, fallback |-> a.fallback, set |-> a.set]
AwayOK(a) ==
    \/ a = NoAway
    \/ Shaped(a) /\ a.reason \in {"timer", "hunt"} /\ a.period \in Nat /\ a.since \in 0 .. now
SchedOK(s) == s \in Scheds /\ s.anchor <= now /\ s.period <= PeriodOf(now, s.anchor)

RecordsOK ==
    /\ now \in Nat /\ real \in Nat
    /\ AwayOK(cur) /\ AwayOK(file.away) /\ SchedOK(sched) /\ SchedOK(file.sched)

FarmOK == pools \subseteq Pools /\ mark \in pools \cup {NoPool}

(* What is done with the pools is about the switch that is in memory. *)
StepOK ==
    /\ looked \in BOOLEAN
    /\ step = Idle \/ step.at \in {"check", "switched", "return", "returned", "down"}
    /\ step.at \in {"check", "switched", "return", "returned"} => step.a = cur /\ cur # NoAway
    /\ step.at \in {"check", "returned"} => trip.on = FALSE
    /\ step.at \in {"return", "returned"} =>
          /\ step = [at |-> step.at, a |-> cur, final |-> step.final, order |-> step.order]
          /\ step.final \in BOOLEAN /\ sched.period = Current

(* The file follows the memory, but for a period that has begun since. *)
Behind ==
    /\ sched.spent = 0 /\ sched.done = FALSE
    /\ file.sched.anchor = sched.anchor /\ file.sched.period < sched.period
FileOK == ~DiskFails => file.away = cur /\ (file.sched = sched \/ Behind)

(* The way back of the farm is known, in memory and in the file. *)
TripShaped(t) ==
    t \in [on : BOOLEAN, from : {t.from}, fallback : {t.fallback},
           touched : {t.touched}, cut : BOOLEAN, late : BOOLEAN]
TripOK ==
    /\ TripShaped(trip)
    /\ trip.on = TRUE /\ (step.at = "switched" \/ (step.at # "down" /\ (DiskFails => trip.cut = FALSE))) =>
          cur # NoAway /\ active = cur.target
    /\ trip.on = TRUE /\ (DiskFails => trip.cut = FALSE) => file.away # NoAway /\ active = file.away.target

(* The time that the schedule knows of in the current period. *)
Booked == IF sched.period = Current THEN sched.spent ELSE 0
Running == IF cur.reason = "timer" /\ cur.period = Current THEN now - cur.since ELSE 0

(* The switch that has been looked at since the clock moved has time left. *)
HasTime ==
    looked = TRUE /\ cur.reason = "timer"
        /\ (step.at \in {"check", "switched"} \/ (step = Idle /\ trip.on = TRUE /\ trip.late = FALSE))
    => cur.period = Current /\ Booked + Running < Duration

TimeOK ==
    ~DiskFails =>
       /\ cur.reason = "timer" /\ cur.period # Current => Booked = 0
       /\ step.at = "check" => real <= Booked
       /\ step.at # "check" => real <= Booked + Running
       /\ real <= Duration
       /\ HasTime

(* Who was overridden has had it noted, or will notice when the next step begins. *)
TimerNoted == sched.period = Current /\ sched.done = TRUE
HuntNoted == hold = TRUE \/ huntTarget = NoPool
Unnoticed == cur # NoAway /\ active # cur.target

HandOK ==
    /\ hold \in BOOLEAN
    /\ hand = "timer" =>
          /\ \/ TimerNoted
             \/ /\ Unnoticed /\ cur.reason = "timer" /\ cur.period = Current
                /\ step = Idle \/ step.at \in {"switched", "down"}
          /\ step.at = "down" /\ DiskFails => file = [away |-> cur, sched |-> sched]
    /\ hand = "hunt" =>
          /\ huntOn /\ hard # "high" /\ step.at # "down"
          /\ HuntNoted \/ (Unnoticed /\ (step = Idle \/ step.at = "switched"))
    /\ step.at = "check" => cur.reason # hand

IInv == RecordsOK /\ FarmOK /\ StepOK /\ FileOK /\ TripOK /\ TimeOK /\ HandOK

-----------------------------------------------------------------------------
(* The operators. *)

LEMMA Multiples ==
    ASSUME NEW m \in Nat, NEW n \in Nat, m <= n, NEW k \in Nat \ {0}
    PROVE  m * k \in Nat /\ n * k \in Nat /\ m * k <= n * k
<1>1. n = m + (n - m) /\ n - m \in Nat
  OBVIOUS
<1>2. n * k = m * k + (n - m) * k
  BY <1>1
<1>3. (n - m) * k \in Nat /\ m * k \in Nat
  BY <1>1
<1> QED BY <1>2, <1>3

(* Periods begin no later than now, and one after another. *)
LEMMA Periods ==
    ASSUME NEW t \in Nat, NEW anchor \in Nat, anchor <= t
    PROVE  /\ PeriodOf(t, anchor) \in Nat /\ PeriodOf(t, t) = t
           /\ PeriodOf(t + 1, anchor) \in Nat /\ PeriodOf(t, anchor) <= PeriodOf(t + 1, anchor)
<1>1. Period \in Nat \ {0}
  BY TimeAssumption
<1> DEFINE m == (t - anchor) \div Period
           n == (t + 1 - anchor) \div Period
<1>2. m \in Nat /\ n \in Nat /\ m <= n
  <2>1. t - anchor \in Nat /\ t + 1 - anchor \in Nat /\ t - anchor <= t + 1 - anchor
    OBVIOUS
  <2> QED BY <1>1, <2>1
<1>3. (t - t) \div Period = 0
  BY <1>1
<1> HIDE DEF m, n
<1>4. m * Period \in Nat /\ n * Period \in Nat /\ m * Period <= n * Period
  BY <1>1, <1>2, Multiples
<1>5. PeriodOf(t, anchor) = anchor + m * Period /\ PeriodOf(t + 1, anchor) = anchor + n * Period
  BY DEF PeriodOf, m, n
<1>6. PeriodOf(t, t) = t
  BY <1>1, <1>3 DEF PeriodOf
<1> QED BY <1>4, <1>5, <1>6

LEMMA SetSpent ==
    ASSUME NEW s \in Scheds, NEW n \in Nat
    PROVE  /\ [s EXCEPT !.spent = n] \in Scheds
           /\ [s EXCEPT !.spent = n].spent = n /\ [s EXCEPT !.spent = n].done = s.done
           /\ [s EXCEPT !.spent = n].anchor = s.anchor /\ [s EXCEPT !.spent = n].period = s.period
  BY DEF Scheds

LEMMA SetPeriod ==
    ASSUME NEW s \in Scheds, NEW n \in Nat
    PROVE  /\ [s EXCEPT !.period = n] \in Scheds
           /\ [s EXCEPT !.period = n].period = n /\ [s EXCEPT !.period = n].done = s.done
           /\ [s EXCEPT !.period = n].anchor = s.anchor /\ [s EXCEPT !.period = n].spent = s.spent
  BY DEF Scheds

LEMMA SetDone ==
    ASSUME NEW s \in Scheds, NEW d \in BOOLEAN
    PROVE  /\ [s EXCEPT !.done = d] \in Scheds
           /\ [s EXCEPT !.done = d].done = d
           /\ [s EXCEPT !.done = d].spent = s.spent
           /\ [s EXCEPT !.done = d].anchor = s.anchor
           /\ [s EXCEPT !.done = d].period = s.period
  BY DEF Scheds

(* The schedule as a step finds it. *)
LEMMA TurnedIs ==
    ASSUME RecordsOK
    PROVE  /\ Current \in Nat
           /\ Turned \in Scheds /\ Turned.anchor = sched.anchor /\ Turned.period = Current
           /\ Turned.spent = Booked /\ Booked \in Nat
           /\ sched.period = Current => Turned = sched
           /\ sched.period # Current => Turned.spent = 0 /\ Turned.done = FALSE /\ sched.period < Current
<1>1. /\ sched \in Scheds /\ sched.anchor \in Nat /\ sched.anchor <= now /\ now \in Nat
      /\ sched.period \in Nat /\ sched.period <= Current
  BY DEF RecordsOK, SchedOK, Scheds, Current
<1>2. Current \in Nat
  BY <1>1, Periods DEF Current
<1>3. CASE sched.period = Current
  BY <1>1, <1>2, <1>3 DEF Turned, Current, Booked, Scheds
<1>4. CASE sched.period # Current
  <2> DEFINE s1 == [sched EXCEPT !.period = Current]
             s2 == [s1 EXCEPT !.spent = 0]
             s3 == [s2 EXCEPT !.done = FALSE]
  <2>1. Turned = s3
    BY <1>4 DEF Turned, Current
  <2>2. s1 \in Scheds /\ s1.period = Current /\ s1.anchor = sched.anchor
    BY <1>1, <1>2, SetPeriod
  <2> HIDE DEF s1
  <2>3. s2 \in Scheds /\ s2.period = Current /\ s2.anchor = sched.anchor /\ s2.spent = 0
    BY <2>2, SetSpent
  <2> HIDE DEF s2
  <2>4. s3 \in Scheds /\ s3.period = Current /\ s3.anchor = sched.anchor /\ s3.spent = 0 /\ s3.done = FALSE
    BY <2>3, SetDone
  <2> HIDE DEF s3
  <2> QED BY <1>1, <1>2, <1>4, <2>1, <2>4 DEF Booked
<1> QED BY <1>3, <1>4

(* The time of a stint that ends is booked to its period. *)
LEMMA EndedIs ==
    ASSUME NEW a, AwayOK(a), NEW s \in Scheds, NEW final \in BOOLEAN, now \in Nat
    PROVE  /\ Ended(a, s, final) \in Scheds
           /\ Ended(a, s, final).anchor = s.anchor
           /\ Ended(a, s, final).period = s.period
<1> DEFINE e == Ended(a, s, final)
           ends == a.reason = "timer" /\ a.period = s.period
<1>0. s.spent \in Nat /\ s.done \in BOOLEAN
  BY DEF Scheds
<1>1. CASE ~ends
  BY <1>0, <1>1 DEF Ended
<1>2. CASE ends
  <2> DEFINE n == s.spent + (now - a.since)
             d == s.done \/ final
             s1 == [s EXCEPT !.spent = n]
             s2 == [s1 EXCEPT !.done = d]
  <2>0. a.since \in 0 .. now
    BY <1>2 DEF AwayOK, NoAway
  <2>1. n \in Nat /\ d \in BOOLEAN
    BY <1>0, <2>0
  <2>2. e = s2
    BY <1>2 DEF Ended
  <2>3. n = s.spent + (now - a.since) /\ (s.done = TRUE \/ final = TRUE => d = TRUE)
    BY <1>0
  <2> HIDE DEF n, d, e
  <2>4. s1 \in Scheds /\ s1.spent = n /\ s1.anchor = s.anchor /\ s1.period = s.period
    BY <2>1, SetSpent
  <2> HIDE DEF s1
  <2>5. s2 \in Scheds /\ s2.spent = n /\ s2.anchor = s.anchor /\ s2.period = s.period /\ s2.done = d
    BY <2>1, <2>4, SetDone
  <2> HIDE DEF s2
  <2> QED BY <1>2, <2>1, <2>2, <2>3, <2>5 DEF e
<1> QED BY <1>1, <1>2

LEMMA EndedSpends ==
    ASSUME NEW a, AwayOK(a), NEW s \in Scheds, NEW final \in BOOLEAN, now \in Nat
    PROVE  Ended(a, s, final).spent =
              IF a.reason = "timer" /\ a.period = s.period THEN s.spent + (now - a.since) ELSE s.spent
  BY DEF Scheds, Ended, AwayOK, NoAway

LEMMA EndedEnds ==
    ASSUME NEW a, AwayOK(a), NEW s \in Scheds, NEW final \in BOOLEAN, now \in Nat
    PROVE  /\ s.done = TRUE => Ended(a, s, final).done = TRUE
           /\ a.reason = "timer" /\ a.period = s.period /\ final = TRUE => Ended(a, s, final).done = TRUE
  BY DEF Scheds, Ended, AwayOK, NoAway

(* A switch to undo that is kept, with another reason, period or order. *)
LEMMA SinceNow ==
    ASSUME NEW a, AwayOK(a), a # NoAway, now \in Nat, NEW p \in Nat
    PROVE  LET b == [a EXCEPT !.period = p, !.since = now]
           IN  /\ AwayOK(b) /\ b # NoAway /\ b.reason = a.reason /\ b.period = p /\ b.since = now
               /\ b.target = a.target
<1> DEFINE b == [a EXCEPT !.period = p, !.since = now]
           b1 == [a EXCEPT !.period = p]
           b2 == [b1 EXCEPT !.since = now]
<1>a. b1 = [reason |-> a.reason, period |-> p, since |-> a.since, target |-> a.target,
           home |-> a.home, fallback |-> a.fallback, set |-> a.set]
  BY DEF AwayOK, Shaped
<1>b. b = b2
  OBVIOUS
<1> HIDE DEF b1
<1>1. b = [reason |-> a.reason, period |-> p, since |-> now, target |-> a.target,
           home |-> a.home, fallback |-> a.fallback, set |-> a.set]
  BY <1>a, <1>b
<1> HIDE DEF b
<1>2. /\ b.reason = a.reason /\ b.period = p /\ b.since = now /\ b.target = a.target
      /\ b.home = a.home /\ b.fallback = a.fallback /\ b.set = a.set
  BY <1>1
<1>3. a.reason \in {"timer", "hunt"} /\ b.reason # "none"
  BY <1>2 DEF AwayOK
<1>4. b # NoAway
  BY <1>3 DEF NoAway
<1>5. Shaped(b)
  BY <1>1, <1>2 DEF Shaped
<1>6. AwayOK(b)
  BY <1>2, <1>3, <1>5 DEF AwayOK
<1> QED BY <1>2, <1>4, <1>6 DEF b

LEMMA NewReasonIs ==
    ASSUME NEW a, AwayOK(a), a # NoAway, now \in Nat, NEW p \in Nat, NEW r \in {"timer", "hunt"}
    PROVE  LET b == [a EXCEPT !.reason = r, !.period = p, !.since = now]
           IN  b = [reason |-> r, period |-> p, since |-> now, target |-> a.target,
                    home |-> a.home, fallback |-> a.fallback, set |-> a.set]
<1> DEFINE b == [a EXCEPT !.reason = r, !.period = p, !.since = now]
           b1 == [a EXCEPT !.reason = r]
           b2 == [b1 EXCEPT !.period = p]
           b3 == [b2 EXCEPT !.since = now]
<1>a. b1 = [reason |-> r, period |-> a.period, since |-> a.since, target |-> a.target,
           home |-> a.home, fallback |-> a.fallback, set |-> a.set]
  BY DEF AwayOK, Shaped
<1>b. b = b3
  OBVIOUS
<1> HIDE DEF b1
<1>c. b2 = [reason |-> r, period |-> p, since |-> a.since, target |-> a.target,
           home |-> a.home, fallback |-> a.fallback, set |-> a.set]
  BY <1>a
<1> HIDE DEF b2
<1> QED BY <1>b, <1>c

LEMMA NewReason ==
    ASSUME NEW a, AwayOK(a), a # NoAway, now \in Nat, NEW p \in Nat, NEW r \in {"timer", "hunt"}
    PROVE  LET b == [a EXCEPT !.reason = r, !.period = p, !.since = now]
           IN  AwayOK(b) /\ b # NoAway
<1> DEFINE b == [a EXCEPT !.reason = r, !.period = p, !.since = now]
<1>1. b = [reason |-> r, period |-> p, since |-> now, target |-> a.target,
           home |-> a.home, fallback |-> a.fallback, set |-> a.set]
  BY NewReasonIs
<1> HIDE DEF b
<1>2. /\ b.reason = r /\ b.period = p /\ b.since = now /\ b.target = a.target
      /\ b.home = a.home /\ b.fallback = a.fallback /\ b.set = a.set
  BY <1>1
<1>3. b # NoAway
  BY <1>2 DEF NoAway
<1>4. Shaped(b)
  BY <1>1, <1>2 DEF Shaped
<1>5. AwayOK(b)
  BY <1>2, <1>4 DEF AwayOK
<1> QED BY <1>3, <1>5 DEF b

LEMMA NewOrder ==
    ASSUME NEW a, AwayOK(a), a # NoAway, NEW order
    PROVE  LET b == [a EXCEPT !.set = order]
           IN  /\ AwayOK(b) /\ b # NoAway /\ b.reason = a.reason /\ b.period = a.period
               /\ b.since = a.since /\ b.target = a.target
<1> DEFINE b == [a EXCEPT !.set = order]
<1>1. b = [reason |-> a.reason, period |-> a.period, since |-> a.since, target |-> a.target,
           home |-> a.home, fallback |-> a.fallback, set |-> order]
  BY DEF AwayOK, Shaped
<1> HIDE DEF b
<1>2. /\ b.reason = a.reason /\ b.period = a.period /\ b.since = a.since /\ b.target = a.target
      /\ b.home = a.home /\ b.fallback = a.fallback /\ b.set = order
  BY <1>1
<1>3. a.reason \in {"timer", "hunt"} /\ b.reason # "none"
  BY <1>2 DEF AwayOK
<1>4. b # NoAway
  BY <1>3 DEF NoAway
<1>5. Shaped(b)
  BY <1>1, <1>2 DEF Shaped
<1>6. AwayOK(b)
  BY <1>2, <1>3, <1>5 DEF AwayOK
<1> QED BY <1>2, <1>4, <1>6 DEF b

(* The history of the stay, with one of its fields changed. *)
LEMMA SetOn ==
    ASSUME NEW t, TripShaped(t), NEW v \in BOOLEAN
    PROVE  /\ TripShaped([t EXCEPT !.on = v]) /\ [t EXCEPT !.on = v].on = v
           /\ [t EXCEPT !.on = v].cut = t.cut /\ [t EXCEPT !.on = v].late = t.late
  BY DEF TripShaped

LEMMA SetFrom ==
    ASSUME NEW t, TripShaped(t), NEW v
    PROVE  /\ TripShaped([t EXCEPT !.from = v]) /\ [t EXCEPT !.from = v].on = t.on
           /\ [t EXCEPT !.from = v].cut = t.cut /\ [t EXCEPT !.from = v].late = t.late
  BY DEF TripShaped

LEMMA SetTouched ==
    ASSUME NEW t, TripShaped(t), NEW v
    PROVE  /\ TripShaped([t EXCEPT !.touched = v]) /\ [t EXCEPT !.touched = v].on = t.on
           /\ [t EXCEPT !.touched = v].cut = t.cut /\ [t EXCEPT !.touched = v].late = t.late
  BY DEF TripShaped

LEMMA SetCut ==
    ASSUME NEW t, TripShaped(t), NEW v \in BOOLEAN
    PROVE  /\ TripShaped([t EXCEPT !.cut = v]) /\ [t EXCEPT !.cut = v].on = t.on
           /\ [t EXCEPT !.cut = v].cut = v /\ [t EXCEPT !.cut = v].late = t.late
  BY DEF TripShaped

LEMMA SetLate ==
    ASSUME NEW t, TripShaped(t), NEW v \in BOOLEAN
    PROVE  /\ TripShaped([t EXCEPT !.late = v]) /\ [t EXCEPT !.late = v].on = t.on
           /\ [t EXCEPT !.late = v].cut = t.cut /\ [t EXCEPT !.late = v].late = v
  BY DEF TripShaped

-----------------------------------------------------------------------------
(* What a step may decide, and when. *)

Rests ==
    /\ cur # NoAway => active = cur.target
    /\ cur.reason = "timer" => cur.period = Current /\ left # 0
    /\ Rest
Finishes == cur = NoAway /\ Keep(NoAway, [Turned EXCEPT !.done = TRUE])
Leaves(reason, target) ==
    /\ cur = NoAway
    /\ reason = "timer" => Due
    /\ reason = "hunt" => wants
    /\ Leave(reason, target)
Renews ==
    /\ cur.reason = "timer" /\ cur.period # Current /\ active = cur.target
    /\ Keep([cur EXCEPT !.period = Turned.period, !.since = now], Turned)
HandsOver(reason) ==
    /\ cur # NoAway /\ cur.reason # reason /\ active = cur.target
    /\ reason = "timer" => Due
    /\ HandOver(reason)
GoesBack(final) ==
    /\ cur # NoAway
    /\ Back(final)

Decides ==
    \/ Rests \/ Finishes \/ Renews
    \/ Leaves("timer", mark) \/ Leaves("hunt", huntTarget)
    \/ HandsOver("timer") \/ HandsOver("hunt")
    \/ GoesBack(TRUE) \/ GoesBack(FALSE)

LEMMA StepIs ==
    ASSUME RecordsOK, Step
    PROVE  /\ step = Idle /\ looked' = TRUE
           /\ UNCHANGED <<roles, modes, world, profit, hand, real, limits>>
           /\ Decides
<1> SUFFICES Decides
  BY DEF Step
<1>0. Turned.period = Current
  BY TurnedIs
<1>a. cur = NoAway \/ cur.reason \in {"timer", "hunt"}
  BY DEF RecordsOK, AwayOK
<1>1. CASE cur = NoAway
  <2>0. cur.reason = "none"
    BY <1>1 DEF NoAway
  <2>1. AtHome
    BY <2>0 DEF Step
  <2>2. CASE wants /\ Leave("hunt", huntTarget)
    <3>1. Leaves("hunt", huntTarget)
      BY <1>1, <2>2 DEF Leaves
    <3> QED BY <3>1 DEF Decides
  <2>3. CASE Rest
    <3>1. Rests
      BY <1>1, <2>0, <2>3 DEF Rests
    <3> QED BY <3>1 DEF Decides
  <2>4. CASE Keep(NoAway, [Turned EXCEPT !.done = TRUE])
    <3>1. Finishes
      BY <1>1, <2>4 DEF Finishes
    <3> QED BY <3>1 DEF Decides
  <2>5. CASE Due /\ Leave("timer", mark)
    <3>1. Leaves("timer", mark)
      BY <1>1, <2>5 DEF Leaves
    <3> QED BY <3>1 DEF Decides
  <2> QED BY <2>1, <2>2, <2>3, <2>4, <2>5 DEF AtHome, MaybeHunt
<1>2. CASE cur # NoAway /\ cur.reason = "timer"
  <2>1. OnTimer
    BY <1>2 DEF Step
  <2>2. CASE active # cur.target
    <3>1. GoesBack(TRUE)
      BY <1>2, <2>1, <2>2 DEF OnTimer, GoesBack
    <3> QED BY <3>1 DEF Decides
  <2>3. CASE active = cur.target /\ cur.period # Turned.period /\ On /\ cur.target = mark
    <3>1. CASE Keep([cur EXCEPT !.period = Turned.period, !.since = now], Turned)
      <4>1. Renews
        BY <1>0, <1>2, <2>3, <3>1 DEF Renews
      <4> QED BY <4>1 DEF Decides
    <3>2. CASE Back(FALSE)
      <4>1. GoesBack(FALSE)
        BY <1>2, <2>3, <3>2 DEF GoesBack
      <4> QED BY <4>1 DEF Decides
    <3> QED BY <2>1, <2>3, <3>1, <3>2 DEF OnTimer
  <2>4. CASE /\ active = cur.target /\ ~(cur.period # Turned.period /\ On /\ cur.target = mark)
             /\ (~On \/ cur.target # mark \/ left = 0)
    <3>1. CASE HandOver("hunt")
      <4>1. HandsOver("hunt")
        BY <1>2, <2>4, <3>1 DEF HandsOver
      <4> QED BY <4>1 DEF Decides
    <3>2. CASE Back(TRUE)
      <4>1. GoesBack(TRUE)
        BY <1>2, <2>4, <3>2 DEF GoesBack
      <4> QED BY <4>1 DEF Decides
    <3> QED BY <2>1, <2>4, <3>1, <3>2 DEF OnTimer
  <2>5. CASE /\ active = cur.target /\ ~(cur.period # Turned.period /\ On /\ cur.target = mark)
             /\ ~(~On \/ cur.target # mark \/ left = 0)
    <3>1. CASE Back(FALSE)
      <4>1. GoesBack(FALSE)
        BY <1>2, <2>5, <3>1 DEF GoesBack
      <4> QED BY <4>1 DEF Decides
    <3>2. CASE Rest
      <4>1. Rests
        BY <1>0, <1>2, <2>5, <3>2 DEF Rests
      <4> QED BY <4>1 DEF Decides
    <3> QED BY <2>1, <2>5, <3>1, <3>2 DEF OnTimer
  <2> QED BY <2>2, <2>3, <2>4, <2>5
<1>3. CASE cur # NoAway /\ cur.reason = "hunt"
  <2>1. OnHunt
    BY <1>3 DEF Step
  <2>2. CASE Back(TRUE)
    <3>1. GoesBack(TRUE)
      BY <1>3, <2>2 DEF GoesBack
    <3> QED BY <3>1 DEF Decides
  <2>3. CASE active = cur.target /\ timerDue /\ HandOver("timer")
    <3>1. HandsOver("timer")
      BY <1>3, <2>3 DEF HandsOver, timerDue
    <3> QED BY <3>1 DEF Decides
  <2>4. CASE active = cur.target /\ Rest
    <3>1. Rests
      BY <1>3, <2>4 DEF Rests
    <3> QED BY <3>1 DEF Decides
  <2> QED BY <2>1, <2>2, <2>3, <2>4 DEF OnHunt
<1> QED BY <1>1, <1>2, <1>3, <1>a

-----------------------------------------------------------------------------
(* What the parts of the invariant need in every step. *)

(* A record of a switch is none, or of the schedule. *)
LEMMA CurIs ==
    ASSUME RecordsOK
    PROVE  /\ cur = NoAway => cur.reason = "none"
           /\ cur # NoAway => /\ cur.reason \in {"timer", "hunt"} /\ cur.period \in Nat
                              /\ cur.since \in Nat /\ cur.since <= now
           /\ now \in Nat /\ real \in Nat
<1>1. now \in Nat /\ real \in Nat
  BY DEF RecordsOK
<1>2. cur = NoAway => cur.reason = "none"
  BY DEF NoAway
<1>3. cur # NoAway => cur.reason \in {"timer", "hunt"} /\ cur.period \in Nat /\ cur.since \in 0 .. now
  BY DEF RecordsOK, AwayOK
<1> QED BY <1>1, <1>2, <1>3

LEMMA Counts ==
    ASSUME RecordsOK
    PROVE  Booked \in Nat /\ Running \in Nat /\ (cur.reason # "timer" => Running = 0)
<1>1. Booked \in Nat
  BY TurnedIs
<1>2. cur.reason = "timer" => cur # NoAway
  BY CurIs
<1>3. Running \in Nat
  BY <1>2, CurIs DEF Running
<1> QED BY <1>1, <1>3 DEF Running

LEMMA TurnedFits ==
    ASSUME RecordsOK
    PROVE  SchedOK(Turned) /\ Turned.anchor = sched.anchor /\ Turned.period = Current
<1>1. Turned \in Scheds /\ Turned.anchor = sched.anchor /\ Turned.period = Current /\ Current \in Nat
  BY TurnedIs
<1>2. sched.anchor <= now /\ Current = PeriodOf(now, Turned.anchor)
  BY <1>1 DEF RecordsOK, SchedOK, Current
<1> QED BY <1>1, <1>2 DEF SchedOK

(* A record that was written, or tried, is in memory, and in the file if the disk works. *)
LEMMA SaveKeeps ==
    ASSUME RecordsOK, now' = now, real' \in Nat,
           NEW a, AwayOK(a), NEW s, SchedOK(s), Save(a, s)
    PROVE  RecordsOK' /\ FileOK'
<1>1. cur' = a /\ sched' = s
  BY DEF Save
<1>2. file' = [away |-> a, sched |-> s] \/ (DiskFails /\ file' = file)
  BY DEF Save
<1>3. AwayOK(cur)' /\ SchedOK(sched)'
  BY <1>1 DEF AwayOK, SchedOK, Shaped, PeriodOf
<1>4. AwayOK(file.away)' /\ SchedOK(file.sched)'
  <2>1. CASE file' = [away |-> a, sched |-> s]
    BY <2>1 DEF AwayOK, SchedOK, Shaped, PeriodOf
  <2>2. CASE file' = file
    BY <2>2 DEF RecordsOK, AwayOK, SchedOK, Shaped, PeriodOf
  <2> QED BY <1>2, <2>1, <2>2
<1>5. RecordsOK'
  BY <1>3, <1>4 DEF RecordsOK
<1>6. FileOK'
  BY <1>1, <1>2 DEF FileOK
<1> QED BY <1>5, <1>6

(* Without a write only a new period is noted. *)
LEMMA NoteKeeps ==
    ASSUME RecordsOK, FileOK, now' = now, real' = real,
           sched' = Turned, cur' = cur, file' = file
    PROVE  RecordsOK' /\ FileOK'
<1>1. SchedOK(Turned) /\ Turned.period = Current
  BY TurnedFits
<1>2. RecordsOK'
  BY <1>1 DEF RecordsOK, AwayOK, SchedOK, Shaped, PeriodOf
<1>3. ASSUME ~DiskFails PROVE file.away = cur /\ (file.sched = Turned \/ Behind')
  <2>1. file.away = cur /\ (file.sched = sched \/ Behind)
    BY <1>3 DEF FileOK
  <2>2. CASE sched.period = Current
    <3>1. Turned = sched
      BY <2>2, TurnedIs
    <3>2. Behind => Behind'
      BY <3>1 DEF Behind
    <3> QED BY <2>1, <3>1, <3>2
  <2>3. CASE sched.period # Current
    <3>1. /\ Turned.spent = 0 /\ Turned.done = FALSE /\ Turned.anchor = sched.anchor
          /\ sched.period < Current /\ Current \in Nat
      BY <2>3, TurnedIs
    <3>2. /\ file.sched.anchor = sched.anchor /\ file.sched.period <= sched.period
          /\ file.sched.period \in Nat /\ sched.period \in Nat
      <4>1. file.sched.period \in Nat /\ sched.period \in Nat
        BY DEF RecordsOK, SchedOK, Scheds
      <4> QED BY <2>1, <4>1 DEF Behind
    <3>3. Behind'
      BY <1>1, <3>1, <3>2 DEF Behind
    <3> QED BY <2>1, <3>3
  <2> QED BY <2>2, <2>3
<1>4. FileOK'
  BY <1>3 DEF FileOK
<1> QED BY <1>2, <1>4

(* Hunting has nowhere to go. *)
LEMMA NoHuntTarget ==
    huntTarget = NoPool <=> mark \notin ECash /\ ECash \cap pools = {}
<1>1. NoPool \notin ECash
  BY PoolAssumption
<1>2. ECash \cap pools # {} => (CHOOSE p \in ECash \cap pools : TRUE) \in ECash
  OBVIOUS
<1> QED BY <1>1, <1>2 DEF huntTarget

(* A choice by hand holds until a block is hard. *)
LEMMA HeldIs ==
    ASSUME HandOK
    PROVE  /\ Held \in BOOLEAN
           /\ hand = "hunt" /\ HuntNoted => Held = TRUE \/ huntTarget = NoPool
<1>1. Held \in BOOLEAN
  BY DEF HandOK, Held
<1>2. ASSUME hand = "hunt", hold = TRUE, huntTarget # NoPool PROVE Held = TRUE
  <2>1. Hunting
    BY <1>2 DEF HandOK, Hunting
  <2>2. HuntHard # "high"
    BY <1>2, <2>1 DEF HandOK, HuntHard
  <2> QED BY <1>2, <2>1, <2>2 DEF Held
<1> QED BY <1>1, <1>2 DEF HuntNoted

(* What a step leaves alone, whatever it decides. *)
StepLeaves ==
    /\ step = Idle /\ looked' = TRUE
    /\ UNCHANGED <<roles, modes, world, profit, hand, real, limits>>

(* Who was overridden stays so in a step that finds the farm where it was sent. *)
LEMMA HandAfter ==
    ASSUME RecordsOK, HandOK, ~Unnoticed, StepLeaves, hold' = Held,
           sched'.anchor = sched.anchor, sched'.period = Current,
           Turned.done = TRUE => sched'.done = TRUE
    PROVE  /\ hand = "timer" => TimerNoted' /\ Turned.done = TRUE
           /\ hand = "hunt" => HuntNoted' /\ (Held = TRUE \/ huntTarget = NoPool)
<1>1. now' = now /\ huntTarget' = huntTarget
  BY DEF StepLeaves, roles, modes, world, huntTarget
<1>2. ASSUME hand = "timer" PROVE TimerNoted' /\ Turned.done = TRUE
  <2>1. sched.period = Current /\ sched.done = TRUE
    BY <1>2 DEF HandOK, TimerNoted
  <2>2. Turned = sched
    BY <2>1, TurnedIs
  <2>3. Current' = Current
    BY <1>1 DEF Current
  <2> QED BY <2>1, <2>2, <2>3 DEF TimerNoted
<1>3. ASSUME hand = "hunt" PROVE HuntNoted' /\ (Held = TRUE \/ huntTarget = NoPool)
  <2>1. HuntNoted
    BY <1>3 DEF HandOK
  <2>2. Held = TRUE \/ huntTarget = NoPool
    BY <1>3, <2>1, HeldIs
  <2> QED BY <1>1, <2>2 DEF HuntNoted
<1> QED BY <1>2, <1>3

(* The parts of the invariant in a step that is not at the pools. *)
LEMMA StepFacts ==
    ASSUME IInv, StepLeaves
    PROVE  /\ RecordsOK /\ FarmOK /\ StepOK /\ FileOK /\ TripOK /\ TimeOK /\ HandOK
           /\ step = Idle /\ step.at = "idle" /\ looked' = TRUE
           /\ pools' = pools /\ active' = active /\ mark' = mark /\ timerOn' = timerOn
           /\ huntOn' = huntOn /\ hard' = hard /\ now' = now /\ hand' = hand /\ real' = real
           /\ now \in Nat /\ real \in Nat /\ Held \in BOOLEAN /\ FarmOK'
<1>1. RecordsOK /\ FarmOK /\ StepOK /\ FileOK /\ TripOK /\ TimeOK /\ HandOK
  BY DEF IInv
<1>2. /\ pools' = pools /\ active' = active /\ mark' = mark /\ timerOn' = timerOn
      /\ huntOn' = huntOn /\ hard' = hard /\ now' = now /\ hand' = hand /\ real' = real
  BY DEF StepLeaves, roles, modes, world
<1>3. FarmOK'
  BY <1>1, <1>2 DEF FarmOK
<1>4. now \in Nat /\ real \in Nat /\ Held \in BOOLEAN
  BY <1>1, HeldIs DEF RecordsOK
<1> QED BY <1>1, <1>2, <1>3, <1>4 DEF StepLeaves, Idle

(* Time left is time that is neither booked nor running. *)
LEMMA LeftIs ==
    ASSUME RecordsOK
    PROVE  left # 0 => Booked + Running < Duration
<1>1. Turned.period = Current /\ Turned.spent = Booked
  BY TurnedIs
<1>2. left = IF Booked + Running >= Duration THEN 0 ELSE Duration - (Booked + Running)
  BY <1>1 DEF left, Running
<1>3. Booked + Running \in Nat /\ Duration \in Nat
  BY Counts, TimeAssumption
<1> QED BY <1>2, <1>3

LEMMA RestsKeeps ==
    ASSUME IInv, StepLeaves, Rests
    PROVE  IInv'
<1>0. /\ RecordsOK /\ FarmOK /\ StepOK /\ FileOK /\ TripOK /\ TimeOK /\ HandOK
      /\ step = Idle /\ step.at = "idle" /\ looked' = TRUE /\ active' = active
      /\ huntOn' = huntOn /\ hard' = hard /\ now' = now /\ hand' = hand /\ real' = real
      /\ Held \in BOOLEAN /\ FarmOK'
  BY StepFacts
<1>1. /\ sched' = Turned /\ hold' = Held /\ step' = step
      /\ cur' = cur /\ file' = file /\ trip' = trip
  BY DEF Rests, Rest
<1>2. RecordsOK' /\ FileOK'
  BY <1>0, <1>1, NoteKeeps
<1>3. Turned.anchor = sched.anchor /\ Turned.period = Current /\ Turned.spent = Booked
  BY <1>0, TurnedIs
<1>4. Current' = Current
  BY <1>0, <1>1, <1>3 DEF Current
<1>5. Booked' = Booked /\ Running' = Running
  BY <1>0, <1>1, <1>3, <1>4 DEF Booked, Running
<1>6. StepOK'
  BY <1>0, <1>1 DEF StepOK, Idle
<1>7. TripOK'
  BY <1>0, <1>1 DEF TripOK
<1>8. TimeOK'
  <2>1. cur.reason = "timer" => cur.period = Current /\ Booked + Running < Duration
    BY <1>0, LeftIs DEF Rests
  <2>2. HasTime'
    BY <1>1, <1>4, <1>5, <2>1 DEF HasTime
  <2> QED BY <1>0, <1>1, <1>4, <1>5, <2>2 DEF TimeOK
<1>9. HandOK'
  <2>1. ~Unnoticed
    BY DEF Rests, Unnoticed
  <2>2. (hand = "timer" => TimerNoted') /\ (hand = "hunt" => HuntNoted')
    BY <1>0, <1>1, <1>3, <2>1, HandAfter
  <2> QED BY <1>0, <1>1, <2>2 DEF HandOK
<1> QED BY <1>0, <1>2, <1>6, <1>7, <1>8, <1>9 DEF IInv

LEMMA FinishesKeeps ==
    ASSUME IInv, StepLeaves, Finishes
    PROVE  IInv'
<1>0. /\ RecordsOK /\ FarmOK /\ StepOK /\ FileOK /\ TripOK /\ TimeOK /\ HandOK
      /\ step = Idle /\ step.at = "idle" /\ looked' = TRUE /\ active' = active
      /\ huntOn' = huntOn /\ hard' = hard /\ now' = now /\ hand' = hand /\ real' = real
      /\ real \in Nat /\ Held \in BOOLEAN /\ FarmOK'
  BY StepFacts
<1> DEFINE s == [Turned EXCEPT !.done = TRUE]
<1>1. /\ Save(NoAway, s) /\ cur' = NoAway /\ sched' = s /\ cur = NoAway
      /\ hold' = Held /\ step' = step /\ trip' = trip
  BY DEF Finishes, Keep, Save
<1>2. /\ s \in Scheds /\ s.done = TRUE /\ s.spent = Booked /\ s.anchor = sched.anchor /\ s.period = Current
      /\ SchedOK(s)
  <2>1. /\ Turned \in Scheds /\ Turned.anchor = sched.anchor /\ Turned.period = Current
        /\ Turned.spent = Booked /\ SchedOK(Turned)
    BY <1>0, TurnedIs, TurnedFits
  <2>2. /\ s \in Scheds /\ s.done = TRUE /\ s.spent = Turned.spent /\ s.anchor = Turned.anchor
        /\ s.period = Turned.period
    BY <2>1, SetDone
  <2> QED BY <2>1, <2>2 DEF SchedOK
<1> HIDE DEF s
<1>3. RecordsOK' /\ FileOK'
  <2>1. AwayOK(NoAway)
    BY DEF AwayOK
  <2> QED BY <1>0, <1>1, <1>2, <2>1, SaveKeeps
<1>4. Current' = Current
  BY <1>0, <1>1, <1>2 DEF Current
<1>5. Booked' = Booked /\ Running' = Running
  BY <1>0, <1>1, <1>2, <1>4 DEF Booked, Running, NoAway
<1>6. StepOK'
  BY <1>0, <1>1 DEF StepOK, Idle
<1>7. TripOK'
  <2>1. file' = [away |-> NoAway, sched |-> s] \/ file' = file
    BY <1>1 DEF Save
  <2>2. ~(trip.on = TRUE /\ step.at # "down" /\ (DiskFails => trip.cut = FALSE))
    BY <1>0, <1>1 DEF TripOK
  <2> QED BY <1>0, <1>1, <2>1, <2>2 DEF TripOK
<1>8. TimeOK'
  <2>1. cur'.reason # "timer"
    BY <1>1 DEF NoAway
  <2>2. HasTime'
    BY <2>1 DEF HasTime
  <2> QED BY <1>0, <1>1, <1>4, <1>5, <2>1, <2>2 DEF TimeOK
<1>9. HandOK'
  <2>1. ~Unnoticed
    BY <1>1 DEF Unnoticed
  <2>2. (hand = "timer" => TimerNoted') /\ (hand = "hunt" => HuntNoted')
    BY <1>0, <1>1, <1>2, <2>1, HandAfter
  <2> QED BY <1>0, <1>1, <2>2 DEF HandOK
<1> QED BY <1>0, <1>3, <1>6, <1>7, <1>8, <1>9 DEF IInv

LEMMA RenewsKeeps ==
    ASSUME IInv, StepLeaves, Renews
    PROVE  IInv'
<1>0. /\ RecordsOK /\ FarmOK /\ StepOK /\ FileOK /\ TripOK /\ TimeOK /\ HandOK
      /\ step = Idle /\ step.at = "idle" /\ looked' = TRUE /\ active' = active
      /\ huntOn' = huntOn /\ hard' = hard /\ now' = now /\ hand' = hand /\ real' = real
      /\ now \in Nat /\ real \in Nat /\ Held \in BOOLEAN /\ FarmOK'
  BY StepFacts
<1> DEFINE b == [cur EXCEPT !.period = Turned.period, !.since = now]
<1>1. /\ Save(b, Turned) /\ cur' = b /\ sched' = Turned
      /\ hold' = Held /\ step' = step /\ trip' = trip
      /\ cur.reason = "timer" /\ cur.period # Current /\ active = cur.target
  BY DEF Renews, Keep, Save
<1>2. /\ Turned.anchor = sched.anchor /\ Turned.period = Current /\ Turned.spent = Booked
      /\ SchedOK(Turned) /\ Current \in Nat
  BY <1>0, TurnedIs, TurnedFits
<1>3. cur # NoAway
  BY <1>1 DEF NoAway
<1>4. /\ AwayOK(b) /\ b # NoAway /\ b.reason = "timer" /\ b.period = Current /\ b.since = now
      /\ b.target = cur.target
  BY <1>0, <1>1, <1>2, <1>3, SinceNow DEF RecordsOK
<1> HIDE DEF b
<1>5. RecordsOK' /\ FileOK'
  BY <1>0, <1>1, <1>2, <1>4, SaveKeeps
<1>6. Current' = Current
  BY <1>0, <1>1, <1>2 DEF Current
<1>7. Booked' = Booked /\ Running' = 0
  BY <1>0, <1>1, <1>2, <1>4, <1>6 DEF Booked, Running
<1>8. StepOK'
  BY <1>0, <1>1 DEF StepOK, Idle
<1>9. TripOK'
  <2>1. file' = [away |-> b, sched |-> Turned] \/ file' = file
    BY <1>1 DEF Save
  <2> QED BY <1>0, <1>1, <1>4, <2>1 DEF TripOK
<1>10. TimeOK'
  <2>1. ASSUME ~DiskFails PROVE Booked = 0 /\ real <= 0
    <3>1. Booked = 0 /\ real <= Booked + Running
      BY <1>0, <1>1, <2>1 DEF TimeOK
    <3>2. Running = 0
      BY <1>1 DEF Running
    <3> QED BY <3>1, <3>2
  <2>2. Duration \in Nat \ {0}
    BY TimeAssumption
  <2>3. ~DiskFails => HasTime'
    BY <1>1, <1>4, <1>6, <1>7, <2>1, <2>2 DEF HasTime
  <2> QED BY <1>0, <1>1, <1>4, <1>6, <1>7, <2>1, <2>2, <2>3 DEF TimeOK
<1>11. HandOK'
  <2>1. ~Unnoticed
    BY <1>1 DEF Unnoticed
  <2>2. (hand = "timer" => TimerNoted') /\ (hand = "hunt" => HuntNoted')
    BY <1>0, <1>1, <1>2, <2>1, HandAfter
  <2> QED BY <1>0, <1>1, <2>2 DEF HandOK
<1> QED BY <1>0, <1>5, <1>8, <1>9, <1>10, <1>11 DEF IInv

(* A switch is only decided on with time left, and not by who was overridden. *)
LEMMA LeavesKeeps ==
    ASSUME IInv, StepLeaves, NEW reason \in {"timer", "hunt"}, NEW target, Leaves(reason, target)
    PROVE  IInv'
<1>0. /\ RecordsOK /\ FarmOK /\ StepOK /\ FileOK /\ TripOK /\ TimeOK /\ HandOK
      /\ step = Idle /\ step.at = "idle" /\ looked' = TRUE /\ active' = active
      /\ huntOn' = huntOn /\ hard' = hard /\ now' = now /\ hand' = hand /\ real' = real
      /\ now \in Nat /\ real \in Nat /\ Held \in BOOLEAN /\ FarmOK'
  BY StepFacts
<1> DEFINE a == [reason |-> reason, period |-> Turned.period, since |-> now, target |-> target,
                 home |-> active, fallback |-> fallback, set |-> <<>>]
<1>1. /\ Save(a, Turned) /\ cur' = a /\ sched' = Turned
      /\ hold' = Held /\ step' = [at |-> "check", a |-> a]
      /\ trip' = [on |-> FALSE, from |-> active, fallback |-> fallback,
                  touched |-> FALSE, cut |-> FALSE, late |-> FALSE]
      /\ cur = NoAway
  BY DEF Leaves, Leave, Save
<1>2. /\ Turned.anchor = sched.anchor /\ Turned.period = Current /\ Turned.spent = Booked
      /\ SchedOK(Turned) /\ Current \in Nat
  BY <1>0, TurnedIs, TurnedFits
<1>3. /\ a.reason = reason /\ a.period = Current /\ a.since = now /\ a.target = target
      /\ a.home = active /\ a.fallback = fallback /\ a.set = <<>>
  BY <1>2
<1>4. a = [reason |-> a.reason, period |-> a.period, since |-> a.since, target |-> a.target,
           home |-> a.home, fallback |-> a.fallback, set |-> a.set]
  OBVIOUS
<1> HIDE DEF a
<1>5. AwayOK(a) /\ a # NoAway
  <2>1. a # NoAway
    BY <1>3 DEF NoAway
  <2>2. Shaped(a)
    BY <1>4 DEF Shaped
  <2> QED BY <1>0, <1>2, <1>3, <2>1, <2>2 DEF AwayOK
<1>6. RecordsOK' /\ FileOK'
  BY <1>0, <1>1, <1>2, <1>5, SaveKeeps
<1>7. Current' = Current
  BY <1>0, <1>1, <1>2 DEF Current
<1>8. Booked' = Booked /\ Running' = 0 /\ Running = 0
  BY <1>0, <1>1, <1>2, <1>3, <1>7 DEF Booked, Running, NoAway
<1>9. step'.at = "check" /\ step'.a = a /\ trip'.on = FALSE
  BY <1>1
<1>10. StepOK'
  BY <1>0, <1>1, <1>5, <1>9 DEF StepOK
<1>11. TripOK'
  <2>1. TripShaped(trip')
    BY <1>1 DEF TripShaped
  <2> QED BY <1>9, <2>1 DEF TripOK
<1>12. TimeOK'
  <2>1. ~DiskFails => real <= Booked /\ real <= Duration
    BY <1>0, <1>8, Counts DEF TimeOK
  <2>2. reason = "timer" => Booked < Duration
    <3> HAVE reason = "timer"
    <3>1. left >= minStint
      BY DEF Leaves, Due
    <3>2. left # 0
      BY <1>0, <3>1, TimeAssumption
    <3> QED BY <1>0, <1>8, <3>2, LeftIs, Counts
  <2>3. Booked \in Nat
    BY <1>0, Counts
  <2>4. HasTime'
    BY <1>1, <1>3, <1>7, <1>8, <2>2, <2>3 DEF HasTime
  <2> QED BY <1>0, <1>1, <1>3, <1>7, <1>8, <1>9, <2>1, <2>4 DEF TimeOK
<1>13. HandOK'
  <2>1. ~Unnoticed
    BY <1>1 DEF Unnoticed
  <2>2. /\ hand = "timer" => TimerNoted' /\ Turned.done = TRUE
        /\ hand = "hunt" => HuntNoted' /\ (Held = TRUE \/ huntTarget = NoPool)
    BY <1>0, <1>1, <1>2, <2>1, HandAfter
  <2>3. reason # hand
    <3>1. reason = "timer" => Turned.done # TRUE
      BY DEF Leaves, Due
    <3>2. reason = "hunt" => Held # TRUE /\ huntTarget # NoPool
      BY DEF Leaves, wants, Hunting
    <3> QED BY <2>2, <3>1, <3>2
  <2> QED BY <1>0, <1>1, <1>3, <1>9, <2>2, <2>3 DEF HandOK
<1> QED BY <1>0, <1>6, <1>10, <1>11, <1>12, <1>13 DEF IInv

(* A stint that ends hands its time over to the schedule. *)
LEMMA EndedCounts ==
    ASSUME RecordsOK, NEW final \in BOOLEAN,
           now' = now, sched' = Ended(cur, Turned, final)
    PROVE  /\ SchedOK(Ended(cur, Turned, final)) /\ Current' = Current
           /\ sched'.anchor = sched.anchor /\ sched'.period = Current /\ Booked' = Booked + Running
           /\ Turned.done = TRUE => sched'.done = TRUE
           /\ cur.reason = "timer" /\ cur.period = Current /\ final = TRUE => sched'.done = TRUE
<1> DEFINE e == Ended(cur, Turned, final)
           ends == cur.reason = "timer" /\ cur.period = Turned.period
<1>1. /\ Turned \in Scheds /\ Turned.anchor = sched.anchor /\ Turned.period = Current
      /\ Turned.spent = Booked /\ Booked \in Nat /\ SchedOK(Turned)
  BY TurnedIs, TurnedFits
<1>2. AwayOK(cur) /\ now \in Nat
  BY DEF RecordsOK
<1>a. e \in Scheds /\ e.anchor = Turned.anchor /\ e.period = Turned.period
  BY <1>1, <1>2, EndedIs
<1>b. e.spent = IF ends THEN Turned.spent + (now - cur.since) ELSE Turned.spent
  BY <1>1, <1>2, EndedSpends
<1>c. (Turned.done = TRUE => e.done = TRUE) /\ (ends /\ final = TRUE => e.done = TRUE)
  BY <1>1, <1>2, EndedEnds
<1> HIDE DEF e
<1>4. SchedOK(e)
  BY <1>1, <1>a DEF SchedOK
<1>5. sched' = e
  BY DEF e
<1>6. Current' = Current
  BY <1>1, <1>5, <1>a DEF Current
<1>7. e.spent = Booked + Running
  BY <1>1, <1>b DEF Running
<1>8. Booked' = Booked + Running
  BY <1>1, <1>5, <1>6, <1>7, <1>a DEF Booked
<1> QED BY <1>1, <1>4, <1>5, <1>6, <1>8, <1>a, <1>c DEF e

LEMMA HandsOverKeeps ==
    ASSUME IInv, StepLeaves, NEW reason \in {"timer", "hunt"}, HandsOver(reason)
    PROVE  IInv'
<1>0. /\ RecordsOK /\ FarmOK /\ StepOK /\ FileOK /\ TripOK /\ TimeOK /\ HandOK
      /\ step = Idle /\ step.at = "idle" /\ looked' = TRUE /\ active' = active
      /\ huntOn' = huntOn /\ hard' = hard /\ now' = now /\ hand' = hand /\ real' = real
      /\ now \in Nat /\ real \in Nat /\ Held \in BOOLEAN /\ FarmOK'
  BY StepFacts
<1> DEFINE b == [cur EXCEPT !.reason = reason, !.period = Turned.period, !.since = now]
           e == Ended(cur, Turned, TRUE)
<1>1. /\ Save(b, e) /\ cur' = b /\ sched' = e
      /\ hold' = Held /\ step' = step /\ trip' = trip
      /\ cur # NoAway /\ cur.reason # reason /\ active = cur.target
  BY DEF HandsOver, HandOver, Keep, Save
<1>2. Turned.period = Current /\ Current \in Nat
  BY <1>0, TurnedIs
<1>3. /\ AwayOK(b) /\ b # NoAway /\ b.reason = reason /\ b.period = Current /\ b.since = now
      /\ b.target = cur.target
  <2>1. AwayOK(cur) /\ Turned.period \in Nat
    BY <1>0, <1>2 DEF RecordsOK
  <2>2. AwayOK(b) /\ b # NoAway
    BY <1>0, <1>1, <2>1, NewReason
  <2>3. b = [reason |-> reason, period |-> Turned.period, since |-> now, target |-> cur.target,
             home |-> cur.home, fallback |-> cur.fallback, set |-> cur.set]
    BY <1>0, <1>1, <2>1, NewReasonIs
  <2> HIDE DEF b
  <2> QED BY <1>2, <2>2, <2>3
<1>4. /\ SchedOK(e) /\ Current' = Current
      /\ e.anchor = sched.anchor /\ e.period = Current /\ Booked' = Booked + Running
      /\ Turned.done = TRUE => e.done = TRUE
  BY <1>0, <1>1, EndedCounts
<1> HIDE DEF b, e
<1>5. RecordsOK' /\ FileOK'
  BY <1>0, <1>1, <1>3, <1>4, SaveKeeps
<1>6. Running' = 0 /\ Booked \in Nat /\ Running \in Nat
  BY <1>0, <1>1, <1>3, <1>4, Counts DEF Running
<1>7. StepOK'
  BY <1>0, <1>1 DEF StepOK, Idle
<1>8. TripOK'
  <2>1. file' = [away |-> b, sched |-> e] \/ file' = file
    BY <1>1 DEF Save
  <2> QED BY <1>0, <1>1, <1>3, <2>1 DEF TripOK
<1>9. TimeOK'
  <2>1. reason = "timer" => Booked + Running < Duration
    <3> HAVE reason = "timer"
    <3>1. left >= minStint
      BY DEF HandsOver, Due
    <3>2. left # 0
      BY <1>0, <3>1, TimeAssumption
    <3> QED BY <1>0, <3>2, LeftIs
  <2>2. HasTime'
    BY <1>1, <1>3, <1>4, <1>6, <2>1 DEF HasTime
  <2>3. ~DiskFails => real <= Booked + Running /\ real <= Duration
    BY <1>0 DEF TimeOK
  <2> QED BY <1>0, <1>1, <1>3, <1>4, <1>6, <2>2, <2>3 DEF TimeOK
<1>10. HandOK'
  <2>1. ~Unnoticed
    BY <1>1 DEF Unnoticed
  <2>2. (hand = "timer" => TimerNoted') /\ (hand = "hunt" => HuntNoted')
    BY <1>0, <1>1, <1>4, <2>1, HandAfter
  <2> QED BY <1>0, <1>1, <2>2 DEF HandOK
<1> QED BY <1>0, <1>5, <1>7, <1>8, <1>9, <1>10 DEF IInv

(* Without a switch to undo any more, whoever moved the farm is noted. *)
LEMMA EndsKeeps ==
    ASSUME IInv, StepLeaves, cur # NoAway,
           Save(NoAway, Ended(cur, Turned, TRUE)), hold' = (Held \/ active # cur.target),
           trip' = [trip EXCEPT !.on = FALSE], step' = step
    PROVE  IInv'
<1>0. /\ RecordsOK /\ FarmOK /\ StepOK /\ FileOK /\ TripOK /\ TimeOK /\ HandOK
      /\ step = Idle /\ step.at = "idle" /\ looked' = TRUE /\ active' = active
      /\ huntOn' = huntOn /\ hard' = hard /\ now' = now /\ hand' = hand /\ real' = real
      /\ now \in Nat /\ real \in Nat /\ Held \in BOOLEAN /\ FarmOK'
  BY StepFacts
<1> DEFINE e == Ended(cur, Turned, TRUE)
<1>1. Save(NoAway, e) /\ cur' = NoAway /\ sched' = e
  BY DEF Save
<1>2. SchedOK(e) /\ Current' = Current
  BY <1>0, <1>1, EndedCounts
<1>3. e.anchor = sched.anchor /\ e.period = Current /\ Booked' = Booked + Running
  BY <1>0, <1>1, EndedCounts
<1>4. /\ Turned.done = TRUE => e.done = TRUE
      /\ cur.reason = "timer" /\ cur.period = Current => e.done = TRUE
  BY <1>0, <1>1, EndedCounts
<1> HIDE DEF e
<1>5. RecordsOK' /\ FileOK'
  <2>1. AwayOK(NoAway)
    BY DEF AwayOK
  <2> QED BY <1>0, <1>1, <1>2, <2>1, SaveKeeps
<1>6. cur'.reason # "timer" /\ Running' = 0
  BY <1>1 DEF Running, NoAway
<1>7. StepOK'
  BY <1>0 DEF StepOK, Idle
<1>8. TripOK'
  <2>1. TripShaped(trip)
    BY <1>0 DEF TripOK
  <2>2. TripShaped([trip EXCEPT !.on = FALSE]) /\ [trip EXCEPT !.on = FALSE].on = FALSE
    BY <2>1, SetOn
  <2>3. TripShaped(trip') /\ trip'.on = FALSE
    BY <2>2
  <2> QED BY <2>3 DEF TripOK
<1>9. TimeOK'
  <2>1. HasTime'
    BY <1>6 DEF HasTime
  <2>2. ~DiskFails => real <= Booked + Running /\ real <= Duration
    BY <1>0 DEF TimeOK
  <2>3. Booked \in Nat /\ Running \in Nat
    BY <1>0, Counts
  <2> QED BY <1>0, <1>3, <1>6, <2>1, <2>2, <2>3 DEF TimeOK
<1>10. HandOK'
  <2>1. hold' \in BOOLEAN
    BY <1>0
  <2>2. hand = "timer" => TimerNoted'
    <3> HAVE hand = "timer"
    <3>1. CASE TimerNoted
      <4>1. Turned.done = TRUE
        BY <1>0, <3>1, TurnedIs DEF TimerNoted
      <4> QED BY <1>1, <1>2, <1>3, <1>4, <4>1 DEF TimerNoted
    <3>2. CASE ~TimerNoted
      <4>1. cur.reason = "timer" /\ cur.period = Current
        BY <1>0, <3>2 DEF HandOK
      <4> QED BY <1>1, <1>2, <1>3, <1>4, <4>1 DEF TimerNoted
    <3> QED BY <3>1, <3>2
  <2>3. hand = "hunt" => HuntNoted'
    <3> HAVE hand = "hunt"
    <3>1. huntTarget' = huntTarget
      BY <1>0, StepFacts DEF huntTarget
    <3>2. CASE HuntNoted
      BY <1>0, <3>1, <3>2, HeldIs DEF HuntNoted
    <3>3. CASE Unnoticed
      BY <1>0, <3>3 DEF HuntNoted, Unnoticed
    <3> QED BY <1>0, <3>2, <3>3 DEF HandOK
  <2> QED BY <1>0, <2>1, <2>2, <2>3 DEF HandOK
<1> QED BY <1>0, <1>5, <1>7, <1>8, <1>9, <1>10 DEF IInv

(* A switch back that begins is still to be undone. *)
LEMMA ReturnsKeeps ==
    ASSUME IInv, StepLeaves, cur # NoAway, active = cur.target, NEW final \in BOOLEAN, NEW order,
           sched' = Turned, hold' = Held, step' = [at |-> "return", a |-> cur, final |-> final, order |-> order],
           UNCHANGED <<cur, retry, file, trip>>
    PROVE  IInv'
<1>0. /\ RecordsOK /\ FarmOK /\ StepOK /\ FileOK /\ TripOK /\ TimeOK /\ HandOK
      /\ step = Idle /\ step.at = "idle" /\ looked' = TRUE /\ active' = active
      /\ huntOn' = huntOn /\ hard' = hard /\ now' = now /\ hand' = hand /\ real' = real
      /\ Held \in BOOLEAN /\ FarmOK'
  BY StepFacts
<1>1. cur' = cur /\ file' = file /\ trip' = trip
  OBVIOUS
<1>2. RecordsOK' /\ FileOK'
  BY <1>0, <1>1, NoteKeeps
<1>3. Turned.anchor = sched.anchor /\ Turned.period = Current /\ Turned.spent = Booked
  BY <1>0, TurnedIs
<1>4. Current' = Current
  BY <1>0, <1>3 DEF Current
<1>5. Booked' = Booked /\ Running' = Running
  BY <1>0, <1>1, <1>3, <1>4 DEF Booked, Running
<1>6. step'.at = "return" /\ step'.a = cur /\ step'.final = final /\ step'.order = order
  OBVIOUS
<1>7. StepOK'
  BY <1>0, <1>1, <1>3, <1>4, <1>6 DEF StepOK
<1>8. TripOK'
  BY <1>0, <1>1, <1>6 DEF TripOK
<1>9. TimeOK'
  <2>1. HasTime'
    BY <1>6 DEF HasTime, Idle
  <2> QED BY <1>0, <1>1, <1>4, <1>5, <1>6, <2>1 DEF TimeOK
<1>10. HandOK'
  <2>1. ~Unnoticed
    BY DEF Unnoticed
  <2>2. (hand = "timer" => TimerNoted') /\ (hand = "hunt" => HuntNoted')
    BY <1>0, <1>3, <2>1, HandAfter
  <2> QED BY <1>0, <1>1, <1>6, <2>2 DEF HandOK
<1> QED BY <1>0, <1>2, <1>7, <1>8, <1>9, <1>10 DEF IInv

LEMMA StepKeeps ==
    ASSUME IInv, Step
    PROVE  IInv'
<1>1. StepLeaves /\ Decides
  BY StepIs DEF IInv, StepLeaves
<1>2. ASSUME NEW final \in BOOLEAN, GoesBack(final) PROVE IInv'
  <2>1. CASE active # cur.target \/ cur.home \notin pools
    BY <1>1, <1>2, <2>1, EndsKeeps DEF GoesBack, Back
  <2>2. CASE ~(active # cur.target \/ cur.home \notin pools)
    <3> DEFINE order == IF fallback = cur.set THEN cur.fallback ELSE fallback
    <3>1. /\ sched' = Turned /\ hold' = Held
          /\ step' = [at |-> "return", a |-> cur, final |-> final, order |-> order]
          /\ UNCHANGED <<cur, retry, file, trip>>
      BY <1>2, <2>2 DEF GoesBack, Back
    <3>2. cur # NoAway /\ active = cur.target
      BY <1>2, <2>2 DEF GoesBack
    <3> HIDE DEF order
    <3> QED BY <1>1, <1>2, <3>1, <3>2, ReturnsKeeps
  <2> QED BY <2>1, <2>2
<1>3. ASSUME Leaves("timer", mark) PROVE IInv'
  BY <1>1, <1>3, LeavesKeeps
<1>4. ASSUME Leaves("hunt", huntTarget) PROVE IInv'
  BY <1>1, <1>4, LeavesKeeps
<1>5. ASSUME HandsOver("timer") \/ HandsOver("hunt") PROVE IInv'
  BY <1>1, <1>5, HandsOverKeeps
<1> QED BY <1>1, <1>2, <1>3, <1>4, <1>5, RestsKeeps, FinishesKeeps, RenewsKeeps DEF Decides

-----------------------------------------------------------------------------
(* What is done with the pools. *)

LEMMA Parts ==
    ASSUME IInv
    PROVE  /\ RecordsOK /\ FarmOK /\ StepOK /\ FileOK /\ TripOK /\ TimeOK /\ HandOK
           /\ now \in Nat /\ real \in Nat /\ Booked \in Nat /\ Running \in Nat /\ Current \in Nat
           /\ sched \in Scheds
  BY Counts, TurnedIs DEF IInv, RecordsOK, SchedOK

(* The schedule, the switch to undo and the clock stay. *)
SameTime == UNCHANGED <<now, cur, sched>>

LEMMA SameIs ==
    ASSUME SameTime
    PROVE  /\ now' = now /\ cur' = cur /\ sched' = sched
           /\ Current' = Current /\ Booked' = Booked /\ Running' = Running
<1>1. now' = now /\ cur' = cur /\ sched' = sched
  BY DEF SameTime
<1>2. Current' = Current
  BY <1>1 DEF Current
<1> QED BY <1>1, <1>2 DEF Booked, Running

LEMMA SameKeeps ==
    ASSUME IInv, SameTime, file' = file, real' = real
    PROVE  RecordsOK' /\ FileOK'
<1>1. now' = now /\ cur' = cur /\ sched' = sched
  BY SameIs
<1>2. RecordsOK'
  BY <1>1 DEF IInv, RecordsOK, AwayOK, SchedOK, Shaped, PeriodOf
<1>3. FileOK'
  BY <1>1 DEF IInv, FileOK, Behind
<1> QED BY <1>2, <1>3

LEMMA LeaveCommitKeeps ==
    ASSUME IInv, LeaveCommit
    PROVE  IInv' /\ step.a.reason # hand
<1>0. /\ RecordsOK /\ FarmOK /\ StepOK /\ FileOK /\ TripOK /\ TimeOK /\ HandOK
      /\ real \in Nat /\ Booked \in Nat /\ Running \in Nat
  BY Parts
<1>1. /\ step.at = "check" /\ active' = step.a.target /\ pools' = pools
      /\ trip' = [trip EXCEPT !.on = TRUE, !.from = active, !.cut = TRUE]
      /\ step' = [at |-> "switched", a |-> step.a]
  BY DEF LeaveCommit, Activated
<1>2. /\ file' = file /\ real' = real /\ hold' = hold /\ hand' = hand /\ looked' = looked
      /\ mark' = mark /\ huntOn' = huntOn /\ hard' = hard /\ SameTime
  BY DEF LeaveCommit, modes, world, memory, SameTime
<1>3. now' = now /\ cur' = cur /\ sched' = sched /\ Current' = Current /\ Booked' = Booked /\ Running' = Running
  BY <1>2, SameIs
<1>4. RecordsOK' /\ FileOK'
  BY <1>2, SameKeeps
<1>5. step.a = cur /\ cur # NoAway /\ trip.on = FALSE /\ step # Idle
  BY <1>0, <1>1 DEF StepOK, Idle
<1>6. step'.at = "switched" /\ step'.a = cur
  BY <1>1, <1>5
<1>7. FarmOK' /\ StepOK'
  <2>1. FarmOK'
    BY <1>0, <1>1, <1>2 DEF FarmOK
  <2>2. StepOK'
    BY <1>0, <1>2, <1>3, <1>5, <1>6 DEF StepOK
  <2> QED BY <2>1, <2>2
<1>8. TripOK'
  <2> DEFINE t1 == [trip EXCEPT !.on = TRUE]
             t2 == [t1 EXCEPT !.from = active]
             t3 == [t2 EXCEPT !.cut = TRUE]
  <2>1. trip' = t3
    BY <1>1
  <2>2. TripShaped(t1)
    BY <1>0, SetOn DEF TripOK
  <2> HIDE DEF t1
  <2>3. TripShaped(t2)
    BY <2>2, SetFrom
  <2> HIDE DEF t2
  <2>4. TripShaped(t3) /\ t3.cut = TRUE
    BY <2>3, SetCut
  <2> HIDE DEF t3
  <2>5. TripShaped(trip') /\ trip'.cut = TRUE
    BY <2>1, <2>4
  <2>6. active' = cur.target
    BY <1>1, <1>5
  <2>7. ~DiskFails => file'.away = cur
    BY <1>0, <1>2 DEF FileOK
  <2> QED BY <1>3, <1>5, <2>5, <2>6, <2>7 DEF TripOK
<1>9. TimeOK'
  <2>1. ASSUME ~DiskFails PROVE real <= Booked /\ real <= Duration /\ HasTime
    BY <1>0, <1>1, <2>1 DEF TimeOK
  <2>2. ASSUME HasTime PROVE HasTime'
    BY <1>1, <1>2, <1>3, <1>6, <2>2 DEF HasTime
  <2>3. ~DiskFails /\ cur.reason = "timer" /\ cur.period # Current => Booked = 0
    BY <1>0 DEF TimeOK
  <2> QED BY <1>0, <1>2, <1>3, <1>6, <2>1, <2>2, <2>3 DEF TimeOK
<1>10. HandOK' /\ step.a.reason # hand
  <2>1. hand = "timer" => TimerNoted
    BY <1>0, <1>1, <1>5 DEF HandOK
  <2>2. hand = "hunt" => HuntNoted /\ huntOn /\ hard # "high"
    BY <1>0, <1>1, <1>5 DEF HandOK
  <2>3. TimerNoted' = TimerNoted
    BY <1>3 DEF TimerNoted
  <2>4. huntTarget' = huntTarget
    BY <1>1, <1>2 DEF huntTarget
  <2>5. HuntNoted => HuntNoted'
    BY <1>2, <2>4 DEF HuntNoted
  <2>6. hand = "timer" => TimerNoted'
    BY <2>1, <2>3
  <2>7. HandOK'
    BY <1>0, <1>2, <1>6, <2>2, <2>5, <2>6 DEF HandOK
  <2>8. step.a.reason # hand
    BY <1>0, <1>1, <1>5 DEF HandOK
  <2> QED BY <2>7, <2>8
<1> QED BY <1>4, <1>7, <1>8, <1>9, <1>10 DEF IInv

LEMMA LeaveFailsKeeps ==
    ASSUME IInv, LeaveFails
    PROVE  IInv'
<1>0. /\ RecordsOK /\ FarmOK /\ StepOK /\ FileOK /\ TripOK /\ TimeOK /\ HandOK
      /\ now \in Nat /\ real \in Nat /\ Booked \in Nat /\ sched \in Scheds
  BY Parts
<1> DEFINE s == IF step.a.reason = "timer" THEN [sched EXCEPT !.done = TRUE] ELSE sched
<1>1. /\ step.at = "check" /\ Save(NoAway, s) /\ cur' = NoAway /\ sched' = s /\ step' = Idle
  BY DEF LeaveFails, Save
<1>2. /\ pools' = pools /\ active' = active /\ mark' = mark /\ huntOn' = huntOn /\ hard' = hard
      /\ now' = now /\ hold' = hold /\ trip' = trip /\ hand' = hand /\ real' = real /\ looked' = looked
  BY DEF LeaveFails, roles, modes, world
<1>3. /\ s.anchor = sched.anchor /\ s.period = sched.period /\ s.spent = sched.spent
      /\ sched.done = TRUE => s.done = TRUE
      /\ s \in Scheds
  BY <1>0, SetDone
<1> HIDE DEF s
<1>4. Current' = Current
  BY <1>1, <1>2, <1>3 DEF Current
<1>5. SchedOK(s)
  BY <1>0, <1>3 DEF RecordsOK, SchedOK
<1>6. RecordsOK' /\ FileOK'
  <2>1. AwayOK(NoAway)
    BY DEF AwayOK
  <2> QED BY <1>0, <1>1, <1>2, <1>5, <2>1, SaveKeeps
<1>7. Booked' = Booked /\ Running' = 0 /\ cur'.reason # "timer"
  BY <1>1, <1>3, <1>4 DEF Booked, Running, NoAway
<1>8. step'.at = "idle"
  BY <1>1 DEF Idle
<1>9. FarmOK' /\ StepOK'
  BY <1>0, <1>1, <1>2, <1>8 DEF FarmOK, StepOK
<1>10. TripOK'
  BY <1>0, <1>1, <1>2 DEF TripOK, StepOK
<1>11. TimeOK'
  <2>1. HasTime'
    BY <1>7 DEF HasTime
  <2>2. ~DiskFails => real <= Booked /\ real <= Duration
    BY <1>0, <1>1 DEF TimeOK
  <2> QED BY <1>0, <1>2, <1>7, <1>8, <2>1, <2>2 DEF TimeOK
<1>12. HandOK'
  <2>0. step # Idle
    BY <1>1 DEF Idle
  <2>1. hand = "timer" => TimerNoted
    BY <1>0, <1>1, <2>0 DEF HandOK
  <2>2. hand = "hunt" => HuntNoted /\ huntOn /\ hard # "high"
    BY <1>0, <1>1, <2>0 DEF HandOK
  <2>3. TimerNoted => TimerNoted'
    BY <1>1, <1>3, <1>4 DEF TimerNoted
  <2>4. huntTarget' = huntTarget
    BY <1>2 DEF huntTarget
  <2>5. HuntNoted => HuntNoted'
    BY <1>2, <2>4 DEF HuntNoted
  <2> QED BY <1>0, <1>2, <1>8, <2>1, <2>2, <2>3, <2>5 DEF HandOK
<1> QED BY <1>6, <1>9, <1>10, <1>11, <1>12 DEF IInv

LEMMA LeaveSaveKeeps ==
    ASSUME IInv, LeaveSave
    PROVE  IInv'
<1>0. /\ RecordsOK /\ FarmOK /\ StepOK /\ FileOK /\ TripOK /\ TimeOK /\ HandOK
      /\ now \in Nat /\ real \in Nat /\ Booked \in Nat /\ Running \in Nat
  BY Parts
<1> DEFINE b == [step.a EXCEPT !.set = fallback]
<1>1. /\ step.at = "switched" /\ Save(b, sched) /\ cur' = b /\ sched' = sched /\ step' = Idle
      /\ trip' = [trip EXCEPT !.cut = file'.away # cur']
  BY DEF LeaveSave, Save
<1>2. /\ pools' = pools /\ active' = active /\ mark' = mark /\ huntOn' = huntOn /\ hard' = hard
      /\ now' = now /\ hold' = hold /\ hand' = hand /\ real' = real /\ looked' = looked
  BY DEF LeaveSave, roles, modes, world
<1>3. step.a = cur /\ cur # NoAway /\ step # Idle
  BY <1>0, <1>1 DEF StepOK, Idle
<1>4. AwayOK(cur) /\ SchedOK(sched)
  BY <1>0 DEF RecordsOK
<1>5. /\ AwayOK(b) /\ b # NoAway /\ b.reason = cur.reason /\ b.period = cur.period
      /\ b.since = cur.since /\ b.target = cur.target
  BY <1>3, <1>4, NewOrder
<1> HIDE DEF b
<1>6. RecordsOK' /\ FileOK'
  BY <1>0, <1>1, <1>2, <1>4, <1>5, SaveKeeps
<1>7. Current' = Current /\ Booked' = Booked /\ Running' = Running
  <2>1. Current' = Current
    BY <1>1, <1>2 DEF Current
  <2> QED BY <1>1, <1>2, <1>5, <2>1 DEF Booked, Running
<1>8. step'.at = "idle"
  BY <1>1 DEF Idle
<1>9. FarmOK' /\ StepOK'
  BY <1>0, <1>1, <1>2, <1>8 DEF FarmOK, StepOK
<1>10. TripOK'
  <2> DEFINE lost == file'.away # cur'
             t == [trip EXCEPT !.cut = lost]
  <2>1. lost \in BOOLEAN
    OBVIOUS
  <2>2. lost = FALSE => file'.away = cur'
    OBVIOUS
  <2>3. trip' = t
    BY <1>1
  <2> HIDE DEF lost
  <2>4. TripShaped(t) /\ t.on = trip.on /\ t.cut = lost
    BY <1>0, <2>1, SetCut DEF TripOK
  <2> HIDE DEF t
  <2>5. TripShaped(trip') /\ trip'.on = trip.on /\ trip'.cut = lost
    BY <2>3, <2>4
  <2>6. trip.on = TRUE => active = cur.target
    BY <1>0, <1>1 DEF TripOK
  <2>7. ~DiskFails => file'.away = cur'
    BY <1>6 DEF FileOK
  <2> QED BY <1>1, <1>2, <1>5, <2>2, <2>5, <2>6, <2>7 DEF TripOK
<1>11. TimeOK'
  <2>1. ASSUME ~DiskFails
        PROVE  /\ real <= Booked + Running /\ real <= Duration /\ HasTime
               /\ cur.reason = "timer" /\ cur.period # Current => Booked = 0
    BY <1>0, <1>1, <2>1 DEF TimeOK
  <2>2. ASSUME HasTime PROVE HasTime'
    BY <1>1, <1>2, <1>5, <1>7, <2>2 DEF HasTime
  <2> QED BY <1>1, <1>2, <1>5, <1>7, <1>8, <2>1, <2>2 DEF TimeOK
<1>12. HandOK'
  <2>1. TimerNoted' = TimerNoted
    BY <1>1, <1>7 DEF TimerNoted
  <2>2. huntTarget' = huntTarget
    BY <1>2 DEF huntTarget
  <2>3. HuntNoted => HuntNoted'
    BY <1>2, <2>2 DEF HuntNoted
  <2>4. Unnoticed => Unnoticed'
    BY <1>1, <1>2, <1>5 DEF Unnoticed
  <2>5. hand = "timer" => TimerNoted \/ (Unnoticed /\ cur.reason = "timer" /\ cur.period = Current)
    BY <1>0 DEF HandOK
  <2>6. hand = "hunt" => huntOn /\ hard # "high" /\ (HuntNoted \/ Unnoticed)
    BY <1>0 DEF HandOK
  <2>7. hand = "timer" => TimerNoted' \/ (Unnoticed' /\ cur'.reason = "timer" /\ cur'.period = Current')
    BY <1>1, <1>5, <1>7, <2>1, <2>4, <2>5
  <2>8. hand = "hunt" => huntOn /\ hard # "high" /\ (HuntNoted' \/ Unnoticed')
    BY <2>3, <2>4, <2>6
  <2> QED BY <1>0, <1>1, <1>2, <1>8, <2>7, <2>8 DEF HandOK
<1> QED BY <1>6, <1>9, <1>10, <1>11, <1>12 DEF IInv

(* Between a decision and its end nobody is overridden without it being noted. *)
LEMMA Noted ==
    ASSUME HandOK, step.at \notin {"idle", "switched", "down"}
    PROVE  (hand = "timer" => TimerNoted) /\ (hand = "hunt" => HuntNoted /\ huntOn /\ hard # "high")
<1>1. step # Idle
  BY DEF Idle
<1>2. hand = "timer" => TimerNoted
  BY <1>1 DEF HandOK
<1>3. hand = "hunt" => HuntNoted /\ huntOn /\ hard # "high"
  BY <1>1 DEF HandOK
<1> QED BY <1>2, <1>3

LEMMA ReturnCommitKeeps ==
    ASSUME IInv, ReturnCommit
    PROVE  IInv'
<1>0. /\ RecordsOK /\ FarmOK /\ StepOK /\ FileOK /\ TripOK /\ TimeOK /\ HandOK
      /\ real \in Nat /\ Booked \in Nat /\ Running \in Nat
  BY Parts
<1>1. /\ step.at = "return" /\ pools' = pools /\ trip' = [trip EXCEPT !.on = FALSE]
      /\ step' = [step EXCEPT !.at = "returned"]
  BY DEF ReturnCommit
<1>2. /\ file' = file /\ real' = real /\ hold' = hold /\ hand' = hand /\ looked' = looked
      /\ mark' = mark /\ huntOn' = huntOn /\ hard' = hard /\ SameTime
  BY DEF ReturnCommit, modes, world, memory, SameTime
<1>3. now' = now /\ cur' = cur /\ sched' = sched /\ Current' = Current /\ Booked' = Booked /\ Running' = Running
  BY <1>2, SameIs
<1>4. RecordsOK' /\ FileOK'
  BY <1>2, SameKeeps
<1>5. /\ step = [at |-> "return", a |-> cur, final |-> step.final, order |-> step.order]
      /\ step.final \in BOOLEAN /\ sched.period = Current /\ cur # NoAway
  BY <1>0, <1>1 DEF StepOK, Idle
<1>6. step' = [at |-> "returned", a |-> cur, final |-> step.final, order |-> step.order]
  BY <1>1, <1>5
<1>7. step'.at = "returned" /\ step'.a = cur /\ step'.final = step.final /\ step'.order = step.order
  BY <1>6
<1>8. TripShaped(trip') /\ trip'.on = FALSE
  BY <1>0, <1>1, SetOn DEF TripOK
<1>9. FarmOK' /\ StepOK'
  <2>1. FarmOK'
    BY <1>0, <1>1, <1>2 DEF FarmOK
  <2>2. StepOK'
    BY <1>0, <1>2, <1>3, <1>5, <1>6, <1>7, <1>8 DEF StepOK
  <2> QED BY <2>1, <2>2
<1>10. TripOK'
  BY <1>8 DEF TripOK
<1>11. TimeOK'
  <2>1. HasTime'
    BY <1>7 DEF HasTime, Idle
  <2>2. ASSUME ~DiskFails
        PROVE  /\ real <= Booked + Running /\ real <= Duration
               /\ cur.reason = "timer" /\ cur.period # Current => Booked = 0
    BY <1>0, <1>1, <2>2 DEF TimeOK
  <2> QED BY <1>2, <1>3, <1>7, <2>1, <2>2 DEF TimeOK
<1>12. HandOK'
  <2>1. (hand = "timer" => TimerNoted) /\ (hand = "hunt" => HuntNoted /\ huntOn /\ hard # "high")
    BY <1>0, <1>1, Noted
  <2>2. TimerNoted' = TimerNoted
    BY <1>3 DEF TimerNoted
  <2>3. HuntNoted => HuntNoted'
    BY <1>1, <1>2 DEF HuntNoted, huntTarget
  <2>4. (hand = "timer" => TimerNoted') /\ (hand = "hunt" => HuntNoted' /\ huntOn /\ hard # "high")
    BY <2>1, <2>2, <2>3
  <2> QED BY <1>0, <1>2, <1>7, <2>4 DEF HandOK
<1> QED BY <1>4, <1>9, <1>10, <1>11, <1>12 DEF IInv

LEMMA ReturnFailsKeeps ==
    ASSUME IInv, ReturnFails
    PROVE  IInv'
<1>0. /\ RecordsOK /\ FarmOK /\ StepOK /\ FileOK /\ TripOK /\ TimeOK /\ HandOK
      /\ real \in Nat /\ Booked \in Nat /\ Running \in Nat
  BY Parts
<1>1. /\ step.at = "return" /\ trip' = [trip EXCEPT !.late = TRUE] /\ step' = Idle
  BY DEF ReturnFails
<1>2. /\ file' = file /\ real' = real /\ hold' = hold /\ hand' = hand /\ looked' = looked
      /\ pools' = pools /\ active' = active /\ mark' = mark /\ huntOn' = huntOn /\ hard' = hard /\ SameTime
  BY DEF ReturnFails, roles, modes, world, memory, SameTime
<1>3. now' = now /\ cur' = cur /\ sched' = sched /\ Current' = Current /\ Booked' = Booked /\ Running' = Running
  BY <1>2, SameIs
<1>4. RecordsOK' /\ FileOK'
  BY <1>2, SameKeeps
<1>5. step'.at = "idle"
  BY <1>1 DEF Idle
<1>6. TripShaped(trip') /\ trip'.on = trip.on /\ trip'.cut = trip.cut /\ trip'.late = TRUE
  BY <1>0, <1>1, SetLate DEF TripOK
<1>7. FarmOK' /\ StepOK'
  BY <1>0, <1>1, <1>2, <1>5 DEF FarmOK, StepOK
<1>8. TripOK'
  BY <1>0, <1>1, <1>2, <1>3, <1>5, <1>6 DEF TripOK
<1>9. TimeOK'
  <2>1. HasTime'
    BY <1>5, <1>6 DEF HasTime
  <2>2. ASSUME ~DiskFails
        PROVE  /\ real <= Booked + Running /\ real <= Duration
               /\ cur.reason = "timer" /\ cur.period # Current => Booked = 0
    BY <1>0, <1>1, <2>2 DEF TimeOK
  <2> QED BY <1>2, <1>3, <1>5, <2>1, <2>2 DEF TimeOK
<1>10. HandOK'
  <2>1. (hand = "timer" => TimerNoted) /\ (hand = "hunt" => HuntNoted /\ huntOn /\ hard # "high")
    BY <1>0, <1>1, Noted
  <2>2. TimerNoted' = TimerNoted
    BY <1>3 DEF TimerNoted
  <2>3. HuntNoted => HuntNoted'
    BY <1>2 DEF HuntNoted, huntTarget
  <2>4. (hand = "timer" => TimerNoted') /\ (hand = "hunt" => HuntNoted' /\ huntOn /\ hard # "high")
    BY <2>1, <2>2, <2>3
  <2> QED BY <1>0, <1>2, <1>5, <2>4 DEF HandOK
<1> QED BY <1>4, <1>7, <1>8, <1>9, <1>10 DEF IInv

LEMMA ReturnSaveKeeps ==
    ASSUME IInv, ReturnSave
    PROVE  IInv'
<1>0. /\ RecordsOK /\ FarmOK /\ StepOK /\ FileOK /\ TripOK /\ TimeOK /\ HandOK
      /\ now \in Nat /\ real \in Nat /\ Booked \in Nat /\ Running \in Nat
  BY Parts
<1>1. step.at = "returned" /\ Save(NoAway, Ended(step.a, sched, step.final)) /\ step' = Idle
  BY DEF ReturnSave
<1>2. /\ pools' = pools /\ active' = active /\ mark' = mark /\ huntOn' = huntOn /\ hard' = hard
      /\ now' = now /\ hold' = hold /\ trip' = trip /\ hand' = hand /\ real' = real /\ looked' = looked
  BY DEF ReturnSave, roles, modes, world
<1>3. step.a = cur /\ step.final \in BOOLEAN /\ sched.period = Current /\ trip.on = FALSE
  BY <1>0, <1>1 DEF StepOK, Idle
<1>4. Turned = sched
  BY <1>0, <1>3, TurnedIs
<1> DEFINE e == Ended(cur, Turned, step.final)
<1>5. Save(NoAway, e) /\ cur' = NoAway /\ sched' = e
  BY <1>1, <1>3, <1>4 DEF Save
<1>6. SchedOK(e) /\ Current' = Current
  BY <1>0, <1>2, <1>3, <1>5, EndedCounts
<1>7. e.anchor = sched.anchor /\ e.period = Current /\ Booked' = Booked + Running
  BY <1>0, <1>2, <1>3, <1>5, EndedCounts
<1>8. Turned.done = TRUE => e.done = TRUE
  BY <1>0, <1>2, <1>3, <1>5, EndedCounts
<1> HIDE DEF e
<1>9. RecordsOK' /\ FileOK'
  <2>1. AwayOK(NoAway)
    BY DEF AwayOK
  <2> QED BY <1>0, <1>2, <1>5, <1>6, <2>1, SaveKeeps
<1>10. cur'.reason # "timer" /\ Running' = 0 /\ step'.at = "idle"
  BY <1>1, <1>5 DEF Running, NoAway, Idle
<1>11. FarmOK' /\ StepOK'
  BY <1>0, <1>1, <1>2, <1>10 DEF FarmOK, StepOK
<1>12. TripOK'
  BY <1>0, <1>2, <1>3 DEF TripOK
<1>13. TimeOK'
  <2>1. HasTime'
    BY <1>10 DEF HasTime
  <2>2. ~DiskFails => real <= Booked + Running /\ real <= Duration
    BY <1>0, <1>1 DEF TimeOK
  <2> QED BY <1>0, <1>2, <1>7, <1>10, <2>1, <2>2 DEF TimeOK
<1>14. HandOK'
  <2>1. (hand = "timer" => TimerNoted) /\ (hand = "hunt" => HuntNoted /\ huntOn /\ hard # "high")
    BY <1>0, <1>1, Noted
  <2>2. TimerNoted => TimerNoted'
    BY <1>4, <1>5, <1>6, <1>7, <1>8 DEF TimerNoted
  <2>3. HuntNoted => HuntNoted'
    BY <1>2 DEF HuntNoted, huntTarget
  <2>4. (hand = "timer" => TimerNoted') /\ (hand = "hunt" => HuntNoted' /\ huntOn /\ hard # "high")
    BY <2>1, <2>2, <2>3
  <2> QED BY <1>0, <1>2, <1>10, <2>4 DEF HandOK
<1> QED BY <1>9, <1>11, <1>12, <1>13, <1>14 DEF IInv

LEMMA CarryKeeps ==
    ASSUME IInv, Carry
    PROVE  IInv'
  BY LeaveCommitKeeps, LeaveFailsKeeps, LeaveSaveKeeps, ReturnCommitKeeps, ReturnFailsKeeps, ReturnSaveKeeps
     DEF Carry

-----------------------------------------------------------------------------
(* The operator, profit switching and the chain. *)

(* Nothing of the switch to undo changes, and the farm stays where it is. *)
Quiet ==
    /\ SameTime /\ UNCHANGED <<active, hold, file, step, real, looked>>
    /\ TripShaped(trip') /\ trip'.on = trip.on /\ trip'.cut = trip.cut /\ trip'.late = trip.late
    /\ hand' = hand \/ hand' = "nobody"
    /\ hand' = "hunt" => huntOn' /\ hard' # "high" /\ (huntTarget = NoPool => huntTarget' = NoPool)

LEMMA QuietKeeps ==
    ASSUME IInv, Quiet, FarmOK'
    PROVE  IInv'
<1>0. /\ RecordsOK /\ FarmOK /\ StepOK /\ FileOK /\ TripOK /\ TimeOK /\ HandOK
      /\ real \in Nat /\ Booked \in Nat /\ Running \in Nat
  BY Parts
<1>1. /\ SameTime /\ active' = active /\ hold' = hold /\ file' = file /\ step' = step
      /\ real' = real /\ looked' = looked
      /\ TripShaped(trip') /\ trip'.on = trip.on /\ trip'.cut = trip.cut /\ trip'.late = trip.late
  BY DEF Quiet
<1>2. hand' = hand \/ hand' = "nobody"
  BY DEF Quiet
<1>3. hand' = "hunt" => huntOn' /\ hard' # "high" /\ (huntTarget = NoPool => huntTarget' = NoPool)
  BY DEF Quiet
<1>4. now' = now /\ cur' = cur /\ sched' = sched /\ Current' = Current /\ Booked' = Booked /\ Running' = Running
  BY <1>1, SameIs
<1>5. RecordsOK' /\ FileOK'
  BY <1>1, SameKeeps
<1>6. StepOK'
  BY <1>0, <1>1, <1>4 DEF StepOK
<1>7. TripOK'
  BY <1>0, <1>1, <1>4 DEF TripOK
<1>8. TimeOK'
  <2>1. HasTime' = HasTime
    BY <1>1, <1>4 DEF HasTime
  <2> QED BY <1>0, <1>1, <1>4, <2>1 DEF TimeOK
<1>9. HandOK'
  <2>1. TimerNoted' = TimerNoted /\ Unnoticed' = Unnoticed
    BY <1>1, <1>4 DEF TimerNoted, Unnoticed
  <2>2. CASE hand' = "timer"
    <3>1. hand = "timer"
      BY <1>2, <2>2
    <3> QED BY <1>0, <1>1, <1>4, <2>1, <2>2, <3>1 DEF HandOK
  <2>3. CASE hand' = "hunt"
    <3>1. hand = "hunt" /\ huntOn' /\ hard' # "high"
      BY <1>2, <1>3, <2>3
    <3>2. HuntNoted => HuntNoted'
      BY <1>1, <1>3, <2>3 DEF HuntNoted
    <3>3. HuntNoted' \/ (Unnoticed' /\ (step = Idle \/ step.at = "switched"))
      BY <1>0, <2>1, <3>1, <3>2 DEF HandOK
    <3> QED BY <1>0, <1>1, <1>4, <2>3, <3>1, <3>3 DEF HandOK
  <2>4. CASE hand' \notin {"timer", "hunt"}
    <3>1. step.at = "check" => cur.reason \in {"timer", "hunt"}
      BY <1>0, CurIs DEF StepOK
    <3> QED BY <1>0, <1>1, <1>4, <2>4, <3>1 DEF HandOK
  <2> QED BY <2>2, <2>3, <2>4
<1> QED BY <1>5, <1>6, <1>7, <1>8, <1>9 DEF IInv

LEMMA SetFallbackKeeps ==
    ASSUME IInv, NEW order, SetFallback(order)
    PROVE  IInv'
<1>0. FarmOK /\ TripShaped(trip) /\ HandOK
  BY Parts DEF TripOK
<1>1. /\ SameTime /\ UNCHANGED <<active, hold, file, step, real, looked>>
      /\ hand' = hand /\ huntOn' = huntOn /\ hard' = hard /\ pools' = pools /\ mark' = mark
  BY DEF SetFallback, modes, world, memory, SameTime
<1>2. trip' = [trip EXCEPT !.touched = TRUE]
  BY DEF SetFallback
<1>3. TripShaped(trip') /\ trip'.on = trip.on /\ trip'.cut = trip.cut /\ trip'.late = trip.late
  BY <1>0, <1>2, SetTouched
<1>4. hand = "hunt" => huntOn /\ hard # "high"
  BY <1>0 DEF HandOK
<1>5. huntTarget' = huntTarget
  BY <1>1 DEF huntTarget
<1>6. Quiet
  BY <1>1, <1>3, <1>4, <1>5 DEF Quiet
<1>7. FarmOK'
  BY <1>0, <1>1 DEF FarmOK
<1> QED BY <1>6, <1>7, QuietKeeps

LEMMA DeleteKeeps ==
    ASSUME IInv, NEW id, Delete(id)
    PROVE  IInv'
<1>0. FarmOK /\ TripShaped(trip) /\ HandOK
  BY Parts DEF TripOK
<1>1. /\ SameTime /\ UNCHANGED <<active, hold, file, step, real, looked>>
      /\ hand' = hand /\ huntOn' = huntOn /\ hard' = hard
      /\ pools' = pools \ {id} /\ mark' = IF mark = id THEN NoPool ELSE mark
  BY DEF Delete, world, memory, SameTime
<1>2. trip' = [trip EXCEPT !.touched = TRUE]
  BY DEF Delete
<1>3. TripShaped(trip') /\ trip'.on = trip.on /\ trip'.cut = trip.cut /\ trip'.late = trip.late
  BY <1>0, <1>2, SetTouched
<1>4. hand = "hunt" => huntOn /\ hard # "high"
  BY <1>0 DEF HandOK
<1>5. huntTarget = NoPool => huntTarget' = NoPool
  <2>1. NoPool \notin ECash
    BY PoolAssumption
  <2>2. mark \notin ECash /\ ECash \cap pools = {} => mark' \notin ECash /\ ECash \cap pools' = {}
    BY <1>1, <2>1
  <2>3. ECash \cap pools' = {} /\ mark' \notin ECash => huntTarget' = NoPool
    BY DEF huntTarget
  <2> QED BY <2>2, <2>3, NoHuntTarget
<1>6. Quiet
  BY <1>1, <1>3, <1>4, <1>5 DEF Quiet
<1>7. FarmOK'
  BY <1>0, <1>1 DEF FarmOK
<1> QED BY <1>6, <1>7, QuietKeeps

LEMMA MarkKeeps ==
    ASSUME IInv, NEW id \in Marks \cap (pools \cup {NoPool}), Mark(id)
    PROVE  IInv'
<1>0. FarmOK /\ TripShaped(trip) /\ HandOK
  BY Parts DEF TripOK
<1>1. /\ SameTime /\ UNCHANGED <<active, hold, file, step, real, looked>>
      /\ hand' = hand /\ huntOn' = huntOn /\ hard' = hard /\ trip' = trip
      /\ pools' = pools /\ mark' = id
  BY DEF Mark, roles, world, memory, SameTime
<1>2. hand = "hunt" => huntOn /\ hard # "high"
  BY <1>0 DEF HandOK
<1>3. huntTarget = NoPool => huntTarget' = NoPool
  <2>1. NoPool \notin ECash
    BY PoolAssumption
  <2>2. ECash \cap pools = {} => mark' \notin ECash /\ ECash \cap pools' = {}
    BY <1>1, <2>1
  <2>3. ECash \cap pools' = {} /\ mark' \notin ECash => huntTarget' = NoPool
    BY DEF huntTarget
  <2> QED BY <2>2, <2>3, NoHuntTarget
<1>4. Quiet
  BY <1>0, <1>1, <1>2, <1>3 DEF Quiet
<1>5. FarmOK'
  BY <1>0, <1>1 DEF FarmOK
<1> QED BY <1>4, <1>5, QuietKeeps

LEMMA SetModesKeeps ==
    ASSUME IInv, NEW timer, NEW hunt, SetModes(timer, hunt)
    PROVE  IInv'
<1>0. FarmOK /\ TripShaped(trip) /\ HandOK
  BY Parts DEF TripOK
<1>1. /\ SameTime /\ UNCHANGED <<active, hold, file, step, real, looked>>
      /\ hard' = hard /\ trip' = trip /\ pools' = pools /\ mark' = mark
  BY DEF SetModes, roles, world, memory, SameTime
<1>2. huntOn' = hunt
  BY DEF SetModes
<1>3. hand' = IF hand \in {"hunt", "lost"} /\ ~hunt THEN "nobody" ELSE hand
  BY DEF SetModes
<1>4. hand' = hand \/ hand' = "nobody"
  BY <1>3
<1>5. hand' = "hunt" => hand = "hunt"
  BY <1>4
<1>6. hand' = "hunt" => huntOn'
  BY <1>2, <1>3, <1>5
<1>7. hand = "hunt" => hard # "high"
  BY <1>0 DEF HandOK
<1>8. huntTarget' = huntTarget
  BY <1>1 DEF huntTarget
<1>9. Quiet
  BY <1>0, <1>1, <1>4, <1>5, <1>6, <1>7, <1>8 DEF Quiet
<1>10. FarmOK'
  BY <1>0, <1>1 DEF FarmOK
<1> QED BY <1>9, <1>10, QuietKeeps

LEMMA ChainKeeps ==
    ASSUME IInv, NEW h, NEW l, Chain(h, l)
    PROVE  IInv'
<1>0. FarmOK /\ TripShaped(trip) /\ HandOK
  BY Parts DEF TripOK
<1>1. /\ SameTime /\ UNCHANGED <<active, hold, file, step, real, looked>>
      /\ huntOn' = huntOn /\ trip' = trip /\ pools' = pools /\ mark' = mark
  BY DEF Chain, roles, modes, memory, SameTime
<1>2. hard' = h /\ hand' = IF hand \in {"hunt", "lost"} /\ h = "high" THEN "nobody" ELSE hand
  BY DEF Chain
<1>3. (hand' = hand \/ hand' = "nobody") /\ (hand' = "hunt" => hand = "hunt" /\ hard' # "high")
  BY <1>2
<1>4. hand = "hunt" => huntOn
  BY <1>0 DEF HandOK
<1>5. huntTarget' = huntTarget
  BY <1>1 DEF huntTarget
<1>6. Quiet
  BY <1>0, <1>1, <1>3, <1>4, <1>5 DEF Quiet
<1>7. FarmOK'
  BY <1>0, <1>1 DEF FarmOK
<1> QED BY <1>6, <1>7, QuietKeeps

(* The checks of profit switching that change nothing, and the pause that ends. *)
LEMMA RestKeeps ==
    ASSUME IInv, ProfitDue \/ ProfitStays \/ RetryDue \/ UNCHANGED vars
    PROVE  IInv'
<1>0. FarmOK /\ TripShaped(trip) /\ HandOK
  BY Parts DEF TripOK
<1>1. /\ SameTime /\ UNCHANGED <<active, hold, file, step, real, looked>>
      /\ hand' = hand /\ huntOn' = huntOn /\ hard' = hard /\ trip' = trip /\ pools' = pools /\ mark' = mark
  BY DEF ProfitDue, ProfitStays, RetryDue, vars, roles, modes, world, memory, SameTime
<1>2. hand = "hunt" => huntOn /\ hard # "high"
  BY <1>0 DEF HandOK
<1>3. huntTarget' = huntTarget
  BY <1>1 DEF huntTarget
<1>4. Quiet
  BY <1>0, <1>1, <1>2, <1>3 DEF Quiet
<1>5. FarmOK'
  BY <1>0, <1>1 DEF FarmOK
<1> QED BY <1>4, <1>5, QuietKeeps

(* Somebody puts the farm on a pool.  Who is overridden had the farm, in a stay
   that was not about to end anyway. *)
Moves(id) ==
    /\ SameTime /\ UNCHANGED <<pools, mark, huntOn, hard, hold, file, step, real, looked>>
    /\ active' = id
    /\ TripShaped(trip') /\ trip'.on = FALSE
    /\ \/ hand' = "nobody"
       \/ hand' = hand /\ ~PutBack(id)
       \/ /\ hand' = cur.reason /\ trip.on = TRUE /\ cur # NoAway /\ active = cur.target /\ id # active
          /\ step.at \notin {"return", "down"}
          /\ cur.reason = "timer" => cur.period = Current
          /\ cur.reason = "hunt" => huntOn /\ hard # "high"

LEMMA MovesKeeps ==
    ASSUME IInv, NEW id, Moves(id)
    PROVE  IInv'
<1>0. /\ RecordsOK /\ FarmOK /\ StepOK /\ FileOK /\ TripOK /\ TimeOK /\ HandOK
      /\ real \in Nat /\ Booked \in Nat /\ Running \in Nat
  BY Parts
<1>1. /\ SameTime /\ pools' = pools /\ mark' = mark /\ huntOn' = huntOn /\ hard' = hard
      /\ hold' = hold /\ file' = file /\ step' = step /\ real' = real /\ looked' = looked
      /\ active' = id /\ TripShaped(trip') /\ trip'.on = FALSE
  BY DEF Moves
<1>2. now' = now /\ cur' = cur /\ sched' = sched /\ Current' = Current /\ Booked' = Booked /\ Running' = Running
  BY <1>1, SameIs
<1>3. RecordsOK' /\ FileOK'
  BY <1>1, SameKeeps
<1>4. FarmOK' /\ StepOK'
  <2>1. FarmOK'
    BY <1>0, <1>1 DEF FarmOK
  <2>2. StepOK'
    BY <1>0, <1>1, <1>2 DEF StepOK
  <2> QED BY <2>1, <2>2
<1>5. TripOK'
  BY <1>1 DEF TripOK
<1>6. TimeOK'
  <2>1. HasTime => HasTime'
    BY <1>1, <1>2 DEF HasTime
  <2> QED BY <1>0, <1>1, <1>2, <2>1 DEF TimeOK
<1>7. TimerNoted' = TimerNoted /\ HuntNoted' = HuntNoted
  BY <1>1, <1>2 DEF TimerNoted, HuntNoted, huntTarget
<1>8. step.at = "check" => cur.reason \in {"timer", "hunt"} /\ trip.on = FALSE
  BY <1>0, CurIs DEF StepOK
<1>9. CASE hand' = "nobody"
  <2>1. HandOK'
    BY <1>0, <1>1, <1>2, <1>8, <1>9 DEF HandOK
  <2> QED BY <1>3, <1>4, <1>5, <1>6, <2>1 DEF IInv
<1>10. CASE hand' = hand /\ ~PutBack(id)
  <2>1. Unnoticed => Unnoticed'
    BY <1>1, <1>2, <1>10 DEF Unnoticed, PutBack
  <2>2. hand = "timer" =>
           /\ \/ TimerNoted'
              \/ /\ Unnoticed' /\ cur.reason = "timer" /\ cur.period = Current
                 /\ step = Idle \/ step.at \in {"switched", "down"}
           /\ step.at = "down" /\ DiskFails => file = [away |-> cur, sched |-> sched]
    BY <1>0, <1>7, <2>1 DEF HandOK
  <2>3. hand = "hunt" =>
           /\ huntOn /\ hard # "high" /\ step.at # "down"
           /\ HuntNoted' \/ (Unnoticed' /\ (step = Idle \/ step.at = "switched"))
    BY <1>0, <1>7, <2>1 DEF HandOK
  <2>4. HandOK'
    BY <1>0, <1>1, <1>2, <1>10, <2>2, <2>3 DEF HandOK
  <2> QED BY <1>3, <1>4, <1>5, <1>6, <2>4 DEF IInv
<1>11. CASE /\ hand' = cur.reason /\ trip.on = TRUE /\ cur # NoAway /\ active = cur.target /\ id # active
            /\ step.at \notin {"return", "down"}
            /\ cur.reason = "timer" => cur.period = Current
            /\ cur.reason = "hunt" => huntOn /\ hard # "high"
  <2>1. Unnoticed'
    BY <1>1, <1>2, <1>11 DEF Unnoticed
  <2>2. step = Idle \/ step.at = "switched"
    BY <1>0, <1>11 DEF StepOK
  <2>3. step.at # "check" /\ step.at # "down"
    BY <1>8, <1>11
  <2>4. hand' = "timer" => Unnoticed' /\ cur.reason = "timer" /\ cur.period = Current
    BY <1>11, <2>1
  <2>5. hand' = "hunt" => huntOn /\ hard # "high"
    BY <1>11
  <2>6. HandOK'
    BY <1>0, <1>1, <1>2, <2>1, <2>2, <2>3, <2>4, <2>5 DEF HandOK
  <2> QED BY <1>3, <1>4, <1>5, <1>6, <2>6 DEF IInv
<1> QED BY <1>9, <1>10, <1>11 DEF Moves

LEMMA ManualKeeps ==
    ASSUME IInv, NEW id, Manual(id)
    PROVE  IInv'
<1>0. TripShaped(trip) /\ trip.on \in BOOLEAN
  BY Parts DEF TripOK, TripShaped
<1>1. /\ SameTime /\ UNCHANGED <<mark, huntOn, hard, hold, file, step, real, looked>>
      /\ pools' = pools /\ active' = id /\ step.at # "down"
  BY DEF Manual, Activated, Up, modes, world, memory, SameTime
<1>2. trip' = [trip EXCEPT !.on = FALSE, !.touched = TRUE]
  BY DEF Manual
<1>3. TripShaped(trip') /\ trip'.on = FALSE
  <2> DEFINE t1 == [trip EXCEPT !.on = FALSE]
             t2 == [t1 EXCEPT !.touched = TRUE]
  <2>1. trip' = t2
    BY <1>2
  <2>2. TripShaped(t1) /\ t1.on = FALSE
    BY <1>0, SetOn
  <2> HIDE DEF t1
  <2>3. TripShaped(t2) /\ t2.on = FALSE
    BY <2>2, SetTouched
  <2> HIDE DEF t2
  <2> QED BY <2>1, <2>3
<1>4. hand' = Overridden(id)
  BY DEF Manual
<1> DEFINE takes == /\ trip.on /\ cur # NoAway /\ active = cur.target /\ id # active
                    /\ step.at # "return"
                    /\ cur.reason = "timer" => cur.period = PeriodOf(now, sched.anchor)
                    /\ cur.reason = "hunt" => huntOn /\ hard # "high"
<1>5. CASE takes
  <2>1. hand' = cur.reason
    BY <1>4, <1>5 DEF Overridden
  <2> QED BY <1>0, <1>1, <1>3, <1>5, <2>1, MovesKeeps DEF Moves, Current
<1>6. CASE ~takes /\ PutBack(id)
  <2>1. hand' = "nobody"
    BY <1>4, <1>6 DEF Overridden
  <2> QED BY <1>1, <1>3, <2>1, MovesKeeps DEF Moves
<1>7. CASE ~takes /\ ~PutBack(id)
  <2>1. hand' = hand
    BY <1>4, <1>7 DEF Overridden
  <2> QED BY <1>1, <1>3, <1>7, <2>1, MovesKeeps DEF Moves
<1> QED BY <1>5, <1>6, <1>7

LEMMA ProfitSwitchKeeps ==
    ASSUME IInv, NEW id, ProfitSwitch(id)
    PROVE  IInv'
<1>0. TripShaped(trip)
  BY Parts DEF TripOK
<1>1. /\ SameTime /\ UNCHANGED <<mark, huntOn, hard, hold, file, step, real, looked>>
      /\ pools' = pools /\ active' = id
  BY DEF ProfitSwitch, Activated, modes, world, memory, SameTime
<1>2. trip' = [trip EXCEPT !.on = FALSE, !.touched = TRUE]
  BY DEF ProfitSwitch
<1>3. TripShaped(trip') /\ trip'.on = FALSE
  <2> DEFINE t1 == [trip EXCEPT !.on = FALSE]
             t2 == [t1 EXCEPT !.touched = TRUE]
  <2>1. trip' = t2
    BY <1>2
  <2>2. TripShaped(t1) /\ t1.on = FALSE
    BY <1>0, SetOn
  <2> HIDE DEF t1
  <2>3. TripShaped(t2) /\ t2.on = FALSE
    BY <2>2, SetTouched
  <2> HIDE DEF t2
  <2> QED BY <2>1, <2>3
<1>4. hand' = IF PutBack(id) THEN "nobody" ELSE hand
  BY DEF ProfitSwitch
<1>5. CASE PutBack(id)
  <2>1. hand' = "nobody"
    BY <1>4, <1>5
  <2> QED BY <1>1, <1>3, <2>1, MovesKeeps DEF Moves
<1>6. CASE ~PutBack(id)
  <2>1. hand' = hand
    BY <1>4, <1>6
  <2> QED BY <1>1, <1>3, <1>6, <2>1, MovesKeeps DEF Moves
<1> QED BY <1>5, <1>6

LEMMA StartNowKeeps ==
    ASSUME IInv, StartNow
    PROVE  IInv'
<1>0. /\ RecordsOK /\ FarmOK /\ StepOK /\ FileOK /\ TripOK /\ TimeOK /\ HandOK /\ now \in Nat
  BY Parts
<1> DEFINE s == [anchor |-> now, period |-> now, spent |-> 0, done |-> FALSE]
           b == [cur EXCEPT !.reason = "timer", !.period = now, !.since = now]
           takes == cur.reason = "timer" \/ (cur.reason = "hunt" /\ cur.target = mark)
           a == IF takes THEN b ELSE cur
<1>1. /\ step = Idle /\ Save(a, s) /\ cur' = a /\ sched' = s /\ real' = 0
      /\ hand' = IF hand = "timer" THEN "nobody" ELSE hand
  BY DEF StartNow, Save
<1>2. /\ pools' = pools /\ active' = active /\ mark' = mark /\ huntOn' = huntOn /\ hard' = hard
      /\ now' = now /\ hold' = hold /\ step' = step /\ trip' = trip /\ looked' = looked
  BY DEF StartNow, roles, modes, world
<1>3. s \in Scheds /\ s.anchor = now /\ s.period = now /\ s.spent = 0
  BY <1>0 DEF Scheds
<1> HIDE DEF s
<1>4. PeriodOf(now, now) = now
  BY <1>0, Periods
<1>5. SchedOK(s)
  BY <1>0, <1>3, <1>4 DEF SchedOK
<1>6. Current' = now
  BY <1>1, <1>2, <1>3, <1>4 DEF Current
<1>7. Booked' = 0
  BY <1>1, <1>3, <1>6 DEF Booked
<1>8. AwayOK(cur)
  BY <1>0 DEF RecordsOK
<1>9. takes => cur # NoAway
  BY DEF NoAway
<1>10. takes => AwayOK(b) /\ b # NoAway
  BY <1>0, <1>8, <1>9, NewReason
<1>11. takes => b.reason = "timer" /\ b.period = now /\ b.since = now /\ b.target = cur.target
  <2> HAVE takes
  <2>1. b = [reason |-> "timer", period |-> now, since |-> now, target |-> cur.target,
             home |-> cur.home, fallback |-> cur.fallback, set |-> cur.set]
    BY <1>0, <1>8, <1>9, NewReasonIs
  <2> HIDE DEF b
  <2> QED BY <2>1
<1>12. ~takes => cur.reason # "timer"
  OBVIOUS
<1> HIDE DEF b, takes
<1>13. AwayOK(a)
  BY <1>8, <1>10
<1>14. cur' # NoAway <=> cur # NoAway
  BY <1>1, <1>9, <1>10
<1>15. cur # NoAway => cur'.target = cur.target
  BY <1>1, <1>11
<1>16. cur'.reason = "timer" => cur'.period = now /\ cur'.since = now
  BY <1>1, <1>11, <1>12
<1> HIDE DEF a
<1>17. RecordsOK' /\ FileOK'
  BY <1>0, <1>1, <1>2, <1>5, <1>13, SaveKeeps
<1>18. FarmOK' /\ StepOK'
  <2>1. FarmOK'
    BY <1>0, <1>2 DEF FarmOK
  <2>2. StepOK'
    BY <1>0, <1>1, <1>2 DEF StepOK, Idle
  <2> QED BY <2>1, <2>2
<1>19. step'.at = "idle"
  BY <1>1, <1>2 DEF Idle
<1>20. TripOK'
  <2>1. file' = [away |-> a, sched |-> s] \/ file' = file
    BY <1>1 DEF Save
  <2> QED BY <1>0, <1>1, <1>2, <1>14, <1>15, <1>19, <2>1 DEF TripOK
<1>21. Running' = 0
  BY <1>0, <1>2, <1>16 DEF Running
<1>22. TimeOK'
  <2>1. Duration \in Nat \ {0}
    BY TimeAssumption
  <2>2. cur'.reason = "timer" => cur'.period = Current'
    BY <1>6, <1>16
  <2>3. HasTime'
    BY <1>7, <1>21, <2>1, <2>2 DEF HasTime
  <2> QED BY <1>1, <1>7, <1>19, <1>21, <2>1, <2>2, <2>3 DEF TimeOK
<1>23. HandOK'
  <2>1. hand' # "timer" /\ (hand' = "hunt" => hand = "hunt")
    BY <1>1
  <2>2. Unnoticed => Unnoticed'
    BY <1>2, <1>14, <1>15 DEF Unnoticed
  <2>3. HuntNoted => HuntNoted'
    BY <1>2 DEF HuntNoted, huntTarget
  <2>4. hand' = "hunt" => huntOn /\ hard # "high" /\ (HuntNoted' \/ Unnoticed')
    BY <1>0, <2>1, <2>2, <2>3 DEF HandOK
  <2> QED BY <1>0, <1>1, <1>2, <1>19, <2>1, <2>4 DEF HandOK
<1> QED BY <1>17, <1>18, <1>20, <1>22, <1>23 DEF IInv

LEMMA CrashKeeps ==
    ASSUME IInv, Crash
    PROVE  IInv'
<1>0. /\ RecordsOK /\ FarmOK /\ StepOK /\ FileOK /\ TripOK /\ TimeOK /\ HandOK
      /\ real \in Nat /\ Booked \in Nat /\ Running \in Nat
  BY Parts
<1>1. /\ step' = [at |-> "down"]
      /\ hand' = IF hand = "hunt" \/ (hand = "timer" /\ Unwritten) THEN "lost" ELSE hand
  BY DEF Crash
<1>2. /\ file' = file /\ real' = real /\ hold' = hold /\ trip' = trip /\ looked' = looked
      /\ pools' = pools /\ active' = active /\ mark' = mark /\ huntOn' = huntOn /\ hard' = hard /\ SameTime
  BY DEF Crash, roles, modes, world, memory, SameTime
<1>3. now' = now /\ cur' = cur /\ sched' = sched /\ Current' = Current /\ Booked' = Booked /\ Running' = Running
  BY <1>2, SameIs
<1>4. RecordsOK' /\ FileOK'
  BY <1>2, SameKeeps
<1>5. step'.at = "down" /\ step' # Idle
  BY <1>1 DEF Idle
<1>6. FarmOK' /\ StepOK'
  BY <1>0, <1>2, <1>5 DEF FarmOK, StepOK
<1>7. TripOK'
  BY <1>0, <1>2, <1>3, <1>5 DEF TripOK
<1>8. TimeOK'
  <2>1. HasTime'
    BY <1>5 DEF HasTime
  <2>2. ASSUME ~DiskFails
        PROVE  /\ real <= Booked + Running /\ real <= Duration
               /\ cur.reason = "timer" /\ cur.period # Current => Booked = 0
    BY <1>0, <2>2 DEF TimeOK
  <2> QED BY <1>2, <1>3, <1>5, <2>1, <2>2 DEF TimeOK
<1>9. HandOK'
  <2>1. hand' # "hunt" /\ (hand' = "timer" => hand = "timer" /\ ~Unwritten)
    BY <1>1
  <2>2. TimerNoted' = TimerNoted /\ Unnoticed' = Unnoticed
    BY <1>2, <1>3 DEF TimerNoted, Unnoticed
  <2>3. hand' = "timer" => TimerNoted' \/ (Unnoticed' /\ cur.reason = "timer" /\ cur.period = Current)
    BY <1>0, <2>1, <2>2 DEF HandOK
  <2>4. hand' = "timer" /\ DiskFails => file = [away |-> cur, sched |-> sched]
    BY <2>1 DEF Unwritten
  <2> QED BY <1>0, <1>2, <1>3, <1>5, <2>1, <2>3, <2>4 DEF HandOK
<1> QED BY <1>4, <1>6, <1>7, <1>8, <1>9 DEF IInv

LEMMA RestartKeeps ==
    ASSUME IInv, Restart
    PROVE  IInv'
<1>0. /\ RecordsOK /\ FarmOK /\ StepOK /\ FileOK /\ TripOK /\ TimeOK /\ HandOK
      /\ real \in Nat /\ Booked \in Nat /\ Running \in Nat /\ Current \in Nat
  BY Parts
<1>1. /\ step.at = "down" /\ cur' = file.away /\ sched' = file.sched
      /\ hold' = FALSE /\ step' = Idle /\ looked' = FALSE
  BY DEF Restart
<1>2. /\ file' = file /\ real' = real /\ trip' = trip /\ hand' = hand /\ now' = now
      /\ pools' = pools /\ active' = active /\ mark' = mark /\ huntOn' = huntOn /\ hard' = hard
  BY DEF Restart, roles, modes, world
<1>3. RecordsOK'
  BY <1>0, <1>1, <1>2 DEF RecordsOK, AwayOK, SchedOK, Shaped, PeriodOf
<1>4. FileOK'
  BY <1>1, <1>2 DEF FileOK
<1>5. step'.at = "idle"
  BY <1>1 DEF Idle
<1>6. FarmOK' /\ StepOK'
  BY <1>0, <1>1, <1>2, <1>5 DEF FarmOK, StepOK
<1>7. TripOK'
  BY <1>0, <1>1, <1>2, <1>5 DEF TripOK
<1>8. sched.period \in Nat /\ file.sched.period \in Nat /\ sched.period <= Current
  BY <1>0 DEF RecordsOK, SchedOK, Scheds, Current
<1>9. ASSUME ~DiskFails
      PROVE  /\ cur' = cur /\ Current' = Current /\ Booked' = Booked /\ Running' = Running
             /\ TimerNoted => sched' = sched
  <2>1. file.away = cur /\ (file.sched = sched \/ Behind)
    BY <1>0, <1>9 DEF FileOK
  <2>2. CASE file.sched = sched
    <3>1. sched' = sched /\ Current' = Current
      BY <1>1, <1>2, <2>2 DEF Current
    <3> QED BY <1>1, <1>2, <2>1, <3>1 DEF Booked, Running
  <2>3. CASE Behind
    <3>1. Current' = Current
      BY <1>1, <1>2, <2>3 DEF Behind, Current
    <3>2. Booked' = 0
      BY <1>1, <1>8, <2>3, <3>1 DEF Behind, Booked
    <3>3. Booked = 0
      BY <2>3 DEF Behind, Booked
    <3>4. ~TimerNoted
      BY <2>3 DEF Behind, TimerNoted
    <3> QED BY <1>1, <1>2, <2>1, <3>1, <3>2, <3>3, <3>4 DEF Running
  <2> QED BY <2>1, <2>2, <2>3
<1>10. TimeOK'
  <2>1. HasTime'
    BY <1>1 DEF HasTime
  <2>2. ASSUME ~DiskFails
        PROVE  /\ real <= Booked + Running /\ real <= Duration
               /\ cur.reason = "timer" /\ cur.period # Current => Booked = 0
    BY <1>0, <1>1, <2>2 DEF TimeOK
  <2> QED BY <1>2, <1>5, <1>9, <2>1, <2>2 DEF TimeOK
<1>11. HandOK'
  <2>1. hand # "hunt"
    BY <1>0, <1>1 DEF HandOK
  <2>2. hand = "timer" =>
           /\ TimerNoted \/ (Unnoticed /\ cur.reason = "timer" /\ cur.period = Current)
           /\ DiskFails => file = [away |-> cur, sched |-> sched]
    BY <1>0, <1>1 DEF HandOK
  <2>3. hand = "timer" => cur' = cur /\ Current' = Current /\ (TimerNoted => sched' = sched)
    <3> HAVE hand = "timer"
    <3>1. CASE DiskFails
      <4>1. cur' = cur /\ sched' = sched
        BY <1>1, <2>2, <3>1
      <4> QED BY <1>2, <4>1 DEF Current
    <3>2. CASE ~DiskFails
      BY <1>9, <3>2
    <3> QED BY <3>1, <3>2
  <2>4. hand = "timer" /\ TimerNoted => TimerNoted'
    BY <2>3 DEF TimerNoted
  <2>5. hand = "timer" /\ Unnoticed => Unnoticed'
    BY <1>2, <2>3 DEF Unnoticed
  <2>6. hand = "timer" => TimerNoted' \/ (Unnoticed' /\ cur'.reason = "timer" /\ cur'.period = Current')
    BY <2>2, <2>3, <2>4, <2>5
  <2> QED BY <1>1, <1>2, <1>5, <2>1, <2>6 DEF HandOK
<1> QED BY <1>3, <1>4, <1>6, <1>7, <1>10, <1>11 DEF IInv

-----------------------------------------------------------------------------
(* The clock. *)

LEMMA MinuteKeeps ==
    ASSUME IInv, Minute
    PROVE  IInv'
<1>0. /\ RecordsOK /\ FarmOK /\ StepOK /\ FileOK /\ TripOK /\ TimeOK /\ HandOK
      /\ now \in Nat /\ real \in Nat /\ Booked \in Nat /\ Running \in Nat /\ Current \in Nat
  BY Parts
<1> DEFINE turns == PeriodOf(now + 1, sched.anchor) # PeriodOf(now, sched.anchor)
<1>1. now' = now + 1 /\ looked' = FALSE /\ (step.at # "down" => looked /\ step.at \in {"idle", "check"})
  BY DEF Minute, Up
<1>2. /\ real' = IF turns THEN 0
                  ELSE IF Up /\ trip.on /\ ~trip.late /\ cur.reason = "timer" THEN real + 1 ELSE real
      /\ hand' = IF turns /\ hand = "timer" THEN "nobody" ELSE hand
  BY DEF Minute
<1>3. /\ pools' = pools /\ active' = active /\ mark' = mark /\ huntOn' = huntOn /\ hard' = hard
      /\ cur' = cur /\ sched' = sched /\ hold' = hold /\ file' = file /\ step' = step /\ trip' = trip
  BY DEF Minute, roles, modes, memory
<1>4. /\ sched.anchor \in Nat /\ sched.anchor <= now /\ sched.period \in Nat /\ sched.period <= Current
      /\ file.sched.anchor \in Nat /\ file.sched.anchor <= now /\ file.sched.period \in Nat
      /\ file.sched.period <= PeriodOf(now, file.sched.anchor)
  BY <1>0 DEF RecordsOK, SchedOK, Scheds, Current
<1>5. Current' = PeriodOf(now + 1, sched.anchor) /\ Current' \in Nat /\ Current <= Current'
  BY <1>0, <1>1, <1>3, <1>4, Periods DEF Current
<1>6. turns <=> Current' # Current
  BY <1>5 DEF Current
<1> HIDE DEF turns
<1>7. RecordsOK'
  <2>1. ASSUME NEW a, AwayOK(a) PROVE AwayOK(a)'
    BY <1>0, <1>1, <2>1 DEF AwayOK, Shaped
  <2>2. SchedOK(sched)'
    BY <1>0, <1>1, <1>3, <1>4, <1>5 DEF RecordsOK, SchedOK, Current
  <2>3. SchedOK(file.sched)'
    <3>1. PeriodOf(now, file.sched.anchor) \in Nat /\ PeriodOf(now + 1, file.sched.anchor) \in Nat
          /\ PeriodOf(now, file.sched.anchor) <= PeriodOf(now + 1, file.sched.anchor)
      BY <1>0, <1>4, Periods
    <3>2. file.sched \in Scheds
      BY <1>0 DEF RecordsOK, SchedOK
    <3>3. /\ file'.sched \in Scheds /\ file'.sched.anchor <= now'
          /\ file'.sched.period <= PeriodOf(now', file'.sched.anchor)
      BY <1>0, <1>1, <1>3, <1>4, <3>1, <3>2
    <3> QED BY <3>3 DEF SchedOK
  <2>4. AwayOK(cur)' /\ AwayOK(file.away)'
    BY <1>0, <1>1, <1>3 DEF RecordsOK, AwayOK, Shaped
  <2>5. now' \in Nat /\ real' \in Nat
    BY <1>0, <1>1, <1>2
  <2> QED BY <2>2, <2>3, <2>4, <2>5 DEF RecordsOK
<1>8. FarmOK' /\ FileOK' /\ TripOK'
  <2>1. FarmOK'
    BY <1>0, <1>3 DEF FarmOK
  <2>2. FileOK'
    BY <1>0, <1>3 DEF FileOK, Behind
  <2>3. TripOK'
    BY <1>0, <1>3 DEF TripOK
  <2> QED BY <2>1, <2>2, <2>3
<1>9. StepOK'
  BY <1>0, <1>1, <1>3 DEF StepOK
<1>10. CASE turns
  <2>1. Booked' = 0 /\ real' = 0
    BY <1>0, <1>2, <1>3, <1>4, <1>5, <1>6, <1>10 DEF Booked
  <2>2. Running' \in Nat
    BY <1>0, <1>1, <1>3, CurIs DEF Running, NoAway
  <2>3. HasTime'
    BY <1>1 DEF HasTime
  <2>4. Duration \in Nat
    BY TimeAssumption
  <2>5. TimeOK'
    <3> DEFINE u == Running'
    <3>0. u \in Nat
      BY <2>2
    <3> HIDE DEF u
    <3>1. real' <= Booked' /\ real' <= Booked' + u
      BY <2>1, <3>0
    <3>2. real' <= Duration
      BY <2>1, <2>4
    <3> QED BY <2>1, <2>3, <3>1, <3>2 DEF TimeOK, u
  <2>6. hand' # "timer" /\ (hand' = hand \/ hand' = "nobody")
    BY <1>2, <1>10
  <2>7. HuntNoted' = HuntNoted /\ Unnoticed' = Unnoticed
    BY <1>3 DEF HuntNoted, huntTarget, Unnoticed
  <2>8. step.at = "check" => cur.reason \in {"timer", "hunt"}
    BY <1>0, CurIs DEF StepOK
  <2>9. HandOK'
    BY <1>0, <1>3, <2>6, <2>7, <2>8 DEF HandOK
  <2> QED BY <1>7, <1>8, <1>9, <2>5, <2>9 DEF IInv
<1>11. CASE ~turns
  <2>1. Current' = Current /\ hand' = hand
    BY <1>2, <1>6, <1>11
  <2>2. Booked' = Booked
    BY <1>3, <2>1 DEF Booked
  <2>3. /\ Running' \in Nat /\ Running <= Running'
        /\ cur.reason = "timer" /\ cur.period = Current => Running' = Running + 1
    <3>1. cur.reason = "timer" => cur.since \in Nat /\ cur.since <= now
      BY <1>0, CurIs
    <3> QED BY <1>0, <1>1, <1>3, <2>1, <3>1 DEF Running
  <2>4. HasTime'
    BY <1>1 DEF HasTime
  <2>5. TimeOK'
    <3>1. ASSUME ~DiskFails
          PROVE  /\ cur'.reason = "timer" /\ cur'.period # Current' => Booked' = 0
                 /\ step'.at = "check" => real' <= Booked'
                 /\ step'.at # "check" => real' <= Booked' + Running'
                 /\ real' <= Duration
      <4>1. /\ cur.reason = "timer" /\ cur.period # Current => Booked = 0
            /\ step.at = "check" => real <= Booked
            /\ step.at # "check" => real <= Booked + Running
            /\ real <= Duration
            /\ HasTime
        BY <1>0, <3>1 DEF TimeOK
      <4>2. CASE Up /\ trip.on /\ ~trip.late /\ cur.reason = "timer"
        <5>1. trip.on = TRUE /\ trip.late = FALSE
          BY <1>0, <4>2 DEF TripOK, TripShaped
        <5>2. step.at = "idle" /\ looked = TRUE
          BY <1>0, <1>1, <4>2, <5>1 DEF StepOK, Up
        <5>3. step = Idle
          BY <1>0, <5>2 DEF StepOK
        <5>4. cur.period = Current /\ Booked + Running < Duration
          BY <4>1, <4>2, <5>1, <5>2, <5>3 DEF HasTime
        <5>5. real' = real + 1
          BY <1>2, <1>11, <4>2
        <5>6. Running' = Running + 1
          BY <2>3, <4>2, <5>4
        <5>7. real <= Booked + Running
          BY <4>1, <5>2
        <5>8. Duration \in Nat
          BY TimeAssumption
        <5>9. real' <= Duration /\ real' <= Booked' + Running'
          BY <1>0, <2>2, <5>4, <5>5, <5>6, <5>7, <5>8
        <5> QED BY <1>3, <2>1, <5>2, <5>4, <5>9
      <4>3. CASE ~(Up /\ trip.on /\ ~trip.late /\ cur.reason = "timer")
        <5>1. real' = real
          BY <1>2, <1>11, <4>3
        <5>2. step'.at = "check" => real' <= Booked'
          BY <1>3, <2>2, <4>1, <5>1
        <5>4. step'.at # "check" => real' <= Booked' + Running'
          <6> DEFINE u == Running'
          <6>1. u \in Nat /\ Running <= u
            BY <2>3
          <6> HIDE DEF u
          <6>2. step'.at # "check" => real' <= Booked' + u
            BY <1>0, <1>3, <2>2, <4>1, <5>1, <6>1
          <6> QED BY <6>2 DEF u
        <5>3. cur'.reason = "timer" /\ cur'.period # Current' => Booked' = 0
          BY <1>3, <2>1, <2>2, <4>1
        <5> QED BY <4>1, <5>1, <5>2, <5>3, <5>4
      <4> QED BY <4>2, <4>3
    <3> QED BY <2>4, <3>1 DEF TimeOK
  <2>6. TimerNoted' = TimerNoted /\ HuntNoted' = HuntNoted /\ Unnoticed' = Unnoticed
    BY <1>3, <2>1 DEF TimerNoted, HuntNoted, huntTarget, Unnoticed
  <2>7. HandOK'
    BY <1>0, <1>3, <2>1, <2>6 DEF HandOK
  <2> QED BY <1>7, <1>8, <1>9, <2>5, <2>7 DEF IInv
<1> QED BY <1>10, <1>11

-----------------------------------------------------------------------------
(* The theorems. *)

LEMMA Starts ==
    ASSUME Init
    PROVE  IInv
<1> DEFINE s == [anchor |-> 0, period |-> 0, spent |-> 0, done |-> FALSE]
<1>1. /\ pools = Pools /\ mark \in Marks /\ now = 0 /\ cur = NoAway /\ sched = s
      /\ file = [away |-> NoAway, sched |-> sched] /\ hold = FALSE /\ step = Idle
      /\ trip = [on |-> FALSE, from |-> active, fallback |-> fallback, touched |-> FALSE, cut |-> FALSE, late |-> FALSE]
      /\ hand = "nobody" /\ real = 0 /\ looked = FALSE
  BY DEF Init
<1>2. s \in Scheds /\ s.anchor = 0 /\ s.period = 0 /\ s.spent = 0
  BY DEF Scheds
<1> HIDE DEF s
<1>3. PeriodOf(0, 0) = 0
  BY Periods
<1>4. cur.reason = "none" /\ step.at = "idle" /\ trip.on = FALSE
  BY <1>1 DEF NoAway, Idle
<1>5. SchedOK(sched)
  BY <1>1, <1>2, <1>3 DEF SchedOK
<1>6. RecordsOK
  BY <1>1, <1>5 DEF RecordsOK, AwayOK
<1>7. FarmOK
  BY <1>1, InputAssumption DEF FarmOK
<1>8. StepOK
  BY <1>1, <1>4 DEF StepOK
<1>9. FileOK
  BY <1>1 DEF FileOK
<1>10. TripOK
  <2>1. TripShaped(trip)
    BY <1>1 DEF TripShaped
  <2> QED BY <1>4, <2>1 DEF TripOK
<1>11. TimeOK
  <2>1. Booked = 0 /\ Running = 0
    BY <1>1, <1>2, <1>4 DEF Booked, Running
  <2>2. HasTime
    BY <1>1 DEF HasTime
  <2> QED BY <1>1, <1>4, <2>1, <2>2, TimeAssumption DEF TimeOK
<1>12. HandOK
  BY <1>1, <1>4 DEF HandOK
<1> QED BY <1>6, <1>7, <1>8, <1>9, <1>10, <1>11, <1>12 DEF IInv

LEMMA NextKeeps ==
    ASSUME IInv, [Next]_vars
    PROVE  IInv'
<1>1. CASE Step
  BY <1>1, StepKeeps
<1>2. CASE Carry
  BY <1>2, CarryKeeps
<1>3. CASE Operate
  BY <1>3, StartNowKeeps, ManualKeeps, DeleteKeeps, SetFallbackKeeps, MarkKeeps, SetModesKeeps DEF Operate
<1>4. CASE ProfitCheck
  BY <1>4, RestKeeps, ProfitSwitchKeeps DEF ProfitCheck
<1>5. CASE \E c \in Chains : c # <<hard, live>> /\ Chain(c[1], c[2])
  BY <1>5, ChainKeeps
<1>6. CASE RetryDue \/ UNCHANGED vars
  BY <1>6, RestKeeps
<1>7. CASE Minute
  BY <1>7, MinuteKeeps
<1>8. CASE Crash \/ Restart
  BY <1>8, CrashKeeps, RestartKeeps
<1> QED BY <1>1, <1>2, <1>3, <1>4, <1>5, <1>6, <1>7, <1>8 DEF Next

LEMMA AlwaysIInv == Spec => []IInv
<1>1. Init => IInv
  BY Starts
<1>2. IInv /\ [Next]_vars => IInv'
  BY NextKeeps
<1> QED BY <1>1, <1>2, PTL DEF Spec

(* As long as the farm is where the switcher has sent it, timed.json names the
   switch to undo, whatever is interleaved and whenever the program dies
   (leave, save and New in timed.go). *)
THEOREM WayBackKnown == Spec => []WayBackSaved
<1>1. IInv => WayBackSaved
  BY DEF IInv, TripOK, TripShaped, WayBackSaved
<1> QED BY <1>1, AlwaysIInv, PTL

(* The farm is never longer on the timer's target than the set time of a period,
   in any number of stints, across crashes and StartNow (step and ended in
   timed.go), as long as timed.json can be written. *)
THEOREM NeverTooLong == Spec => []StintsFit
<1>1. IInv => StintsFit
  BY DEF IInv, TimeOK, StintsFit
<1> QED BY <1>1, AlwaysIInv, PTL

(* Who was overridden by hand does not take the farm back in the same period,
   or before the next block: no switch is carried out for that reason (left and
   Due, Held in timed.go and hunt.go). *)
THEOREM ChoiceStands == Spec => HandStands
<1>1. IInv /\ [Next]_vars => [LeaveCommit => step.a.reason # hand]_vars
  BY LeaveCommitKeeps
<1> QED BY <1>1, AlwaysIInv, PTL DEF Spec, HandStands

-----------------------------------------------------------------------------
(* Fallback orders. *)

LEMMA OrdersAre == ASSUME NEW s \in Orders PROVE IsOrder(s)
  BY DEF Orders

(* Taking a pool out of an order leaves the others, once each. *)
LEMMA WithoutIs ==
    ASSUME NEW s, IsOrder(s), NEW p
    PROVE  IsOrder(without(s, p)) /\ ToSet(without(s, p)) = ToSet(s) \ {p}
<1>0. s \in Seq(Pools) /\ \A i, j \in DOMAIN s : s[i] = s[j] => i = j
  BY DEF IsOrder
<1>1. CASE p \notin ToSet(s)
  BY <1>1 DEF without
<1>2. CASE p \in ToSet(s)
  <2> DEFINE k == CHOOSE i \in DOMAIN s : s[i] = p
             w == [i \in 1 .. Len(s) - 1 |-> IF i < k THEN s[i] ELSE s[i + 1]]
  <2>1. k \in 1 .. Len(s) /\ s[k] = p
    BY <1>0, <1>2 DEF ToSet
  <2>2. without(s, p) = w
    BY <1>2 DEF without
  <2> HIDE DEF k
  <2>3. w \in Seq(Pools) /\ DOMAIN w = 1 .. Len(s) - 1
    BY <1>0, <2>1
  <2>4. IsOrder(w)
    BY <1>0, <2>1, <2>3 DEF IsOrder
  <2>5. ToSet(w) = ToSet(s) \ {p}
    <3>1. ASSUME NEW i \in DOMAIN w PROVE w[i] \in ToSet(s) \ {p}
      BY <1>0, <2>1, <2>3 DEF ToSet
    <3>2. ASSUME NEW i \in DOMAIN s, s[i] # p PROVE s[i] \in ToSet(w)
      <4>1. CASE i < k
        <5>1. i \in DOMAIN w /\ w[i] = s[i]
          BY <1>0, <4>1, <2>1, <2>3
        <5> QED BY <5>1 DEF ToSet
      <4>2. CASE i > k
        <5>1. i - 1 \in 1 .. Len(s) - 1 /\ ~(i - 1 < k) /\ (i - 1) + 1 = i
          BY <1>0, <4>2, <3>2, <2>1
        <5>2. i - 1 \in DOMAIN w /\ w[i - 1] = s[(i - 1) + 1]
          BY <5>1, <2>3
        <5>3. w[i - 1] = s[i]
          BY <5>1, <5>2
        <5> QED BY <5>2, <5>3 DEF ToSet
      <4> QED BY <1>0, <4>1, <4>2, <2>1, <3>2
    <3>3. ToSet(w) \subseteq ToSet(s) \ {p}
      BY <3>1 DEF ToSet
    <3>4. ToSet(s) \ {p} \subseteq ToSet(w)
      BY <3>2 DEF ToSet
    <3> QED BY <3>3, <3>4
  <2> QED BY <2>2, <2>4, <2>5
<1> QED BY <1>1, <1>2

LEMMA FirstIs ==
    ASSUME NEW s, IsOrder(s), NEW p \in Pools, p \notin ToSet(s)
    PROVE  IsOrder(<<p>> \o s) /\ ToSet(<<p>> \o s) = ToSet(s) \cup {p}
<1> DEFINE f == <<p>> \o s
<1>0. s \in Seq(Pools) /\ \A i, j \in DOMAIN s : s[i] = s[j] => i = j
  BY DEF IsOrder
<1>1. /\ f \in Seq(Pools) /\ DOMAIN f = 1 .. Len(s) + 1 /\ f[1] = p
      /\ \A i \in 2 .. Len(s) + 1 : f[i] = s[i - 1] /\ i - 1 \in DOMAIN s
  BY <1>0
<1>2. \A i \in DOMAIN s : i + 1 \in DOMAIN f /\ f[i + 1] = s[i]
  BY <1>0, <1>1
<1> HIDE DEF f
<1>3. \A i \in DOMAIN f : i = 1 \/ (i \in 2 .. Len(s) + 1 /\ f[i] # p)
  <2> SUFFICES ASSUME NEW i \in DOMAIN f, i # 1 PROVE i \in 2 .. Len(s) + 1 /\ f[i] # p
    OBVIOUS
  <2>1. i \in 2 .. Len(s) + 1
    BY <1>0, <1>1
  <2> QED BY <1>1, <2>1 DEF ToSet
<1>4. IsOrder(f)
  <2> SUFFICES ASSUME NEW i \in DOMAIN f, NEW j \in DOMAIN f, f[i] = f[j] PROVE i = j
    BY <1>1 DEF IsOrder
  <2>1. CASE i = 1 \/ j = 1
    BY <1>1, <1>3, <2>1
  <2>2. CASE i \in 2 .. Len(s) + 1 /\ j \in 2 .. Len(s) + 1
    <3>1. i - 1 = j - 1
      BY <1>0, <1>1, <2>2
    <3> QED BY <2>2, <3>1
  <2> QED BY <1>3, <2>1, <2>2
<1>5. ToSet(f) = ToSet(s) \cup {p}
  <2>1. ToSet(f) \subseteq ToSet(s) \cup {p}
    BY <1>1, <1>3 DEF ToSet
  <2>2. ToSet(s) \cup {p} \subseteq ToSet(f)
    BY <1>1, <1>2 DEF ToSet
  <2> QED BY <2>1, <2>2
<1> QED BY <1>4, <1>5 DEF f

(* What is left of an order none of whose pools is gone is that order. *)
LEMMA NoneGone ==
    ASSUME NEW s, IsOrder(s), NEW t, IsOrder(t), NEW skip,
           ToSet(s) \subseteq pools \ {skip}, IsExistingOnce(t, s, skip)
    PROVE  t = s
<1>1. /\ s \in Seq(Pools) /\ \A i, j \in DOMAIN s : s[i] = s[j] => i = j
      /\ t \in Seq(Pools) /\ \A i, j \in DOMAIN t : t[i] = t[j] => i = j
      /\ DOMAIN s = 1 .. Len(s) /\ DOMAIN t = 1 .. Len(t) /\ Len(s) \in Nat /\ Len(t) \in Nat
  BY DEF IsOrder
<1>2. ToSet(t) = ToSet(s)
  BY DEF IsExistingOnce
<1>3. \A i \in DOMAIN t : \E k \in DOMAIN s : s[k] = t[i]
  BY <1>2 DEF ToSet
<1>4. \A k \in DOMAIN s : \E i \in DOMAIN t : s[k] = t[i]
  BY <1>2 DEF ToSet
<1>5. \A i, j \in DOMAIN t, k, l \in DOMAIN s : i < j /\ s[k] = t[i] /\ s[l] = t[j] => k < l
  BY DEF IsExistingOnce
<1> DEFINE Differ == {i \in DOMAIN s : i \notin DOMAIN t \/ t[i] # s[i]}
           Less == OpToRel(<, Nat)
<1>6. \A x, y \in Nat : <<x, y>> \in Less <=> x < y
  BY DEF OpToRel
<1>7. IsWellFoundedOn(Less, Nat)
  BY NatLessThanWellFounded
<1> HIDE DEF Less
<1>8. Differ = {}
  <2> SUFFICES ASSUME Differ # {} PROVE FALSE
    OBVIOUS
  <2>1. Differ \subseteq Nat
    BY <1>1
  <2>2. PICK d \in Differ : \A i \in Differ : ~(<<i, d>> \in Less)
    BY <1>7, <2>1, WFMin
  <2>3. d \in 1 .. Len(s) /\ (d \in DOMAIN t => t[d] # s[d])
    BY <1>1, <2>2
  <2>4. \A i \in DOMAIN s : i < d => i \in DOMAIN t /\ t[i] = s[i]
    BY <1>1, <1>6, <2>1, <2>2
  <2>5. PICK j \in DOMAIN t : s[d] = t[j]
    BY <1>1, <1>4, <2>3
  <2>6. j > d
    <3>1. j < d => j \in DOMAIN s /\ t[j] = s[j]
      BY <1>1, <2>3, <2>4, <2>5
    <3>2. ~(j < d)
      BY <1>1, <2>3, <2>5, <3>1
    <3>3. j # d
      BY <2>3, <2>5
    <3> QED BY <1>1, <2>3, <3>2, <3>3
  <2>7. d \in DOMAIN t
    BY <1>1, <2>3, <2>5, <2>6
  <2>8. PICK k \in DOMAIN s : s[k] = t[d]
    BY <1>3, <2>7
  <2>9. k < d
    BY <1>1, <1>5, <2>3, <2>5, <2>6, <2>7, <2>8
  <2>10. t[k] = t[d] /\ k \in DOMAIN t
    BY <2>4, <2>8, <2>9
  <2> QED BY <1>1, <2>3, <2>7, <2>9, <2>10
<1>9. \A i \in 1 .. Len(s) : i \in DOMAIN t /\ t[i] = s[i]
  BY <1>1, <1>8
<1>10. Len(t) = Len(s)
  <2>1. Len(s) <= Len(t)
    <3>1. Len(s) = 0 \/ Len(s) \in 1 .. Len(s)
      BY <1>1
    <3> QED BY <1>1, <1>9, <3>1
  <2>2. ASSUME Len(t) > Len(s) PROVE FALSE
    <3>1. Len(t) \in DOMAIN t
      BY <1>1, <2>2
    <3>2. PICK k \in DOMAIN s : s[k] = t[Len(t)]
      BY <1>3, <3>1
    <3>3. k \in DOMAIN t /\ t[k] = t[Len(t)] /\ k <= Len(s)
      BY <1>1, <1>9, <3>2
    <3>4. k = Len(t)
      BY <1>1, <3>1, <3>3
    <3> QED BY <1>1, <2>2, <3>3, <3>4
  <2> DEFINE ls == Len(s)
             lt == Len(t)
  <2>3. ls \in Nat /\ lt \in Nat /\ ls <= lt /\ ~(lt > ls)
    BY <1>1, <2>1, <2>2
  <2> HIDE DEF ls, lt
  <2>4. lt = ls
    BY <2>3
  <2> QED BY <2>4 DEF ls, lt
<1> QED BY <1>1, <1>9, <1>10, SeqEqual

-----------------------------------------------------------------------------
(* The roles. *)

RolesOK == active \in pools /\ IsOrder(fallback) /\ ToSet(fallback) \subseteq pools \ {active}

LEMMA ActivatedRoles ==
    ASSUME FarmOK, RolesOK, NEW id, Activated(id)
    PROVE  RolesOK'
<1> DEFINE rest == without(fallback, id)
           others == without(rest, active)
<1>1. /\ id \in pools /\ active' = id /\ pools' = pools
      /\ fallback' = IF active = id THEN rest ELSE <<active>> \o others
  BY DEF Activated
<1>2. IsOrder(rest) /\ ToSet(rest) = ToSet(fallback) \ {id}
  BY WithoutIs DEF RolesOK
<1> HIDE DEF rest
<1>3. IsOrder(others) /\ ToSet(others) = ToSet(rest) \ {active}
  BY <1>2, WithoutIs
<1> HIDE DEF others
<1>4. active \in Pools
  BY DEF FarmOK, RolesOK
<1>5. IsOrder(<<active>> \o others) /\ ToSet(<<active>> \o others) = ToSet(others) \cup {active}
  BY <1>3, <1>4, FirstIs
<1>6. CASE active = id
  BY <1>1, <1>2, <1>6 DEF RolesOK
<1>7. CASE active # id
  <2>1. fallback' = <<active>> \o others
    BY <1>1, <1>7
  <2>2. IsOrder(fallback') /\ ToSet(fallback') = ToSet(others) \cup {active}
    BY <1>5, <2>1
  <2>3. ToSet(others) \subseteq ToSet(fallback) \ {id}
    BY <1>2, <1>3
  <2>4. ToSet(fallback') \subseteq pools' \ {active'}
    BY <1>1, <1>7, <2>2, <2>3 DEF RolesOK
  <2> QED BY <1>1, <2>2, <2>4 DEF RolesOK
<1> QED BY <1>6, <1>7

LEMMA RolesKept ==
    ASSUME IInv, RolesOK, [Next]_vars
    PROVE  RolesOK'
<1>0. FarmOK
  BY DEF IInv
<1>1. CASE UNCHANGED roles
  BY <1>1 DEF RolesOK, roles
<1>2. CASE \E id : Activated(id)
  BY <1>0, <1>2, ActivatedRoles
<1>3. CASE ReturnCommit
  <2>1. /\ active' = step.a.home /\ active' \in pools /\ pools' = pools
        /\ IsOrder(fallback') /\ ToSet(fallback') = (ToSet(step.order) \cap pools) \ {step.a.home}
    BY <1>3, OrdersAre DEF ReturnCommit, IsExistingOnce
  <2> QED BY <2>1 DEF RolesOK
<1>4. CASE \E order \in Orders : ToSet(order) \subseteq pools \ {active} /\ SetFallback(order)
  BY <1>4, OrdersAre DEF SetFallback, RolesOK
<1>5. CASE \E id \in Pools : Delete(id)
  <2>1. PICK id : /\ id \in pools \ {active} /\ pools' = pools \ {id} /\ active' = active
                  /\ fallback' = without(fallback, id)
    BY <1>5 DEF Delete
  <2>2. IsOrder(fallback') /\ ToSet(fallback') = ToSet(fallback) \ {id}
    BY <2>1, WithoutIs DEF RolesOK
  <2> QED BY <2>1, <2>2 DEF RolesOK
<1>6. CASE Step
  BY <1>1, <1>6 DEF Step
<1>7. CASE Carry
  BY <1>1, <1>2, <1>3, <1>7 DEF Carry, LeaveCommit, LeaveFails, LeaveSave, ReturnFails, ReturnSave
<1>8. CASE Operate
  <2>1. CASE StartNow \/ \E id : Mark(id)
    BY <1>1, <2>1 DEF StartNow, Mark
  <2>2. CASE \E id \in Pools : Manual(id)
    BY <1>2, <2>2 DEF Manual
  <2>3. CASE \E m \in Modes : SetModes(m[1], m[2])
    BY <1>1, <2>3 DEF SetModes
  <2> QED BY <1>4, <1>5, <1>8, <2>1, <2>2, <2>3 DEF Operate
<1>9. CASE ProfitCheck
  BY <1>1, <1>2, <1>9 DEF ProfitCheck, ProfitDue, ProfitStays, ProfitSwitch
<1>10. CASE \E c \in Chains : Chain(c[1], c[2])
  BY <1>1, <1>10 DEF Chain
<1>11. CASE RetryDue \/ Minute \/ Crash \/ Restart \/ UNCHANGED vars
  BY <1>1, <1>11 DEF RetryDue, Minute, Crash, Restart, vars
<1> QED BY <1>6, <1>7, <1>8, <1>9, <1>10, <1>11 DEF Next

-----------------------------------------------------------------------------
(* The way back. *)

Way(a) == a # NoAway /\ a.home = trip.from /\ a.fallback = trip.fallback

WayFrom ==
    IsOrder(trip.fallback) /\ trip.from \in pools /\ ToSet(trip.fallback) \subseteq pools \ {trip.from}
WayOut ==
    /\ step.at = "check" => Way(cur) /\ active = trip.from /\ fallback = trip.fallback
    /\ trip.on = TRUE /\ step.at = "switched" => Way(cur)
WayBack ==
    trip.on = TRUE /\ trip.cut = FALSE =>
       /\ Way(file.away) /\ file.away.set = fallback
       /\ step.at # "down" => Way(cur) /\ cur.set = fallback
       /\ step.at = "return" => step.order = trip.fallback
WayOK == trip.touched \in BOOLEAN /\ (trip.touched = FALSE => WayFrom /\ WayOut /\ WayBack)

(* The history of the stay, with one of its fields changed. *)
LEMMA OnIs ==
    ASSUME NEW t, TripShaped(t), NEW v
    PROVE  LET u == [t EXCEPT !.on = v]
           IN  u.on = v /\ u.from = t.from /\ u.fallback = t.fallback /\ u.touched = t.touched /\ u.cut = t.cut
  BY DEF TripShaped

LEMMA LateIs ==
    ASSUME NEW t, TripShaped(t), NEW v
    PROVE  LET u == [t EXCEPT !.late = v]
           IN  u.on = t.on /\ u.from = t.from /\ u.fallback = t.fallback /\ u.touched = t.touched /\ u.cut = t.cut
  BY DEF TripShaped

LEMMA CutIs ==
    ASSUME NEW t, TripShaped(t), NEW v
    PROVE  LET u == [t EXCEPT !.cut = v]
           IN  u.on = t.on /\ u.from = t.from /\ u.fallback = t.fallback /\ u.touched = t.touched /\ u.cut = v
  BY DEF TripShaped

LEMMA FromIs ==
    ASSUME NEW t, TripShaped(t), NEW v
    PROVE  LET u == [t EXCEPT !.on = TRUE, !.from = v, !.cut = TRUE]
           IN  u.on = TRUE /\ u.from = v /\ u.fallback = t.fallback /\ u.touched = t.touched /\ u.cut = TRUE
  BY DEF TripShaped

LEMMA TouchedIs ==
    ASSUME NEW t, TripShaped(t)
    PROVE  /\ [t EXCEPT !.touched = TRUE].touched = TRUE
           /\ [t EXCEPT !.on = FALSE, !.touched = TRUE].touched = TRUE
  BY DEF TripShaped

(* Nothing that the way is about has changed. *)
LEMMA SameWay ==
    ASSUME WayOK, UNCHANGED <<roles, cur, file, step, trip>>
    PROVE  WayOK'
  BY DEF WayOK, WayFrom, WayOut, WayBack, Way, roles

(* Somebody else has changed the roles. *)
LEMMA OtherWay ==
    ASSUME trip'.touched = TRUE
    PROVE  WayOK'
  BY DEF WayOK

(* The switch to undo is written again, for the same way back. *)
LEMMA WaySaved ==
    ASSUME WayOK, UNCHANGED <<roles, step, trip>>, step = Idle,
           NEW b, NEW s, Save(b, s), cur # NoAway => b # NoAway,
           b.home = cur.home, b.fallback = cur.fallback, b.set = cur.set
    PROVE  WayOK'
<1>1. cur' = b /\ (file'.away = b \/ file' = file) /\ step.at = "idle"
  BY DEF Save, Idle
<1>2. WayFrom => WayFrom'
  BY DEF WayFrom, roles
<1>3. WayOut'
  BY <1>1 DEF WayOut
<1>4. WayBack => WayBack'
  BY <1>1 DEF WayBack, Way, roles
<1> QED BY <1>2, <1>3, <1>4 DEF WayOK

(* The farm is not on the trip. *)
LEMMA NoWay ==
    ASSUME WayOK, trip'.on = FALSE, step'.at # "check", pools' = pools,
           trip'.from = trip.from, trip'.fallback = trip.fallback, trip'.touched = trip.touched
    PROVE  WayOK'
<1>1. WayFrom => WayFrom'
  BY DEF WayFrom
<1>2. WayOut' /\ WayBack'
  BY DEF WayOut, WayBack
<1> QED BY <1>1, <1>2 DEF WayOK

LEMMA LeavesWay ==
    ASSUME RolesOK, UNCHANGED roles, NEW reason, NEW target, Leave(reason, target)
    PROVE  WayOK'
<1> DEFINE a == [reason |-> reason, period |-> Turned.period, since |-> now, target |-> target,
                 home |-> active, fallback |-> fallback, set |-> <<>>]
           t == [on |-> FALSE, from |-> active, fallback |-> fallback,
                 touched |-> FALSE, cut |-> FALSE, late |-> FALSE]
<1>1. /\ cur' = a /\ trip' = t /\ step'.at = "check"
      /\ active' = active /\ fallback' = fallback /\ pools' = pools
  BY DEF Leave, Save, roles
<1>2. a # NoAway /\ a.home = active /\ a.fallback = fallback
  BY DEF NoAway
<1>3. t.on = FALSE /\ t.from = active /\ t.fallback = fallback /\ t.touched = FALSE
  OBVIOUS
<1> HIDE DEF a, t
<1>4. WayFrom'
  BY <1>1, <1>3 DEF WayFrom, RolesOK
<1>5. WayOut'
  BY <1>1, <1>2, <1>3 DEF WayOut, Way
<1>6. WayBack'
  BY <1>1, <1>3 DEF WayBack
<1> QED BY <1>1, <1>3, <1>4, <1>5, <1>6 DEF WayOK

LEMMA StepWay ==
    ASSUME IInv, RolesOK, WayOK, Step
    PROVE  WayOK'
<1>0. RecordsOK /\ StepOK /\ TripOK /\ TripShaped(trip) /\ now \in Nat
  BY DEF IInv, TripOK, RecordsOK
<1>1. Decides /\ step = Idle /\ UNCHANGED roles /\ step.at = "idle"
  BY <1>0, StepIs DEF Idle
<1>2. AwayOK(cur) /\ Turned.period \in Nat
  BY <1>0, TurnedIs DEF RecordsOK
<1>3. pools' = pools
  BY <1>1 DEF roles
<1>4. CASE Rests
  BY <1>1, <1>4, SameWay DEF Rests, Rest
<1>5. CASE Finishes
  <2>1. /\ Save(NoAway, [Turned EXCEPT !.done = TRUE]) /\ cur = NoAway
        /\ step' = step /\ trip' = trip
    BY <1>5 DEF Finishes, Keep
  <2> QED BY <1>1, <2>1, WaySaved
<1>6. CASE Renews
  <2> DEFINE b == [cur EXCEPT !.period = Turned.period, !.since = now]
  <2>1. Save(b, Turned) /\ step' = step /\ trip' = trip /\ cur.reason = "timer"
    BY <1>6 DEF Renews, Keep
  <2>2. cur # NoAway
    BY <2>1 DEF NoAway
  <2>3. b # NoAway
    BY <1>0, <1>2, <2>2, SinceNow
  <2>4. b.home = cur.home /\ b.fallback = cur.fallback /\ b.set = cur.set
    BY <1>2, <2>2 DEF AwayOK, Shaped
  <2> HIDE DEF b
  <2> QED BY <1>1, <2>1, <2>3, <2>4, WaySaved
<1>7. CASE \E r \in {"timer", "hunt"} : HandsOver(r)
  <2>1. PICK r \in {"timer", "hunt"} : HandsOver(r)
    BY <1>7
  <2> DEFINE b == [cur EXCEPT !.reason = r, !.period = Turned.period, !.since = now]
             s == Ended(cur, Turned, TRUE)
  <2>2. Save(b, s) /\ step' = step /\ trip' = trip /\ cur # NoAway
    BY <2>1 DEF HandsOver, HandOver, Keep
  <2>3. b = [reason |-> r, period |-> Turned.period, since |-> now, target |-> cur.target,
             home |-> cur.home, fallback |-> cur.fallback, set |-> cur.set]
    BY <1>0, <1>2, <2>2, NewReasonIs
  <2>4. b # NoAway
    BY <1>0, <1>2, <2>2, NewReason
  <2> HIDE DEF b, s
  <2>5. b.home = cur.home /\ b.fallback = cur.fallback /\ b.set = cur.set
    BY <2>3
  <2> QED BY <1>1, <2>2, <2>4, <2>5, WaySaved
<1>8. CASE Leaves("timer", mark) \/ Leaves("hunt", huntTarget)
  BY <1>1, <1>8, LeavesWay DEF Leaves
<1>9. CASE \E final : GoesBack(final)
  <2>1. PICK final : GoesBack(final)
    BY <1>9
  <2>2. CASE active # cur.target \/ cur.home \notin pools
    <3>1. trip' = [trip EXCEPT !.on = FALSE] /\ step' = step
      BY <2>1, <2>2 DEF GoesBack, Back
    <3>2. /\ trip'.on = FALSE /\ trip'.from = trip.from /\ trip'.fallback = trip.fallback
          /\ trip'.touched = trip.touched
      BY <1>0, <3>1, OnIs
    <3> QED BY <1>1, <1>3, <3>1, <3>2, NoWay
  <2>3. CASE ~(active # cur.target \/ cur.home \notin pools)
    <3>1. /\ step' = [at |-> "return", a |-> cur, final |-> final,
                      order |-> IF fallback = cur.set THEN cur.fallback ELSE fallback]
          /\ UNCHANGED <<cur, file, trip>>
      BY <2>1, <2>3 DEF GoesBack, Back
    <3>2. step'.at = "return" /\ (fallback = cur.set => step'.order = cur.fallback)
      BY <3>1
    <3>3. WayFrom => WayFrom'
      BY <1>3, <3>1 DEF WayFrom
    <3>4. WayOut'
      BY <3>2 DEF WayOut
    <3>5. WayBack => WayBack'
      BY <1>1, <3>1, <3>2 DEF WayBack, Way, roles
    <3> QED BY <3>1, <3>3, <3>4, <3>5 DEF WayOK
  <2> QED BY <2>2, <2>3
<1> QED BY <1>1, <1>4, <1>5, <1>6, <1>7, <1>8, <1>9 DEF Decides

LEMMA CarryWay ==
    ASSUME IInv, WayOK, Carry
    PROVE  WayOK'
<1>0. /\ RecordsOK /\ StepOK /\ TripOK /\ TripShaped(trip) /\ AwayOK(cur)
      /\ step.at \in {"check", "switched", "return", "returned"} => step.a = cur /\ cur # NoAway
  BY DEF IInv, TripOK, RecordsOK, StepOK
<1>1. CASE LeaveCommit
  <2>1. /\ step.at = "check" /\ cur' = cur /\ pools' = pools
        /\ trip' = [trip EXCEPT !.on = TRUE, !.from = active, !.cut = TRUE]
        /\ step'.at = "switched"
    BY <1>1 DEF LeaveCommit, Activated, memory
  <2>2. /\ trip'.on = TRUE /\ trip'.from = active /\ trip'.fallback = trip.fallback
        /\ trip'.touched = trip.touched /\ trip'.cut = TRUE
    BY <1>0, <2>1, FromIs
  <2>3. WayBack'
    BY <2>2 DEF WayBack
  <2>4. WayFrom /\ WayOut => WayFrom'
    BY <2>1, <2>2 DEF WayFrom, WayOut
  <2>5. WayOut => WayOut'
    BY <2>1, <2>2 DEF WayOut, Way
  <2> QED BY <2>2, <2>3, <2>4, <2>5 DEF WayOK
<1>2. CASE LeaveFails \/ ReturnSave
  <2>1. step.at \in {"check", "returned"} /\ trip' = trip /\ step'.at = "idle" /\ pools' = pools
    BY <1>2 DEF LeaveFails, ReturnSave, roles, Idle
  <2>2. trip'.on = FALSE
    BY <1>0, <2>1 DEF StepOK
  <2> QED BY <2>1, <2>2, NoWay
<1>3. CASE LeaveSave
  <2> DEFINE b == [cur EXCEPT !.set = fallback]
             v == file'.away # cur'
  <2>1. /\ step.at = "switched" /\ cur' = b /\ step'.at = "idle"
        /\ pools' = pools /\ fallback' = fallback
        /\ trip' = [trip EXCEPT !.cut = v]
    BY <1>0, <1>3 DEF LeaveSave, Save, roles, Idle
  <2>2. b # NoAway
    BY <1>0, <2>1, NewOrder
  <2>3. b.home = cur.home /\ b.fallback = cur.fallback /\ b.set = fallback
    BY <1>0, <2>1 DEF AwayOK, Shaped
  <2> HIDE DEF b
  <2>4. /\ trip'.on = trip.on /\ trip'.from = trip.from /\ trip'.fallback = trip.fallback
        /\ trip'.touched = trip.touched /\ (trip'.cut = FALSE => file'.away = b)
    <3>1. v \/ file'.away = b
      BY <2>1
    <3> HIDE DEF v
    <3>2. /\ trip'.on = trip.on /\ trip'.from = trip.from /\ trip'.fallback = trip.fallback
          /\ trip'.touched = trip.touched /\ trip'.cut = v
      BY <1>0, <2>1, CutIs
    <3> QED BY <3>1, <3>2
  <2>5. WayFrom => WayFrom'
    BY <2>1, <2>4 DEF WayFrom
  <2>6. WayOut'
    BY <2>1 DEF WayOut
  <2>7. WayOut => WayBack'
    BY <2>1, <2>2, <2>3, <2>4 DEF WayOut, WayBack, Way
  <2> QED BY <2>4, <2>5, <2>6, <2>7 DEF WayOK
<1>4. CASE ReturnCommit
  <2>1. trip' = [trip EXCEPT !.on = FALSE] /\ step'.at # "check" /\ pools' = pools
    <3>1. step.at = "return" /\ trip' = [trip EXCEPT !.on = FALSE] /\ pools' = pools
          /\ step' = [step EXCEPT !.at = "returned"]
      BY <1>4 DEF ReturnCommit
    <3>2. step = [at |-> step.at, a |-> cur, final |-> step.final, order |-> step.order]
      BY <1>0, <3>1 DEF StepOK
    <3> QED BY <3>1, <3>2
  <2>2. /\ trip'.on = FALSE /\ trip'.from = trip.from /\ trip'.fallback = trip.fallback
        /\ trip'.touched = trip.touched
    BY <1>0, <2>1, OnIs
  <2> QED BY <2>1, <2>2, NoWay
<1>5. CASE ReturnFails
  <2>1. /\ step.at = "return" /\ step'.at = "idle" /\ trip' = [trip EXCEPT !.late = TRUE]
        /\ cur' = cur /\ file' = file /\ pools' = pools /\ active' = active /\ fallback' = fallback
    BY <1>5 DEF ReturnFails, roles, memory, Idle
  <2>2. /\ trip'.on = trip.on /\ trip'.from = trip.from /\ trip'.fallback = trip.fallback
        /\ trip'.touched = trip.touched /\ trip'.cut = trip.cut
    BY <1>0, <2>1, LateIs
  <2>3. WayFrom => WayFrom'
    BY <2>1, <2>2 DEF WayFrom
  <2>4. WayOut'
    BY <2>1 DEF WayOut
  <2>5. WayBack => WayBack'
    BY <2>1, <2>2 DEF WayBack, Way
  <2> QED BY <2>2, <2>3, <2>4, <2>5 DEF WayOK
<1> QED BY <1>1, <1>2, <1>3, <1>4, <1>5 DEF Carry

LEMMA OperateWay ==
    ASSUME IInv, WayOK, Operate \/ ProfitCheck
    PROVE  WayOK'
<1>0. TripShaped(trip) /\ AwayOK(cur) /\ now \in Nat
  BY DEF IInv, TripOK, RecordsOK
<1>1. CASE StartNow
  <2> DEFINE s == [anchor |-> now, period |-> now, spent |-> 0, done |-> FALSE]
             a == [cur EXCEPT !.reason = "timer", !.period = now, !.since = now]
  <2>1. step = Idle /\ UNCHANGED <<roles, step, trip>>
    BY <1>1 DEF StartNow
  <2>2. Save(cur, s) \/ (cur.reason \in {"timer", "hunt"} /\ Save(a, s))
    BY <1>1 DEF StartNow
  <2>3. CASE cur.reason \in {"timer", "hunt"} /\ Save(a, s)
    <3>1. cur # NoAway
      BY <2>3 DEF NoAway
    <3>2. a = [reason |-> "timer", period |-> now, since |-> now, target |-> cur.target,
               home |-> cur.home, fallback |-> cur.fallback, set |-> cur.set]
      BY <1>0, <3>1, NewReasonIs
    <3>3. a # NoAway
      BY <1>0, <3>1, NewReason
    <3> HIDE DEF a, s
    <3>4. a.home = cur.home /\ a.fallback = cur.fallback /\ a.set = cur.set
      BY <3>2
    <3> QED BY <2>1, <2>3, <3>3, <3>4, WaySaved
  <2>4. CASE Save(cur, s)
    <3> HIDE DEF s
    <3> QED BY <2>1, <2>4, WaySaved
  <2> QED BY <2>2, <2>3, <2>4
<1>2. CASE \/ \E id \in Pools : Manual(id) \/ Delete(id) \/ ProfitSwitch(id)
           \/ \E order : SetFallback(order)
  <2>1. \/ trip' = [trip EXCEPT !.touched = TRUE]
        \/ trip' = [trip EXCEPT !.on = FALSE, !.touched = TRUE]
    BY <1>2 DEF Manual, Delete, ProfitSwitch, SetFallback
  <2>2. trip'.touched = TRUE
    BY <1>0, <2>1, TouchedIs
  <2> QED BY <2>2, OtherWay
<1>3. CASE (\E id : Mark(id)) \/ (\E t, h : SetModes(t, h)) \/ ProfitDue \/ ProfitStays
  <2>1. UNCHANGED <<roles, cur, file, step, trip>>
    BY <1>3 DEF Mark, SetModes, ProfitDue, ProfitStays, memory
  <2> QED BY <2>1, SameWay
<1> QED BY <1>1, <1>2, <1>3, PoolAssumption DEF Operate, ProfitCheck

LEMMA WayKept ==
    ASSUME IInv, RolesOK, WayOK, [Next]_vars
    PROVE  WayOK'
<1>1. CASE Step
  BY <1>1, StepWay
<1>2. CASE Carry
  BY <1>2, CarryWay
<1>3. CASE Operate \/ ProfitCheck
  BY <1>3, OperateWay
<1>4. CASE (\E c \in Chains : Chain(c[1], c[2])) \/ RetryDue \/ Minute \/ UNCHANGED vars
  <2>1. UNCHANGED <<roles, cur, file, step, trip>>
    BY <1>4 DEF Chain, RetryDue, Minute, vars, memory
  <2> QED BY <2>1, SameWay
<1>5. CASE Crash
  <2>1. /\ step'.at = "down" /\ trip' = trip /\ file' = file
        /\ pools' = pools /\ fallback' = fallback
    BY <1>5 DEF Crash, roles
  <2>2. WayFrom => WayFrom'
    BY <2>1 DEF WayFrom
  <2>3. WayOut'
    BY <2>1 DEF WayOut
  <2>4. WayBack => WayBack'
    BY <2>1 DEF WayBack, Way
  <2> QED BY <2>1, <2>2, <2>3, <2>4 DEF WayOK
<1>6. CASE Restart
  <2>1. /\ cur' = file.away /\ step'.at = "idle" /\ trip' = trip /\ file' = file
        /\ pools' = pools /\ fallback' = fallback
    BY <1>6 DEF Restart, roles, Idle
  <2>2. WayFrom => WayFrom'
    BY <2>1 DEF WayFrom
  <2>3. WayOut'
    BY <2>1 DEF WayOut
  <2>4. WayBack => WayBack'
    BY <2>1 DEF WayBack, Way
  <2> QED BY <2>1, <2>2, <2>3, <2>4 DEF WayOK
<1> QED BY <1>1, <1>2, <1>3, <1>4, <1>5, <1>6 DEF Next

LEMMA RolesStart ==
    ASSUME Init
    PROVE  RolesOK /\ WayOK
<1> DEFINE t == [on |-> FALSE, from |-> active, fallback |-> fallback,
                 touched |-> FALSE, cut |-> FALSE, late |-> FALSE]
<1>1. /\ pools = Pools /\ active \in Pools /\ fallback \in Orders /\ active \notin ToSet(fallback)
      /\ step = Idle /\ trip = t
  BY DEF Init
<1>2. IsOrder(fallback)
  BY <1>1, OrdersAre
<1>3. ToSet(fallback) \subseteq Pools
  BY <1>2 DEF IsOrder, ToSet
<1>4. RolesOK
  BY <1>1, <1>2, <1>3 DEF RolesOK
<1>5. step.at = "idle" /\ trip.on = FALSE /\ trip.from = active /\ trip.fallback = fallback /\ trip.touched = FALSE
  BY <1>1 DEF Idle
<1>6. WayOK
  BY <1>4, <1>5 DEF WayOK, WayFrom, WayOut, WayBack, RolesOK
<1> QED BY <1>4, <1>6

LEMMA AlwaysWay == Spec => [](IInv /\ RolesOK /\ WayOK)
<1>1. Init => IInv /\ RolesOK /\ WayOK
  BY Starts, RolesStart
<1>2. (IInv /\ RolesOK /\ WayOK) /\ [Next]_vars => (IInv /\ RolesOK /\ WayOK)'
  BY NextKeeps, RolesKept, WayKept
<1> QED BY <1>1, <1>2, PTL DEF Spec

(* A farm that is on the target comes back to the pool and the fallback order of
   before, whatever the switcher did in between, if nobody else changed the roles
   and the record of the switch got into timed.json (leave and back in timed.go,
   Restore in manager.go). *)
THEOREM RolesReturn == Spec => RolesRestored
<1> DEFINE Restored == ReturnCommit /\ trip.on /\ ~trip.touched /\ ~trip.cut
                          => active' = trip.from /\ fallback' = trip.fallback
<1>1. IInv /\ RolesOK /\ WayOK /\ [Next]_vars => [Restored]_vars
  <2> SUFFICES ASSUME IInv, WayOK, ReturnCommit, trip.on, ~trip.touched, ~trip.cut
               PROVE  active' = trip.from /\ fallback' = trip.fallback
    OBVIOUS
  <2>1. step.at = "return" /\ active' = step.a.home
        /\ fallback' \in Orders /\ IsExistingOnce(fallback', step.order, step.a.home)
    BY DEF ReturnCommit
  <2>2. step.a = cur
    BY <2>1 DEF IInv, StepOK
  <2>3. trip.touched = FALSE /\ trip.on = TRUE /\ trip.cut = FALSE
    BY DEF WayOK, IInv, TripOK, TripShaped
  <2>4. WayFrom /\ Way(cur) /\ step.order = trip.fallback
    BY <2>1, <2>3 DEF WayOK, WayBack
  <2>5. step.a.home = trip.from
    BY <2>2, <2>4 DEF Way
  <2>6. IsOrder(fallback')
    BY <2>1, OrdersAre
  <2>7. fallback' = trip.fallback
    BY <2>1, <2>4, <2>5, <2>6, NoneGone DEF WayFrom
  <2> QED BY <2>1, <2>5, <2>7
<1> QED BY <1>1, AlwaysWay, PTL DEF Spec, RolesRestored

-----------------------------------------------------------------------------
(* Types. *)

Fields(a) ==
    a # NoAway => a.target \in Pools /\ a.home \in Pools /\ a.fallback \in Seq(Pools) /\ a.set \in Seq(Pools)
Typed ==
    Fields(cur) /\ Fields(file.away) /\ hand \in {"nobody", "timer", "hunt", "lost"}

LEMMA SaveTyped ==
    ASSUME Typed, NEW a, NEW s, Save(a, s), Fields(a)
    PROVE  Fields(cur') /\ Fields(file'.away)
  BY DEF Save, Typed

LEMMA SameTyped ==
    ASSUME Typed, UNCHANGED <<cur, file>>
    PROVE  Fields(cur') /\ Fields(file'.away)
  BY DEF Typed

LEMMA NoFields == Fields(NoAway)
  BY DEF Fields

LEMMA LeaveTyped ==
    ASSUME Typed, RolesOK, FarmOK, NEW reason, NEW target \in Pools, Leave(reason, target)
    PROVE  Fields(cur') /\ Fields(file'.away)
<1> DEFINE a == [reason |-> reason, period |-> Turned.period, since |-> now, target |-> target,
                 home |-> active, fallback |-> fallback, set |-> <<>>]
<1>1. Save(a, Turned)
  BY DEF Leave
<1>2. active \in Pools /\ fallback \in Seq(Pools) /\ <<>> \in Seq(Pools)
  BY DEF RolesOK, FarmOK, IsOrder
<1>3. a.target = target /\ a.home = active /\ a.fallback = fallback /\ a.set = <<>>
  OBVIOUS
<1> HIDE DEF a
<1>4. Fields(a)
  BY <1>2, <1>3 DEF Fields
<1> QED BY <1>1, <1>4, SaveTyped

LEMMA StepTyped ==
    ASSUME IInv, RolesOK, Typed, Step
    PROVE  Typed'
<1>0. RecordsOK /\ FarmOK /\ AwayOK(cur) /\ now \in Nat /\ Turned.period \in Nat
  BY TurnedIs DEF IInv, RecordsOK
<1>1. Decides /\ hand' = hand
  BY <1>0, StepIs
<1> SUFFICES Fields(cur') /\ Fields(file'.away)
  BY <1>1 DEF Typed
<1>2. CASE Rests
  BY <1>2, SameTyped DEF Rests, Rest
<1>3. CASE Finishes
  <2>1. Save(NoAway, [Turned EXCEPT !.done = TRUE])
    BY <1>3 DEF Finishes, Keep
  <2> QED BY <2>1, NoFields, SaveTyped
<1>4. CASE Renews
  <2> DEFINE b == [cur EXCEPT !.period = Turned.period, !.since = now]
  <2>1. Save(b, Turned) /\ cur # NoAway
    BY <1>4 DEF Renews, Keep, NoAway
  <2>2. b.target = cur.target /\ b.home = cur.home /\ b.fallback = cur.fallback /\ b.set = cur.set
    BY <1>0, <2>1 DEF AwayOK, Shaped
  <2> HIDE DEF b
  <2>3. Fields(b)
    BY <2>1, <2>2 DEF Fields, Typed
  <2> QED BY <2>1, <2>3, SaveTyped
<1>5. CASE \E r \in {"timer", "hunt"} : HandsOver(r)
  <2>1. PICK r \in {"timer", "hunt"} : HandsOver(r)
    BY <1>5
  <2> DEFINE b == [cur EXCEPT !.reason = r, !.period = Turned.period, !.since = now]
             s == Ended(cur, Turned, TRUE)
  <2>2. Save(b, s) /\ cur # NoAway
    BY <2>1 DEF HandsOver, HandOver, Keep
  <2>3. b = [reason |-> r, period |-> Turned.period, since |-> now, target |-> cur.target,
             home |-> cur.home, fallback |-> cur.fallback, set |-> cur.set]
    BY <1>0, <2>2, NewReasonIs
  <2> HIDE DEF b, s
  <2>4. Fields(b)
    BY <2>2, <2>3 DEF Fields, Typed
  <2> QED BY <2>2, <2>4, SaveTyped
<1>6. CASE Leaves("timer", mark)
  <2>1. mark \in Pools
    BY <1>0, <1>6 DEF Leaves, Due, On, FarmOK
  <2> QED BY <1>0, <1>6, <2>1, LeaveTyped DEF Leaves
<1>7. CASE Leaves("hunt", huntTarget)
  <2>1. huntTarget \in ECash
    <3>1. huntTarget # NoPool
      BY <1>7 DEF Leaves, wants, Hunting
    <3>2. ECash \cap pools # {} => (CHOOSE p \in ECash \cap pools : TRUE) \in ECash
      OBVIOUS
    <3> QED BY <3>1, <3>2 DEF huntTarget
  <2>2. huntTarget \in Pools
    BY <2>1, PoolAssumption
  <2> QED BY <1>0, <1>7, <2>2, LeaveTyped DEF Leaves
<1>8. CASE \E final : GoesBack(final)
  <2>1. UNCHANGED <<cur, file>> \/ Save(NoAway, Ended(cur, Turned, TRUE))
    BY <1>8 DEF GoesBack, Back
  <2> QED BY <2>1, NoFields, SameTyped, SaveTyped
<1> QED BY <1>1, <1>2, <1>3, <1>4, <1>5, <1>6, <1>7, <1>8 DEF Decides

LEMMA CarryTyped ==
    ASSUME IInv, RolesOK, Typed, Carry
    PROVE  Typed'
<1>0. AwayOK(cur) /\ (step.at = "switched" => step.a = cur /\ cur # NoAway)
  BY DEF IInv, RecordsOK, StepOK
<1>1. hand' = hand
  BY DEF Carry, LeaveCommit, LeaveFails, LeaveSave, ReturnCommit, ReturnFails, ReturnSave
<1> SUFFICES Fields(cur') /\ Fields(file'.away)
  BY <1>1 DEF Typed
<1>2. CASE LeaveCommit \/ ReturnCommit \/ ReturnFails
  BY <1>2, SameTyped DEF LeaveCommit, ReturnCommit, ReturnFails, memory
<1>3. CASE LeaveFails \/ ReturnSave
  <2>1. \E s : Save(NoAway, s)
    BY <1>3 DEF LeaveFails, ReturnSave
  <2> QED BY <2>1, NoFields, SaveTyped
<1>4. CASE LeaveSave
  <2> DEFINE b == [cur EXCEPT !.set = fallback]
  <2>1. Save(b, sched) /\ cur # NoAway
    BY <1>0, <1>4 DEF LeaveSave
  <2>2. b.target = cur.target /\ b.home = cur.home /\ b.fallback = cur.fallback /\ b.set = fallback
    BY <1>0, <2>1 DEF AwayOK, Shaped
  <2> HIDE DEF b
  <2>3. Fields(b)
    BY <2>1, <2>2 DEF Fields, Typed, RolesOK, IsOrder
  <2> QED BY <2>1, <2>3, SaveTyped
<1> QED BY <1>2, <1>3, <1>4 DEF Carry

LEMMA StartNowTyped ==
    ASSUME IInv, Typed, StartNow
    PROVE  Typed'
<1>0. AwayOK(cur) /\ now \in Nat
  BY DEF IInv, RecordsOK
<1> DEFINE s == [anchor |-> now, period |-> now, spent |-> 0, done |-> FALSE]
           a == [cur EXCEPT !.reason = "timer", !.period = now, !.since = now]
<1>1. Save(cur, s) \/ (cur.reason \in {"timer", "hunt"} /\ Save(a, s))
  BY DEF StartNow
<1>2. hand' = IF hand = "timer" THEN "nobody" ELSE hand
  BY DEF StartNow
<1>3. CASE Save(cur, s)
  <2> HIDE DEF s
  <2>1. Fields(cur') /\ Fields(file'.away)
    BY <1>3, SaveTyped DEF Typed
  <2> QED BY <1>2, <2>1 DEF Typed
<1>4. CASE cur.reason \in {"timer", "hunt"} /\ Save(a, s)
  <2>1. cur # NoAway
    BY <1>4 DEF NoAway
  <2>2. a = [reason |-> "timer", period |-> now, since |-> now, target |-> cur.target,
             home |-> cur.home, fallback |-> cur.fallback, set |-> cur.set]
    BY <1>0, <2>1, NewReasonIs
  <2> HIDE DEF a, s
  <2>3. Fields(a)
    BY <2>1, <2>2 DEF Fields, Typed
  <2>4. Fields(cur') /\ Fields(file'.away)
    BY <1>4, <2>3, SaveTyped
  <2> QED BY <1>2, <2>4 DEF Typed
<1> QED BY <1>1, <1>3, <1>4

LEMMA TypedKept ==
    ASSUME IInv, RolesOK, Typed, [Next]_vars
    PROVE  Typed'
<1>0. cur # NoAway => cur.reason \in {"timer", "hunt"}
  BY DEF IInv, RecordsOK, AwayOK
<1>1. CASE Step
  BY <1>1, StepTyped
<1>2. CASE Carry
  BY <1>2, CarryTyped
<1>3. CASE Operate
  <2>1. CASE StartNow
    BY <2>1, StartNowTyped
  <2>2. CASE \E id \in Pools : Manual(id)
    <3>1. PICK id \in Pools : Manual(id)
      BY <2>2
    <3>2. UNCHANGED <<cur, file>> /\ hand' = Overridden(id)
      BY <3>1 DEF Manual, memory
    <3>3. hand' \in {"nobody", "timer", "hunt", "lost"}
      BY <1>0, <3>2 DEF Overridden, Typed
    <3> QED BY <3>2, <3>3 DEF Typed
  <2>3. CASE \/ \E id : Delete(id) \/ Mark(id)
             \/ \E order : SetFallback(order)
    BY <2>3 DEF Delete, Mark, SetFallback, memory, Typed
  <2>4. CASE \E m \in Modes : SetModes(m[1], m[2])
    BY <2>4 DEF SetModes, memory, Typed
  <2> QED BY <1>3, <2>1, <2>2, <2>3, <2>4 DEF Operate
<1>4. CASE ProfitCheck
  BY <1>4 DEF ProfitCheck, ProfitDue, ProfitStays, ProfitSwitch, memory, Typed
<1>5. CASE (\E c \in Chains : Chain(c[1], c[2])) \/ RetryDue \/ Minute \/ Crash \/ UNCHANGED vars
  BY <1>5 DEF Chain, RetryDue, Minute, Crash, vars, memory, Typed
<1>6. CASE Restart
  BY <1>6 DEF Restart, Typed
<1> QED BY <1>1, <1>2, <1>3, <1>4, <1>5, <1>6 DEF Next

(* The roles name pools that exist, each of them once, and every record of a
   switch to undo, in memory and in timed.json, is a complete one (Away in
   timed.go). *)
THEOREM TimedTyped == Spec => []TypeOK
<1>1. Init => Typed
  <2> SUFFICES ASSUME Init PROVE Typed
    OBVIOUS
  <2>1. cur = NoAway /\ file = [away |-> NoAway, sched |-> sched] /\ hand = "nobody"
    BY DEF Init
  <2> QED BY <2>1, NoFields DEF Typed
<1>2. IInv /\ RolesOK /\ Typed /\ [Next]_vars => Typed'
  BY TypedKept
<1>3. IInv /\ RolesOK /\ Typed => TypeOK
  <2> SUFFICES ASSUME IInv, RolesOK, Typed PROVE TypeOK
    OBVIOUS
  <2>1. ASSUME NEW a, AwayOK(a), Fields(a) PROVE a \in Aways
    <3>1. now \in Nat
      BY DEF IInv, RecordsOK
    <3>2. CASE a = NoAway
      BY <3>2 DEF Aways
    <3>3. CASE a # NoAway
      <4>1. /\ a.reason \in {"timer", "hunt"} /\ a.period \in Nat /\ a.since \in Nat
            /\ a.target \in Pools /\ a.home \in Pools /\ a.fallback \in Seq(Pools) /\ a.set \in Seq(Pools)
            /\ Shaped(a)
        BY <2>1, <3>1, <3>3 DEF AwayOK, Fields
      <4> QED BY <4>1 DEF Aways, Shaped
    <3> QED BY <3>2, <3>3
  <2>2. cur \in Aways /\ file.away \in Aways
    BY <2>1 DEF IInv, RecordsOK, Typed
  <2>3. sched \in Scheds /\ file.sched \in Scheds
    BY DEF IInv, RecordsOK, SchedOK
  <2>4. step.at \in {"idle", "check", "switched", "return", "returned", "down"}
    BY DEF IInv, StepOK, Idle
  <2>5. pools \subseteq Pools /\ mark \in pools \cup {NoPool}
    BY DEF IInv, FarmOK
  <2> QED BY <2>2, <2>3, <2>4, <2>5 DEF TypeOK, RolesOK, Typed
<1> QED BY <1>1, <1>2, <1>3, AlwaysWay, PTL DEF Spec

================================================================================
