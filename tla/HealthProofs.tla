------------------------------ MODULE HealthProofs ------------------------------
(***************************************************************************)
(* Proofs about the health of a pool, for any addresses, logins, test      *)
(* workers and bounds.                                                     *)
(***************************************************************************)
EXTENDS HealthTracker, TLAPS

Held == [at |-> "held"]
Checks == RunningCheck \cup {NoCheck, Held}

Runs == [version : Nat, worker : Workers]
Begun == [at : {"begun"}, c : Configs, dirty : BOOLEAN]
Captured == [at : {"captured"}, c : Configs, dirty : BOOLEAN, version : Nat, worker : Workers]
Checking == [at : {"checking"}, c : Configs, dirty : BOOLEAN, version : Nat, worker : Workers,
             run : Runs, todo : SUBSET Addrs, left : SUBSET Addrs, ok : BOOLEAN]
Acts == {NoAct} \cup Begun \cup Captured \cup Checking

Base ==
    /\ cfg \in Configs \cup {Absent} /\ worker \in Workers /\ version \in Nat
    /\ dial.at # "idle" => dial.a \in Addrs
    /\ dial.at = "ended" => dial.ok \in BOOLEAN
    /\ \A s \in live : s.a \in Addrs

(* An entry with the thresholds kept, and the good checks that it owes after
   a stall and those that it has make two. *)
Kept(h) ==
    /\ h \in Entry
    /\ h.status # "DOWN" => h.probeFails < probeFailsToDown /\ h.dialFails < dialFailsToDown
    /\ h.status # "UP" => h.probeOKs < probeOKsToUp
    /\ h.clean = TRUE => h.status = "UP" /\ h.probeOKs = probeOKsToUp
Owes(h, n) == n \in 0 .. 2 /\ h.probeOKs + n <= probeOKsToUp /\ (h.status = "UP" => n = 0)

HealthOK ==
    /\ addr \in [Addrs -> Entry] /\ stall \in [Addrs -> 0 .. 2]
    /\ \A a \in Addrs : Kept(addr[a]) /\ Owes(addr[a], stall[a])

(* What has happened to the pool shows in the version, or will when the
   operation or the save that did it gets to the health. *)
Changing == op \in {"edited", "forget"}

ProbeOK ==
    /\ probe.at \in {"idle", "held", "worker", "ready"}
    /\ probe.at # "idle" => probe.a \in Addrs
    /\ probe.at \in {"held", "worker"} => probe.c \in Configs
    /\ probe.at = "worker" => probe.worker \in Workers /\ op = "probe"
    /\ probe.at = "ready" => /\ probe.run \in RunningCheck /\ probe.run.dirty = FALSE
                             /\ probe.run.by = "loop" /\ probe.run.version <= version

GatesOK ==
    /\ check \in [Addrs -> Checks]
    /\ \A a \in Addrs : check[a].at = "running" =>
          /\ check[a].version <= version
          /\ check[a].dirty = TRUE => check[a].version < version \/ Changing

ActOK ==
    /\ act \in Acts
    /\ act.at \in {"captured", "checking"} =>
          /\ act.version <= version
          /\ act.dirty = TRUE => act.version < version \/ Changing \/ store = "saving"
    /\ act.at = "checking" => act.run.version <= version

(* The activation waits for the checks that it began. *)
Waits ==
    /\ act.at = "checking" => act.todo \subseteq act.left
    /\ \A a \in Addrs : check[a].at = "running" /\ check[a].by = "act" =>
          act.at = "checking" /\ a \in act.left /\ a \notin act.todo

IInv == Base /\ HealthOK /\ ProbeOK /\ GatesOK /\ ActOK /\ Waits

-----------------------------------------------------------------------------
(* What happens to the health of one address. *)

LEMMA EntryFields ==
    ASSUME NEW h \in Entry
    PROVE  /\ h = [status |-> h.status, probeFails |-> h.probeFails, probeOKs |-> h.probeOKs,
                   dialFails |-> h.dialFails, clean |-> h.clean]
           /\ h.status \in {"UNKNOWN", "UP", "DOWN"} /\ h.clean \in BOOLEAN
           /\ h.probeFails \in 0 .. 2 /\ h.probeOKs \in 0 .. 2 /\ h.dialFails \in 0 .. 3
  BY DEF Entry, probeFailsToDown, probeOKsToUp, dialFailsToDown

LEMMA FreshKept == Kept(Fresh) /\ Kept(Stalled)
<1>1. Fresh \in Entry
  BY DEF Entry, Fresh, probeFailsToDown, probeOKsToUp, dialFailsToDown
<1>2. Stalled = [Fresh EXCEPT !.status = "DOWN"]
  BY DEF Stalled
<1>3. Stalled \in Entry
  BY <1>1, <1>2 DEF Entry
<1>4. /\ Stalled.status = "DOWN" /\ Stalled.probeOKs = 0 /\ Stalled.clean = FALSE
      /\ Fresh.status = "UNKNOWN" /\ Fresh.probeOKs = 0 /\ Fresh.clean = FALSE
      /\ Fresh.probeFails = 0 /\ Fresh.dialFails = 0
  BY <1>2 DEF Fresh
<1> QED BY <1>1, <1>3, <1>4 DEF Kept, probeFailsToDown, probeOKsToUp, dialFailsToDown

LEMMA PassedFields ==
    ASSUME NEW h \in Entry
    PROVE  /\ ProbePassed(h) \in Entry
           /\ ProbePassed(h).probeFails = 0 /\ ProbePassed(h).dialFails = 0
           /\ ProbePassed(h).probeOKs = Up(h.probeOKs, probeOKsToUp)
           /\ ProbePassed(h).status = IF Up(h.probeOKs, probeOKsToUp) = probeOKsToUp THEN "UP" ELSE h.status
           /\ ProbePassed(h).clean = (h.clean \/ Up(h.probeOKs, probeOKsToUp) = probeOKsToUp)
<1> DEFINE oks == Up(h.probeOKs, probeOKsToUp)
           s == IF oks = probeOKsToUp THEN "UP" ELSE h.status
           c == h.clean \/ oks = probeOKsToUp
           g == [h EXCEPT !.probeFails = 0]
           k == [g EXCEPT !.dialFails = 0]
           l == [k EXCEPT !.probeOKs = oks]
           m == [l EXCEPT !.status = s]
<1>1. oks \in 0 .. 2 /\ s \in {"UNKNOWN", "UP", "DOWN"}
  BY EntryFields DEF Up, probeOKsToUp
<1>2. c \in BOOLEAN
  OBVIOUS
<1>3. ProbePassed(h) = [h EXCEPT !.probeFails = 0, !.dialFails = 0, !.probeOKs = oks, !.status = s, !.clean = c]
  BY DEF ProbePassed
<1> HIDE DEF oks, s, c
<1>4. ProbePassed(h) = [m EXCEPT !.clean = c]
  BY <1>3
<1>a. g \in Entry /\ g.probeFails = 0 /\ g.status = h.status
  BY DEF Entry, probeFailsToDown, probeOKsToUp, dialFailsToDown
<1> HIDE DEF g
<1>b. k \in Entry /\ k.dialFails = 0 /\ k.probeFails = 0 /\ k.status = h.status
  BY <1>a DEF Entry, probeFailsToDown, probeOKsToUp, dialFailsToDown
<1> HIDE DEF k
<1>c. l \in Entry /\ l.dialFails = 0 /\ l.probeFails = 0 /\ l.status = h.status /\ l.probeOKs = oks
  BY <1>1, <1>b DEF Entry, probeFailsToDown, probeOKsToUp, dialFailsToDown
<1> HIDE DEF l
<1>d. m \in Entry /\ m.dialFails = 0 /\ m.probeFails = 0 /\ m.status = s /\ m.probeOKs = oks
  BY <1>1, <1>c DEF Entry, probeFailsToDown, probeOKsToUp, dialFailsToDown
<1> HIDE DEF m
<1>5. ProbePassed(h) \in Entry
  BY <1>2, <1>4, <1>d DEF Entry
<1>6. /\ ProbePassed(h).probeFails = 0 /\ ProbePassed(h).dialFails = 0
      /\ ProbePassed(h).probeOKs = oks /\ ProbePassed(h).status = s
  BY <1>4, <1>d DEF Entry
<1>7. ProbePassed(h).clean = c
  BY <1>4, <1>d DEF Entry
<1> QED BY <1>5, <1>6, <1>7 DEF oks, s, c

LEMMA FailedFields ==
    ASSUME NEW h \in Entry
    PROVE  /\ ProbeFailed(h) \in Entry
           /\ ProbeFailed(h).probeFails = Up(h.probeFails, probeFailsToDown)
           /\ ProbeFailed(h).dialFails = h.dialFails
           /\ ProbeFailed(h).probeOKs = 0 /\ ProbeFailed(h).clean = FALSE
           /\ ProbeFailed(h).status = IF Up(h.probeFails, probeFailsToDown) = probeFailsToDown
                                      THEN "DOWN" ELSE h.status
<1> DEFINE n == Up(h.probeFails, probeFailsToDown)
           s == IF n = probeFailsToDown THEN "DOWN" ELSE h.status
           g == [h EXCEPT !.probeOKs = 0]
           k == [g EXCEPT !.probeFails = n]
           l == [k EXCEPT !.clean = FALSE]
<1>1. n \in 0 .. 2 /\ s \in {"UNKNOWN", "UP", "DOWN"}
  BY EntryFields DEF Up, probeFailsToDown
<1>2. ProbeFailed(h) = [h EXCEPT !.probeOKs = 0, !.probeFails = n, !.clean = FALSE, !.status = s]
  BY DEF ProbeFailed
<1> HIDE DEF n, s
<1>3. ProbeFailed(h) = [l EXCEPT !.status = s]
  BY <1>2
<1>a. g \in Entry /\ g.probeOKs = 0 /\ g.dialFails = h.dialFails
  BY DEF Entry, probeFailsToDown, probeOKsToUp, dialFailsToDown
<1> HIDE DEF g
<1>b. k \in Entry /\ k.probeOKs = 0 /\ k.dialFails = h.dialFails /\ k.probeFails = n
  BY <1>1, <1>a DEF Entry, probeFailsToDown, probeOKsToUp, dialFailsToDown
<1> HIDE DEF k
<1>c. l \in Entry /\ l.probeOKs = 0 /\ l.dialFails = h.dialFails /\ l.probeFails = n /\ l.clean = FALSE
  BY <1>b DEF Entry
<1> HIDE DEF l
<1>4. ProbeFailed(h) \in Entry
  BY <1>1, <1>3, <1>c DEF Entry
<1> QED BY <1>1, <1>3, <1>4, <1>c DEF n, s, Entry

LEMMA ProbedKept ==
    ASSUME NEW h, Kept(h), NEW ok \in BOOLEAN
    PROVE  Kept(Probed(h, ok))
<1>0. h \in Entry
  BY DEF Kept
<1>1. CASE ok
  <2>1. Probed(h, ok) = ProbePassed(h)
    BY <1>1 DEF Probed
  <2>2. ProbePassed(h).clean = TRUE => ProbePassed(h).status = "UP" /\ ProbePassed(h).probeOKs = probeOKsToUp
    <3>1. CASE h.clean = TRUE
      BY <1>0, <3>1, PassedFields DEF Kept, Up, probeOKsToUp
    <3>2. CASE h.clean = FALSE
      <4>1. ProbePassed(h).clean = (Up(h.probeOKs, probeOKsToUp) = probeOKsToUp)
        BY <1>0, <3>2, PassedFields
      <4> QED BY <1>0, <4>1, PassedFields
    <3> QED BY <1>0, <3>1, <3>2, EntryFields
  <2>3. ProbePassed(h).status # "UP" => ProbePassed(h).probeOKs < probeOKsToUp
    BY <1>0, EntryFields, PassedFields DEF Kept, Up, probeOKsToUp
  <2>4. ProbePassed(h).probeFails < probeFailsToDown /\ ProbePassed(h).dialFails < dialFailsToDown
    BY <1>0, PassedFields DEF probeFailsToDown, dialFailsToDown
  <2> QED BY <1>0, <2>1, <2>2, <2>3, <2>4, PassedFields DEF Kept
<1>2. CASE ~ok
  <2>1. Probed(h, ok) = ProbeFailed(h)
    BY <1>2 DEF Probed
  <2>a. /\ ProbeFailed(h).probeFails = Up(h.probeFails, probeFailsToDown)
        /\ ProbeFailed(h).status = IF Up(h.probeFails, probeFailsToDown) = probeFailsToDown
                                   THEN "DOWN" ELSE h.status
    BY <1>0, FailedFields
  <2>b. ProbeFailed(h).probeOKs = 0
    BY <1>0, FailedFields
  <2>2. ProbeFailed(h).status # "DOWN" => ProbeFailed(h).probeFails < probeFailsToDown
    BY <1>0, <2>a, EntryFields DEF Kept, Up, probeFailsToDown
  <2>3. ProbeFailed(h).status # "DOWN" => ProbeFailed(h).dialFails < dialFailsToDown
    BY <1>0, FailedFields DEF Kept
  <2>4. ProbeFailed(h).probeOKs < probeOKsToUp
    BY <2>b DEF probeOKsToUp
  <2> QED BY <1>0, <2>1, <2>2, <2>3, <2>4, FailedFields DEF Kept
<1> QED BY <1>1, <1>2

LEMMA DialedKept ==
    ASSUME NEW h, Kept(h), NEW ok \in BOOLEAN
    PROVE  /\ Kept(Dialed(h, ok))
           /\ Dialed(h, ok).probeOKs \in {0, h.probeOKs}
           /\ Dialed(h, ok).status = "UP" => h.status = "UP"
<1> DEFINE n == Up(h.dialFails, dialFailsToDown)
<1>0. h \in Entry
  BY DEF Kept
<1>1. CASE ok
  <2>1. Dialed(h, ok) = [status |-> h.status, probeFails |-> h.probeFails, probeOKs |-> h.probeOKs,
                         dialFails |-> 0, clean |-> h.clean]
    BY <1>0, <1>1, EntryFields DEF Dialed
  <2>2. Dialed(h, ok) \in Entry
    BY <1>0, <2>1, EntryFields DEF Entry, probeFailsToDown, probeOKsToUp, dialFailsToDown
  <2> QED BY <2>1, <2>2 DEF Kept, dialFailsToDown
<1>2. CASE ~ok /\ (h.status = "DOWN" \/ n < dialFailsToDown)
  <2>1. Dialed(h, ok) = [status |-> h.status, probeFails |-> h.probeFails, probeOKs |-> h.probeOKs,
                         dialFails |-> n, clean |-> h.clean]
    BY <1>0, <1>2, EntryFields DEF Dialed
  <2>2. n \in 0 .. 3
    BY <1>0, EntryFields DEF Up, dialFailsToDown
  <2>3. Dialed(h, ok) \in Entry
    BY <1>0, <2>1, <2>2, EntryFields DEF Entry, probeFailsToDown, probeOKsToUp, dialFailsToDown
  <2> QED BY <1>2, <2>1, <2>3 DEF Kept
<1>3. CASE ~ok /\ h.status # "DOWN" /\ ~(n < dialFailsToDown)
  <2> DEFINE g == [h EXCEPT !.dialFails = n]
             k == [g EXCEPT !.status = "DOWN"]
             l == [k EXCEPT !.probeOKs = 0]
  <2>1. Dialed(h, ok) = [l EXCEPT !.clean = FALSE]
    BY <1>3 DEF Dialed
  <2>2. n \in 0 .. 3
    BY <1>0, EntryFields DEF Up, dialFailsToDown
  <2> HIDE DEF n
  <2>3. g \in Entry
    BY <1>0, <2>2 DEF Entry, dialFailsToDown
  <2> HIDE DEF g
  <2>4. k \in Entry /\ k.status = "DOWN"
    BY <2>3 DEF Entry
  <2> HIDE DEF k
  <2>5. l \in Entry /\ l.status = "DOWN" /\ l.probeOKs = 0
    BY <2>4 DEF Entry, probeOKsToUp
  <2> HIDE DEF l
  <2>6. /\ Dialed(h, ok) \in Entry
        /\ Dialed(h, ok).status = "DOWN" /\ Dialed(h, ok).probeOKs = 0 /\ Dialed(h, ok).clean = FALSE
    BY <2>1, <2>5 DEF Entry
  <2> QED BY <2>6 DEF Kept, probeOKsToUp
<1> QED BY <1>1, <1>2, <1>3

LEMMA ProbedOwes ==
    ASSUME NEW h, Kept(h), NEW n, Owes(h, n), NEW ok \in BOOLEAN
    PROVE  Owes(Probed(h, ok), IF n = 0 THEN n ELSE IF ok THEN n - 1 ELSE probeOKsToUp)
<1>0. h \in Entry
  BY DEF Kept
<1>1. CASE ok
  <2>1. Probed(h, ok) = ProbePassed(h)
    BY <1>1 DEF Probed
  <2>2. /\ ProbePassed(h).probeOKs = Up(h.probeOKs, probeOKsToUp)
        /\ ProbePassed(h).status = IF Up(h.probeOKs, probeOKsToUp) = probeOKsToUp THEN "UP" ELSE h.status
    BY <1>0, PassedFields
  <2>3. Owes(ProbePassed(h), IF n = 0 THEN n ELSE n - 1)
    BY <1>0, <2>2, EntryFields DEF Owes, Up, probeOKsToUp
  <2> QED BY <1>1, <2>1, <2>3
<1>2. CASE ~ok
  <2>1. Probed(h, ok) = ProbeFailed(h)
    BY <1>2 DEF Probed
  <2>2. ProbeFailed(h).probeOKs = 0
    BY <1>0, FailedFields
  <2>3. ProbeFailed(h).status = IF Up(h.probeFails, probeFailsToDown) = probeFailsToDown THEN "DOWN" ELSE h.status
    BY <1>0, FailedFields
  <2>4. Owes(ProbeFailed(h), IF n = 0 THEN n ELSE probeOKsToUp)
    BY <2>2, <2>3 DEF Owes, probeOKsToUp
  <2> QED BY <1>2, <2>1, <2>4
<1> QED BY <1>1, <1>2

LEMMA RunningFields ==
    ASSUME NEW k \in Checks, k.at = "running"
    PROVE  k \in RunningCheck
  BY DEF Checks, NoCheck, Held

LEMMA SpoiltFields ==
    ASSUME NEW k \in RunningCheck, NEW j, j = [k EXCEPT !.dirty = TRUE]
    PROVE  j \in RunningCheck /\ j.at = "running" /\ j.version = k.version /\ j.by = k.by
  BY DEF RunningCheck

LEMMA ActFields ==
    ASSUME NEW r \in Acts
    PROVE  /\ r.at \in {"idle", "begun", "captured", "checking"}
           /\ r.at = "idle" => r = NoAct
           /\ r.at = "begun" => r \in Begun
           /\ r.at = "captured" => r \in Captured
           /\ r.at = "checking" => r \in Checking
  BY DEF Acts, NoAct, Begun, Captured, Checking

LEMMA SpoiltAct ==
    ASSUME NEW r \in Acts, r.at # "idle", NEW j, j = [r EXCEPT !.dirty = TRUE]
    PROVE  /\ j \in Acts /\ j.at = r.at
           /\ r.at \in {"captured", "checking"} => j.version = r.version
           /\ r.at = "checking" => j.run = r.run /\ j.left = r.left /\ j.todo = r.todo
<1>1. CASE r.at = "begun"
  BY <1>1, ActFields DEF Acts, Begun
<1>2. CASE r.at = "captured"
  BY <1>2, ActFields DEF Acts, Captured
<1>3. CASE r.at = "checking"
  <2>1. r \in Checking
    BY <1>3, ActFields
  <2>2. j \in Checking
    BY <2>1 DEF Checking
  <2> QED BY <1>3, <2>1, <2>2 DEF Acts, Checking
<1> QED BY <1>1, <1>2, <1>3, ActFields

-----------------------------------------------------------------------------
(* The health. *)

(* What the steps do to the health of all the addresses is forget, edit, count
   or nothing. *)
LEMMA ForgetOK == ASSUME Forget PROVE HealthOK'
<1>1. addr' = [a \in Addrs |-> Fresh] /\ stall' = [a \in Addrs |-> 0]
  BY DEF Forget
<1>2. Kept(Fresh) /\ Owes(Fresh, 0) /\ Fresh \in Entry
  BY FreshKept DEF Kept, Owes, Fresh, probeOKsToUp
<1> QED BY <1>1, <1>2 DEF HealthOK

(* A step that changes the health of one address. *)
LEMMA OneOK ==
    ASSUME HealthOK, NEW a \in Addrs, NEW h, NEW n, Kept(h), Owes(h, n),
           addr' = [addr EXCEPT ![a] = h], stall' = [stall EXCEPT ![a] = n]
    PROVE  HealthOK'
<1>1. h \in Entry /\ n \in 0 .. 2
  BY DEF Kept, Owes
<1>2. \A b \in Addrs : /\ addr'[b] = IF b = a THEN h ELSE addr[b]
                       /\ stall'[b] = IF b = a THEN n ELSE stall[b]
  BY DEF HealthOK
<1>3. \A b \in Addrs : Kept(addr[b]) /\ Owes(addr[b], stall[b])
  BY DEF HealthOK
<1>4. \A b \in Addrs : Kept(addr'[b]) /\ Owes(addr'[b], stall'[b])
  BY <1>2, <1>3
<1>5. addr' \in [Addrs -> Entry] /\ stall' \in [Addrs -> 0 .. 2]
  BY <1>1 DEF HealthOK
<1> QED BY <1>4, <1>5 DEF HealthOK

LEMMA EditOK == ASSUME HealthOK, EditHealth PROVE HealthOK'
<1>1. /\ addr' = [a \in Addrs |-> IF a \in cfg.addrs THEN addr[a] ELSE Fresh]
      /\ stall' = [a \in Addrs |-> IF a \in cfg.addrs THEN stall[a] ELSE 0]
  BY DEF EditHealth
<1>2. Kept(Fresh) /\ Owes(Fresh, 0) /\ Fresh \in Entry
  BY FreshKept DEF Kept, Owes, Fresh, probeOKsToUp
<1>3. \A a \in Addrs : Kept(addr[a]) /\ Owes(addr[a], stall[a]) /\ addr[a] \in Entry /\ stall[a] \in 0 .. 2
  BY DEF HealthOK
<1>4. addr' \in [Addrs -> Entry] /\ stall' \in [Addrs -> 0 .. 2]
  BY <1>1, <1>2, <1>3
<1>5. \A a \in Addrs : Kept(addr'[a]) /\ Owes(addr'[a], stall'[a])
  BY <1>1, <1>2, <1>3
<1> QED BY <1>4, <1>5 DEF HealthOK

(* A result counts only for a check that nothing has spoilt. *)
LEMMA AcceptClean ==
    ASSUME Base, GatesOK, Free, NEW a \in Addrs, check[a].at = "running", Accept(a)
    PROVE  check[a].dirty = FALSE
<1>1. check[a] \in RunningCheck
  BY RunningFields DEF GatesOK
<1>2. check[a].version = version /\ ~Changing
  BY DEF Accept, Free, Changing
<1>3. ~(check[a].version < version)
  BY <1>2 DEF Base
<1>4. check[a].dirty # TRUE
  BY <1>2, <1>3 DEF GatesOK
<1>5. check[a].dirty \in BOOLEAN
  BY <1>1 DEF RunningCheck
<1> QED BY <1>4, <1>5

LEMMA RecordOK ==
    ASSUME IInv, NEW a \in Addrs, NEW ok \in BOOLEAN, Record(a, ok)
    PROVE  HealthOK'
<1> DEFINE n == stall[a]
           m == IF n = 0 THEN n ELSE IF ok THEN n - 1 ELSE probeOKsToUp
<1>0. HealthOK
  BY DEF IInv
<1>1. CASE Accept(a)
  <2>1. check[a].dirty = FALSE
    BY <1>1, AcceptClean DEF IInv, Record
  <2>2. addr' = [addr EXCEPT ![a] = Probed(addr[a], ok)]
    BY <1>1 DEF Record
  <2>3. stall' = [stall EXCEPT ![a] = IF n = 0 \/ check[a].dirty THEN n ELSE IF ok THEN n - 1 ELSE probeOKsToUp]
    BY <1>1 DEF Record
  <2>4. (IF n = 0 \/ check[a].dirty THEN n ELSE IF ok THEN n - 1 ELSE probeOKsToUp) = m
    BY <2>1
  <2>5. stall' = [stall EXCEPT ![a] = m]
    BY <2>3, <2>4
  <2>6. Kept(addr[a]) /\ Owes(addr[a], n)
    BY <1>0 DEF HealthOK
  <2>7. Kept(Probed(addr[a], ok)) /\ Owes(Probed(addr[a], ok), m)
    BY <2>6, ProbedKept, ProbedOwes
  <2> HIDE DEF m
  <2> QED BY <1>0, <2>2, <2>5, <2>7, OneOK
<1>2. CASE ~Accept(a)
  BY <1>0, <1>2 DEF Record, HealthOK
<1> QED BY <1>1, <1>2

LEMMA DialOK == ASSUME IInv, DialResult PROVE HealthOK'
<1>0. HealthOK /\ dial.a \in Addrs
  BY DEF IInv, Base, DialResult
<1>a. dial.ok \in BOOLEAN
  BY DEF IInv, Base, DialResult
<1> DEFINE h == addr[dial.a]
           g == Dialed(h, dial.ok)
<1>1. Kept(h) /\ Owes(h, stall[dial.a])
  BY <1>0 DEF HealthOK
<1>2. Kept(g) /\ g.probeOKs \in {0, h.probeOKs} /\ (g.status = "UP" => h.status = "UP")
  BY <1>1, <1>a, DialedKept
<1>3. Owes(g, stall[dial.a])
  BY <1>1, <1>2, EntryFields DEF Owes, Kept, probeOKsToUp
<1>4. addr' = [addr EXCEPT ![dial.a] = g] /\ stall' = stall
  BY DEF DialResult
<1>5. stall' = [stall EXCEPT ![dial.a] = stall[dial.a]]
  BY <1>0, <1>4 DEF HealthOK
<1> HIDE DEF g, h
<1> QED BY <1>0, <1>2, <1>3, <1>4, <1>5, OneOK

LEMMA TimeoutOK == ASSUME IInv, NEW s \in live, JobTimeout(s) PROVE HealthOK'
<1>1. HealthOK /\ s.a \in Addrs
  BY DEF IInv, Base
<1>2. Kept(Stalled) /\ Stalled.status = "DOWN" /\ Stalled.probeOKs = 0
  BY FreshKept DEF Stalled, Fresh
<1>3. Owes(Stalled, probeOKsToUp)
  BY <1>2 DEF Owes, probeOKsToUp
<1>4. addr' = [addr EXCEPT ![s.a] = Stalled] /\ stall' = [stall EXCEPT ![s.a] = probeOKsToUp]
  BY DEF JobTimeout
<1> QED BY <1>1, <1>2, <1>3, <1>4, OneOK

(* All the others leave it alone. *)
LEMMA HealthStep == ASSUME IInv, [Next]_vars PROVE HealthOK'
<1>1. CASE \E a \in Addrs, ok \in BOOLEAN : Record(a, ok)
  BY <1>1, RecordOK
<1>2. CASE ForgetHealth \/ SaveListen
  BY <1>2, ForgetOK DEF ForgetHealth, SaveListen
<1>3. CASE EditHealth
  BY <1>3, EditOK DEF IInv
<1>4. CASE DialResult
  BY <1>4, DialOK
<1>5. CASE \E s \in live : JobTimeout(s)
  BY <1>5, TimeoutOK
<1>6. CASE UNCHANGED <<addr, stall>>
  BY <1>6 DEF IInv, HealthOK
<1>7. CASE Operate
  BY <1>6, <1>7 DEF Operate, EditSave, CreateSave, DeleteSave, SwitchAway, ActForce, SavePublish, health
<1>8. CASE SaveRequest \/ Probing \/ \E a \in Addrs : ProbeTake(a)
  BY <1>6, <1>8 DEF SaveRequest, Probing, ProbeWorker, ProbeVersion, ProbeRun, ProbeTake, health
<1>9. CASE ActBegin \/ Activate
  BY <1>6, <1>9 DEF ActBegin, Activate, ActCapture, ActArm, ActCheck, ActMiss, ActCommit, health
<1>10. CASE \/ \E a \in Addrs : DialStart(a)
            \/ \E ok \in BOOLEAN : DialEnd(ok)
            \/ DialExpires
            \/ \E s \in live : SessionLost(s)
  BY <1>6, <1>10 DEF DialStart, DialEnd, DialExpires, SessionLost, health
<1>11. CASE UNCHANGED vars
  BY <1>6, <1>11 DEF vars, health
<1> QED BY <1>1, <1>2, <1>3, <1>4, <1>5, <1>7, <1>8, <1>9, <1>10, <1>11
        DEF Next, Finish, Dialing, Fails

-----------------------------------------------------------------------------
(* What the checks and an activation rest on. *)

LEMMA Grows ==
    ASSUME Base, [Next]_vars
    PROVE  version' \in Nat /\ version <= version'
<1>1. CASE version' = version \/ version' = version + 1
  BY <1>1 DEF Base
<1>2. CASE Operate
  BY <1>1, <1>2 DEF Operate, EditSave, CreateSave, DeleteSave, SwitchAway, ActForce, SavePublish, health
<1>3. CASE Finish
  BY <1>1, <1>3 DEF Finish, EditHealth, ForgetHealth, SaveListen, SaveRequest, Forget, health
<1>4. CASE Probing \/ \E a \in Addrs : ProbeTake(a)
  BY <1>1, <1>4 DEF Probing, ProbeWorker, ProbeVersion, ProbeRun, ProbeTake, health
<1>5. CASE ActBegin \/ Activate
  BY <1>1, <1>5 DEF ActBegin, Activate, ActCapture, ActArm, ActCheck, ActMiss, ActCommit, health
<1>6. CASE \E a \in Addrs, ok \in BOOLEAN : Record(a, ok)
  BY <1>1, <1>6 DEF Record
<1>7. CASE \/ \E a \in Addrs : DialStart(a)
           \/ Dialing
           \/ Fails
  BY <1>1, <1>7 DEF Dialing, Fails, DialStart, DialEnd, DialExpires, DialResult, SessionLost, JobTimeout, health
<1>8. CASE UNCHANGED vars
  BY <1>1, <1>8 DEF vars, health
<1> QED BY <1>2, <1>3, <1>4, <1>5, <1>6, <1>7, <1>8 DEF Next

(* What has changed stays known. *)
LEMMA StaysChanging ==
    ASSUME IInv, [Next]_vars
    PROVE  Changing => Changing' \/ version < version'
<1>1. CASE op' = op
  BY <1>1 DEF Changing
<1>2. CASE ~Changing
  BY <1>2
<1>3. CASE EditHealth \/ ForgetHealth
  BY <1>3 DEF EditHealth, ForgetHealth, Forget, IInv, Base
<1>4. CASE ProbeVersion
  BY <1>2, <1>4 DEF ProbeVersion, IInv, ProbeOK, Changing
<1>5. CASE Operate
  BY <1>1, <1>2, <1>5 DEF Operate, EditSave, CreateSave, DeleteSave, SwitchAway, ActForce, SavePublish, Free, Changing
<1>6. CASE SaveListen \/ SaveRequest \/ ProbeWorker \/ ProbeRun \/ \E a \in Addrs : ProbeTake(a)
  BY <1>1, <1>2, <1>6 DEF SaveListen, SaveRequest, ProbeWorker, ProbeRun, ProbeTake, Free, Changing
<1>7. CASE ActBegin \/ Activate
  BY <1>1, <1>2, <1>7 DEF ActBegin, Activate, ActCapture, ActArm, ActCheck, ActMiss, ActCommit, Free, Changing
<1>8. CASE \E a \in Addrs, ok \in BOOLEAN : Record(a, ok)
  BY <1>1, <1>8 DEF Record
<1>9. CASE \/ \E a \in Addrs : DialStart(a)
           \/ Dialing
           \/ Fails
  BY <1>1, <1>9 DEF Dialing, Fails, DialStart, DialEnd, DialExpires, DialResult, SessionLost, JobTimeout
<1>10. CASE UNCHANGED vars
  BY <1>1, <1>10 DEF vars
<1> QED BY <1>3, <1>4, <1>5, <1>6, <1>7, <1>8, <1>9, <1>10 DEF Next, Finish, Probing

LEMMA BaseStep == ASSUME IInv, [Next]_vars PROVE Base'
<1>0. version' \in Nat
  BY Grows DEF IInv
<1>1. cfg' \in Configs \cup {Absent} /\ worker' \in Workers
  <2>1. CASE UNCHANGED <<cfg, worker>>
    BY <2>1 DEF IInv, Base
  <2>2. CASE Operate
    BY <2>2 DEF Operate, EditSave, CreateSave, DeleteSave, SwitchAway, ActForce, SavePublish, IInv, Base
  <2>3. CASE Finish
    BY <2>1, <2>3 DEF Finish, EditHealth, ForgetHealth, SaveListen, SaveRequest, config
  <2>4. CASE Probing \/ \E a \in Addrs : ProbeTake(a)
    BY <2>1, <2>4 DEF Probing, ProbeWorker, ProbeVersion, ProbeRun, ProbeTake, config
  <2>5. CASE ActBegin \/ Activate
    BY <2>1, <2>5 DEF ActBegin, Activate, ActCapture, ActArm, ActCheck, ActMiss, ActCommit, config
  <2>6. CASE \E a \in Addrs, ok \in BOOLEAN : Record(a, ok)
    BY <2>1, <2>6 DEF Record, config
  <2>7. CASE (\E a \in Addrs : DialStart(a)) \/ Dialing \/ Fails
    BY <2>1, <2>7 DEF Dialing, Fails, DialStart, DialEnd, DialExpires, DialResult, SessionLost, JobTimeout, config
  <2>8. CASE UNCHANGED vars
    BY <2>1, <2>8 DEF vars, config
  <2> QED BY <2>2, <2>3, <2>4, <2>5, <2>6, <2>7, <2>8 DEF Next
<1>2. /\ dial'.at # "idle" => dial'.a \in Addrs
      /\ dial'.at = "ended" => dial'.ok \in BOOLEAN
      /\ \A s \in live' : s.a \in Addrs
  <2>0. /\ dial.at # "idle" => dial.a \in Addrs
        /\ dial.at = "ended" => dial.ok \in BOOLEAN
        /\ \A s \in live : s.a \in Addrs
    BY DEF IInv, Base
  <2>1. CASE UNCHANGED sessions
    BY <2>0, <2>1 DEF sessions
  <2>2. CASE Operate
    BY <2>1, <2>2 DEF Operate, EditSave, CreateSave, DeleteSave, SwitchAway, ActForce, SavePublish
  <2>3. CASE Finish
    BY <2>1, <2>3 DEF Finish, EditHealth, ForgetHealth, SaveListen, SaveRequest
  <2>4. CASE Probing \/ \E a \in Addrs : ProbeTake(a)
    BY <2>1, <2>4 DEF Probing, ProbeWorker, ProbeVersion, ProbeRun, ProbeTake
  <2>5. CASE ActBegin \/ Activate
    BY <2>1, <2>5 DEF ActBegin, Activate, ActCapture, ActArm, ActCheck, ActMiss, ActCommit
  <2>6. CASE \E a \in Addrs, ok \in BOOLEAN : Record(a, ok)
    BY <2>1, <2>6 DEF Record
  <2>7. CASE \E a \in Addrs : DialStart(a)
    BY <2>0, <2>7 DEF DialStart
  <2>8. CASE DialResult \/ DialExpires
    BY <2>0, <2>8 DEF DialResult, DialExpires, NoDial
  <2>9. CASE \E ok \in BOOLEAN : DialEnd(ok)
    BY <2>0, <2>9 DEF DialEnd, NoDial
  <2>10. CASE Fails
    BY <2>0, <2>10 DEF Fails, SessionLost, JobTimeout
  <2>11. CASE UNCHANGED vars
    BY <2>1, <2>11 DEF vars
  <2> QED BY <2>2, <2>3, <2>4, <2>5, <2>6, <2>7, <2>8, <2>9, <2>10, <2>11 DEF Next, Dialing
<1> QED BY <1>0, <1>1, <1>2 DEF Base

LEMMA StaysSaving ==
    ASSUME IInv, [Next]_vars
    PROVE  store = "saving" => store' = "saving" \/ version < version'
<1>1. CASE UNCHANGED store \/ store # "saving"
  BY <1>1
<1>2. CASE Operate
  BY <1>1, <1>2 DEF Operate, EditSave, CreateSave, DeleteSave, SwitchAway, ActForce, SavePublish
<1>3. CASE EditHealth \/ ForgetHealth \/ SaveRequest
  BY <1>1, <1>3 DEF EditHealth, ForgetHealth, SaveRequest
<1>4. CASE SaveListen
  BY <1>4 DEF SaveListen, Forget, IInv, Base
<1>5. CASE Probing \/ \E a \in Addrs : ProbeTake(a)
  BY <1>1, <1>5 DEF Probing, ProbeWorker, ProbeVersion, ProbeRun, ProbeTake
<1>6. CASE ActBegin \/ Activate
  BY <1>1, <1>6 DEF ActBegin, Activate, ActCapture, ActArm, ActCheck, ActMiss, ActCommit
<1>7. CASE \E a \in Addrs, ok \in BOOLEAN : Record(a, ok)
  BY <1>1, <1>7 DEF Record
<1>8. CASE (\E a \in Addrs : DialStart(a)) \/ Dialing \/ Fails
  BY <1>1, <1>8 DEF Dialing, Fails, DialStart, DialEnd, DialExpires, DialResult, SessionLost, JobTimeout
<1>9. CASE UNCHANGED vars
  BY <1>1, <1>9 DEF vars
<1> QED BY <1>2, <1>3, <1>4, <1>5, <1>6, <1>7, <1>8, <1>9 DEF Next, Finish

(* Nothing else takes the lock while a check asks for the test worker. *)
LEMMA OpProbe ==
    ASSUME [Next]_vars, probe' = probe, op = "probe"
    PROVE  op' = "probe"
<1>1. CASE UNCHANGED op
  BY <1>1
<1>2. CASE Operate
  BY <1>1, <1>2 DEF Operate, EditSave, CreateSave, DeleteSave, SwitchAway, ActForce, SavePublish, Free
<1>3. CASE Finish
  BY <1>1, <1>3 DEF Finish, EditHealth, ForgetHealth, SaveListen, SaveRequest
<1>4. CASE Probing \/ \E a \in Addrs : ProbeTake(a)
  BY <1>1, <1>4 DEF Probing, ProbeWorker, ProbeVersion, ProbeRun, ProbeTake, Free
<1>5. CASE ActBegin \/ Activate
  BY <1>1, <1>5 DEF ActBegin, Activate, ActCapture, ActArm, ActCheck, ActMiss, ActCommit, Free
<1>6. CASE \E a \in Addrs, ok \in BOOLEAN : Record(a, ok)
  BY <1>1, <1>6 DEF Record
<1>7. CASE (\E a \in Addrs : DialStart(a)) \/ Dialing \/ Fails
  BY <1>1, <1>7 DEF Dialing, Fails, DialStart, DialEnd, DialExpires, DialResult, SessionLost, JobTimeout
<1>8. CASE UNCHANGED vars
  BY <1>1, <1>8 DEF vars
<1> QED BY <1>2, <1>3, <1>4, <1>5, <1>6, <1>7, <1>8 DEF Next

LEMMA RunningOK ==
    ASSUME NEW c \in Configs, NEW v \in Nat, NEW w \in Workers, NEW by \in {"loop", "act"}
    PROVE  /\ Running(c, v, w, by) \in RunningCheck /\ Running(c, v, w, by).dirty = FALSE
           /\ Running(c, v, w, by).version = v /\ Running(c, v, w, by).by = by
  BY DEF Running, RunningCheck

LEMMA ProbeStep == ASSUME IInv, [Next]_vars PROVE ProbeOK'
<1>0. Base /\ ProbeOK /\ version' \in Nat /\ version <= version'
  BY Grows DEF IInv
<1>1. CASE UNCHANGED probe
  <2>1. probe.at = "worker" => op' = "probe"
    BY <1>0, <1>1, OpProbe DEF ProbeOK
  <2>2. probe.at = "ready" => probe.run.version <= version'
    BY <1>0 DEF ProbeOK, Base, RunningCheck
  <2> QED BY <1>0, <1>1, <2>1, <2>2 DEF ProbeOK
<1>2. CASE \E a \in Addrs : ProbeTake(a)
  BY <1>0, <1>2 DEF ProbeTake, ProbeOK, Base
<1>3. CASE ProbeWorker
  BY <1>0, <1>3 DEF ProbeWorker, ProbeOK, Base
<1>4. CASE ProbeVersion
  <2>1. CASE StillHas(probe.c, probe.a)
    <3> DEFINE k == Running(probe.c, version, probe.worker, "loop")
    <3>1. probe' = [at |-> "ready", a |-> probe.a, run |-> k] /\ version' = version
      BY <1>4, <2>1 DEF ProbeVersion, health
    <3>2. k \in RunningCheck /\ k.dirty = FALSE /\ k.version = version /\ k.by = "loop"
      <4>1. probe.c \in Configs /\ probe.worker \in Workers /\ version \in Nat /\ "loop" \in {"loop", "act"}
        BY <1>0, <1>4 DEF ProbeVersion, ProbeOK, Base
      <4> QED BY <4>1, RunningOK
    <3>3. probe.a \in Addrs
      BY <1>0, <1>4 DEF ProbeVersion, ProbeOK
    <3> HIDE DEF k
    <3>4. probe'.at = "ready" /\ probe'.a \in Addrs /\ probe'.run = k
      BY <3>1, <3>3
    <3> QED BY <1>0, <3>1, <3>2, <3>4 DEF ProbeOK, Base
  <2>2. CASE ~StillHas(probe.c, probe.a)
    BY <1>4, <2>2 DEF ProbeVersion, ProbeOK
  <2> QED BY <2>1, <2>2
<1>5. CASE ProbeRun
  BY <1>5 DEF ProbeRun, ProbeOK
<1>6. CASE Operate
  BY <1>1, <1>6 DEF Operate, EditSave, CreateSave, DeleteSave, SwitchAway, ActForce, SavePublish, checks
<1>7. CASE Finish
  BY <1>1, <1>7 DEF Finish, EditHealth, ForgetHealth, SaveListen, SaveRequest, checks
<1>8. CASE ActBegin \/ Activate
  BY <1>1, <1>8 DEF ActBegin, Activate, ActCapture, ActArm, ActCheck, ActMiss, ActCommit
<1>9. CASE \E a \in Addrs, ok \in BOOLEAN : Record(a, ok)
  BY <1>1, <1>9 DEF Record
<1>10. CASE (\E a \in Addrs : DialStart(a)) \/ Dialing \/ Fails
  BY <1>1, <1>10 DEF Dialing, Fails, DialStart, DialEnd, DialExpires, DialResult, SessionLost, JobTimeout, checks
<1>11. CASE UNCHANGED vars
  BY <1>1, <1>11 DEF vars, checks
<1> QED BY <1>2, <1>3, <1>4, <1>5, <1>6, <1>7, <1>8, <1>9, <1>10, <1>11 DEF Next, Probing

-----------------------------------------------------------------------------
(* The gates. *)

LEMMA GatesSame == ASSUME IInv, [Next]_vars, UNCHANGED check PROVE GatesOK'
<1>1. version \in Nat /\ version' \in Nat /\ version <= version' /\ (Changing => Changing' \/ version < version')
  BY Grows, StaysChanging DEF IInv, Base
<1>2. \A a \in Addrs : check[a].at = "running" => check[a].version \in Nat
  BY RunningFields DEF IInv, GatesOK, RunningCheck
<1>3. GatesOK
  BY DEF IInv
<1> QED BY <1>1, <1>2, <1>3 DEF GatesOK

LEMMA GatesOne ==
    ASSUME IInv, [Next]_vars, NEW a \in Addrs, NEW k \in Checks, check' = [check EXCEPT ![a] = k],
           k.at = "running" => k.version <= version' /\ k.dirty = FALSE
    PROVE  GatesOK'
<1>1. version \in Nat /\ version' \in Nat /\ version <= version' /\ (Changing => Changing' \/ version < version')
  BY Grows, StaysChanging DEF IInv, Base
<1>2. \A b \in Addrs : check[b].at = "running" => check[b].version \in Nat
  BY RunningFields DEF IInv, GatesOK, RunningCheck
<1>3. GatesOK
  BY DEF IInv
<1>4. check' \in [Addrs -> Checks] /\ check'[a] = k /\ \A b \in Addrs \ {a} : check'[b] = check[b]
  BY <1>3 DEF GatesOK
<1>5. ASSUME NEW b \in Addrs, check'[b].at = "running"
      PROVE  check'[b].version <= version' /\ (check'[b].dirty = TRUE => check'[b].version < version' \/ Changing')
  <2>1. CASE b = a
    BY <1>4, <1>5, <2>1
  <2>2. CASE b # a
    BY <1>1, <1>2, <1>3, <1>4, <1>5, <2>2 DEF GatesOK
  <2> QED BY <2>1, <2>2
<1> QED BY <1>4, <1>5 DEF GatesOK

LEMMA SpoiltGates ==
    ASSUME IInv, Spoil
    PROVE  /\ check' \in [Addrs -> Checks]
           /\ \A a \in Addrs : /\ check'[a].at = "running" <=> check[a].at = "running"
                               /\ check[a].at = "running" => /\ check'[a] \in RunningCheck
                                                             /\ check'[a].version = check[a].version
                                                             /\ check'[a].by = check[a].by
<1>1. check' = [a \in Addrs |-> IF check[a].at = "running" THEN [check[a] EXCEPT !.dirty = TRUE] ELSE check[a]]
  BY DEF Spoil
<1>2. ASSUME NEW a \in Addrs
      PROVE  /\ check'[a] \in Checks
             /\ check'[a].at = "running" <=> check[a].at = "running"
             /\ check[a].at = "running" => /\ check'[a] \in RunningCheck
                                           /\ check'[a].version = check[a].version
                                           /\ check'[a].by = check[a].by
  <2>0. check[a] \in Checks
    BY DEF IInv, GatesOK
  <2>1. CASE check[a].at = "running"
    <3>1. check[a] \in RunningCheck /\ check'[a] = [check[a] EXCEPT !.dirty = TRUE]
      BY <1>1, <2>0, <2>1, RunningFields
    <3> QED BY <2>1, <3>1, SpoiltFields DEF Checks
  <2>2. CASE check[a].at # "running"
    BY <1>1, <2>0, <2>2
  <2> QED BY <2>1, <2>2
<1>3. check' \in [Addrs -> Checks]
  BY <1>1, <1>2
<1> QED BY <1>2, <1>3

LEMMA GatesSpoilt ==
    ASSUME IInv, [Next]_vars, Spoil, Changing' \/ version < version'
    PROVE  GatesOK'
<1>1. version \in Nat /\ version' \in Nat /\ version <= version'
  BY Grows DEF IInv, Base
<1>2. \A a \in Addrs : check[a].at = "running" => check[a].version \in Nat /\ check[a].version <= version
  BY RunningFields DEF IInv, GatesOK, RunningCheck
<1> QED BY <1>1, <1>2, SpoiltGates DEF GatesOK

LEMMA GatesStep == ASSUME IInv, [Next]_vars PROVE GatesOK'
<1>0. Base /\ ProbeOK /\ version' \in Nat /\ version <= version'
  BY Grows DEF IInv
<1>a. NoCheck \in Checks /\ NoCheck.at # "running" /\ Held \in Checks /\ Held.at # "running"
  BY DEF Checks, NoCheck, Held
<1>1. CASE (\E c \in Configs : EditSave(c)) \/ DeleteSave \/ ActForce
  <2>1. Spoil /\ Changing'
    BY <1>1 DEF EditSave, DeleteSave, ActForce, Changing
  <2> QED BY <2>1, GatesSpoilt
<1>2. CASE \E s \in live : JobTimeout(s)
  <2>1. Spoil /\ version < version'
    BY <1>0, <1>2 DEF JobTimeout, Base
  <2> QED BY <2>1, GatesSpoilt
<1>3. ASSUME NEW a \in Addrs, ProbeTake(a) PROVE GatesOK'
  <2>1. check' = [check EXCEPT ![a] = Held]
    BY <1>3 DEF ProbeTake, Held
  <2> QED BY <1>a, <2>1, GatesOne
<1>4. CASE ProbeVersion
  <2>1. CASE check' = check
    BY <2>1, GatesSame
  <2>2. CASE check' = [check EXCEPT ![probe.a] = NoCheck]
    BY <1>0, <1>4, <1>a, <2>2, GatesOne DEF ProbeOK, ProbeVersion
  <2> QED BY <1>4, <2>1, <2>2 DEF ProbeVersion
<1>5. CASE ProbeRun
  <2>1. probe.a \in Addrs /\ probe.run \in Checks /\ probe.run.version <= version /\ probe.run.dirty = FALSE
    BY <1>0, <1>5 DEF ProbeRun, ProbeOK, Checks
  <2>2. check' = [check EXCEPT ![probe.a] = probe.run] /\ version' = version
    BY <1>5 DEF ProbeRun, health
  <2> QED BY <2>1, <2>2, GatesOne
<1>6. ASSUME NEW a \in Addrs, NEW ok \in BOOLEAN, Record(a, ok) PROVE GatesOK'
  <2>1. check' = [check EXCEPT ![a] = NoCheck]
    BY <1>6 DEF Record
  <2> QED BY <1>a, <2>1, GatesOne
<1>7. ASSUME NEW a \in Addrs, ActCheck(a) PROVE GatesOK'
  <2> DEFINE k == Running(act.c, act.run.version, act.run.worker, "act")
  <2>1. act \in Checking /\ act.run.version <= version
    BY <1>7, ActFields DEF IInv, ActOK, ActCheck
  <2>2. act.c \in Configs /\ act.run.version \in Nat /\ act.run.worker \in Workers
    BY <2>1 DEF Checking, Runs
  <2>3. k \in Checks /\ k.dirty = FALSE /\ k.version <= version
    <3>1. k \in RunningCheck /\ k.dirty = FALSE /\ k.version = act.run.version
      BY <2>2 DEF Running, RunningCheck
    <3> HIDE DEF k
    <3> QED BY <2>1, <3>1 DEF Checks
  <2>4. check' = [check EXCEPT ![a] = k] /\ version' = version
    BY <1>7 DEF ActCheck, health
  <2> HIDE DEF k
  <2> QED BY <2>3, <2>4, GatesOne
<1>8. CASE UNCHANGED check
  BY <1>8, GatesSame
<1>9. CASE \/ SwitchAway
           \/ \E c \in Configs : CreateSave(c)
           \/ \E w \in Workers : SavePublish(w)
  BY <1>8, <1>9 DEF SwitchAway, CreateSave, SavePublish, checks
<1>10. CASE Finish \/ ProbeWorker
  BY <1>8, <1>10 DEF Finish, EditHealth, ForgetHealth, SaveListen, SaveRequest, ProbeWorker, checks
<1>11. CASE \/ ActBegin \/ ActCapture \/ ActArm \/ ActCommit
            \/ \E a \in Addrs : ActMiss(a)
  BY <1>8, <1>11 DEF ActBegin, ActCapture, ActArm, ActCommit, ActMiss
<1>12. CASE \/ \E a \in Addrs : DialStart(a)
            \/ Dialing
            \/ \E s \in live : SessionLost(s)
  BY <1>8, <1>12 DEF Dialing, DialStart, DialEnd, DialExpires, DialResult, SessionLost, checks
<1>13. CASE UNCHANGED vars
  BY <1>8, <1>13 DEF vars, checks
<1> QED BY <1>1, <1>2, <1>3, <1>4, <1>5, <1>6, <1>7, <1>9, <1>10, <1>11, <1>12, <1>13
        DEF Next, Operate, Probing, Activate, Fails

-----------------------------------------------------------------------------
(* The activation. *)

(* A step that leaves the time that act was captured alone, and spoils it only
   together with what is about to change the version. *)
LEMMA ActKeeps ==
    ASSUME IInv, [Next]_vars, act' \in Acts, act'.at = act.at,
           act.at \in {"captured", "checking"} =>
               /\ act'.version = act.version
               /\ act'.dirty = TRUE => act.dirty = TRUE \/ Changing' \/ store' = "saving" \/ version < version',
           act.at = "checking" => act'.run = act.run
    PROVE  ActOK'
<1>1. /\ version \in Nat /\ version' \in Nat /\ version <= version'
      /\ Changing => Changing' \/ version < version'
      /\ store = "saving" => store' = "saving" \/ version < version'
  BY Grows, StaysChanging, StaysSaving DEF IInv, Base
<1>2. ActOK
  BY DEF IInv
<1>3. CASE act.at \in {"captured", "checking"}
  <2>1. act.version \in Nat
    BY <1>2, <1>3, ActFields DEF ActOK, Captured, Checking
  <2>2. act.version <= version'
    BY <1>1, <1>2, <1>3, <2>1 DEF ActOK
  <2>3. act'.dirty = TRUE => act.version < version' \/ Changing' \/ store' = "saving"
    BY <1>1, <1>2, <1>3, <2>1 DEF ActOK
  <2>4. act.at = "checking" => act.run.version <= version'
    <3>1. act.at = "checking" => act.run.version \in Nat
      BY <1>2, ActFields DEF ActOK, Checking, Runs
    <3> QED BY <1>1, <1>2, <3>1 DEF ActOK
  <2> QED BY <1>3, <2>2, <2>3, <2>4 DEF ActOK
<1>4. CASE act.at \notin {"captured", "checking"}
  BY <1>4 DEF ActOK
<1> QED BY <1>3, <1>4

LEMMA ActSame == ASSUME IInv, [Next]_vars, act' = act PROVE ActOK'
<1>1. act \in Acts
  BY DEF IInv, ActOK
<1> QED BY <1>1, ActKeeps

LEMMA ActSpoilt ==
    ASSUME IInv, [Next]_vars, SpoilAct, Changing' \/ store' = "saving" \/ version < version'
    PROVE  ActOK'
<1>0. act \in Acts
  BY DEF IInv, ActOK
<1>1. CASE act.at = "idle"
  BY <1>1, ActSame DEF SpoilAct
<1>2. CASE act.at # "idle"
  <2>1. act' = [act EXCEPT !.dirty = TRUE]
    BY <1>2 DEF SpoilAct
  <2>2. /\ act' \in Acts /\ act'.at = act.at
        /\ act.at \in {"captured", "checking"} => act'.version = act.version
        /\ act.at = "checking" => act'.run = act.run
    BY <1>0, <1>2, <2>1, SpoiltAct
  <2> QED BY <2>2, ActKeeps
<1> QED BY <1>1, <1>2

(* What a check of the activation does to it. *)
LEMMA ActMoves ==
    ASSUME IInv, NEW a \in Addrs,
           \/ ActCheck(a)
           \/ ActMiss(a)
           \/ (\E ok \in BOOLEAN : Record(a, ok)) /\ check[a].by = "act"
    PROVE  /\ act \in Checking /\ act' \in Checking /\ act'.at = act.at
           /\ act'.version = act.version /\ act'.dirty = act.dirty /\ act'.run = act.run
           /\ ActCheck(a) => act'.left = act.left /\ act'.todo = act.todo \ {a}
           /\ ActMiss(a) => act'.left = act.left \ {a} /\ act'.todo = act.todo \ {a}
           /\ ~ActCheck(a) /\ ~ActMiss(a) => act'.left = act.left \ {a} /\ act'.todo = act.todo
<1>1. act \in Checking
  <2>1. act.at = "checking"
    BY DEF IInv, Waits, ActCheck, ActMiss, Record
  <2> QED BY <2>1, ActFields DEF IInv, ActOK
<1>2. act.todo \in SUBSET Addrs /\ act.left \in SUBSET Addrs /\ act.ok \in BOOLEAN /\ act.at = "checking"
  BY <1>1 DEF Checking
<1>3. CASE ActCheck(a)
  <2>1. act' = [act EXCEPT !.todo = act.todo \ {a}] /\ act.todo \ {a} \in SUBSET Addrs
    BY <1>2, <1>3 DEF ActCheck
  <2>2. ~ActMiss(a)
    <3>1. check' # check
      BY <1>3 DEF ActCheck, IInv, GatesOK, NoCheck, Running
    <3> QED BY <3>1 DEF ActMiss
  <2>3. /\ act' \in Checking /\ act'.at = "checking" /\ act'.todo = act.todo \ {a} /\ act'.left = act.left
        /\ act'.version = act.version /\ act'.dirty = act.dirty /\ act'.run = act.run
    BY <1>1, <2>1 DEF Checking
  <2> QED BY <1>1, <1>2, <1>3, <2>2, <2>3
<1>4. CASE ActMiss(a)
  <2>1. /\ act' = [act EXCEPT !.todo = act.todo \ {a}, !.left = act.left \ {a}]
        /\ act.todo \ {a} \in SUBSET Addrs /\ act.left \ {a} \in SUBSET Addrs
    BY <1>2, <1>4 DEF ActMiss
  <2>2. ~ActCheck(a)
    <3>1. check' = check
      BY <1>4 DEF ActMiss
    <3> QED BY <3>1 DEF ActCheck, IInv, GatesOK, NoCheck, Running
  <2>3. /\ act' \in Checking /\ act'.at = "checking"
        /\ act'.todo = act.todo \ {a} /\ act'.left = act.left \ {a}
        /\ act'.version = act.version /\ act'.dirty = act.dirty /\ act'.run = act.run
    BY <1>1, <2>1 DEF Checking
  <2> QED BY <1>1, <1>2, <1>4, <2>2, <2>3
<1>5. ASSUME NEW ok \in BOOLEAN, Record(a, ok), check[a].by = "act", ~ActCheck(a), ~ActMiss(a)
      PROVE  /\ act' \in Checking /\ act'.at = act.at
             /\ act'.version = act.version /\ act'.dirty = act.dirty /\ act'.run = act.run
             /\ act'.left = act.left \ {a} /\ act'.todo = act.todo
  <2> DEFINE b == act.ok \/ ok
  <2>1. act' = [act EXCEPT !.left = act.left \ {a}, !.ok = b] /\ act.left \ {a} \in SUBSET Addrs
    BY <1>2, <1>5 DEF Record
  <2>2. b \in BOOLEAN
    OBVIOUS
  <2> HIDE DEF b
  <2>3. /\ act' \in Checking /\ act'.at = "checking" /\ act'.todo = act.todo /\ act'.left = act.left \ {a}
        /\ act'.version = act.version /\ act'.dirty = act.dirty /\ act'.run = act.run
    BY <1>1, <2>1, <2>2 DEF Checking
  <2> QED BY <1>2, <2>3
<1> QED BY <1>1, <1>3, <1>4, <1>5

LEMMA ActStep == ASSUME IInv, [Next]_vars PROVE ActOK'
<1>0. Base /\ ActOK /\ act \in Acts
  BY DEF IInv, ActOK
<1>1. CASE (\E c \in Configs : EditSave(c)) \/ DeleteSave \/ ActForce
  <2>1. SpoilAct /\ Changing'
    BY <1>1 DEF EditSave, DeleteSave, ActForce, Spoil, Changing
  <2> QED BY <2>1, ActSpoilt
<1>2. CASE \E w \in Workers : SavePublish(w)
  <2>1. SpoilAct /\ store' = "saving"
    BY <1>2 DEF SavePublish
  <2> QED BY <2>1, ActSpoilt
<1>3. CASE \E s \in live : JobTimeout(s)
  <2>1. SpoilAct /\ version < version'
    BY <1>0, <1>3 DEF JobTimeout, Base, Spoil
  <2> QED BY <2>1, ActSpoilt
<1>4. CASE ActBegin
  <2>1. cfg \in Configs /\ act' = [at |-> "begun", c |-> cfg, dirty |-> FALSE]
    BY <1>0, <1>4 DEF ActBegin, Base
  <2>2. act' \in Begun /\ act'.at = "begun"
    BY <2>1 DEF Begun
  <2> QED BY <2>2 DEF ActOK, Acts
<1>5. CASE ActCapture
  <2>1. act.c \in Configs
    BY <1>0, <1>5, ActFields DEF ActCapture, Begun
  <2>2. act' = [at |-> "captured", c |-> act.c, dirty |-> FALSE, version |-> version, worker |-> worker]
    BY <1>5 DEF ActCapture
  <2>3. act' \in Acts
    BY <1>0, <2>1, <2>2 DEF Captured, Acts, Base
  <2>4. act'.at = "captured" /\ act'.version = version /\ act'.dirty = FALSE /\ version' = version
    BY <1>5, <2>2 DEF ActCapture, health
  <2> QED BY <1>0, <2>3, <2>4 DEF ActOK, Base
<1>6. CASE ActArm
  <2> DEFINE run == [version |-> version, worker |-> worker]
             r == [at |-> "checking", c |-> act.c, dirty |-> act.dirty,
                   version |-> act.version, worker |-> act.worker,
                   run |-> run, todo |-> act.c.addrs, left |-> act.c.addrs, ok |-> FALSE]
  <2>1. act.at = "captured" /\ act \in Captured
    BY <1>0, <1>6, ActFields DEF ActArm
  <2>2. act' = r /\ UNCHANGED <<op, store, version>>
    BY <1>6 DEF ActArm, health
  <2>3. run \in Runs /\ run.version = version
    BY <1>0 DEF Runs, Base
  <2>4. /\ act.c \in Configs /\ act.dirty \in BOOLEAN /\ act.version \in Nat /\ act.worker \in Workers
        /\ act.c.addrs \in SUBSET Addrs
    BY <2>1 DEF Captured, Configs
  <2>5. r \in Checking
    BY <2>3, <2>4 DEF Checking
  <2>6. r.at = "checking" /\ r.version = act.version /\ r.dirty = act.dirty /\ r.run = run
    OBVIOUS
  <2> HIDE DEF r, run
  <2>7. act.version <= version /\ (act.dirty = TRUE => act.version < version \/ Changing \/ store = "saving")
    BY <1>0, <2>1 DEF ActOK
  <2>8. act' \in Acts
    BY <2>2, <2>5 DEF Acts
  <2> QED BY <1>0, <2>2, <2>3, <2>6, <2>7, <2>8 DEF ActOK, Base, Changing
<1>7. ASSUME NEW a \in Addrs, ActCheck(a) \/ ActMiss(a) PROVE ActOK'
  <2>1. /\ act' \in Acts /\ act'.at = act.at
        /\ act'.version = act.version /\ act'.dirty = act.dirty /\ act'.run = act.run
    BY <1>7, ActMoves DEF Acts
  <2> QED BY <2>1, ActKeeps
<1>8. ASSUME NEW a \in Addrs, NEW ok \in BOOLEAN, Record(a, ok) PROVE ActOK'
  <2>1. CASE check[a].by = "act"
    <3>1. /\ act' \in Acts /\ act'.at = act.at
          /\ act'.version = act.version /\ act'.dirty = act.dirty /\ act'.run = act.run
      BY <1>8, <2>1, ActMoves DEF Acts
    <3> QED BY <3>1, ActKeeps
  <2>2. CASE check[a].by # "act"
    BY <1>8, <2>2, ActSame DEF Record
  <2> QED BY <2>1, <2>2
<1>9. CASE ActCommit
  <2>1. act' = NoAct
    BY <1>9 DEF ActCommit
  <2> QED BY <2>1 DEF ActOK, Acts, NoAct
<1>10. CASE UNCHANGED act
  BY <1>10, ActSame
<1>11. CASE SwitchAway \/ \E c \in Configs : CreateSave(c)
  BY <1>10, <1>11 DEF SwitchAway, CreateSave, checks
<1>12. CASE Finish \/ Probing \/ \E a \in Addrs : ProbeTake(a)
  BY <1>10, <1>12 DEF Finish, EditHealth, ForgetHealth, SaveListen, SaveRequest, Probing, ProbeWorker,
                      ProbeVersion, ProbeRun, ProbeTake, checks
<1>13. CASE \/ \E a \in Addrs : DialStart(a)
            \/ Dialing
            \/ \E s \in live : SessionLost(s)
  BY <1>10, <1>13 DEF Dialing, DialStart, DialEnd, DialExpires, DialResult, SessionLost, checks
<1>14. CASE UNCHANGED vars
  BY <1>10, <1>14 DEF vars, checks
<1> QED BY <1>1, <1>2, <1>3, <1>4, <1>5, <1>6, <1>7, <1>8, <1>9, <1>11, <1>12, <1>13, <1>14
        DEF Next, Operate, Activate, Fails

(* A step of the background checks takes or leaves a gate. *)
LEMMA WaitsOne ==
    ASSUME IInv, act' = act, NEW a \in Addrs, NEW k, check' = [check EXCEPT ![a] = k],
           k.at # "running" \/ k.by # "act"
    PROVE  Waits'
<1>1. \A b \in Addrs : check'[b] = IF b = a THEN k ELSE check[b]
  BY DEF IInv, GatesOK
<1>2. Waits
  BY DEF IInv
<1> QED BY <1>1, <1>2 DEF Waits

LEMMA WaitsSame == ASSUME IInv, UNCHANGED <<check, act>> PROVE Waits'
  BY DEF IInv, Waits

LEMMA WaitsIdle ==
    ASSUME IInv, act.at # "checking", check' = check, act'.at = "checking" => act'.todo \subseteq act'.left
    PROVE  Waits'
  BY DEF IInv, Waits

LEMMA WaitsAct ==
    ASSUME IInv, SpoilAct,
           \A a \in Addrs : check'[a].at = "running" =>
               check[a].at = "running" /\ check'[a].by = check[a].by
    PROVE  Waits'
<1>0. Waits /\ act \in Acts
  BY DEF IInv, ActOK
<1>1. CASE act.at = "checking"
  <2>1. act' = [act EXCEPT !.dirty = TRUE]
    BY <1>1 DEF SpoilAct
  <2>2. act'.at = act.at /\ act'.left = act.left /\ act'.todo = act.todo
    BY <1>0, <1>1, <2>1, SpoiltAct
  <2> QED BY <1>0, <1>1, <2>2 DEF Waits
<1>2. CASE act.at # "checking"
  <2>1. act'.at # "checking"
    <3>1. CASE act.at = "idle"
      BY <1>2, <3>1 DEF SpoilAct
    <3>2. CASE act.at # "idle"
      BY <1>0, <1>2, <3>2, SpoiltAct DEF SpoilAct
    <3> QED BY <3>1, <3>2
  <2> QED BY <1>0, <1>2, <2>1 DEF Waits
<1> QED BY <1>1, <1>2

LEMMA WaitsStep == ASSUME IInv, [Next]_vars PROVE Waits'
<1>0. Base /\ ProbeOK /\ Waits /\ check \in [Addrs -> Checks]
  BY DEF IInv, GatesOK
<1>a. NoCheck.at # "running" /\ Held.at # "running"
  BY DEF NoCheck, Held
<1>1. CASE Spoil
  <2>1. SpoilAct
    BY <1>1 DEF Spoil
  <2> QED BY <1>1, <2>1, SpoiltGates, WaitsAct
<1>2. CASE \E w \in Workers : SavePublish(w)
  <2>1. SpoilAct /\ check' = check
    BY <1>2 DEF SavePublish
  <2> QED BY <2>1, WaitsAct
<1>3. ASSUME NEW a \in Addrs, ProbeTake(a) PROVE Waits'
  <2>1. check' = [check EXCEPT ![a] = Held] /\ act' = act
    BY <1>3 DEF ProbeTake, Held
  <2> QED BY <1>a, <2>1, WaitsOne
<1>4. CASE ProbeVersion
  <2>1. act' = act /\ probe.a \in Addrs
    BY <1>0, <1>4 DEF ProbeVersion, ProbeOK
  <2>2. CASE check' = check
    BY <2>1, <2>2, WaitsSame
  <2>3. CASE check' = [check EXCEPT ![probe.a] = NoCheck]
    BY <1>a, <2>1, <2>3, WaitsOne
  <2> QED BY <1>4, <2>2, <2>3 DEF ProbeVersion
<1>5. CASE ProbeRun
  <2>1. /\ probe.a \in Addrs /\ probe.run.by # "act"
        /\ check' = [check EXCEPT ![probe.a] = probe.run] /\ act' = act
    BY <1>0, <1>5 DEF ProbeRun, ProbeOK
  <2> QED BY <2>1, WaitsOne
<1>6. ASSUME NEW a \in Addrs, NEW ok \in BOOLEAN, Record(a, ok) PROVE Waits'
  <2>0. check' = [check EXCEPT ![a] = NoCheck] /\ check[a].at = "running"
    BY <1>6 DEF Record
  <2>1. CASE check[a].by = "act"
    <3>1. ~ActCheck(a) /\ ~ActMiss(a)
      BY <1>0, <2>0 DEF ActCheck, ActMiss, NoCheck
    <3>2. /\ act'.at = act.at /\ act'.left = act.left \ {a} /\ act'.todo = act.todo
          /\ a \notin act.todo
      BY <1>0, <1>6, <2>0, <2>1, <3>1, ActMoves DEF Waits
    <3>3. \A b \in Addrs : check'[b] = IF b = a THEN NoCheck ELSE check[b]
      BY <1>0, <2>0
    <3> QED BY <1>0, <1>a, <3>2, <3>3 DEF Waits
  <2>2. CASE check[a].by # "act"
    BY <1>6, <1>a, <2>0, <2>2, WaitsOne DEF Record
  <2> QED BY <2>1, <2>2
<1>7. ASSUME NEW a \in Addrs, ActCheck(a) PROVE Waits'
  <2>1. act'.at = act.at /\ act.at = "checking" /\ act'.left = act.left /\ act'.todo = act.todo \ {a} /\ a \in act.todo
    BY <1>7, ActMoves DEF ActCheck
  <2>2. \A b \in Addrs \ {a} : check'[b] = check[b]
    BY <1>0, <1>7 DEF ActCheck
  <2> QED BY <1>0, <2>1, <2>2 DEF Waits
<1>8. ASSUME NEW a \in Addrs, ActMiss(a) PROVE Waits'
  <2>1. /\ act'.at = act.at /\ act'.left = act.left \ {a} /\ act'.todo = act.todo \ {a}
        /\ a \in act.todo /\ check' = check
    BY <1>8, ActMoves DEF ActMiss
  <2> QED BY <1>0, <2>1 DEF Waits
<1>9. CASE ActCommit
  <2>1. act.left = {} /\ check' = check /\ act'.at = "idle"
    BY <1>9 DEF ActCommit, NoAct
  <2> QED BY <1>0, <2>1 DEF Waits
<1>10. CASE ActBegin \/ ActCapture \/ ActArm
  BY <1>10, WaitsIdle DEF ActBegin, ActCapture, ActArm, NoAct
<1>11. CASE UNCHANGED <<check, act>>
  BY <1>11, WaitsSame
<1>12. CASE SwitchAway \/ \E c \in Configs : CreateSave(c)
  BY <1>11, <1>12 DEF SwitchAway, CreateSave, checks
<1>13. CASE Finish \/ ProbeWorker
  BY <1>11, <1>13 DEF Finish, EditHealth, ForgetHealth, SaveListen, SaveRequest, ProbeWorker, checks
<1>14. CASE \/ \E a \in Addrs : DialStart(a)
            \/ Dialing
            \/ \E s \in live : SessionLost(s)
  BY <1>11, <1>14 DEF Dialing, DialStart, DialEnd, DialExpires, DialResult, SessionLost, checks
<1>15. CASE UNCHANGED vars
  BY <1>11, <1>15 DEF vars, checks
<1>16. CASE (\E c \in Configs : EditSave(c)) \/ DeleteSave \/ ActForce \/ \E s \in live : JobTimeout(s)
  BY <1>1, <1>16 DEF EditSave, DeleteSave, ActForce, JobTimeout
<1> QED BY <1>2, <1>3, <1>4, <1>5, <1>6, <1>7, <1>8, <1>9, <1>10, <1>12, <1>13, <1>14, <1>15, <1>16
        DEF Next, Operate, Probing, Activate, Fails

-----------------------------------------------------------------------------

LEMMA StartIInv == ASSUME Init PROVE IInv
<1>1. Base
  BY DEF Init, Base, NoDial
<1>2. HealthOK
  <2>1. Kept(Fresh) /\ Owes(Fresh, 0) /\ Fresh \in Entry
    BY FreshKept DEF Kept, Owes, Fresh, probeOKsToUp
  <2> QED BY <2>1 DEF Init, HealthOK
<1>3. ProbeOK
  BY DEF Init, ProbeOK
<1>4. GatesOK
  BY DEF Init, GatesOK, Checks, NoCheck
<1>5. ActOK
  BY DEF Init, ActOK, Acts, NoAct
<1>6. Waits
  BY DEF Init, Waits, NoAct, NoCheck
<1> QED BY <1>1, <1>2, <1>3, <1>4, <1>5, <1>6 DEF IInv

(* What the checks, the activation and the counters of an address rest on
   holds in every state. *)
THEOREM HealthInvariant == Spec => []IInv
<1>1. Init => IInv
  BY StartIInv
<1>2. IInv /\ [Next]_vars => IInv'
  BY BaseStep, HealthStep, ProbeStep, GatesStep, ActStep, WaitsStep DEF IInv
<1> QED BY <1>1, <1>2, PTL DEF Spec

(* The verdicts of an address keep to their thresholds whatever order dials,
   checks and job timeouts come in (probeResultIf, dialResult and
   sessionFailure). *)
THEOREM VerdictsHold == Spec => []Hysteresis
<1>1. IInv => Hysteresis
  <2> SUFFICES ASSUME IInv, NEW a \in Addrs
               PROVE  /\ addr[a].status # "DOWN" => /\ addr[a].probeFails < probeFailsToDown
                                                    /\ addr[a].dialFails < dialFailsToDown
                      /\ addr[a].status # "UP" => addr[a].probeOKs < probeOKsToUp
                      /\ addr[a].clean => addr[a].status = "UP" /\ addr[a].probeOKs = probeOKsToUp
    BY DEF Hysteresis
  <2>1. Kept(addr[a])
    BY DEF IInv, HealthOK
  <2>2. addr[a].clean \in BOOLEAN
    BY <2>1, EntryFields DEF Kept
  <2>3. addr[a].clean => addr[a].clean = TRUE
    BY <2>2
  <2> QED BY <2>1, <2>3 DEF Kept
<1> QED BY <1>1, HealthInvariant, PTL

(* An address that stalled a session is UP only after two OK checks that
   started later: those that started before are dropped by their version
   (sessionFailure and recordCheck). *)
THEOREM StallsHold == Spec => []StallHolds
<1>1. IInv => StallHolds
  BY DEF IInv, HealthOK, Owes, StallHolds
<1> QED BY <1>1, HealthInvariant, PTL

(* A verdict of a check counts only if it used the current test worker and
   nothing has happened to the pool since it started (recordCheck). *)
THEOREM NoVerdictIsStale == Spec => NoStaleVerdict
<1>1. ASSUME IInv, [Next]_vars, NEW a \in Addrs,
             check[a].at = "running", check'[a] = NoCheck, addr'[a] # addr[a]
      PROVE  ~check[a].dirty /\ check[a].worker = worker
  <2>0. addr \in [Addrs -> Entry] /\ check[a] \in Checks /\ check'[a].at # "running"
    BY <1>1 DEF IInv, HealthOK, GatesOK, NoCheck
  <2>1. ASSUME NEW b \in Addrs, NEW ok \in BOOLEAN, Record(b, ok)
        PROVE  ~check[a].dirty /\ check[a].worker = worker
    <3>1. Accept(b)
      BY <1>1, <2>1 DEF Record
    <3>2. b = a
      BY <1>1, <2>0, <2>1, <3>1 DEF Record
    <3>3. check[a].dirty = FALSE
      BY <1>1, <2>1, <3>1, <3>2, AcceptClean DEF IInv, Record
    <3> QED BY <3>1, <3>2, <3>3 DEF Accept
  <2>2. ~(UNCHANGED check) /\ ~(UNCHANGED addr)
    BY <1>1, <2>0
  <2>3. ~Finish /\ ~Dialing
    BY <2>2 DEF Finish, EditHealth, ForgetHealth, SaveListen, SaveRequest,
                Dialing, DialResult, DialEnd, DialExpires, checks, health
  <2>4. ~Operate
    BY <2>2 DEF Operate, EditSave, CreateSave, DeleteSave, SwitchAway, ActForce, SavePublish, health
  <2>5. ~Probing /\ ~(\E b \in Addrs : ProbeTake(b))
    BY <2>2 DEF Probing, ProbeWorker, ProbeVersion, ProbeRun, ProbeTake, health
  <2>6. ~ActBegin /\ ~Activate
    BY <2>2 DEF ActBegin, Activate, ActCapture, ActArm, ActCheck, ActMiss, ActCommit, health
  <2>7. ~Fails
    <3>1. ~Spoil
      BY <1>1, <2>0, SpoiltGates
    <3> QED BY <2>2, <3>1 DEF Fails, SessionLost, JobTimeout, health
  <2>8. ~(\E b \in Addrs : DialStart(b)) /\ ~(UNCHANGED vars)
    BY <2>2 DEF DialStart, vars, health
  <2>9. \E b \in Addrs, ok \in BOOLEAN : Record(b, ok)
    BY <1>1, <2>3, <2>4, <2>5, <2>6, <2>7, <2>8 DEF Next
  <2> QED BY <2>1, <2>9
<1>2. IInv /\ [Next]_vars =>
         [\A a \in Addrs : check[a].at = "running" /\ check'[a] = NoCheck /\ addr'[a] # addr[a]
                              => ~check[a].dirty /\ check[a].worker = worker]_vars
  BY <1>1
<1> QED BY <1>2, HealthInvariant, PTL DEF Spec, NoStaleVerdict

(* An activation with a check takes effect only if nothing has changed since
   it read what to check: not the pool, nor its health, nor the test worker
   (activate). *)
THEOREM ActivationIsFresh == Spec => ActivationFresh
<1>1. ASSUME IInv, [Next]_vars, act.at = "checking", act' = NoAct, op' # op
      PROVE  ~act.dirty /\ cfg = act.c
  <2>0. ActOK /\ act \in Acts /\ act'.at = "idle" /\ act # act'
    BY <1>1 DEF IInv, ActOK, NoAct
  <2>1. ~SpoilAct
    BY <1>1, <2>0, SpoiltAct DEF SpoilAct
  <2>2. ~Operate
    BY <1>1, <2>0, <2>1 DEF Operate, EditSave, CreateSave, DeleteSave, SwitchAway, ActForce, SavePublish, Spoil, checks
  <2>3. ~Finish /\ ~Probing /\ ~(\E a \in Addrs : ProbeTake(a))
    BY <2>0 DEF Finish, EditHealth, ForgetHealth, SaveListen, SaveRequest,
                Probing, ProbeWorker, ProbeVersion, ProbeRun, ProbeTake, checks
  <2>4. ~(\E a \in Addrs, ok \in BOOLEAN : Record(a, ok))
    BY <1>1 DEF Record
  <2>5. ~(\E a \in Addrs : DialStart(a)) /\ ~Dialing /\ ~Fails
    BY <1>1, <2>0, <2>1 DEF DialStart, Dialing, DialEnd, DialResult, DialExpires, Fails, SessionLost, JobTimeout, Spoil, checks
  <2>6. ~ActBegin /\ ~ActCapture /\ ~ActArm /\ ~(\E a \in Addrs : ActCheck(a) \/ ActMiss(a)) /\ ~(UNCHANGED vars)
    BY <1>1 DEF ActBegin, ActCapture, ActArm, ActCheck, ActMiss, vars
  <2>7. ActCommit
    BY <1>1, <2>2, <2>3, <2>4, <2>5, <2>6 DEF Next, Activate
  <2>8. Unchanged /\ Free /\ store = "free"
    BY <1>1, <2>7 DEF ActCommit
  <2>9. act.version = version /\ ~Changing /\ store # "saving" /\ cfg = act.c
    BY <2>8 DEF Unchanged, Free, Changing
  <2>10. act.dirty # TRUE
    <3>1. act.dirty = TRUE => act.version < version \/ Changing \/ store = "saving"
      BY <1>1, <2>0 DEF ActOK
    <3>2. ~(act.version < version)
      BY <1>1, <2>9 DEF IInv, Base
    <3> QED BY <2>9, <3>1, <3>2
  <2>11. act.dirty \in BOOLEAN
    BY <1>1, <2>0, ActFields DEF Checking
  <2> QED BY <2>9, <2>10, <2>11
<1>2. IInv /\ [Next]_vars => [act.at = "checking" /\ act' = NoAct /\ op' # op => ~act.dirty /\ cfg = act.c]_vars
  BY <1>1
<1> QED BY <1>2, HealthInvariant, PTL DEF Spec, ActivationFresh

=================================================================================
