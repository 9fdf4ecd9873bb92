------------------------------ MODULE DrainProofs ------------------------------
(***************************************************************************)
(* Proofs about the drain, for any sets of sessions and pools and any      *)
(* number of drains: how the goroutines of older drains, the callers and   *)
(* the shutdown interleave does not matter.                                *)
(***************************************************************************)
EXTENDS Drain, TLAPS

-----------------------------------------------------------------------------
(* The inductive invariant. *)

(* A generation that has not been taken has no goroutine. *)
FutureRuns == \A g \in Gens : g > gen => runs[g] = [at |-> "none", todo |-> {}]

(* A call in progress may still take a generation. *)
CallFits == caller.at # "idle" => gen + 1 \in Gens

(* A background call found no drain in progress and holds opMu since. *)
BackgroundIdle == caller.background => ~draining

(* Targets were registered once, so none of them is yet to be dialed. *)
Unborn == In({"none", "dialing"})
TargetsAreKnown == latest \cap Unborn = {} /\ caller.targets \cap Unborn = {}

(* The goroutine of a drain that is not stale has exactly the open targets of
   the latest drain left to close, and perhaps closed ones. *)
WorkLeft ==
    gen \in Gens /\ gen \notin cancelled =>
       /\ runs[gen].todo \subseteq latest
       /\ runs[gen].at = "run" => latest \cap Open \subseteq runs[gen].todo
       /\ runs[gen].at # "run" => latest \cap Open = {}

(* Before the first drain nothing is cut short. *)
NoneYet == gen = 0 => latest = {}

IInv == TypeOK /\ DrainingIsReal /\ FutureRuns /\ CallFits /\ BackgroundIdle
        /\ TargetsAreKnown /\ WorkLeft /\ NoneYet

-----------------------------------------------------------------------------
(* Sessions. *)

(* A step of a session other than a dial and its registration opens nothing. *)
LEMMA CloseProperties ==
    ASSUME TypeOK, NEW s \in Sessions, Close(s)
    PROVE  /\ Open' = Open \ {s}
           /\ Unborn' = Unborn
           /\ session' \in [Sessions -> [phase : {"none", "dialing", "added", "live", "closed", "gone"},
                                         pool : Pools \cup {NoPool}]]
<1>1. CASE s \in Open
  <2>1. session' = [session EXCEPT ![s].phase = "closed"]
    BY <1>1 DEF Close
  <2>2. \A x \in Sessions : session'[x].phase = IF x = s THEN "closed" ELSE session[x].phase
    BY <2>1 DEF TypeOK
  <2>3. Open' = Open \ {s} /\ Unborn' = Unborn
    BY <2>2, <1>1 DEF Open, Unborn, In
  <2> QED BY <2>1, <2>3 DEF TypeOK
<1>2. CASE s \notin Open
  BY <1>2 DEF Close, Open, Unborn, In, TypeOK
<1> QED BY <1>1, <1>2

(* Whatever a session does by itself, only an unborn one becomes open. *)
LEMMA ServeProperties ==
    ASSUME TypeOK, NEW s \in Sessions, Serve(s)
    PROVE  /\ UNCHANGED <<active, caller, registry, ending, latest, due>>
           /\ Open' \subseteq Open \cup Unborn
           /\ Unborn' \subseteq Unborn
           /\ session' \in [Sessions -> [phase : {"none", "dialing", "added", "live", "closed", "gone"},
                                         pool : Pools \cup {NoPool}]]
<1>1. UNCHANGED <<active, caller, registry, ending, latest, due>>
  BY DEF Serve, Proceed
<1>2. CASE \E p \in Pools : Pick(s, p)
  BY <1>1, <1>2 DEF Pick, TypeOK, Open, Unborn, In
<1>3. CASE PickFails(s)
  BY <1>1, <1>3 DEF PickFails, Gone, TypeOK, Open, Unborn, In
<1>4. CASE Add(s)
  BY <1>1, <1>4 DEF Add, TypeOK, Open, Unborn, In
<1>5. CASE Start(s)
  <2>1. CASE Close(s)
    BY <1>1, <2>1, CloseProperties
  <2>2. CASE session' = [session EXCEPT ![s].phase = "live"]
    BY <1>1, <1>5, <2>2 DEF Start, TypeOK, Open, Unborn, In
  <2> QED BY <1>5, <2>1, <2>2 DEF Start
<1>6. CASE HangUp(s)
  BY <1>1, <1>6, CloseProperties DEF HangUp
<1>7. CASE Remove(s)
  BY <1>1, <1>7 DEF Remove, Gone, TypeOK, Open, Unborn, In
<1> QED BY <1>2, <1>3, <1>4, <1>5, <1>6, <1>7 DEF Serve, Proceed

(* The calls of Drain leave the registry and the sessions alone. *)
LEMMA OperateProperties ==
    ASSUME TypeOK, Operate
    PROVE  /\ UNCHANGED <<session, registry, ending, latest>>
           /\ caller.at = "idle"
           /\ caller' \in [at : {"collect"}, background : BOOLEAN, filter : SUBSET Pools, targets : {{}}]
           /\ caller'.background => ~draining
           /\ gen + 1 \in Gens
           /\ active' \in Pools
           /\ due' \in [by : {"none", "switch", "update"}, of : SUBSET Sessions, gen : Nat]
<1> DEFINE Shape(background) ==
             /\ UNCHANGED <<session, registry, ending, latest>>
             /\ caller.at = "idle" /\ gen + 1 \in Gens
             /\ caller' \in [at : {"collect"}, background : {background}, filter : SUBSET Pools, targets : {{}}]
<1>1. ASSUME NEW b \in BOOLEAN, NEW filter \in SUBSET Pools, Call(b, filter) PROVE Shape(b)
  BY <1>1, DrainsAssumption DEF Call, TypeOK, Gens
<1>2. ASSUME NEW by \in {"switch", "update"}, NEW of \in SUBSET Sessions
      PROVE  Due(by, of) \in [by : {"none", "switch", "update"}, of : SUBSET Sessions, gen : Nat]
  BY DrainsAssumption DEF Due, TypeOK
<1>d. active \in Pools /\ due \in [by : {"none", "switch", "update"}, of : SUBSET Sessions, gen : Nat]
  BY DEF TypeOK
<1>3. ASSUME NEW id \in Pools, Switch(id)
      PROVE  /\ Shape(FALSE) /\ active' \in Pools
             /\ due' \in [by : {"none", "switch", "update"}, of : SUBSET Sessions, gen : Nat]
  BY <1>1, <1>2, <1>3 DEF Switch, Open, In
<1>4. ASSUME NEW id \in Pools, Update(id)
      PROVE  /\ Shape(FALSE) /\ active' \in Pools
             /\ due' \in [by : {"none", "switch", "update"}, of : SUBSET Sessions, gen : Nat]
  BY <1>1, <1>2, <1>4, <1>d DEF Update, Open, In
<1>5. ASSUME NEW id \in Pools, Delete(id) \/ ReconnectAll
      PROVE  Shape(FALSE) /\ active' = active /\ due' = due
  BY <1>1, <1>5 DEF Delete, ReconnectAll
<1>6. ASSUME NEW filter \in SUBSET Pools, Background(filter)
      PROVE  Shape(TRUE) /\ active' = active /\ due' = due /\ ~draining
  BY <1>1, <1>6 DEF Background
<1>7. CASE \E id \in Pools : Switch(id) \/ Update(id)
  BY <1>3, <1>4, <1>7
<1>8. CASE \E id \in Pools : Delete(id)
  BY <1>5, <1>8, <1>d
<1>9. CASE ReconnectAll
  BY <1>5, <1>9, <1>d
<1>10. CASE Failback \/ \E failed \in SUBSET Pools : Failover(failed)
  BY <1>6, <1>10, <1>d DEF Failback, Failover
<1> QED BY <1>7, <1>8, <1>9, <1>10 DEF Operate

-----------------------------------------------------------------------------
(* Steps. *)

LEMMA InitHolds == Init => IInv
<1> SUFFICES ASSUME Init PROVE IInv
  OBVIOUS
<1>1. Open = {} /\ session \in [Sessions -> {None}]
  BY DEF Init, None, Open, In
<1>2. TypeOK
  <2>1. session \in [Sessions -> [phase : {"none", "dialing", "added", "live", "closed", "gone"},
                                  pool : Pools \cup {NoPool}]]
    BY DEF Init, None
  <2>2. gen \in 0 .. MaxDrains /\ cancelled \subseteq 0 .. MaxDrains
    BY DrainsAssumption DEF Init
  <2>3. runs \in [Gens -> [at : {"none", "run", "end", "done"}, todo : SUBSET Sessions]]
    BY DEF Init
  <2>4. /\ caller \in [at : {"idle", "collect", "start"}, background : BOOLEAN,
                        filter : SUBSET Pools, targets : SUBSET Sessions]
        /\ due \in [by : {"none", "switch", "update"}, of : SUBSET Sessions, gen : Nat]
    BY DEF Init, NoCall
  <2>5. draining \in BOOLEAN
    BY DEF Init
  <2> QED BY <2>1, <2>2, <2>3, <2>4, <2>5 DEF Init, TypeOK
<1>3. DrainingIsReal /\ FutureRuns /\ CallFits /\ BackgroundIdle /\ NoneYet
  BY DEF Init, NoCall, DrainingIsReal, FutureRuns, CallFits, BackgroundIdle, NoneYet, Gens
<1>4. TargetsAreKnown /\ WorkLeft
  BY DEF Init, NoCall, TargetsAreKnown, WorkLeft, Gens
<1> QED BY <1>2, <1>3, <1>4 DEF IInv

(* A step that leaves the registry's fields and the latest targets alone, and
   opens no session that a drain may still be about, keeps the invariant. *)
LEMMA SessionStepKeeps ==
    ASSUME IInv, TypeOK', UNCHANGED <<gen, draining, runs, latest>>,
           cancelled \subseteq cancelled',
           Open' \subseteq Open \cup Unborn, Unborn' \subseteq Unborn,
           caller'.targets \cap Unborn' = {}, caller'.background => ~draining,
           caller'.at # "idle" => gen + 1 \in Gens
    PROVE  IInv'
<1>1. DrainingIsReal' /\ FutureRuns' /\ CallFits' /\ NoneYet'
  BY DEF IInv, DrainingIsReal, FutureRuns, CallFits, NoneYet
<1>2. BackgroundIdle' /\ TargetsAreKnown'
  BY DEF IInv, BackgroundIdle, TargetsAreKnown
<1>3. latest' \cap Open' \subseteq latest \cap Open
  BY DEF IInv, TargetsAreKnown
<1>4. WorkLeft'
  BY <1>3 DEF IInv, WorkLeft
<1> QED BY <1>1, <1>2, <1>4 DEF IInv

LEMMA StartDrainKeeps ==
    ASSUME IInv, StartDrain
    PROVE  IInv'
<1>1. gen' = gen + 1 /\ gen' \in Gens /\ gen \in Nat
  BY DrainsAssumption DEF StartDrain, IInv, TypeOK, CallFits
<1>2. /\ session' = session /\ caller' = NoCall /\ latest' = caller.targets
      /\ draining' = (caller.targets # {}) /\ cancelled' = cancelled \cup {gen}
  BY DEF StartDrain
<1>3. runs' = IF caller.targets = {} THEN runs
              ELSE [runs EXCEPT ![gen'] = [at |-> "run", todo |-> caller.targets]]
  BY <1>1 DEF StartDrain
<1>4. caller.targets \subseteq Sessions /\ caller.targets \cap Unborn = {}
  BY DEF IInv, TypeOK, TargetsAreKnown
<1>5. Open' = Open /\ Unborn' = Unborn
  BY <1>2 DEF Open, Unborn, In
<1>6. runs[gen'] = [at |-> "none", todo |-> {}]
  BY <1>1 DEF IInv, FutureRuns
<1>7. runs'[gen'] = IF caller.targets = {} THEN [at |-> "none", todo |-> {}]
                    ELSE [at |-> "run", todo |-> caller.targets]
  BY <1>1, <1>3, <1>6 DEF IInv, TypeOK
<1>8. TypeOK'
  <2>1. runs' \in [Gens -> [at : {"none", "run", "end", "done"}, todo : SUBSET Sessions]]
    BY <1>1, <1>3, <1>4 DEF IInv, TypeOK
  <2>2. caller' \in [at : {"idle", "collect", "start"}, background : BOOLEAN,
                     filter : SUBSET Pools, targets : SUBSET Sessions]
    BY <1>2 DEF NoCall
  <2>3. gen' \in 0 .. MaxDrains /\ cancelled' \subseteq 0 .. MaxDrains
    BY <1>1, <1>2, DrainsAssumption DEF IInv, TypeOK, Gens
  <2>4. draining' \in BOOLEAN
    BY <1>2
  <2> QED BY <1>2, <1>4, <2>1, <2>2, <2>3, <2>4 DEF IInv, TypeOK, StartDrain, ending
<1>9. DrainingIsReal'
  <2>1. CASE caller.targets = {}
    <3>1. runs'[gen'].at = "none"
      BY <1>7, <2>1
    <3>2. ~draining'
      BY <1>2, <2>1
    <3> QED BY <3>1, <3>2 DEF DrainingIsReal
  <2>2. CASE caller.targets # {}
    <3>1. runs'[gen'].at = "run"
      BY <1>7, <2>2
    <3>2. draining'
      BY <1>2, <2>2
    <3> QED BY <1>1, <3>1, <3>2 DEF DrainingIsReal
  <2> QED BY <2>1, <2>2
<1>10. FutureRuns'
  <2> SUFFICES ASSUME NEW h \in Gens, h > gen' PROVE runs'[h] = [at |-> "none", todo |-> {}]
    BY DEF FutureRuns
  <2>1. h > gen /\ h # gen'
    BY <1>1, DrainsAssumption DEF Gens
  <2> QED BY <1>3, <2>1 DEF IInv, TypeOK, FutureRuns
<1>11. CallFits' /\ BackgroundIdle' /\ TargetsAreKnown' /\ NoneYet'
  BY <1>1, <1>2, <1>4, <1>5 DEF CallFits, BackgroundIdle, TargetsAreKnown, NoneYet, NoCall, Gens
<1>12. WorkLeft'
  BY <1>2, <1>5, <1>7 DEF WorkLeft
<1> QED BY <1>8, <1>9, <1>10, <1>11, <1>12 DEF IInv

(* A goroutine that was started changes no generation to come. *)
LEMMA FutureRunsKept ==
    ASSUME TypeOK, FutureRuns, NEW g \in Gens, g <= gen, gen' = gen,
           \A h \in Gens \ {g} : runs'[h] = runs[h]
    PROVE  FutureRuns'
<1> SUFFICES ASSUME NEW h \in Gens, h > gen PROVE runs'[h] = [at |-> "none", todo |-> {}]
  BY DEF FutureRuns
<1>1. h # g
  BY DrainsAssumption DEF Gens, TypeOK
<1> QED BY <1>1 DEF FutureRuns

LEMMA DrainStepKeeps ==
    ASSUME IInv, NEW g \in Gens, DrainStep(g)
    PROVE  /\ IInv'
           /\ \A s \in Open : session'[s].phase = "closed" => s \in latest
<1>1. /\ runs[g].at = "run"
      /\ UNCHANGED <<active, caller, gen, draining, cancelled, ending, latest, due>>
  BY DEF DrainStep
<1>t. TypeOK /\ DrainingIsReal /\ g <= gen
  BY <1>1, DrainsAssumption DEF IInv, FutureRuns, TypeOK, Gens
<1>2. CASE Stale(g)
  <2>1. session' = session /\ runs' = [runs EXCEPT ![g] = [at |-> "end", todo |-> {}]]
    BY <1>2 DEF DrainStep
  <2>2. Open' = Open /\ Unborn' = Unborn
    BY <2>1 DEF Open, Unborn, In
  <2>3. TypeOK'
    BY <1>1, <2>1 DEF IInv, TypeOK, ending
  <2>e. runs'[g].at = "end" /\ \A h \in Gens \ {g} : runs'[h] = runs[h]
    BY <1>t, <2>1 DEF TypeOK
  <2>4. DrainingIsReal'
    BY <1>1, <1>t, <2>e DEF DrainingIsReal
  <2>f. FutureRuns'
    BY <1>1, <1>t, <2>e, FutureRunsKept DEF IInv
  <2>5. CallFits' /\ BackgroundIdle' /\ TargetsAreKnown' /\ NoneYet'
    BY <1>1, <2>2 DEF IInv, CallFits, BackgroundIdle, TargetsAreKnown, NoneYet
  <2>6. WorkLeft'
    BY <1>1, <1>2, <2>1, <2>2 DEF IInv, TypeOK, WorkLeft, Stale
  <2>7. \A s \in Open : session'[s].phase # "closed"
    BY <2>1 DEF Open, In
  <2> QED BY <2>3, <2>4, <2>f, <2>5, <2>6, <2>7 DEF IInv
<1>3. CASE ~Stale(g)
  <2>1. PICK s \in runs[g].todo :
           /\ Close(s)
           /\ runs' = [runs EXCEPT ![g] =
                 [at |-> IF @.todo = {s} THEN "end" ELSE "run", todo |-> @.todo \ {s}]]
    BY <1>3 DEF DrainStep
  <2>2. g = gen /\ gen \notin cancelled /\ s \in latest /\ latest \cap Open \subseteq runs[g].todo
    BY <1>1, <1>3, <2>1 DEF IInv, WorkLeft, Stale
  <2>3. s \in Sessions
    BY <2>2 DEF IInv, TypeOK
  <2>4. /\ Open' = Open \ {s} /\ Unborn' = Unborn
        /\ session' \in [Sessions -> [phase : {"none", "dialing", "added", "live", "closed", "gone"},
                                      pool : Pools \cup {NoPool}]]
    BY <1>t, <2>1, <2>3, CloseProperties
  <2>5. runs'[g] = [at |-> IF runs[g].todo = {s} THEN "end" ELSE "run", todo |-> runs[g].todo \ {s}]
    BY <2>1, <1>t DEF TypeOK
  <2>6. TypeOK'
    <3>1. runs' \in [Gens -> [at : {"none", "run", "end", "done"}, todo : SUBSET Sessions]]
      BY <1>t, <2>1 DEF TypeOK
    <3> QED BY <1>1, <1>t, <2>4, <3>1 DEF TypeOK, ending
  <2>7. DrainingIsReal'
    BY <1>1, <1>t, <2>2, <2>5 DEF DrainingIsReal
  <2>e. \A h \in Gens \ {g} : runs'[h] = runs[h]
    BY <1>t, <2>1 DEF TypeOK
  <2>8. FutureRuns'
    BY <1>1, <1>t, <2>e, FutureRunsKept DEF IInv
  <2>9. CallFits' /\ BackgroundIdle' /\ TargetsAreKnown' /\ NoneYet'
    BY <1>1, <2>4 DEF IInv, CallFits, BackgroundIdle, TargetsAreKnown, NoneYet
  <2>10. WorkLeft'
    BY <1>1, <2>2, <2>4, <2>5 DEF IInv, WorkLeft
  <2>11. \A x \in Open : session'[x].phase = "closed" => x \in latest
    BY <2>2, <2>4 DEF Open, In
  <2> QED BY <2>6, <2>7, <2>8, <2>9, <2>10, <2>11 DEF IInv
<1> QED BY <1>2, <1>3

LEMMA DrainEndKeeps ==
    ASSUME IInv, NEW g \in Gens, DrainEnd(g)
    PROVE  IInv'
<1>1. /\ runs[g].at = "end" /\ runs' = [runs EXCEPT ![g].at = "done"]
      /\ draining' = (draining /\ gen # g)
      /\ UNCHANGED <<session, active, caller, gen, cancelled, ending, latest, due>>
  BY DEF DrainEnd
<1>2. Open' = Open /\ Unborn' = Unborn
  BY <1>1 DEF Open, Unborn, In
<1>3. runs'[g] = [runs[g] EXCEPT !.at = "done"] /\ \A h \in Gens \ {g} : runs'[h] = runs[h]
  BY <1>1 DEF IInv, TypeOK
<1>4. g <= gen
  BY <1>1, DrainsAssumption DEF IInv, FutureRuns, TypeOK, Gens
<1>5. TypeOK'
  <2>1. runs' \in [Gens -> [at : {"none", "run", "end", "done"}, todo : SUBSET Sessions]]
    BY <1>1 DEF IInv, TypeOK
  <2>2. draining' \in BOOLEAN
    BY <1>1
  <2> QED BY <1>1, <2>1, <2>2 DEF IInv, TypeOK, ending
<1>6. DrainingIsReal'
  BY <1>1, <1>3 DEF IInv, TypeOK, DrainingIsReal
<1>7. FutureRuns'
  BY <1>1, <1>3, <1>4, FutureRunsKept DEF IInv
<1>8. CallFits' /\ BackgroundIdle' /\ TargetsAreKnown' /\ NoneYet'
  BY <1>1, <1>2 DEF IInv, CallFits, BackgroundIdle, TargetsAreKnown, NoneYet
<1>9. WorkLeft'
  BY <1>1, <1>2, <1>3 DEF IInv, TypeOK, WorkLeft
<1> QED BY <1>5, <1>6, <1>7, <1>8, <1>9 DEF IInv

(* The shutdown cancels the drain and closes sessions; it starts nothing. *)
LEMMA ShutdownKeeps ==
    ASSUME IInv, Stop \/ CloseAll
    PROVE  IInv'
<1>t. TypeOK /\ caller.targets \cap Unborn = {} /\ BackgroundIdle /\ CallFits
  BY DEF IInv, TargetsAreKnown
<1>1. CASE Stop \/ CancelDrain \/ ListAll
  <2>1. /\ UNCHANGED <<session, active, caller, gen, draining, runs, latest, due>>
        /\ shutdown' \in {"stop", "cancelled", "closing"}
        /\ cancelled' \in {cancelled, cancelled \cup {gen}}
        /\ closeList' \subseteq Sessions
    BY <1>1, <1>t DEF Stop, CancelDrain, ListAll, registry, Registered, Open, In, TypeOK
  <2>2. TypeOK'
    BY <1>t, <2>1 DEF TypeOK
  <2>3. Open' = Open /\ Unborn' = Unborn
    BY <2>1 DEF Open, Unborn, In
  <2> QED BY <1>t, <2>1, <2>2, <2>3, SessionStepKeeps DEF BackgroundIdle, CallFits
<1>2. ASSUME NEW s \in Sessions, CloseOne(s) PROVE IInv'
  <2>1. /\ UNCHANGED <<active, caller, registry, shutdown, latest, due>>
        /\ closeList' \subseteq Sessions
    BY <1>2, <1>t DEF CloseOne, TypeOK
  <2>2. /\ Open' = Open \ {s} /\ Unborn' = Unborn
        /\ session' \in [Sessions -> [phase : {"none", "dialing", "added", "live", "closed", "gone"},
                                      pool : Pools \cup {NoPool}]]
    BY <1>2, <1>t, CloseProperties DEF CloseOne
  <2>3. TypeOK'
    BY <1>t, <2>1, <2>2 DEF TypeOK, registry
  <2> QED BY <1>t, <2>1, <2>2, <2>3, SessionStepKeeps DEF BackgroundIdle, CallFits, registry
<1> QED BY <1>1, <1>2 DEF CloseAll

LEMMA StutterKeeps ==
    ASSUME IInv, UNCHANGED vars
    PROVE  IInv'
<1>1. Open' = Open /\ Unborn' = Unborn
  BY DEF vars, Open, Unborn, In
<1>2. TypeOK'
  BY DEF IInv, TypeOK, vars, registry, ending
<1> QED BY <1>1, <1>2, SessionStepKeeps DEF vars, registry, IInv, TargetsAreKnown, BackgroundIdle, CallFits

LEMMA StepKeeps == IInv /\ [Next]_vars => IInv'
<1> SUFFICES ASSUME IInv, [Next]_vars PROVE IInv'
  OBVIOUS
<1>t. TypeOK /\ caller.targets \cap Unborn = {} /\ BackgroundIdle /\ CallFits
  BY DEF IInv, TargetsAreKnown
<1>1. ASSUME NEW s \in Sessions, Serve(s) PROVE IInv'
  <2>1. /\ UNCHANGED <<active, caller, registry, ending, latest, due>>
        /\ Open' \subseteq Open \cup Unborn /\ Unborn' \subseteq Unborn
        /\ session' \in [Sessions -> [phase : {"none", "dialing", "added", "live", "closed", "gone"},
                                      pool : Pools \cup {NoPool}]]
    BY <1>1, <1>t, ServeProperties
  <2>2. TypeOK'
    BY <1>t, <2>1 DEF TypeOK, registry, ending
  <2> QED BY <1>t, <2>1, <2>2, SessionStepKeeps DEF BackgroundIdle, CallFits, registry
<1>2. CASE Operate
  <2>1. /\ UNCHANGED <<session, registry, ending, latest>>
        /\ caller' \in [at : {"collect"}, background : BOOLEAN, filter : SUBSET Pools, targets : {{}}]
        /\ caller'.background => ~draining
        /\ gen + 1 \in Gens
        /\ active' \in Pools
        /\ due' \in [by : {"none", "switch", "update"}, of : SUBSET Sessions, gen : Nat]
    BY <1>2, <1>t, OperateProperties
  <2>2. TypeOK'
    BY <1>t, <2>1 DEF TypeOK, registry, ending
  <2>3. Open' = Open /\ Unborn' = Unborn
    BY <2>1 DEF Open, Unborn, In
  <2> QED BY <2>1, <2>2, <2>3, SessionStepKeeps DEF registry
<1>3. CASE Collect
  <2>1. /\ UNCHANGED <<session, active, registry, ending, latest, due>>
        /\ caller' = [caller EXCEPT !.at = "start", !.targets = On(caller.filter)]
        /\ caller.at = "collect"
    BY <1>3 DEF Collect
  <2>2. On(caller.filter) \subseteq Sessions /\ On(caller.filter) \cap Unborn = {}
    BY DEF On, Registered, Open, Unborn, In
  <2>3. TypeOK'
    BY <1>t, <2>1, <2>2 DEF TypeOK, registry, ending
  <2>4. Open' = Open /\ Unborn' = Unborn
    BY <2>1 DEF Open, Unborn, In
  <2>5. caller'.targets = On(caller.filter) /\ caller'.background = caller.background
    BY <1>t, <2>1 DEF TypeOK
  <2> QED BY <1>t, <2>1, <2>2, <2>3, <2>4, <2>5, SessionStepKeeps DEF registry, BackgroundIdle, CallFits
<1>4. CASE StartDrain
  BY <1>4, StartDrainKeeps
<1>5. ASSUME NEW g \in Gens, Run(g) PROVE IInv'
  BY <1>5, DrainStepKeeps, DrainEndKeeps DEF Run
<1>6. CASE Stop \/ CloseAll
  BY <1>6, ShutdownKeeps
<1>7. CASE UNCHANGED vars
  BY <1>7, StutterKeeps
<1> QED BY <1>1, <1>2, <1>3, <1>4, <1>5, <1>6, <1>7 DEF Next

-----------------------------------------------------------------------------
(* Nobody is missed: what the last switch or pool change has to reconnect is
   covered by its call of Drain, from the filter through the targets to the
   latest drain. *)

PoolsKnown ==
    \A s \in Sessions :
        session[s].phase \in {"dialing", "added", "live", "closed"} => session[s].pool \in Pools

DueNow == due.of \cap Open

DueCovered ==
    /\ due.of \cap Unborn = {}
    /\ due.gen = gen + 1 => caller.at # "idle"
    /\ due.gen <= gen + 1
    /\ due.gen = gen + 1 /\ caller.at = "collect" =>
          \A s \in DueNow : session[s].pool \in caller.filter
    /\ due.gen = gen + 1 /\ caller.at = "start" => DueNow \subseteq caller.targets
    /\ due.gen = gen => DueNow \subseteq latest

(* No step of a session moves an open one to another pool. *)
PoolsStay == \A s \in Sessions : s \in Open /\ s \in Open' => session'[s].pool = session[s].pool

LEMMA ClosePools ==
    ASSUME TypeOK, PoolsKnown, NEW s \in Sessions, Close(s)
    PROVE  PoolsKnown' /\ PoolsStay
<1>1. CASE s \in Open
  <2>1. session' = [session EXCEPT ![s].phase = "closed"]
    BY <1>1 DEF Close
  <2>2. \A x \in Sessions : session'[x].pool = session[x].pool
    BY <2>1 DEF TypeOK
  <2>3. \A x \in Sessions : session'[x].phase = IF x = s THEN "closed" ELSE session[x].phase
    BY <2>1 DEF TypeOK
  <2> QED BY <1>1, <2>2, <2>3 DEF PoolsKnown, PoolsStay, Open, In
<1>2. CASE s \notin Open
  BY <1>2 DEF Close, PoolsKnown, PoolsStay
<1> QED BY <1>1, <1>2

LEMMA ServePools ==
    ASSUME TypeOK, PoolsKnown, NEW s \in Sessions, Serve(s)
    PROVE  PoolsKnown' /\ PoolsStay
<1>1. CASE \E p \in Pools : Pick(s, p)
  BY <1>1 DEF Pick, TypeOK, PoolsKnown, PoolsStay, Open, In
<1>2. CASE PickFails(s) \/ Remove(s)
  BY <1>2 DEF PickFails, Remove, Gone, TypeOK, PoolsKnown, PoolsStay, Open, In
<1>3. CASE Add(s)
  BY <1>3 DEF Add, TypeOK, PoolsKnown, PoolsStay, Open, In
<1>4. CASE Start(s)
  <2>1. CASE session' = [session EXCEPT ![s].phase = "live"]
    BY <1>4, <2>1 DEF Start, TypeOK, PoolsKnown, PoolsStay, Open, In
  <2> QED BY <1>4, <2>1, ClosePools DEF Start
<1>5. CASE HangUp(s)
  BY <1>5, ClosePools DEF HangUp
<1> QED BY <1>1, <1>2, <1>3, <1>4, <1>5 DEF Serve, Proceed

(* A step that leaves the call, the generation and the latest targets alone. *)
LEMMA DueStays ==
    ASSUME IInv, DueCovered, UNCHANGED <<caller, gen, latest, due>>, PoolsStay,
           Open' \subseteq Open \cup Unborn, Unborn' \subseteq Unborn
    PROVE  DueCovered'
<1>1. DueNow' \subseteq DueNow /\ DueNow' \subseteq Open' /\ DueNow \subseteq Open
  BY DEF DueCovered, DueNow
<1>2. \A s \in DueNow' : session'[s].pool = session[s].pool
  BY <1>1 DEF PoolsStay, Open, In
<1> QED BY <1>1, <1>2 DEF DueCovered

LEMMA OperateCovers ==
    ASSUME IInv, PoolsKnown, DueCovered, Operate
    PROVE  DueCovered'
<1>1. /\ UNCHANGED <<session, registry, ending, latest>>
      /\ caller.at = "idle" /\ caller'.at = "collect" /\ gen \in Nat
  BY OperateProperties, DrainsAssumption DEF IInv, TypeOK
<1>2. Open' = Open /\ Unborn' = Unborn /\ Open \cap Unborn = {} /\ Open \subseteq Sessions
  BY <1>1 DEF Open, Unborn, In
<1>3. CASE due' = due
  BY <1>1, <1>2, <1>3, DrainsAssumption DEF DueCovered, DueNow, registry, IInv, TypeOK
<1>4. ASSUME NEW by, NEW of \in SUBSET Open, due' = Due(by, of),
             \A s \in of : session[s].pool \in caller'.filter
      PROVE  DueCovered'
  <2>1. due'.of = of /\ due'.gen = gen + 1 /\ gen' = gen /\ DueNow' = of
    BY <1>1, <1>2, <1>4 DEF Due, DueNow, registry
  <2> QED BY <1>1, <1>2, <1>4, <2>1 DEF DueCovered
<1>5. ASSUME NEW id \in Pools, Switch(id) PROVE DueCovered'
  <2>1. \A s \in Open : session[s].pool \in Pools
    BY DEF PoolsKnown, Open, In
  <2>2. caller'.filter = Pools \ {id} /\ due' = Due("switch", {s \in Open : session[s].pool # id})
    BY <1>5 DEF Switch, Call
  <2> QED BY <1>4, <2>1, <2>2
<1>6. ASSUME NEW id \in Pools, Update(id) PROVE DueCovered'
  <2>1. caller'.filter = {id} /\ due' = Due("update", {s \in Open : session[s].pool = id})
    BY <1>6 DEF Update, Call
  <2> QED BY <1>4, <2>1
<1>7. CASE (\E id \in Pools : Delete(id)) \/ ReconnectAll \/ Failback \/ \E f \in SUBSET Pools : Failover(f)
  BY <1>3, <1>7 DEF Delete, ReconnectAll, Failback, Failover, Background
<1> QED BY <1>5, <1>6, <1>7 DEF Operate

LEMMA DueStep == IInv /\ PoolsKnown /\ DueCovered /\ [Next]_vars => PoolsKnown' /\ DueCovered'
<1> SUFFICES ASSUME IInv, PoolsKnown, DueCovered, [Next]_vars PROVE PoolsKnown' /\ DueCovered'
  OBVIOUS
<1>t. TypeOK /\ gen \in Nat
  BY DrainsAssumption DEF IInv, TypeOK
<1>s. ASSUME UNCHANGED session PROVE Open' = Open /\ Unborn' = Unborn /\ PoolsStay /\ PoolsKnown'
  BY <1>s DEF Open, Unborn, In, PoolsStay, PoolsKnown
<1>1. ASSUME NEW s \in Sessions, Serve(s) PROVE PoolsKnown' /\ DueCovered'
  <2>1. PoolsKnown' /\ PoolsStay
    BY <1>1, <1>t, ServePools
  <2>2. /\ UNCHANGED <<caller, gen, latest, due>>
        /\ Open' \subseteq Open \cup Unborn /\ Unborn' \subseteq Unborn
    BY <1>1, <1>t, ServeProperties DEF registry
  <2> QED BY <2>1, <2>2, DueStays
<1>2. CASE Operate
  <2>1. UNCHANGED session
    BY <1>2, <1>t, OperateProperties
  <2> QED BY <1>2, <1>s, <2>1, OperateCovers
<1>3. CASE Collect
  <2>1. /\ UNCHANGED <<session, registry, latest, due>>
        /\ caller.at = "collect" /\ caller'.at = "start" /\ caller'.targets = On(caller.filter)
    BY <1>3, <1>t DEF Collect, TypeOK
  <2>2. \A s \in Open : session[s].pool \in caller.filter => s \in On(caller.filter)
    BY DEF On, Registered
  <2>3. Open' = Open /\ Unborn' = Unborn /\ PoolsKnown'
    BY <1>s, <2>1
  <2>4. DueNow' = DueNow /\ DueNow \subseteq Open
    BY <2>1, <2>3 DEF DueNow
  <2> QED BY <2>1, <2>2, <2>3, <2>4 DEF DueCovered, registry
<1>4. CASE StartDrain
  <2>1. /\ UNCHANGED <<session, due>> /\ gen' = gen + 1 /\ latest' = caller.targets
        /\ caller'.at = "idle" /\ caller.at = "start"
    BY <1>4 DEF StartDrain, NoCall
  <2>2. Open' = Open /\ Unborn' = Unborn /\ PoolsKnown'
    BY <1>s, <2>1
  <2>3. DueNow' = DueNow
    BY <2>1, <2>2 DEF DueNow
  <2> QED BY <1>t, <2>1, <2>2, <2>3 DEF DueCovered, TypeOK
<1>5. ASSUME NEW g \in Gens, DrainStep(g) PROVE PoolsKnown' /\ DueCovered'
  <2>1. UNCHANGED <<caller, gen, latest, due>>
    BY <1>5 DEF DrainStep
  <2>2. (UNCHANGED session) \/ \E s \in Sessions : Close(s)
    BY <1>5, <1>t DEF DrainStep, TypeOK
  <2>3. ASSUME NEW s \in Sessions, Close(s)
        PROVE  Open' \subseteq Open /\ Unborn' = Unborn /\ PoolsKnown' /\ PoolsStay
    BY <1>t, <2>3, CloseProperties, ClosePools
  <2> QED BY <1>s, <2>1, <2>2, <2>3, DueStays
<1>6. ASSUME NEW g \in Gens, DrainEnd(g) PROVE PoolsKnown' /\ DueCovered'
  <2>1. UNCHANGED <<session, caller, gen, latest, due>>
    BY <1>6 DEF DrainEnd
  <2> QED BY <1>s, <2>1, DueStays
<1>7. CASE Stop \/ CancelDrain \/ ListAll
  <2>1. UNCHANGED <<session, caller, gen, latest, due>>
    BY <1>7 DEF Stop, CancelDrain, ListAll, registry
  <2> QED BY <1>s, <2>1, DueStays
<1>8. ASSUME NEW s \in Sessions, CloseOne(s) PROVE PoolsKnown' /\ DueCovered'
  <2>1. UNCHANGED <<caller, gen, latest, due>> /\ Close(s)
    BY <1>8 DEF CloseOne, registry
  <2>2. Open' \subseteq Open /\ Unborn' = Unborn /\ PoolsKnown' /\ PoolsStay
    BY <1>t, <2>1, CloseProperties, ClosePools
  <2> QED BY <2>1, <2>2, DueStays
<1>9. CASE UNCHANGED vars
  <2>1. UNCHANGED <<session, caller, gen, latest, due>>
    BY <1>9 DEF vars, registry
  <2> QED BY <1>s, <2>1, DueStays
<1> QED BY <1>1, <1>2, <1>3, <1>4, <1>5, <1>6, <1>7, <1>8, <1>9 DEF Next, Run, CloseAll

-----------------------------------------------------------------------------
(* Theorems. *)

LEMMA FinishedLeavesNone == IInv => DrainFinishes
<1> SUFFICES ASSUME IInv, ~draining, gen \notin cancelled PROVE latest \cap Open = {}
  BY DEF DrainFinishes
<1>1. CASE gen = 0
  BY <1>1 DEF IInv, NoneYet
<1>2. CASE gen # 0
  <2>1. gen \in Gens
    BY <1>2, DrainsAssumption DEF IInv, TypeOK, Gens
  <2> QED BY <2>1 DEF IInv, DrainingIsReal, WorkLeft
<1> QED BY <1>1, <1>2

LEMMA Inductive == Spec => []IInv
<1> QED BY InitHolds, StepKeeps, PTL DEF Spec

(* The registry's fields keep their meaning and types. *)
THEOREM TypeCorrect == Spec => []TypeOK
<1>1. IInv => TypeOK
  BY DEF IInv
<1> QED BY <1>1, Inductive, PTL

(* Draining() is true exactly while the latest drain has work: failover and
   failback neither wait for ever nor start into a running drain. *)
THEOREM FlagIsReal == Spec => []DrainingIsReal
<1>1. IInv => DrainingIsReal
  BY DEF IInv
<1> QED BY <1>1, Inductive, PTL

(* A drain that ran to its end has closed every target. *)
THEOREM DrainsFinish == Spec => []DrainFinishes
<1> QED BY FinishedLeavesNone, Inductive, PTL

(* A drain closes no session that the latest drain does not want closed. *)
THEOREM OldDrainsAreHarmless == Spec => OnlyLatest
<1> DEFINE A == runs' # runs => \A s \in Open : session'[s].phase = "closed" => s \in latest
<1>1. IInv /\ [Next]_vars => [A]_vars
  <2> SUFFICES ASSUME IInv, Next, runs' # runs,
                      NEW s \in Open, session'[s].phase = "closed"
               PROVE  s \in latest
    OBVIOUS
  <2>1. CASE \E g \in Gens : DrainStep(g)
    BY <2>1, DrainStepKeeps
  <2>2. CASE StartDrain \/ \E g \in Gens : DrainEnd(g)
    BY <2>2 DEF StartDrain, DrainEnd, Open, In
  <2>3. CASE (\E x \in Sessions : Serve(x)) \/ Operate \/ Collect \/ Stop \/ CloseAll
    BY <2>3 DEF Serve, Proceed, Operate, Switch, Update, Delete, ReconnectAll, Failback, Failover,
       Background, Call, Collect, Stop, CloseAll, CancelDrain, ListAll, CloseOne, registry
  <2> QED BY <2>1, <2>2, <2>3 DEF Next, Run
<1>2. Spec => [][A]_vars
  BY <1>1, Inductive, PTL DEF Spec
<1> QED BY <1>2 DEF OnlyLatest

(* No session that was open when the routing or its pool changed outlives the
   drain that follows, unless another drain or the shutdown stepped in. *)
THEOREM NobodyIsMissed == Spec => []NobodyMissed
<1>1. Init => PoolsKnown /\ DueCovered
  BY DrainsAssumption DEF Init, None, NoCall, PoolsKnown, DueCovered, DueNow
<1>2. IInv /\ DueCovered => NobodyMissed
  BY FinishedLeavesNone DEF DueCovered, DueNow, NobodyMissed, DrainFinishes
<1> QED BY <1>1, <1>2, DueStep, Inductive, PTL DEF Spec

(* Failover and failback cut no drain short. *)
THEOREM BackgroundIsPatient == Spec => BackgroundWaits
<1> DEFINE A == gen' # gen /\ caller.background => ~draining
<1>1. IInv => [A]_vars
  BY DEF IInv, BackgroundIdle
<1> QED BY <1>1, Inductive, PTL DEF BackgroundWaits
===============================================================================
