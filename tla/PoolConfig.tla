------------------------------ MODULE PoolConfig ------------------------------
(***************************************************************************)
(* The saved configuration: pools, their roles and marks, and the          *)
(* settings, as internal/state/state.go stores them in state.json and as   *)
(* the pool operations of internal/pool/manager.go change them.            *)
(*                                                                         *)
(* Every change runs through Store.Mutate, which is three steps here       *)
(* because a crash may come between them: apply the change to a copy and   *)
(* check it (one action per operation), write the file, make the copy      *)
(* current and publish the snapshot the routing reads.                     *)
(*                                                                         *)
(* Data is abstracted: a name, a saved settings map and a pool id are      *)
(* values of small sets; addresses and credentials belong to module        *)
(* HealthTracker.                                                          *)
(***************************************************************************)
EXTENDS Naturals, Sequences, FiniteSets

CONSTANTS
    PoolIds,   \* ids a pool may get
    Names,     \* pool names, distinct up to letter case
    Inputs,    \* what an operator types into the pool editor
    Settings,  \* contents of the settings map
    None,      \* the empty id: no active pool, no main pool
    MaxCrashes \* bound on the crashes of one behaviour

ASSUME NoneAssumption == None \notin PoolIds
(* The main pool of profit switching is no field of the editor. *)
ASSUME InputsAssumption ==
    Inputs \subseteq [name : Names, profit : BOOLEAN, timed : BOOLEAN, solo : BOOLEAN]
ASSUME SettingsAssumption == Settings # {}
ASSUME CrashAssumption == MaxCrashes \in Nat

VARIABLES
    disk,    \* content of state.json
    cur,     \* Store.cur; Manager.snap holds the same pools and roles
    next,    \* the copy a Mutate in progress works on, under Store.mu
    stage,   \* where Mutate is: idle, checked, written; or down after a crash
    rejected, \* File.check has turned down a change that fn accepted
    crashes  \* crashes so far

vars == <<disk, cur, next, stage, rejected, crashes>>

-----------------------------------------------------------------------------
(* The configuration and the helpers the operations share. *)

Marks == [name : Names, profit : BOOLEAN, timed : BOOLEAN, solo : BOOLEAN, home : BOOLEAN]

File == [pools : UNION {[D -> Marks] : D \in SUBSET PoolIds},
         active : PoolIds \cup {None}, fallback : Seq(PoolIds), settings : Settings]

(* Lists a client or a saved timer record may send; a list longer than the
   set of ids repeats one of them anyway. *)
Lists == UNION {[1 .. n -> PoolIds] : n \in 0 .. Cardinality(PoolIds)}

Ids(f) == DOMAIN f.pools
Members(s) == {s[i] : i \in DOMAIN s}
NoRepeats(s) == \A i, j \in DOMAIN s : s[i] = s[j] => i = j
Orders == {s \in Lists : NoRepeats(s)}

(* without, for a list without repeats. *)
Without(s, x) ==
    IF x \notin Members(s) THEN s
    ELSE LET k == CHOOSE i \in DOMAIN s : s[i] = x
         IN  [i \in 1 .. Len(s) - 1 |-> IF i < k THEN s[i] ELSE s[i + 1]]

(* existingOnce: t holds the ids of list that name a pool of f other than
   skip, each once, in the order of their first mention. *)
FirstAt(list, x) == CHOOSE i \in DOMAIN list :
                       list[i] = x /\ \A j \in DOMAIN list : list[j] = x => i <= j
(* Mutant: the order is lost, as if collected in a map. *)
IsExistingAnyOrder(t, f, list, skip) ==
    /\ NoRepeats(t)
    /\ Members(t) = (Members(list) \cap Ids(f)) \ {skip}

IsExistingOnce(t, f, list, skip) ==
    /\ NoRepeats(t)
    /\ Members(t) = (Members(list) \cap Ids(f)) \ {skip}
    /\ \A i, j \in DOMAIN t : i < j => FirstAt(list, t[i]) < FirstAt(list, t[j])

(* apply: the editor's fields replace the pool's; a pool that stops taking
   part in profit switching stops being its main pool. *)
Apply(in, home) ==
    [name |-> in.name, profit |-> in.profit, timed |-> in.timed, solo |-> in.solo,
     home |-> home /\ in.profit /\ ~in.solo]

(* PoolFieldErrors, of the fields kept here. *)
FieldsOK(p) == ~(p.solo /\ p.profit)

(* checkName: no other pool of f has the name. *)
NameFree(f, id, name) == \A x \in Ids(f) \ {id} : f.pools[x].name # name

(* Mutant: the other pools keep the mark. *)
AnyTimedTarget(pools, id) == pools

(* onlyTimedTarget: the pool that got the mark takes it from the others. *)
OnlyTimedTarget(pools, id) ==
    IF ~pools[id].timed THEN pools
    ELSE [x \in DOMAIN pools |-> [pools[x] EXCEPT !.timed = x = id]]

(* File.check: what every write and every start requires of the file. *)
CheckOK(f) ==
    /\ \A x \in Ids(f) : FieldsOK(f.pools[x])
    /\ f.active # None => f.active \in Ids(f)
    /\ f.active = None => Ids(f) = {}
    /\ Members(f.fallback) \subseteq Ids(f) \ {f.active}
    /\ NoRepeats(f.fallback)

-----------------------------------------------------------------------------
(* Store.Mutate. *)

Idle == stage = "idle"

(* fn succeeded with f: check it; the write comes next. *)
Propose(f) ==
    /\ Idle
    /\ IF CheckOK(f) THEN /\ next' = f
                          /\ stage' = "checked"
                          /\ UNCHANGED rejected
                     ELSE /\ rejected' = TRUE
                          /\ UNCHANGED <<next, stage>>
    /\ UNCHANGED <<disk, cur, crashes>>

(* fn returned an error: nothing changes. *)
Refuse == Idle /\ UNCHANGED vars

(* atomicfile.Write replaced the file, or failed and left the old one. *)
Write ==
    /\ stage = "checked"
    /\ disk' = next
    /\ stage' = "written"
    /\ UNCHANGED <<cur, next, rejected, crashes>>

(* Mutant: the error of the write is dropped. *)
WriteErrorDropped ==
    /\ stage = "checked"
    /\ stage' = "written"
    /\ UNCHANGED <<disk, cur, next, rejected, crashes>>

WriteFails ==
    /\ stage = "checked"
    /\ stage' = "idle"
    /\ next' = cur
    /\ UNCHANGED <<disk, cur, rejected, crashes>>

(* The copy becomes current and the snapshot is published under the lock. *)
Commit ==
    /\ stage = "written"
    /\ cur' = next
    /\ stage' = "idle"
    /\ UNCHANGED <<disk, next, rejected, crashes>>

-----------------------------------------------------------------------------
(* The operations of the pool manager, each with Manager.opMu held: what fn
   makes of the copy, and when it returns an error instead. *)

Created(f, id, in) ==
    LET pools == [x \in Ids(f) \cup {id} |-> IF x = id THEN Apply(in, FALSE) ELSE f.pools[x]]
    IN  [f EXCEPT !.pools = OnlyTimedTarget(pools, id), !.active = IF @ = None THEN id ELSE @]

Create(id, in) ==
    IF id \notin Ids(cur) /\ FieldsOK(Apply(in, FALSE)) /\ NameFree(cur, id, in.name)
    THEN Propose(Created(cur, id, in))
    ELSE Refuse

Updated(f, id, in) ==
    [f EXCEPT !.pools = OnlyTimedTarget([f.pools EXCEPT ![id] = Apply(in, f.pools[id].home)], id)]

Update(id, in) ==
    IF id \in Ids(cur) /\ FieldsOK(Apply(in, cur.pools[id].home)) /\ NameFree(cur, id, in.name)
    THEN Propose(Updated(cur, id, in))
    ELSE Refuse

(* Mutant: the deleted pool stays in the fallback order. *)
DeletedDangling(f, id) == [f EXCEPT !.pools = [x \in Ids(f) \ {id} |-> f.pools[x]]]

Deleted(f, id) ==
    [f EXCEPT !.pools = [x \in Ids(f) \ {id} |-> f.pools[x]], !.fallback = Without(@, id)]

Delete(id) ==
    IF id \in Ids(cur) /\ cur.active # id THEN Propose(Deleted(cur, id)) ELSE Refuse

SetFallback(list) ==
    IF Members(list) \subseteq Ids(cur) \ {cur.active} /\ NoRepeats(list)
    THEN Propose([cur EXCEPT !.fallback = list])
    ELSE Refuse

(* Mutant: the previous active pool is not kept as a fallback. *)
RotatedAway(f, id) == Without(f.fallback, id)

(* activate after its checks, without an order to restore: the previous
   active pool becomes the first fallback. *)
Rotated(f, id) ==
    LET order == Without(f.fallback, id)
    IN  IF f.active \in {None, id} THEN order
        ELSE <<f.active>> \o Without(order, f.active)

Activated(f, id, order) == [f EXCEPT !.active = id, !.fallback = order]

Activate(id) ==
    IF id \in Ids(cur) THEN Propose(Activated(cur, id, Rotated(cur, id))) ELSE Refuse

(* Restore: activate with the order of before; the list may name pools that
   are gone. *)
Restore(id, list) ==
    IF id \in Ids(cur)
    THEN \E t \in Orders : /\ IsExistingOnce(t, cur, list, id)
                          /\ Propose(Activated(cur, id, t))
    ELSE Refuse

WithHome(f, id) == [f EXCEPT !.pools = [x \in Ids(f) |-> [f.pools[x] EXCEPT !.home = x = id]]]

SetProfitHome(id) ==
    IF id = None \/ (id \in Ids(cur) /\ cur.pools[id].profit /\ ~cur.pools[id].solo)
    THEN Propose(WithHome(cur, id))
    ELSE Refuse

(* Mutant: the saved map is dropped instead of replaced. *)
SaveNothing(v) == Propose([cur EXCEPT !.settings = None])

(* settings.Store.Save: another writer of the same file, without opMu. *)
SaveSettings(v) == Propose([cur EXCEPT !.settings = v])

-----------------------------------------------------------------------------
(* A crash loses the memory; Open reads the file and refuses an invalid one. *)

Empty(v) == [pools |-> [x \in {} |-> x], active |-> None, fallback |-> <<>>, settings |-> v]

Crash ==
    /\ stage # "down"
    /\ crashes < MaxCrashes
    /\ crashes' = crashes + 1
    /\ stage' = "down"
    /\ UNCHANGED <<disk, cur, next, rejected>>

Open ==
    /\ stage = "down"
    /\ CheckOK(disk)
    /\ cur' = disk
    /\ next' = disk
    /\ stage' = "idle"
    /\ UNCHANGED <<disk, rejected, crashes>>

Init ==
    \E v \in Settings :
        /\ disk = Empty(v)
        /\ cur = Empty(v)
        /\ next = Empty(v)
        /\ stage = "idle"
        /\ rejected = FALSE
        /\ crashes = 0

Operation ==
    \/ \E id \in PoolIds, in \in Inputs : Create(id, in) \/ Update(id, in)
    \/ \E id \in PoolIds : Delete(id) \/ Activate(id)
    \/ \E list \in Lists : SetFallback(list)
    \/ \E id \in PoolIds, list \in Lists : Restore(id, list)
    \/ \E id \in PoolIds \cup {None} : SetProfitHome(id)
    \/ \E v \in Settings : SaveSettings(v)

Next == Operation \/ Write \/ WriteFails \/ Commit \/ Crash \/ Open

Spec == Init /\ [][Next]_vars

-----------------------------------------------------------------------------
(* Properties. *)

TypeOK ==
    /\ disk \in File /\ cur \in File /\ next \in File
    /\ stage \in {"idle", "checked", "written", "down"}
    /\ rejected \in BOOLEAN
    /\ crashes \in 0 .. MaxCrashes

(* No pool operation that passes its own validation is turned down by
   File.check: the operations keep active, fallback and pools consistent by
   themselves, so the admin never sees an internal error for a legal edit. *)
CheckNeverFails == ~rejected

(* What state.go says of the marks and File.check does not enforce: one timed
   target at most, one main pool at most, and only a pool that takes part in
   profit switching, which no solo pool does. It holds of the memory, of the
   change being written and of the file. *)
MarksOf(f) ==
    /\ \A x, y \in Ids(f) : f.pools[x].timed /\ f.pools[y].timed => x = y
    /\ \A x, y \in Ids(f) : f.pools[x].home /\ f.pools[y].home => x = y
    /\ \A x \in Ids(f) : f.pools[x].home => f.pools[x].profit /\ ~f.pools[x].solo
MarksConsistent == MarksOf(cur) /\ MarksOf(next) /\ MarksOf(disk)

(* Events, dialogs and the miners table tell pools apart by name: no sequence
   of creations, renames and deletions gives two pools one name, although
   checkName only compares with the pool being edited. *)
NamesOf(f) == \A x, y \in Ids(f) : f.pools[x].name = f.pools[y].name => x = y
NamesDistinct == NamesOf(cur) /\ NamesOf(next) /\ NamesOf(disk)

(* Mutate writes before it commits: with no change in flight the file is the
   memory; otherwise, after a crash too, it is the last committed content or
   the one being written, and it always passes the check of Open. *)
Durable ==
    /\ stage = "idle" => disk = cur
    /\ disk \in {cur, next}
    /\ CheckOK(disk)

(* Away and back: after an activation of any pool, restoring the pool and the
   fallback order of before gives exactly the roles of before, whatever the
   order was ("with the fallback order from before", README). *)
RoundTrip ==
    \A id \in Ids(cur) :
        LET away == Activated(cur, id, Rotated(cur, id))
        IN  \A t \in Orders :
               IsExistingOnce(t, away, cur.fallback, cur.active)
                  <=> t = cur.fallback

(* The roles in a file. *)
RolesOf(f) ==
    [pools |-> Ids(f), active |-> f.active, order |-> f.fallback,
     timed |-> {x \in Ids(f) : f.pools[x].timed}, home |-> {x \in Ids(f) : f.pools[x].home}]

R == INSTANCE Roles WITH roles <- RolesOf(disk)

(* The roles in state.json change by one whole operation at a time (Mutate),
   through failed writes and crashes: a half-made or forgotten change, two
   timed targets or two main pools are never read back. *)
ImplementsRoles == R!Spec

(* "Preserve failover after a manual switch" (activate): a switch drops no
   pool from the routing chain and does not reorder the pools it passes. *)
ChainKept ==
    \A id \in Ids(cur) :
        LET before == <<cur.active>> \o cur.fallback
            after  == <<id>> \o Rotated(cur, id)
        IN  /\ Members(after) = Members(before) \cup {id}
            /\ NoRepeats(after)
            /\ \A i, j \in DOMAIN after : \A k, l \in DOMAIN before :
                  /\ i < j /\ id \notin {after[i], after[j]}
                  /\ after[i] = before[k] /\ after[j] = before[l]
                  => k < l
===============================================================================
