--------------------------- MODULE PoolConfigProofs ---------------------------
(***************************************************************************)
(* Proofs about the saved configuration, for any set of pools, names,      *)
(* editor inputs and settings.                                             *)
(***************************************************************************)
EXTENDS PoolConfig, SequenceTheorems, WellFoundedInduction, TLAPS

(* What every content of the file satisfies: the check of Open, and the
   marks and names the check does not look at. *)
Good(f) == CheckOK(f) /\ MarksOf(f) /\ NamesOf(f)

(* One operation changes the roles by one step of Roles, or not at all. *)
Moves(f, g) == RolesOf(g) = RolesOf(f) \/ R!Changes(RolesOf(f), RolesOf(g))

(* The inductive invariant: the memory, the file and the change in flight are
   good configurations, and the file is what the stage of Mutate says. *)
Staged ==
    /\ stage \in {"idle", "checked"} => disk = cur
    /\ stage = "written" => disk = next
    /\ disk \in {cur, next}

IInv ==
    /\ TypeOK
    /\ Good(disk) /\ Good(cur) /\ Good(next)
    /\ Staged
    /\ stage = "checked" => Moves(cur, next)
    /\ ~rejected

-----------------------------------------------------------------------------
(* Lists. *)

(* Taking an id out of a list without repeats leaves the others, once each. *)
LEMMA WithoutProperties ==
    ASSUME NEW s \in Seq(PoolIds), NoRepeats(s), NEW x
    PROVE  /\ Without(s, x) \in Seq(PoolIds)
           /\ NoRepeats(Without(s, x))
           /\ Members(Without(s, x)) = Members(s) \ {x}
<1>1. CASE x \notin Members(s)
  BY <1>1 DEF Without, Members
<1>2. CASE x \in Members(s)
  <2> DEFINE k == CHOOSE i \in DOMAIN s : s[i] = x
             w == [i \in 1 .. Len(s) - 1 |-> IF i < k THEN s[i] ELSE s[i + 1]]
  <2>1. k \in 1 .. Len(s) /\ s[k] = x
    BY <1>2 DEF Members
  <2>2. Without(s, x) = w
    BY <1>2 DEF Without
  <2>3. w \in Seq(PoolIds) /\ DOMAIN w = 1 .. Len(s) - 1
    BY <2>1
  <2>4. NoRepeats(w)
    BY <2>1, <2>3 DEF NoRepeats
  <2>5. Members(w) = Members(s) \ {x}
    <3>1. ASSUME NEW i \in DOMAIN w PROVE w[i] \in Members(s) \ {x}
      BY <2>1, <2>3 DEF Members, NoRepeats
    <3>2. ASSUME NEW i \in DOMAIN s, s[i] # x PROVE s[i] \in Members(w)
      <4>1. CASE i < k
        <5>1. i \in DOMAIN w /\ w[i] = s[i]
          BY <4>1, <2>1, <2>3
        <5> QED BY <5>1 DEF Members
      <4>2. CASE i > k
        <5>1. i - 1 \in 1 .. Len(s) - 1 /\ ~(i - 1 < k) /\ (i - 1) + 1 = i
          BY <4>2, <3>2, <2>1
        <5>2. i - 1 \in DOMAIN w /\ w[i - 1] = s[(i - 1) + 1]
          BY <5>1, <2>3
        <5>3. w[i - 1] = s[i]
          BY <5>1, <5>2
        <5> QED BY <5>2, <5>3 DEF Members
      <4> QED BY <4>1, <4>2, <2>1, <3>2
    <3>3. Members(w) \subseteq Members(s) \ {x}
      BY <3>1 DEF Members
    <3>4. Members(s) \ {x} \subseteq Members(w)
      BY <3>2 DEF Members
    <3> QED BY <3>3, <3>4
  <2> QED BY <2>2, <2>3, <2>4, <2>5
<1> QED BY <1>1, <1>2

LEMMA WithoutKeepsOrder ==
    ASSUME NEW s \in Seq(PoolIds), NoRepeats(s), NEW x
    PROVE  R!InOrder(Without(s, x), s)
<1>1. CASE x \notin Members(s)
  BY <1>1 DEF Without, R!InOrder
<1>2. CASE x \in Members(s)
  <2> DEFINE k == CHOOSE i \in DOMAIN s : s[i] = x
             w == [i \in 1 .. Len(s) - 1 |-> IF i < k THEN s[i] ELSE s[i + 1]]
             at(i) == IF i < k THEN i ELSE i + 1
  <2>1. k \in 1 .. Len(s)
    BY <1>2 DEF Members
  <2>2. Without(s, x) = w
    BY <1>2 DEF Without
  <2>3. \A i \in DOMAIN w : i \in 1 .. Len(s) - 1 /\ at(i) \in DOMAIN s /\ w[i] = s[at(i)]
    BY <2>1
  <2>4. \A i, j \in DOMAIN w : i < j => at(i) < at(j)
    BY <2>1, <2>3
  <2> HIDE DEF w, at
  <2> QED BY <2>2, <2>3, <2>4 DEF R!InOrder
<1> QED BY <1>1, <1>2

(* A new first element. *)
First(x, s) == <<x>> \o s

LEMMA FirstAdded ==
    ASSUME NEW s \in Seq(PoolIds), NoRepeats(s), NEW x \in PoolIds, x \notin Members(s),
           NEW r, r = First(x, s)
    PROVE  /\ r \in Seq(PoolIds) /\ Len(r) = Len(s) + 1 /\ r[1] = x
           /\ \A i \in 2 .. Len(r) : i - 1 \in DOMAIN s /\ r[i] = s[i - 1]
           /\ \A i \in DOMAIN s : i + 1 \in DOMAIN r /\ r[i + 1] = s[i]
           /\ Members(r) = Members(s) \cup {x}
           /\ NoRepeats(r)
<1>1. /\ r \in Seq(PoolIds) /\ Len(r) = Len(s) + 1 /\ r[1] = x
      /\ \A i \in 2 .. Len(r) : i - 1 \in DOMAIN s /\ r[i] = s[i - 1]
      /\ \A i \in DOMAIN s : i + 1 \in DOMAIN r /\ r[i + 1] = s[i]
  BY DEF First
<1>2. Members(r) = Members(s) \cup {x}
  <2>1. ASSUME NEW i \in DOMAIN s PROVE s[i] \in Members(r)
    BY <1>1 DEF Members
  <2>2. x \in Members(r)
    BY <1>1 DEF Members
  <2>3. ASSUME NEW i \in DOMAIN r PROVE r[i] \in Members(s) \cup {x}
    <3>1. i = 1 \/ i \in 2 .. Len(r)
      BY <1>1
    <3>2. i \in 2 .. Len(r) => r[i] \in Members(s)
      BY <1>1 DEF Members
    <3> QED BY <1>1, <3>1, <3>2
  <2>4. Members(r) \subseteq Members(s) \cup {x}
    BY <2>3 DEF Members
  <2>5. Members(s) \subseteq Members(r)
    BY <2>1 DEF Members
  <2> QED BY <2>2, <2>4, <2>5
<1>3. NoRepeats(r)
  <2>1. \A i \in DOMAIN s : s[i] # x
    BY DEF Members
  <2> SUFFICES ASSUME NEW i \in DOMAIN r, NEW j \in DOMAIN r, r[i] = r[j] PROVE i = j
    BY DEF NoRepeats
  <2>2. i \in 1 .. Len(r) /\ j \in 1 .. Len(r)
    BY <1>1
  <2>3. CASE i = 1 \/ j = 1
    BY <1>1, <2>1, <2>2, <2>3
  <2>4. CASE i # 1 /\ j # 1
    <3>1. i \in 2 .. Len(r) /\ j \in 2 .. Len(r)
      BY <2>2, <2>4, <1>1
    <3>2. s[i - 1] = s[j - 1] /\ i - 1 \in DOMAIN s /\ j - 1 \in DOMAIN s
      BY <3>1, <1>1
    <3>3. i - 1 = j - 1
      BY <3>2 DEF NoRepeats
    <3> QED BY <3>1, <3>3
  <2> QED BY <2>3, <2>4
<1> QED BY <1>1, <1>2, <1>3

(* The order after an activation: the previous active pool, unless it stays,
   and the fallbacks without the new one. *)
LEMMA RotatedIs ==
    ASSUME NEW f \in File, CheckOK(f), NEW id \in Ids(f),
           NEW order, order = Without(f.fallback, id)
    PROVE  /\ f.active \in Ids(f) /\ Ids(f) \subseteq PoolIds
           /\ f.fallback \in Seq(PoolIds) /\ NoRepeats(f.fallback) /\ f.active \notin Members(f.fallback)
           /\ order \in Seq(PoolIds) /\ NoRepeats(order)
           /\ Members(order) = Members(f.fallback) \ {id}
           /\ f.active = id => Rotated(f, id) = f.fallback /\ order = f.fallback
           /\ f.active # id => Rotated(f, id) = First(f.active, order)
<1>1. /\ f.active \in Ids(f) /\ f.active # None /\ Ids(f) \subseteq PoolIds
      /\ f.fallback \in Seq(PoolIds) /\ NoRepeats(f.fallback) /\ f.active \notin Members(f.fallback)
  BY DEF CheckOK, File, Ids
<1>2. /\ order \in Seq(PoolIds) /\ NoRepeats(order)
      /\ Members(order) = Members(f.fallback) \ {id}
  BY <1>1, WithoutProperties
<1>3. f.active \notin Members(order)
  BY <1>1, <1>2
<1>4. f.active = id => Rotated(f, id) = f.fallback /\ order = f.fallback
  BY <1>1 DEF Rotated, Without
<1>5. f.active # id => Rotated(f, id) = First(f.active, order)
  BY <1>1, <1>3 DEF Rotated, Without, First
<1> QED BY <1>1, <1>2, <1>4, <1>5

(* An activation gives a fallback order without repeats that names existing
   pools other than the new active one. *)
LEMMA RotatedProperties ==
    ASSUME NEW f \in File, CheckOK(f), NEW id \in Ids(f)
    PROVE  /\ Rotated(f, id) \in Seq(PoolIds)
           /\ NoRepeats(Rotated(f, id))
           /\ Members(Rotated(f, id)) \subseteq Ids(f) \ {id}
           /\ Members(Rotated(f, id)) = (Members(f.fallback) \cup {f.active}) \ {id}
<1> DEFINE order == Without(f.fallback, id)
<1>1. /\ f.active \in Ids(f) /\ Ids(f) \subseteq PoolIds /\ Members(f.fallback) \subseteq Ids(f)
      /\ order \in Seq(PoolIds) /\ NoRepeats(order) /\ f.active \notin Members(f.fallback)
      /\ Members(order) = Members(f.fallback) \ {id}
      /\ f.active = id => Rotated(f, id) = order
      /\ f.active # id => Rotated(f, id) = First(f.active, order)
  BY RotatedIs DEF CheckOK
<1> HIDE DEF order
<1>2. CASE f.active = id
  BY <1>1, <1>2
<1>3. CASE f.active # id
  <2>1. f.active \in PoolIds /\ f.active \notin Members(order)
    BY <1>1
  <2> QED BY <1>1, <1>3, <2>1, FirstAdded
<1> QED BY <1>2, <1>3

(* Everybody of before and id, once each, and the others in the order of before. *)
SameChain(before, after, id) ==
    /\ Members(after) = Members(before) \cup {id}
    /\ NoRepeats(after)
    /\ \A i, j \in DOMAIN after : \A k, l \in DOMAIN before :
          /\ i < j /\ id \notin {after[i], after[j]}
          /\ after[i] = before[k] /\ after[j] = before[l]
          => k < l

(* Putting a pool before a list that was itself put together like that: the
   others keep their order. *)
LEMMA OrderAround ==
    ASSUME NEW a \in PoolIds, NEW id \in PoolIds, NEW fb \in Seq(PoolIds), NEW order \in Seq(PoolIds),
           NEW rot \in Seq(PoolIds), NoRepeats(fb), NoRepeats(order), NoRepeats(rot), a \notin Members(fb),
           Members(order) = Members(fb) \ {id}, Members(rot) = (Members(fb) \cup {a}) \ {id},
           a = id => rot = fb, a # id => rot = First(a, order),
           \A i, j \in DOMAIN order : i < j =>
              \E k, l \in DOMAIN fb : k < l /\ fb[k] = order[i] /\ fb[l] = order[j],
           NEW before, before = First(a, fb), NEW after, after = First(id, rot)
    PROVE  SameChain(before, after, id)
<1>1. a \notin Members(order) /\ id \notin Members(rot) /\ id \notin Members(order)
  OBVIOUS
<1>2. /\ NoRepeats(before) /\ Members(before) = Members(fb) \cup {a}
      /\ Len(before) = Len(fb) + 1 /\ before[1] = a /\ before \in Seq(PoolIds)
      /\ \A i \in DOMAIN fb : i + 1 \in DOMAIN before /\ before[i + 1] = fb[i]
  BY <1>1, FirstAdded
<1>3. /\ NoRepeats(after) /\ Members(after) = Members(rot) \cup {id}
      /\ Len(after) = Len(rot) + 1 /\ after[1] = id /\ after \in Seq(PoolIds)
      /\ \A i \in 2 .. Len(after) : i - 1 \in DOMAIN rot /\ after[i] = rot[i - 1]
  BY <1>1, FirstAdded
(* The pools that are passed are in the order of before. *)
<1>4. ASSUME NEW i \in DOMAIN rot, NEW j \in DOMAIN rot, i < j
      PROVE  \E k, l \in DOMAIN before : k < l /\ before[k] = rot[i] /\ before[l] = rot[j]
  <2>1. CASE a = id
    <3>1. i + 1 \in DOMAIN before /\ j + 1 \in DOMAIN before /\ before[i + 1] = rot[i] /\ before[j + 1] = rot[j]
      BY <1>1, <1>2, <2>1
    <3>2. i + 1 < j + 1
      BY <1>4
    <3> QED BY <3>1, <3>2
  <2>2. CASE a # id
    <3>1. /\ Len(rot) = Len(order) + 1 /\ rot[1] = a
          /\ \A n \in 2 .. Len(rot) : n - 1 \in DOMAIN order /\ rot[n] = order[n - 1]
      BY <1>1, <2>2, FirstAdded
    <3>2. i \in 1 .. Len(rot) /\ j \in 2 .. Len(rot)
      BY <1>4
    <3>3. rot[j] = order[j - 1] /\ j - 1 \in DOMAIN order
      BY <3>1, <3>2
    <3>4. CASE i = 1
      <4>1. PICK m \in DOMAIN fb : fb[m] = order[j - 1]
        <5>1. order[j - 1] \in Members(order)
          BY <3>3 DEF Members
        <5>2. order[j - 1] \in Members(fb)
          BY <5>1
        <5> QED BY <5>2 DEF Members
      <4>2. m + 1 \in DOMAIN before /\ before[m + 1] = rot[j] /\ 1 < m + 1
        <5>1. m + 1 \in DOMAIN before /\ before[m + 1] = fb[m]
          BY <1>2, <4>1
        <5>2. m \in 1 .. Len(fb)
          BY <1>1, <4>1
        <5> QED BY <3>3, <4>1, <5>1, <5>2
      <4>3. 1 \in DOMAIN before /\ before[1] = rot[i]
        BY <1>1, <1>2, <3>1, <3>4
      <4> QED BY <4>2, <4>3
    <3>5. CASE i # 1
      <4>1. i \in 2 .. Len(rot)
        BY <3>2, <3>5
      <4>2. rot[i] = order[i - 1] /\ i - 1 \in DOMAIN order /\ i - 1 < j - 1
        BY <3>1, <3>2, <4>1, <1>4
      <4>3. PICK k \in DOMAIN fb, l \in DOMAIN fb : k < l /\ fb[k] = order[i - 1] /\ fb[l] = order[j - 1]
        BY <3>3, <4>2
      <4>4. k + 1 < l + 1
        BY <1>1, <4>3
      <4> QED BY <1>2, <3>3, <4>2, <4>3, <4>4
    <3> QED BY <3>4, <3>5
  <2> QED BY <2>1, <2>2
<1>5. ASSUME NEW i \in DOMAIN after, NEW j \in DOMAIN after, NEW k \in DOMAIN before, NEW l \in DOMAIN before,
             i < j, after[i] # id, after[j] # id, after[i] = before[k], after[j] = before[l]
      PROVE  k < l
  <2>1. i \in 2 .. Len(after) /\ j \in 2 .. Len(after)
    BY <1>3, <1>5
  <2>2. i - 1 \in DOMAIN rot /\ j - 1 \in DOMAIN rot /\ after[i] = rot[i - 1] /\ after[j] = rot[j - 1] /\ i - 1 < j - 1
    BY <1>3, <1>5, <2>1
  <2>3. PICK m \in DOMAIN before, n \in DOMAIN before : m < n /\ before[m] = rot[i - 1] /\ before[n] = rot[j - 1]
    BY <1>4, <2>2
  <2>4. m = k /\ n = l
    <3>1. before[m] = before[k] /\ before[n] = before[l]
      BY <1>5, <2>2, <2>3
    <3> QED BY <1>2, <3>1 DEF NoRepeats
  <2> QED BY <2>3, <2>4
<1>6. Members(after) = Members(before) \cup {id}
  BY <1>2, <1>3
<1> QED BY <1>3, <1>5, <1>6 DEF SameChain

(* The routing chain after an activation. *)
LEMMA ChainAfterSwitch ==
    ASSUME NEW f \in File, CheckOK(f), NEW id \in Ids(f),
           NEW before, before = First(f.active, f.fallback),
           NEW after, after = First(id, Rotated(f, id))
    PROVE  SameChain(before, after, id)
<1> DEFINE a == f.active
           fb == f.fallback
           order == Without(fb, id)
           rot == Rotated(f, id)
<1>1. /\ a \in PoolIds /\ id \in PoolIds /\ a \notin Members(fb) /\ fb \in Seq(PoolIds) /\ NoRepeats(fb)
      /\ order \in Seq(PoolIds) /\ NoRepeats(order) /\ Members(order) = Members(fb) \ {id}
      /\ a = id => rot = fb
      /\ a # id => rot = First(a, order)
  BY RotatedIs
<1>2. rot \in Seq(PoolIds) /\ NoRepeats(rot) /\ Members(rot) = (Members(fb) \cup {a}) \ {id}
  BY RotatedProperties
<1>3. R!InOrder(order, fb)
  BY <1>1, WithoutKeepsOrder
<1>4. before = First(a, fb) /\ after = First(id, rot)
  OBVIOUS
<1> HIDE DEF a, fb, order, rot
<1>5. \A i, j \in DOMAIN order : i < j =>
         \E k, l \in DOMAIN fb : k < l /\ fb[k] = order[i] /\ fb[l] = order[j]
  BY <1>3 DEF R!InOrder
<1> QED BY <1>1, <1>2, <1>4, <1>5, OrderAround

(* A numbering that goes up never falls behind. *)
LEMMA GoingUp ==
    ASSUME NEW n \in Nat, NEW m \in Nat, NEW p \in [1 .. n -> 1 .. m],
           \A i, j \in 1 .. n : i < j => p[i] < p[j]
    PROVE  \A i \in 1 .. n : i <= p[i]
<1> DEFINE Less == OpToRel(<, Nat)
           Behind == {i \in 1 .. n : p[i] < i}
<1>1. \A x, y \in Nat : <<x, y>> \in Less <=> x < y
  BY DEF OpToRel
<1>2. IsWellFoundedOn(Less, Nat)
  BY NatLessThanWellFounded
<1> HIDE DEF Less
<1>3. Behind = {}
  <2> SUFFICES ASSUME Behind # {} PROVE FALSE
    OBVIOUS
  <2>1. Behind \subseteq Nat
    OBVIOUS
  <2>2. PICK i \in Behind : \A j \in Behind : ~(<<j, i>> \in Less)
    BY <1>2, <2>1, WFMin
  <2>3. i \in 1 .. n /\ p[i] < i /\ p[i] >= 1 /\ p[i] \in Nat
    BY <2>2
  <2>4. i - 1 \in 1 .. n /\ i - 1 < i
    BY <2>3
  <2>5. p[i - 1] < p[i] /\ p[i - 1] \in Nat
    <3>1. p[i - 1] \in 1 .. m
      BY <2>4
    <3>2. p[i - 1] < p[i]
      BY <2>3, <2>4
    <3> QED BY <3>1, <3>2
  <2>6. p[i - 1] < i - 1
    BY <2>3, <2>5
  <2>7. i - 1 \in Behind /\ i \in Nat /\ i - 1 \in Nat
    BY <2>3, <2>4, <2>6
  <2> QED BY <1>1, <2>2, <2>4, <2>7
<1> QED BY <1>3

(* Two lists of the same pools, once each, in the same order, are one. *)
LEMMA OneOrder ==
    ASSUME NEW s \in Seq(PoolIds), NEW t \in Seq(PoolIds), NoRepeats(s), NoRepeats(t),
           Members(t) = Members(s),
           \A i, j \in DOMAIN t : i < j => FirstAt(s, t[i]) < FirstAt(s, t[j])
    PROVE  t = s
<1> DEFINE p == [i \in 1 .. Len(t) |-> FirstAt(s, t[i])]
           q == [j \in 1 .. Len(s) |-> CHOOSE i \in 1 .. Len(t) : t[i] = s[j]]
<1>0. DOMAIN s = 1 .. Len(s) /\ DOMAIN t = 1 .. Len(t) /\ Len(s) \in Nat /\ Len(t) \in Nat
  OBVIOUS
<1>1. ASSUME NEW i \in 1 .. Len(t) PROVE FirstAt(s, t[i]) \in 1 .. Len(s) /\ s[FirstAt(s, t[i])] = t[i]
  <2>0. t[i] \in Members(t)
    BY <1>0 DEF Members
  <2>1. PICK k \in DOMAIN s : s[k] = t[i]
    BY <2>0 DEF Members
  <2>2. \A j \in DOMAIN s : s[j] = t[i] => k <= j
    BY <2>1 DEF NoRepeats
  <2> QED BY <2>1, <2>2 DEF FirstAt
<1>2. ASSUME NEW j \in 1 .. Len(s) PROVE \E i \in 1 .. Len(t) : t[i] = s[j]
  <2>1. s[j] \in Members(t)
    BY <1>0 DEF Members
  <2> QED BY <1>0, <2>1 DEF Members
<1>3. p \in [1 .. Len(t) -> 1 .. Len(s)] /\ \A i \in 1 .. Len(t) : s[p[i]] = t[i]
  BY <1>1
<1>4. \A i, j \in 1 .. Len(t) : i < j => p[i] < p[j]
  BY <1>0
<1>5. q \in [1 .. Len(s) -> 1 .. Len(t)] /\ \A j \in 1 .. Len(s) : t[q[j]] = s[j]
  BY <1>2
<1> HIDE DEF p, q
<1>6. \A j \in 1 .. Len(s) : p[q[j]] = j
  <2> SUFFICES ASSUME NEW j \in 1 .. Len(s) PROVE p[q[j]] = j
    OBVIOUS
  <2>1. q[j] \in 1 .. Len(t) /\ p[q[j]] \in 1 .. Len(s)
    BY <1>3, <1>5
  <2>2. s[p[q[j]]] = s[j]
    BY <1>3, <1>5, <2>1
  <2> QED BY <1>0, <2>1, <2>2 DEF NoRepeats
<1>7. \A i \in 1 .. Len(t) : q[p[i]] = i
  <2> SUFFICES ASSUME NEW i \in 1 .. Len(t) PROVE q[p[i]] = i
    OBVIOUS
  <2>1. p[i] \in 1 .. Len(s) /\ q[p[i]] \in 1 .. Len(t)
    BY <1>3, <1>5
  <2>2. t[q[p[i]]] = t[i]
    BY <1>3, <1>5, <2>1
  <2> QED BY <1>0, <2>1, <2>2 DEF NoRepeats
<1>8. ASSUME NEW i \in 1 .. Len(s), NEW j \in 1 .. Len(s), i < j PROVE q[i] < q[j]
  <2>1. q[i] \in 1 .. Len(t) /\ q[j] \in 1 .. Len(t) /\ p[q[i]] = i /\ p[q[j]] = j
    BY <1>5, <1>6
  <2>2. ~(q[j] < q[i])
    BY <1>4, <1>8, <2>1
  <2>3. q[i] # q[j]
    BY <1>8, <2>1
  <2> QED BY <2>1, <2>2, <2>3
<1>9. \A i \in 1 .. Len(t) : i <= p[i]
  BY <1>0, <1>3, <1>4, GoingUp
<1>10. \A j \in 1 .. Len(s) : j <= q[j]
  BY <1>0, <1>5, <1>8, GoingUp
<1>11. \A i \in 1 .. Len(t) : i \in 1 .. Len(s) /\ t[i] = s[i]
  <2> SUFFICES ASSUME NEW i \in 1 .. Len(t) PROVE i \in 1 .. Len(s) /\ t[i] = s[i]
    OBVIOUS
  <2>1. p[i] \in 1 .. Len(s) /\ q[p[i]] = i /\ i <= p[i] /\ p[i] <= q[p[i]]
    BY <1>3, <1>7, <1>9, <1>10
  <2>2. p[i] = i
    BY <2>1
  <2> QED BY <1>3, <2>1, <2>2
<1>12. \A j \in 1 .. Len(s) : j \in 1 .. Len(t)
  <2> SUFFICES ASSUME NEW j \in 1 .. Len(s) PROVE j \in 1 .. Len(t)
    OBVIOUS
  <2>1. q[j] \in 1 .. Len(t) /\ j <= q[j]
    BY <1>5, <1>10
  <2> QED BY <2>1
<1>13. Len(s) = Len(t)
  <2>1. Len(t) > 0 => Len(t) \in 1 .. Len(t)
    BY <1>0
  <2>2. Len(s) > 0 => Len(s) \in 1 .. Len(s)
    BY <1>0
  <2>3. Len(t) <= Len(s)
    BY <1>0, <1>11, <2>1
  <2>4. Len(s) <= Len(t)
    BY <1>0, <1>12, <2>2
  <2>5. Len(s) \in Nat /\ Len(t) \in Nat
    BY <1>0
  <2> DEFINE ls == Len(s)
             lt == Len(t)
  <2>6. ls \in Nat /\ lt \in Nat /\ ls <= lt /\ lt <= ls
    BY <2>3, <2>4, <2>5
  <2> HIDE DEF ls, lt
  <2>7. ls = lt
    BY <2>6
  <2> QED BY <2>7 DEF ls, lt
<1>14. \A i \in 1 .. Len(t) : t[i] = s[i]
  BY <1>11
<1> QED BY <1>13, <1>14, SeqEqual

-----------------------------------------------------------------------------
(* Marks. *)

(* Giving one pool the timed target leaves at most that one with it, and
   changes no other field. *)
LEMMA OnlyTimedTargetProperties ==
    ASSUME NEW D \in SUBSET PoolIds, NEW pools \in [D -> Marks], NEW id \in D,
           \A x, y \in D \ {id} : pools[x].timed /\ pools[y].timed => x = y,
           NEW new, new = OnlyTimedTarget(pools, id)
    PROVE  /\ new \in [D -> Marks]
           /\ \A x, y \in D : new[x].timed /\ new[y].timed =>
                 x = y \/ (pools[x].timed /\ pools[y].timed /\ ~pools[id].timed)
           /\ \A x \in D : /\ new[x].name = pools[x].name
                            /\ new[x].profit = pools[x].profit
                            /\ new[x].solo = pools[x].solo
                            /\ new[x].home = pools[x].home
<1>1. CASE pools[id].timed
  <2>1. new = [x \in D |-> [pools[x] EXCEPT !.timed = x = id]]
    BY <1>1 DEF OnlyTimedTarget
  <2>2. \A x \in D : /\ new[x] \in Marks /\ new[x].timed = (x = id)
                     /\ new[x].name = pools[x].name /\ new[x].profit = pools[x].profit
                     /\ new[x].solo = pools[x].solo /\ new[x].home = pools[x].home
    <3> SUFFICES ASSUME NEW x \in D
                 PROVE  /\ new[x] \in Marks /\ new[x].timed = (x = id)
                        /\ new[x].name = pools[x].name /\ new[x].profit = pools[x].profit
                        /\ new[x].solo = pools[x].solo /\ new[x].home = pools[x].home
      OBVIOUS
    <3>1. new[x] = [pools[x] EXCEPT !.timed = x = id] /\ pools[x] \in Marks
      BY <2>1
    <3> QED BY <3>1 DEF Marks
  <2> QED BY <2>1, <2>2
<1>2. CASE ~pools[id].timed
  <2>1. new = pools
    BY <1>2 DEF OnlyTimedTarget
  <2> QED BY <1>2, <2>1
<1> QED BY <1>1, <1>2

LEMMA TimedTargetMoves ==
    ASSUME NEW D, NEW pools \in [D -> Marks], NEW id \in D,
           NEW new, new = OnlyTimedTarget(pools, id)
    PROVE  /\ pools[id].timed => \A x \in D : new[x].timed <=> (x = id)
           /\ ~pools[id].timed => new = pools
<1>1. CASE pools[id].timed
  <2>1. new = [x \in D |-> [pools[x] EXCEPT !.timed = (x = id)]]
    BY <1>1 DEF OnlyTimedTarget
  <2>2. ASSUME NEW x \in D PROVE new[x].timed <=> (x = id)
    <3>1. new[x] = [pools[x] EXCEPT !.timed = (x = id)] /\ pools[x] \in Marks
      BY <2>1
    <3> QED BY <3>1 DEF Marks
  <2> QED BY <1>1, <2>2
<1>2. CASE ~pools[id].timed
  BY <1>2 DEF OnlyTimedTarget
<1> QED BY <1>1, <1>2

(* The editor's fields make a well-formed pool, which is a main pool only if
   it was one and takes part in profit switching. *)
LEMMA ApplyProperties ==
    ASSUME NEW in \in Inputs, NEW home \in BOOLEAN
    PROVE  /\ Apply(in, home) \in Marks
           /\ Apply(in, home).home => home /\ in.profit /\ ~in.solo
           /\ Apply(in, home).name = in.name
           /\ Apply(in, home).profit = in.profit
           /\ Apply(in, home).solo = in.solo
           /\ Apply(in, home).timed = in.timed
BY InputsAssumption DEF Apply, Marks

-----------------------------------------------------------------------------
(* Each operation takes a good file to a good file. *)

LEMMA CreatedGood ==
    ASSUME NEW f \in File, Good(f), NEW id \in PoolIds, NEW in \in Inputs,
           id \notin Ids(f), FieldsOK(Apply(in, FALSE)), NameFree(f, id, in.name)
    PROVE  Created(f, id, in) \in File /\ Good(Created(f, id, in)) /\ Moves(f, Created(f, id, in))
<1> DEFINE D == Ids(f) \cup {id}
           pools == [x \in D |-> IF x = id THEN Apply(in, FALSE) ELSE f.pools[x]]
           new == OnlyTimedTarget(pools, id)
           g == Created(f, id, in)
<1>1. /\ Ids(f) \in SUBSET PoolIds /\ f.pools \in [Ids(f) -> Marks]
      /\ f.active \in PoolIds \cup {None} /\ f.fallback \in Seq(PoolIds) /\ f.settings \in Settings
  BY DEF File, Ids
<1>2. D \in SUBSET PoolIds /\ pools \in [D -> Marks] /\ id \in D
  BY <1>1, ApplyProperties
<1>3. \A x, y \in D \ {id} : pools[x].timed /\ pools[y].timed => x = y
  BY DEF Good, MarksOf
<1>4. /\ new \in [D -> Marks]
      /\ \A x, y \in D : new[x].timed /\ new[y].timed =>
            x = y \/ (pools[x].timed /\ pools[y].timed /\ ~pools[id].timed)
      /\ \A x \in D : /\ new[x].name = pools[x].name /\ new[x].profit = pools[x].profit
                       /\ new[x].solo = pools[x].solo /\ new[x].home = pools[x].home
  <2> HIDE DEF D, pools, new
  <2> QED BY <1>2, <1>3, OnlyTimedTargetProperties DEF new
<1>t. /\ pools[id].timed => \A x \in D : new[x].timed <=> (x = id)
      /\ ~pools[id].timed => new = pools
  <2> HIDE DEF D, pools, new
  <2> QED BY <1>2, TimedTargetMoves DEF new
<1>5. /\ g \in File /\ Ids(g) = D /\ g.pools = new /\ g.fallback = f.fallback
      /\ g.active = IF f.active = None THEN id ELSE f.active
  <2>1. g = [f EXCEPT !.pools = new, !.active = IF @ = None THEN id ELSE @]
    BY DEF Created
  <2> HIDE DEF D, pools, new, g
  <2> QED BY <1>1, <1>2, <1>4, <2>1 DEF File, Ids
<1>6. CheckOK(g)
  <2>1. \A x \in D : FieldsOK(new[x])
    <3>1. \A x \in D : FieldsOK(pools[x])
      BY DEF Good, CheckOK
    <3> HIDE DEF new, pools, D
    <3> QED BY <1>4, <3>1 DEF FieldsOK
  <2> HIDE DEF g, new, pools
  <2> QED BY <1>1, <1>5, <2>1, NoneAssumption DEF Good, CheckOK, Members
<1>7. MarksOf(g)
  <2>1. /\ \A x, y \in D : pools[x].home /\ pools[y].home => x = y
        /\ \A x \in D : pools[x].home => pools[x].profit /\ ~pools[x].solo
    BY ApplyProperties DEF Good, MarksOf
  <2>2. \A x, y \in D : pools[x].timed /\ pools[y].timed /\ ~pools[id].timed => x = y
    BY <1>3
  <2> HIDE DEF g, new, pools, D
  <2> QED BY <1>4, <1>5, <2>1, <2>2 DEF MarksOf
<1>8. NamesOf(g)
  <2>1. \A x, y \in D : pools[x].name = pools[y].name => x = y
    <3>1. pools[id].name = in.name /\ \A x \in Ids(f) : pools[x] = f.pools[x]
      BY ApplyProperties
    <3> HIDE DEF pools
    <3> QED BY <3>1 DEF Good, NamesOf, NameFree
  <2> HIDE DEF g, new, pools, D
  <2> QED BY <1>4, <1>5, <2>1 DEF NamesOf
<1>9. Moves(f, g)
  <2>1. ~pools[id].home /\ \A x \in Ids(f) : pools[x] = f.pools[x]
    BY DEF Apply
  <2> HIDE DEF pools, new, g
  <2>2. {x \in D : new[x].home} = {x \in Ids(f) : f.pools[x].home}
    BY <1>4, <2>1
  <2>3. {x \in D : new[x].timed} \in {{x \in Ids(f) : f.pools[x].timed}, {id}}
    <3>1. CASE pools[id].timed
      <4>1. {x \in D : new[x].timed} = {id}
        BY <1>2, <1>t, <3>1
      <4> QED BY <4>1
    <3>2. CASE ~pools[id].timed
      <4>1. {x \in D : new[x].timed} = {x \in Ids(f) : f.pools[x].timed}
        BY <1>t, <2>1, <3>2
      <4> QED BY <4>1
    <3> QED BY <3>1, <3>2
  <2> HIDE DEF D
  <2>4. R!Adds(RolesOf(f), RolesOf(g))
    BY <1>5, <2>2, <2>3 DEF R!Adds, RolesOf, D
  <2> QED BY <2>4 DEF Moves, R!Changes
<1> QED BY <1>5, <1>6, <1>7, <1>8, <1>9 DEF Good

LEMMA UpdatedGood ==
    ASSUME NEW f \in File, Good(f), NEW id \in Ids(f), NEW in \in Inputs,
           FieldsOK(Apply(in, f.pools[id].home)), NameFree(f, id, in.name)
    PROVE  Updated(f, id, in) \in File /\ Good(Updated(f, id, in)) /\ Moves(f, Updated(f, id, in))
<1> DEFINE D == Ids(f)
           p == Apply(in, f.pools[id].home)
           pools == [f.pools EXCEPT ![id] = p]
           new == OnlyTimedTarget(pools, id)
           g == Updated(f, id, in)
<1>1. /\ Ids(f) \in SUBSET PoolIds /\ f.pools \in [Ids(f) -> Marks]
      /\ f.active \in PoolIds \cup {None} /\ f.fallback \in Seq(PoolIds) /\ f.settings \in Settings
      /\ f.pools[id].home \in BOOLEAN
  BY DEF File, Ids, Marks
<1>2. D \in SUBSET PoolIds /\ pools \in [D -> Marks] /\ id \in D
  BY <1>1, ApplyProperties
<1>p. /\ pools[id] = p
      /\ \A x \in D \ {id} : pools[x] = f.pools[x]
  BY <1>1
<1>3. \A x, y \in D \ {id} : pools[x].timed /\ pools[y].timed => x = y
  BY <1>p DEF Good, MarksOf
<1>4. /\ new \in [D -> Marks]
      /\ \A x, y \in D : new[x].timed /\ new[y].timed =>
            x = y \/ (pools[x].timed /\ pools[y].timed /\ ~pools[id].timed)
      /\ \A x \in D : /\ new[x].name = pools[x].name /\ new[x].profit = pools[x].profit
                       /\ new[x].solo = pools[x].solo /\ new[x].home = pools[x].home
  <2> HIDE DEF D, pools, new
  <2> QED BY <1>2, <1>3, OnlyTimedTargetProperties DEF new
<1>t. /\ pools[id].timed => \A x \in D : new[x].timed <=> (x = id)
      /\ ~pools[id].timed => new = pools
  <2> HIDE DEF D, pools, new
  <2> QED BY <1>2, TimedTargetMoves DEF new
<1>5. /\ g \in File /\ Ids(g) = D /\ g.pools = new /\ g.fallback = f.fallback
      /\ g.active = f.active
  <2>1. g = [f EXCEPT !.pools = new]
    BY DEF Updated
  <2> HIDE DEF D, pools, new, g
  <2> QED BY <1>1, <1>2, <1>4, <2>1 DEF File, Ids
<1>6. CheckOK(g)
  <2>1. \A x \in D : FieldsOK(new[x])
    <3>1. \A x \in D : FieldsOK(pools[x])
      BY <1>p DEF Good, CheckOK
    <3> HIDE DEF new, pools, D
    <3> QED BY <1>4, <3>1 DEF FieldsOK
  <2> HIDE DEF g, new, pools
  <2> QED BY <1>1, <1>5, <2>1, NoneAssumption DEF Good, CheckOK, Members
<1>7. MarksOf(g)
  <2>1. /\ \A x, y \in D : pools[x].home /\ pools[y].home => x = y
        /\ \A x \in D : pools[x].home => pools[x].profit /\ ~pools[x].solo
    <3>1. p.home => f.pools[id].home /\ p.profit /\ ~p.solo
      BY <1>1, ApplyProperties
    <3> HIDE DEF p
    <3> QED BY <1>p, <3>1 DEF Good, MarksOf
  <2>2. \A x, y \in D : pools[x].timed /\ pools[y].timed /\ ~pools[id].timed => x = y
    BY <1>3
  <2> HIDE DEF g, new, pools, D
  <2> QED BY <1>4, <1>5, <2>1, <2>2 DEF MarksOf
<1>8. NamesOf(g)
  <2>1. \A x, y \in D : pools[x].name = pools[y].name => x = y
    <3>1. p.name = in.name
      BY <1>1, ApplyProperties
    <3> HIDE DEF p
    <3> QED BY <1>p, <3>1 DEF Good, NamesOf, NameFree
  <2> HIDE DEF g, new, pools, D
  <2> QED BY <1>4, <1>5, <2>1 DEF NamesOf
<1>9. Moves(f, g)
  <2>1. p.home => f.pools[id].home
    BY <1>1, ApplyProperties
  <2> HIDE DEF p, pools, new, g
  <2>2. {x \in D : new[x].home} \in {{x \in D : f.pools[x].home}, {x \in D : f.pools[x].home} \ {id}}
    <3>1. \A x \in D \ {id} : new[x].home = f.pools[x].home
      BY <1>4, <1>p
    <3>2. new[id].home = p.home
      BY <1>4, <1>p
    <3>3. CASE p.home
      BY <2>1, <3>1, <3>2, <3>3
    <3>4. CASE ~p.home
      <4>1. {x \in D : new[x].home} = {x \in D : f.pools[x].home} \ {id}
        BY <3>1, <3>2, <3>4
      <4> QED BY <4>1
    <3> QED BY <3>3, <3>4
  <2>3. {x \in D : new[x].timed} \in {{x \in D : f.pools[x].timed} \ {id}, {id}}
    <3>1. CASE pools[id].timed
      <4>1. {x \in D : new[x].timed} = {id}
        BY <1>2, <1>t, <3>1
      <4> QED BY <4>1
    <3>2. CASE ~pools[id].timed
      <4>1. {x \in D : pools[x].timed} = {x \in D : f.pools[x].timed} \ {id}
        BY <1>p, <3>2
      <4> QED BY <1>t, <3>2, <4>1
    <3> QED BY <3>1, <3>2
  <2>4. R!Edits(RolesOf(f), RolesOf(g))
    BY <1>5, <2>2, <2>3 DEF R!Edits, RolesOf
  <2> QED BY <2>4 DEF Moves, R!Changes
<1> QED BY <1>5, <1>6, <1>7, <1>8, <1>9 DEF Good

LEMMA DeletedGood ==
    ASSUME NEW f \in File, Good(f), NEW id \in Ids(f), f.active # id
    PROVE  Deleted(f, id) \in File /\ Good(Deleted(f, id)) /\ Moves(f, Deleted(f, id))
<1> DEFINE D == Ids(f) \ {id}
           pools == [x \in D |-> f.pools[x]]
           rest == Without(f.fallback, id)
           g == Deleted(f, id)
<1>1. /\ Ids(f) \in SUBSET PoolIds /\ f.pools \in [Ids(f) -> Marks]
      /\ f.active \in PoolIds \cup {None} /\ f.fallback \in Seq(PoolIds) /\ f.settings \in Settings
  BY DEF File, Ids
<1>2. rest \in Seq(PoolIds) /\ NoRepeats(rest) /\ Members(rest) = Members(f.fallback) \ {id}
  BY <1>1, WithoutProperties DEF Good, CheckOK
<1>3. D \in SUBSET PoolIds /\ pools \in [D -> Marks]
  BY <1>1
<1>4. /\ g \in File /\ Ids(g) = D /\ g.pools = pools /\ g.fallback = rest /\ g.active = f.active
  <2>1. g = [f EXCEPT !.pools = pools, !.fallback = rest]
    BY DEF Deleted
  <2> HIDE DEF pools, rest, g, D
  <2> QED BY <1>1, <1>2, <1>3, <2>1 DEF File, Ids
<1>5. \A x \in D : pools[x] = f.pools[x] /\ x \in Ids(f)
  OBVIOUS
<1>6. f.active # None
  BY DEF Good, CheckOK
<1>7. CheckOK(g)
  <2> HIDE DEF g, pools, rest
  <2> QED BY <1>2, <1>4, <1>5, <1>6 DEF Good, CheckOK
<1>8. MarksOf(g) /\ NamesOf(g)
  <2> HIDE DEF g, pools, rest, D
  <2> QED BY <1>4, <1>5 DEF Good, MarksOf, NamesOf
<1>9. Moves(f, g)
  <2>1. R!InOrder(rest, f.fallback)
    BY <1>1, WithoutKeepsOrder DEF Good, CheckOK
  <2> HIDE DEF g, pools, rest
  <2>2. /\ {x \in D : pools[x].timed} = {x \in Ids(f) : f.pools[x].timed} \ {id}
        /\ {x \in D : pools[x].home} = {x \in Ids(f) : f.pools[x].home} \ {id}
    BY <1>5
  <2> HIDE DEF D
  <2>3. R!Mentioned(rest) = R!Mentioned(f.fallback) \ {id} /\ R!Distinct(rest)
    BY <1>2 DEF R!Mentioned, R!Distinct, Members, NoRepeats
  <2>4. R!Removes(RolesOf(f), RolesOf(g))
    BY <1>4, <2>1, <2>2, <2>3 DEF R!Removes, RolesOf, D
  <2> QED BY <2>4 DEF Moves, R!Changes
<1> QED BY <1>4, <1>7, <1>8, <1>9 DEF Good

(* An activation, or a new fallback order: the roles change, the pools do not. *)
LEMMA RolesGood ==
    ASSUME NEW f \in File, Good(f), NEW id \in Ids(f), NEW order \in Seq(PoolIds),
           NoRepeats(order), Members(order) \subseteq Ids(f) \ {id}
    PROVE  /\ Activated(f, id, order) \in File /\ Good(Activated(f, id, order))
           /\ Moves(f, Activated(f, id, order))
<1> DEFINE g == Activated(f, id, order)
<1>1. id \in PoolIds /\ id # None
  BY NoneAssumption DEF File, Ids
<1>2. /\ g \in File /\ g.pools = f.pools /\ g.active = id /\ g.fallback = order /\ Ids(g) = Ids(f)
  BY <1>1 DEF Activated, File, Ids
<1> HIDE DEF g
<1>3. CheckOK(g)
  BY <1>1, <1>2 DEF Good, CheckOK
<1>4. MarksOf(g) /\ NamesOf(g)
  BY <1>2 DEF Good, MarksOf, NamesOf
<1>5. Moves(f, g)
  <2>1. R!Routes(RolesOf(f), RolesOf(g))
    BY <1>2 DEF R!Routes, R!Mentioned, R!Distinct, RolesOf, Members, NoRepeats
  <2> QED BY <2>1 DEF Moves, R!Changes
<1> QED BY <1>2, <1>3, <1>4, <1>5 DEF Good, g

LEMMA WithHomeGood ==
    ASSUME NEW f \in File, Good(f), NEW id,
           id = None \/ (id \in Ids(f) /\ f.pools[id].profit /\ ~f.pools[id].solo)
    PROVE  WithHome(f, id) \in File /\ Good(WithHome(f, id)) /\ Moves(f, WithHome(f, id))
<1> DEFINE pools == [x \in Ids(f) |-> [f.pools[x] EXCEPT !.home = x = id]]
           g == WithHome(f, id)
<1>1. /\ Ids(f) \in SUBSET PoolIds /\ f.pools \in [Ids(f) -> Marks]
      /\ f.active \in PoolIds \cup {None} /\ f.fallback \in Seq(PoolIds) /\ f.settings \in Settings
  BY DEF File, Ids
<1>2. /\ pools \in [Ids(f) -> Marks]
      /\ \A x \in Ids(f) : /\ pools[x].home = (x = id)
                            /\ pools[x].name = f.pools[x].name
                            /\ pools[x].profit = f.pools[x].profit
                            /\ pools[x].solo = f.pools[x].solo
                            /\ pools[x].timed = f.pools[x].timed
  BY <1>1 DEF Marks
<1>3. /\ g \in File /\ Ids(g) = Ids(f) /\ g.pools = pools /\ g.fallback = f.fallback
      /\ g.active = f.active
  <2>1. g = [f EXCEPT !.pools = pools]
    BY DEF WithHome
  <2> HIDE DEF pools, g
  <2> QED BY <1>1, <1>2, <2>1 DEF File, Ids
<1>4. CheckOK(g)
  <2>1. \A x \in Ids(f) : FieldsOK(pools[x])
    <3> HIDE DEF pools
    <3> QED BY <1>2 DEF Good, CheckOK, FieldsOK
  <2> HIDE DEF g, pools
  <2> QED BY <1>3, <2>1 DEF Good, CheckOK
<1>5. MarksOf(g)
  <2>1. /\ \A x, y \in Ids(f) : pools[x].timed /\ pools[y].timed => x = y
        /\ \A x, y \in Ids(f) : pools[x].home /\ pools[y].home => x = y
    <3> HIDE DEF pools
    <3> QED BY <1>2 DEF Good, MarksOf
  <2>2. \A x \in Ids(f) : pools[x].home => pools[x].profit /\ ~pools[x].solo
    <3>1. None \notin Ids(f)
      BY <1>1, NoneAssumption
    <3> HIDE DEF pools
    <3> SUFFICES ASSUME NEW x \in Ids(f), pools[x].home PROVE pools[x].profit /\ ~pools[x].solo
      OBVIOUS
    <3>2. x = id
      BY <1>2
    <3>3. f.pools[x].profit /\ ~f.pools[x].solo
      BY <3>1, <3>2
    <3> QED BY <1>2, <3>3
  <2> HIDE DEF g, pools
  <2> QED BY <1>3, <2>1, <2>2 DEF MarksOf
<1>6. NamesOf(g)
  <2> HIDE DEF g, pools
  <2>1. \A x \in Ids(f) : g.pools[x].name = f.pools[x].name
    BY <1>2, <1>3
  <2>2. NamesOf(f)
    BY DEF Good
  <2> QED BY <2>1, <2>2, <1>3 DEF NamesOf
<1>7. Moves(f, g)
  <2> HIDE DEF g, pools
  <2>1. /\ {x \in Ids(f) : pools[x].home} = {x \in Ids(f) : x = id}
        /\ {x \in Ids(f) : pools[x].timed} = {x \in Ids(f) : f.pools[x].timed}
    BY <1>2
  <2>2. CASE Ids(f) = {}
    BY <1>3, <2>2 DEF Moves, RolesOf
  <2>3. CASE Ids(f) # {}
    <3>1. PICK x \in Ids(f) : {y \in Ids(f) : y = id} \in {{}, {x}}
      <4>1. CASE id \in Ids(f)
        BY <4>1
      <4>2. CASE id \notin Ids(f)
        BY <2>3, <4>2
      <4> QED BY <4>1, <4>2
    <3>2. R!Homes(RolesOf(f), RolesOf(g))
      BY <1>3, <2>1, <3>1 DEF R!Homes, RolesOf
    <3> QED BY <3>2 DEF Moves, R!Changes
  <2> QED BY <2>2, <2>3
<1> QED BY <1>3, <1>4, <1>5, <1>6, <1>7 DEF Good

LEMMA ListsAreSequences == Lists \subseteq Seq(PoolIds)
BY DEF Lists

-----------------------------------------------------------------------------
(* Steps. *)

(* A successful change is a good one, so File.check lets it pass. *)
LEMMA ProposeKeeps ==
    ASSUME IInv, NEW f \in File, Good(f), Moves(cur, f), Propose(f)
    PROVE  IInv'
<1>1. /\ CheckOK(f) /\ next' = f /\ stage' = "checked" /\ stage = "idle"
      /\ UNCHANGED <<rejected, disk, cur, crashes>>
  BY DEF Propose, Idle, Good
<1>2. Moves(cur', next')
  BY <1>1
<1>3. Moves(cur, next)'
  BY <1>2 DEF Moves, RolesOf, Ids
<1> QED BY <1>1, <1>3 DEF IInv, TypeOK, Staged

LEMMA RefuseKeeps ==
    ASSUME IInv, UNCHANGED vars
    PROVE  IInv'
BY DEF IInv, vars, TypeOK, Good, CheckOK, FieldsOK, Ids, Members, NoRepeats, MarksOf, NamesOf, Staged

(* Every operation keeps the invariant: it refuses, or proposes a good file. *)
LEMMA OperationKeeps ==
    ASSUME IInv, Operation
    PROVE  IInv'
<1>c. cur \in File /\ Good(cur)
  BY DEF IInv, TypeOK
<1>1. ASSUME NEW id \in PoolIds, NEW in \in Inputs, Create(id, in) PROVE IInv'
  <2>1. CASE Refuse
    BY <2>1, RefuseKeeps DEF Refuse
  <2>2. CASE ~Refuse
    <3>1. /\ id \notin Ids(cur) /\ FieldsOK(Apply(in, FALSE)) /\ NameFree(cur, id, in.name)
          /\ Propose(Created(cur, id, in))
      BY <1>1, <2>2 DEF Create
    <3> QED BY <1>c, <3>1, CreatedGood, ProposeKeeps
  <2> QED BY <2>1, <2>2
<1>2. ASSUME NEW id \in PoolIds, NEW in \in Inputs, Update(id, in) PROVE IInv'
  <2>1. CASE Refuse
    BY <2>1, RefuseKeeps DEF Refuse
  <2>2. CASE ~Refuse
    <3>1. /\ id \in Ids(cur) /\ FieldsOK(Apply(in, cur.pools[id].home)) /\ NameFree(cur, id, in.name)
          /\ Propose(Updated(cur, id, in))
      BY <1>2, <2>2 DEF Update
    <3> QED BY <1>c, <3>1, UpdatedGood, ProposeKeeps
  <2> QED BY <2>1, <2>2
<1>3. ASSUME NEW id \in PoolIds, Delete(id) PROVE IInv'
  <2>1. CASE Refuse
    BY <2>1, RefuseKeeps DEF Refuse
  <2>2. CASE ~Refuse
    <3>1. id \in Ids(cur) /\ cur.active # id /\ Propose(Deleted(cur, id))
      BY <1>3, <2>2 DEF Delete
    <3> QED BY <1>c, <3>1, DeletedGood, ProposeKeeps
  <2> QED BY <2>1, <2>2
<1>4. ASSUME NEW id \in PoolIds, Activate(id) PROVE IInv'
  <2>1. CASE Refuse
    BY <2>1, RefuseKeeps DEF Refuse
  <2>2. CASE ~Refuse
    <3>1. id \in Ids(cur) /\ Propose(Activated(cur, id, Rotated(cur, id)))
      BY <1>4, <2>2 DEF Activate
    <3>2. /\ Rotated(cur, id) \in Seq(PoolIds) /\ NoRepeats(Rotated(cur, id))
          /\ Members(Rotated(cur, id)) \subseteq Ids(cur) \ {id}
      BY <1>c, <3>1, RotatedProperties DEF Good
    <3> QED BY <1>c, <3>1, <3>2, RolesGood, ProposeKeeps
  <2> QED BY <2>1, <2>2
<1>5. ASSUME NEW list \in Lists, SetFallback(list) PROVE IInv'
  <2>1. CASE Refuse
    BY <2>1, RefuseKeeps DEF Refuse
  <2>2. CASE ~Refuse
    <3> DEFINE g == [cur EXCEPT !.fallback = list]
    <3>1. Members(list) \subseteq Ids(cur) \ {cur.active} /\ NoRepeats(list) /\ Propose(g)
      BY <1>5, <2>2 DEF SetFallback
    <3>2. /\ g \in File /\ g.pools = cur.pools /\ g.active = cur.active /\ g.fallback = list
          /\ Ids(g) = Ids(cur)
      BY <1>c, ListsAreSequences DEF File, Ids
    <3> HIDE DEF g
    <3>3. CheckOK(g)
      BY <1>c, <3>1, <3>2 DEF Good, CheckOK
    <3>4. MarksOf(g) /\ NamesOf(g)
      BY <1>c, <3>2 DEF Good, MarksOf, NamesOf
    <3>5. Moves(cur, g)
      <4>1. CASE Ids(cur) = {}
        <5>1. Members(list) = {} /\ Members(cur.fallback) = {}
          BY <1>c, <3>1, <4>1 DEF Good, CheckOK
        <5>2. list \in Seq(PoolIds) /\ cur.fallback \in Seq(PoolIds)
          BY <1>c, ListsAreSequences DEF File
        <5>e. ASSUME NEW q \in Seq(PoolIds), Members(q) = {} PROVE q = <<>>
          <6>1. Len(q) \in Nat /\ DOMAIN q = 1 .. Len(q) /\ \A i \in DOMAIN q : FALSE
            BY <5>e DEF Members
          <6>2. Len(q) # 0 => 1 \in DOMAIN q
            BY <6>1
          <6> QED BY <6>1, <6>2, EmptySeq
        <5>3. list = <<>> /\ cur.fallback = <<>>
          BY <5>1, <5>2, <5>e
        <5> QED BY <3>2, <5>3 DEF Moves, RolesOf
      <4>2. CASE Ids(cur) # {}
        <5>1. cur.active \in Ids(cur)
          BY <1>c, <4>2 DEF Good, CheckOK
        <5>2. R!Routes(RolesOf(cur), RolesOf(g))
          BY <3>1, <3>2, <5>1 DEF R!Routes, R!Mentioned, R!Distinct, RolesOf, Members, NoRepeats
        <5> QED BY <5>2 DEF Moves, R!Changes
      <4> QED BY <4>1, <4>2
    <3> QED BY <3>1, <3>2, <3>3, <3>4, <3>5, ProposeKeeps DEF Good
  <2> QED BY <2>1, <2>2
<1>6. ASSUME NEW id \in PoolIds, NEW list \in Lists, Restore(id, list) PROVE IInv'
  <2>1. CASE Refuse
    BY <2>1, RefuseKeeps DEF Refuse
  <2>2. CASE ~Refuse
    <3>1. PICK t \in Lists : /\ id \in Ids(cur) /\ IsExistingOnce(t, cur, list, id)
                             /\ Propose(Activated(cur, id, t))
      BY <1>6, <2>2 DEF Restore, Orders
    <3>2. t \in Seq(PoolIds) /\ NoRepeats(t) /\ Members(t) \subseteq Ids(cur) \ {id}
      BY <3>1, ListsAreSequences DEF IsExistingOnce
    <3> QED BY <1>c, <3>1, <3>2, RolesGood, ProposeKeeps
  <2> QED BY <2>1, <2>2
<1>7. ASSUME NEW id \in PoolIds \cup {None}, SetProfitHome(id) PROVE IInv'
  <2>1. CASE Refuse
    BY <2>1, RefuseKeeps DEF Refuse
  <2>2. CASE ~Refuse
    <3>1. /\ id = None \/ (id \in Ids(cur) /\ cur.pools[id].profit /\ ~cur.pools[id].solo)
          /\ Propose(WithHome(cur, id))
      BY <1>7, <2>2 DEF SetProfitHome
    <3> QED BY <1>c, <3>1, WithHomeGood, ProposeKeeps
  <2> QED BY <2>1, <2>2
<1>8. ASSUME NEW v \in Settings, SaveSettings(v) PROVE IInv'
  <2> DEFINE g == [cur EXCEPT !.settings = v]
  <2>1. Propose(g)
    BY <1>8 DEF SaveSettings
  <2>2. /\ g \in File /\ g.pools = cur.pools /\ g.active = cur.active
        /\ g.fallback = cur.fallback /\ Ids(g) = Ids(cur)
    BY <1>c DEF File, Ids
  <2> HIDE DEF g
  <2>3. CheckOK(g)
    BY <1>c, <2>2 DEF Good, CheckOK
  <2>4. MarksOf(g) /\ NamesOf(g)
    BY <1>c, <2>2 DEF Good, MarksOf, NamesOf
  <2>5. Moves(cur, g)
    BY <2>2 DEF Moves, RolesOf
  <2> QED BY <2>1, <2>2, <2>3, <2>4, <2>5, ProposeKeeps DEF Good
<1> QED BY <1>1, <1>2, <1>3, <1>4, <1>5, <1>6, <1>7, <1>8 DEF Operation

(* The empty file a first start begins with. *)
LEMMA InitGood == Init => IInv
<1> SUFFICES ASSUME NEW v \in Settings, disk = Empty(v), cur = Empty(v), next = Empty(v),
                    stage = "idle", rejected = FALSE, crashes = 0
             PROVE  IInv
  BY DEF Init
<1> DEFINE g == Empty(v)
<1>1. Ids(g) = {} /\ g.active = None /\ g.fallback = <<>>
  BY DEF Empty, Ids
<1>2. g \in File
  <2>1. [x \in {} |-> x] \in [{} -> Marks] /\ <<>> \in Seq(PoolIds)
    OBVIOUS
  <2> QED BY <2>1 DEF Empty, File
<1> HIDE DEF g
<1>3. Good(g)
  BY <1>1 DEF Good, CheckOK, MarksOf, NamesOf, Members, NoRepeats
<1>4. disk = g /\ cur = g /\ next = g
  BY DEF g
<1>5. TypeOK
  <2>1. crashes \in 0 .. MaxCrashes
    BY CrashAssumption
  <2>3. rejected \in BOOLEAN
    OBVIOUS
  <2>2. disk \in File /\ cur \in File /\ next \in File
    BY <1>2, <1>4
  <2> QED BY <2>1, <2>2, <2>3 DEF TypeOK
<1>6. Good(disk) /\ Good(cur) /\ Good(next)
  BY <1>3, <1>4
<1> QED BY <1>4, <1>5, <1>6 DEF IInv, Staged

LEMMA StepKeeps == IInv /\ [Next]_vars => IInv'
<1> SUFFICES ASSUME IInv, [Next]_vars PROVE IInv'
  OBVIOUS
<1>1. CASE Operation
  BY <1>1, OperationKeeps
<1>2. CASE Write
  BY <1>2 DEF IInv, Write, TypeOK, Staged
<1>3. CASE WriteFails
  <2>1. disk' = disk /\ cur' = cur /\ next' = cur /\ stage' = "idle" /\ disk = cur
    BY <1>3 DEF WriteFails, IInv, Staged
  <2> QED BY <1>3, <2>1 DEF IInv, WriteFails, TypeOK, Staged
<1>4. CASE Commit
  <2>1. disk' = disk /\ cur' = next /\ next' = next /\ stage' = "idle" /\ disk = next
    BY <1>4 DEF Commit, IInv, Staged
  <2> QED BY <1>4, <2>1 DEF IInv, Commit, TypeOK, Staged
<1>5. CASE Crash
  BY <1>5, CrashAssumption DEF IInv, Crash, TypeOK, Staged
<1>6. CASE Open
  BY <1>6 DEF IInv, Open, TypeOK, Staged
<1>7. CASE UNCHANGED vars
  BY <1>7, RefuseKeeps
<1> QED BY <1>1, <1>2, <1>3, <1>4, <1>5, <1>6, <1>7 DEF Next

-----------------------------------------------------------------------------
(* Theorems. *)

LEMMA Inductive == Spec => []IInv
<1> QED BY InitGood, StepKeeps, PTL DEF Spec

(* The memory, the file and the change in flight are well-formed contents. *)
THEOREM TypeCorrect == Spec => []TypeOK
<1>1. IInv => TypeOK
  BY DEF IInv
<1> QED BY <1>1, Inductive, PTL

(* File.check never turns down a change that a pool operation accepted. *)
THEOREM ChecksSuffice == Spec => []CheckNeverFails
<1>1. IInv => CheckNeverFails
  BY DEF IInv, CheckNeverFails
<1> QED BY <1>1, Inductive, PTL

(* The marks File.check does not look at stay consistent. *)
THEOREM MarksStayConsistent == Spec => []MarksConsistent
<1>1. IInv => MarksConsistent
  BY DEF IInv, Good, MarksConsistent
<1> QED BY <1>1, Inductive, PTL

(* No two pools get one name. *)
THEOREM NamesStayDistinct == Spec => []NamesDistinct
<1>1. IInv => NamesDistinct
  BY DEF IInv, Good, NamesDistinct
<1> QED BY <1>1, Inductive, PTL

(* The file is the memory or the change being written, and can be opened. *)
THEOREM FileIsDurable == Spec => []Durable
<1>1. IInv => Durable
  BY DEF IInv, Staged, Durable, Good
<1> QED BY <1>1, Inductive, PTL

(* No activation drops a pool from the routing chain or reorders the pools it
   passes, whatever the chain and the pool ("Preserve failover after a manual
   switch", activate). *)
THEOREM SwitchesKeepChain == Spec => []ChainKept
<1>1. IInv => ChainKept
  <2> SUFFICES ASSUME IInv, NEW id \in Ids(cur)
               PROVE  SameChain(<<cur.active>> \o cur.fallback, <<id>> \o Rotated(cur, id), id)
    BY DEF ChainKept, SameChain
  <2>1. cur \in File /\ CheckOK(cur)
    BY DEF IInv, TypeOK, Good
  <2> QED BY <2>1, ChainAfterSwitch DEF First
<1> QED BY <1>1, Inductive, PTL

(* Away and back: the order of before, restored on the pool of before, gives
   exactly the roles of before, for any order and any pool the farm was on
   meanwhile (activate, existingOnce). *)
THEOREM WayBackIsExact == Spec => []RoundTrip
<1>1. IInv => RoundTrip
  <2> SUFFICES ASSUME IInv, NEW id \in Ids(cur), NEW t \in Orders
               PROVE  IsExistingOnce(t, Activated(cur, id, Rotated(cur, id)), cur.fallback, cur.active)
                         <=> t = cur.fallback
    BY DEF RoundTrip
  <2> DEFINE fb == cur.fallback
             away == Activated(cur, id, Rotated(cur, id))
  <2>1. cur \in File /\ CheckOK(cur)
    BY DEF IInv, TypeOK, Good
  <2>2. /\ fb \in Seq(PoolIds) /\ NoRepeats(fb) /\ Members(fb) \subseteq Ids(cur) \ {cur.active}
        /\ t \in Seq(PoolIds) /\ NoRepeats(t)
    BY <2>1, ListsAreSequences DEF File, CheckOK, Orders
  <2>3. Ids(away) = Ids(cur)
    BY <2>1 DEF File, Ids, Activated
  <2>4. (Members(fb) \cap Ids(away)) \ {cur.active} = Members(fb)
    BY <2>2, <2>3
  <2> HIDE DEF fb, away
  <2>5. ASSUME IsExistingOnce(t, away, fb, cur.active) PROVE t = fb
    <3>1. /\ Members(t) = Members(fb)
          /\ \A i, j \in DOMAIN t : i < j => FirstAt(fb, t[i]) < FirstAt(fb, t[j])
      BY <2>4, <2>5 DEF IsExistingOnce
    <3> QED BY <2>2, <3>1, OneOrder
  <2>6. ASSUME t = fb PROVE IsExistingOnce(t, away, fb, cur.active)
    <3>1. ASSUME NEW i \in DOMAIN fb PROVE FirstAt(fb, fb[i]) = i
      <4>1. \A j \in DOMAIN fb : fb[j] = fb[i] <=> j = i
        BY <2>2 DEF NoRepeats
      <4>2. DOMAIN fb \subseteq Nat
        BY <2>2
      <4> QED BY <4>1, <4>2 DEF FirstAt
    <3> QED BY <2>2, <2>4, <2>6, <3>1 DEF IsExistingOnce
  <2> QED BY <2>5, <2>6 DEF fb, away
<1> QED BY <1>1, Inductive, PTL

(* state.json implements Roles: one whole operation at a time, and Write is
   where it happens. *)
THEOREM RolesImplemented == Spec => ImplementsRoles
<1>1. Init => R!Init
  <2> SUFFICES ASSUME NEW v \in Settings, disk = Empty(v) PROVE RolesOf(disk) = R!NoRoles
    BY DEF Init, R!Init
  <2> QED BY DEF Empty, RolesOf, Ids, R!NoRoles
<1>2. IInv /\ [Next]_vars => [R!Next]_(RolesOf(disk))
  <2> SUFFICES ASSUME IInv, [Next]_vars, RolesOf(disk') # RolesOf(disk)
               PROVE  R!Changes(RolesOf(disk), RolesOf(disk'))
    BY DEF R!Next, RolesOf, Ids
  <2>1. CASE Write
    <3>1. disk' = next /\ disk = cur /\ Moves(cur, next)
      BY <2>1 DEF Write, IInv, Staged
    <3> QED BY <3>1 DEF Moves
  <2>2. CASE ~Write
    <3>1. disk' = disk
      BY <2>2 DEF Next, Operation, Create, Update, Delete, SetFallback, Activate, Restore, SetProfitHome,
         SaveSettings, Propose, Refuse, WriteFails, Commit, Crash, Open, vars
    <3> QED BY <3>1
  <2> QED BY <2>1, <2>2
<1> QED BY <1>1, <1>2, Inductive, PTL DEF Spec, ImplementsRoles, R!Spec
===============================================================================
