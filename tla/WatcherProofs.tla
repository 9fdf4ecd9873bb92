----------------------------- MODULE WatcherProofs -----------------------------
(***************************************************************************)
(* Proofs about the block watcher, for any pools, registries, times and    *)
(* bounds.                                                                 *)
(***************************************************************************)
EXTENDS Watcher, SequenceTheorems, WellFoundedInduction, TLAPS

Arrival == [age : 0 .. Dead, own : BOOLEAN]
Others == [kind : {"accepted", "refused", "reconnect", "other"}]
Jobs == [kind : {"job"}, block : Nat]

(* The blocks and what the nodes know of them. *)
ChainOK ==
    /\ found \in Seq(0 .. Dead) /\ Tip >= 1
    /\ view \in [Pools -> Nat] /\ \A p \in Pools : view[p] \in 1 .. Tip

(* Run has a pool whenever it does something, and hears only on a connection. *)
RunOK ==
    /\ pools \in Registries
    /\ at \in {"pick", "seed", "dial", "read", "pause"}
    /\ at \in {"seed", "dial", "read"} => watched.id \in Pools
    /\ stream \in Seq(Jobs \cup Others)
    /\ stream # <<>> => at = "read"

(* What is on its way is what the pool's node knew, in the order it learnt it,
   and not older than what the same pool has told already. *)
StreamOK ==
    /\ \A i \in DOMAIN stream : stream[i].kind = "job" =>
          /\ stream[i].block \in 1 .. view[watched.id]
          /\ last.pool = watched.id => last.block <= stream[i].block
    /\ \A i, j \in DOMAIN stream : i < j /\ stream[i].kind = "job" /\ stream[j].kind = "job" =>
          stream[i].block <= stream[j].block

(* The baseline is the newest block that the pool read last has told of. *)
BaselineOK ==
    /\ prevhash \in Nat
    /\ last.pool # "none" => last.pool \in Pools /\ last.block \in 1 .. view[last.pool]
    /\ prevhash # NoBlock => last.pool # "none" /\ prevhash = last.block

(* The newest time, if it is the watcher's own, is not earlier than the block
   of the baseline; without a baseline there is no such time. *)
ArrivalsOK ==
    /\ arrivals \in Seq(Arrival)
    /\ arrivals # <<>> /\ arrivals[1].own = TRUE => prevhash # NoBlock /\ arrivals[1].age <= found[prevhash]

IInv == ChainOK /\ RunOK /\ StreamOK /\ BaselineOK /\ ArrivalsOK

-----------------------------------------------------------------------------
(* The operators. *)

LEMMA Smallest == ASSUME NEW S, S \subseteq Nat, S # {} PROVE Min(S) \in S
<1> DEFINE R == OpToRel(<, Nat)
<1>1. \A x, y \in Nat : <<x, y>> \in R <=> x < y
  BY DEF OpToRel
<1>2. IsWellFoundedOn(R, Nat)
  BY NatLessThanWellFounded
<1> HIDE DEF R
<1>3. PICK n \in S : \A m \in S : ~(<<m, n>> \in R)
  BY <1>2, WFMin
<1>4. ASSUME NEW m \in S PROVE n <= m
  <2>1. m \in Nat /\ n \in Nat
    OBVIOUS
  <2>2. ~(m < n)
    BY <1>1, <1>3, <2>1
  <2> QED BY <2>1, <2>2
<1> QED BY <1>4 DEF Min

LEMMA SmallerOfTwo ==
    ASSUME NEW a \in Nat, NEW b \in Nat PROVE Min({a, b}) = IF a <= b THEN a ELSE b
<1> DEFINE n == IF a <= b THEN a ELSE b
<1>1. n \in {a, b} /\ \A m \in {a, b} : n <= m
  OBVIOUS
<1>2. \A k \in {a, b} : (\A m \in {a, b} : k <= m) => k = n
  OBVIOUS
<1> HIDE DEF n
<1>3. Min({a, b}) = n
  BY <1>1, <1>2 DEF Min
<1> QED BY <1>3 DEF n

LEMMA GetsOlder ==
    ASSUME NEW limit \in Nat, NEW age \in 0 .. limit
    PROVE  Older(age, limit) = IF age < limit THEN age + 1 ELSE limit
  BY SmallerOfTwo DEF Older

LEMMA PickIsKnown == ASSUME pools \in Registries PROVE Pick = NoPool \/ Pick.id \in Pools
<1> DEFINE ecash == {i \in DOMAIN pools : pools[i].coin = "XEC" /\ pools[i].dials}
           target == {i \in ecash : pools[i].timed}
           solo == {i \in ecash : pools[i].solo}
           best == IF target # {} THEN target ELSE IF solo # {} THEN solo ELSE ecash
<1>1. \A i \in ecash : i \in DOMAIN pools /\ pools[i].coin = "XEC"
  OBVIOUS
<1>2. target \subseteq ecash /\ solo \subseteq ecash
  OBVIOUS
<1>3. Pick = IF best = {} THEN NoPool ELSE pools[Min(best)]
  BY DEF Pick
<1>4. ecash \subseteq Nat /\ \A i \in ecash : pools[i].id \in Pools
  BY <1>1, RegistriesAssumption
<1> HIDE DEF ecash, target, solo
<1>5. best \subseteq ecash
  BY <1>2
<1> HIDE DEF best
<1> QED BY <1>3, <1>4, <1>5, Smallest

-----------------------------------------------------------------------------
(* The first state, and each part over a step. *)

LEMMA InitHolds == ASSUME Init PROVE IInv
<1>1. ChainOK
  <2>1. found \in Seq(0 .. Dead) /\ Len(found) = 1
    BY TimesAssumption DEF Init
  <2> QED BY <2>1 DEF Init, ChainOK, Tip
<1>2. RunOK
  BY DEF Init, RunOK
<1>3. StreamOK
  BY DEF Init, StreamOK
<1>4. BaselineOK
  BY DEF Init, BaselineOK, NoBlock
<1>5. ArrivalsOK
  BY DEF Init, ArrivalsOK
<1> QED BY <1>1, <1>2, <1>3, <1>4, <1>5 DEF IInv

(* All that happens after a connection. *)
LEMMA LeftBehind == ASSUME NEW changed, Left(changed)
                    PROVE at' \in {"pick", "pause"} /\ stream' = <<>> /\ UNCHANGED watched
  BY DEF Left

LEMMA ChainKept == ASSUME IInv, [Next]_vars PROVE ChainOK' /\ \A p \in Pools : view[p] <= view'[p]
<1> USE DEF ChainOK, Tip, world, link, times
<1>0. /\ ChainOK /\ Len(found) \in Nat /\ \A p \in Pools : view[p] \in Nat
      /\ DOMAIN found = 1 .. Len(found)
  BY LenProperties DEF IInv
<1>1. CASE UNCHANGED <<found, view>>
  BY <1>0, <1>1
<1>2. CASE Block
  <2>1. 0 \in 0 .. Dead
    BY TimesAssumption
  <2>2. found' \in Seq(0 .. Dead) /\ Len(found') = Len(found) + 1
    BY <1>0, <1>2, <2>1, AppendProperties DEF Block
  <2> QED BY <1>0, <1>2, <2>2 DEF Block
<1>3. ASSUME NEW p \in Pools, NodeLearns(p)
      PROVE ChainOK' /\ \A q \in Pools : view[q] <= view'[q]
  BY <1>0, <1>3 DEF NodeLearns
<1>4. CASE Tick
  <2>1. /\ found' = [b \in DOMAIN found |-> Older(found[b], Dead)] /\ view' = view
    BY <1>4 DEF Tick
  <2>2. ASSUME NEW b \in DOMAIN found PROVE Older(found[b], Dead) \in 0 .. Dead
    <3>1. found[b] \in 0 .. Dead /\ Dead \in Nat
      BY <1>0, TimesAssumption
    <3> QED BY ONLY <3>1, GetsOlder
  <2>3. found' \in [1 .. Len(found) -> 0 .. Dead]
    BY <1>0, <2>1, <2>2
  <2>4. found' \in Seq(0 .. Dead) /\ Len(found') = Len(found)
    <3>1. found' \in Seq(0 .. Dead)
      BY <1>0, <2>3, SeqDef
    <3>2. DOMAIN found' = 1 .. Len(found') /\ Len(found') \in Nat
      BY <3>1, LenProperties
    <3> QED BY <1>0, <2>3, <3>1, <3>2
  <2> QED BY <1>0, <2>1, <2>4
<1> HIDE DEF Tip
<1>5. CASE PoolSendsJob \/ PoolAccepts \/ PoolSendsOther \/ Break \/ EditPools
  BY <1>1, <1>5 DEF PoolSendsJob, PoolAccepts, PoolSendsOther, Break, EditPools, Send
<1>6. CASE Run \/ Notice \/ Restart \/ UNCHANGED vars
  BY <1>1, <1>6 DEF Run, Notice, Restart, PickOne, Seed, Wake, Login, DialFails, ReadFails, Read, vars
<1> QED BY <1>2, <1>3, <1>4, <1>5, <1>6 DEF Next, World

Lines == Jobs \cup Others

(* A line that is read leaves the rest, in its order. *)
LEMMA LineRead ==
    ASSUME stream \in Seq(Lines), stream # <<>>
    PROVE  /\ Head(stream) = stream[1] /\ stream[1] \in Lines /\ 1 \in DOMAIN stream
           /\ Tail(stream) \in Seq(Lines) /\ Len(stream) \in Nat \ {0}
           /\ DOMAIN stream = 1 .. Len(stream) /\ DOMAIN Tail(stream) = 1 .. Len(stream) - 1
           /\ \A i \in DOMAIN Tail(stream) : i + 1 \in DOMAIN stream /\ Tail(stream)[i] = stream[i + 1]
<1>1. Len(stream) \in Nat \ {0} /\ DOMAIN stream = 1 .. Len(stream)
  BY LenProperties, EmptySeq
<1>2. /\ Head(stream) = stream[1] /\ stream[1] \in Lines
      /\ Tail(stream) \in Seq(Lines) /\ Len(Tail(stream)) = Len(stream) - 1
  BY <1>1, HeadTailProperties, ElementOfSeq
<1>3. DOMAIN Tail(stream) = 1 .. Len(stream) - 1
  BY <1>1, <1>2, LenProperties
<1>4. \A i \in 1 .. Len(stream) - 1 : i + 1 \in 1 .. Len(stream) /\ Tail(stream)[i] = stream[i + 1]
  BY <1>1, HeadTailProperties
<1> QED BY <1>1, <1>2, <1>3, <1>4

(* What a pool sends is a line; a job is of the newest block of its node. *)
LEMMA LineSent ==
    ASSUME IInv, PoolSendsJob \/ PoolAccepts \/ PoolSendsOther
    PROVE  /\ at = "read" /\ UNCHANGED <<world, at, watched, connected, times, last>>
           /\ \E x \in Lines : /\ stream' = Append(stream, x)
                               /\ x.kind = "job" => x.block = view[watched.id]
<1> USE DEF Lines, Jobs, Others
<1>1. CASE PoolSendsJob
  <2>1. watched.id \in Pools /\ view[watched.id] \in Nat
    BY <1>1 DEF PoolSendsJob, IInv, RunOK, ChainOK
  <2> DEFINE x == [kind |-> "job", block |-> view[watched.id]]
  <2>2. x \in Lines /\ x.block = view[watched.id]
    BY <2>1
  <2>3. stream' = Append(stream, x)
    BY <1>1 DEF PoolSendsJob, Send
  <2> HIDE DEF x
  <2> QED BY <1>1, <2>2, <2>3 DEF PoolSendsJob, Send
<1>2. ASSUME NEW kind \in {"accepted", "refused", "reconnect", "other"}, Send([kind |-> kind])
      PROVE  /\ at = "read" /\ UNCHANGED <<world, at, watched, connected, times, last>>
             /\ \E x \in Lines : /\ stream' = Append(stream, x)
                                 /\ x.kind = "job" => x.block = view[watched.id]
  <2> DEFINE x == [kind |-> kind]
  <2>1. x \in Lines /\ x.kind # "job" /\ stream' = Append(stream, x)
    BY <1>2 DEF Send
  <2> HIDE DEF x
  <2> QED BY <1>2, <2>1 DEF Send
<1>3. CASE PoolAccepts
  BY <1>2, <1>3 DEF PoolAccepts
<1>4. CASE PoolSendsOther
  BY <1>2, <1>4 DEF PoolSendsOther
<1> QED BY <1>1, <1>3, <1>4

(* What reading a line does to the connection and to what is known. *)
LEMMA Reads ==
    ASSUME IInv, Read
    PROVE  /\ at = "read" /\ stream # <<>> /\ UNCHANGED <<pools, found, view, watched>>
           /\ \/ /\ stream' = <<>> /\ at' \in {"pick", "pause"} /\ UNCHANGED <<times, last>>
              \/ /\ stream' = Tail(stream) /\ at' = "read" /\ UNCHANGED <<times, last>>
              \/ /\ stream' = Tail(stream) /\ at' = "read"
                 /\ stream[1].kind = "job" /\ Job(stream[1].block)
<1>1. Head(stream) = stream[1]
  BY LineRead DEF Read, IInv, RunOK, Lines
<1> QED BY <1>1, LeftBehind DEF Read, world

LEMMA RunKept == ASSUME IInv, [Next]_vars PROVE RunOK'
<1> USE DEF world, link, times, Lines
<1>0. RunOK
  BY DEF IInv
<1>1. CASE UNCHANGED <<pools, at, watched, stream>>
  BY <1>0, <1>1 DEF RunOK
<1>2. CASE Block \/ (\E p \in Pools : NodeLearns(p)) \/ Break \/ Tick \/ Notice \/ UNCHANGED vars
  BY <1>1, <1>2 DEF Block, NodeLearns, Break, Tick, Notice, vars
<1>3. CASE EditPools
  BY <1>0, <1>3 DEF EditPools, RunOK
<1>4. CASE PoolSendsJob \/ PoolAccepts \/ PoolSendsOther
  <2>1. PICK x \in Lines : at = "read" /\ UNCHANGED <<pools, at, watched>> /\ stream' = Append(stream, x)
    BY <1>4, LineSent
  <2>2. stream' \in Seq(Lines)
    BY <1>0, <2>1, AppendProperties DEF RunOK
  <2> QED BY <1>0, <2>1, <2>2 DEF RunOK
<1>5. CASE PickOne
  <2>1. stream = <<>> /\ UNCHANGED <<pools, stream>>
    BY <1>0, <1>5 DEF PickOne, RunOK
  <2>2. \/ at' = "pause"
        \/ at' = "seed" /\ watched' = Pick /\ Pick # NoPool
    BY <1>5 DEF PickOne
  <2>3. at' = "seed" => watched'.id \in Pools
    BY <1>0, <2>2, PickIsKnown DEF RunOK
  <2> QED BY <1>0, <2>1, <2>2, <2>3 DEF RunOK
<1>6. CASE Seed \/ Wake \/ Login
  BY <1>0, <1>6 DEF Seed, Wake, Login, RunOK
<1>7. CASE at' \in {"pick", "pause"} /\ stream' = <<>> /\ UNCHANGED pools
  BY <1>0, <1>7 DEF RunOK
<1>8. CASE DialFails \/ ReadFails \/ Restart
  <2>1. CASE DialFails
    BY <1>7, <2>1, LeftBehind DEF DialFails
  <2>2. CASE ReadFails
    BY <1>7, <2>2, LeftBehind DEF ReadFails
  <2>3. CASE Restart
    BY <1>7, <2>3 DEF Restart
  <2> QED BY <1>8, <2>1, <2>2, <2>3
<1>9. CASE Read
  <2>1. CASE stream' = Tail(stream) /\ at' = "read"
    <3>1. stream # <<>> /\ stream' \in Seq(Lines) /\ UNCHANGED <<pools, watched>> /\ at = "read"
      BY <1>0, <1>9, <2>1, LineRead, Reads DEF RunOK
    <3> QED BY <1>0, <2>1, <3>1 DEF RunOK
  <2> QED BY <1>7, <1>9, <2>1, Reads
<1> QED BY <1>2, <1>3, <1>4, <1>5, <1>6, <1>8, <1>9 DEF Next, World, Run

LEMMA LaterOfTwo == ASSUME NEW a \in Nat, NEW b \in Nat, b <= a PROVE Max({a, b}) = a
<1>1. a \in {a, b} /\ \A m \in {a, b} : a >= m
  OBVIOUS
<1>2. \A k \in {a, b} : (\A m \in {a, b} : k >= m) => k = a
  OBVIOUS
<1> QED BY <1>1, <1>2 DEF Max

(* The job at the front of the stream, when it is read. *)
LEMMA JobTold ==
    ASSUME IInv, Read, stream[1].kind = "job", Job(stream[1].block)
    PROVE  /\ watched.id \in Pools /\ stream[1].block \in 1 .. view[watched.id]
           /\ last' = [pool |-> watched.id, block |-> stream[1].block]
           /\ last.pool = watched.id => last.block <= stream[1].block
<1>1. at = "read" /\ watched.id \in Pools /\ 1 \in DOMAIN stream
  BY LineRead, Reads DEF IInv, RunOK, Lines
<1>2. /\ stream[1].block \in 1 .. view[watched.id]
      /\ last.pool = watched.id => last.block <= stream[1].block
  BY <1>1 DEF IInv, StreamOK
<1>3. view[watched.id] \in Nat
  BY <1>1 DEF IInv, ChainOK
<1>4. last.pool = watched.id => last.block \in Nat
  <2>1. watched.id # "none"
    BY <1>1, PoolsAssumption
  <2> QED BY <1>3, <2>1 DEF IInv, BaselineOK
<1>5. last.pool = watched.id => Max({stream[1].block, last.block}) = stream[1].block
  <2>1. stream[1].block \in Nat
    BY <1>2, <1>3
  <2> QED BY <1>2, <1>4, <2>1, LaterOfTwo
<1>6. last' = [pool |-> watched.id,
               block |-> IF last.pool = watched.id THEN Max({stream[1].block, last.block})
                         ELSE stream[1].block]
  BY DEF Job
<1> QED BY <1>1, <1>2, <1>5, <1>6

LEMMA StreamKept == ASSUME IInv, [Next]_vars PROVE StreamOK'
<1> USE DEF world, link, times
<1>0. /\ StreamOK /\ RunOK /\ \A p \in Pools : view[p] \in Nat /\ view'[p] \in Nat /\ view[p] <= view'[p]
      /\ DOMAIN stream = 1 .. Len(stream) /\ Len(stream) \in Nat
  BY ChainKept, LenProperties DEF IInv, ChainOK, RunOK
<1>1. CASE UNCHANGED <<stream, watched, last>>
  <2>1. ASSUME NEW i \in DOMAIN stream PROVE watched.id \in Pools
    <3>1. stream # <<>>
      BY <1>0
    <3> QED BY <1>0, <3>1 DEF RunOK
  <2>2. ASSUME NEW i \in DOMAIN stream, stream[i].kind = "job"
        PROVE  stream[i].block \in 1 .. view'[watched.id]
    BY <1>0, <2>1, <2>2 DEF StreamOK
  <2> QED BY <1>0, <1>1, <2>2 DEF StreamOK
<1>2. CASE stream' = <<>>
  BY <1>2 DEF StreamOK
<1>3. CASE Block \/ (\E p \in Pools : NodeLearns(p)) \/ Break \/ EditPools \/ Tick \/ Notice \/ UNCHANGED vars
           \/ Seed \/ Wake \/ Login
  BY <1>1, <1>3 DEF Block, NodeLearns, Break, EditPools, Tick, Notice, vars, Seed, Wake, Login
<1>4. CASE PickOne
  BY <1>0, <1>2, <1>4 DEF PickOne, RunOK
<1>5. CASE DialFails \/ ReadFails \/ Restart
  <2>1. CASE DialFails
    BY <1>2, <2>1, LeftBehind DEF DialFails
  <2>2. CASE ReadFails
    BY <1>2, <2>2, LeftBehind DEF ReadFails
  <2>3. CASE Restart
    BY <1>2, <2>3 DEF Restart
  <2> QED BY <1>5, <2>1, <2>2, <2>3
<1>6. CASE PoolSendsJob \/ PoolAccepts \/ PoolSendsOther
  <2>1. at = "read" /\ UNCHANGED <<view, watched, last>>
    BY <1>6, LineSent
  <2>2. PICK x \in Lines : stream' = Append(stream, x) /\ (x.kind = "job" => x.block = view[watched.id])
    BY <1>6, LineSent
  <2>3. /\ watched.id \in Pools /\ view[watched.id] \in Nat /\ view[watched.id] >= 1
        /\ last.pool = watched.id => last.block <= view[watched.id]
    BY <1>0, <2>1, PoolsAssumption DEF RunOK, IInv, ChainOK, BaselineOK
  <2>4. /\ Len(stream') = Len(stream) + 1 /\ DOMAIN stream' = 1 .. Len(stream) + 1
        /\ \A i \in 1 .. Len(stream) : stream'[i] = stream[i]
        /\ stream'[Len(stream) + 1] = x
    <3>1. stream \in Seq(Lines)
      BY <1>0 DEF RunOK, Lines
    <3>2. stream' \in Seq(Lines) /\ Len(stream') = Len(stream) + 1
      BY <2>2, <3>1, AppendProperties
    <3>3. DOMAIN stream' = 1 .. Len(stream) + 1
      BY <3>2, LenProperties
    <3> QED BY <2>2, <3>1, <3>2, <3>3, AppendProperties
  <2>5. ASSUME NEW i \in DOMAIN stream', stream'[i].kind = "job"
        PROVE  /\ stream'[i].block \in 1 .. view[watched.id]
               /\ last.pool = watched.id => last.block <= stream'[i].block
    <3>1. CASE i \in 1 .. Len(stream)
      BY <1>0, <2>4, <2>5, <3>1 DEF StreamOK
    <3>2. CASE i = Len(stream) + 1
      BY <2>2, <2>3, <2>4, <2>5, <3>2
    <3> QED BY <1>0, <2>4, <3>1, <3>2
  <2>6. ASSUME NEW i \in DOMAIN stream', NEW j \in DOMAIN stream', i < j,
               stream'[i].kind = "job", stream'[j].kind = "job"
        PROVE  stream'[i].block <= stream'[j].block
    <3>1. i \in 1 .. Len(stream)
      BY <1>0, <2>4, <2>6
    <3>2. CASE j \in 1 .. Len(stream)
      BY <1>0, <2>4, <2>6, <3>1, <3>2 DEF StreamOK
    <3>3. CASE j = Len(stream) + 1
      BY <2>2, <2>3, <2>4, <2>5, <2>6, <3>3
    <3> QED BY <1>0, <2>4, <3>2, <3>3
  <2> QED BY <2>1, <2>5, <2>6 DEF StreamOK
<1>7. CASE Read
  <2>0. /\ stream # <<>> /\ UNCHANGED <<view, watched>> /\ at = "read" /\ watched.id \in Pools
        /\ view[watched.id] \in Nat
    BY <1>0, <1>7, Reads DEF RunOK
  <2>1. CASE stream' = Tail(stream)
    <3>1. /\ DOMAIN stream' = 1 .. Len(stream) - 1 /\ 1 \in DOMAIN stream
          /\ \A i \in DOMAIN stream' : i + 1 \in DOMAIN stream /\ stream'[i] = stream[i + 1]
      BY <1>0, <2>0, <2>1, LineRead DEF RunOK, Lines
    <3>2. ASSUME NEW i \in DOMAIN stream', stream'[i].kind = "job"
          PROVE  stream'[i].block \in 1 .. view[watched.id]
      BY <1>0, <3>1, <3>2 DEF StreamOK
    <3>3. ASSUME NEW i \in DOMAIN stream', stream'[i].kind = "job", last'.pool = watched.id
          PROVE  last'.block <= stream'[i].block
      <4>1. CASE UNCHANGED last
        BY <1>0, <3>1, <3>3, <4>1 DEF StreamOK
      <4>2. CASE stream[1].kind = "job" /\ Job(stream[1].block)
        <5>1. last'.block = stream[1].block
          BY <1>7, <4>2, JobTold
        <5>2. 1 < i + 1 /\ i + 1 \in DOMAIN stream /\ stream[i + 1].kind = "job"
          BY <1>0, <3>1, <3>3
        <5> QED BY <1>0, <3>1, <4>2, <5>1, <5>2 DEF StreamOK
      <4> QED BY <1>7, <4>1, <4>2, Reads
    <3>4. ASSUME NEW i \in DOMAIN stream', NEW j \in DOMAIN stream', i < j,
                 stream'[i].kind = "job", stream'[j].kind = "job"
          PROVE  stream'[i].block <= stream'[j].block
      <4>1. i + 1 < j + 1
        BY <1>0, <3>1, <3>4
      <4> QED BY <1>0, <3>1, <3>4, <4>1 DEF StreamOK
    <3> QED BY <2>0, <3>2, <3>3, <3>4 DEF StreamOK
  <2> QED BY <1>2, <1>7, <2>1, Reads
<1> QED BY <1>3, <1>4, <1>5, <1>6, <1>7 DEF Next, World, Run

LEMMA BaselineKept == ASSUME IInv, [Next]_vars PROVE BaselineOK'
<1> USE DEF world, link, times
<1>0. /\ BaselineOK /\ RunOK /\ \A p \in Pools : view[p] \in Nat /\ view'[p] \in Nat /\ view[p] <= view'[p]
  BY ChainKept DEF IInv, ChainOK
<1>1. CASE prevhash' \in {prevhash, NoBlock} /\ UNCHANGED last
  BY <1>0, <1>1 DEF BaselineOK, NoBlock
<1>2. CASE Block \/ (\E p \in Pools : NodeLearns(p)) \/ Break \/ EditPools \/ Tick \/ Notice \/ UNCHANGED vars
           \/ PickOne \/ Seed \/ Wake \/ Login \/ DialFails \/ ReadFails
  BY <1>1, <1>2 DEF Block, NodeLearns, Break, EditPools, Tick, Notice, vars, PickOne, Seed, Wake, Login,
                    DialFails, ReadFails
<1>3. CASE PoolSendsJob \/ PoolAccepts \/ PoolSendsOther
  BY <1>1, <1>3, LineSent
<1>4. CASE Restart
  BY <1>4 DEF Restart, BaselineOK, NoBlock
<1>5. CASE Read
  <2>1. CASE stream[1].kind = "job" /\ Job(stream[1].block)
    <3>1. /\ watched.id \in Pools /\ stream[1].block \in 1 .. view[watched.id]
          /\ last' = [pool |-> watched.id, block |-> stream[1].block]
      BY <1>5, <2>1, JobTold
    <3>2. prevhash' = stream[1].block
      BY <2>1 DEF Job
    <3>3. /\ stream[1].block \in 1 .. view'[watched.id] /\ stream[1].block \in Nat
          /\ watched.id # "none"
      BY <1>0, <3>1, PoolsAssumption
    <3>4. last'.pool = watched.id /\ last'.block = stream[1].block
      BY <3>1
    <3> QED BY <3>1, <3>2, <3>3, <3>4 DEF BaselineOK
  <2> QED BY <1>1, <1>5, <2>1, Reads
<1> QED BY <1>2, <1>3, <1>4, <1>5 DEF Next, World, Run

(* The baseline is a block. *)
LEMMA BaselineFound == ASSUME IInv, prevhash # NoBlock PROVE prevhash \in DOMAIN found
<1>1. last.pool \in Pools /\ prevhash \in 1 .. view[last.pool]
  BY DEF IInv, BaselineOK
<1>2. view[last.pool] \in Nat /\ view[last.pool] <= Len(found) /\ Len(found) \in Nat
  BY <1>1, LenProperties DEF IInv, ChainOK, Tip
<1>3. DOMAIN found = 1 .. Len(found)
  BY LenProperties DEF IInv, ChainOK
<1> QED BY <1>1, <1>2, <1>3

(* A block that arrives comes first, with no age. *)
LEMMA ArrivesFirst ==
    ASSUME arrivals \in Seq(Arrival), NEW b, Job(b), IsBlock(b)
    PROVE  arrivals' \in Seq(Arrival) /\ arrivals'[1].age = 0
<1> DEFINE new == [age |-> 0, own |-> TRUE]
           n == Min({Len(arrivals), Blocks - 1})
<1>1. Len(arrivals) \in Nat /\ new \in Arrival /\ new.age = 0 /\ Blocks - 1 \in Nat
  BY LenProperties, TimesAssumption DEF Arrival
<1>2. n \in 0 .. Len(arrivals)
  BY <1>1, SmallerOfTwo
<1>3. arrivals' = <<new>> \o SubSeq(arrivals, 1, n)
  BY DEF Job
<1> HIDE DEF new, n
<1>4. SubSeq(arrivals, 1, n) \in Seq(Arrival)
  <2>1. 1 \in Int /\ n \in Int /\ \A i \in 1 .. n : arrivals[i] \in Arrival
    BY <1>1, <1>2, ElementOfSeq
  <2> QED BY <2>1, SubSeqProperties
<1>5. <<new>> \in Seq(Arrival) /\ Len(<<new>>) = 1 /\ <<new>>[1] = new
  BY <1>1
<1>6. /\ <<new>> \o SubSeq(arrivals, 1, n) \in Seq(Arrival)
      /\ (<<new>> \o SubSeq(arrivals, 1, n))[1] = new
  <2>1. Len(SubSeq(arrivals, 1, n)) \in Nat
    BY <1>4, LenProperties
  <2> QED BY <1>4, <1>5, <2>1, ConcatProperties
<1> QED BY <1>1, <1>3, <1>6

(* The times that a source has are not the watcher's own. *)
LEMMA SeedsAreNotOwn ==
    ASSUME ChainOK, NEW b \in 1 .. Tip
    PROVE  Seeds(b) \in Seq(Arrival) /\ (Seeds(b) # <<>> => Seeds(b)[1].own = FALSE)
<1> DEFINE n == Min({b, Blocks})
           entry(i) == [age |-> found[b + 1 - i], own |-> FALSE]
<1>1. Len(found) \in Nat /\ DOMAIN found = 1 .. Len(found) /\ b \in 1 .. Len(found)
  BY LenProperties DEF ChainOK, Tip
<1>2. n \in Nat /\ n <= b
  BY <1>1, TimesAssumption, SmallerOfTwo
<1>3. Seeds(b) = [i \in 1 .. n |-> entry(i)]
  BY DEF Seeds
<1> HIDE DEF n
<1>4. ASSUME NEW i \in 1 .. n PROVE entry(i) \in Arrival
  <2>1. b + 1 - i \in 1 .. Len(found)
    BY <1>1, <1>2
  <2>2. found[b + 1 - i] \in 0 .. Dead
    BY <1>1, <2>1, ElementOfSeq DEF ChainOK
  <2> QED BY <2>2 DEF Arrival
<1>5. Seeds(b) \in [1 .. n -> Arrival]
  BY <1>3, <1>4
<1>6. Seeds(b) \in Seq(Arrival)
  BY <1>2, <1>5, SeqDef
<1>7. ASSUME Seeds(b) # <<>> PROVE Seeds(b)[1].own = FALSE
  <2>1. Len(Seeds(b)) \in Nat \ {0} /\ DOMAIN Seeds(b) = 1 .. Len(Seeds(b))
    BY <1>6, <1>7, EmptySeq, LenProperties
  <2>2. 1 \in 1 .. n
    BY <1>2, <1>5, <2>1
  <2> QED BY <1>3, <2>2
<1> QED BY <1>6, <1>7

LEMMA ArrivalsKept == ASSUME IInv, [Next]_vars PROVE ArrivalsOK'
<1> USE DEF world, link, times
<1>0. /\ ArrivalsOK /\ BaselineOK /\ ChainOK /\ Dead \in Nat
      /\ found \in Seq(0 .. Dead) /\ DOMAIN found = 1 .. Len(found) /\ Len(found) \in Nat
  BY LenProperties, TimesAssumption DEF IInv, ChainOK
<1>1. CASE UNCHANGED <<found, arrivals, prevhash>>
  BY <1>0, <1>1 DEF ArrivalsOK
<1>2. CASE (\E p \in Pools : NodeLearns(p)) \/ Break \/ EditPools \/ Notice \/ UNCHANGED vars
           \/ PickOne \/ Wake \/ Login \/ DialFails \/ ReadFails
  BY <1>1, <1>2 DEF NodeLearns, Break, EditPools, Notice, vars, PickOne, Wake, Login, DialFails, ReadFails
<1>3. CASE PoolSendsJob \/ PoolAccepts \/ PoolSendsOther
  BY <1>1, <1>3, LineSent
<1>4. CASE Restart
  BY <1>4 DEF Restart, ArrivalsOK
<1>5. CASE Seed
  <2>1. CASE \E b \in 1 .. Tip : arrivals' = Seeds(b)
    BY <2>1, <1>0, SeedsAreNotOwn DEF ArrivalsOK
  <2>2. CASE UNCHANGED times
    BY <1>1, <1>5, <2>2 DEF Seed
  <2> QED BY <1>5, <2>1, <2>2 DEF Seed
<1>6. CASE Block
  <2>1. \A b \in DOMAIN found : found'[b] = found[b]
    <3>1. 0 \in 0 .. Dead
      BY <1>0
    <3> QED BY <1>0, <1>6, <3>1, AppendProperties DEF Block
  <2>2. UNCHANGED <<arrivals, prevhash>>
    BY <1>6 DEF Block
  <2> QED BY <1>0, <2>1, <2>2, BaselineFound DEF ArrivalsOK
<1>7. CASE Tick
  <2> DEFINE aged(i) == [arrivals[i] EXCEPT !.age = Older(@, Dead)]
  <2>1. /\ arrivals \in Seq(Arrival) /\ DOMAIN arrivals = 1 .. Len(arrivals) /\ Len(arrivals) \in Nat
        /\ \A i \in DOMAIN arrivals : arrivals[i] \in Arrival
    BY <1>0, LenProperties, ElementOfSeq DEF ArrivalsOK
  <2>2. /\ arrivals' = [i \in 1 .. Len(arrivals) |-> aged(i)] /\ prevhash' = prevhash
        /\ found' = [b \in DOMAIN found |-> Older(found[b], Dead)]
    BY <1>7, <2>1 DEF Tick
  <2>3. ASSUME NEW i \in DOMAIN arrivals
        PROVE  /\ aged(i) \in Arrival /\ aged(i).own = arrivals[i].own
               /\ aged(i).age = Older(arrivals[i].age, Dead)
    <3>1. arrivals[i].age \in 0 .. Dead
      BY <2>1 DEF Arrival
    <3>2. Older(arrivals[i].age, Dead) \in 0 .. Dead
      <4> DEFINE a == arrivals[i].age
      <4>1. a \in 0 .. Dead /\ Dead \in Nat
        BY <3>1, TimesAssumption
      <4> HIDE DEF a
      <4>2. Older(a, Dead) = IF a < Dead THEN a + 1 ELSE Dead
        BY <4>1, GetsOlder
      <4>3. Older(a, Dead) \in 0 .. Dead
        BY <4>1, <4>2
      <4> QED BY <4>3 DEF a
    <3> DEFINE age == Older(arrivals[i].age, Dead)
    <3>3. aged(i) = [arrivals[i] EXCEPT !.age = age]
      OBVIOUS
    <3> HIDE DEF age, aged
    <3>4. aged(i).own = arrivals[i].own
      BY <2>1, <3>3 DEF Arrival
    <3>5. aged(i).age = age
      BY <2>1, <3>3 DEF Arrival
    <3>6. aged(i) \in Arrival
      BY <2>1, <3>2, <3>3 DEF Arrival, age
    <3> QED BY <3>4, <3>5, <3>6 DEF age
  <2>4. arrivals' \in [1 .. Len(arrivals) -> Arrival]
    BY <2>1, <2>2, <2>3
  <2>5. arrivals' \in Seq(Arrival)
    BY <2>1, <2>4, SeqDef
  <2>6. ASSUME arrivals' # <<>>, arrivals'[1].own = TRUE
        PROVE  prevhash' # NoBlock /\ arrivals'[1].age <= found'[prevhash']
    <3>1. 1 \in DOMAIN arrivals /\ arrivals # <<>>
      <4>1. Len(arrivals') \in Nat \ {0} /\ DOMAIN arrivals' = 1 .. Len(arrivals')
        BY <2>5, <2>6, EmptySeq, LenProperties
      <4> QED BY <2>1, <2>4, <4>1
    <3>2. arrivals'[1] = aged(1)
      BY <2>1, <2>2, <3>1
    <3>3. arrivals[1].own = TRUE
      BY <2>3, <2>6, <3>1, <3>2
    <3>4. prevhash # NoBlock /\ arrivals[1].age <= found[prevhash]
      BY <1>0, <3>1, <3>3 DEF ArrivalsOK
    <3>5. prevhash \in DOMAIN found
      BY <3>4, BaselineFound
    <3>6. arrivals[1].age \in 0 .. Dead /\ found[prevhash] \in 0 .. Dead
      BY <1>0, <2>1, <3>1, <3>5, ElementOfSeq DEF Arrival
    <3>7. Older(arrivals[1].age, Dead) <= Older(found[prevhash], Dead)
      BY <1>0, <3>4, <3>6, GetsOlder
    <3> QED BY <2>2, <2>3, <3>1, <3>2, <3>4, <3>5, <3>7
  <2> QED BY <2>5, <2>6 DEF ArrivalsOK
<1>8. CASE Read
  <2>1. CASE stream[1].kind = "job" /\ Job(stream[1].block)
    <3>1. UNCHANGED found
      BY <1>8, Reads
    <3>2. prevhash' = stream[1].block /\ stream[1].block >= 1 /\ stream[1].block \in DOMAIN found
      <4>1. watched.id \in Pools /\ stream[1].block \in 1 .. view[watched.id]
        BY <1>8, <2>1, JobTold
      <4>2. view[watched.id] \in Nat /\ view[watched.id] <= Len(found)
        BY <1>0, <4>1 DEF ChainOK, Tip
      <4> QED BY <1>0, <2>1, <4>1, <4>2 DEF Job
    <3>3. CASE IsBlock(stream[1].block)
      <4>1. arrivals' \in Seq(Arrival) /\ arrivals'[1].age = 0
        BY <1>0, <2>1, <3>3, ArrivesFirst DEF ArrivalsOK
      <4>2. found[stream[1].block] \in 0 .. Dead
        BY <1>0, <3>2, ElementOfSeq
      <4> QED BY <3>1, <3>2, <4>1, <4>2 DEF ArrivalsOK, NoBlock
    <3>4. CASE ~IsBlock(stream[1].block)
      <4>1. UNCHANGED arrivals /\ (prevhash = NoBlock \/ prevhash' = prevhash)
        BY <2>1, <3>4 DEF Job, IsBlock
      <4> QED BY <1>0, <3>1, <4>1 DEF ArrivalsOK
    <3> QED BY <3>3, <3>4
  <2> QED BY <1>1, <1>8, <2>1, Reads
<1> QED BY <1>2, <1>3, <1>4, <1>5, <1>6, <1>7, <1>8 DEF Next, World, Run

-----------------------------------------------------------------------------
(* The results. *)

LEMMA Inductive == Spec => []IInv
<1>1. IInv /\ [Next]_vars => IInv'
  BY ChainKept, RunKept, StreamKept, BaselineKept, ArrivalsKept DEF IInv
<1> QED BY InitHolds, <1>1, PTL DEF Spec

(* However connections break and pools are edited, the hardness is not
   understated for the block of the job once the newest time is the watcher's
   own (Watcher.Factor, Watcher.job). *)
THEOREM HardnessStands == Spec => []NeverUnderstated
<1>1. IInv => NeverUnderstated
  <2> SUFFICES ASSUME IInv, Known, arrivals[1].own, prevhash # NoBlock, Binds(found[prevhash])
               PROVE  Hard
    BY DEF NeverUnderstated
  <2>1. arrivals # <<>>
    BY DEF Known
  <2>2. arrivals \in Seq(Arrival) /\ Len(arrivals) \in Nat \ {0}
    BY <2>1, EmptySeq DEF IInv, ArrivalsOK
  <2>3. arrivals[1] \in Arrival
    BY <2>2, ElementOfSeq
  <2>4. arrivals[1].age <= found[prevhash]
    BY <2>1 DEF IInv, ArrivalsOK
  <2>5. arrivals[1].age \in Nat /\ found[prevhash] \in Nat
    <3>1. found[prevhash] \in 0 .. Dead
      BY BaselineFound, ElementOfSeq, LenProperties DEF IInv, ChainOK
    <3> QED BY <2>3, <3>1 DEF Arrival
  <2>6. Binds(arrivals[1].age)
    BY <2>4, <2>5, TimesAssumption DEF Binds
  <2> QED BY <2>6 DEF Hard
<1> QED BY Inductive, <1>1, PTL

(* A block is announced only if the pool had not told of it before (Watcher.job,
   with the calls of OnBlock). *)
THEOREM AlarmsAreNew == Spec => NoFalseAlarm
<1>1. ASSUME IInv, [Next]_vars
      PROVE  [Alarm => /\ last.pool # "none"
                       /\ last.pool = watched.id => prevhash' > last.block]_vars
  <2> SUFFICES ASSUME Alarm
               PROVE  /\ last.pool # "none"
                      /\ last.pool = watched.id => prevhash' > last.block
    OBVIOUS
  <2>1. stream # <<>> /\ stream' = Tail(stream) /\ arrivals' # arrivals
    BY DEF Alarm
  <2>2. UNCHANGED arrivals \/ Tick \/ Seed \/ Restart \/ Read
    BY <1>1, LineSent
       DEF Next, World, Run, Block, NodeLearns, Break, EditPools, Notice, PickOne, Wake, Login,
           DialFails, ReadFails, vars, world, link, times
  <2>3. Read
    BY <2>1, <2>2 DEF Alarm, Tick, Seed, Restart
  <2>4. stream[1].kind = "job" /\ Job(stream[1].block)
    BY <1>1, <2>1, <2>3, Reads DEF times
  <2>5. IsBlock(stream[1].block) /\ prevhash' = stream[1].block
    BY <2>1, <2>4 DEF Job
  <2>6. /\ stream[1].block \in 1 .. view[watched.id] /\ watched.id \in Pools
        /\ last.pool = watched.id => last.block <= stream[1].block
    BY <1>1, <2>3, <2>4, JobTold
  <2>7. last.pool # "none" /\ prevhash = last.block /\ last.block \in 1 .. view[last.pool] /\ prevhash \in Nat
    BY <1>1, <2>5 DEF IInv, BaselineOK, IsBlock
  <2>8. stream[1].block \in Nat
    BY <1>1, <2>6 DEF IInv, ChainOK
  <2> QED BY <2>5, <2>6, <2>7, <2>8 DEF IsBlock
<1> QED BY Inductive, <1>1, PTL DEF Spec, NoFalseAlarm
================================================================================
