------------------------------ MODULE SessionProofs ------------------------------
(***************************************************************************)
(* Proofs about one connection among all that share the limits, for any    *)
(* number of connections and addresses, any requests, timeouts and limits. *)
(***************************************************************************)
EXTENDS Session, FiniteSetTheorems, TLAPS

-----------------------------------------------------------------------------
(* Counting. *)

(* How many elements a set has, after the membership of c alone has changed. *)
LEMMA CountAfterChange ==
    ASSUME NEW D, IsFiniteSet(D), NEW F \in SUBSET D, NEW G, NEW c,
           \A x : x # c => (x \in G <=> x \in F)
    PROVE  /\ Cardinality(F) \in Nat
           /\ (c \in F <=> c \in G) => Cardinality(G) = Cardinality(F)
           /\ c \notin F /\ c \in G => Cardinality(G) = Cardinality(F) + 1
           /\ c \in F /\ c \notin G => Cardinality(G) = Cardinality(F) - 1
<1>1. IsFiniteSet(F) /\ Cardinality(F) \in Nat
  BY FS_Subset, FS_CardinalityType
<1>2. (c \in F <=> c \in G) => G = F
  OBVIOUS
<1>3. c \notin F /\ c \in G => G = F \cup {c}
  OBVIOUS
<1>4. c \in F /\ c \notin G => G = F \ {c}
  OBVIOUS
<1>5. Cardinality(F \cup {c}) = IF c \in F THEN Cardinality(F) ELSE Cardinality(F) + 1
  BY <1>1, FS_AddElement
<1>6. Cardinality(F \ {c}) = IF c \in F THEN Cardinality(F) - 1 ELSE Cardinality(F)
  BY <1>1, FS_RemoveElement
<1> QED BY <1>1, <1>2, <1>3, <1>4, <1>5, <1>6

(* The instance of Limits counts as FiniteSets does. *)
LEMMA SameCount == \A S : L!Cardinality(S) = Cardinality(S)
  BY DEF L!Cardinality, Cardinality

LEMMA Finite == IsFiniteSet(Conns)
<1>1. L!IsFiniteSet(Conns) => IsFiniteSet(Conns)
  BY DEF L!IsFiniteSet, IsFiniteSet
<1> QED BY <1>1, LimitsAssumption DEF L!Parameters

-----------------------------------------------------------------------------
(* The slots: each counter is the number of connections that hold one. *)

Counted == {"pending", "served", "returned"}
OfAddress == {"pending", "served", "returned", "uncounted"}

SlotsOK ==
    /\ L!TypeOK
    /\ total = Cardinality(L!At(Counted))
    /\ pending = Cardinality(L!At({"pending"}))
    /\ \A ip \in IPs : perIP[ip] = Cardinality(L!From(ip, OfAddress))

(* The counters follow a connection c from one phase to the next: each kind of
   slot that it takes or gives back is counted, for its own address only. *)
LEMMA SlotsFollow ==
    ASSUME SlotsOK, NEW c \in Conns, NEW p \in L!Phases,
           conn' = [conn EXCEPT ![c] = p],
           total' = IF conn[c] \in Counted /\ p \notin Counted THEN total - 1
                    ELSE IF conn[c] \notin Counted /\ p \in Counted THEN total + 1 ELSE total,
           pending' = IF conn[c] = "pending" /\ p # "pending" THEN pending - 1
                      ELSE IF conn[c] # "pending" /\ p = "pending" THEN pending + 1 ELSE pending,
           perIP' = IF conn[c] \in OfAddress /\ p \notin OfAddress
                    THEN [perIP EXCEPT ![IPOf[c]] = @ - 1]
                    ELSE IF conn[c] \notin OfAddress /\ p \in OfAddress
                    THEN [perIP EXCEPT ![IPOf[c]] = @ + 1] ELSE perIP,
           limits' \in Settings, cfg' \in [Conns -> Settings \cup {L!NoCfg}]
    PROVE  SlotsOK'
<1>1. /\ conn \in [Conns -> L!Phases] /\ conn' \in [Conns -> L!Phases]
      /\ conn'[c] = p /\ \A x \in Conns \ {c} : conn'[x] = conn[x]
  BY DEF SlotsOK, L!TypeOK
<1>2. /\ IsFiniteSet(Conns) /\ IPOf[c] \in IPs
      /\ \A ip \in IPs : IsFiniteSet({x \in Conns : IPOf[x] = ip})
  BY Finite, LimitsAssumption, FS_Subset DEF L!Parameters
<1>3. L!TypeOK'
  BY <1>1, <1>2 DEF SlotsOK, L!TypeOK
<1>4. total' = Cardinality(L!At(Counted)')
  <2>1. /\ L!At(Counted) \in SUBSET Conns
        /\ \A x : x # c => (x \in L!At(Counted)' <=> x \in L!At(Counted))
        /\ c \in L!At(Counted) <=> conn[c] \in Counted
        /\ c \in L!At(Counted)' <=> p \in Counted
    BY <1>1 DEF L!At
  <2>2. total = Cardinality(L!At(Counted))
    BY DEF SlotsOK
  <2> QED BY <1>2, <2>1, <2>2, CountAfterChange
<1>5. pending' = Cardinality(L!At({"pending"})')
  <2>1. /\ L!At({"pending"}) \in SUBSET Conns
        /\ \A x : x # c => (x \in L!At({"pending"})' <=> x \in L!At({"pending"}))
        /\ c \in L!At({"pending"}) <=> conn[c] = "pending"
        /\ c \in L!At({"pending"})' <=> p = "pending"
    BY <1>1 DEF L!At
  <2>2. pending = Cardinality(L!At({"pending"}))
    BY DEF SlotsOK
  <2> QED BY <1>2, <2>1, <2>2, CountAfterChange
<1>6. ASSUME NEW ip \in IPs PROVE perIP'[ip] = Cardinality(L!From(ip, OfAddress)')
  <2>1. /\ L!From(ip, OfAddress) \in SUBSET Conns
        /\ \A x : x # c => (x \in L!From(ip, OfAddress)' <=> x \in L!From(ip, OfAddress))
        /\ c \in L!From(ip, OfAddress) <=> ip = IPOf[c] /\ conn[c] \in OfAddress
        /\ c \in L!From(ip, OfAddress)' <=> ip = IPOf[c] /\ p \in OfAddress
    BY <1>1 DEF L!From, L!At
  <2>2. perIP[ip] = Cardinality(L!From(ip, OfAddress))
    BY DEF SlotsOK
  <2>3. perIP'[ip] = IF ip # IPOf[c] THEN perIP[ip]
                     ELSE IF conn[c] \in OfAddress /\ p \notin OfAddress THEN perIP[ip] - 1
                     ELSE IF conn[c] \notin OfAddress /\ p \in OfAddress THEN perIP[ip] + 1
                     ELSE perIP[ip]
    BY <1>2 DEF SlotsOK, L!TypeOK
  <2> QED BY <1>2, <2>1, <2>2, <2>3, CountAfterChange
<1> QED BY <1>3, <1>4, <1>5, <1>6 DEF SlotsOK

LEMMA SlotsAtFirst == ASSUME Init PROVE SlotsOK
<1>0. L!Init
  BY DEF Init
<1>1. L!TypeOK
  BY <1>0 DEF L!Init, L!TypeOK, L!Phases
<1>2. \A phases \in SUBSET (L!Phases \ {"none"}) : L!At(phases) = {} /\ \A ip \in IPs : L!From(ip, phases) = {}
  BY <1>0 DEF L!Init, L!At, L!From, L!Phases
<1>3. Cardinality({}) = 0
  BY FS_EmptySet
<1> QED BY <1>0, <1>1, <1>2, <1>3 DEF L!Init, SlotsOK, L!Phases, Counted, OfAddress

LEMMA LimitsKeepSlots == ASSUME SlotsOK, [L!Next]_(L!vars) PROVE SlotsOK'
<1> USE DEF Counted, OfAddress, L!Phases
<1>t. /\ limits \in Settings /\ cfg \in [Conns -> Settings \cup {L!NoCfg}]
      /\ \A x \in Conns : conn[x] \in L!Phases
  BY DEF SlotsOK, L!TypeOK
<1>0. ASSUME NEW c \in Conns, L!Arrive(c) PROVE SlotsOK'
  BY <1>0, <1>t, SlotsFollow DEF L!Arrive, L!counters
<1>1. ASSUME NEW c \in Conns, L!Admit(c) PROVE SlotsOK'
  BY <1>1, <1>t, SlotsFollow DEF L!Admit, L!Answered
<1>2. ASSUME NEW c \in Conns, L!Reject(c) PROVE SlotsOK'
  BY <1>2, <1>t, SlotsFollow DEF L!Reject, L!Answered, L!counters
<1>3. ASSUME NEW c \in Conns, L!FirstMessage(c) PROVE SlotsOK'
  BY <1>3, <1>t, SlotsFollow DEF L!FirstMessage, L!FirstDone
<1>4. ASSUME NEW c \in Conns, L!Return(c) PROVE SlotsOK'
  BY <1>4, <1>t, SlotsFollow DEF L!Return, L!FirstDone
<1>5. ASSUME NEW c \in Conns, L!LeaveTotal(c) PROVE SlotsOK'
  BY <1>5, <1>t, SlotsFollow DEF L!LeaveTotal
<1>6. ASSUME NEW c \in Conns, L!LeaveIP(c) PROVE SlotsOK'
  BY <1>6, <1>t, SlotsFollow DEF L!LeaveIP
<1>7. CASE L!SetLimits \/ UNCHANGED L!vars
  <2>1. limits' \in Settings /\ UNCHANGED <<cfg, conn, total, pending, perIP>>
    BY <1>7, <1>t DEF L!SetLimits, L!vars, L!counters
  <2> QED BY <2>1 DEF SlotsOK, L!TypeOK, L!At, L!From
<1> QED BY <1>0, <1>1, <1>2, <1>3, <1>4, <1>5, <1>6, <1>7 DEF L!Next, L!Step, L!Release

(* The steps that touch a slot are steps of Limits, of the followed connection
   or another one; all others leave the slots alone. *)
LEMMA SlotsAreLimits ==
    ASSUME [Next]_vars PROVE [L!Next]_(L!vars)
<1> USE MeAssumption DEF L!vars, L!counters, slots
<1>1. CASE Arrive \/ Accept \/ Refuse \/ (\E r \in Requests : FirstMessage(r)) \/ Return \/ GiveBack
  BY <1>1 DEF Arrive, Accept, Refuse, FirstMessage, Return, GiveBack, L!Next, L!Step
<1>2. CASE Others
  BY <1>2 DEF Others, L!Next
<1>3. CASE GiveUp \/ Picked \/ \E r \in Requests : MinerRead(r)
  BY <1>3 DEF GiveUp, Picked, MinerRead
<1>4. CASE MinerLoop
  BY <1>4 DEF MinerLoop, Relay, MinerWrite, MinerEnds
<1>5. CASE PoolLoop
  BY <1>5 DEF PoolLoop, PoolCheck, PoolRead, PoolDeadline, PoolReadEnds, PoolWritten, PoolWriteFails,
              Report, OnFailure
<1>6. CASE CloseOnPurpose \/ CloseAfterLoop \/ Serve
  BY <1>6 DEF CloseOnPurpose, CloseAfterLoop, Close, Serve
<1>7. CASE PoolSends \/ (\E t \in JobTimeouts : SaveTimeout(t)) \/ RefreshDeadlines \/ Tick
  BY <1>7 DEF PoolSends, SaveTimeout, RefreshDeadlines, Tick
<1>8. CASE UNCHANGED vars
  BY <1>8 DEF vars
<1> QED BY <1>1, <1>2, <1>3, <1>4, <1>5, <1>6, <1>7, <1>8 DEF Next, End

LEMMA SlotsKept == ASSUME SlotsOK, [Next]_vars PROVE SlotsOK'
  BY SlotsAreLimits, LimitsKeepSlots

(* No slot of the listener is lost or given back twice, however the session
   ends: by a refusal, without a first message, without a pool, by one of its
   loops or closed on purpose (Listener.Serve, Server.Serve). *)
THEOREM SlotsStayExact == Spec => []SlotsExact
<1>1. Init => SlotsOK
  BY SlotsAtFirst
<1>2. SlotsOK /\ [Next]_vars => SlotsOK'
  BY SlotsKept
<1>3. SlotsOK => SlotsExact
  BY SameCount DEF SlotsOK, SlotsExact, L!SlotsExact, Counted, OfAddress
<1> QED BY <1>1, <1>2, <1>3, PTL DEF Spec

(* Who is let in is less than what the limits are compared with. *)
LEMMA RoomForOne ==
    ASSUME SlotsOK, NEW c \in Conns, L!Admit(c)
    PROVE  /\ Cardinality(L!At({"pending", "served"})) < cfg[c].all
           /\ Cardinality(L!At({"pending"})) < cfg[c].pending
           /\ cfg[c].perIP > 0 =>
                Cardinality(L!From(IPOf[c], {"pending", "served"})) < cfg[c].perIP
<1>1. /\ Cardinality(L!At({"pending", "served"})) <= total
      /\ Cardinality(L!At({"pending"})) = pending
      /\ Cardinality(L!From(IPOf[c], {"pending", "served"})) <= perIP[IPOf[c]]
      /\ total \in Int /\ pending \in Int /\ perIP[IPOf[c]] \in Int
      /\ Cardinality(L!At({"pending", "served"})) \in Nat
      /\ Cardinality(L!From(IPOf[c], {"pending", "served"})) \in Nat
  <2>1. /\ IsFiniteSet(Conns) /\ IPOf[c] \in IPs
    BY Finite, LimitsAssumption DEF L!Parameters
  <2>2. \A q : IsFiniteSet(L!At(q)) /\ \A ip : IsFiniteSet(L!From(ip, q))
    BY <2>1, FS_Subset DEF L!At, L!From
  <2>3. /\ L!At({"pending", "served"}) \subseteq L!At(Counted)
        /\ L!From(IPOf[c], {"pending", "served"}) \subseteq L!From(IPOf[c], OfAddress)
    BY DEF L!At, L!From, Counted, OfAddress
  <2>4. /\ Cardinality(L!At({"pending", "served"})) <= Cardinality(L!At(Counted))
        /\ Cardinality(L!From(IPOf[c], {"pending", "served"})) <= Cardinality(L!From(IPOf[c], OfAddress))
        /\ Cardinality(L!At({"pending", "served"})) \in Nat
        /\ Cardinality(L!From(IPOf[c], {"pending", "served"})) \in Nat
    BY <2>2, <2>3, FS_Subset, FS_CardinalityType
  <2> QED BY <2>1, <2>4 DEF SlotsOK, L!TypeOK
<1>2. /\ total < cfg[c].all /\ pending < cfg[c].pending
      /\ cfg[c].perIP = 0 \/ perIP[IPOf[c]] < cfg[c].perIP
  BY DEF L!Admit, L!Fits
<1>3. cfg[c].all \in Nat /\ cfg[c].pending \in Nat /\ cfg[c].perIP \in Nat
  BY LimitsAssumption DEF SlotsOK, L!TypeOK, L!NoCfg, L!Parameters
<1> QED BY <1>1, <1>2, <1>3

(* A connection is let in only while fewer are being served than the limits
   that were in force when it came, also while others come and end and the
   limits are changed (acquire). *)
THEOREM LimitsHold == Spec => NeverOver
<1> DEFINE Room(c) ==
             /\ L!Cardinality(L!At({"pending", "served"})) < cfg[c].all
             /\ L!Cardinality(L!At({"pending"})) < cfg[c].pending
             /\ cfg[c].perIP > 0 => L!Cardinality(L!From(IPOf[c], {"pending", "served"})) < cfg[c].perIP
           A == \A c \in Conns : conn[c] # "pending" /\ conn'[c] = "pending" => Room(c)
<1>1. Init => SlotsOK
  BY SlotsAtFirst
<1>2. SlotsOK /\ [Next]_vars => SlotsOK'
  BY SlotsKept
<1>3. ASSUME SlotsOK, [Next]_vars PROVE [A]_(L!vars)
  <2> SUFFICES ASSUME L!Next, NEW c \in Conns, conn[c] # "pending", conn'[c] = "pending" PROVE Room(c)
    BY <1>3, SlotsAreLimits
  <2>1. L!Admit(c)
    <3>1. ASSUME NEW d \in Conns, L!Step(d) PROVE d = c /\ L!Admit(c)
      <4>1. conn'[c] # conn[c]
        OBVIOUS
      <4>2. conn' # conn /\ conn \in [Conns -> L!Phases]
        BY <1>3, <4>1 DEF SlotsOK, L!TypeOK
      <4>3. CASE L!Admit(d)
        BY <4>1, <4>2, <4>3 DEF L!Admit, L!Answered
      <4>4. CASE L!Arrive(d) \/ L!Reject(d) \/ L!FirstMessage(d) \/ L!Return(d) \/ L!Release(d)
        BY <4>1, <4>2, <4>4 DEF L!Arrive, L!Answered, L!Reject, L!FirstMessage, L!Return, L!Release, L!LeaveTotal, L!LeaveIP
      <4> QED BY <3>1, <4>3, <4>4 DEF L!Step
    <3>2. ~L!SetLimits
      BY DEF L!SetLimits
    <3> QED BY <3>1, <3>2 DEF L!Next
  <2> QED BY <1>3, <2>1, RoomForOne, SameCount
<1>4. Spec => [][A]_(L!vars)
  BY <1>1, <1>2, <1>3, PTL DEF Spec
<1> QED BY <1>4 DEF NeverOver, L!NeverOver

-----------------------------------------------------------------------------
(* Silence and deadlines. *)

Sent == [kind : {"auth", "submit"}, id : Ids]

Lines == [kind : {"answer"}, id : Ids, ok : BOOLEAN, to : {"auth", "submit"}]
            \cup {Line(kind) : kind \in {"job", "other", "reconnect"}}

MinerRecs == [at : {"none", "first", "read", "write", "end"}, req : Requests]

Typed ==
    /\ since \in 0 .. Cap /\ quiet \in 0 .. Cap /\ jobTimeout \in JobTimeouts
    /\ miner \in MinerRecs /\ asked \subseteq Sent /\ wire \in Seq(Lines)

(* acquire has given its answer for the followed connection. *)
Asked == conn[me] \notin {"none", "asking"}

(* A loop that is at work has been started by the relay. *)
Started ==
    /\ phase # "none" => Asked
    /\ closed = "no" /\ (pool.at # "none" \/ miner.at \in {"read", "write"}) => phase = "relay"

JobWaits == \E k \in 1 .. Len(wire) : wire[k].kind = "job"

(* The time the program counts is not longer than the silence of the pool, but
   for a job that it has not read yet. *)
SilenceCounted ==
    authorized /\ closed = "no" => since <= quiet \/ slow \/ JobWaits

IInv == SlotsOK /\ Typed /\ Started /\ SilenceCounted /\ DeadlineInForce

(* Appending keeps a job that waits; reading another line too. *)
LEMMA JobAppended ==
    ASSUME wire \in Seq(Lines), NEW x \in Lines, wire' = Append(wire, x)
    PROVE  /\ wire' \in Seq(Lines)
           /\ JobWaits \/ x.kind = "job" => JobWaits'
           /\ wire'[Len(wire')] = x
<1>1. /\ wire' \in Seq(Lines) /\ Len(wire') = Len(wire) + 1 /\ Len(wire) \in Nat
      /\ wire'[Len(wire')] = x /\ \A k \in 1 .. Len(wire) : wire'[k] = wire[k]
  OBVIOUS
<1> QED BY <1>1 DEF JobWaits

LEMMA JobRead ==
    ASSUME wire \in Seq(Lines), wire # <<>>, wire' = Tail(wire)
    PROVE  /\ Head(wire) \in Lines /\ wire' \in Seq(Lines)
           /\ JobWaits /\ Head(wire).kind # "job" => JobWaits'
<1>1. /\ Head(wire) = wire[1] /\ wire' \in Seq(Lines) /\ Len(wire) \in Nat /\ Len(wire) > 0
      /\ Len(wire') = Len(wire) - 1 /\ \A k \in 1 .. Len(wire) - 1 : wire'[k] = wire[k + 1]
      /\ \A k \in 1 .. Len(wire) : wire[k] \in Lines
  OBVIOUS
<1>2. ASSUME JobWaits, Head(wire).kind # "job" PROVE JobWaits'
  <2>1. PICK k \in 1 .. Len(wire) : wire[k].kind = "job"
    BY <1>2 DEF JobWaits
  <2>2. k # 1 /\ k - 1 \in 1 .. Len(wire')
    BY <1>1, <1>2, <2>1
  <2>3. wire'[k - 1] = wire[k]
    BY <1>1, <2>2
  <2> QED BY <2>1, <2>2, <2>3 DEF JobWaits
<1> QED BY <1>1, <1>2

(* What a pool sends is a line. *)
LEMMA LineSent == ASSUME Typed, PoolSends PROVE \E x \in Lines : wire' = Append(wire, x)
<1>1. CASE \E r \in asked, ok \in BOOLEAN :
              wire' = Append(wire, [kind |-> "answer", id |-> r.id, ok |-> ok, to |-> r.kind])
  <2>1. PICK r \in asked, ok \in BOOLEAN :
              wire' = Append(wire, [kind |-> "answer", id |-> r.id, ok |-> ok, to |-> r.kind])
    BY <1>1
  <2>2. r.id \in Ids /\ r.kind \in {"auth", "submit"}
    BY DEF Typed, Sent
  <2> QED BY <2>1, <2>2 DEF Lines
<1>2. CASE \E kind \in {"job", "other", "reconnect"} : wire' = Append(wire, Line(kind))
  BY <1>2 DEF Line, Lines
<1> QED BY <1>1, <1>2 DEF PoolSends

LEMMA TypedKept == ASSUME IInv, [Next]_vars PROVE Typed'
<1> USE DEF Typed, slots, peers, requests, times, settings
<1>0. Typed
  BY DEF IInv
<1>a. /\ Cap \in Nat /\ 0 \in 0 .. Cap /\ Older(since) \in 0 .. Cap /\ Older(quiet) \in 0 .. Cap
      /\ NoRequest \in Requests
  BY <1>0, CapAssumption DEF Older, Requests
<1>b. \A r \in Requests, at \in {"first", "read", "write", "end"} : [at |-> at, req |-> r] \in MinerRecs
  BY DEF MinerRecs
<1>c. [miner EXCEPT !.at = "write"] \in MinerRecs /\ [at |-> "end", req |-> NoRequest] \in MinerRecs
  BY <1>0, <1>a DEF MinerRecs
<1>1. CASE Arrive \/ Accept \/ Refuse \/ GiveUp \/ Serve \/ Return \/ GiveBack \/ Others \/ RefreshDeadlines
  BY <1>0, <1>a, <1>1 DEF Arrive, Accept, Refuse, GiveUp, Serve, Return, GiveBack, Others, RefreshDeadlines
<1>2. ASSUME NEW r \in Requests, FirstMessage(r) \/ MinerRead(r) PROVE Typed'
  <2>1. miner' \in MinerRecs
    BY <1>b, <1>2 DEF FirstMessage, MinerRead
  <2> QED BY <1>0, <1>2, <2>1 DEF FirstMessage, MinerRead
<1>3. CASE Picked
  BY <1>0, <1>a, <1>3 DEF Picked
<1>4. CASE Relay
  <2>1. miner' \in MinerRecs
    BY <1>b, <1>c, <1>4 DEF Relay
  <2> QED BY <1>0, <1>4, <2>1 DEF Relay
<1>5. CASE MinerWrite \/ MinerEnds
  <2>1. miner' \in MinerRecs
    BY <1>a, <1>b, <1>5 DEF MinerWrite, MinerEnds
  <2>2. asked' \subseteq Sent
    BY <1>0, <1>5 DEF MinerWrite, MinerEnds, MinerRecs, Requests, Sent
  <2> QED BY <1>0, <1>5, <2>1, <2>2 DEF MinerWrite, MinerEnds
<1>6. CASE PoolCheck \/ PoolDeadline \/ PoolReadEnds \/ PoolWritten \/ PoolWriteFails \/ Report \/ OnFailure
  BY <1>0, <1>6 DEF PoolCheck, PoolDeadline, PoolReadEnds, PoolWritten, PoolWriteFails, Report, OnFailure
<1>7. CASE PoolRead
  <2>1. wire' \in Seq(Lines)
    BY <1>0, <1>7, JobRead DEF PoolRead
  <2>2. since' \in 0 .. Cap /\ quiet' \in 0 .. Cap
    BY <1>0, <1>a, <1>7 DEF PoolRead
  <2> QED BY <1>0, <1>7, <2>1, <2>2 DEF PoolRead
<1>8. ASSUME NEW reason, Close(reason) PROVE Typed'
  <2>1. wire' \in Seq(Lines)
    <3>1. <<>> \in Seq(Lines)
      OBVIOUS
    <3> QED BY <1>8, <3>1 DEF Close
  <2> QED BY <1>0, <1>a, <1>8, <2>1 DEF Close
<1>9. CASE PoolSends
  <2>1. PICK x \in Lines : wire' = Append(wire, x)
    BY <1>0, <1>9, LineSent
  <2>2. wire' \in Seq(Lines)
    BY <1>0, <2>1, JobAppended
  <2>3. asked' \subseteq asked /\ quiet' \in 0 .. Cap
    BY <1>0, <1>a, <1>9 DEF PoolSends
  <2> QED BY <1>0, <1>9, <2>2, <2>3 DEF PoolSends
<1>10. ASSUME NEW t \in JobTimeouts, SaveTimeout(t) PROVE Typed'
  BY <1>0, <1>10 DEF SaveTimeout
<1>11. CASE Tick
  BY <1>0, <1>a, <1>11 DEF Tick
<1>12. CASE UNCHANGED vars
  BY <1>0, <1>12 DEF vars
<1> QED
  BY <1>1, <1>2, <1>3, <1>4, <1>5, <1>6, <1>7, <1>8, <1>9, <1>10, <1>11, <1>12
  DEF Next, MinerLoop, PoolLoop, End, CloseOnPurpose, CloseAfterLoop

(* A connection that has been seen does not become new again. *)
LEMMA SeenStays == ASSUME SlotsOK, [Next]_vars, Asked PROVE Asked'
<1>1. conn \in [Conns -> L!Phases] /\ conn' \in [Conns -> L!Phases]
  BY SlotsKept DEF SlotsOK, L!TypeOK
<1>2. ASSUME NEW c \in Conns, L!Step(c) PROVE Asked'
  BY <1>1, <1>2, MeAssumption
  DEF Asked, L!Step, L!Arrive, L!Answered, L!Admit, L!Reject, L!FirstMessage, L!Return, L!Release, L!LeaveTotal, L!LeaveIP
<1>3. CASE L!SetLimits \/ UNCHANGED L!vars
  BY <1>3 DEF Asked, L!SetLimits, L!vars
<1> QED BY <1>2, <1>3, SlotsAreLimits DEF L!Next

LEMMA StartedKept == ASSUME IInv, [Next]_vars PROVE Started'
<1> USE DEF Started, slots, peers, requests, times, settings
<1>0. /\ Started /\ conn \in [Conns -> L!Phases] /\ miner \in MinerRecs
      /\ Asked => Asked'
  BY SeenStays DEF IInv, SlotsOK, L!TypeOK, Typed
<1>1. CASE Accept
  BY <1>0, <1>1, MeAssumption DEF Accept, Asked, L!Admit, L!Answered
<1>2. CASE Refuse
  BY <1>0, <1>2, MeAssumption DEF Refuse, Asked, L!Reject, L!Answered
<1>14. CASE Arrive
  BY <1>0, <1>14 DEF Arrive, Asked, L!Arrive
<1>3. CASE GiveUp \/ Picked
  BY <1>0, <1>3 DEF GiveUp, Picked
<1>13. ASSUME NEW r \in Requests, FirstMessage(r) PROVE Started'
  <2>1. miner'.at = "first"
    BY <1>13 DEF FirstMessage
  <2> QED BY <1>0, <1>13, <2>1 DEF FirstMessage
<1>4. CASE Serve \/ Return \/ GiveBack
  BY <1>0, <1>4 DEF Serve, Return, GiveBack
<1>5. CASE Relay
  BY <1>0, <1>5 DEF Relay
<1>6. CASE MinerWrite \/ MinerEnds \/ \E r \in Requests : MinerRead(r)
  BY <1>0, <1>6 DEF MinerWrite, MinerEnds, MinerRead
<1>7. CASE PoolCheck \/ PoolDeadline \/ PoolReadEnds \/ PoolWritten \/ PoolWriteFails \/ Report \/ OnFailure
  BY <1>0, <1>7 DEF PoolCheck, PoolDeadline, PoolReadEnds, PoolWritten, PoolWriteFails, Report, OnFailure
<1>8. CASE PoolRead
  BY <1>0, <1>8 DEF PoolRead
<1>9. CASE CloseOnPurpose \/ CloseAfterLoop
  BY <1>0, <1>9 DEF CloseOnPurpose, CloseAfterLoop, Close
<1>10. CASE PoolSends \/ (\E t \in JobTimeouts : SaveTimeout(t)) \/ RefreshDeadlines
  BY <1>0, <1>10 DEF PoolSends, SaveTimeout, RefreshDeadlines
<1>11. CASE Tick
  BY <1>0, <1>11 DEF Tick, To
<1>12. CASE Others \/ UNCHANGED vars
  BY <1>0, <1>12 DEF Others, vars
<1> QED
  BY <1>1, <1>2, <1>3, <1>4, <1>5, <1>6, <1>7, <1>8, <1>9, <1>10, <1>11, <1>12, <1>13, <1>14
  DEF Next, MinerLoop, PoolLoop, End

LEMMA SilenceKept == ASSUME IInv, [Next]_vars PROVE SilenceCounted'
<1> USE DEF SilenceCounted, slots, peers, requests, times, settings
<1>0. SilenceCounted /\ Typed
  BY DEF IInv
<1>a. Cap \in Nat /\ since \in 0 .. Cap /\ quiet \in 0 .. Cap /\ wire \in Seq(Lines)
  BY <1>0, CapAssumption DEF Typed
<1>b. wire' = wire /\ JobWaits => JobWaits'
  BY DEF JobWaits
<1>1. CASE Arrive \/ Accept \/ Refuse \/ GiveUp \/ Return \/ GiveBack \/ Relay \/ Others \/ RefreshDeadlines
  BY <1>0, <1>b, <1>1 DEF Arrive, Accept, Refuse, GiveUp, Return, GiveBack, Relay, Others, RefreshDeadlines
<1>2. ASSUME NEW r \in Requests, FirstMessage(r) \/ MinerRead(r) PROVE SilenceCounted'
  BY <1>0, <1>b, <1>2 DEF FirstMessage, MinerRead
<1>3. CASE Picked
  <2>1. since' = 0 /\ quiet' = quiet
    BY <1>3 DEF Picked
  <2>2. since' <= quiet'
    BY ONLY <1>a, <2>1
  <2> QED BY <2>2
<1>4. CASE MinerWrite \/ MinerEnds
  BY <1>0, <1>b, <1>4 DEF MinerWrite, MinerEnds
<1>5. CASE PoolCheck \/ PoolDeadline \/ PoolReadEnds \/ PoolWritten \/ PoolWriteFails \/ Report \/ OnFailure
  BY <1>0, <1>b, <1>5
  DEF PoolCheck, PoolDeadline, PoolReadEnds, PoolWritten, PoolWriteFails, Report, OnFailure
<1>6. CASE PoolRead
  <2>1. /\ Head(wire).kind # "job" /\ JobWaits => JobWaits'
        /\ closed = "no" /\ closed' = "no"
        /\ slow' = (slow /\ Head(wire).kind # "job")
    BY <1>a, <1>6, JobRead DEF PoolRead
  <2>2. CASE authorized => Head(wire).kind = "job"
    <3>1. since' = 0
      BY <1>6, <2>2 DEF PoolRead
    <3>2. quiet' \in 0 .. Cap
      BY TypedKept DEF Typed
    <3>3. since' <= quiet'
      BY ONLY <1>a, <3>1, <3>2
    <3> QED BY <3>3
  <2>3. CASE authorized /\ Head(wire).kind # "job"
    <3>1. since' = since /\ quiet' = quiet
      BY <1>6, <2>3 DEF PoolRead
    <3> QED BY <1>0, <2>1, <2>3, <3>1
  <2> QED BY <2>2, <2>3
<1>7. CASE CloseOnPurpose \/ CloseAfterLoop
  BY <1>7 DEF CloseOnPurpose, CloseAfterLoop, Close
<1>8. CASE Serve
  BY <1>8 DEF Serve
<1>9. CASE PoolSends
  <2>1. PICK x \in Lines : wire' = Append(wire, x)
    BY <1>0, <1>9, LineSent
  <2>2. (JobWaits => JobWaits') /\ (x.kind = "job" => JobWaits') /\ wire'[Len(wire')] = x
    BY <1>a, <2>1, JobAppended
  <2>3. x.kind # "job" => quiet' = quiet
    BY <1>9, <2>2 DEF PoolSends
  <2> QED BY <1>0, <1>9, <2>2, <2>3 DEF PoolSends
<1>10. ASSUME NEW t \in JobTimeouts, SaveTimeout(t) PROVE SilenceCounted'
  BY <1>0, <1>b, <1>10 DEF SaveTimeout
<1>11. CASE Tick
  <2>1. since <= quiet => Older(since) <= Older(quiet)
    BY <1>a DEF Older
  <2>2. slow => slow'
    BY <1>11 DEF Tick
  <2> QED BY <1>0, <1>b, <1>11, <2>1, <2>2 DEF Tick
<1>12. CASE UNCHANGED vars
  BY <1>0, <1>b, <1>12 DEF vars
<1> QED
  BY <1>1, <1>2, <1>3, <1>4, <1>5, <1>6, <1>7, <1>8, <1>9, <1>10, <1>11, <1>12
  DEF Next, MinerLoop, PoolLoop, End

(* After these steps the pool's goroutine does not wait in a read. *)
LEMMA NotReading ==
    ASSUME \/ PoolRead \/ PoolDeadline \/ PoolReadEnds \/ PoolWritten \/ PoolWriteFails
           \/ Report \/ OnFailure \/ (PoolCheck /\ JobTimedOut)
    PROVE  pool'.at # "read"
<1> USE DEF To
<1>1. CASE PoolRead
  BY <1>1 DEF PoolRead
<1>2. CASE PoolDeadline
  BY <1>2 DEF PoolDeadline
<1>3. CASE PoolReadEnds
  BY <1>3 DEF PoolReadEnds
<1>4. CASE PoolWritten
  BY <1>4 DEF PoolWritten
<1>5. CASE PoolWriteFails
  BY <1>5 DEF PoolWriteFails
<1>6. CASE Report \/ OnFailure
  BY <1>6 DEF Report, OnFailure
<1>7. CASE PoolCheck /\ JobTimedOut
  BY <1>7 DEF PoolCheck
<1> QED BY <1>1, <1>2, <1>3, <1>4, <1>5, <1>6, <1>7

(* These leave a wait in a read, if there is one, as it is. *)
WaitStays ==
    /\ pool'.at = "read" => pool' = pool
    /\ closed' = closed /\ poolDue' = poolDue /\ authorized' = authorized /\ since' = since
    /\ jobTimeout' = jobTimeout /\ refreshing' = refreshing

LEMMA WaitKept == ASSUME DeadlineInForce, WaitStays PROVE DeadlineInForce'
<1>1. ASSUME pool'.at = "read", closed' = "no", ~refreshing' PROVE poolDue = Left(IF authorized THEN jobTimeout ELSE IdleTimeout, since)
  BY <1>1 DEF WaitStays, DeadlineInForce
<1>2. (IF authorized THEN jobTimeout ELSE IdleTimeout)' = IF authorized THEN jobTimeout ELSE IdleTimeout
  BY DEF WaitStays
<1>3. Left(IF authorized THEN jobTimeout ELSE IdleTimeout, since)' = Left(IF authorized THEN jobTimeout ELSE IdleTimeout, since)
  BY <1>2 DEF WaitStays, Left
<1> QED BY <1>1, <1>3 DEF DeadlineInForce, WaitStays

LEMMA DeadlineKept == ASSUME IInv, [Next]_vars PROVE DeadlineInForce'
<1>0. DeadlineInForce /\ Typed /\ Started
  BY DEF IInv
<1>1. CASE Arrive \/ Accept \/ Refuse \/ GiveUp \/ Return \/ GiveBack \/ Others \/ PoolSends \/ UNCHANGED vars
  <2>1. WaitStays
    BY <1>1 DEF WaitStays, Arrive, Accept, Refuse, GiveUp, Return, GiveBack, Others, PoolSends, vars, times, settings
  <2> QED BY <1>0, <2>1, WaitKept
<1>2. CASE (\E r \in Requests : FirstMessage(r) \/ MinerRead(r)) \/ MinerWrite \/ MinerEnds
  <2>1. WaitStays
    BY <1>2 DEF WaitStays, FirstMessage, MinerRead, MinerWrite, MinerEnds, times, settings
  <2> QED BY <1>0, <2>1, WaitKept
<1>3. CASE Picked
  <2>1. closed' = closed /\ pool' = pool /\ phase # "relay"
    BY <1>3 DEF Picked
  <2> QED BY <1>0, <2>1 DEF Started, DeadlineInForce
<1>4. CASE Relay
  <2>1. WaitStays
    BY <1>4 DEF WaitStays, Relay, times, settings
  <2> QED BY <1>0, <2>1, WaitKept
<1>5. CASE PoolCheck
  <2>1. CASE JobTimedOut
    BY <1>5, <2>1, NotReading DEF DeadlineInForce
  <2>2. CASE ~JobTimedOut
    <3>1. /\ poolDue' = Deadline(jobTimeout)
          /\ authorized' = authorized /\ since' = since /\ jobTimeout' = jobTimeout
      BY <1>5, <2>2 DEF PoolCheck, settings
    <3>2. (IF authorized THEN jobTimeout ELSE IdleTimeout)' = IF authorized THEN jobTimeout ELSE IdleTimeout
      BY <3>1
    <3> QED BY <3>1, <3>2 DEF DeadlineInForce, Deadline, Left
  <2> QED BY <2>1, <2>2
<1>6. CASE PoolRead \/ PoolDeadline \/ PoolReadEnds \/ PoolWritten \/ PoolWriteFails \/ Report \/ OnFailure
  BY <1>6, NotReading DEF DeadlineInForce
<1>7. CASE CloseOnPurpose \/ CloseAfterLoop \/ Serve
  <2>1. closed' # "no"
    BY <1>7 DEF CloseOnPurpose, CloseAfterLoop, Close, Serve
  <2> QED BY <2>1 DEF DeadlineInForce
<1>8. ASSUME NEW t \in JobTimeouts, SaveTimeout(t) PROVE DeadlineInForce'
  BY <1>8 DEF SaveTimeout, DeadlineInForce
<1>9. CASE RefreshDeadlines
  <2>1. pool'.at = "read" /\ closed' = "no" => poolDue' = Deadline(jobTimeout)
    BY <1>0, <1>9 DEF RefreshDeadlines, Started
  <2>2. authorized' = authorized /\ since' = since /\ jobTimeout' = jobTimeout
    BY <1>9 DEF RefreshDeadlines
  <2>3. (IF authorized THEN jobTimeout ELSE IdleTimeout)' = IF authorized THEN jobTimeout ELSE IdleTimeout
    BY <2>2
  <2> QED BY <2>1, <2>2, <2>3 DEF DeadlineInForce, Deadline, Left
<1>10. CASE Tick
  <2> DEFINE t == IF authorized THEN jobTimeout ELSE IdleTimeout
  <2>1. t \in 0 .. Cap - 1 /\ since \in 0 .. Cap
    <3>1. jobTimeout \in 1 .. IdleTimeout /\ since \in 0 .. Cap
      BY <1>0, TimeoutsAssumption DEF Typed
    <3> QED BY <3>1, CapAssumption
  <2>2. /\ poolDue' = Later(poolDue) /\ since' = Older(since)
        /\ authorized' = authorized /\ jobTimeout' = jobTimeout
        /\ closed' = closed /\ refreshing' = refreshing
        /\ pool'.at = "read" => pool.at = "read"
    BY <1>10 DEF Tick, To, settings
  <2>3. t' = t
    BY <2>2
  <2> HIDE DEF t
  <2>4. Left(t, since)' = Later(Left(t, since))
    BY <2>1, <2>2, <2>3, CapAssumption DEF Left, Later, Older
  <2>5. pool'.at = "read" /\ closed' = "no" /\ ~refreshing' => poolDue = Left(t, since)
    BY <1>0, <2>2 DEF DeadlineInForce, t
  <2> QED BY <2>2, <2>4, <2>5 DEF DeadlineInForce, t
<1> QED
  BY <1>1, <1>2, <1>3, <1>4, <1>5, <1>6, <1>7, <1>8, <1>9, <1>10
  DEF Next, MinerLoop, PoolLoop, End

LEMMA InitHolds == Init => IInv
<1> SUFFICES ASSUME Init PROVE IInv
  OBVIOUS
<1>1. SlotsOK
  BY SlotsAtFirst
<1>2. Typed
  <2>1. <<>> \in Seq(Lines)
    OBVIOUS
  <2>2. [at |-> "none", req |-> NoRequest] \in MinerRecs
    BY DEF MinerRecs, Requests
  <2>3. 0 \in 0 .. Cap
    BY CapAssumption
  <2>4. wire \in Seq(Lines) /\ miner \in MinerRecs
    BY <2>1, <2>2 DEF Init
  <2> QED BY <2>3, <2>4 DEF Init, Typed
<1>3. Started /\ SilenceCounted /\ DeadlineInForce
  BY DEF Init, Started, SilenceCounted, DeadlineInForce
<1> QED BY <1>1, <1>2, <1>3 DEF IInv

LEMMA StepKeeps == IInv /\ [Next]_vars => IInv'
<1> SUFFICES ASSUME IInv, [Next]_vars PROVE IInv'
  OBVIOUS
<1>1. SlotsOK'
  BY SlotsKept DEF IInv
<1> QED BY <1>1, TypedKept, StartedKept, SilenceKept, DeadlineKept DEF IInv

(* A waiting read of the pool always ends at the timeout in force, also after
   the setting was changed and whatever was read before (poolDeadlineLocked,
   refreshIdleDeadlines). *)
THEOREM DeadlineHolds == Spec => []DeadlineInForce
<1>1. IInv => DeadlineInForce
  BY DEF IInv
<1> QED BY <1>1, InitHolds, StepKeeps, PTL DEF Spec

(* No pool is reported as silent that was not, however its lines, changes of
   the setting, slow writes and the clock follow on each other (jobTimedOut,
   markPoolActivity). *)
THEOREM StallsAreReal == Spec => StallIsReal
<1>1. ASSUME IInv, Next, closed = "no", pool.at = "check", pool' = [at |-> "report", then |-> "stalled"]
      PROVE  /\ authorized
             /\ quiet >= jobTimeout \/ slow \/ \E k \in 1 .. Len(wire) : wire[k].kind = "job"
  <2>1. pool'.at = "report" /\ pool'.then = "stalled"
    BY <1>1
  <2>2. JobTimedOut
    <3>1. Typed /\ Started /\ phase = "relay"
      BY <1>1 DEF IInv, Started
    <3>2. CASE PoolCheck
      BY <2>1, <3>2 DEF PoolCheck, To
    <3>3. ASSUME ~PoolCheck PROVE pool' = pool \/ pool'.at # "report"
      BY <1>1, <3>1, <3>3
      DEF Next, MinerLoop, PoolLoop, End, Arrive, Accept, Refuse, GiveUp, Picked, FirstMessage, MinerRead,
          Relay, MinerWrite, MinerEnds, PoolRead, PoolDeadline, PoolReadEnds, PoolWritten,
          PoolWriteFails, Report, OnFailure, CloseOnPurpose, CloseAfterLoop, Close, Serve, Return,
          GiveBack, PoolSends, SaveTimeout, RefreshDeadlines, Tick, Others, To
    <3> QED BY <1>1, <2>1, <3>2, <3>3
  <2>3. since <= quiet \/ slow \/ JobWaits
    BY <1>1, <2>2 DEF IInv, SilenceCounted, JobTimedOut
  <2>4. since \in 0 .. Cap /\ quiet \in 0 .. Cap /\ jobTimeout \in 1 .. IdleTimeout
    BY <1>1, TimeoutsAssumption DEF IInv, Typed
  <2>5. since <= quiet => quiet >= jobTimeout
    BY <2>2, <2>4, CapAssumption DEF JobTimedOut
  <2> QED BY <2>2, <2>3, <2>5 DEF JobTimedOut, JobWaits
<1>2. IInv /\ [Next]_vars =>
        [closed = "no" /\ pool.at = "check" /\ pool' = [at |-> "report", then |-> "stalled"] =>
          /\ authorized
          /\ quiet >= jobTimeout \/ slow \/ \E k \in 1 .. Len(wire) : wire[k].kind = "job"]_vars
  BY <1>1
<1> QED BY <1>2, InitHolds, StepKeeps, PTL DEF Spec, StallIsReal

-----------------------------------------------------------------------------
(* Requests and answers. *)

Ages(f) ==
    /\ DOMAIN f \subseteq Ids /\ f = [id \in DOMAIN f |-> f[id]]
    /\ \A id \in DOMAIN f : f[id] \in Nat

WriteReq == miner.at = "write" /\ miner.req # NoRequest

(* An id is in use for one request at a time: in the hands of the loop, at the
   pool, or in an answer on its way. *)
InAsked(id) == \E r \in asked : r.id = id
InWire(id) == \E k \in 1 .. Len(wire) : wire[k].id = id
InMiner(id) == WriteReq /\ miner.req.id = id

OnePlace ==
    /\ \A r, q \in asked : r.id = q.id => r = q
    /\ \A id \in Ids : ~(InAsked(id) /\ InWire(id)) /\ ~(InMiner(id) /\ (InAsked(id) \/ InWire(id)))
    /\ \A j, k \in 1 .. Len(wire) : wire[j].id = wire[k].id /\ wire[j].id \in Ids => j = k

(* Each of them is on the list of its kind, or was dropped as too old. *)
Noted(kind, id) == id \in forgotten \/ (IF kind = "submit" THEN id \in DOMAIN submits ELSE id \in DOMAIN auths)
AllNoted ==
    /\ \A r \in asked : Noted(r.kind, r.id)
    /\ \A k \in 1 .. Len(wire) : Answers(wire[k]) => Noted(wire[k].to, wire[k].id)
    /\ WriteReq => Noted(miner.req.kind, miner.req.id)

(* While the miner may send requests only those in use are on the lists or
   remembered as forgotten. *)
Known == DOMAIN auths \cup DOMAIN submits \cup forgotten
AllOpen ==
    miner.at \in {"read", "write"} =>
       \A id \in Known : InAsked(id) \/ InWire(id) \/ InMiner(id)

Unused == asked = {} /\ wire = <<>> /\ Known = {}

(* A request is on one list at most, and not if it is forgotten. *)
Apart ==
    /\ DOMAIN auths \cap DOMAIN submits = {} /\ forgotten \subseteq Ids
    /\ forgotten \cap (DOMAIN auths \cup DOMAIN submits) = {}

BookOK ==
    /\ Ages(auths) /\ Ages(submits) /\ Apart
    /\ closed = "no" => OnePlace /\ AllNoted /\ AllOpen
    /\ closed = "no" /\ phase # "relay" => Unused

(* Most steps leave the requests alone. *)
LEMMA BookStays ==
    ASSUME BookOK, asked' = asked, wire' = wire, auths' = auths, submits' = submits, forgotten' = forgotten,
           closed' = closed, miner' = miner \/ miner'.at \in {"first", "end"},
           closed = "no" /\ phase' # "relay" => phase # "relay"
    PROVE  BookOK'
<1>1. /\ \A id : (InAsked(id)' <=> InAsked(id)) /\ (InWire(id)' <=> InWire(id)) /\ (InMiner(id)' => InMiner(id))
      /\ \A kind, id : Noted(kind, id)' <=> Noted(kind, id)
      /\ WriteReq' => WriteReq /\ miner' = miner
  BY DEF InAsked, InWire, InMiner, WriteReq, Noted
<1>2. miner'.at \in {"read", "write"} => \A id : InMiner(id) => InMiner(id)'
  BY DEF InMiner, WriteReq
<1>3. OnePlace => OnePlace'
  BY <1>1 DEF OnePlace
<1>4. AllNoted => AllNoted'
  BY <1>1 DEF AllNoted, Answers
<1>5. AllOpen => AllOpen'
  BY <1>1, <1>2 DEF AllOpen, Known
<1> QED BY <1>3, <1>4, <1>5 DEF BookOK, Ages, Apart, Unused, Known

(* Between two requests of the miner, what is on a list waits for its answer. *)
LEMMA ListsAreOpen ==
    ASSUME Typed, BookOK, OnePlace, AllNoted, AllOpen, ~WriteReq, miner.at = "read" \/ Unused
    PROVE  DOMAIN auths \subseteq Open("auth") /\ DOMAIN submits \subseteq Open("submit")
<1>1. ASSUME NEW id \in DOMAIN auths \cup DOMAIN submits
      PROVE  id \in Open(IF id \in DOMAIN submits THEN "submit" ELSE "auth")
  <2>1. id \in Ids /\ id \in Known /\ id \notin forgotten /\ ~(id \in DOMAIN auths /\ id \in DOMAIN submits)
    BY <1>1 DEF BookOK, Ages, Apart, Known
  <2>2. InAsked(id) \/ InWire(id)
    BY <2>1 DEF AllOpen, Unused, InMiner
  <2>3. CASE InAsked(id)
    <3>1. PICK r \in asked : r.id = id
      BY <2>3 DEF InAsked
    <3>2. r.kind \in {"auth", "submit"} /\ Noted(r.kind, id)
      BY <3>1 DEF Typed, Sent, AllNoted
    <3>3. r.kind = IF id \in DOMAIN submits THEN "submit" ELSE "auth"
      BY <2>1, <3>2 DEF Noted
    <3> QED BY <2>1, <3>1, <3>3 DEF Open
  <2>4. CASE InWire(id)
    <3>1. PICK k \in 1 .. Len(wire) : wire[k].id = id
      BY <2>4 DEF InWire
    <3>2. wire[k] \in Lines
      BY <3>1 DEF Typed
    <3>3. wire[k].to \in {"auth", "submit"} /\ Answers(wire[k])
      BY <2>1, <3>1, <3>2, RequestsAssumption DEF Lines, Line, Answers
    <3>4. Noted(wire[k].to, id)
      BY <3>1, <3>3 DEF AllNoted
    <3>5. wire[k].to = IF id \in DOMAIN submits THEN "submit" ELSE "auth"
      BY <2>1, <3>3, <3>4 DEF Noted
    <3> QED BY <2>1, <3>1, <3>5 DEF Open
  <2> QED BY <2>2, <2>3, <2>4
<1>2. DOMAIN auths \cap DOMAIN submits = {}
  BY DEF BookOK, Apart
<1> QED BY <1>1, <1>2

(* A list is full only if as many requests as it takes wait for an answer. *)
LEMMA FullListWaits ==
    ASSUME DOMAIN auths \subseteq Open("auth"), DOMAIN submits \subseteq Open("submit"),
           NEW r \in Requests, r # NoRequest, ~Recorded(r)
    PROVE  Beyond(r)
<1>1. IsFiniteSet(Ids) /\ MaxAuth \in Nat /\ MaxSubmits \in Nat /\ r.kind \in {"auth", "submit"}
  BY RequestsAssumption, ListsAssumption DEF Requests
<1>2. ASSUME NEW f, NEW kind, DOMAIN f \subseteq Open(kind)
      PROVE  /\ Cardinality(Fresh(f)) <= Cardinality(Open(kind))
             /\ Cardinality(Fresh(f)) \in Nat /\ Cardinality(Open(kind)) \in Nat
  <2>1. Fresh(f) \subseteq Open(kind) /\ Open(kind) \subseteq Ids
    BY <1>2 DEF Fresh, Open
  <2>2. IsFiniteSet(Open(kind))
    BY <1>1, <2>1, FS_Subset
  <2> QED BY <2>1, <2>2, FS_Subset, FS_CardinalityType
<1>3. CASE r.kind = "auth"
  <2>1. ~(Cardinality(Fresh(auths)) < MaxAuth)
    BY <1>3 DEF Recorded
  <2>2. Cardinality(Open("auth")) >= MaxAuth
    BY <1>1, <1>2, <2>1
  <2> QED BY <1>3, <2>2 DEF Beyond
<1>4. CASE r.kind = "submit"
  <2>1. ~(Cardinality(Fresh(submits)) < MaxSubmits)
    BY <1>4 DEF Recorded
  <2>2. Cardinality(Open("submit")) >= MaxSubmits
    BY <1>1, <1>2, <2>1
  <2> QED BY <1>4, <2>2 DEF Beyond
<1> QED BY <1>1, <1>3, <1>4

(* fromMiner keeps every entry or drops it as too old, and adds the request or
   finds its list full of requests without an answer. *)
LEMMA FromMinerIs ==
    ASSUME BookOK, NEW r \in Requests, r # NoRequest, FromMiner(r), r.id \notin Known,
           DOMAIN auths \subseteq Open("auth"), DOMAIN submits \subseteq Open("submit")
    PROVE  /\ Ages(auths') /\ Ages(submits') /\ Apart'
           /\ Known' \subseteq Known \cup {r.id}
           /\ \A kind, id : Noted(kind, id) => Noted(kind, id)'
           /\ Noted(r.kind, r.id)'
<1> DEFINE lost == IF Beyond(r) /\ ~Recorded(r) THEN {r.id} ELSE {}
<1>1. Ages(auths) /\ Ages(submits) /\ Apart /\ PendingMax \in Nat
  BY ListsAssumption DEF BookOK
<1>2. r.kind \in {"auth", "submit"} /\ r.id \in Ids
  BY DEF Requests
<1>3. /\ auths' = Swept(auths, New(r, "auth")) /\ submits' = Swept(submits, New(r, "submit"))
      /\ forgotten' = forgotten \cup Old(auths) \cup Old(submits) \cup lost
  BY DEF FromMiner
<1>4. ASSUME NEW f, Ages(f), NEW new \in SUBSET Ids
      PROVE  /\ Fresh(f) \subseteq DOMAIN f /\ DOMAIN f = Fresh(f) \cup Old(f) /\ Fresh(f) \cap Old(f) = {}
             /\ Ages(Swept(f, new)) /\ DOMAIN Swept(f, new) = Fresh(f) \cup new
  <2>1. Fresh(f) \subseteq DOMAIN f
    BY DEF Fresh
  <2>2. DOMAIN f = Fresh(f) \cup Old(f) /\ Fresh(f) \cap Old(f) = {}
    BY <1>1, <1>4 DEF Ages, Fresh, Old
  <2> QED BY <1>4, <2>1, <2>2 DEF Ages, Swept
<1>5. /\ New(r, "auth") \subseteq {r.id} /\ New(r, "submit") \subseteq {r.id} /\ lost \subseteq {r.id}
      /\ New(r, "auth") \cap New(r, "submit") = {}
      /\ lost \cap (New(r, "auth") \cup New(r, "submit")) = {}
      /\ r.id \in lost \cup New(r, r.kind)
  BY <1>2, FullListWaits DEF New
<1> HIDE DEF lost
<1>6. /\ Ages(auths') /\ DOMAIN auths' = Fresh(auths) \cup New(r, "auth")
      /\ DOMAIN auths = Fresh(auths) \cup Old(auths) /\ Fresh(auths) \cap Old(auths) = {}
  <2>1. New(r, "auth") \in SUBSET Ids
    BY <1>2, <1>5
  <2>2. Ages(Swept(auths, New(r, "auth"))) /\ DOMAIN Swept(auths, New(r, "auth")) = Fresh(auths) \cup New(r, "auth")
    BY <1>1, <1>4, <2>1
  <2>3. DOMAIN auths = Fresh(auths) \cup Old(auths) /\ Fresh(auths) \cap Old(auths) = {}
    BY <1>1, <1>4, <2>1
  <2> QED BY <1>3, <2>2, <2>3
<1>7. /\ Ages(submits') /\ DOMAIN submits' = Fresh(submits) \cup New(r, "submit")
      /\ DOMAIN submits = Fresh(submits) \cup Old(submits) /\ Fresh(submits) \cap Old(submits) = {}
  <2>1. New(r, "submit") \in SUBSET Ids
    BY <1>2, <1>5
  <2>2. /\ Ages(Swept(submits, New(r, "submit")))
        /\ DOMAIN Swept(submits, New(r, "submit")) = Fresh(submits) \cup New(r, "submit")
    BY <1>1, <1>4, <2>1
  <2>3. DOMAIN submits = Fresh(submits) \cup Old(submits) /\ Fresh(submits) \cap Old(submits) = {}
    BY <1>1, <1>4, <2>1
  <2> QED BY <1>3, <2>2, <2>3
<1>8. r.id \notin DOMAIN auths \cup DOMAIN submits \cup forgotten
  BY DEF Known
<1>9. Apart'
  <2>1. DOMAIN auths' \cap DOMAIN submits' = {}
    BY <1>1, <1>5, <1>6, <1>7, <1>8 DEF Apart
  <2>2. forgotten' \subseteq Ids
    BY <1>1, <1>2, <1>3, <1>5, <1>6, <1>7 DEF Apart, Ages
  <2>3. forgotten' \cap (DOMAIN auths' \cup DOMAIN submits') = {}
    BY <1>1, <1>3, <1>5, <1>6, <1>7, <1>8 DEF Apart
  <2> QED BY <2>1, <2>2, <2>3 DEF Apart
<1>10. Known' \subseteq Known \cup {r.id}
  BY <1>3, <1>5, <1>6, <1>7 DEF Known
<1>11. \A kind, id : Noted(kind, id) => Noted(kind, id)'
  BY <1>3, <1>6, <1>7 DEF Noted
<1>12. Noted(r.kind, r.id)'
  BY <1>2, <1>3, <1>5, <1>6, <1>7 DEF Noted
<1> QED BY <1>6, <1>7, <1>9, <1>10, <1>11, <1>12

(* A request of the miner under an id that is not in use. *)
LEMMA RequestTaken ==
    ASSUME Typed, BookOK, NEW r \in Requests, FromMiner(r), closed = "no", ~WriteReq,
           r # NoRequest => ~InAsked(r.id) /\ ~InWire(r.id),
           miner.at = "read" \/ Unused,
           miner' = [at |-> "write", req |-> r], asked' = asked, wire' = wire, closed' = closed,
           phase' = "relay"
    PROVE  BookOK'
<1>0. OnePlace /\ AllNoted /\ AllOpen
  BY DEF BookOK
<1>1. /\ \A id : (InAsked(id)' <=> InAsked(id)) /\ (InWire(id)' <=> InWire(id))
      /\ \A id : InMiner(id)' <=> r # NoRequest /\ r.id = id
      /\ WriteReq' <=> r # NoRequest
      /\ miner'.req = r
  BY DEF InAsked, InWire, InMiner, WriteReq
<1>2. r # NoRequest => r.id \notin Known
  BY <1>0 DEF AllOpen, Unused, InMiner
<1>3. DOMAIN auths \subseteq Open("auth") /\ DOMAIN submits \subseteq Open("submit")
  BY <1>0, ListsAreOpen
<1>4. /\ Ages(auths') /\ Ages(submits') /\ Apart'
      /\ Known' \subseteq Known \cup (IF r = NoRequest THEN {} ELSE {r.id})
      /\ \A kind, id : Noted(kind, id) => Noted(kind, id)'
      /\ r # NoRequest => Noted(r.kind, r.id)'
  <2>1. CASE r = NoRequest
    BY <2>1 DEF FromMiner, BookOK, Ages, Apart, Known, Noted
  <2>2. CASE r # NoRequest
    BY <1>2, <1>3, <2>2, FromMinerIs
  <2> QED BY <2>1, <2>2
<1>6. OnePlace'
  BY <1>0, <1>1 DEF OnePlace
<1>7. AllNoted'
  BY <1>0, <1>1, <1>4 DEF AllNoted, Answers
<1>8. AllOpen'
  <2> SUFFICES ASSUME NEW id \in Known'
               PROVE  InAsked(id) \/ InWire(id) \/ (r # NoRequest /\ r.id = id)
    BY <1>1 DEF AllOpen
  <2>1. id \in Known \/ (r # NoRequest /\ r.id = id)
    BY <1>4
  <2>2. id \in Known => InAsked(id) \/ InWire(id)
    BY <1>0 DEF AllOpen, Unused, InMiner
  <2> QED BY <2>1, <2>2
<1> QED BY <1>4, <1>6, <1>7, <1>8 DEF BookOK

(* The request reaches the pool. *)
LEMMA RequestArrives == ASSUME Typed, Started, BookOK, MinerWrite PROVE BookOK'
<1>0. closed = "no" /\ OnePlace /\ AllNoted /\ AllOpen /\ phase = "relay"
  BY DEF BookOK, MinerWrite, Started
<1>1. /\ miner.at = "write" /\ miner'.at = "read" /\ asked' = asked \cup ({miner.req} \ {NoRequest})
      /\ wire' = wire /\ auths' = auths /\ submits' = submits /\ forgotten' = forgotten
      /\ closed' = closed /\ phase' = phase
  BY DEF MinerWrite, requests
<1>2. /\ \A id : InAsked(id)' <=> InAsked(id) \/ InMiner(id)
      /\ \A id : (InWire(id)' <=> InWire(id)) /\ ~InMiner(id)'
      /\ ~WriteReq' /\ (miner.req # NoRequest => WriteReq)
  BY <1>1 DEF InAsked, InWire, InMiner, WriteReq
<1>3. \A kind, id : Noted(kind, id)' <=> Noted(kind, id)
  BY <1>1 DEF Noted
<1>4. miner.req \in Requests
  BY DEF Typed, MinerRecs
<1>5. OnePlace'
  <2>1. ASSUME NEW p \in asked', NEW q \in asked', p.id = q.id PROVE p = q
    <3>1. miner.req # NoRequest => ~InAsked(miner.req.id)
      BY <1>0, <1>2, <1>4 DEF OnePlace, InMiner, Requests
    <3> QED BY <1>0, <1>1, <2>1, <3>1 DEF OnePlace, InAsked
  <2> QED BY <1>0, <1>1, <1>2, <2>1 DEF OnePlace
<1>6. AllNoted'
  BY <1>0, <1>1, <1>2, <1>3 DEF AllNoted, Answers
<1>7. AllOpen'
  BY <1>0, <1>1, <1>2 DEF AllOpen, Known
<1> QED BY <1>0, <1>1, <1>5, <1>6, <1>7 DEF BookOK, Ages, Apart

(* A line is sent: an answer takes its request from the pool. *)
LEMMA LineArrives == ASSUME Typed, BookOK, PoolSends PROVE BookOK'
<1>0. closed = "no" /\ OnePlace /\ AllNoted /\ AllOpen /\ phase = "relay" /\ wire \in Seq(Lines)
  BY DEF BookOK, PoolSends, Working, Typed
<1>1. /\ miner' = miner /\ auths' = auths /\ submits' = submits /\ forgotten' = forgotten
      /\ closed' = closed /\ phase' = phase
  BY DEF PoolSends, requests
<1>2. /\ \A id : InMiner(id)' <=> InMiner(id)
      /\ WriteReq' <=> WriteReq
      /\ \A kind, id : Noted(kind, id)' <=> Noted(kind, id)
  BY <1>1 DEF InMiner, WriteReq, Noted
<1>3. ASSUME NEW x \in Lines, wire' = Append(wire, x)
      PROVE  /\ Len(wire') = Len(wire) + 1 /\ Len(wire) \in Nat /\ wire'[Len(wire) + 1] = x
             /\ \A k \in 1 .. Len(wire) : wire'[k] = wire[k]
             /\ \A id : InWire(id)' <=> InWire(id) \/ x.id = id
  <2>1. /\ Len(wire') = Len(wire) + 1 /\ Len(wire) \in Nat /\ wire'[Len(wire) + 1] = x
        /\ \A k \in 1 .. Len(wire) : wire'[k] = wire[k]
    BY <1>0, <1>3
  <2>2. ASSUME NEW id PROVE InWire(id)' <=> InWire(id) \/ x.id = id
    <3>1. 1 .. Len(wire) + 1 = (1 .. Len(wire)) \cup {Len(wire) + 1}
      BY <2>1
    <3> QED BY <2>1, <3>1 DEF InWire
  <2> QED BY <2>1, <2>2
<1>4. CASE \E r \in asked, ok \in BOOLEAN :
              /\ wire' = Append(wire, [kind |-> "answer", id |-> r.id, ok |-> ok, to |-> r.kind])
              /\ asked' = asked \ {r}
  <2>1. PICK r \in asked, ok \in BOOLEAN :
              /\ wire' = Append(wire, [kind |-> "answer", id |-> r.id, ok |-> ok, to |-> r.kind])
              /\ asked' = asked \ {r}
    BY <1>4
  <2> DEFINE x == [kind |-> "answer", id |-> r.id, ok |-> ok, to |-> r.kind]
  <2>2. r.kind \in {"auth", "submit"} /\ r.id \in Ids
    BY DEF Typed, Sent
  <2>3. x \in Lines /\ x.id = r.id /\ x.to = r.kind
    BY <2>2 DEF Lines
  <2>4. wire' = Append(wire, x)
    BY <2>1
  <2> HIDE DEF x
  <2>5. /\ \A id : InAsked(id)' <=> InAsked(id) /\ id # r.id
        /\ InAsked(r.id) /\ ~InWire(r.id) /\ ~InMiner(r.id)
    BY <1>0, <2>1, <2>2 DEF InAsked, OnePlace
  <2>6. OnePlace'
    <3>1. \A p, q \in asked' : p.id = q.id => p = q
      BY <1>0, <2>1 DEF OnePlace
    <3>2. \A id \in Ids : ~(InAsked(id) /\ InWire(id))' /\ ~(InMiner(id) /\ (InAsked(id) \/ InWire(id)))'
      BY <1>0, <1>2, <1>3, <2>3, <2>4, <2>5 DEF OnePlace
    <3>3. ASSUME NEW j \in 1 .. Len(wire'), NEW k \in 1 .. Len(wire'), wire'[j].id = wire'[k].id, wire'[j].id \in Ids
          PROVE  j = k
      <4>1. Len(wire') = Len(wire) + 1 /\ Len(wire) \in Nat /\ wire'[Len(wire) + 1] = x
            /\ \A i \in 1 .. Len(wire) : wire'[i] = wire[i]
        BY <1>3, <2>3, <2>4
      <4>2. j \in 1 .. Len(wire) => wire'[j].id # r.id
        BY <2>5, <4>1 DEF InWire
      <4>3. k \in 1 .. Len(wire) => wire'[k].id # r.id
        BY <2>5, <4>1 DEF InWire
      <4>4. j \in 1 .. Len(wire) /\ k \in 1 .. Len(wire) => j = k
        BY <1>0, <3>3, <4>1 DEF OnePlace
      <4>5. j \notin 1 .. Len(wire) => j = Len(wire) + 1
        BY <4>1
      <4>6. k \notin 1 .. Len(wire) => k = Len(wire) + 1
        BY <4>1
      <4> QED BY <2>3, <3>3, <4>1, <4>2, <4>3, <4>4, <4>5, <4>6
    <3> QED BY <3>1, <3>2, <3>3 DEF OnePlace
  <2>7. AllNoted'
    <3>1. \A p \in asked' : Noted(p.kind, p.id)'
      BY <1>0, <1>1, <2>1 DEF AllNoted, Noted
    <3>2. ASSUME NEW k \in 1 .. Len(wire'), Answers(wire'[k]) PROVE Noted(wire[k].to, wire[k].id)'
      <4>1. Len(wire') = Len(wire) + 1 /\ Len(wire) \in Nat /\ wire'[Len(wire) + 1] = x
            /\ \A i \in 1 .. Len(wire) : wire'[i] = wire[i]
        BY <1>3, <2>3, <2>4
      <4>2. CASE k \in 1 .. Len(wire)
        BY <1>0, <1>1, <3>2, <4>1, <4>2 DEF AllNoted, Noted
      <4>3. CASE k = Len(wire) + 1
        BY <1>0, <1>1, <2>3, <4>1, <4>3 DEF AllNoted, Noted
      <4> QED BY <4>1, <4>2, <4>3
    <3>3. WriteReq' => Noted(miner.req.kind, miner.req.id)'
      BY <1>0, <1>1, <1>2 DEF AllNoted, Noted
    <3> QED BY <3>1, <3>2, <3>3 DEF AllNoted
  <2>8. AllOpen'
    <3>1. \A id : InAsked(id) \/ InWire(id) \/ InMiner(id) => (InAsked(id) \/ InWire(id) \/ InMiner(id))'
      BY <1>2, <1>3, <2>3, <2>4, <2>5
    <3> QED BY <1>0, <1>1, <3>1 DEF AllOpen, Known
  <2> QED BY <1>0, <1>1, <2>6, <2>7, <2>8 DEF BookOK, Ages, Apart
<1>5. CASE \E kind \in {"job", "other", "reconnect"} : wire' = Append(wire, Line(kind)) /\ asked' = asked
  <2>1. PICK kind \in {"job", "other", "reconnect"} : wire' = Append(wire, Line(kind))
    BY <1>5
  <2>2. Line(kind) \in Lines /\ Line(kind).id \notin Ids /\ ~Answers(Line(kind))
    BY RequestsAssumption DEF Line, Lines, Answers
  <2>3. /\ Len(wire') = Len(wire) + 1 /\ Len(wire) \in Nat /\ wire'[Len(wire) + 1] = Line(kind)
        /\ \A i \in 1 .. Len(wire) : wire'[i] = wire[i]
        /\ \A id : InWire(id)' <=> InWire(id) \/ Line(kind).id = id
    BY <1>3, <2>1, <2>2
  <2>4. \A id : InAsked(id)' <=> InAsked(id)
    BY <1>5 DEF InAsked
  <2>5. \A k \in 1 .. Len(wire') : k \in 1 .. Len(wire) \/ k = Len(wire) + 1
    BY <2>3
  <2>6. OnePlace'
    <3>1. \A p, q \in asked' : p.id = q.id => p = q
      BY <1>0, <1>5 DEF OnePlace
    <3>2. \A id \in Ids : ~(InAsked(id) /\ InWire(id))' /\ ~(InMiner(id) /\ (InAsked(id) \/ InWire(id)))'
      BY <1>0, <1>2, <2>2, <2>3, <2>4 DEF OnePlace
    <3>3. \A j, k \in 1 .. Len(wire') : wire'[j].id = wire'[k].id /\ wire'[j].id \in Ids => j = k
      BY <1>0, <2>2, <2>3, <2>5 DEF OnePlace
    <3> QED BY <3>1, <3>2, <3>3 DEF OnePlace
  <2>7. AllNoted'
    <3>1. \A p \in asked' : Noted(p.kind, p.id)'
      BY <1>0, <1>2, <1>5 DEF AllNoted
    <3>2. \A k \in 1 .. Len(wire') : Answers(wire'[k]) => Noted(wire[k].to, wire[k].id)'
      BY <1>0, <1>1, <2>2, <2>3, <2>5 DEF AllNoted, Noted
    <3>3. WriteReq' => Noted(miner.req.kind, miner.req.id)'
      BY <1>0, <1>1, <1>2 DEF AllNoted, Noted
    <3> QED BY <3>1, <3>2, <3>3 DEF AllNoted
  <2>8. AllOpen'
    <3>1. \A id : InAsked(id) \/ InWire(id) \/ InMiner(id) => (InAsked(id) \/ InWire(id) \/ InMiner(id))'
      BY <1>2, <2>3, <2>4
    <3> QED BY <1>0, <1>1, <3>1 DEF AllOpen, Known
  <2> QED BY <1>0, <1>1, <2>6, <2>7, <2>8 DEF BookOK, Ages, Apart
<1> QED BY <1>4, <1>5 DEF PoolSends

(* What fromPool makes of an answer. *)
LEMMA AnswerIs ==
    ASSUME BookOK, NEW line, line.id \in Ids, Answer(line)
    PROVE  /\ Ages(auths') /\ Ages(submits')
           /\ DOMAIN submits' = DOMAIN submits \ {line.id}
           /\ DOMAIN auths' = DOMAIN auths \ {line.id}
           /\ line.id \notin DOMAIN submits => submits' = submits
<1>1. Ages(auths) /\ Ages(submits) /\ DOMAIN auths \cap DOMAIN submits = {}
  BY DEF BookOK, Apart
<1>2. ASSUME NEW f, Ages(f)
      PROVE  /\ Ages(Keep(f, Ids \ {line.id})) /\ DOMAIN Keep(f, Ids \ {line.id}) = DOMAIN f \ {line.id}
             /\ line.id \notin DOMAIN f => Keep(f, Ids \ {line.id}) = f
  <2>1. DOMAIN f \cap (Ids \ {line.id}) = DOMAIN f \ {line.id}
    BY <1>2 DEF Ages
  <2>2. Keep(f, Ids \ {line.id}) = [i \in DOMAIN f \ {line.id} |-> f[i]]
    BY <2>1 DEF Keep
  <2>3. line.id \notin DOMAIN f => DOMAIN f \ {line.id} = DOMAIN f
    OBVIOUS
  <2> QED BY <1>2, <2>2, <2>3 DEF Ages
<1>3. submits' = Keep(submits, Ids \ {line.id})
  BY DEF Answer
<1>4. CASE line.id \in DOMAIN submits
  BY <1>1, <1>2, <1>3, <1>4 DEF Answer
<1>5. CASE line.id \notin DOMAIN submits
  BY <1>1, <1>2, <1>3, <1>5 DEF Answer
<1> QED BY <1>4, <1>5

(* A line is read: the answer's request goes from the lists, all others stay. *)
LEMMA LineTaken == ASSUME Typed, Started, BookOK, PoolRead PROVE BookOK'
<1> DEFINE line == Head(wire)
<1>0. /\ closed = "no" /\ OnePlace /\ AllNoted /\ AllOpen /\ phase = "relay"
      /\ Ages(auths) /\ Ages(submits) /\ Apart
      /\ wire \in Seq(Lines) /\ wire # <<>>
  BY DEF BookOK, PoolRead, Started, Typed
<1>1. /\ miner' = miner /\ asked' = asked /\ wire' = Tail(wire)
      /\ forgotten' = forgotten \ {line.id} /\ closed' = closed /\ phase' = phase
      /\ IF Answers(line) THEN Answer(line) ELSE auths' = auths /\ submits' = submits
  BY DEF PoolRead
<1>2. /\ line = wire[1] /\ line \in Lines /\ Len(wire) \in Nat /\ Len(wire) > 0
      /\ Len(wire') = Len(wire) - 1 /\ \A k \in 1 .. Len(wire) - 1 : wire'[k] = wire[k + 1]
  BY <1>0, <1>1
<1>3. IF Answers(line) THEN line.id \in Ids ELSE line.id \notin Ids
  BY <1>2, RequestsAssumption DEF Lines, Line, Answers
<1> HIDE DEF line
<1>4. /\ Ages(auths') /\ Ages(submits')
      /\ DOMAIN submits' = DOMAIN submits \ {line.id}
      /\ DOMAIN auths' = DOMAIN auths \ {line.id}
  <2>1. CASE Answers(line)
    BY <1>1, <1>3, <2>1, AnswerIs
  <2>2. CASE ~Answers(line)
    BY <1>0, <1>1, <1>3, <2>2 DEF Ages
  <2> QED BY <2>1, <2>2
<1>5. /\ \A id : (InAsked(id)' <=> InAsked(id)) /\ (InMiner(id)' <=> InMiner(id))
      /\ WriteReq' <=> WriteReq
  BY <1>1 DEF InAsked, InMiner, WriteReq
<1>6. ASSUME NEW k \in 1 .. Len(wire')
      PROVE  k + 1 \in 1 .. Len(wire) /\ k + 1 # 1 /\ wire'[k] = wire[k + 1]
  BY <1>2
<1>7. ASSUME NEW id \in Ids PROVE InWire(id)' <=> InWire(id) /\ id # line.id
  <2>1. ASSUME NEW k \in 1 .. Len(wire'), wire'[k].id = id PROVE InWire(id) /\ id # line.id
    <3>1. k + 1 \in 1 .. Len(wire) /\ k + 1 # 1 /\ wire[k + 1].id = id /\ 1 \in 1 .. Len(wire)
      BY <1>2, <1>6, <2>1
    <3>2. wire[1].id # id
      BY <1>0, <3>1 DEF OnePlace
    <3> QED BY <1>2, <3>1, <3>2 DEF InWire
  <2>2. ASSUME NEW k \in 1 .. Len(wire), wire[k].id = id, id # line.id PROVE InWire(id)'
    <3>1. k # 1 /\ k - 1 \in 1 .. Len(wire') /\ k - 1 \in 1 .. Len(wire) - 1 /\ (k - 1) + 1 = k
      BY <1>2, <2>2
    <3>2. wire'[k - 1] = wire[k]
      BY <1>2, <3>1
    <3> QED BY <2>2, <3>1, <3>2 DEF InWire
  <2> QED BY <2>1, <2>2 DEF InWire
<1>8. ASSUME NEW id \in Ids, InAsked(id) \/ InMiner(id) PROVE id # line.id
  <2>1. line.id \in Ids => InWire(line.id)
    BY <1>2 DEF InWire
  <2> QED BY <1>0, <1>8, <2>1 DEF OnePlace
<1>9. OnePlace'
  <2>1. \A j, k \in 1 .. Len(wire') : wire'[j].id = wire'[k].id /\ wire'[j].id \in Ids => j = k
    <3> SUFFICES ASSUME NEW j \in 1 .. Len(wire'), NEW k \in 1 .. Len(wire'),
                        wire'[j].id = wire'[k].id, wire'[j].id \in Ids
                 PROVE  j = k
      OBVIOUS
    <3>1. j + 1 = k + 1
      BY <1>0, <1>6 DEF OnePlace
    <3> QED BY <1>2, <3>1
  <2>2. \A p, q \in asked' : p.id = q.id => p = q
    BY <1>0, <1>1 DEF OnePlace
  <2>3. \A id \in Ids : ~(InAsked(id) /\ InWire(id))' /\ ~(InMiner(id) /\ (InAsked(id) \/ InWire(id)))'
    BY <1>0, <1>5, <1>7 DEF OnePlace
  <2> QED BY <2>1, <2>2, <2>3 DEF OnePlace
<1> DEFINE Listed(kind, id) ==
             id \in forgotten' \/ (IF kind = "submit" THEN id \in DOMAIN submits' ELSE id \in DOMAIN auths')
<1>10. ASSUME NEW kind, NEW id, id # line.id, Noted(kind, id) PROVE Listed(kind, id)
  BY <1>1, <1>4, <1>10 DEF Noted
<1>11. AllNoted'
  <2>1. ASSUME NEW p \in asked' PROVE Listed(p.kind, p.id)
    <3>1. p \in asked /\ p.id \in Ids /\ InAsked(p.id)
      BY <1>1 DEF Typed, Sent, InAsked
    <3> QED BY <1>0, <1>8, <1>10, <3>1 DEF AllNoted
  <2>2. ASSUME NEW k \in 1 .. Len(wire'), Answers(wire'[k]) PROVE Listed(wire'[k].to, wire'[k].id)
    <3>1. k + 1 \in 1 .. Len(wire) /\ k + 1 # 1 /\ wire'[k] = wire[k + 1] /\ Answers(wire[k + 1])
      BY <1>6, <2>2
    <3>2. wire[k + 1].id \in Ids
      BY <1>0, <3>1 DEF Lines, Line, Answers
    <3>3. wire[k + 1].id # line.id
      BY <1>0, <1>2, <3>1, <3>2 DEF OnePlace
    <3>4. Noted(wire[k + 1].to, wire[k + 1].id)
      BY <1>0, <3>1 DEF AllNoted
    <3> QED BY <1>10, <3>1, <3>3, <3>4
  <2>3. ASSUME WriteReq PROVE Listed(miner.req.kind, miner.req.id)
    <3>1. miner.req.id \in Ids /\ InMiner(miner.req.id)
      BY <2>3 DEF Typed, MinerRecs, Requests, InMiner, WriteReq
    <3> QED BY <1>0, <1>8, <1>10, <2>3, <3>1 DEF AllNoted
  <2> QED BY <1>1, <1>5, <2>1, <2>2, <2>3 DEF AllNoted, Noted, Answers
<1>12. AllOpen'
  <2> SUFFICES ASSUME miner.at \in {"read", "write"}, NEW id \in DOMAIN auths' \cup DOMAIN submits' \cup forgotten'
               PROVE  InAsked(id)' \/ InWire(id)' \/ InMiner(id)'
    BY <1>1 DEF AllOpen, Known
  <2>1. id \in Known /\ id # line.id /\ id \in Ids
    BY <1>0, <1>1, <1>4 DEF Ages, Apart, Known
  <2> QED BY <1>0, <1>5, <1>7, <2>1 DEF AllOpen
<1>13. Apart'
  BY <1>0, <1>1, <1>4 DEF Apart
<1> QED BY <1>0, <1>1, <1>4, <1>9, <1>11, <1>12, <1>13 DEF BookOK

(* Requests get older. *)
LEMMA RequestsAge == ASSUME BookOK, Tick PROVE BookOK'
<1>1. /\ miner' = miner /\ asked' = asked /\ wire' = wire /\ forgotten' = forgotten /\ closed' = closed
      /\ phase' = phase /\ auths' = Aged(auths) /\ submits' = Aged(submits)
  BY DEF Tick, peers
<1>2. \A f : Ages(f) => Ages(Aged(f)) /\ DOMAIN Aged(f) = DOMAIN f
  BY ListsAssumption DEF Ages, Aged
<1>3. /\ Ages(auths') /\ Ages(submits') /\ DOMAIN auths' = DOMAIN auths /\ DOMAIN submits' = DOMAIN submits
  BY <1>1, <1>2 DEF BookOK
<1>4. /\ \A id : (InAsked(id)' <=> InAsked(id)) /\ (InWire(id)' <=> InWire(id)) /\ (InMiner(id)' <=> InMiner(id))
      /\ \A kind, id : Noted(kind, id)' <=> Noted(kind, id)
      /\ WriteReq' <=> WriteReq
  BY <1>1, <1>3 DEF InAsked, InWire, InMiner, WriteReq, Noted
<1>5. OnePlace => OnePlace'
  BY <1>1, <1>4 DEF OnePlace
<1>6. AllNoted => AllNoted'
  BY <1>1, <1>4 DEF AllNoted, Answers
<1>7. AllOpen => AllOpen'
  BY <1>1, <1>3, <1>4 DEF AllOpen, Known
<1> QED BY <1>1, <1>3, <1>5, <1>6, <1>7 DEF BookOK, Apart, Unused, Known

LEMMA BookKept == ASSUME IInv, BookOK, [Next]_vars PROVE BookOK'
<1> USE DEF slots, peers, requests, times, settings
<1>0. Typed /\ Started
  BY DEF IInv
<1>1. CASE Arrive \/ Accept \/ Refuse \/ GiveUp \/ Picked \/ Return \/ GiveBack \/ Others \/ RefreshDeadlines
  <2>1. /\ asked' = asked /\ wire' = wire /\ auths' = auths /\ submits' = submits /\ forgotten' = forgotten
        /\ closed' = closed /\ miner' = miner
    BY <1>1 DEF Arrive, Accept, Refuse, GiveUp, Picked, Return, GiveBack, Others, RefreshDeadlines
  <2>2. phase # "relay" \/ phase' = phase
    BY <1>0, <1>1 DEF Arrive, Accept, Refuse, GiveUp, Picked, Return, GiveBack, Others, RefreshDeadlines, Started, Asked,
           L!Reject, L!Answered
  <2> QED BY <2>1, <2>2, BookStays
<1>2. ASSUME NEW r \in Requests, FirstMessage(r) PROVE BookOK'
  <2>1. miner'.at = "first"
    BY <1>2 DEF FirstMessage
  <2> QED BY <1>2, <2>1, BookStays DEF FirstMessage
<1>3. ASSUME NEW r \in Requests, MinerRead(r) PROVE BookOK'
  <2>1. /\ FromMiner(r) /\ closed = "no" /\ miner.at = "read" /\ miner' = [at |-> "write", req |-> r]
        /\ asked' = asked /\ wire' = wire /\ closed' = closed /\ phase' = phase
        /\ ~InAsked(r.id) /\ ~InWire(r.id)
    BY <1>3 DEF MinerRead, InAsked, InWire
  <2>2. phase = "relay" /\ ~WriteReq
    BY <1>0, <2>1 DEF Started, WriteReq
  <2> QED BY <1>0, <2>1, <2>2, RequestTaken
<1>4. CASE Relay
  <2>1. CASE closed = "no"
    <3>1. /\ FromMiner(miner.req) /\ miner' = [miner EXCEPT !.at = "write"] /\ phase' = "relay" /\ phase # "relay"
          /\ asked' = asked /\ wire' = wire /\ closed' = closed
      BY <1>4, <2>1 DEF Relay
    <3>2. Unused /\ ~WriteReq /\ miner.req \in Requests /\ miner' = [at |-> "write", req |-> miner.req]
      BY <1>0, <2>1, <3>1 DEF BookOK, Started, WriteReq, Typed, MinerRecs
    <3>3. ~InAsked(miner.req.id) /\ ~InWire(miner.req.id)
      BY <3>2 DEF Unused, InAsked, InWire
    <3> QED BY <1>0, <2>1, <3>1, <3>2, <3>3, RequestTaken
  <2>2. CASE closed # "no"
    BY <1>4, <2>2 DEF Relay, BookOK, Ages, Apart
  <2> QED BY <2>1, <2>2
<1>5. CASE MinerWrite
  BY <1>0, <1>5, RequestArrives
<1>6. CASE MinerEnds
  <2>1. miner'.at = "end"
    BY <1>6 DEF MinerEnds
  <2> QED BY <1>6, <2>1, BookStays DEF MinerEnds
<1>7. CASE PoolCheck \/ PoolDeadline \/ PoolReadEnds \/ PoolWritten \/ PoolWriteFails \/ Report \/ OnFailure
  BY <1>7, BookStays
  DEF PoolCheck, PoolDeadline, PoolReadEnds, PoolWritten, PoolWriteFails, Report, OnFailure
<1>8. CASE PoolRead
  BY <1>0, <1>8, LineTaken
<1>9. ASSUME NEW reason, reason # "no", Close(reason) PROVE BookOK'
  <2>1. /\ auths' = << >> /\ submits' = << >> /\ forgotten' = {}
        /\ closed' # "no" /\ DOMAIN << >> = {}
    BY <1>9 DEF Close
  <2>2. Ages(<< >>)
    BY <2>1 DEF Ages
  <2> QED BY <2>1, <2>2 DEF BookOK, Ages, Apart
<1>10. CASE Serve
  BY <1>10 DEF Serve, BookOK, Ages, Apart
<1>11. CASE PoolSends
  BY <1>0, <1>11, LineArrives
<1>12. ASSUME NEW t \in JobTimeouts, SaveTimeout(t) PROVE BookOK'
  BY <1>12, BookStays DEF SaveTimeout
<1>13. CASE Tick
  BY <1>13, RequestsAge
<1>14. CASE UNCHANGED vars
  BY <1>14, BookStays DEF vars
<1> QED
  BY <1>1, <1>2, <1>3, <1>4, <1>5, <1>6, <1>7, <1>8, <1>9, <1>10, <1>11, <1>12, <1>13, <1>14
  DEF Next, MinerLoop, PoolLoop, End, CloseOnPurpose, CloseAfterLoop

LEMMA BookAtFirst == ASSUME Init PROVE BookOK
<1>1. /\ asked = {} /\ wire = <<>> /\ auths = << >> /\ submits = << >> /\ forgotten = {} /\ miner.at = "none"
      /\ DOMAIN << >> = {} /\ Len(<<>>) = 0
  BY DEF Init
<1>2. Ages(<< >>)
  BY <1>1 DEF Ages
<1>3. OnePlace /\ AllNoted /\ AllOpen /\ Unused
  BY <1>1 DEF OnePlace, AllNoted, AllOpen, Unused, Known, InAsked, InWire, InMiner, WriteReq
<1> QED BY <1>1, <1>2, <1>3 DEF BookOK, Apart

(* Every answer is taken for what it answers, with ids used again, late answers
   and any number of lines ahead; only a request that was dropped as too old, or
   that came while as many of its kind as are remembered had no answer, is not
   known any more, and its answer counts as nothing (fromMiner, fromPool,
   sweepLocked). *)
THEOREM AnswersAreCounted == Spec => AnswersCount
<1> DEFINE Taken(line) ==
               \/ line.id \in forgotten /\ submits' = submits /\ pool'.then # "rejected"
               \/ line.to = "submit" /\ line.id \in DOMAIN submits \ DOMAIN submits'
               \/ line.to = "auth" /\ submits' = submits /\ (pool'.then = "rejected" <=> ~line.ok)
           A == Read /\ Answers(Head(wire)) => Taken(Head(wire))
<1>1. ASSUME IInv, BookOK, [Next]_vars PROVE [A]_vars
  <2> SUFFICES ASSUME Next, Read, Answers(Head(wire)) PROVE Taken(Head(wire))
    BY <1>1
  <2>0. Typed /\ Started
    BY <1>1 DEF IInv
  <2>1. PoolRead
    <3>1. \A x : wire' = Append(wire, x) => Len(wire') >= Len(wire)
      BY <2>0 DEF Typed
    <3>2. Len(wire) \in Nat /\ Len(wire') \in Nat
      BY <1>1, TypedKept, <2>0 DEF Typed
    <3>3. ~PoolSends
      BY <1>1, <2>0, <3>1, <3>2, LineSent DEF Read
    <3>4. \A reason \in {"purpose", "ended"} : ~Close(reason)
      BY DEF Read, Close
    <3>5. wire' # wire
      BY <3>2 DEF Read
    <3> QED BY <3>3, <3>4, <3>5
      DEF Next, MinerLoop, PoolLoop, End, Arrive, Accept, Refuse, GiveUp, Picked, FirstMessage, MinerRead,
          Relay, MinerWrite, MinerEnds, PoolCheck, PoolDeadline, PoolReadEnds, PoolWritten,
          PoolWriteFails, Report, OnFailure, CloseOnPurpose, CloseAfterLoop, Serve, Return,
          GiveBack, SaveTimeout, RefreshDeadlines, Tick, Others, peers
  <2> DEFINE line == Head(wire)
  <2>2. line = wire[1] /\ 1 \in 1 .. Len(wire) /\ line \in Lines /\ closed = "no"
    BY <2>0, <2>1 DEF PoolRead, Typed
  <2>3. line.id \in Ids /\ line.to \in {"auth", "submit"} /\ line.ok \in BOOLEAN
    BY <2>2 DEF Lines, Line, Answers
  <2>4. Noted(line.to, line.id) /\ Apart
    BY <1>1, <2>2 DEF BookOK, AllNoted
  <2>5. Answer(line)
    BY <2>1 DEF PoolRead
  <2>6. /\ pool'.then = IF OfAuth(line) /\ ~line.ok THEN "rejected" ELSE "none"
    BY <2>1 DEF PoolRead, To, Answers
  <2>7. OfAuth(line) <=> line.id \in DOMAIN auths /\ line.id \notin DOMAIN submits
    BY DEF OfAuth
  <2> HIDE DEF line
  <2>8. CASE line.id \in forgotten
    <3>1. line.id \notin DOMAIN auths \cup DOMAIN submits
      BY <2>4, <2>8 DEF Apart
    <3>2. submits' = submits
      BY <1>1, <2>3, <2>5, <3>1, AnswerIs
    <3>3. pool'.then # "rejected"
      BY <2>6, <2>7, <3>1
    <3> QED BY <2>8, <3>2, <3>3 DEF line
  <2>9. CASE line.id \notin forgotten /\ line.to = "submit"
    <3>1. line.id \in DOMAIN submits \ DOMAIN submits'
      BY <1>1, <2>3, <2>4, <2>5, <2>9, AnswerIs DEF Noted
    <3> QED BY <2>9, <3>1 DEF line
  <2>10. CASE line.id \notin forgotten /\ line.to = "auth"
    <3>1. line.id \in DOMAIN auths /\ line.id \notin DOMAIN submits
      BY <2>4, <2>10 DEF Noted, Apart
    <3>2. submits' = submits
      BY <1>1, <2>3, <2>5, <3>1, AnswerIs
    <3>3. pool'.then = "rejected" <=> ~line.ok
      BY <2>6, <2>7, <3>1
    <3> QED BY <2>10, <3>2, <3>3 DEF line
  <2> QED BY <2>3, <2>8, <2>9, <2>10
<1>2. Init => IInv /\ BookOK
  BY InitHolds, BookAtFirst
<1>3. IInv /\ BookOK /\ [Next]_vars => (IInv /\ BookOK)'
  BY StepKeeps, BookKept
<1>4. Spec => [][A]_vars
  BY <1>1, <1>2, <1>3, PTL DEF Spec
<1> QED BY <1>4 DEF AnswersCount

================================================================================
