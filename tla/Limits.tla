--------------------------------- MODULE Limits --------------------------------
(***************************************************************************)
(* The connection limits shared by the TCP and the TLS listener            *)
(* (internal/listener/listener.go): in total, before the first message and *)
(* per address.  A connection takes a slot of each kind when it is         *)
(* accepted, gives the second back with its first message and the others   *)
(* when its session has returned.  acquire reads the settings and then     *)
(* takes the lock, so that they may change in between; firstDone and       *)
(* release count down with atomics, and only the last step of release      *)
(* takes the lock.                                                         *)
(***************************************************************************)
EXTENDS Integers, FiniteSets

CONSTANTS
    Conns,    \* connections; none is used twice
    IPs,
    IPOf,     \* the address a connection comes from
    Settings  \* the values max_connections, max_pending and per address may take

Parameters ==
    /\ IsFiniteSet(Conns)
    /\ IPOf \in [Conns -> IPs]
    /\ Settings \subseteq [all : Nat, pending : Nat, perIP : Nat]

VARIABLES
    limits,   \* the settings in force; perIP = 0 is no limit
    cfg,      \* the settings that acquire has read for a connection
    conn,     \* how far each connection is
    total,    \* Limits.total
    pending,  \* Limits.pending
    perIP     \* Limits.perIP; a missing entry is 0

counters == <<total, pending, perIP>>
vars == <<limits, cfg, conn, counters>>

At(phases) == {c \in Conns : conn[c] \in phases}
From(ip, phases) == {c \in At(phases) : IPOf[c] = ip}

-----------------------------------------------------------------------------

NoCfg == [all |-> 0, pending |-> 0, perIP |-> 0]

(* acquire reads the settings ... *)
Arrive(c) ==
    /\ conn[c] = "none"
    /\ conn' = [conn EXCEPT ![c] = "asking"]
    /\ cfg' = [cfg EXCEPT ![c] = limits]
    /\ UNCHANGED <<limits, counters>>

(* ... and compares with them under the lock. *)
Fits(c) ==
    /\ total < cfg[c].all
    /\ pending < cfg[c].pending
    /\ cfg[c].perIP = 0 \/ perIP[IPOf[c]] < cfg[c].perIP

Answered(c, phase) ==
    /\ conn[c] = "asking"
    /\ conn' = [conn EXCEPT ![c] = phase]
    /\ cfg' = [cfg EXCEPT ![c] = NoCfg]

Admit(c) ==
    /\ Answered(c, "pending")
    /\ Fits(c)
    /\ total' = total + 1
    /\ pending' = pending + 1
    /\ perIP' = [perIP EXCEPT ![IPOf[c]] = @ + 1]
    /\ UNCHANGED limits

Reject(c) ==
    /\ Answered(c, "gone")
    /\ ~Fits(c)
    /\ UNCHANGED <<limits, counters>>

(* firstDone: once, whether the first message, the end of Serve or release
   calls it first.  Mutant: without the Once. *)
FirstDoneAgain(c) ==
    pending' = pending - 1
FirstDone(c) ==
    pending' = IF conn[c] = "pending" THEN pending - 1 ELSE pending

FirstMessage(c) ==
    /\ conn[c] = "pending"
    /\ FirstDone(c)
    /\ conn' = [conn EXCEPT ![c] = "served"]
    /\ UNCHANGED <<limits, cfg, total, perIP>>

(* Serve has returned: its own deferred firstDone and the one of release. *)
Return(c) ==
    /\ conn[c] \in {"pending", "served"}
    /\ FirstDone(c)
    /\ conn' = [conn EXCEPT ![c] = "returned"]
    /\ UNCHANGED <<limits, cfg, total, perIP>>

LeaveTotal(c) ==
    /\ conn[c] = "returned"
    /\ total' = total - 1
    /\ conn' = [conn EXCEPT ![c] = "uncounted"]
    /\ UNCHANGED <<limits, cfg, pending, perIP>>

LeaveIP(c) ==
    /\ conn[c] = "uncounted"
    /\ perIP' = [perIP EXCEPT ![IPOf[c]] = @ - 1]
    /\ conn' = [conn EXCEPT ![c] = "gone"]
    /\ UNCHANGED <<limits, cfg, total, pending>>

Release(c) == LeaveTotal(c) \/ LeaveIP(c)

(* The operator saves other limits; connections that are over them stay. *)
SetLimits ==
    /\ limits' \in Settings
    /\ UNCHANGED <<cfg, conn, counters>>

-----------------------------------------------------------------------------

Init ==
    /\ limits \in Settings
    /\ cfg = [c \in Conns |-> NoCfg]
    /\ conn = [c \in Conns |-> "none"]
    /\ total = 0
    /\ pending = 0
    /\ perIP = [ip \in IPs |-> 0]

Step(c) ==
    \/ Arrive(c) \/ Admit(c) \/ Reject(c)
    \/ FirstMessage(c) \/ Return(c) \/ Release(c)

Next == SetLimits \/ \E c \in Conns : Step(c)

Spec == Init /\ [][Next]_vars

-----------------------------------------------------------------------------

Phases == {"none", "asking", "pending", "served", "returned", "uncounted", "gone"}

TypeOK ==
    /\ limits \in Settings
    /\ cfg \in [Conns -> Settings \cup {NoCfg}]
    /\ conn \in [Conns -> Phases]
    /\ total \in Int
    /\ pending \in Int
    /\ perIP \in [IPs -> Int]

(* No slot is lost or given back twice, whichever way and in whichever order
   connections end (acquire, firstDone and release): each counter is the
   number of connections that hold such a slot. *)
SlotsExact ==
    /\ total = Cardinality(At({"pending", "served", "returned"}))
    /\ pending = Cardinality(At({"pending"}))
    /\ \A ip \in IPs :
          perIP[ip] = Cardinality(From(ip, {"pending", "served", "returned", "uncounted"}))

(* A connection is only let in (acquire) while fewer are being served, in
   total, before their first message and from its address, than the limits
   that were in force when it came.  A limit lowered after acquire has read
   the settings does not count for it. *)
NeverOver ==
    [][\A c \in Conns : conn[c] # "pending" /\ conn'[c] = "pending" =>
          /\ Cardinality(At({"pending", "served"})) < cfg[c].all
          /\ Cardinality(At({"pending"})) < cfg[c].pending
          /\ cfg[c].perIP > 0 =>
                Cardinality(From(IPOf[c], {"pending", "served"})) < cfg[c].perIP]_vars
================================================================================
