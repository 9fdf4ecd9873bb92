-------------------------------- MODULE Session --------------------------------
(***************************************************************************)
(* The life of one miner connection (internal/session/session.go): from    *)
(* the first message to the relay between the miner and a pool, with its   *)
(* two goroutines, the requests that wait for an answer, the deadlines of  *)
(* both directions and the report of a failing pool.  The other            *)
(* connections matter for the limits only; they are those of Limits.       *)
(*                                                                         *)
(* Time is counted in ticks of writeTimeout; ages stop at Cap.  A tick     *)
(* passes only while no goroutine has anything to do except to wait for a  *)
(* slow peer: the program is fast compared with its timeouts.              *)
(***************************************************************************)
EXTENDS Integers, Sequences, FiniteSets

CONSTANTS
    Conns, IPs, IPOf, Settings, \* of Limits
    me,            \* the connection that is followed
    Ids,           \* ids of requests
    JobTimeouts,   \* values of upstream_job_timeout
    IdleTimeout,   \* upstream_idle_timeout
    PendingMax,    \* pendingMaxAge
    MaxAuth,       \* maxPendingAuth
    MaxSubmits,    \* maxPendingIDs
    Cap,           \* more than every timeout
    MaxWire        \* bound on the lines a pool sends ahead

ASSUME MeAssumption == me \in Conns
ASSUME TimeoutsAssumption == \A t \in JobTimeouts : t \in 1 .. IdleTimeout
ASSUME CapAssumption == Cap \in Nat /\ IdleTimeout \in 1 .. Cap - 1
(* A line is not longer than max_line_bytes: the ids are finitely many. *)
ASSUME RequestsAssumption == "none" \notin Ids /\ IsFiniteSet(Ids)
ASSUME ListsAssumption == PendingMax \in Nat /\ MaxAuth \in Nat /\ MaxSubmits \in Nat

VARIABLES
    limits, cfg, conn, total, pending, perIP, \* of Limits
    phase,        \* how far Serve is
    closed,       \* "no", or why: Session.closeReason
    miner,        \* the goroutine miner -> pool: where it is, with what request
    pool,         \* the goroutine pool -> miner: where it is, what is to follow
    asked,        \* requests that reached the pool and have no answer yet
    wire,         \* lines of the pool not read yet
    auths,        \* Session.pendingAuth: age by id
    submits,      \* Session.pendingSubmit: age by id
    authorized,   \* authorizedAt is set
    since,        \* age of lastPoolActivity, once authorized of jobBaseLocked
    poolDue,      \* what is left of the read deadline of the pool connection
    jobTimeout,   \* the setting in force
    refreshing,   \* a change of the setting not yet applied to open sessions
    reported,     \* what OnFailure was called with
    forgotten,    \* history: ids whose request is not on the lists for a good reason
    quiet,        \* history: ticks since the pool sent a job or authorized
    slow          \* history: a write to the miner took time since the last job

L == INSTANCE Limits

ASSUME LimitsAssumption == L!Parameters

slots == <<limits, cfg, conn, total, pending, perIP>>
peers == <<asked, wire>>
requests == <<auths, submits, forgotten>>
times == <<authorized, since, poolDue, quiet, slow>>
settings == <<jobTimeout, refreshing>>
vars == <<slots, phase, closed, peers, miner, pool, requests, times, settings, reported>>

NoRequest == [kind |-> "none", id |-> "none"]
Requests == [kind : {"auth", "submit"}, id : Ids] \cup {NoRequest}
Working == phase = "relay" /\ closed = "no"

Keep(f, ids) == [i \in DOMAIN f \cap ids |-> f[i]]
Older(n) == IF n < Cap THEN n + 1 ELSE Cap
(* A deadline that has passed is due at once. *)
Left(timeout, age) == IF age < timeout THEN timeout - age ELSE 0

-----------------------------------------------------------------------------
(* Serve, up to the relay. *)

Arrive ==
    /\ L!Arrive(me)
    /\ UNCHANGED <<phase, closed, peers, miner, pool, requests, times, settings, reported>>

Accept ==
    /\ L!Admit(me)
    /\ phase = "none"
    /\ phase' = "first"
    /\ UNCHANGED <<closed, peers, miner, pool, requests, times, settings, reported>>

Refuse ==
    /\ L!Reject(me)
    /\ phase' = "done"
    /\ UNCHANGED <<closed, peers, miner, pool, requests, times, settings, reported>>

(* The handshake and the first message are in time and valid. *)
FirstMessage(r) ==
    /\ phase = "first"
    /\ L!FirstMessage(me)
    /\ phase' = "dial"
    /\ miner' = [at |-> "first", req |-> r]
    /\ UNCHANGED <<closed, peers, pool, requests, times, settings, reported>>

(* No first message in time, not a valid one, or no pool: Serve returns. *)
GiveUp ==
    /\ phase \in {"first", "dial"}
    /\ phase' = "returned"
    /\ UNCHANGED <<slots, closed, peers, miner, pool, requests, times, settings, reported>>

(* A pool has answered the dial: the session is registered. *)
Picked ==
    /\ phase = "dial"
    /\ phase' = "added"
    /\ since' = 0
    /\ poolDue' = Cap \* no deadline
    /\ UNCHANGED <<slots, closed, asked, wire, miner, pool, requests,
                   authorized, quiet, slow, settings, reported>>

-----------------------------------------------------------------------------
(* Requests of the miner. *)

(* sweepLocked.  It runs at most every ten seconds, less than a tick. *)
Fresh(f) == {i \in DOMAIN f : f[i] <= PendingMax}
Old(f) == {i \in DOMAIN f : f[i] > PendingMax}

(* Both lists are bounded; a request that finds its list full is passed on
   like the others, but not recorded. *)
Recorded(r) ==
    \/ r.kind = "auth" /\ (r.id \in Fresh(auths) \/ Cardinality(Fresh(auths)) < MaxAuth)
    \/ r.kind = "submit" /\ Cardinality(Fresh(submits)) < MaxSubmits

Swept(f, new) == [i \in Fresh(f) \cup new |-> IF i \in new THEN 0 ELSE f[i]]
New(r, kind) == IF r.kind = kind /\ Recorded(r) THEN {r.id} ELSE {}

(* History: the requests that have no answer, and whether as many of the kind
   of r as its list takes are among them. *)
Open(kind) ==
    {id \in Ids : \/ \E q \in asked : q.kind = kind /\ q.id = id
                  \/ \E k \in 1 .. Len(wire) : wire[k].to = kind /\ wire[k].id = id}
Beyond(r) == Cardinality(Open(r.kind)) >= (IF r.kind = "auth" THEN MaxAuth ELSE MaxSubmits)

(* fromMiner: authorize and submit sweep, record the request and rewrite the
   login. *)
FromMiner(r) ==
    IF r = NoRequest
    THEN UNCHANGED <<auths, submits, forgotten>>
    ELSE /\ auths' = Swept(auths, New(r, "auth"))
         /\ submits' = Swept(submits, New(r, "submit"))
         /\ forgotten' = forgotten \cup Old(auths) \cup Old(submits)
                            \cup (IF Beyond(r) /\ ~Recorded(r) THEN {r.id} ELSE {})

(* relay begins with the first message; a shutdown may have begun. *)
Relay ==
    /\ phase = "added"
    /\ phase' = "relay"
    /\ IF closed = "no"
       THEN /\ FromMiner(miner.req)
            /\ miner' = [miner EXCEPT !.at = "write"]
            /\ UNCHANGED pool
       ELSE /\ miner' = [at |-> "end", req |-> NoRequest]
            /\ pool' = [at |-> "end", then |-> "none"]
            /\ UNCHANGED <<auths, submits, forgotten>>
    /\ UNCHANGED <<slots, closed, peers, times, settings, reported>>

(* The request arrives at the pool.  After the first message both loops
   start. *)
MinerWrite ==
    /\ miner.at = "write" /\ closed = "no"
    /\ asked' = asked \cup ({miner.req} \ {NoRequest})
    /\ miner' = [at |-> "read", req |-> NoRequest]
    /\ pool' = IF pool.at = "none" THEN [at |-> "check", then |-> "none"] ELSE pool
    /\ UNCHANGED <<slots, phase, closed, wire, requests, authorized,
                   since, poolDue, quiet, slow, settings, reported>>

(* The miner sends a request; it uses an id again only once the last request
   with it has been answered.  Other messages are passed on and change
   nothing. *)
MinerRead(r) ==
    /\ miner.at = "read" /\ closed = "no" /\ r # NoRequest
    /\ \A a \in asked : a.id # r.id
    /\ \A k \in 1 .. Len(wire) : wire[k].id # r.id
    /\ FromMiner(r)
    /\ miner' = [at |-> "write", req |-> r]
    /\ UNCHANGED <<slots, phase, closed, peers, pool, authorized, since,
                   poolDue, quiet, slow, settings, reported>>

(* The loop ends: hang-up, silence for miner_idle_timeout, an invalid line, a
   failed write, or the session or (by the shutdown) the raw connection was
   closed.  If the first write fails the other loop never starts. *)
MinerEnds ==
    /\ miner.at \in {"read", "write"}
    /\ miner' = [at |-> "end", req |-> NoRequest]
    /\ pool' = IF pool.at = "none" THEN [at |-> "end", then |-> "none"] ELSE pool
    /\ UNCHANGED <<slots, phase, closed, peers, requests, times, settings, reported>>

-----------------------------------------------------------------------------
(* Lines of the pool. *)

To(at, then) == pool' = [at |-> at, then |-> then]

(* Mutant: the job timeout does not wait for the authorization. *)
JobTimedOutEarly == since >= jobTimeout
JobTimedOut == authorized /\ since >= jobTimeout

(* poolDeadlineLocked, as what is left of it. *)
Deadline(timeout) ==
    Left(IF authorized THEN timeout ELSE IdleTimeout, since)

(* The loop begins with a look at the time without a job; if that is all
   right, it sets the deadline and reads.  Each takes the lock and looks at
   the setting; a change in between is applied by the refresh. *)
PoolCheck ==
    /\ pool.at = "check"
    /\ IF JobTimedOut
       THEN To("report", "stalled") /\ UNCHANGED poolDue
       ELSE To("read", pool.then) /\ poolDue' = Deadline(jobTimeout)
    /\ UNCHANGED <<slots, phase, closed, peers, miner, requests, authorized, since, quiet, slow,
                   settings, reported>>

(* fromPool for an answer: a submit with this id comes first, and is counted
   as a share when it is taken off the list.  Mutant: an answered submit
   stays on the list. *)
AnswerKeeps(line) ==
    /\ auths' = IF line.id \in DOMAIN submits THEN auths ELSE Keep(auths, Ids \ {line.id})
    /\ UNCHANGED submits
Answer(line) ==
    /\ submits' = Keep(submits, Ids \ {line.id})
    /\ auths' = IF line.id \in DOMAIN submits THEN auths ELSE Keep(auths, Ids \ {line.id})

Answers(line) == line.kind = "answer"
OfAuth(line) == Answers(line) /\ line.id \in DOMAIN auths /\ line.id \notin DOMAIN submits

(* One line: markPoolActivity and fromPool.  client.reconnect ends the loop;
   everything else is passed on, a rejected authorization too. *)
PoolRead ==
    /\ pool.at = "read" /\ closed = "no" /\ wire # <<>> /\ pool.then # "broken"
    /\ wire' = Tail(wire)
    /\ LET line == Head(wire) IN
       /\ IF Answers(line) THEN Answer(line) ELSE UNCHANGED <<auths, submits>>
       /\ forgotten' = forgotten \ {line.id}
       /\ authorized' = (authorized \/ (OfAuth(line) /\ line.ok))
       /\ since' = IF authorized => line.kind = "job" THEN 0 ELSE since
       /\ slow' = (slow /\ line.kind # "job")
       /\ quiet' = IF authorized' /\ ~authorized THEN 0 ELSE quiet
       /\ CASE line.kind = "reconnect" -> To("end", "none")
            [] OfAuth(line) /\ ~line.ok -> To("write", "rejected")
            [] OTHER -> To("write", "none")
    /\ UNCHANGED <<slots, phase, closed, asked, miner, poolDue,
                   settings, reported>>

(* The read deadline has passed, or passed before: errors of the reader are
   final.  Under the job timeout the loop begins again and reports. *)
PoolDeadline ==
    /\ pool.at = "read" /\ closed = "no"
    /\ poolDue = 0 \/ pool.then = "broken"
    /\ IF JobTimedOut THEN To("check", "broken") ELSE To("end", "none")
    /\ UNCHANGED <<slots, phase, closed, peers, miner, requests, times, settings, reported>>

(* The pool has hung up and everything is read, or the session was closed. *)
PoolReadEnds ==
    /\ pool.at = "read"
    /\ closed # "no" \/ wire = <<>>
    /\ To("end", "none")
    /\ UNCHANGED <<slots, phase, closed, peers, miner, requests, times, settings, reported>>

(* writeLine to the miner, which may be slow or gone; a rejection is reported
   even if it does not get there. *)
PoolWritten ==
    /\ pool.at \in {"write", "stuck"} /\ closed = "no"
    /\ IF pool.then = "rejected" THEN To("report", "rejected") ELSE To("check", "none")
    /\ UNCHANGED <<slots, phase, closed, peers, miner, requests, times, settings, reported>>

PoolWriteFails ==
    /\ pool.at \in {"write", "stuck"}
    /\ IF pool.then = "rejected" THEN To("report", "rejected") ELSE To("end", "none")
    /\ UNCHANGED <<slots, phase, closed, peers, miner, requests, times, settings, reported>>

(* reportFailure: the look whether the session was closed, then the call. *)
Report ==
    /\ pool.at = "report"
    /\ IF closed = "no" THEN To("call", pool.then) ELSE To("end", "none")
    /\ UNCHANGED <<slots, phase, closed, peers, miner, requests, times, settings, reported>>

OnFailure ==
    /\ pool.at = "call"
    /\ reported' = pool.then
    /\ To("end", "none")
    /\ UNCHANGED <<slots, phase, closed, peers, miner, requests, times, settings>>

-----------------------------------------------------------------------------
(* The end of a session. *)

(* Session.Close; only the first reason counts.  Nobody reads the
   connections and the requests of a closed session any more: they are
   cleared. *)
Close(reason) ==
    /\ phase \in {"added", "relay"} /\ closed = "no"
    /\ closed' = reason
    /\ asked' = {} /\ wire' = <<>>
    /\ auths' = << >> /\ submits' = << >> /\ forgotten' = {}
    /\ poolDue' = Cap /\ quiet' = 0 /\ slow' = FALSE
    /\ UNCHANGED <<slots, phase, miner, pool, authorized, since, settings, reported>>

(* A drain or CloseAll. *)
CloseOnPurpose == Close("purpose")

(* relay closes the session when one of its loops has ended. *)
CloseAfterLoop ==
    /\ miner.at = "end" \/ pool.at = "end"
    /\ Close("ended")

(* relay returns; nothing of the session is left. *)
Serve ==
    /\ phase = "relay" /\ closed # "no" /\ miner.at = "end" /\ pool.at = "end"
    /\ phase' = "returned"
    /\ authorized' = FALSE /\ since' = 0 /\ reported' = "none"
    /\ UNCHANGED <<slots, closed, peers, miner, pool, requests, poolDue, quiet, slow, settings>>

(* Serve returns to the listener, which gives the slots back. *)
Return ==
    /\ phase = "returned"
    /\ L!Return(me)
    /\ phase' = "done"
    /\ UNCHANGED <<closed, peers, miner, pool, requests, times, settings, reported>>

GiveBack ==
    /\ phase = "done"
    /\ L!Release(me)
    /\ UNCHANGED <<phase, closed, peers, miner, pool, requests, times, settings, reported>>

-----------------------------------------------------------------------------
(* The pool, the settings and time. *)

Line(kind) == [kind |-> kind, id |-> "none", ok |-> FALSE, to |-> "none"]

PoolSends ==
    /\ Working /\ Len(wire) < MaxWire
    /\ \/ \E r \in asked, ok \in BOOLEAN :
             /\ wire' = Append(wire, [kind |-> "answer", id |-> r.id, ok |-> ok, to |-> r.kind])
             /\ asked' = asked \ {r}
       \/ \E kind \in {"job", "other", "reconnect"} :
             /\ wire' = Append(wire, Line(kind))
             /\ UNCHANGED asked
    /\ quiet' = IF wire'[Len(wire')].kind = "job" THEN 0 ELSE quiet
    /\ UNCHANGED <<slots, phase, closed, miner, pool, requests, authorized,
                   since, poolDue, slow, settings, reported>>

(* Store.Save publishes the setting, its listener goes over the sessions. *)
SaveTimeout(t) ==
    /\ ~refreshing /\ t # jobTimeout
    /\ jobTimeout' = t
    /\ refreshing' = TRUE
    /\ UNCHANGED <<slots, phase, closed, peers, miner, pool, requests, times, reported>>

(* Mutant: the new timeout counts from the next read on. *)
RefreshNothing ==
    /\ refreshing
    /\ refreshing' = FALSE
    /\ UNCHANGED <<slots, phase, closed, peers, miner, pool, requests, times, jobTimeout, reported>>
(* refreshIdleDeadlines. *)
RefreshDeadlines ==
    /\ refreshing
    /\ refreshing' = FALSE
    /\ poolDue' = IF phase \in {"added", "relay"} /\ closed = "no" THEN Deadline(jobTimeout) ELSE poolDue
    /\ UNCHANGED <<slots, phase, closed, peers, miner, pool, requests, authorized, since,
                   quiet, slow, jobTimeout, reported>>

(* Nothing is to be done before time passes. *)
Waiting ==
    /\ Working /\ ~refreshing
    /\ miner.at = "read"
    /\ \/ pool.at = "read" /\ wire = <<>> /\ poolDue > 0 /\ pool.then # "broken"
       \/ pool.at = "write"

Aged(f) == [i \in DOMAIN f |-> IF f[i] > PendingMax THEN f[i] ELSE f[i] + 1]
Later(due) == IF due > 0 THEN due - 1 ELSE 0

Tick ==
    /\ Waiting
    /\ auths' = Aged(auths) /\ submits' = Aged(submits)
    /\ since' = Older(since)
    /\ quiet' = IF authorized THEN Older(quiet) ELSE 0
    /\ poolDue' = Later(poolDue)
    /\ IF pool.at = "write" THEN slow' = TRUE /\ To("stuck", pool.then) ELSE UNCHANGED <<slow, pool>>
    /\ UNCHANGED <<slots, phase, closed, peers, miner, forgotten, authorized, settings, reported>>

-----------------------------------------------------------------------------

Init ==
    /\ L!Init
    /\ phase = "none" /\ closed = "no"
    /\ miner = [at |-> "none", req |-> NoRequest]
    /\ pool = [at |-> "none", then |-> "none"]
    /\ asked = {} /\ wire = <<>>
    /\ auths = << >> /\ submits = << >>
    /\ authorized = FALSE /\ slow = FALSE /\ quiet = 0 /\ forgotten = {}
    /\ since = 0
    /\ poolDue = Cap
    /\ jobTimeout \in JobTimeouts /\ refreshing = FALSE
    /\ reported = "none"

Others ==
    /\ L!SetLimits \/ \E c \in Conns \ {me} : L!Step(c)
    /\ UNCHANGED <<phase, closed, peers, miner, pool, requests, times, settings, reported>>

MinerLoop == Relay \/ MinerWrite \/ MinerEnds
PoolLoop ==
    \/ PoolCheck \/ PoolRead \/ PoolDeadline \/ PoolReadEnds
    \/ PoolWritten \/ PoolWriteFails \/ Report \/ OnFailure
End == CloseAfterLoop \/ Serve \/ Return \/ GiveBack

Next ==
    \/ Arrive \/ Accept \/ Refuse \/ GiveUp \/ Picked
    \/ \E r \in Requests : FirstMessage(r) \/ MinerRead(r)
    \/ MinerLoop \/ PoolLoop \/ CloseOnPurpose \/ End
    \/ PoolSends
    \/ \E t \in JobTimeouts : SaveTimeout(t)
    \/ RefreshDeadlines \/ Tick \/ Others

Spec == Init /\ [][Next]_vars

-----------------------------------------------------------------------------
(* Properties. *)

TypeOK ==
    /\ phase \in {"none", "first", "dial", "added", "relay", "returned", "done"}
    /\ closed \in {"no", "purpose", "ended"}
    /\ miner \in [at : {"none", "first", "read", "write", "end"}, req : Requests]
    /\ pool \in [at : {"none", "check", "read", "write", "stuck", "report", "call", "end"},
                 then : {"none", "rejected", "stalled", "broken"}]
    /\ asked \subseteq Requests /\ Len(wire) <= MaxWire
    /\ DOMAIN auths \subseteq Ids /\ DOMAIN submits \subseteq Ids
    /\ authorized \in BOOLEAN /\ slow \in BOOLEAN /\ refreshing \in BOOLEAN
    /\ \A age \in {since, quiet, poolDue} : age \in 0 .. Cap
    /\ jobTimeout \in JobTimeouts
    /\ reported \in {"none", "rejected", "stalled"}
    /\ forgotten \subseteq Ids

(* A pool is reported for its silence only if it was silent (jobTimedOut):
   the miner was authorized and since then no job came for the timeout in
   force, but for one that arrives at the deadline or waits unread while a
   write to a slow miner takes time. *)
StallIsReal ==
    [][closed = "no" /\ pool.at = "check" /\ pool' = [at |-> "report", then |-> "stalled"] =>
          /\ authorized
          /\ quiet >= jobTimeout \/ slow \/ \E k \in 1 .. Len(wire) : wire[k].kind = "job"]_vars

(* Every answer is taken for what it answers (fromPool), although ids are
   used again: a share is counted once, an answer to an authorization never
   counts as a share, and a rejected one is reported or finds the session
   closed.  Only a request of more than pendingMaxAge, or one that was sent
   while maxPendingAuth authorizations or maxPendingIDs shares had no answer,
   may be forgotten, and its answer counts as nothing then. *)
Read == Len(wire') < Len(wire) /\ closed' = "no"
AnswersCount ==
    [][Read /\ Answers(Head(wire)) =>
          LET line == Head(wire) IN
          \/ line.id \in forgotten /\ submits' = submits /\ pool'.then # "rejected"
          \/ line.to = "submit" /\ line.id \in DOMAIN submits \ DOMAIN submits'
          \/ line.to = "auth" /\ submits' = submits /\ (pool'.then = "rejected" <=> ~line.ok)]_vars

(* A read of the pool that waits ends when the timeout in force has passed
   since the last line or job, also after the setting was changed
   (refreshIdleDeadlines). *)
DeadlineInForce ==
    pool.at = "read" /\ closed = "no" /\ ~refreshing =>
        poolDue = Left(IF authorized THEN jobTimeout ELSE IdleTimeout, since)

(* The limits, for the followed connection and the others together. *)
SlotsExact == L!SlotsExact
NeverOver == L!NeverOver

================================================================================
