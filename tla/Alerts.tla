---------------------------------- MODULE Alerts -------------------------------
(***************************************************************************)
(* The way of an alert from the monitor to the chats: Bot.Notify queues    *)
(* it, sendLoop gives it to the notifier, the notifier decides what goes   *)
(* out and when (internal/telegram/notifier.go), and broadcast sends it to *)
(* every chat at once (internal/telegram/telegram.go).  The queue and the  *)
(* notifier live in memory; a restart forgets them, the chats remember.    *)
(***************************************************************************)
EXTENDS Monitor, SequencesExt

CONSTANTS
    Chats,
    QueueMax,    \* the capacity of Bot.alerts
    Batch, Gap,  \* batchDelay, minGap
    FlapChanges, FlapHold, FlapWindow,
    MaxBusy      \* bound on the ticks one broadcast takes

ASSUME FlapAssumption ==
    /\ Batch \in Nat /\ Gap \in Nat /\ FlapHold \in Nat /\ FlapWindow \in Nat
    /\ Batch <= Gap /\ Gap <= FlapHold /\ FlapHold < FlapWindow
    /\ FlapChanges \in 1 .. 2   \* said keeps the last two messages

VARIABLES
    chats,     \* telegram_chats; empty too while no token is set
    queue,     \* Bot.alerts: changes by ASIC
    pending,   \* notifier.pending
    reported,  \* notifier.reported: state and the times within flapWindow
    firstDue,  \* age of notifier.firstDue, or NoTime
    lastSent,  \* age of notifier.lastSent
    message,   \* the changes that are being sent, if any, to whom, since when
    told,      \* what each chat was last told about an ASIC
    lost,      \* history: what a chat may not know, and why it is no surprise
    said       \* history: ages of the last messages about an ASIC

notifier == <<pending, reported, firstDue, lastSent>>
history == <<told, lost, said>>
vars == <<monitorVars, chats, queue, notifier, message, history>>

NoTime == -1
NoMessage == [due |-> << >>, to |-> {}, age |-> 0]
Idle == message = NoMessage
Without(f, S) == Restrict(f, DOMAIN f \ S)
Over(f, g) == [w \in DOMAIN f \cup DOMAIN g |-> IF w \in DOMAIN f THEN f[w] ELSE g[w]]

Now(w) == IF w \in DOMAIN worker /\ worker[w].off THEN "off" ELSE "on"
InQueue(w) == \E i \in DOMAIN queue : w \in DOMAIN queue[i]

-----------------------------------------------------------------------------

(* Notify never waits: an alert is dropped when the queue is full.  A worker
   that is watched anew after it was forgotten comes back without a change. *)
Notify(changes) ==
    LET room == Len(queue) < QueueMax
        dropped == IF room THEN {} ELSE DOMAIN changes
        again == {w \in DOMAIN worker' \ DOMAIN worker :
                     w \in DOMAIN pending \/ InQueue(w) \/ \E c \in Chats : told[c][w] = "off"}
    IN /\ queue' = IF DOMAIN changes # {} /\ room THEN Append(queue, changes) ELSE queue
       /\ lost' = lost \cup (Chats \X (dropped \cup again))

CheckAndNotify ==
    \E add \in Admissions, r \in Estimates, written \in {TRUE, ~DiskFails} :
        /\ Check(add, r, written)
        /\ Notify(Changes(add, r))
        /\ UNCHANGED <<chats, notifier, message, told, said>>

-----------------------------------------------------------------------------
(* The notifier.  recent is applied as the time passes: it drops what comes
   before the first time within flapWindow. *)

Recent(ages) ==
    LET within == {i \in DOMAIN ages : ages[i] < FlapWindow}
    IN IF within = {} THEN << >> ELSE SubSeq(ages, Min(within), Len(ages))

(* Back to what the chat already knows. *)
Known(p, w) == w \in DOMAIN reported /\ reported[w].state = p[w]

Held(w) ==
    /\ w \in DOMAIN reported
    /\ Len(reported[w].times) >= FlapChanges
    /\ Last(reported[w].times) < FlapHold

(* Nothing to remember: online, and quiet for flapWindow.  Mutant: whether
   it has been quiet is not looked at. *)
ForgettableOnline(w, p) == w \notin DOMAIN p /\ reported[w].state = "on"
Forgettable(w, p) ==
    /\ w \notin DOMAIN p
    /\ reported[w].state = "on"
    /\ reported[w].times = << >>

(* sent: due went out, or there was nobody to send it to.  Mutant: the state
   that went out is not remembered for an ASIC that was reported before. *)
SentKeeps(due, p, r, age) ==
    /\ reported' = [w \in DOMAIN r \cup DOMAIN due |->
                       IF w \notin DOMAIN due THEN r[w]
                       ELSE IF w \in DOMAIN r
                       THEN [r[w] EXCEPT !.times = Append(@, age)]
                       ELSE [state |-> due[w], times |-> <<age>>]]
    /\ pending' = Without(p, DOMAIN due)
    /\ lastSent' = age
    /\ firstDue' = NoTime
    /\ said' = [w \in ASICs |->
                   IF w \in DOMAIN due THEN <<said[w][2], age>> ELSE said[w]]
Sent(due, p, r, age) ==
    /\ reported' = [w \in DOMAIN r \cup DOMAIN due |->
                       IF w \notin DOMAIN due THEN r[w]
                       ELSE [state |-> due[w],
                             times |-> Append(IF w \in DOMAIN r THEN r[w].times ELSE << >>, age)]]
    /\ pending' = Without(p, DOMAIN due)
    /\ lastSent' = age
    /\ firstDue' = NoTime
    /\ said' = [w \in ASICs |->
                   IF w \in DOMAIN due THEN <<said[w][2], age>> ELSE said[w]]

(* failed: no chat got it; it is tried again after minGap.  Mutant: the
   changes are given up. *)
FailedGivesUp(due, age) ==
    /\ lastSent' = age
    /\ pending' = Without(pending, DOMAIN due)
    /\ UNCHANGED <<reported, firstDue, said>>
Failed(due, age) ==
    /\ lastSent' = age
    /\ UNCHANGED <<pending, reported, firstDue, said>>

(* take, with the changes and the firstDue the notifier has now, and what
   sendLoop does with the answer. *)
Take(p, first) ==
    LET rest == Without(p, {w \in DOMAIN p : Known(p, w)})
        due == Without(rest, {w \in DOMAIN rest : Held(w)})
        kept == Without(reported, {w \in DOMAIN reported : Forgettable(w, rest)})
        since == IF due = << >> THEN NoTime ELSE IF first = NoTime THEN 0 ELSE first
        go == due # << >> /\ since >= Batch /\ lastSent >= Gap
    IN IF go /\ chats = {}
       THEN /\ Sent(due, rest, kept, 0)
            /\ lost' = lost \cup (Chats \X DOMAIN due)
            /\ UNCHANGED message
       ELSE /\ pending' = rest
            /\ reported' = kept
            /\ firstDue' = since
            /\ message' = IF go THEN [due |-> due, to |-> chats, age |-> 0] ELSE message
            /\ UNCHANGED <<lastSent, lost, said>>

Receive ==
    /\ Idle
    /\ queue # << >>
    /\ queue' = Tail(queue)
    /\ Take(Over(Head(queue), pending), IF firstDue = NoTime THEN 0 ELSE firstDue)
    /\ UNCHANGED <<monitorVars, chats, told>>

Look ==
    /\ Idle
    /\ Take(pending, firstDue)
    /\ UNCHANGED <<monitorVars, chats, queue, told>>

-----------------------------------------------------------------------------
(* broadcast: to every chat on its own.  A message may arrive although the
   answer to the request is lost. *)

Arrive(arrived) ==
    told' = [c \in Chats |-> IF c \in arrived THEN Over(message.due, told[c]) ELSE told[c]]

(* A chat is up to date again when what arrived is how it is. *)
Informed(arrived) ==
    arrived \X {w \in DOMAIN message.due : message.due[w] = Now(w) /\ ~InQueue(w)}

(* At least one chat got it. *)
Deliver ==
    \E arrived \in SUBSET message.to \ {{}} :
        /\ Arrive(arrived)
        /\ Sent(message.due, pending, reported, message.age)
        /\ lost' = (lost \ Informed(arrived))
                       \cup ((Chats \ arrived) \X DOMAIN message.due)
        /\ message' = NoMessage
        /\ UNCHANGED <<monitorVars, chats, queue>>

Fail ==
    \E arrived \in SUBSET message.to :
        /\ ~Idle
        /\ Arrive(arrived)
        /\ Failed(message.due, message.age)
        /\ lost' = lost \cup (arrived \X DOMAIN message.due)
        /\ message' = NoMessage
        /\ UNCHANGED <<monitorVars, chats, queue>>

-----------------------------------------------------------------------------

(* telegram_chats or the token is changed. *)
SetChats ==
    /\ chats' \in SUBSET Chats \ {chats}
    /\ UNCHANGED <<monitorVars, queue, notifier, message, history>>

(* A restart; a message on its way may arrive. *)
StartOver ==
    /\ Stop \/ Crash
    /\ \E arrived \in SUBSET message.to : Arrive(arrived)
    /\ queue' = << >>
    /\ pending' = << >>
    /\ reported' = << >>
    /\ firstDue' = NoTime
    /\ lastSent' = Gap
    /\ message' = NoMessage
    /\ lost' = {x \in Chats \X ASICs :
                   \/ told'[x[1]][x[2]] # Now(x[2])'
                   \/ x[2] \notin DOMAIN worker' /\ (x[2] \in DOMAIN pending \/ InQueue(x[2]))}
    /\ said' = [w \in ASICs |-> <<FlapWindow, FlapWindow>>]
    /\ UNCHANGED chats

ASICStep ==
    /\ SetOfflineAfter \/ \E w \in ASICs : Connect(w) \/ Share(w) \/ Disconnect(w)
    /\ UNCHANGED <<chats, queue, notifier, message, history>>

Tick ==
    /\ MonitorTick
    /\ Idle \/ message.age < MaxBusy
    /\ message' = IF Idle THEN message ELSE [message EXCEPT !.age = @ + 1]
    /\ reported' = [w \in DOMAIN reported |->
                       [reported[w] EXCEPT !.times = Recent([i \in DOMAIN @ |-> @[i] + 1])]]
    /\ firstDue' = IF firstDue = NoTime THEN NoTime ELSE Up(firstDue, Batch)
    /\ lastSent' = Up(lastSent, Gap)
    /\ said' = [w \in ASICs |-> <<Up(said[w][1], FlapWindow), Up(said[w][2], FlapWindow)>>]
    /\ UNCHANGED <<chats, queue, pending, told, lost>>

Init ==
    /\ MonitorInit
    /\ chats = Chats
    /\ queue = << >>
    /\ pending = << >>
    /\ reported = << >>
    /\ firstDue = NoTime
    /\ lastSent = Gap
    /\ message = NoMessage
    /\ told = [c \in Chats |-> [w \in ASICs |-> "on"]]
    /\ lost = {}
    /\ said = [w \in ASICs |-> <<FlapWindow, FlapWindow>>]

Next ==
    \/ ASICStep \/ CheckAndNotify \/ Receive \/ Look \/ Deliver \/ Fail
    \/ SetChats \/ StartOver \/ Tick

Spec == Init /\ [][Next]_vars

(* Both loops run on, and a chat does not stay out of reach for ever. *)
FairSpec ==
    /\ Spec
    /\ WF_vars(CheckAndNotify) /\ WF_vars(Tick)
    /\ SF_vars(Receive \/ Look)
    /\ SF_vars(Deliver)

-----------------------------------------------------------------------------

(* Whatever order checks, messages, failures and restarts come in, a chat has
   been told how an ASIC is, or the notifier is about to tell it, unless a
   message was lost on a way the code accepts: a full queue (Notify), nobody
   to send it to, or a chat that did not get what another one did (sendLoop),
   a restart before the message, an ASIC that was forgotten. *)
ChatKnows ==
    queue = << >> =>
        \A c \in Chats, w \in DOMAIN worker :
            \/ <<c, w>> \in lost
            \/ Now(w) = IF w \in DOMAIN pending THEN pending[w] ELSE told[c][w]

(* A flapping ASIC is not reported more often than flapHold, over restarted
   countings, failures and forgotten records (notifier.take, notifier.sent):
   after two messages about it within flapWindow the next one waits. *)
FlapLimited ==
    [][\A w \in ASICs :
          Idle /\ w \in DOMAIN message'.due =>
              said[w][1] >= FlapWindow \/ said[w][2] >= FlapHold]_vars

(* An outage reaches the chats while the ASIC is offline, however many
   attempts fail (failed) and whatever else is reported meanwhile. *)
OutageTold ==
    \A c \in Chats, w \in ASICs :
        (w \in DOMAIN worker /\ worker[w].off) ~>
            \/ told[c][w] = "off"
            \/ w \in DOMAIN worker /\ ~worker[w].off
            \/ <<c, w>> \in lost

================================================================================
