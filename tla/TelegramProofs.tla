----------------------------- MODULE TelegramProofs ----------------------------
(***************************************************************************)
(* Proofs about the Telegram bot: that the chats know how the ASICs are    *)
(* (Alerts), for any ASICs, chats, queue and times, and that its buttons   *)
(* do what was confirmed (Controls), for any users, bots, messages,        *)
(* targets and bounds.                                                     *)
(***************************************************************************)
EXTENDS Alerts, Controls, SequenceTheorems, WellFoundedInduction, TLAPS

-----------------------------------------------------------------------------
(* Alerts. *)

States == {"on", "off"}
News == UNION {[S -> States] : S \in SUBSET ASICs}
Report == [state : States, times : Seq(Nat)]
Reports == UNION {[S -> Report] : S \in SUBSET ASICs}
WorkerRec == [age : Ages, off : BOOLEAN]

(* A worker is never behind the share its session shows but for a share that
   came since the last check. *)
SeenOK ==
    \A w \in DOMAIN worker :
        worker[w].age <= share[w] \/ share[w] <= IF checked THEN 0 ELSE 1

MonitorOK ==
    /\ offlineAfter \in OfflineAfters
    /\ share \in [ASICs -> Ages]
    /\ worker \in Workers /\ disk \in Workers
    /\ checked \in BOOLEAN
    /\ SeenOK

BotOK ==
    /\ chats \in SUBSET Chats
    /\ queue \in Seq(News)
    /\ pending \in News
    /\ reported \in Reports
    /\ message \in [due : News, to : SUBSET Chats, age : Nat]
    /\ told \in [Chats -> [ASICs -> States]]

(* What is being sent is still pending. *)
MessageOK ==
    \A w \in DOMAIN message.due : w \in DOMAIN pending /\ pending[w] = message.due[w]

(* What the notifier takes a chat to know is what the chat was told. *)
ReportedOK ==
    \A c \in Chats, w \in DOMAIN reported :
        <<c, w>> \in lost \/ told[c][w] = reported[w].state

Newest(w, i) ==
    /\ i \in DOMAIN queue /\ w \in DOMAIN queue[i]
    /\ \A j \in DOMAIN queue : j > i => w \notin DOMAIN queue[j]

Up2date(c, w) ==
    /\ \A i \in DOMAIN queue : Newest(w, i) => queue[i][w] = Now(w)
    /\ ~InQueue(w) => Now(w) = IF w \in DOMAIN pending THEN pending[w] ELSE told[c][w]

NewsOK == \A c \in Chats, w \in DOMAIN worker : <<c, w>> \in lost \/ Up2date(c, w)

AInv == MonitorOK /\ BotOK /\ MessageOK /\ ReportedOK /\ NewsOK

-----------------------------------------------------------------------------

LEMMA WorkersAre ==
    \A f : f \in Workers <=> DOMAIN f \subseteq ASICs /\ f \in [DOMAIN f -> WorkerRec]
  BY DEF Workers, WorkerRec

LEMMA NewsAre ==
    \A f : f \in News <=> DOMAIN f \subseteq ASICs /\ f \in [DOMAIN f -> States]
  BY DEF News

LEMMA ReportsAre ==
    \A f : f \in Reports <=> DOMAIN f \subseteq ASICs /\ f \in [DOMAIN f -> Report]
  BY DEF Reports

LEMMA Numbers ==
    /\ Cap \in Nat /\ Cap = ForgetAfter + 1 /\ Cap >= 1 /\ Cap \in Ages /\ 0 \in Ages
    /\ \A t \in Ages : t \in Nat /\ t <= Cap
    /\ \A t \in Ages : Older(t) \in Ages /\ Older(t) = IF t < Cap THEN t + 1 ELSE Cap
    /\ \A t \in OfflineAfters : t \in Nat /\ t >= 1 /\ t < ForgetAfter
    /\ SlowWait \in Nat /\ SlowWait >= 1
  BY WaitsAssumption DEF Ages, Cap, Older

LEMMA NoWorkers == << >> \in Workers /\ << >> \in News /\ << >> \in Reports
<1>1. DOMAIN << >> = {} /\ << >> \in [{} -> WorkerRec] /\ << >> \in [{} -> States] /\ << >> \in [{} -> Report]
  OBVIOUS
<1> QED BY <1>1, WorkersAre, NewsAre, ReportsAre

(* What one check sees: a worker heard of again was silent no longer than a
   tick, too short for any wait. *)
LEMMA SeenAre ==
    ASSUME MonitorOK, NEW add \in Admissions
    PROVE  /\ DOMAIN Seen(add) = DOMAIN worker \cup add
           /\ DOMAIN Seen(add) \subseteq ASICs
           /\ Seen(add) \in Workers
           /\ add \cap DOMAIN worker = {}
           /\ \A w \in add : Seen(add)[w] = [age |-> share[w], off |-> FALSE]
           /\ \A w \in DOMAIN worker :
                 Seen(add)[w] = IF share[w] < worker[w].age THEN [age |-> share[w], off |-> FALSE]
                                ELSE worker[w]
           /\ \A w \in DOMAIN Seen(add) : Seen(add)[w].age <= share[w] \/ share[w] <= 1
<1>1. add \subseteq ASICs /\ add \cap DOMAIN worker = {}
  BY DEF Admissions, Newcomers
<1>2. DOMAIN worker \subseteq ASICs /\ worker \in [DOMAIN worker -> WorkerRec]
  BY WorkersAre DEF MonitorOK
<1>3. \A w \in ASICs : share[w] \in Ages /\ [age |-> share[w], off |-> FALSE] \in WorkerRec
  BY DEF MonitorOK, WorkerRec
<1>4. DOMAIN Seen(add) = DOMAIN worker \cup add
  BY DEF Seen
<1>5. \A w \in add : Seen(add)[w] = [age |-> share[w], off |-> FALSE]
  BY DEF Seen
<1>6. \A w \in DOMAIN worker :
         Seen(add)[w] = IF share[w] < worker[w].age THEN [age |-> share[w], off |-> FALSE] ELSE worker[w]
  BY <1>1 DEF Seen
<1>7. \A w \in DOMAIN Seen(add) : Seen(add)[w] \in WorkerRec
  BY <1>1, <1>2, <1>3, <1>4, <1>5, <1>6
<1>8. Seen(add) \in Workers
  <2>1. Seen(add) \in [DOMAIN Seen(add) -> WorkerRec]
    BY <1>7 DEF Seen
  <2> QED BY <1>1, <1>2, <1>4, <2>1, WorkersAre
<1>9. \A w \in DOMAIN Seen(add) : Seen(add)[w].age <= share[w] \/ share[w] <= 1
  <2> SUFFICES ASSUME NEW w \in DOMAIN Seen(add) PROVE Seen(add)[w].age <= share[w] \/ share[w] <= 1
    OBVIOUS
  <2>1. share[w] \in Nat
    <3>1. share[w] \in Ages
      BY <1>1, <1>2, <1>4 DEF MonitorOK
    <3> QED BY <3>1, Numbers
  <2>2. CASE w \in add
    <3>1. Seen(add)[w] = [age |-> share[w], off |-> FALSE]
      BY <1>5, <2>2
    <3>2. Seen(add)[w].age = share[w]
      BY <3>1
    <3> QED BY <2>1, <3>2
  <2>3. CASE w \in DOMAIN worker
    <3>1. worker[w].age <= share[w] \/ share[w] <= 1
      BY <2>1, <2>3 DEF MonitorOK, SeenOK
    <3>2. Seen(add)[w] = IF share[w] < worker[w].age THEN [age |-> share[w], off |-> FALSE] ELSE worker[w]
      BY <1>6, <2>3
    <3>3. Seen(add)[w].age = worker[w].age \/ Seen(add)[w].age = share[w]
      BY <3>2
    <3> QED BY <2>1, <3>1, <3>3
  <2> QED BY <1>4, <2>2, <2>3
<1> QED BY <1>1, <1>2, <1>4, <1>5, <1>6, <1>8, <1>9

(* The changes of a check are how the workers are after it, and who is not
   among them is as before, or watched anew and online. *)
LEMMA ChangesAre ==
    ASSUME MonitorOK, NEW add, NEW r, NEW written, Check(add, r, written)
    PROVE  /\ Changes(add, r) \in News
           /\ worker' \in Workers
           /\ \A w \in DOMAIN worker' :
                 /\ w \in DOMAIN Changes(add, r) => Changes(add, r)[w] = Now(w)'
                 /\ w \notin DOMAIN Changes(add, r) /\ w \in DOMAIN worker => Now(w)' = Now(w)
                 /\ w \notin DOMAIN Changes(add, r) /\ w \notin DOMAIN worker => Now(w)' = "on"
                 /\ worker'[w].age = Seen(add)[w].age /\ w \in DOMAIN Seen(add)
<1> DEFINE S == Seen(add)
           B == Back(add)
           F == Falls(add, r)
<1>0. add \in Admissions
  BY DEF Check
<1>1. /\ DOMAIN S = DOMAIN worker \cup add /\ DOMAIN S \subseteq ASICs /\ add \cap DOMAIN worker = {}
      /\ S \in [DOMAIN S -> WorkerRec]
  BY <1>0, SeenAre, WorkersAre
<1>2. \A w \in DOMAIN S : S[w].age \in Ages /\ S[w].off \in BOOLEAN
  BY <1>1 DEF WorkerRec
<1>3. /\ \A w \in B : w \in DOMAIN worker /\ worker[w].off /\ ~S[w].off
      /\ \A w \in F : w \in DOMAIN S /\ ~S[w].off /\ S[w].age > wait(w, r)
  BY DEF Back, Falls
<1>4. \A w \in B : w \notin F
  <2> SUFFICES ASSUME NEW w \in B, w \in F PROVE FALSE
    OBVIOUS
  <2>1. /\ S[w] = IF share[w] < worker[w].age THEN [age |-> share[w], off |-> FALSE] ELSE worker[w]
        /\ S[w].age <= share[w] \/ share[w] <= 1
        /\ w \in ASICs
    <3>1. w \in DOMAIN worker /\ w \in DOMAIN S
      BY <1>1, <1>3
    <3> QED BY <1>0, <1>1, <3>1, SeenAre
  <2>2. share[w] \in Nat
    BY <2>1, Numbers DEF MonitorOK
  <2>3. share[w] < worker[w].age
    BY <1>3, <2>1
  <2>4. S[w].age = share[w] /\ share[w] <= 1
    <3>1. S[w].age = share[w]
      BY <2>1, <2>3
    <3>2. worker[w].age \in Nat
      <4>1. worker[w].age \in Ages
        BY <1>3, WorkersAre DEF MonitorOK, WorkerRec
      <4> QED BY <4>1, Numbers
    <3>3. worker[w].age <= share[w] \/ share[w] <= 1
      BY <1>3, <2>2 DEF MonitorOK, SeenOK
    <3> QED BY <2>2, <2>3, <3>1, <3>2, <3>3
  <2>5. wait(w, r) \in Nat /\ wait(w, r) >= 1
    BY Numbers DEF wait, MonitorOK
  <2> QED BY <1>3, <2>2, <2>4, <2>5
<1>5. /\ DOMAIN Changes(add, r) = B \cup F
      /\ \A w \in B \cup F : Changes(add, r)[w] = IF w \in B THEN "on" ELSE "off"
  BY DEF Changes
<1>6. Changes(add, r) \in News
  <2>1. B \cup F \subseteq ASICs
    BY <1>1, <1>3
  <2>2. Changes(add, r) \in [B \cup F -> States]
    BY DEF Changes, States
  <2> QED BY <1>5, <2>1, <2>2, NewsAre
<1>7. /\ DOMAIN worker' = DOMAIN S \ Forgotten(add)
      /\ \A w \in DOMAIN worker' : worker'[w] = [S[w] EXCEPT !.off = @ \/ w \in F]
  BY DEF Check
<1>8. \A w \in DOMAIN worker' :
         worker'[w] \in WorkerRec /\ worker'[w].age = S[w].age /\ (worker'[w].off <=> S[w].off \/ w \in F)
  <2> SUFFICES ASSUME NEW w \in DOMAIN worker'
               PROVE  worker'[w] \in WorkerRec /\ worker'[w].age = S[w].age
                      /\ (worker'[w].off <=> S[w].off \/ w \in F)
    OBVIOUS
  <2>1. S[w] \in WorkerRec /\ worker'[w] = [S[w] EXCEPT !.off = @ \/ w \in F]
    BY <1>1, <1>7
  <2> HIDE DEF S, F
  <2> QED BY <2>1 DEF WorkerRec
<1>9. worker' \in Workers
  <2>1. worker' \in [DOMAIN worker' -> WorkerRec]
    <3>1. worker' = [w \in DOMAIN S \ Forgotten(add) |-> [S[w] EXCEPT !.off = @ \/ w \in F]]
      BY DEF Check
    <3> QED BY <1>7, <1>8, <3>1
  <2>2. DOMAIN worker' \subseteq ASICs
    BY <1>1, <1>7
  <2> QED BY <2>1, <2>2, WorkersAre
<1>10. ASSUME NEW w \in DOMAIN worker'
       PROVE  /\ w \in DOMAIN Changes(add, r) => Changes(add, r)[w] = Now(w)'
              /\ w \notin DOMAIN Changes(add, r) /\ w \in DOMAIN worker => Now(w)' = Now(w)
              /\ w \notin DOMAIN Changes(add, r) /\ w \notin DOMAIN worker => Now(w)' = "on"
              /\ worker'[w].age = Seen(add)[w].age /\ w \in DOMAIN Seen(add)
  <2>1. Now(w)' = IF S[w].off \/ w \in F THEN "off" ELSE "on"
    BY <1>8, <1>10 DEF Now
  <2>2. w \in B => ~S[w].off /\ w \notin F
    BY <1>3, <1>4
  <2>3. w \in F => ~S[w].off /\ w \notin B
    BY <1>3, <1>4
  <2>4. w \in DOMAIN S
    BY <1>7
  <2>5. w \in DOMAIN worker => Now(w) = IF worker[w].off THEN "off" ELSE "on"
    BY DEF Now
  <2>6. w \in DOMAIN worker /\ w \notin B => (worker[w].off <=> S[w].off)
    <3>1. w \in DOMAIN worker => S[w] = IF share[w] < worker[w].age THEN [age |-> share[w], off |-> FALSE] ELSE worker[w]
      BY <1>0, SeenAre
    <3>2. w \in B <=> w \in DOMAIN worker /\ worker[w].off /\ ~S[w].off
      BY DEF Back
    <3> QED BY <3>1, <3>2
  <2>7. w \notin DOMAIN worker => ~S[w].off
    <3>1. w \notin DOMAIN worker => w \in add
      BY <1>1, <2>4
    <3>2. w \in add => Seen(add)[w] = [age |-> share[w], off |-> FALSE]
      BY <1>0, SeenAre
    <3> QED BY <3>1, <3>2
  <2> HIDE DEF B, F
  <2> QED BY <1>5, <1>8, <2>1, <2>2, <2>3, <2>4, <2>5, <2>6, <2>7
<1> QED BY <1>6, <1>9, <1>10

(* After a check nobody is behind his session. *)
LEMMA CheckKeeps ==
    ASSUME MonitorOK, NEW add, NEW r, NEW written, Check(add, r, written)
    PROVE  MonitorOK'
<1>0. add \in Admissions
  BY DEF Check
<1>1. /\ worker' \in Workers /\ (disk' = worker' \/ disk' = disk) /\ checked' = TRUE
      /\ UNCHANGED <<offlineAfter, share>>
  BY ChangesAre DEF Check
<1>2. SeenOK'
  <2> SUFFICES ASSUME NEW w \in DOMAIN worker' PROVE worker'[w].age <= share[w]
    BY <1>1 DEF SeenOK
  <2>1. worker'[w].age = Seen(add)[w].age /\ w \in DOMAIN Seen(add)
    BY ChangesAre
  <2>2. w \in ASICs /\ w \in DOMAIN worker \cup add
    BY <1>0, <2>1, SeenAre
  <2>3. share[w] \in Nat
    BY <2>2, Numbers DEF MonitorOK
  <2>4. CASE w \in add
    <3>1. Seen(add)[w] = [age |-> share[w], off |-> FALSE]
      BY <1>0, <2>4, SeenAre
    <3> QED BY <2>1, <2>3, <3>1
  <2>5. CASE w \in DOMAIN worker
    <3>1. Seen(add)[w] = IF share[w] < worker[w].age THEN [age |-> share[w], off |-> FALSE] ELSE worker[w]
      BY <1>0, <2>5, SeenAre
    <3>2. worker[w].age \in Nat
      <4>1. worker[w].age \in Ages
        BY <2>5, WorkersAre DEF MonitorOK, WorkerRec
      <4> QED BY <4>1, Numbers
    <3>3. CASE share[w] < worker[w].age
      <4>1. Seen(add)[w].age = share[w]
        BY <3>1, <3>3
      <4> QED BY <2>1, <2>3, <4>1
    <3>4. CASE ~(share[w] < worker[w].age)
      <4>1. Seen(add)[w].age = worker[w].age
        BY <3>1, <3>4
      <4> QED BY <2>1, <2>3, <3>2, <3>4, <4>1
    <3> QED BY <3>3, <3>4
  <2> QED BY <2>2, <2>4, <2>5
<1> QED BY <1>1, <1>2 DEF MonitorOK

LEMMA OlderWorkers ==
    ASSUME NEW f \in Workers
    PROVE  [w \in DOMAIN f |-> [f[w] EXCEPT !.age = Older(@)]] \in Workers
<1>1. DOMAIN f \subseteq ASICs /\ f \in [DOMAIN f -> WorkerRec]
  BY WorkersAre
<1>2. \A w \in DOMAIN f : [f[w] EXCEPT !.age = Older(@)] \in WorkerRec
  BY <1>1, Numbers DEF WorkerRec
<1> QED BY <1>1, <1>2, WorkersAre

LEMMA TickKeeps == ASSUME MonitorOK, MonitorTick PROVE MonitorOK'
<1>1. /\ checked = TRUE /\ checked' = FALSE /\ UNCHANGED offlineAfter
      /\ share' = [w \in ASICs |-> Older(share[w])]
      /\ worker' = [w \in DOMAIN worker |-> [worker[w] EXCEPT !.age = Older(@)]]
      /\ disk' = [w \in DOMAIN disk |-> [disk[w] EXCEPT !.age = Older(@)]]
  BY DEF MonitorTick, MonitorOK
<1>2. worker' \in Workers /\ disk' \in Workers
  BY <1>1, OlderWorkers DEF MonitorOK
<1>3. share' \in [ASICs -> Ages]
  BY <1>1, Numbers DEF MonitorOK
<1>4. SeenOK'
  <2> SUFFICES ASSUME NEW w \in DOMAIN worker PROVE worker'[w].age <= share'[w] \/ share'[w] <= 1
    BY <1>1 DEF SeenOK
  <2>1. w \in ASICs /\ worker[w] \in WorkerRec
    BY WorkersAre DEF MonitorOK
  <2>2. worker[w].age \in Ages /\ share[w] \in Ages
    BY <2>1 DEF MonitorOK, WorkerRec
  <2>3. worker'[w].age = Older(worker[w].age) /\ share'[w] = Older(share[w])
    BY <1>1, <2>1 DEF WorkerRec
  <2>4. worker[w].age <= share[w] \/ share[w] <= 0
    BY <1>1 DEF MonitorOK, SeenOK
  <2>5. /\ worker[w].age \in Nat /\ worker[w].age <= Cap /\ share[w] \in Nat /\ share[w] <= Cap
        /\ Cap \in Nat /\ Cap >= 1
    BY <2>2, Numbers
  <2>6. /\ worker'[w].age = IF worker[w].age < Cap THEN worker[w].age + 1 ELSE Cap
        /\ share'[w] = IF share[w] < Cap THEN share[w] + 1 ELSE Cap
    BY <2>2, <2>3, Numbers
  <2> QED BY <2>4, <2>5, <2>6
<1>5. offlineAfter' \in OfflineAfters /\ checked' \in BOOLEAN
  BY <1>1 DEF MonitorOK
<1> QED BY <1>2, <1>3, <1>4, <1>5 DEF MonitorOK

LEMMA RestartKeeps == ASSUME MonitorOK, Stop \/ Crash PROVE MonitorOK'
<1>1. /\ worker' \in Workers /\ disk' \in Workers /\ checked' = FALSE
      /\ share' = [w \in ASICs |-> Cap] /\ UNCHANGED offlineAfter
  BY DEF Stop, Crash, Restart, MonitorOK
<1>2. SeenOK'
  <2> SUFFICES ASSUME NEW w \in DOMAIN worker' PROVE worker'[w].age <= share'[w]
    BY DEF SeenOK
  <2>1. w \in ASICs /\ worker'[w].age \in Ages
    BY <1>1, WorkersAre DEF WorkerRec
  <2> QED BY <1>1, <2>1, Numbers
<1> QED BY <1>1, <1>2, Numbers DEF MonitorOK

LEMMA ASICKeeps == ASSUME MonitorOK, ASICStep PROVE MonitorOK' /\ UNCHANGED worker
<1> USE DEF memory
<1>1. CASE SetOfflineAfter
  BY <1>1 DEF SetOfflineAfter, MonitorOK, SeenOK
<1>2. ASSUME NEW v \in ASICs, Connect(v) PROVE MonitorOK' /\ UNCHANGED worker
  BY <1>2 DEF Connect, MonitorOK, SeenOK
<1>3. ASSUME NEW v \in ASICs, Share(v) \/ Disconnect(v) PROVE MonitorOK' /\ UNCHANGED worker
  <2>1. /\ UNCHANGED <<offlineAfter, disk, checked, worker>>
        /\ share' = [share EXCEPT ![v] = 0] \/ share' = [share EXCEPT ![v] = Cap]
    BY <1>3 DEF Share, Disconnect
  <2>2. share' \in [ASICs -> Ages]
    BY <2>1, Numbers DEF MonitorOK
  <2>3. SeenOK'
    <3> SUFFICES ASSUME NEW w \in DOMAIN worker
                 PROVE  worker[w].age <= share'[w] \/ share'[w] <= IF checked THEN 0 ELSE 1
      BY <2>1 DEF SeenOK
    <3>1. w \in ASICs /\ worker[w].age \in Ages
      BY WorkersAre DEF MonitorOK, WorkerRec
    <3>2. share'[w] = share[w] \/ share'[w] = 0 \/ share'[w] = Cap
      BY <2>1, <3>1 DEF MonitorOK
    <3>3. worker[w].age <= share[w] \/ share[w] <= IF checked THEN 0 ELSE 1
      BY DEF MonitorOK, SeenOK
    <3>4. worker[w].age \in Nat /\ worker[w].age <= Cap /\ Cap \in Nat
      BY <3>1, Numbers
    <3>5. CASE share'[w] = 0
      BY <3>5
    <3> QED BY <3>2, <3>3, <3>4, <3>5
  <2>4. offlineAfter' \in OfflineAfters /\ checked' \in BOOLEAN /\ UNCHANGED <<worker, disk>>
    BY <2>1 DEF MonitorOK
  <2> QED BY <2>2, <2>3, <2>4 DEF MonitorOK
<1> QED BY <1>1, <1>2, <1>3 DEF ASICStep

LEMMA MonitorKept == ASSUME MonitorOK, [Next]_vars PROVE MonitorOK'
<1>1. CASE UNCHANGED monitorVars
  BY <1>1 DEF monitorVars, memory, MonitorOK, SeenOK
<1>2. CASE UNCHANGED vars \/ Receive \/ Look \/ Deliver \/ Fail \/ SetChats
  BY <1>1, <1>2 DEF vars, Receive, Look, Deliver, Fail, SetChats
<1>3. CASE CheckAndNotify
  BY <1>3, CheckKeeps DEF CheckAndNotify
<1> QED BY <1>2, <1>3, ASICKeeps, TickKeeps, RestartKeeps DEF Next, Tick, StartOver

-----------------------------------------------------------------------------
(* The notifier. *)

Times(r, w) == IF w \in DOMAIN r THEN r[w].times ELSE << >>

LEMMA NewsWithout ==
    ASSUME NEW f \in News, NEW S
    PROVE  /\ Without(f, S) \in News
           /\ DOMAIN Without(f, S) = DOMAIN f \ S
           /\ \A w \in DOMAIN f \ S : Without(f, S)[w] = f[w]
<1>1. DOMAIN f \subseteq ASICs /\ f \in [DOMAIN f -> States]
  BY NewsAre
<1>2. Without(f, S) = [w \in DOMAIN f \ S |-> f[w]]
  BY DEF Without, Restrict
<1>3. Without(f, S) \in News
  BY <1>1, <1>2, NewsAre
<1> QED BY <1>2, <1>3

LEMMA ReportsWithout ==
    ASSUME NEW f \in Reports, NEW S
    PROVE  /\ Without(f, S) \in Reports
           /\ DOMAIN Without(f, S) = DOMAIN f \ S
           /\ \A w \in DOMAIN f \ S : Without(f, S)[w] = f[w]
<1>1. DOMAIN f \subseteq ASICs /\ f \in [DOMAIN f -> Report]
  BY ReportsAre
<1>2. Without(f, S) = [w \in DOMAIN f \ S |-> f[w]]
  BY DEF Without, Restrict
<1>3. Without(f, S) \in Reports
  BY <1>1, <1>2, ReportsAre
<1> QED BY <1>2, <1>3

LEMMA NewsOver ==
    ASSUME NEW f \in News, NEW g \in News
    PROVE  /\ Over(f, g) \in News
           /\ DOMAIN Over(f, g) = DOMAIN f \cup DOMAIN g
           /\ \A w \in DOMAIN f : Over(f, g)[w] = f[w]
           /\ \A w \in DOMAIN g \ DOMAIN f : Over(f, g)[w] = g[w]
<1>1. DOMAIN f \subseteq ASICs /\ f \in [DOMAIN f -> States]
  BY NewsAre
<1>2. DOMAIN g \subseteq ASICs /\ g \in [DOMAIN g -> States]
  BY NewsAre
<1>3. Over(f, g) = [w \in DOMAIN f \cup DOMAIN g |-> IF w \in DOMAIN f THEN f[w] ELSE g[w]]
  BY DEF Over
<1>4. Over(f, g) \in News
  BY <1>1, <1>2, <1>3, NewsAre
<1> QED BY <1>3, <1>4

LEMMA SentIs ==
    ASSUME NEW due \in News, NEW p \in News, NEW r \in Reports, NEW age \in Nat,
           Sent(due, p, r, age)
    PROVE  /\ reported' \in Reports
           /\ DOMAIN reported' = DOMAIN r \cup DOMAIN due
           /\ \A w \in DOMAIN due : reported'[w].state = due[w]
           /\ \A w \in DOMAIN r \ DOMAIN due : reported'[w] = r[w]
           /\ pending' = Without(p, DOMAIN due)
<1> DEFINE times(w) == Append(Times(r, w), age)
<1>1. /\ reported' = [w \in DOMAIN r \cup DOMAIN due |->
                         IF w \notin DOMAIN due THEN r[w] ELSE [state |-> due[w], times |-> times(w)]]
      /\ pending' = Without(p, DOMAIN due)
  BY DEF Sent, Times
<1>2. DOMAIN due \subseteq ASICs /\ due \in [DOMAIN due -> States]
  BY NewsAre
<1>3. DOMAIN r \subseteq ASICs /\ r \in [DOMAIN r -> Report]
  BY ReportsAre
<1>4. \A w \in DOMAIN due : times(w) \in Seq(Nat)
  <2> SUFFICES ASSUME NEW w \in DOMAIN due PROVE times(w) \in Seq(Nat)
    OBVIOUS
  <2>1. w \in DOMAIN r => r[w].times \in Seq(Nat)
    BY <1>3 DEF Report
  <2>2. Times(r, w) \in Seq(Nat)
    BY <2>1, EmptySeq DEF Times
  <2> QED BY <2>2, AppendProperties
<1> HIDE DEF times
<1>5. /\ DOMAIN reported' = DOMAIN r \cup DOMAIN due
      /\ \A w \in DOMAIN due : reported'[w] = [state |-> due[w], times |-> times(w)]
      /\ \A w \in DOMAIN r \ DOMAIN due : reported'[w] = r[w]
  BY <1>1
<1>6. reported' \in Reports
  <2>1. \A w \in DOMAIN due : [state |-> due[w], times |-> times(w)] \in Report
    BY <1>2, <1>4 DEF Report
  <2>2. \A w \in DOMAIN reported' : reported'[w] \in Report
    BY <1>3, <1>5, <2>1
  <2>3. reported' \in [DOMAIN reported' -> Report]
    BY <1>1, <1>5, <2>2
  <2> QED BY <1>2, <1>3, <1>5, <2>3, ReportsAre
<1>7. \A w \in DOMAIN due : reported'[w].state = due[w]
  BY <1>5
<1> QED BY <1>1, <1>5, <1>6, <1>7

(* What take does: a change either stays pending, or the chats know it, or there
   is nobody to send it to. *)
LEMMA TakeIs ==
    ASSUME BotOK, MessageOK, Idle, NEW p \in News, NEW first, Take(p, first)
    PROVE  /\ pending' \in News /\ reported' \in Reports
           /\ message' \in [due : News, to : SUBSET Chats, age : Nat]
           /\ lost \subseteq lost'
           /\ \A w \in DOMAIN message'.due : w \in DOMAIN pending' /\ pending'[w] = message'.due[w]
           /\ DOMAIN pending' \subseteq DOMAIN p
           /\ \A w \in DOMAIN pending' : pending'[w] = p[w]
           /\ \A c \in Chats, w \in DOMAIN p \ DOMAIN pending' :
                 <<c, w>> \in lost' \/ Known(p, w)
           /\ \A c \in Chats, w \in DOMAIN reported' :
                 <<c, w>> \in lost' \/ (w \in DOMAIN reported /\ reported'[w].state = reported[w].state)
<1> DEFINE known == {w \in DOMAIN p : Known(p, w)}
           rest == Without(p, known)
           held == {w \in DOMAIN rest : Held(w)}
           due == Without(rest, held)
           old == {w \in DOMAIN reported : Forgettable(w, rest)}
           kept == Without(reported, old)
           since == IF due = << >> THEN NoTime ELSE IF first = NoTime THEN 0 ELSE first
           go == due # << >> /\ since >= Batch /\ lastSent >= Gap
<1>1. /\ rest \in News /\ DOMAIN rest \subseteq DOMAIN p
      /\ \A w \in DOMAIN rest : rest[w] = p[w]
      /\ \A w \in DOMAIN p \ DOMAIN rest : Known(p, w)
  <2>1. \A w \in known : Known(p, w)
    OBVIOUS
  <2> HIDE DEF known
  <2> QED BY ZenonT(60), <2>1, NewsWithout
<1> HIDE DEF rest
<1>2. /\ due \in News /\ DOMAIN due \subseteq DOMAIN rest
      /\ \A w \in DOMAIN due : due[w] = rest[w]
  <2> HIDE DEF held
  <2>1. rest \in News
    BY <1>1
  <2>2. due \in News
    BY <2>1, NewsWithout
  <2>3. DOMAIN due = DOMAIN rest \ held
    BY <2>1, NewsWithout
  <2>4. \A w \in DOMAIN rest \ held : due[w] = rest[w]
    BY <2>1, NewsWithout
  <2> QED BY <2>2, <2>3, <2>4
<1>3. /\ kept \in Reports /\ DOMAIN kept \subseteq DOMAIN reported
      /\ \A w \in DOMAIN kept : kept[w] = reported[w]
  <2> HIDE DEF old
  <2>1. reported \in Reports
    BY DEF BotOK
  <2>2. kept \in Reports /\ DOMAIN kept = DOMAIN reported \ old
    BY <2>1, ReportsWithout
  <2>3. \A w \in DOMAIN reported \ old : kept[w] = reported[w]
    BY <2>1, ReportsWithout
  <2> QED BY <2>2, <2>3
<1> HIDE DEF due, kept
<1>4. CASE go /\ chats = {}
  <2>1. Sent(due, rest, kept, 0) /\ lost' = lost \cup (Chats \X DOMAIN due) /\ UNCHANGED message
    BY <1>4 DEF Take, rest, due, kept
  <2>2. /\ reported' \in Reports
        /\ DOMAIN reported' = DOMAIN kept \cup DOMAIN due
        /\ \A w \in DOMAIN kept \ DOMAIN due : reported'[w] = kept[w]
        /\ pending' = Without(rest, DOMAIN due)
    <3>1. rest \in News /\ due \in News /\ kept \in Reports /\ 0 \in Nat
      BY <1>1, <1>2, <1>3
    <3>2. Sent(due, rest, kept, 0)
      BY <2>1
    <3>3. reported' \in Reports /\ DOMAIN reported' = DOMAIN kept \cup DOMAIN due
      BY <3>1, <3>2, SentIs
    <3>4. \A w \in DOMAIN kept \ DOMAIN due : reported'[w] = kept[w]
      BY ZenonT(60), <3>1, <3>2, SentIs
    <3>5. pending' = Without(rest, DOMAIN due)
      BY <3>1, <3>2, SentIs
    <3> QED BY <3>3, <3>4, <3>5
  <2>3. /\ DOMAIN pending' = DOMAIN rest \ DOMAIN due
        /\ \A w \in DOMAIN pending' : pending'[w] = rest[w]
        /\ pending' \in News
    <3>1. rest \in News /\ pending' = Without(rest, DOMAIN due)
      BY <1>1, <2>2
    <3>2. pending' \in News /\ DOMAIN pending' = DOMAIN rest \ DOMAIN due
      BY <3>1, NewsWithout
    <3>3. \A w \in DOMAIN rest \ DOMAIN due : pending'[w] = rest[w]
      BY ZenonT(60), <3>1, NewsWithout
    <3> QED BY <3>2, <3>3
  <2>4. message'.due = << >>
    BY <2>1 DEF Idle, NoMessage
  <2>5. \A c \in Chats, w \in DOMAIN due : <<c, w>> \in lost'
    BY <2>1
  <2> HIDE DEF go
  <2> QED BY <1>1, <1>2, <1>3, <2>1, <2>2, <2>3, <2>4, <2>5 DEF BotOK
<1>5. CASE ~(go /\ chats = {})
  <2>1. /\ pending' = rest /\ reported' = kept /\ lost' = lost
        /\ message' = message \/ message' = [due |-> due, to |-> chats, age |-> 0]
    BY <1>5 DEF Take, rest, due, kept
  <2>2. message' \in [due : News, to : SUBSET Chats, age : Nat]
    BY <1>2, <2>1 DEF BotOK
  <2>3. message'.due = due \/ message'.due = << >>
    BY <2>1 DEF Idle, NoMessage
  <2> HIDE DEF go
  <2> QED BY <1>1, <1>2, <1>3, <2>1, <2>2, <2>3
<1> QED BY <1>4, <1>5

-----------------------------------------------------------------------------
(* The news over a step. *)

LEMMA Queued ==
    ASSUME BotOK
    PROVE  /\ Len(queue) \in Nat /\ DOMAIN queue = 1 .. Len(queue)
           /\ \A i \in DOMAIN queue : queue[i] \in News /\ DOMAIN queue[i] \subseteq ASICs
<1>1. queue \in Seq(News)
  BY DEF BotOK
<1>2. Len(queue) \in Nat /\ DOMAIN queue = 1 .. Len(queue) /\ \A i \in DOMAIN queue : queue[i] \in News
  BY <1>1, LenProperties
<1> QED BY <1>2, NewsAre

(* Who is watched is as before, and so are the queue, what is pending and what
   was told about it. *)
LEMMA NewsStay ==
    ASSUME NewsOK, UNCHANGED <<worker, queue, pending, told>>, lost \subseteq lost'
    PROVE  NewsOK'
<1> SUFFICES ASSUME NEW c \in Chats, NEW w \in DOMAIN worker, <<c, w>> \notin lost'
             PROVE  Up2date(c, w)'
  BY DEF NewsOK
<1>1. Up2date(c, w)
  BY DEF NewsOK
<1> QED BY <1>1 DEF Up2date, Newest, Now, InQueue

(* A change is queued for the ASICs that it is about, and nobody else's news
   are touched; an ASIC that is watched anew had no news on the way. *)
LEMMA NotifyKeeps ==
    ASSUME AInv, NEW add, NEW r, NEW written, Check(add, r, written),
           Notify(Changes(add, r)), UNCHANGED <<chats, notifier, message, told>>
    PROVE  BotOK' /\ MessageOK' /\ ReportedOK' /\ NewsOK'
<1> DEFINE ch == Changes(add, r)
           room == Len(queue) < QueueMax
<1>0. BotOK /\ MonitorOK
  BY DEF AInv
<1>1. /\ ch \in News /\ worker' \in Workers
      /\ \A w \in DOMAIN worker' :
            /\ w \in DOMAIN ch => ch[w] = Now(w)'
            /\ w \notin DOMAIN ch /\ w \in DOMAIN worker => Now(w)' = Now(w)
            /\ w \notin DOMAIN ch /\ w \notin DOMAIN worker => Now(w)' = "on"
  BY <1>0, ChangesAre
<1> HIDE DEF ch
<1>2. /\ queue' = queue \/ (room /\ queue' = Append(queue, ch))
      /\ queue' = queue => DOMAIN ch = {} \/ ~room
      /\ lost \subseteq lost'
      /\ ~room => \A c \in Chats, w \in DOMAIN ch : <<c, w>> \in lost'
      /\ \A c \in Chats, w \in DOMAIN worker' \ DOMAIN worker :
            <<c, w>> \in lost' \/
            (w \notin DOMAIN pending /\ ~InQueue(w) /\ \A d \in Chats : told[d][w] # "off")
  <2>1. queue' = IF DOMAIN ch # {} /\ room THEN Append(queue, ch) ELSE queue
    BY DEF Notify, ch
  <2>2. Append(queue, ch) # queue
    <3>1. Len(Append(queue, ch)) = Len(queue) + 1 /\ Len(queue) \in Nat
      BY <1>0, <1>1, AppendProperties, Queued DEF BotOK
    <3> QED BY <3>1
  <2>3. /\ lost \subseteq lost'
        /\ ~room => \A c \in Chats, w \in DOMAIN ch : <<c, w>> \in lost'
        /\ \A c \in Chats, w \in DOMAIN worker' \ DOMAIN worker :
              <<c, w>> \in lost' \/
              (w \notin DOMAIN pending /\ ~InQueue(w) /\ \A d \in Chats : told[d][w] # "off")
    BY DEF Notify, ch
  <2> HIDE DEF room
  <2> QED BY <2>1, <2>2, <2>3
<1>3. /\ Append(queue, ch) \in Seq(News)
      /\ Len(queue) \in Nat /\ DOMAIN queue = 1 .. Len(queue)
      /\ DOMAIN Append(queue, ch) = 1 .. Len(queue) + 1
      /\ \A i \in 1 .. Len(queue) : Append(queue, ch)[i] = queue[i]
      /\ Append(queue, ch)[Len(queue) + 1] = ch
  <2>1. queue \in Seq(News)
    BY <1>0 DEF BotOK
  <2>2. /\ Append(queue, ch) \in Seq(News) /\ Len(Append(queue, ch)) = Len(queue) + 1
        /\ \A i \in 1 .. Len(queue) : Append(queue, ch)[i] = queue[i]
        /\ Append(queue, ch)[Len(queue) + 1] = ch
    BY <1>1, <2>1, AppendProperties
  <2>3. DOMAIN Append(queue, ch) = 1 .. Len(queue) + 1
    BY <2>2, LenProperties
  <2> QED BY <1>0, <2>2, <2>3, Queued
<1>4. BotOK'
  BY <1>0, <1>2, <1>3 DEF BotOK, notifier
<1>5. MessageOK'
  BY DEF AInv, MessageOK, notifier
<1>6. ReportedOK'
  BY <1>2 DEF AInv, ReportedOK, notifier
<1>7. NewsOK'
  <2> SUFFICES ASSUME NEW c \in Chats, NEW w \in DOMAIN worker', <<c, w>> \notin lost'
               PROVE  Up2date(c, w)'
    BY DEF NewsOK
  <2>0. UNCHANGED <<pending, told>> /\ <<c, w>> \notin lost
    BY <1>2 DEF notifier
  <2>1. CASE w \in DOMAIN ch
    <3>1. queue' = Append(queue, ch) /\ ch[w] = Now(w)'
      BY <1>1, <1>2, <2>1
    <3>2. InQueue(w)'
      <4>1. Len(queue) + 1 \in DOMAIN queue' /\ queue'[Len(queue) + 1] = ch
        BY <1>3, <3>1
      <4> QED BY <2>1, <4>1 DEF InQueue
    <3>3. ASSUME NEW i \in DOMAIN queue', Newest(w, i)' PROVE queue'[i][w] = Now(w)'
      <4>1. i = Len(queue) + 1
        BY <1>3, <2>1, <3>1, <3>3 DEF Newest
      <4> QED BY <1>3, <3>1, <4>1
    <3> QED BY <3>2, <3>3 DEF Up2date
  <2>2. CASE w \notin DOMAIN ch
    <3>1. \A i \in DOMAIN queue' : Newest(w, i)' => i \in DOMAIN queue /\ Newest(w, i) /\ queue'[i] = queue[i]
      <4>1. CASE queue' = queue
        BY <4>1 DEF Newest
      <4>2. CASE queue' = Append(queue, ch)
        BY <1>3, <2>2, <4>2 DEF Newest
      <4> QED BY <1>2, <4>1, <4>2
    <3>2. InQueue(w) => InQueue(w)'
      <4>1. CASE queue' = queue
        BY <4>1 DEF InQueue
      <4>2. CASE queue' = Append(queue, ch)
        BY <1>3, <4>2 DEF InQueue
      <4> QED BY <1>2, <4>1, <4>2
    <3>3. CASE w \in DOMAIN worker
      <4>1. Up2date(c, w) /\ Now(w)' = Now(w)
        BY <1>1, <2>0, <2>2, <3>3 DEF AInv, NewsOK
      <4> QED BY <2>0, <3>1, <3>2, <4>1 DEF Up2date
    <3>4. CASE w \notin DOMAIN worker
      <4>1. w \notin DOMAIN pending /\ ~InQueue(w) /\ told[c][w] # "off" /\ Now(w)' = "on"
        BY <1>1, <1>2, <2>2, <3>4
      <4>2. w \in ASICs
        BY <1>1, WorkersAre
      <4>3. told[c][w] = "on"
        BY <1>0, <4>1, <4>2 DEF BotOK, States
      <4>4. \A i \in DOMAIN queue' : ~Newest(w, i)'
        BY <3>1, <4>1 DEF Newest, InQueue
      <4> QED BY <2>0, <4>1, <4>3, <4>4 DEF Up2date
    <3> QED BY <3>3, <3>4
  <2> QED BY <2>1, <2>2
<1> QED BY <1>4, <1>5, <1>6, <1>7

(* take leaves nobody with other news than p held. *)
LEMMA TakeTells ==
    ASSUME AInv, Idle, NEW p \in News, NEW first, Take(p, first), UNCHANGED <<chats, told>>
    PROVE  /\ pending' \in News /\ reported' \in Reports
           /\ message' \in [due : News, to : SUBSET Chats, age : Nat]
           /\ MessageOK' /\ ReportedOK' /\ lost \subseteq lost'
           /\ \A c \in Chats, w \in ASICs :
                 \/ <<c, w>> \in lost'
                 \/ (IF w \in DOMAIN pending' THEN pending'[w] ELSE told'[c][w])
                       = IF w \in DOMAIN p THEN p[w] ELSE told[c][w]
<1>1. BotOK /\ MessageOK /\ ReportedOK
  BY DEF AInv
<1>2. /\ pending' \in News /\ reported' \in Reports
      /\ message' \in [due : News, to : SUBSET Chats, age : Nat]
      /\ lost \subseteq lost'
      /\ \A w \in DOMAIN message'.due : w \in DOMAIN pending' /\ pending'[w] = message'.due[w]
  BY <1>1, TakeIs
<1>3. /\ DOMAIN pending' \subseteq DOMAIN p
      /\ \A w \in DOMAIN pending' : pending'[w] = p[w]
  BY <1>1, TakeIs
<1>4. \A c \in Chats, w \in DOMAIN p \ DOMAIN pending' : <<c, w>> \in lost' \/ Known(p, w)
  BY <1>1, TakeIs
<1>5. \A c \in Chats, w \in DOMAIN reported' :
         <<c, w>> \in lost' \/ (w \in DOMAIN reported /\ reported'[w].state = reported[w].state)
  BY <1>1, TakeIs
<1>6. MessageOK'
  BY <1>2 DEF MessageOK
<1>7. ReportedOK'
  BY <1>1, <1>2, <1>5 DEF ReportedOK
<1>8. ASSUME NEW c \in Chats, NEW w \in ASICs, <<c, w>> \notin lost'
      PROVE  (IF w \in DOMAIN pending' THEN pending'[w] ELSE told'[c][w])
                 = IF w \in DOMAIN p THEN p[w] ELSE told[c][w]
  <2>1. CASE w \in DOMAIN p /\ w \notin DOMAIN pending'
    <3>1. w \in DOMAIN reported /\ reported[w].state = p[w]
      BY <1>4, <1>8, <2>1 DEF Known
    <3>2. told[c][w] = reported[w].state
      BY <1>1, <1>2, <1>8, <3>1 DEF ReportedOK
    <3> QED BY <2>1, <3>1, <3>2
  <2>2. CASE w \in DOMAIN pending'
    BY <1>3, <2>2
  <2>3. CASE w \notin DOMAIN p
    BY <1>3, <2>3
  <2> QED BY <2>1, <2>2, <2>3
<1> QED BY <1>2, <1>6, <1>7, <1>8

LEMMA ReceiveKeeps ==
    ASSUME AInv, Receive
    PROVE  BotOK' /\ MessageOK' /\ ReportedOK' /\ NewsOK'
<1> DEFINE p == Over(Head(queue), pending)
<1>1. /\ Idle /\ queue # << >> /\ queue' = Tail(queue) /\ UNCHANGED <<worker, chats, told>>
      /\ \E first : Take(p, first)
  BY DEF Receive, monitorVars, memory
<1>2. BotOK /\ queue \in Seq(News) /\ pending \in News
  BY DEF AInv, BotOK
<1>3. /\ Head(queue) = queue[1] /\ Tail(queue) \in Seq(News)
      /\ Len(queue) \in Nat /\ Len(queue) >= 1 /\ DOMAIN queue = 1 .. Len(queue)
      /\ DOMAIN Tail(queue) = 1 .. Len(queue) - 1
      /\ \A i \in 1 .. Len(queue) - 1 : Tail(queue)[i] = queue[i + 1]
  BY <1>1, <1>2, HeadTailProperties, LenProperties, EmptySeq
<1>4. Head(queue) \in News
  BY <1>2, <1>3, Queued
<1>5. p \in News /\ DOMAIN p = DOMAIN Head(queue) \cup DOMAIN pending
  BY <1>2, <1>4, NewsOver
<1>6. \A w \in DOMAIN p : p[w] = IF w \in DOMAIN Head(queue) THEN Head(queue)[w] ELSE pending[w]
  BY DEF Over
<1> HIDE DEF p
<1>7. /\ pending' \in News /\ reported' \in Reports
      /\ message' \in [due : News, to : SUBSET Chats, age : Nat]
      /\ MessageOK' /\ ReportedOK' /\ lost \subseteq lost'
  BY <1>1, <1>5, TakeTells
<1>8. \A c \in Chats, w \in ASICs :
         \/ <<c, w>> \in lost'
         \/ (IF w \in DOMAIN pending' THEN pending'[w] ELSE told'[c][w])
               = IF w \in DOMAIN p THEN p[w] ELSE told[c][w]
  BY <1>1, <1>5, TakeTells
<1>9. BotOK'
  BY <1>1, <1>2, <1>3, <1>7 DEF BotOK
<1>10. NewsOK'
  <2> SUFFICES ASSUME NEW c \in Chats, NEW w \in DOMAIN worker, <<c, w>> \notin lost'
               PROVE  Up2date(c, w)'
    BY <1>1 DEF NewsOK
  <2>1. Up2date(c, w) /\ w \in ASICs
    BY <1>7, WorkersAre DEF AInv, NewsOK, MonitorOK
  <2>2. Now(w)' = Now(w)
    BY <1>1 DEF Now
  <2>3. ASSUME NEW i \in DOMAIN queue', Newest(w, i)' PROVE queue'[i][w] = Now(w)'
    <3>1. i + 1 \in DOMAIN queue /\ queue'[i] = queue[i + 1] /\ i \in Nat
      BY <1>1, <1>3
    <3>2. \A j \in DOMAIN queue : j > i + 1 => j - 1 \in DOMAIN queue' /\ queue'[j - 1] = queue[j] /\ j - 1 > i
      BY <1>1, <1>3, <3>1
    <3>3. Newest(w, i + 1)
      BY <2>3, <3>1, <3>2 DEF Newest
    <3> QED BY <2>1, <2>2, <3>1, <3>3 DEF Up2date
  <2>4. ASSUME ~InQueue(w)'
        PROVE  Now(w)' = IF w \in DOMAIN pending' THEN pending'[w] ELSE told'[c][w]
    <3>1. \A j \in DOMAIN queue : j > 1 => w \notin DOMAIN queue[j]
      <4>1. \A j \in DOMAIN queue : j > 1 => j - 1 \in DOMAIN queue' /\ queue'[j - 1] = queue[j]
        BY <1>1, <1>3
      <4> QED BY <2>4, <4>1 DEF InQueue
    <3>2. CASE w \in DOMAIN Head(queue)
      <4>1. Newest(w, 1)
        BY <1>3, <3>1, <3>2 DEF Newest
      <4>2. Now(w) = p[w] /\ w \in DOMAIN p
        BY <1>3, <1>5, <1>6, <2>1, <3>2, <4>1 DEF Up2date
      <4> QED BY <1>8, <2>1, <2>2, <4>2
    <3>3. CASE w \notin DOMAIN Head(queue)
      <4>1. ~InQueue(w)
        BY <1>3, <3>1, <3>3 DEF InQueue
      <4>2. Now(w) = IF w \in DOMAIN pending THEN pending[w] ELSE told[c][w]
        BY <2>1, <4>1 DEF Up2date
      <4>3. Now(w) = IF w \in DOMAIN p THEN p[w] ELSE told[c][w]
        BY <1>5, <1>6, <3>3, <4>2
      <4> QED BY <1>8, <2>1, <2>2, <4>3
    <3> QED BY <3>2, <3>3
  <2> QED BY <2>3, <2>4 DEF Up2date
<1> QED BY <1>7, <1>9, <1>10

LEMMA LookKeeps ==
    ASSUME AInv, Look
    PROVE  BotOK' /\ MessageOK' /\ ReportedOK' /\ NewsOK'
<1>1. Idle /\ Take(pending, firstDue) /\ UNCHANGED <<worker, chats, queue, told>>
  BY DEF Look, monitorVars, memory
<1>2. BotOK /\ pending \in News
  BY DEF AInv, BotOK
<1>3. /\ pending' \in News /\ reported' \in Reports
      /\ message' \in [due : News, to : SUBSET Chats, age : Nat]
      /\ MessageOK' /\ ReportedOK' /\ lost \subseteq lost'
  BY <1>1, <1>2, TakeTells
<1>4. \A c \in Chats, w \in ASICs :
         \/ <<c, w>> \in lost'
         \/ (IF w \in DOMAIN pending' THEN pending'[w] ELSE told'[c][w])
               = IF w \in DOMAIN pending THEN pending[w] ELSE told[c][w]
  BY <1>1, <1>2, TakeTells
<1>5. BotOK'
  BY <1>1, <1>2, <1>3 DEF BotOK
<1>6. NewsOK'
  <2> SUFFICES ASSUME NEW c \in Chats, NEW w \in DOMAIN worker, <<c, w>> \notin lost'
               PROVE  Up2date(c, w)'
    BY <1>1 DEF NewsOK
  <2>1. Up2date(c, w) /\ w \in ASICs
    BY <1>3, WorkersAre DEF AInv, NewsOK, MonitorOK
  <2>2. /\ Now(w)' = Now(w) /\ InQueue(w)' = InQueue(w)
        /\ \A i \in DOMAIN queue : Newest(w, i)' = Newest(w, i)
    BY <1>1 DEF Now, InQueue, Newest
  <2> QED BY <1>1, <1>4, <2>1, <2>2 DEF Up2date
<1> QED BY <1>3, <1>5, <1>6

(* What arrives is the change that is being sent. *)
LEMMA Arrives ==
    ASSUME BotOK, NEW arrived, Arrive(arrived)
    PROVE  /\ told' \in [Chats -> [ASICs -> States]]
           /\ \A c \in Chats, w \in ASICs :
                 told'[c][w] = IF c \in arrived /\ w \in DOMAIN message.due THEN message.due[w]
                               ELSE told[c][w]
<1> DEFINE due == message.due
<1>1. due \in News /\ told \in [Chats -> [ASICs -> States]]
  BY DEF BotOK
<1>2. DOMAIN due \subseteq ASICs /\ due \in [DOMAIN due -> States]
  BY <1>1, NewsAre
<1>3. told' = [c \in Chats |-> IF c \in arrived THEN Over(due, told[c]) ELSE told[c]]
  BY DEF Arrive
<1> HIDE DEF due
<1>4. \A c \in Chats : Over(due, told[c])
                          = [w \in ASICs |-> IF w \in DOMAIN due THEN due[w] ELSE told[c][w]]
  <2> SUFFICES ASSUME NEW c \in Chats
               PROVE  Over(due, told[c])
                         = [w \in ASICs |-> IF w \in DOMAIN due THEN due[w] ELSE told[c][w]]
    OBVIOUS
  <2>1. DOMAIN due \cup DOMAIN told[c] = ASICs
    BY <1>1, <1>2
  <2> QED BY <2>1 DEF Over
<1>5. \A c \in Chats : [w \in ASICs |-> IF w \in DOMAIN due THEN due[w] ELSE told[c][w]] \in [ASICs -> States]
  BY <1>1, <1>2
<1>6. told' \in [Chats -> [ASICs -> States]]
  BY <1>1, <1>3, <1>4, <1>5
<1>7. \A c \in Chats, w \in ASICs :
         told'[c][w] = IF c \in arrived /\ w \in DOMAIN due THEN due[w] ELSE told[c][w]
  BY <1>3, <1>4
<1> QED BY <1>6, <1>7 DEF due

LEMMA DeliverKeeps ==
    ASSUME AInv, Deliver
    PROVE  BotOK' /\ MessageOK' /\ ReportedOK' /\ NewsOK'
<1> DEFINE due == message.due
<1>1. PICK arrived \in SUBSET message.to \ {{}} :
         /\ Arrive(arrived)
         /\ Sent(due, pending, reported, message.age)
         /\ lost' = (lost \ Informed(arrived)) \cup ((Chats \ arrived) \X DOMAIN due)
         /\ message' = NoMessage
         /\ UNCHANGED <<worker, chats, queue>>
  BY DEF Deliver, monitorVars, memory
<1>2. /\ BotOK /\ due \in News /\ message.age \in Nat /\ pending \in News /\ reported \in Reports
      /\ \A w \in DOMAIN due : w \in DOMAIN pending /\ pending[w] = due[w]
  BY DEF AInv, BotOK, MessageOK
<1>3. /\ told' \in [Chats -> [ASICs -> States]]
      /\ \A c \in Chats, w \in ASICs :
            told'[c][w] = IF c \in arrived /\ w \in DOMAIN due THEN due[w] ELSE told[c][w]
  BY <1>1, <1>2, Arrives
<1>4. DOMAIN due \subseteq ASICs /\ DOMAIN reported \subseteq ASICs /\ DOMAIN worker \subseteq ASICs
  BY <1>2, NewsAre, ReportsAre, WorkersAre DEF AInv, MonitorOK
<1>5. lost' = (lost \ Informed(arrived)) \cup ((Chats \ arrived) \X DOMAIN due)
  BY <1>1
<1>6. \A c \in Chats, w \in DOMAIN due : <<c, w>> \notin lost' => c \in arrived
  BY <1>5
<1>7. \A c, w : <<c, w>> \in lost /\ <<c, w>> \notin lost' =>
                   w \in DOMAIN due /\ due[w] = Now(w) /\ ~InQueue(w)
  BY <1>5 DEF Informed
<1>8. Sent(due, pending, reported, message.age)
  BY <1>1
<1> HIDE DEF due
<1>9. /\ reported' \in Reports
      /\ DOMAIN reported' = DOMAIN reported \cup DOMAIN due
      /\ \A w \in DOMAIN due : reported'[w].state = due[w]
      /\ \A w \in DOMAIN reported \ DOMAIN due : reported'[w] = reported[w]
      /\ pending' = Without(pending, DOMAIN due)
  <2>1. due \in News /\ pending \in News /\ reported \in Reports /\ message.age \in Nat
    BY <1>2
  <2>2. reported' \in Reports /\ DOMAIN reported' = DOMAIN reported \cup DOMAIN due
    BY <1>8, <2>1, SentIs
  <2>3. \A w \in DOMAIN due : reported'[w].state = due[w]
    BY <1>8, <2>1, SentIs
  <2>4. \A w \in DOMAIN reported \ DOMAIN due : reported'[w] = reported[w]
    BY ZenonT(60), <1>8, <2>1, SentIs
  <2>5. pending' = Without(pending, DOMAIN due)
    BY <1>8, <2>1, SentIs
  <2> QED BY <2>2, <2>3, <2>4, <2>5
<1>10. pending' \in News /\ DOMAIN pending' = DOMAIN pending \ DOMAIN due
  BY <1>2, <1>9, NewsWithout
<1>11. \A w \in DOMAIN pending \ DOMAIN due : pending'[w] = pending[w]
  BY <1>9 DEF Without, Restrict
<1>12. BotOK'
  <2>1. NoMessage \in [due : News, to : SUBSET Chats, age : Nat]
    BY NoWorkers DEF NoMessage
  <2>2. chats' \in SUBSET Chats /\ queue' \in Seq(News) /\ message' \in [due : News, to : SUBSET Chats, age : Nat]
    BY <1>1, <1>2, <2>1 DEF BotOK
  <2> QED BY <1>3, <1>9, <1>10, <2>2 DEF BotOK
<1>13. MessageOK'
  BY <1>1 DEF MessageOK, NoMessage
<1>14. ReportedOK'
  <2> SUFFICES ASSUME NEW c \in Chats, NEW w \in DOMAIN reported', <<c, w>> \notin lost'
               PROVE  told'[c][w] = reported'[w].state
    BY DEF ReportedOK
  <2>1. CASE w \in DOMAIN due
    <3>1. c \in arrived /\ w \in ASICs
      BY <1>4, <1>6, <2>1
    <3> QED BY <1>3, <1>9, <2>1, <3>1
  <2>2. CASE w \notin DOMAIN due
    <3>1. w \in DOMAIN reported /\ w \in ASICs /\ reported'[w] = reported[w]
      BY <1>4, <1>9, <2>2
    <3>2. <<c, w>> \notin lost
      BY <1>7, <2>2
    <3>3. told[c][w] = reported[w].state
      BY <3>1, <3>2 DEF AInv, ReportedOK
    <3> QED BY <1>3, <2>2, <3>1, <3>3
  <2> QED BY <2>1, <2>2
<1>15. NewsOK'
  <2>1. worker' = worker /\ queue' = queue
    BY <1>1
  <2> SUFFICES ASSUME NEW c \in Chats, NEW w \in DOMAIN worker, <<c, w>> \notin lost'
               PROVE  Up2date(c, w)'
    BY <2>1 DEF NewsOK
  <2>2. /\ Now(w)' = Now(w) /\ InQueue(w)' = InQueue(w)
        /\ \A i \in DOMAIN queue : Newest(w, i)' = Newest(w, i)
    BY <2>1 DEF Now, InQueue, Newest
  <2>3. w \in ASICs
    BY <1>4
  <2>4. CASE <<c, w>> \in lost
    <3>1. w \in DOMAIN due /\ due[w] = Now(w) /\ ~InQueue(w)
      BY <1>7, <2>4
    <3>2. told'[c][w] = Now(w) /\ w \notin DOMAIN pending'
      BY <1>3, <1>6, <1>10, <2>3, <3>1
    <3>3. \A i \in DOMAIN queue : ~Newest(w, i)
      BY <3>1 DEF Newest, InQueue
    <3> QED BY <2>1, <2>2, <3>2, <3>3 DEF Up2date
  <2>5. CASE <<c, w>> \notin lost
    <3>1. Up2date(c, w)
      BY <2>5 DEF AInv, NewsOK
    <3>2. CASE w \in DOMAIN due
      <4>1. told'[c][w] = due[w] /\ w \notin DOMAIN pending' /\ w \in DOMAIN pending /\ pending[w] = due[w]
        BY <1>2, <1>3, <1>6, <1>10, <2>3, <3>2
      <4> QED BY <2>1, <2>2, <3>1, <4>1 DEF Up2date
    <3>3. CASE w \notin DOMAIN due
      <4>1. /\ told'[c][w] = told[c][w] /\ (w \in DOMAIN pending' <=> w \in DOMAIN pending)
            /\ w \in DOMAIN pending => pending'[w] = pending[w]
        BY <1>3, <1>10, <1>11, <2>3, <3>3
      <4> QED BY <2>1, <2>2, <3>1, <4>1 DEF Up2date
    <3> QED BY <3>2, <3>3
  <2> QED BY <2>4, <2>5
<1> QED BY <1>12, <1>13, <1>14, <1>15

LEMMA FailKeeps ==
    ASSUME AInv, Fail
    PROVE  BotOK' /\ MessageOK' /\ ReportedOK' /\ NewsOK'
<1> DEFINE due == message.due
<1>1. PICK arrived \in SUBSET message.to :
         /\ Arrive(arrived)
         /\ lost' = lost \cup (arrived \X DOMAIN due)
         /\ message' = NoMessage
         /\ UNCHANGED <<worker, chats, queue, pending, reported>>
  BY DEF Fail, Failed, monitorVars, memory
<1>2. BotOK /\ due \in News
  BY DEF AInv, BotOK
<1>3. /\ told' \in [Chats -> [ASICs -> States]]
      /\ \A c \in Chats, w \in ASICs :
            told'[c][w] = IF c \in arrived /\ w \in DOMAIN due THEN due[w] ELSE told[c][w]
  BY <1>1, <1>2, Arrives
<1>4. DOMAIN reported \subseteq ASICs /\ DOMAIN worker \subseteq ASICs
  BY <1>2, ReportsAre, WorkersAre DEF AInv, MonitorOK, BotOK
<1>5. /\ lost \subseteq lost'
      /\ \A c, w : <<c, w>> \notin lost' => ~(c \in arrived /\ w \in DOMAIN due)
  BY <1>1
<1> HIDE DEF due
<1>6. \A c \in Chats, w \in ASICs : <<c, w>> \notin lost' => told'[c][w] = told[c][w]
  BY <1>3, <1>5
<1>7. BotOK'
  <2>1. NoMessage \in [due : News, to : SUBSET Chats, age : Nat]
    BY NoWorkers DEF NoMessage
  <2> QED BY <1>1, <1>2, <1>3, <2>1 DEF BotOK
<1>8. MessageOK'
  BY <1>1 DEF MessageOK, NoMessage
<1>9. ReportedOK'
  BY ZenonT(60), <1>1, <1>4, <1>5, <1>6 DEF AInv, ReportedOK
<1>10. NewsOK'
  <2> SUFFICES ASSUME NEW c \in Chats, NEW w \in DOMAIN worker, <<c, w>> \notin lost'
               PROVE  Up2date(c, w)'
    BY <1>1 DEF NewsOK
  <2>1. Up2date(c, w) /\ told'[c][w] = told[c][w]
    BY <1>4, <1>5, <1>6 DEF AInv, NewsOK
  <2>2. /\ Now(w)' = Now(w) /\ InQueue(w)' = InQueue(w)
        /\ \A i \in DOMAIN queue : Newest(w, i)' = Newest(w, i)
    BY <1>1 DEF Now, InQueue, Newest
  <2> QED BY <1>1, <2>1, <2>2 DEF Up2date
<1> QED BY <1>7, <1>8, <1>9, <1>10

LEMMA StartOverKeeps ==
    ASSUME AInv, StartOver
    PROVE  BotOK' /\ MessageOK' /\ ReportedOK' /\ NewsOK'
<1>1. PICK arrived \in SUBSET message.to : Arrive(arrived)
  BY DEF StartOver
<1>2. /\ queue' = << >> /\ pending' = << >> /\ reported' = << >> /\ message' = NoMessage
      /\ chats' = chats
      /\ lost' = {x \in Chats \X ASICs :
                     \/ told'[x[1]][x[2]] # Now(x[2])'
                     \/ x[2] \notin DOMAIN worker' /\ (x[2] \in DOMAIN pending \/ InQueue(x[2]))}
  BY DEF StartOver
<1>3. BotOK /\ told' \in [Chats -> [ASICs -> States]]
  BY <1>1, Arrives DEF AInv
<1>4. NoMessage \in [due : News, to : SUBSET Chats, age : Nat]
  BY NoWorkers DEF NoMessage
<1>5. BotOK'
  BY <1>2, <1>3, <1>4, NoWorkers, EmptySeq DEF BotOK
<1>6. MessageOK' /\ ReportedOK'
  BY <1>2 DEF MessageOK, ReportedOK, NoMessage
<1>7. NewsOK'
  <2> SUFFICES ASSUME NEW c \in Chats, NEW w \in DOMAIN worker', <<c, w>> \notin lost'
               PROVE  Up2date(c, w)'
    BY DEF NewsOK
  <2>1. MonitorOK'
    BY RestartKeeps DEF AInv, StartOver
  <2>2. w \in ASICs
    BY <2>1, WorkersAre DEF MonitorOK
  <2>3. told'[c][w] = Now(w)'
    BY <1>2, <2>2
  <2> QED BY <1>2, <2>3 DEF Up2date, Newest
<1> QED BY <1>5, <1>6, <1>7

-----------------------------------------------------------------------------
(* As time passes, the records of the notifier forget messages, nothing else. *)

LEMMA Least ==
    ASSUME NEW S, S \subseteq Nat, S # {}
    PROVE  Min(S) \in S /\ \A n \in S : Min(S) <= n
<1> DEFINE R == OpToRel(<, Nat)
<1>0. \A x, y \in Nat : <<x, y>> \in R <=> x < y
  BY DEF OpToRel
<1>1. IsWellFoundedOn(R, Nat)
  BY NatLessThanWellFounded
<1> HIDE DEF R
<1>2. PICK m \in S : \A n \in S : ~(<<n, m>> \in R)
  BY <1>1, WFMin
<1>3. \A n \in S : m <= n
  <2> TAKE n \in S
  <2>1. m \in Nat /\ n \in Nat /\ ~(n < m)
    BY <1>0, <1>2
  <2> QED BY <2>1
<1> QED BY <1>3 DEF Min

(* What is within flapWindow keeps its place from the end. *)
LEMMA Recents ==
    ASSUME NEW s \in Seq(Nat)
    PROVE  /\ Recent(s) \in Seq(Nat)
           /\ \A i \in DOMAIN s : s[i] < FlapWindow =>
                 /\ Len(Recent(s)) > Len(s) - i
                 /\ \A k \in 0 .. Len(s) - i : Recent(s)[Len(Recent(s)) - k] = s[Len(s) - k]
<1> DEFINE within == {i \in DOMAIN s : s[i] < FlapWindow}
           m == Min(within)
<1>1. Len(s) \in Nat /\ DOMAIN s = 1 .. Len(s) /\ within \subseteq Nat /\ FlapWindow \in Nat
  BY LenProperties, FlapAssumption
<1>2. CASE within = {}
  BY <1>2, EmptySeq DEF Recent
<1>3. CASE within # {}
  <2>3. m \in within /\ \A z \in within : m <= z
    <3> HIDE DEF within
    <3> QED BY <1>1, <1>3, Least
  <2> HIDE DEF m
  <2>4. m \in 1 .. Len(s)
    BY <1>1, <2>3
  <2>5. Recent(s) = SubSeq(s, m, Len(s))
    BY <1>3 DEF Recent, m
  <2>6. /\ SubSeq(s, m, Len(s)) \in Seq(Nat)
        /\ Len(SubSeq(s, m, Len(s))) = Len(s) - m + 1
        /\ \A j \in 1 .. Len(s) - m + 1 : SubSeq(s, m, Len(s))[j] = s[m + j - 1]
    <3>1. \A i \in m .. Len(s) : s[i] \in Nat
      BY <1>1, <2>4
    <3> QED BY <1>1, <2>4, <3>1, SubSeqProperties
  <2>7. ASSUME NEW i \in DOMAIN s, s[i] < FlapWindow
        PROVE  /\ Len(Recent(s)) > Len(s) - i
               /\ \A k \in 0 .. Len(s) - i : Recent(s)[Len(Recent(s)) - k] = s[Len(s) - k]
    <3>1. m <= i /\ i \in 1 .. Len(s)
      BY <1>1, <2>3, <2>7
    <3>2. Len(Recent(s)) = Len(s) - m + 1
      BY <2>5, <2>6
    <3>3. ASSUME NEW k \in 0 .. Len(s) - i PROVE Recent(s)[Len(Recent(s)) - k] = s[Len(s) - k]
      <4>1. (Len(s) - m + 1) - k \in 1 .. Len(s) - m + 1
        BY <1>1, <2>4, <3>1
      <4>2. m + ((Len(s) - m + 1) - k) - 1 = Len(s) - k
        BY <1>1, <2>4, <3>1
      <4> QED BY <2>5, <2>6, <3>2, <4>1, <4>2
    <3> QED BY <1>1, <2>4, <3>1, <3>2, <3>3
  <2> QED BY <2>5, <2>6, <2>7
<1> QED BY <1>2, <1>3

(* The records a tick leaves. *)
LEMMA Aged ==
    ASSUME BotOK, Tick, NEW w \in DOMAIN reported
    PROVE  LET times == reported[w].times
               older == [i \in DOMAIN times |-> times[i] + 1]
           IN /\ times \in Seq(Nat) /\ older \in Seq(Nat) /\ Len(older) = Len(times)
              /\ reported'[w].times = Recent(older) /\ reported'[w].state = reported[w].state
              /\ reported'[w] \in Report
<1> DEFINE times == reported[w].times
           older == [i \in DOMAIN times |-> times[i] + 1]
<1>1. reported[w] \in Report /\ times \in Seq(Nat)
  BY ReportsAre DEF BotOK, Report
<1>2. Len(times) \in Nat /\ DOMAIN times = 1 .. Len(times) /\ \A i \in DOMAIN times : times[i] \in Nat
  BY <1>1, LenProperties
<1>3. older \in [1 .. Len(times) -> Nat]
  BY <1>2
<1>4. older \in Seq(Nat)
  BY <1>2, <1>3, SeqDef
<1>5. DOMAIN older = 1 .. Len(older) /\ Len(older) \in Nat /\ DOMAIN older = 1 .. Len(times)
  BY <1>2, <1>4, LenProperties
<1>6. Len(older) = Len(times)
  BY <1>2, <1>5
<1>7. reported'[w] = [reported[w] EXCEPT !.times = Recent(older)]
  BY DEF Tick
<1> HIDE DEF older
<1>8. Recent(older) \in Seq(Nat)
  BY <1>4, Recents
<1>9. /\ reported'[w].times = Recent(older) /\ reported'[w].state = reported[w].state
      /\ reported'[w] \in Report
  BY <1>1, <1>7, <1>8 DEF Report
<1> QED BY <1>1, <1>4, <1>6, <1>9 DEF older

LEMMA TickKeepsNews ==
    ASSUME AInv, Tick
    PROVE  BotOK' /\ MessageOK' /\ ReportedOK' /\ NewsOK'
<1>1. BotOK
  BY DEF AInv
<1>2. /\ UNCHANGED <<chats, queue, pending, told, lost>>
      /\ message' = message \/ message' = [message EXCEPT !.age = @ + 1]
      /\ DOMAIN reported' = DOMAIN reported
      /\ reported' = [w \in DOMAIN reported |-> reported'[w]]
      /\ worker' = [w \in DOMAIN worker |-> [worker[w] EXCEPT !.age = Older(@)]]
  BY DEF Tick, MonitorTick
<1>3. \A w \in DOMAIN reported : reported'[w] \in Report /\ reported'[w].state = reported[w].state
  BY <1>1, Aged
<1>4. reported' \in Reports
  BY <1>1, <1>2, <1>3, ReportsAre DEF BotOK
<1>5. message' \in [due : News, to : SUBSET Chats, age : Nat] /\ message'.due = message.due
  BY <1>1, <1>2 DEF BotOK
<1>6. BotOK'
  BY <1>1, <1>2, <1>4, <1>5 DEF BotOK
<1>7. MessageOK'
  BY <1>2, <1>5 DEF AInv, MessageOK
<1>8. ReportedOK'
  BY <1>2, <1>3 DEF AInv, ReportedOK
<1>9. NewsOK'
  <2>1. DOMAIN worker' = DOMAIN worker
    BY <1>2
  <2> SUFFICES ASSUME NEW c \in Chats, NEW w \in DOMAIN worker, <<c, w>> \notin lost
               PROVE  Up2date(c, w)'
    BY <1>2, <2>1 DEF NewsOK
  <2>2. Up2date(c, w)
    BY DEF AInv, NewsOK
  <2>3. worker'[w].off = worker[w].off
    <3>1. worker[w] \in WorkerRec /\ worker'[w] = [worker[w] EXCEPT !.age = Older(@)]
      BY <1>2, WorkersAre DEF AInv, MonitorOK
    <3> QED BY <3>1 DEF WorkerRec
  <2>4. Now(w)' = Now(w)
    BY <2>1, <2>3 DEF Now
  <2> QED BY <1>2, <2>2, <2>4 DEF Up2date, Newest, InQueue
<1> QED BY <1>6, <1>7, <1>8, <1>9

LEMMA AlertsInit == ASSUME Init PROVE AInv
<1>1. MonitorOK
  <2>1. /\ offlineAfter \in OfflineAfters /\ share = [w \in ASICs |-> Cap]
        /\ worker = << >> /\ disk = << >> /\ checked = FALSE
    BY DEF Init, MonitorInit
  <2>2. share \in [ASICs -> Ages] /\ worker \in Workers /\ disk \in Workers
    BY <2>1, Numbers, NoWorkers
  <2>3. SeenOK
    BY <2>1 DEF SeenOK
  <2> QED BY <2>1, <2>2, <2>3 DEF MonitorOK
<1>2. BotOK
  <2>1. NoMessage \in [due : News, to : SUBSET Chats, age : Nat]
    BY NoWorkers DEF NoMessage
  <2> QED BY <2>1, NoWorkers, EmptySeq DEF Init, BotOK, States
<1>3. MessageOK /\ ReportedOK /\ NewsOK
  BY DEF Init, MonitorInit, MessageOK, NoMessage, ReportedOK, NewsOK
<1> QED BY <1>1, <1>2, <1>3 DEF AInv

LEMMA AlertsStep == ASSUME AInv, [Next]_vars PROVE AInv'
<1>1. MonitorOK'
  BY MonitorKept DEF AInv
<1>2. CASE UNCHANGED <<worker, queue, notifier, message, told, lost>> /\ chats' \in SUBSET Chats
  <2>1. NewsOK'
    BY <1>2, NewsStay DEF AInv, notifier
  <2> QED BY <1>1, <1>2, <2>1 DEF AInv, BotOK, MessageOK, ReportedOK, notifier
<1>3. CASE ASICStep \/ SetChats \/ UNCHANGED vars
  <2>1. UNCHANGED worker
    BY <1>3, ASICKeeps DEF AInv, SetChats, vars, monitorVars, memory
  <2>2. UNCHANGED <<queue, notifier, message, told, lost>> /\ chats' \in SUBSET Chats
    BY <1>3 DEF ASICStep, SetChats, vars, history, AInv, BotOK
  <2> QED BY <1>2, <2>1, <2>2
<1>4. CASE CheckAndNotify
  BY <1>1, <1>4, NotifyKeeps DEF CheckAndNotify, AInv
<1>5. CASE Receive \/ Look \/ Deliver \/ Fail \/ StartOver \/ Tick
  BY <1>1, <1>5, ReceiveKeeps, LookKeeps, DeliverKeeps, FailKeeps, StartOverKeeps, TickKeepsNews DEF AInv
<1> QED BY <1>3, <1>4, <1>5 DEF Next

(* A chat has been told how an ASIC is, or is about to be, unless a message was
   lost on a way the code accepts (notifier.take, notifier.sent, Bot.Notify). *)
THEOREM NobodyMisled == Spec => []ChatKnows
<1>1. AInv => ChatKnows
  <2> SUFFICES ASSUME AInv, queue = << >>, NEW c \in Chats, NEW w \in DOMAIN worker, <<c, w>> \notin lost
               PROVE  Now(w) = IF w \in DOMAIN pending THEN pending[w] ELSE told[c][w]
    BY DEF ChatKnows
  <2>1. ~InQueue(w)
    BY DEF InQueue
  <2> QED BY <2>1 DEF AInv, NewsOK, Up2date
<1>2. Spec => []AInv
  BY AlertsInit, AlertsStep, PTL DEF Spec
<1> QED BY <1>1, <1>2, PTL

-----------------------------------------------------------------------------
(* Flapping. *)

(* The last two messages, as far as they are within flapWindow, are the last two
   in the record. *)
Remembers(times, last) ==
    /\ last[2] < FlapWindow => Len(times) >= 1 /\ times[Len(times)] = last[2]
    /\ last[1] < FlapWindow => Len(times) >= 2 /\ times[Len(times) - 1] = last[1]

SaidOK ==
    /\ said \in [ASICs -> Nat \X Nat]
    /\ \A w \in ASICs : Remembers(Times(reported, w), said[w])

FlapInv == AInv /\ SaidOK

LEMMA TimesType ==
    ASSUME NEW r \in Reports, NEW w PROVE Times(r, w) \in Seq(Nat)
<1>1. CASE w \in DOMAIN r
  <2>1. r[w] \in Report
    BY <1>1, ReportsAre
  <2> QED BY <1>1, <2>1 DEF Report, Times
<1>2. CASE w \notin DOMAIN r
  BY <1>2, EmptySeq DEF Times
<1> QED BY <1>1, <1>2

LEMMA OneMore ==
    ASSUME NEW times \in Seq(Nat), NEW last \in Nat \X Nat, NEW age \in Nat, Remembers(times, last)
    PROVE  Remembers(Append(times, age), <<last[2], age>>)
<1> DEFINE more == Append(times, age)
           two == <<last[2], age>>
<1>1. Len(times) \in Nat /\ Len(more) = Len(times) + 1 /\ more[Len(times) + 1] = age
  BY AppendProperties, LenProperties
<1>2. \A i \in 1 .. Len(times) : more[i] = times[i]
  BY AppendProperties
<1>3. two[1] = last[2] /\ two[2] = age
  OBVIOUS
<1> HIDE DEF more, two
<1>4. more[Len(more)] = age
  BY <1>1
<1>5. ASSUME last[2] < FlapWindow PROVE Len(more) >= 2 /\ more[Len(more) - 1] = last[2]
  <2>1. Len(times) >= 1 /\ times[Len(times)] = last[2]
    BY <1>5 DEF Remembers
  <2>2. Len(times) \in 1 .. Len(times) /\ Len(more) - 1 = Len(times)
    BY <1>1, <2>1
  <2> QED BY <1>1, <1>2, <2>1, <2>2
<1>6. Remembers(more, two)
  BY <1>1, <1>3, <1>4, <1>5 DEF Remembers
<1> QED BY <1>6 DEF more, two

LEMMA ATickLater ==
    ASSUME NEW times \in Seq(Nat), NEW older \in Seq(Nat), Len(older) = Len(times),
           \A i \in DOMAIN times : older[i] = times[i] + 1,
           NEW last \in Nat \X Nat, Remembers(times, last)
    PROVE  Remembers(Recent(older), <<Up(last[1], FlapWindow), Up(last[2], FlapWindow)>>)
<1> DEFINE recent == Recent(older)
           two == <<Up(last[1], FlapWindow), Up(last[2], FlapWindow)>>
           n == Len(times)
<1>1. n \in Nat /\ DOMAIN times = 1 .. n /\ DOMAIN older = 1 .. n /\ Len(older) = n
  BY LenProperties
<1>0. \A i \in 1 .. n : older[i] = times[i] + 1
  BY <1>1
<1>2. recent \in Seq(Nat) /\ Len(recent) \in Nat
  BY Recents, LenProperties
<1>3. \A i \in DOMAIN older : older[i] < FlapWindow => Len(recent) > Len(older) - i
  BY Recents
<1>4. \A i \in DOMAIN older : older[i] < FlapWindow =>
         \A k \in 0 .. Len(older) - i : recent[Len(recent) - k] = older[Len(older) - k]
  BY Recents
<1>5. /\ two[1] = IF last[1] < FlapWindow THEN last[1] + 1 ELSE last[1]
      /\ two[2] = IF last[2] < FlapWindow THEN last[2] + 1 ELSE last[2]
  BY DEF Up
<1> HIDE DEF recent, two, n
<1>6. ASSUME two[2] < FlapWindow PROVE Len(recent) >= 1 /\ recent[Len(recent)] = two[2]
  <2>1. last[2] < FlapWindow /\ two[2] = last[2] + 1
    BY <1>5, <1>6, FlapAssumption
  <2>2. n >= 1 /\ times[n] = last[2]
    BY <2>1 DEF Remembers, n
  <2>3. n \in 1 .. n /\ older[n] = two[2]
    <3>1. n \in 1 .. n
      BY <1>1, <2>2
    <3> QED BY <1>0, <2>1, <2>2, <3>1
  <2>4. Len(recent) > n - n /\ 0 \in 0 .. n - n
    BY SMTT(30), <1>1, <1>3, <1>6, <2>3
  <2>5. recent[Len(recent) - 0] = older[n - 0]
    BY <1>1, <1>4, <1>6, <2>3, <2>4
  <2> QED BY <1>1, <1>2, <2>3, <2>4, <2>5
<1>7. ASSUME two[1] < FlapWindow PROVE Len(recent) >= 2 /\ recent[Len(recent) - 1] = two[1]
  <2>1. last[1] < FlapWindow /\ two[1] = last[1] + 1
    BY <1>5, <1>7, FlapAssumption
  <2>2. n >= 2 /\ times[n - 1] = last[1]
    BY <2>1 DEF Remembers, n
  <2>3. n - 1 \in 1 .. n /\ older[n - 1] = two[1]
    <3>1. n - 1 \in 1 .. n
      BY <1>1, <2>2
    <3> QED BY <1>0, <2>1, <2>2, <3>1
  <2>4. Len(recent) > n - (n - 1) /\ 1 \in 0 .. n - (n - 1)
    <3>1. Len(recent) > n - (n - 1)
      BY <1>1, <1>3, <1>7, <2>3
    <3> QED BY <1>1, <3>1
  <2>5. recent[Len(recent) - 1] = older[n - 1]
    BY <1>1, <1>4, <1>7, <2>3, <2>4
  <2> QED BY <1>1, <1>2, <2>3, <2>4, <2>5
<1>8. Remembers(recent, two)
  BY <1>6, <1>7 DEF Remembers
<1> QED BY <1>8 DEF recent, two

(* A message that went out is recorded, by the notifier and by the history. *)
LEMMA SentRemembers ==
    ASSUME SaidOK, NEW due \in News, NEW p \in News, NEW r \in Reports, NEW age \in Nat,
           Sent(due, p, r, age), \A w \in ASICs : Times(r, w) = Times(reported, w)
    PROVE  SaidOK'
<1>1. /\ reported' \in Reports
      /\ DOMAIN reported' = DOMAIN r \cup DOMAIN due
  BY SentIs
<1>2. ASSUME NEW w \in DOMAIN due PROVE Times(reported', w) = Append(Times(r, w), age)
  <2> DEFINE times == Append(Times(r, w), age)
  <2>1. reported'[w] = [state |-> due[w], times |-> times] /\ w \in DOMAIN reported'
    BY DEF Sent, Times
  <2>2. reported'[w].times = times
    BY <2>1
  <2> QED BY <2>1, <2>2 DEF Times
<1>3. \A w \in DOMAIN r \ DOMAIN due : reported'[w] = r[w]
  BY SentIs
<1>4. said' = [w \in ASICs |-> IF w \in DOMAIN due THEN <<said[w][2], age>> ELSE said[w]]
  BY DEF Sent
<1>5. said' \in [ASICs -> Nat \X Nat]
  BY <1>4 DEF SaidOK
<1>6. ASSUME NEW w \in ASICs PROVE Remembers(Times(reported', w), said'[w])
  <2>1. Remembers(Times(r, w), said[w]) /\ said[w] \in Nat \X Nat /\ Times(r, w) \in Seq(Nat)
    BY TimesType DEF SaidOK
  <2>2. CASE w \in DOMAIN due
    <3>1. Times(reported', w) = Append(Times(r, w), age)
      BY <1>2, <2>2
    <3>2. said'[w] = <<said[w][2], age>>
      BY <1>4, <2>2
    <3> QED BY <2>1, <3>1, <3>2, OneMore
  <2>3. CASE w \notin DOMAIN due
    <3>1. Times(reported', w) = Times(r, w)
      BY <1>1, <1>3, <2>3 DEF Times
    <3>2. said'[w] = said[w]
      BY <1>4, <2>3
    <3> QED BY <2>1, <3>1, <3>2
  <2> QED BY <2>2, <2>3
<1> QED BY <1>5, <1>6 DEF SaidOK

LEMMA TakeRemembers ==
    ASSUME FlapInv, Idle, NEW p \in News, NEW first, Take(p, first)
    PROVE  /\ SaidOK'
           /\ \A w \in DOMAIN message'.due : ~Held(w)
<1> DEFINE known == {w \in DOMAIN p : Known(p, w)}
           rest == Without(p, known)
           held == {w \in DOMAIN rest : Held(w)}
           due == Without(rest, held)
           old == {w \in DOMAIN reported : Forgettable(w, rest)}
           kept == Without(reported, old)
           since == IF due = << >> THEN NoTime ELSE IF first = NoTime THEN 0 ELSE first
           go == due # << >> /\ since >= Batch /\ lastSent >= Gap
<1>1. reported \in Reports /\ rest \in News
  <2> HIDE DEF known
  <2> QED BY NewsWithout DEF FlapInv, AInv, BotOK
<1> HIDE DEF known, rest
<1>2. due \in News /\ \A w \in DOMAIN due : ~Held(w)
  <2>1. \A w \in DOMAIN rest \ held : ~Held(w)
    OBVIOUS
  <2> HIDE DEF held
  <2>2. due \in News /\ DOMAIN due = DOMAIN rest \ held
    BY <1>1, NewsWithout
  <2> QED BY <2>1, <2>2
<1>3. kept \in Reports /\ \A w \in ASICs : Times(kept, w) = Times(reported, w)
  <2>1. \A w \in old : reported[w].times = << >>
    BY DEF Forgettable
  <2> HIDE DEF old
  <2>2. kept \in Reports /\ DOMAIN kept = DOMAIN reported \ old
    BY <1>1, ReportsWithout
  <2>3. \A w \in DOMAIN reported \ old : kept[w] = reported[w]
    BY <1>1, ReportsWithout
  <2> QED BY <2>1, <2>2, <2>3 DEF Times
<1> HIDE DEF due, kept
<1>4. CASE go /\ chats = {}
  <2>1. Sent(due, rest, kept, 0) /\ UNCHANGED message
    BY <1>4 DEF Take, rest, known, due, held, kept, old
  <2>2. message'.due = << >>
    BY <2>1 DEF Idle, NoMessage
  <2> HIDE DEF go
  <2> QED BY <1>1, <1>2, <1>3, <2>1, <2>2, SentRemembers DEF FlapInv
<1>5. CASE ~(go /\ chats = {})
  <2>1. /\ reported' = kept /\ said' = said
        /\ message' = message \/ message' = [due |-> due, to |-> chats, age |-> 0]
    BY <1>5 DEF Take, rest, known, due, held, kept, old
  <2>2. message'.due = due \/ message'.due = << >>
    BY <2>1 DEF Idle, NoMessage
  <2>3. SaidOK'
    <3>1. \A w \in ASICs : Times(reported', w) = Times(reported, w)
      BY <1>3, <2>1
    <3> QED BY <2>1, <3>1 DEF FlapInv, SaidOK
  <2> HIDE DEF go
  <2> QED BY <1>2, <2>2, <2>3
<1> QED BY <1>4, <1>5

LEMMA TakenUp ==
    ASSUME FlapInv, Receive \/ Look
    PROVE  SaidOK' /\ \A w \in DOMAIN message'.due : ~Held(w)
<1>1. Idle /\ \E first : Take(pending, first) \/ (queue # << >> /\ Take(Over(Head(queue), pending), first))
  BY DEF Receive, Look
<1>2. pending \in News /\ queue \in Seq(News)
  BY DEF FlapInv, AInv, BotOK
<1>3. queue # << >> => Over(Head(queue), pending) \in News
  <2>1. queue # << >> => Head(queue) \in News
    BY <1>2
  <2> QED BY <1>2, <2>1, NewsOver
<1> QED BY <1>1, <1>2, <1>3, TakeRemembers

LEMMA SaidStep == ASSUME FlapInv, [Next]_vars PROVE SaidOK'
<1>0. BotOK /\ SaidOK
  BY DEF FlapInv, AInv
<1>1. CASE UNCHANGED <<reported, said>>
  BY <1>0, <1>1 DEF SaidOK
<1>2. CASE ASICStep \/ CheckAndNotify \/ Fail \/ SetChats \/ UNCHANGED vars
  BY <1>1, <1>2 DEF ASICStep, CheckAndNotify, Fail, Failed, SetChats, vars, notifier, history
<1>3. CASE Receive \/ Look
  BY <1>3, TakenUp
<1>4. CASE Deliver
  <2> DEFINE due == message.due
             age == message.age
  <2>1. Sent(due, pending, reported, age)
    BY <1>4 DEF Deliver
  <2>2. due \in News /\ pending \in News /\ reported \in Reports /\ age \in Nat
    BY <1>0 DEF BotOK
  <2> HIDE DEF due, age
  <2> QED BY <1>0, <2>1, <2>2, SentRemembers
<1>5. CASE StartOver
  <2>1. reported' = << >> /\ said' = [w \in ASICs |-> <<FlapWindow, FlapWindow>>]
    BY <1>5 DEF StartOver
  <2>2. FlapWindow \in Nat
    BY FlapAssumption
  <2> QED BY <2>1, <2>2 DEF SaidOK, Remembers, Times
<1>6. CASE Tick
  <2>1. /\ said' = [w \in ASICs |-> <<Up(said[w][1], FlapWindow), Up(said[w][2], FlapWindow)>>]
        /\ DOMAIN reported' = DOMAIN reported
    BY <1>6 DEF Tick
  <2>2. said' \in [ASICs -> Nat \X Nat]
    BY <1>0, <2>1 DEF SaidOK, Up
  <2>3. ASSUME NEW w \in ASICs PROVE Remembers(Times(reported', w), said'[w])
    <3>1. said[w] \in Nat \X Nat /\ Remembers(Times(reported, w), said[w])
      BY <1>0 DEF SaidOK
    <3>2. said'[w] = <<Up(said[w][1], FlapWindow), Up(said[w][2], FlapWindow)>>
      BY <2>1
    <3>3. CASE w \in DOMAIN reported
      <4> DEFINE times == reported[w].times
                 older == [i \in DOMAIN times |-> times[i] + 1]
      <4>1. /\ times \in Seq(Nat) /\ older \in Seq(Nat) /\ Len(older) = Len(times)
            /\ reported'[w].times = Recent(older)
        BY <1>0, <1>6, <3>3, Aged
      <4>2. \A i \in DOMAIN times : older[i] = times[i] + 1
        OBVIOUS
      <4> HIDE DEF older
      <4>3. Times(reported, w) = times /\ Times(reported', w) = Recent(older)
        BY <2>1, <3>3, <4>1 DEF Times
      <4> HIDE DEF times
      <4> QED BY <3>1, <3>2, <4>1, <4>2, <4>3, ATickLater
    <3>4. CASE w \notin DOMAIN reported
      <4>1. Times(reported, w) = << >> /\ Times(reported', w) = << >>
        BY <2>1, <3>4 DEF Times
      <4>2. said[w][1] >= FlapWindow /\ said[w][2] >= FlapWindow
        BY <3>1, <4>1, FlapAssumption DEF Remembers
      <4>3. said'[w] = said[w]
        BY <3>1, <3>2, <4>2, FlapAssumption DEF Up
      <4> QED BY <3>1, <4>1, <4>3
    <3> QED BY <3>3, <3>4
  <2> QED BY <2>2, <2>3 DEF SaidOK
<1> QED BY <1>2, <1>3, <1>4, <1>5, <1>6 DEF Next

(* A flapping ASIC is not reported more often than flapHold: after two messages
   within flapWindow the next one waits (notifier.take, notifier.sent). *)
THEOREM FlappingWaits == Spec => FlapLimited
<1>1. Init => FlapInv
  <2> SUFFICES ASSUME Init PROVE FlapInv
    OBVIOUS
  <2>1. reported = << >> /\ said = [w \in ASICs |-> <<FlapWindow, FlapWindow>>]
    BY DEF Init
  <2>2. SaidOK
    BY <2>1, FlapAssumption DEF SaidOK, Remembers, Times
  <2> QED BY <2>2, AlertsInit DEF FlapInv
<1>2. FlapInv /\ [Next]_vars => FlapInv'
  BY AlertsStep, SaidStep DEF FlapInv
<1>3. ASSUME FlapInv, [Next]_vars
      PROVE  [\A w \in ASICs :
                Idle /\ w \in DOMAIN message'.due =>
                    said[w][1] >= FlapWindow \/ said[w][2] >= FlapHold]_vars
  <2> SUFFICES ASSUME NEW w \in ASICs, Idle, w \in DOMAIN message'.due
               PROVE  said[w][1] >= FlapWindow \/ said[w][2] >= FlapHold
    OBVIOUS
  <2>1. message' # NoMessage
    BY DEF NoMessage
  <2>2. Receive \/ Look
    BY <1>3, <2>1 DEF Next, Idle, ASICStep, CheckAndNotify, Deliver, Fail, SetChats, StartOver, Tick, vars
  <2>3. ~Held(w)
    BY <1>3, <2>2, TakenUp
  <2>4. said[w] \in Nat \X Nat /\ Remembers(Times(reported, w), said[w])
    BY <1>3 DEF FlapInv, SaidOK
  <2>5. CASE w \notin DOMAIN reported
    <3>1. Times(reported, w) = << >>
      BY <2>5 DEF Times
    <3> QED BY <2>4, <3>1, FlapAssumption DEF Remembers
  <2>6. CASE w \in DOMAIN reported
    <3> DEFINE times == reported[w].times
    <3>1. times = Times(reported, w) /\ times \in Seq(Nat)
      BY <1>3, <2>6, TimesType DEF Times, FlapInv, AInv, BotOK
    <3>2. Len(times) \in Nat /\ DOMAIN times = 1 .. Len(times) /\ \A i \in DOMAIN times : times[i] \in Nat
      BY <3>1, LenProperties
    <3>3. ~(Len(times) >= FlapChanges /\ times[Len(times)] < FlapHold)
      BY <2>3, <2>6 DEF Held, Last
    <3>4. Remembers(times, said[w])
      BY <2>4, <3>1
    <3> HIDE DEF times
    <3> QED BY <2>4, <3>2, <3>3, <3>4, FlapAssumption DEF Remembers
  <2> QED BY <2>5, <2>6
<1> QED BY <1>1, <1>2, <1>3, PTL DEF Spec, FlapLimited

-----------------------------------------------------------------------------
(* Controls. *)

Actions == Offered \cup {Menu}
Questions == [action : Offered, token : Tokens, user : Users, message : Messages, age : 0 .. Life]
TapRecs == [user : Users, message : Messages, action : Actions, code : Nat]
Stage(places) == [at : places, message : Messages, user : Users, code : Nat, action : Actions]
Handling == Stage({"answered", "checking", "activate"})
Replying == [at : {"reply"}, message : Messages, code : Nat]

FarmOK ==
    /\ allowed \in BOOLEAN /\ cancelled \in BOOLEAN
    /\ pools \subseteq Pools /\ active \in pools /\ mode \in Modes

AskedOK ==
    /\ asked \in Seq(Questions) /\ ran \in Seq(Nat) /\ Len(ran) = Len(asked)
    /\ shown \subseteq DOMAIN asked /\ left \subseteq DOMAIN asked
    /\ \A c \in DOMAIN ran : ran[c] <= 1

(* What Telegram keeps carries no code that was not shown. *)
InboxOK ==
    /\ inbox \in [Tokens -> Seq(TapRecs)]
    /\ \A b \in Tokens : \A i \in DOMAIN inbox[b] : inbox[b][i].code \in shown \cup {0}

PollerOK ==
    /\ token \in Tokens /\ bot \in Tokens
    /\ fetched \in Nat /\ offset \in Nat
    /\ offset <= fetched /\ fetched <= Len(inbox[bot])

(* What is pending is the last question, which had no effect yet and whose user
   did not go on in its message. *)
PendingOK ==
    /\ asking \in {0, Len(asked)}
    /\ asking # 0 => ran[asking] = 0 /\ asking \notin left

(* The confirmation that is being handled is used up and had no effect yet. *)
HandlerOK ==
    /\ h \in {NoTap} \cup Handling \cup Replying
    /\ h.at # "idle" => h.code \in 0 .. Len(asked)
    /\ h.at \in {"checking", "activate"} => h.code # 0
    /\ h.at \in {"answered", "checking", "activate"} /\ h.code # 0 => ran[h.code] = 0 /\ asking = 0

CInv == FarmOK /\ AskedOK /\ InboxOK /\ PollerOK /\ PendingOK /\ HandlerOK

-----------------------------------------------------------------------------
(* The operators. *)

LEMMA Dropped ==
    ASSUME NEW S, NEW s \in Seq(S), NEW n \in 0 .. Len(s)
    PROVE  /\ Drop(s, n) \in Seq(S) /\ Len(Drop(s, n)) = Len(s) - n
           /\ \A i \in 1 .. Len(s) - n : Drop(s, n)[i] = s[n + i]
<1>1. Len(s) \in Nat /\ n + 1 \in Int /\ \A i \in n + 1 .. Len(s) : s[i] \in S
  BY LenProperties
<1>2. /\ SubSeq(s, n + 1, Len(s)) \in Seq(S)
      /\ Len(SubSeq(s, n + 1, Len(s))) = IF n + 1 <= Len(s) THEN Len(s) - (n + 1) + 1 ELSE 0
      /\ \A i \in 1 .. Len(s) - (n + 1) + 1 : SubSeq(s, n + 1, Len(s))[i] = s[(n + 1) + i - 1]
  BY <1>1, SubSeqProperties
<1> QED BY <1>1, <1>2 DEF Drop

(* A tap that a user makes is one that Telegram may keep. *)
LEMMA Tapped ==
    ASSUME CInv, NEW u \in Users, NEW m \in Messages,
           NEW t \in {Tap(u, m, a, 0) : a \in Offered \cup {Menu}} \cup {Tap(u, m, Menu, c) : c \in shown}
    PROVE  t \in TapRecs /\ t.code \in shown \cup {0}
<1>1. shown \subseteq Nat
  BY LenProperties DEF CInv, AskedOK
<1>2. CASE \E a \in Offered \cup {Menu} : t = Tap(u, m, a, 0)
  BY <1>2 DEF Tap, TapRecs, Actions
<1>3. CASE \E c \in shown : t = Tap(u, m, Menu, c)
  <2>1. PICK c \in shown : t = Tap(u, m, Menu, c)
    BY <1>3
  <2>2. c \in Nat /\ Menu \in Actions
    BY <1>1 DEF Actions
  <2> QED BY <2>1, <2>2 DEF Tap, TapRecs
<1> QED BY <1>2, <1>3

(* Time passes for all questions alike. *)
LEMMA QuestionsAged ==
    ASSUME AskedOK, Age
    PROVE  asked' \in Seq(Questions) /\ Len(asked') = Len(asked) /\ DOMAIN asked' = DOMAIN asked
<1> DEFINE aged(c) == [asked[c] EXCEPT !.age = IF @ < Life THEN @ + 1 ELSE @]
<1>1. DOMAIN asked = 1 .. Len(asked) /\ Len(asked) \in Nat /\ \A c \in DOMAIN asked : asked[c] \in Questions
  BY LenProperties DEF AskedOK
<1>2. \A c \in DOMAIN asked : aged(c) \in Questions
  BY <1>1, LifeAssumption DEF Questions
<1>3. asked' = [c \in 1 .. Len(asked) |-> aged(c)]
  BY <1>1 DEF Age
<1>4. asked' \in [1 .. Len(asked) -> Questions]
  BY <1>1, <1>2, <1>3
<1>5. asked' \in Seq(Questions)
  BY <1>1, <1>4, SeqDef
<1>6. DOMAIN asked' = 1 .. Len(asked') /\ Len(asked') \in Nat
  BY <1>5, LenProperties
<1> QED BY <1>1, <1>4, <1>5, <1>6

(* A tap that has been fetched. *)
LEMMA Fetched ==
    ASSUME CInv, offset < fetched
    PROVE  /\ inbox[bot][offset + 1] \in TapRecs
           /\ inbox[bot][offset + 1].code \in shown \cup {0}
<1>1. inbox[bot] \in Seq(TapRecs)
  BY DEF CInv, InboxOK, PollerOK
<1>2. Len(inbox[bot]) \in Nat /\ DOMAIN inbox[bot] = 1 .. Len(inbox[bot])
  BY <1>1, LenProperties
<1>3. offset \in Nat /\ fetched \in Nat /\ fetched <= Len(inbox[bot])
  BY DEF CInv, PollerOK
<1>4. offset + 1 \in 1 .. Len(inbox[bot])
  <2>1. Len(inbox[bot]) \in Nat BY <1>2
  <2>2. offset + 1 <= fetched BY <1>3
  <2>3. offset + 1 <= Len(inbox[bot]) BY <1>3, <2>1, <2>2
  <2> QED BY <1>3, <2>1, <2>3
<1> QED BY <1>1, <1>2, <1>4, ElementOfSeq DEF CInv, InboxOK, PollerOK

-----------------------------------------------------------------------------
(* The first state, and each part over a step. *)

LEMMA ControlsStart == ASSUME ControlsInit PROVE CInv
<1>1. token \in Tokens
  BY BotOfAssumption DEF ControlsInit, Messages
<1>2. FarmOK
  BY StartAssumption DEF ControlsInit, FarmOK
<1>3. AskedOK
  BY EmptySeq DEF ControlsInit, AskedOK
<1>4. InboxOK
  BY EmptySeq DEF ControlsInit, InboxOK
<1>5. PollerOK
  BY <1>1, EmptySeq DEF ControlsInit, PollerOK
<1>6. PendingOK
  BY EmptySeq DEF ControlsInit, PendingOK
<1>7. HandlerOK
  BY DEF ControlsInit, HandlerOK, NoTap
<1> QED BY <1>2, <1>3, <1>4, <1>5, <1>6, <1>7 DEF CInv

(* The shape of the handler in each place. *)
LEMMA Shapes ==
    ASSUME HandlerOK
    PROVE  /\ h.at \in {"answered", "checking", "activate"} => h \in Handling
           /\ h.at = "reply" => h \in Replying
           /\ h.at = "idle" => h = NoTap
           /\ h.at \in {"idle", "answered", "checking", "activate", "reply"}
  BY DEF HandlerOK, Handling, Replying, Stage, NoTap

LEMMA FarmKept == ASSUME CInv, [ControlsNext]_controlsVars PROVE FarmOK'
<1> USE DEF FarmOK, CInv, confirm, poller, outcome, farm
<1>1. CASE UNCHANGED controlsVars
  BY <1>1 DEF controlsVars
<1>2. CASE (\E t \in Taps : UserTaps(t[1], t[2])) \/ Age \/ SetToken
  BY <1>2 DEF UserTaps, Age, SetToken
<1>3. CASE SetAllowed
  BY <1>3 DEF SetAllowed
<1>4. CASE ChangedElsewhere
  BY <1>4 DEF ChangedElsewhere
<1>5. CASE BotCrash \/ Cancel \/ PollAsNew
  BY <1>5 DEF BotCrash, Cancel, PollAsNew
<1>6. CASE Poll \/ Handle \/ SayChecking \/ Answer
  BY <1>6 DEF Poll, Handle, SayChecking, Answer
<1>7. CASE GoOn
  <2>1. mode' = mode \/ (h.action.kind = "mode" /\ mode' = h.action.to /\ h \in Handling)
    BY <1>7, Shapes DEF GoOn, Ask
  <2>2. h.action.kind = "mode" /\ h \in Handling => h.action.to \in Modes
    BY OfferedAssumption DEF Handling, Stage, Actions, Menu
  <2> QED BY <1>7, <2>1, <2>2 DEF GoOn
<1>8. CASE Activate
  BY <1>8 DEF Activate
<1> QED BY <1>1, <1>2, <1>3, <1>4, <1>5, <1>6, <1>7, <1>8 DEF ControlsNext, Others, Bot

(* A confirmation is recorded as used only while it is handled. *)
LEMMA RanKept ==
    ASSUME AskedOK, NEW c \in 1 .. Len(asked), ran[c] = 0, Ran(c)
    PROVE  ran' \in Seq(Nat) /\ Len(ran') = Len(asked) /\ \A d \in DOMAIN ran' : ran'[d] <= 1
<1>1. /\ ran \in Seq(Nat) /\ c \in 1 .. Len(ran) /\ Len(ran) = Len(asked)
      /\ ran' = [ran EXCEPT ![c] = 1] /\ DOMAIN ran = 1 .. Len(ran)
  BY LenProperties DEF AskedOK, Ran
<1>2. /\ ran' \in Seq(Nat) /\ Len(ran') = Len(ran) /\ DOMAIN ran' = DOMAIN ran
      /\ \A d \in 1 .. Len(ran) : ran'[d] = IF d = c THEN 1 ELSE ran[d]
  BY <1>1, ExceptSeq, 1 \in Nat
<1> QED BY <1>1, <1>2 DEF AskedOK

(* A question is one more, at the end, without an effect yet. *)
LEMMA Asked ==
    ASSUME CInv, h.at = "answered", ~Stands, Ask
    PROVE  /\ asked' \in Seq(Questions) /\ Len(asked') = Len(asked) + 1
           /\ \A c \in DOMAIN asked : asked'[c] = asked[c]
           /\ ran' \in Seq(Nat) /\ Len(ran') = Len(ran) + 1
           /\ \A c \in DOMAIN ran : ran'[c] = ran[c]
           /\ ran'[Len(asked')] = 0
<1> DEFINE q == [action |-> h.action, token |-> token, user |-> h.user, message |-> h.message, age |-> 0]
<1>1. h \in Handling
  BY Shapes DEF CInv
<1>2. h.action \in Offered
  <2>1. h.action.kind # "menu"
    BY DEF Stands
  <2> QED BY <1>1, <2>1 DEF Handling, Stage, Actions, Menu
<1>3. q \in Questions
  BY <1>1, <1>2, LifeAssumption DEF Questions, Handling, Stage, CInv, PollerOK
<1>4. /\ asked \in Seq(Questions) /\ ran \in Seq(Nat) /\ Len(ran) = Len(asked) /\ Len(asked) \in Nat
      /\ DOMAIN asked = 1 .. Len(asked) /\ DOMAIN ran = 1 .. Len(ran)
  BY LenProperties DEF CInv, AskedOK
<1>5. asked' = Append(asked, q) /\ ran' = Append(ran, 0)
  BY DEF Ask
<1> HIDE DEF q
<1>6. /\ asked' \in Seq(Questions) /\ Len(asked') = Len(asked) + 1
      /\ \A c \in 1 .. Len(asked) : asked'[c] = asked[c]
  BY <1>3, <1>4, <1>5, AppendProperties
<1>7. /\ ran' \in Seq(Nat) /\ Len(ran') = Len(ran) + 1
      /\ (\A c \in 1 .. Len(ran) : ran'[c] = ran[c]) /\ ran'[Len(ran) + 1] = 0
  BY <1>4, <1>5, AppendProperties, 0 \in Nat
<1> QED BY <1>4, <1>6, <1>7

LEMMA AskedKept == ASSUME CInv, [ControlsNext]_controlsVars PROVE AskedOK'
<1> USE DEF confirm, poller, outcome, farm
<1>0. /\ AskedOK /\ HandlerOK /\ Len(asked) \in Nat
      /\ DOMAIN asked = 1 .. Len(asked) /\ DOMAIN ran = 1 .. Len(ran)
  BY LenProperties DEF CInv, AskedOK
<1>1. CASE UNCHANGED <<asked, shown, ran, left>>
  BY <1>0, <1>1 DEF AskedOK
<1>2. CASE (\E t \in Taps : UserTaps(t[1], t[2])) \/ SetToken \/ SetAllowed \/ ChangedElsewhere \/ BotCrash
           \/ Cancel \/ PollAsNew \/ Poll \/ SayChecking \/ UNCHANGED controlsVars
  BY <1>1, <1>2 DEF UserTaps, SetToken, SetAllowed, ChangedElsewhere, BotCrash, Cancel, PollAsNew, Poll,
                    SayChecking, controlsVars
<1>3. CASE Age
  BY <1>0, <1>3, QuestionsAged DEF AskedOK, Age
<1>4. CASE Handle
  <2>1. UNCHANGED <<asked, shown, ran>> /\ left' \subseteq left \cup DOMAIN asked
    BY <1>4 DEF Handle
  <2> QED BY <1>0, <2>1 DEF AskedOK
<1>5. CASE GoOn
  <2>1. CASE ~Stands /\ Ask /\ h.at = "answered"
    <3>1. /\ asked' \in Seq(Questions) /\ Len(asked') = Len(asked) + 1
          /\ ran' \in Seq(Nat) /\ Len(ran') = Len(ran) + 1 /\ \A c \in DOMAIN ran : ran'[c] = ran[c]
          /\ ran'[Len(asked')] = 0
      BY <2>1, Asked
    <3>2. DOMAIN asked' = 1 .. Len(asked) + 1 /\ DOMAIN ran' = 1 .. Len(asked) + 1
      BY <1>0, <3>1, LenProperties DEF AskedOK
    <3>3. UNCHANGED <<shown, left>>
      BY <1>5 DEF GoOn
    <3>4. \A c \in DOMAIN ran' : ran'[c] <= 1
      BY <1>0, <3>1, <3>2 DEF AskedOK
    <3>5. shown' \subseteq DOMAIN asked' /\ left' \subseteq DOMAIN asked'
      BY <1>0, <3>2, <3>3 DEF AskedOK
    <3> QED BY <1>0, <3>1, <3>4, <3>5 DEF AskedOK
  <2>2. CASE h.at = "answered" /\ h.code # 0 /\ Ran(h.code) /\ UNCHANGED <<asked, shown, left>>
    <3>1. h.code \in 1 .. Len(asked) /\ ran[h.code] = 0
      BY <1>0, <2>2 DEF HandlerOK
    <3> QED BY <1>0, <2>2, <3>1, RanKept DEF AskedOK
  <2> QED BY <1>1, <1>5, <2>1, <2>2 DEF GoOn
<1>6. CASE Activate
  <2>1. h.code \in 1 .. Len(asked) /\ ran[h.code] = 0
    BY <1>0, <1>6 DEF HandlerOK, Activate
  <2> QED BY <1>0, <1>6, <2>1, RanKept DEF AskedOK, Activate
<1>7. CASE Answer
  <2>1. UNCHANGED <<asked, ran, left>> /\ shown' \subseteq shown \cup ({h.code} \ {0})
    BY <1>7 DEF Answer
  <2>2. h.code \in 0 .. Len(asked)
    BY <1>0, <1>7 DEF HandlerOK, Answer
  <2> QED BY <1>0, <2>1, <2>2 DEF AskedOK
<1> QED BY <1>2, <1>3, <1>4, <1>5, <1>6, <1>7 DEF ControlsNext, Others, Bot

LEMMA InboxKept == ASSUME CInv, [ControlsNext]_controlsVars PROVE InboxOK'
<1> USE DEF confirm, poller, outcome, farm
<1>0. InboxOK /\ bot \in Tokens
  BY DEF CInv, PollerOK
<1>1. CASE inbox' = inbox /\ shown \subseteq shown'
  BY <1>0, <1>1 DEF InboxOK
<1>2. CASE Age \/ SetToken \/ SetAllowed \/ ChangedElsewhere \/ BotCrash \/ Cancel \/ PollAsNew
           \/ Handle \/ GoOn \/ SayChecking \/ Activate \/ UNCHANGED controlsVars
  BY <1>1, <1>2 DEF Age, SetToken, SetAllowed, ChangedElsewhere, BotCrash, Cancel, PollAsNew, Handle, GoOn,
                    SayChecking, Activate, controlsVars
<1>3. CASE Answer
  BY <1>1, <1>3 DEF Answer
<1>4. ASSUME NEW p \in Taps, UserTaps(p[1], p[2]) PROVE InboxOK'
  <2> DEFINE b == BotOf[p[2]]
  <2>1. p[1] \in Users /\ p[2] \in Messages /\ b \in Tokens
    BY TapsAssumption, BotOfAssumption DEF Messages
  <2>2. PICK t \in {Tap(p[1], p[2], a, 0) : a \in Offered \cup {Menu}}
               \cup {Tap(p[1], p[2], Menu, c) : c \in shown} :
           inbox' = [inbox EXCEPT ![b] = Append(@, t)]
    BY <1>4 DEF UserTaps
  <2>3. t \in TapRecs /\ t.code \in shown \cup {0}
    BY <2>1, <2>2, Tapped
  <2> HIDE DEF b
  <2>4. inbox[b] \in Seq(TapRecs)
    BY <1>0, <2>1 DEF InboxOK
  <2>5. /\ Append(inbox[b], t) \in Seq(TapRecs) /\ Len(Append(inbox[b], t)) = Len(inbox[b]) + 1
        /\ \A i \in 1 .. Len(inbox[b]) : Append(inbox[b], t)[i] = inbox[b][i]
        /\ Append(inbox[b], t)[Len(inbox[b]) + 1] = t
    BY <2>3, <2>4, AppendProperties
  <2>6. /\ Len(inbox[b]) \in Nat /\ DOMAIN inbox[b] = 1 .. Len(inbox[b])
        /\ DOMAIN Append(inbox[b], t) = 1 .. Len(inbox[b]) + 1
    BY <2>4, <2>5, LenProperties
  <2>7. \A i \in DOMAIN Append(inbox[b], t) : Append(inbox[b], t)[i].code \in shown \cup {0}
    BY <1>0, <2>1, <2>3, <2>5, <2>6 DEF InboxOK
  <2>8. UNCHANGED shown
    BY <1>4 DEF UserTaps
  <2> QED BY <1>0, <2>1, <2>2, <2>5, <2>7, <2>8 DEF InboxOK
<1>5. CASE Poll
  <2>1. inbox[bot] \in Seq(TapRecs) /\ offset \in 0 .. Len(inbox[bot])
    <3>1. inbox[bot] \in Seq(TapRecs)
      BY <1>0 DEF InboxOK
    <3>2. Len(inbox[bot]) \in Nat
      BY <3>1, LenProperties
    <3> QED BY <3>1, <3>2 DEF CInv, PollerOK
  <2>2. /\ Drop(inbox[bot], offset) \in Seq(TapRecs)
        /\ \A i \in 1 .. Len(inbox[bot]) - offset : Drop(inbox[bot], offset)[i] = inbox[bot][offset + i]
        /\ Len(Drop(inbox[bot], offset)) = Len(inbox[bot]) - offset
    BY <2>1, Dropped
  <2>3. /\ Len(inbox[bot]) \in Nat /\ DOMAIN inbox[bot] = 1 .. Len(inbox[bot])
        /\ DOMAIN Drop(inbox[bot], offset) = 1 .. Len(inbox[bot]) - offset
    BY <2>1, <2>2, LenProperties
  <2>4. \A i \in DOMAIN Drop(inbox[bot], offset) : Drop(inbox[bot], offset)[i].code \in shown \cup {0}
    <3>1. ASSUME NEW i \in 1 .. Len(inbox[bot]) - offset PROVE offset + i \in 1 .. Len(inbox[bot])
      BY <2>1, <2>3
    <3> QED BY <1>0, <2>2, <2>3, <3>1 DEF InboxOK
  <2>5. inbox' = [inbox EXCEPT ![bot] = Drop(inbox[bot], offset)] /\ UNCHANGED shown
    BY <1>5 DEF Poll
  <2> QED BY <1>0, <2>2, <2>4, <2>5 DEF InboxOK
<1> QED BY <1>2, <1>3, <1>4, <1>5 DEF ControlsNext, Others, Bot

LEMMA PollerKept == ASSUME CInv, [ControlsNext]_controlsVars PROVE PollerOK'
<1> USE DEF confirm, poller, outcome, farm
<1>0. /\ PollerOK /\ inbox \in [Tokens -> Seq(TapRecs)]
      /\ \A b \in Tokens : Len(inbox[b]) \in Nat
  BY LenProperties DEF CInv, InboxOK
<1>1. CASE UNCHANGED <<token, inbox, bot, fetched, offset>>
  BY <1>0, <1>1 DEF PollerOK
<1>2. CASE Age \/ SetAllowed \/ ChangedElsewhere \/ Cancel
           \/ GoOn \/ SayChecking \/ Activate \/ Answer \/ UNCHANGED controlsVars
  BY <1>1, <1>2 DEF Age, SetAllowed, ChangedElsewhere, Cancel, GoOn, SayChecking, Activate, Answer, controlsVars
<1>3. CASE SetToken
  BY <1>0, <1>3 DEF SetToken, PollerOK
<1>4. CASE PollAsNew \/ BotCrash
  <2>1. bot' = token /\ fetched' = 0 /\ offset' = 0 /\ UNCHANGED <<token, inbox>>
    BY <1>4 DEF PollAsNew, BotCrash
  <2> QED BY <1>0, <2>1 DEF PollerOK
<1>5. CASE Handle
  <2>1. offset' = offset + 1 /\ offset < fetched /\ UNCHANGED <<token, inbox, bot, fetched>>
    BY <1>5 DEF Handle
  <2> QED BY <1>0, <2>1 DEF PollerOK
<1>6. ASSUME NEW p \in Taps, UserTaps(p[1], p[2]) PROVE PollerOK'
  <2>1. UNCHANGED <<token, bot, fetched, offset>>
    BY <1>6 DEF UserTaps
  <2>2. PICK t : inbox' = [inbox EXCEPT ![BotOf[p[2]]] = Append(@, t)] /\ t \in TapRecs
    <3>1. p[1] \in Users /\ p[2] \in Messages
      BY TapsAssumption DEF Messages
    <3> QED BY <1>6, <3>1, Tapped DEF UserTaps
  <2>3. \A b \in Tokens : Len(inbox'[b]) >= Len(inbox[b])
    BY <1>0, <2>2, AppendProperties
  <2>4. fetched <= Len(inbox'[bot'])
    <3>1. Len(inbox'[bot]) >= Len(inbox[bot]) /\ Len(inbox[bot]) \in Nat /\ Len(inbox'[bot]) \in Nat
      <4>1. inbox' \in [Tokens -> Seq(TapRecs)] /\ bot \in Tokens
        BY InboxKept DEF InboxOK, CInv, PollerOK
      <4> QED BY <1>0, <2>3, <4>1, LenProperties
    <3> QED BY <1>0, <2>1, <3>1 DEF PollerOK
  <2> QED BY <1>0, <2>1, <2>4 DEF PollerOK
<1>7. CASE Poll
  <2>1. UNCHANGED <<token, bot>> /\ offset' = 0 /\ fetched' \in {0, Len(inbox'[bot])}
    BY <1>7 DEF Poll
  <2>2. Len(inbox'[bot]) \in Nat
    BY InboxKept, LenProperties DEF InboxOK, CInv, PollerOK
  <2> QED BY <1>0, <2>1, <2>2 DEF PollerOK
<1> QED BY <1>2, <1>3, <1>4, <1>5, <1>6, <1>7 DEF ControlsNext, Others, Bot

(* The tap taken up: a confirmation is the pending one, and no longer pends. *)
LEMMA TapTaken ==
    ASSUME CInv, Handle, h' # h
    PROVE  /\ h' \in Handling /\ h'.at = "answered" /\ h'.code \in 0 .. Len(asked)
           /\ h'.code # 0 => /\ h'.code = asking /\ asking' = 0 /\ h'.code \in shown
                             /\ asked[asking].token = token /\ asked[asking].age < Life
                             /\ h'.user = asked[asking].user /\ h'.message = asked[asking].message
                             /\ h'.action = asked[asking].action
<1> DEFINE t == inbox[bot][offset + 1]
           g == [at |-> "answered", message |-> t.message, user |-> t.user, code |-> t.code,
                 action |-> IF t.code = 0 THEN t.action ELSE asked[t.code].action]
<1>1. t \in TapRecs /\ t.code \in shown \cup {0}
  BY Fetched DEF Handle
<1>2. (t.code # 0 => Counts(t)) /\ asking' = Stays(t) /\ h' = g
  BY DEF Handle
<1>3. shown \subseteq 1 .. Len(asked) /\ Len(asked) \in Nat /\ \A c \in 1 .. Len(asked) : asked[c] \in Questions
  BY LenProperties DEF CInv, AskedOK
<1> HIDE DEF t
<1>4. g.action \in Actions
  <2>1. CASE t.code = 0
    BY <1>1, <2>1 DEF TapRecs
  <2>2. CASE t.code # 0
    BY <1>1, <1>3, <2>2 DEF Questions, Actions
  <2> QED BY <2>1, <2>2
<1>5. g \in Handling
  BY <1>1, <1>4 DEF TapRecs, Handling, Stage
<1>6. ASSUME t.code # 0
      PROVE  /\ t.code = asking /\ asking' = 0 /\ g.action = asked[asking].action
             /\ asked[asking].token = token /\ asked[asking].age < Life
             /\ t.user = asked[asking].user /\ t.message = asked[asking].message
  BY <1>2, <1>6 DEF Counts, Stays
<1>7. g.at = "answered" /\ g.code = t.code /\ g.user = t.user /\ g.message = t.message
  OBVIOUS
<1> HIDE DEF g
<1>8. h'.code \in 0 .. Len(asked) /\ (h'.code # 0 => h'.code \in shown)
  <2>1. h'.code = t.code
    BY <1>2, <1>7
  <2>2. Len(asked) \in Nat /\ \A c \in shown : c \in 0 .. Len(asked)
    BY <1>3
  <2> QED BY <1>1, <2>1, <2>2
<1> QED BY <1>2, <1>5, <1>6, <1>7, <1>8

LEMMA PendingKept == ASSUME CInv, [ControlsNext]_controlsVars PROVE PendingOK'
<1> USE DEF confirm, poller, outcome, farm
<1>0. PendingOK /\ AskedOK /\ HandlerOK /\ Len(asked) \in Nat /\ DOMAIN asked = 1 .. Len(asked)
  BY LenProperties DEF CInv, AskedOK
<1>1. CASE UNCHANGED <<asking, asked, ran, left>>
  BY <1>0, <1>1 DEF PendingOK
<1>2. CASE (\E t \in Taps : UserTaps(t[1], t[2])) \/ SetAllowed \/ ChangedElsewhere
           \/ Cancel \/ PollAsNew \/ Poll \/ SayChecking \/ Answer \/ UNCHANGED controlsVars
  BY <1>1, <1>2 DEF UserTaps, SetAllowed, ChangedElsewhere, Cancel, PollAsNew, Poll,
                    SayChecking, Answer, controlsVars
<1>3. CASE asking' = 0
  BY <1>3 DEF PendingOK
<1>4. CASE SetToken \/ BotCrash
  BY <1>3, <1>4 DEF SetToken, BotCrash
<1>5. CASE Age
  <2>1. Len(asked') = Len(asked) /\ UNCHANGED <<asking, ran, left>>
    BY <1>0, <1>5, QuestionsAged DEF Age
  <2> QED BY <1>0, <2>1 DEF PendingOK
<1>6. CASE Handle
  <2> DEFINE t == inbox[bot][offset + 1]
             his == {c \in DOMAIN asked : asked[c].user = t.user /\ asked[c].message = t.message}
  <2>1. UNCHANGED <<asked, ran>>
    BY <1>6 DEF Handle
  <2>2. \/ UNCHANGED <<asking, left>>
        \/ asking' = Stays(t) /\ left' = IF t.code # 0 THEN left ELSE left \cup his
    BY <1>6 DEF Handle
  <2>3. Stays(t) # 0 => Stays(t) = asking /\ t.code = 0 /\ asking \notin his
    BY DEF Stays
  <2> HIDE DEF t, his
  <2> QED BY <1>0, <1>1, <1>3, <2>1, <2>2, <2>3 DEF PendingOK
<1>7. CASE GoOn
  <2>1. CASE h.at = "answered" /\ ~Stands /\ Ask /\ UNCHANGED left
    <3>1. Len(asked') = Len(asked) + 1 /\ ran'[Len(asked')] = 0
      BY <2>1, Asked
    <3>2. asking' = Len(asked')
      BY <2>1 DEF Ask
    <3>3. Len(asked') \notin left'
      BY <1>0, <2>1, <3>1 DEF AskedOK
    <3> QED BY <3>1, <3>2, <3>3 DEF PendingOK
  <2>2. CASE h.at = "answered" /\ h.code # 0 /\ UNCHANGED asking
    <3>1. asking' = 0
      BY <1>0, <2>2 DEF HandlerOK
    <3> QED BY <1>3, <3>1
  <2> QED BY <1>1, <1>7, <2>1, <2>2 DEF GoOn
<1>8. CASE Activate
  <2>1. asking' = 0
    BY <1>0, <1>8 DEF Activate, HandlerOK
  <2> QED BY <1>3, <2>1
<1> QED BY <1>2, <1>4, <1>5, <1>6, <1>7, <1>8 DEF ControlsNext, Others, Bot

LEMMA HandlerKept == ASSUME CInv, [ControlsNext]_controlsVars PROVE HandlerOK'
<1> USE DEF confirm, poller, outcome, farm
<1>0. /\ PendingOK /\ AskedOK /\ HandlerOK /\ Len(asked) \in Nat
      /\ DOMAIN asked = 1 .. Len(asked) /\ DOMAIN ran = 1 .. Len(asked)
  BY LenProperties DEF CInv, AskedOK
<1>1. CASE UNCHANGED <<h, ran>> /\ Len(asked') = Len(asked) /\ (asking' = asking \/ asking' = 0)
  BY <1>0, <1>1 DEF HandlerOK
<1>2. CASE (\E t \in Taps : UserTaps(t[1], t[2])) \/ SetAllowed \/ ChangedElsewhere \/ SetToken
           \/ Cancel \/ PollAsNew \/ Poll \/ UNCHANGED controlsVars
  BY <1>1, <1>2 DEF UserTaps, SetAllowed, ChangedElsewhere, SetToken, Cancel, PollAsNew, Poll, controlsVars
<1>3. CASE Age
  BY <1>0, <1>1, <1>3, QuestionsAged DEF Age
<1>4. CASE h' = NoTap
  BY <1>4 DEF HandlerOK, NoTap
<1>5. CASE BotCrash \/ Answer
  BY <1>4, <1>5 DEF BotCrash, Answer
<1>6. CASE \E code \in 0 .. Len(asked') : h.at # "idle" /\ Reply(code)
  <2>1. PICK code \in 0 .. Len(asked') : h.at # "idle" /\ Reply(code)
    BY <1>6
  <2>2. h.message \in Messages
    <3>1. h \in Handling \/ h \in Replying
      BY <1>0, <2>1, Shapes
    <3> QED BY <3>1 DEF Handling, Replying, Stage
  <2>3. Len(asked') \in Nat
    BY AskedKept, LenProperties DEF AskedOK
  <2>4. h' \in Replying /\ h'.code = code /\ h'.at = "reply"
    BY <2>1, <2>2, <2>3 DEF Reply, Replying
  <2> QED BY <2>1, <2>4 DEF HandlerOK
<1>7. CASE Handle
  <2>1. CASE h' = h
    <3>1. h' = NoTap
      BY <1>7, <2>1 DEF Handle
    <3> QED BY <1>4, <3>1
  <2>2. CASE h' # h
    <3>1. UNCHANGED <<asked, ran>>
      BY <1>7 DEF Handle
    <3>2. /\ h' \in Handling /\ h'.at = "answered" /\ h'.code \in 0 .. Len(asked)
          /\ h'.code # 0 => h'.code = asking /\ asking' = 0
      BY <1>7, <2>2, TapTaken
    <3> QED BY <1>0, <3>1, <3>2 DEF HandlerOK, PendingOK
  <2> QED BY <2>1, <2>2
<1>8. CASE GoOn
  <2>1. h.at = "answered" /\ h \in Handling /\ h.code \in 0 .. Len(asked)
    BY <1>0, <1>8, Shapes DEF GoOn, HandlerOK
  <2>2. CASE Reply(0)
    <3>1. 0 \in 0 .. Len(asked')
      BY AskedKept, LenProperties DEF AskedOK
    <3> QED BY <1>6, <2>1, <2>2, <3>1
  <2>3. CASE ~Stands /\ Ask
    <3>1. Len(asked') \in 0 .. Len(asked')
      BY AskedKept, LenProperties DEF AskedOK
    <3> QED BY <1>6, <2>1, <2>3, <3>1 DEF Ask
  <2>4. CASE h.code # 0 /\ h' = [h EXCEPT !.at = "checking"] /\ UNCHANGED <<asking, asked, ran>>
    <3>1. h' \in Handling /\ h'.code = h.code /\ h'.at = "checking"
      BY <2>1, <2>4 DEF Handling, Stage
    <3> QED BY <1>0, <2>1, <2>4, <3>1 DEF HandlerOK
  <2> QED BY <1>4, <1>8, <2>2, <2>3, <2>4 DEF GoOn
<1>9. CASE SayChecking
  <2>1. h.at = "checking" /\ h \in Handling /\ h.code \in 0 .. Len(asked) /\ h.code # 0
    BY <1>0, <1>9, Shapes DEF SayChecking, HandlerOK
  <2>2. CASE h' = [h EXCEPT !.at = "activate"]
    <3>1. h' \in Handling /\ h'.code = h.code /\ h'.at = "activate"
      BY <2>1, <2>2 DEF Handling, Stage
    <3>2. UNCHANGED <<asking, asked, ran>>
      BY <1>9 DEF SayChecking
    <3> QED BY <1>0, <2>1, <3>1, <3>2 DEF HandlerOK
  <2> QED BY <1>4, <1>9, <2>2 DEF SayChecking
<1>10. CASE Activate
  <2>1. h.at # "idle" /\ 0 \in 0 .. Len(asked') /\ Reply(0)
    <3>1. 0 \in 0 .. Len(asked')
      BY AskedKept, LenProperties DEF AskedOK
    <3> QED BY <1>10, <3>1 DEF Activate
  <2> QED BY <1>6, <2>1
<1> QED BY <1>2, <1>3, <1>5, <1>7, <1>8, <1>9, <1>10 DEF ControlsNext, Others, Bot

-----------------------------------------------------------------------------
(* The results. *)

LEMMA ControlsInv == ControlsSpec => []CInv
<1>1. CInv /\ [ControlsNext]_controlsVars => CInv'
  BY FarmKept, AskedKept, InboxKept, PollerKept, PendingKept, HandlerKept DEF CInv
<1> QED BY ControlsStart, <1>1, PTL DEF ControlsSpec

(* The types of the variables, for any users, bots and targets (controls.go,
   telegram.go). *)
THEOREM ControlsTyped == ControlsSpec => []TypeOK
<1>1. CInv => TypeOK
  <2> SUFFICES ASSUME CInv PROVE TypeOK
    OBVIOUS
  <2>1. /\ Len(asked) \in Nat /\ DOMAIN asked = 1 .. Len(asked)
        /\ \A c \in DOMAIN asked : asked[c] \in Questions
    BY LenProperties DEF CInv, AskedOK
  <2>2. asking \in 0 .. Len(asked)
    <3>1. Len(asked) \in Nat
      BY <2>1
    <3>2. asking = 0 \/ asking = Len(asked)
      BY DEF CInv, PendingOK
    <3> QED BY <3>1, <3>2
  <2>3. h.at \in {"idle", "answered", "checking", "activate", "reply"}
    BY Shapes DEF CInv
  <2> QED BY <2>1, <2>2, <2>3 DEF TypeOK, CInv, FarmOK, AskedOK, PollerOK, Questions
<1> QED BY ControlsInv, <1>1, PTL

(* A confirmation takes effect once at most, however often its tap is delivered,
   made again, or met by a crash (Bot.confirmed, controls.go:231). *)
THEOREM EachOnce == ControlsSpec => []Once
<1>1. CInv => Once
  BY DEF CInv, AskedOK, Once
<1> QED BY ControlsInv, <1>1, PTL

(* What a tap confirms is the last question of the chat, still open for its user
   in its message under its bot, and shown to him (Bot.confirmed). *)
THEOREM OnlySanctioned == ControlsSpec => Sanctioned
<1>1. ASSUME CInv, [ControlsNext]_controlsVars
      PROVE  [\A c \in DOMAIN asked :
                h.at = "idle" /\ h'.at = "answered" /\ h'.code = c =>
                   /\ c \in shown \ left /\ c = Len(asked) /\ ran[c] = 0
                   /\ asked[c].token = token /\ asked[c].age < Life
                   /\ h'.user = asked[c].user /\ h'.message = asked[c].message
                   /\ h'.action = asked[c].action]_controlsVars
  <2> SUFFICES ASSUME NEW c \in DOMAIN asked, h.at = "idle", h'.at = "answered", h'.code = c
               PROVE  /\ c \in shown \ left /\ c = Len(asked) /\ ran[c] = 0
                      /\ asked[c].token = token /\ asked[c].age < Life
                      /\ h'.user = asked[c].user /\ h'.message = asked[c].message
                      /\ h'.action = asked[c].action
    OBVIOUS
  <2>1. c # 0
    BY LenProperties DEF CInv, AskedOK
  <2>2. h' # h
    OBVIOUS
  <2>3. Handle
    BY <1>1, <2>2 DEF ControlsNext, Others, Bot, UserTaps, Age, SetToken, SetAllowed, ChangedElsewhere, BotCrash,
                      Cancel, Poll, GoOn, SayChecking, Activate, Answer, PollAsNew, NoTap, controlsVars
  <2>4. /\ c = asking /\ c \in shown
        /\ asked[c].token = token /\ asked[c].age < Life
        /\ h'.user = asked[c].user /\ h'.message = asked[c].message /\ h'.action = asked[c].action
    BY <1>1, <2>1, <2>2, <2>3, TapTaken
  <2>5. c = Len(asked) /\ ran[c] = 0 /\ c \notin left
    BY <1>1, <2>1, <2>4 DEF CInv, PendingOK
  <2> QED BY <2>4, <2>5
<1> QED BY ControlsInv, <1>1, PTL DEF ControlsSpec, Sanctioned
================================================================================
