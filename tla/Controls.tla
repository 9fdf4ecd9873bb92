-------------------------------- MODULE Controls --------------------------------
(***************************************************************************)
(* The buttons of the Telegram bot (internal/telegram/controls.go) and the *)
(* polling that brings the taps (telegram.go): a switch or a change of mode*)
(* is shown for confirmation first, and the confirmation works once, for   *)
(* two minutes, for its user, in its message, under the bot that asked.    *)
(*                                                                         *)
(* Telegram keeps a tap until the bot asks for later ones, so a tap may be *)
(* delivered again; a user may tap whatever was ever shown.  One chat: the *)
(* bot keeps a confirmation for each and nothing they share.               *)
(*                                                                         *)
(* Names differ from those of Alerts, the other half of the bot, so that   *)
(* TelegramProofs can extend both: asking is Bot.pending.                  *)
(***************************************************************************)
EXTENDS Naturals, Sequences, FiniteSets

CONSTANTS
    Users,
    Tokens, BotOf,   \* bots; BotOf[m] is the bot whose message m is
    Pools, Modes,    \* targets of a switch; values of a mode
    Start,           \* where the farm may be at first: pools and modes
    Offered,         \* the switches and changes among the buttons
    Life,            \* how long a confirmation is valid, in ticks
    Taps,            \* bound: who taps in which message, as pairs
    MaxTaps, MaxInbox, MaxFaults

ASSUME BotOfAssumption == \A m \in DOMAIN BotOf : BotOf[m] \in Tokens
ASSUME OfferedAssumption ==
    Offered \subseteq [kind : {"switch"}, to : Pools] \cup [kind : {"mode"}, to : Modes]
ASSUME LifeAssumption == Life \in Nat \ {0}
ASSUME StartAssumption == Start.active \subseteq Pools /\ Start.mode \subseteq Modes
ASSUME TapsAssumption == \A t \in Taps : t[1] \in Users /\ t[2] \in DOMAIN BotOf

VARIABLES
    token,     \* Bot.token, also in state.json
    asking,   \* Bot.pending[chat]: an index into asked, 0 for none
    asked,     \* the confirmations made so far, with their age
    shown,     \* those that reached the chat
    inbox,     \* of each bot: taps Telegram keeps
    bot,       \* the token pollAs runs with
    cancelled, \* its context
    fetched, offset, \* of inbox[bot]: how many taps were fetched, how many of them handled
    h,         \* the handler: handleCallback
    allowed,   \* the chat is in telegram_chats
    pools, active, mode, \* the farm's pools and modes
    taps, faults,
    ran,       \* history: how often each confirmation took effect
    left       \* history: confirmations whose user went on in their message

confirm == <<asking, asked, shown>>
poller == <<bot, cancelled, fetched, offset>>
outcome == <<ran, left>>
farm == <<pools, active, mode>>
controlsVars == <<token, confirm, inbox, poller, h, allowed, farm, taps, faults, outcome>>

Messages == DOMAIN BotOf
Menu == [kind |-> "menu"]     \* navigation and Cancel
NoTap == [at |-> "idle"]

(* What a button sends: an action, or the code of a confirmation. *)
Tap(u, m, action, code) == [user |-> u, message |-> m, action |-> action, code |-> code]
Drop(s, n) == SubSeq(s, n + 1, Len(s))

-----------------------------------------------------------------------------
(* Users, the operator and the web interface. *)

(* Something that needs no reason. *)
Fault == faults < MaxFaults /\ faults' = faults + 1

UserTaps(u, m) ==
    /\ taps < MaxTaps /\ Len(inbox[BotOf[m]]) < MaxInbox
    /\ taps' = taps + 1
    /\ \E t \in {Tap(u, m, a, 0) : a \in Offered \cup {Menu}}
             \cup {Tap(u, m, Menu, c) : c \in shown} :
          inbox' = [inbox EXCEPT ![BotOf[m]] = Append(@, t)]
    /\ UNCHANGED <<token, confirm, poller, h, allowed, farm, faults, outcome>>

Age ==
    /\ \E c \in DOMAIN asked : asked[c].age < Life
    /\ asked' = [c \in DOMAIN asked |-> [asked[c] EXCEPT !.age = IF @ < Life THEN @ + 1 ELSE @]]
    /\ UNCHANGED <<token, asking, shown, inbox, poller, h, allowed, farm, taps, faults, outcome>>

(* SetToken; the loop that polls as the old bot hears of it later. *)
SetToken ==
    /\ Fault
    /\ token' \in Tokens \ {token}
    /\ asking' = 0
    /\ UNCHANGED <<asked, shown, inbox, poller, h, allowed, farm, taps, outcome>>

SetAllowed ==
    /\ Fault
    /\ allowed' = ~allowed
    /\ UNCHANGED <<token, confirm, inbox, poller, h, farm, taps, outcome>>

(* The farm is changed elsewhere: a pool deleted, switched to, or the mode. *)
ChangedElsewhere ==
    /\ Fault
    /\ \/ \E p \in pools \ {active} : pools' = pools \ {p} /\ UNCHANGED <<active, mode>>
       \/ active' \in pools \ {active} /\ UNCHANGED <<pools, mode>>
       \/ mode' \in Modes \ {mode} /\ UNCHANGED <<pools, active>>
    /\ UNCHANGED <<token, confirm, inbox, poller, h, allowed, taps, outcome>>

-----------------------------------------------------------------------------
(* pollLoop and pollAs. *)

(* The context of the old bot's poll is cancelled. *)
Cancel ==
    /\ bot # token /\ ~cancelled
    /\ cancelled' = TRUE
    /\ UNCHANGED <<token, confirm, inbox, bot, fetched, offset, h, allowed, farm, taps, faults, outcome>>

BatchDone == h = NoTap /\ offset = fetched

(* pollAs returned: the loop starts over with the new bot, without an offset. *)
PollAsNew ==
    /\ cancelled /\ BatchDone
    /\ bot' = token /\ cancelled' = FALSE /\ fetched' = 0 /\ offset' = 0
    /\ UNCHANGED <<token, confirm, inbox, h, allowed, farm, taps, faults, outcome>>

(* getUpdates from the offset on: Telegram forgets the taps before it; the
   answer may be lost.  Mutant: the offset does not move. *)
PollAgain ==
    /\ ~cancelled /\ BatchDone /\ inbox[bot] # <<>>
    /\ fetched' = Len(inbox[bot]) /\ offset' = 0
    /\ UNCHANGED <<token, confirm, inbox, bot, cancelled, h, allowed, farm, taps, faults, outcome>>
Poll ==
    /\ ~cancelled /\ BatchDone /\ inbox[bot] # <<>>
    /\ inbox' = [inbox EXCEPT ![bot] = Drop(@, offset)]
    /\ offset' = 0
    /\ \/ fetched' = Len(inbox'[bot]) /\ UNCHANGED faults
       \/ fetched' = 0 /\ Fault
    /\ UNCHANGED <<token, confirm, bot, cancelled, h, allowed, farm, taps, outcome>>

-----------------------------------------------------------------------------
(* handleCallback. *)

(* The code of a confirmation still counts.  Mutant: in any message. *)
CountsAnywhere(t) ==
    /\ t.code = asking
    /\ LET c == asked[asking] IN c.token = token /\ c.user = t.user /\ c.age < Life
Counts(t) ==
    /\ t.code = asking
    /\ LET c == asked[asking] IN
       c.token = token /\ c.user = t.user /\ c.message = t.message /\ c.age < Life

(* What stays pending after a tap that is taken up: a confirmation is used
   before anything else happens, and ends when its user goes on in its message.
   Mutant: it is not used up. *)
StaysUnused(t) ==
    IF asking # 0 /\ t.code = 0 /\ asked[asking].user = t.user /\ asked[asking].message = t.message
    THEN 0 ELSE asking
Stays(t) ==
    IF t.code # 0 THEN 0
    ELSE IF asking # 0 /\ asked[asking].user = t.user /\ asked[asking].message = t.message
    THEN 0 ELSE asking

(* The next tap: refused, expired, or taken up. *)
Handle ==
    /\ h = NoTap /\ offset < fetched
    /\ offset' = offset + 1
    /\ LET t == inbox[bot][offset + 1] IN
       \/ /\ ~allowed \/ (t.code # 0 /\ ~Counts(t))
          /\ UNCHANGED <<h, asking, left>>
       \/ /\ allowed /\ (t.code # 0 => Counts(t))
          /\ asking' = Stays(t)
          /\ h' = [at |-> "answered", message |-> t.message, user |-> t.user, code |-> t.code,
                   action |-> IF t.code = 0 THEN t.action ELSE asked[t.code].action]
          /\ left' = IF t.code # 0 THEN left
                     ELSE left \cup {c \in DOMAIN asked : asked[c].user = t.user
                                                        /\ asked[c].message = t.message}
    /\ UNCHANGED <<token, asked, shown, inbox, bot, cancelled, fetched, allowed, farm,
                   taps, faults, ran>>

Reply(code) == h' = [at |-> "reply", message |-> h.message, code |-> code]

(* confirmation: the new one replaces any other in the chat. *)
Ask ==
    /\ asked' = Append(asked, [action |-> h.action, token |-> token, user |-> h.user,
                               message |-> h.message, age |-> 0])
    /\ asking' = Len(asked')
    /\ Reply(asking')
    /\ ran' = Append(ran, 0)

Stands == CASE h.action.kind = "menu" -> TRUE
            [] h.action.kind = "switch" -> h.action.to \notin pools \/ h.action.to = active
            [] h.action.kind = "mode" -> h.code = 0 /\ h.action.to = mode

Ran(code) == ran' = [ran EXCEPT ![code] = @ + 1]

(* After the answer to the tap: a menu or a refusal, the question, the change
   of a mode, or the check before a switch. *)
GoOn ==
    /\ h.at = "answered"
    /\ IF cancelled THEN h' = NoTap /\ UNCHANGED <<asking, asked, ran, mode>>
       ELSE \/ (* nothing to change, or no target for the timer or the hunt *)
               /\ Stands \/ (h.action.kind = "mode" /\ h.code = 0 /\ h.action.to # "off")
               /\ Reply(0) /\ UNCHANGED <<asking, asked, ran, mode>>
            \/ /\ ~Stands /\ h.code = 0
               /\ Ask /\ UNCHANGED mode
            \/ /\ ~Stands /\ h.code # 0 /\ h.action.kind = "mode"
               /\ mode' \in {h.action.to, mode} \* saved or not
               /\ Ran(h.code) /\ Reply(0) /\ UNCHANGED <<asking, asked>>
            \/ /\ ~Stands /\ h.code # 0 /\ h.action.kind = "switch"
               /\ h' = [h EXCEPT !.at = "checking"]
               /\ UNCHANGED <<asking, asked, ran, mode>>
    /\ UNCHANGED <<token, shown, inbox, poller, allowed, pools, active, taps, faults, left>>

(* The message that says the pool is being checked: without it no switch. *)
SayChecking ==
    /\ h.at = "checking"
    /\ \/ ~cancelled /\ h' = [h EXCEPT !.at = "activate"] /\ UNCHANGED faults
       \/ cancelled /\ h' = NoTap /\ UNCHANGED faults
       \/ Fault /\ h' = NoTap
    /\ UNCHANGED <<token, confirm, inbox, poller, allowed, farm, taps, outcome>>

(* Manager.Activate: the pool is checked; the switch is made or not. *)
Activate ==
    /\ h.at = "activate"
    /\ active' \in {active} \cup ({h.action.to} \cap pools)
    /\ Ran(h.code) /\ Reply(0)
    /\ UNCHANGED <<token, confirm, inbox, poller, allowed, pools, mode, taps, faults, left>>

(* editMessageText with the result, a menu or the question. *)
Answer ==
    /\ h.at = "reply"
    /\ h' = NoTap
    /\ \/ /\ ~cancelled /\ BotOf[h.message] = token
          /\ shown' = IF h.code = 0 THEN shown ELSE shown \cup {h.code}
          /\ UNCHANGED faults
       \/ (cancelled \/ BotOf[h.message] # token) /\ UNCHANGED <<shown, faults>>
       \/ Fault /\ UNCHANGED shown
    /\ UNCHANGED <<token, asking, asked, inbox, poller, allowed, farm, taps, outcome>>

(* The process stops at any time and starts again with the saved token: what
   was not confirmed to Telegram is delivered again. *)
BotCrash ==
    /\ Fault
    /\ asking' = 0 /\ h' = NoTap
    /\ bot' = token /\ cancelled' = FALSE /\ fetched' = 0 /\ offset' = 0
    /\ UNCHANGED <<token, asked, shown, inbox, allowed, farm, taps, outcome>>

-----------------------------------------------------------------------------
ControlsInit ==
    /\ token \in {BotOf[m] : m \in Messages} /\ bot = token /\ cancelled = FALSE
    /\ fetched = 0 /\ offset = 0
    /\ asking = 0 /\ asked = <<>> /\ shown = {} /\ ran = <<>> /\ left = {}
    /\ inbox = [b \in Tokens |-> <<>>] /\ h = NoTap /\ allowed = TRUE
    /\ pools = Pools /\ active \in Start.active /\ mode \in Start.mode
    /\ taps = 0 /\ faults = 0

Others ==
    \/ \E t \in Taps : UserTaps(t[1], t[2])
    \/ Age \/ SetToken \/ SetAllowed \/ ChangedElsewhere \/ BotCrash
Bot == Poll \/ Handle \/ GoOn \/ SayChecking \/ Activate \/ Answer \/ PollAsNew
ControlsNext == Others \/ Cancel \/ Bot

ControlsSpec == ControlsInit /\ [][ControlsNext]_controlsVars
(* The bot polls and handles on, and hears of a new token. *)
ControlsFairSpec == ControlsSpec /\ WF_controlsVars(Bot) /\ WF_controlsVars(Cancel)

-----------------------------------------------------------------------------
(* Properties. *)

(* Every variable has its type; a confirmation that is pending exists. *)
TypeOK ==
    /\ token \in Tokens /\ bot \in Tokens /\ cancelled \in BOOLEAN
    /\ asking \in 0..Len(asked) /\ shown \subseteq DOMAIN asked /\ Len(ran) = Len(asked)
    /\ \A c \in DOMAIN asked : asked[c] \in
          [action : Offered, token : Tokens, user : Users, message : Messages, age : 0..Life]
    /\ fetched <= Len(inbox[bot]) /\ offset <= fetched
    /\ h.at \in {"idle", "answered", "checking", "activate", "reply"}
    /\ allowed \in BOOLEAN /\ pools \subseteq Pools /\ active \in pools /\ mode \in Modes

(* A confirmation takes effect once at most: taps delivered again after a
   crash or a lost answer, a double tap, or a tap while the switch is being
   checked repeat nothing (controls.go:231). *)
Once == \A c \in DOMAIN ran : ran[c] <= 1

(* What takes effect is what its user was asked in that message: the question
   reached the chat, and neither its time, nor the bot, nor another tap of his
   in that message, nor another question in the chat ended it before the tap
   was handled (controls.go:225, 232, 332). *)
Sanctioned ==
    [][\A c \in DOMAIN asked :
          h.at = "idle" /\ h'.at = "answered" /\ h'.code = c =>
             /\ c \in shown \ left /\ c = Len(asked) /\ ran[c] = 0
             /\ asked[c].token = token /\ asked[c].age < Life
             /\ h'.user = asked[c].user /\ h'.message = asked[c].message
             /\ h'.action = asked[c].action]_controlsVars

(* Every tap is dealt with, whatever fails on the way: Telegram is told of
   each, and none is fetched for ever (telegram.go:509). *)
Dealt == \A b \in Tokens : []<>(token # b \/ inbox[b] = <<>>)
================================================================================
