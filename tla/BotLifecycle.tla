---------------------------- MODULE BotLifecycle ----------------------------
(***************************************************************************)
(* The registry of running bots (User.bot in telegram/telegram.go) and the *)
(* goroutines that race for it: StartBots at start-up, the HTTP handlers   *)
(* for enable, disable and restart, the end of a web authorisation, the    *)
(* listeners that stop a bot whose contacts are broken, and the client     *)
(* goroutine of every bot.                                                 *)
(*                                                                         *)
(* The map is only locked for one access at a time, so a check and the act *)
(* that relies on it are separate steps.  Both sleeps of a stop and of a   *)
(* restart are shutdownGraceTimeout long: they end in the order in which   *)
(* they began, which sleepers records.                                     *)
(***************************************************************************)
EXTENDS Integers, Sequences, FiniteSets

CONSTANTS Users,      \* the accounts that have a user bot
          Clients,    \* bound of the model: HTTP requests in progress
          Listeners,  \* bound of the model: listeners in StopUserBot
          StartBots,  \* the goroutine of StartBots
          MaxBots,    \* bound of the model: bots created
          None        \* no user

ASSUME LifecycleAssumption == /\ MaxBots \in Nat
                              /\ None \notin Users
                              /\ StartBots \notin Clients \cup Listeners
                              /\ Clients \cap Listeners = {}

VARIABLES bot,        \* u.bot: the bot registered for each user, or NoBot
          created,    \* how many bots initializeBot has made
          owner,      \* userID of each bot
          client,     \* where the client goroutine of each bot is
          cancelled,  \* bots whose ctx is cancelled
          stopped,    \* bots whose stopped flag is set
          unbooted,   \* users that StartBots has not come to
          task,       \* what each goroutine is doing
          sleepers,   \* goroutines in time.Sleep, in the order they began
          overlapped  \* history variable: users that had two requests at once

vars == <<bot, created, owner, client, cancelled, stopped, unbooted, task, sleepers, overlapped>>

Bots == 1..MaxBots
NoBot == 0
Goroutines == Clients \cup Listeners \cup {StartBots}

Idle == [op |-> "idle", user |-> None, bot |-> NoBot, at |-> "idle"]

Init == /\ bot = [u \in Users |-> NoBot]
        /\ created = 0
        /\ owner = [b \in Bots |-> None]
        /\ client = [b \in Bots |-> "none"]
        /\ cancelled = {}
        /\ stopped = {}
        /\ unbooted = Users
        /\ task = [g \in Goroutines |-> Idle]
        /\ sleepers = <<>>
        /\ overlapped = {}

-----------------------------------------------------------------------------
At(g, place) == task[g].at = place

Goto(g, place) == task' = [task EXCEPT ![g].at = place]

Finish(g) == task' = [task EXCEPT ![g] = Idle]

Begin(g, op, u, place) ==
  /\ task[g] = Idle
  /\ task' = [task EXCEPT ![g] = [op |-> op, user |-> u, bot |-> NoBot, at |-> place]]

\* The bot registered for the user g works for.
Registered(g) == bot[task[g].user]

botVars == <<created, owner, client>>
rest == <<unbooted, overlapped>>

-----------------------------------------------------------------------------
(* What sets the goroutines going.                                         *)

\* StartBots takes the users one after another; the web server starts when it is done.
Boot(u) == /\ u \in unbooted
           /\ Begin(StartBots, "boot", u, "load")
           /\ unbooted' = unbooted \ {u}
           /\ UNCHANGED <<bot, botVars, cancelled, stopped, sleepers, overlapped>>

WebServerUp == unbooted = {} /\ task[StartBots] = Idle

\* StartBot, StopBotsHandler, RestartBot, and the end of AuthWebSocketHandler's goroutine.
FirstStep(op) == CASE op = "start" -> "check"
                   [] op \in {"stop", "restart"} -> "lookup"
                   [] op = "auth" -> "save"

Request(g, op, u) ==
  /\ WebServerUp
  /\ Begin(g, op, u, FirstStep(op))
  /\ overlapped' = IF \E h \in Clients : task[h].user = u THEN overlapped \cup {u}
                                                          ELSE overlapped
  /\ UNCHANGED <<bot, botVars, cancelled, stopped, unbooted, sleepers>>

\* processAssistantMessage finds no access hash: handleMissingAccessHash stops the first
\* bot that knows the respondent, whoever owns it.
MissingAccessHash(g, u) ==
  /\ bot[u] # NoBot
  /\ Begin(g, "stop", u, "lookup")
  /\ UNCHANGED <<bot, botVars, cancelled, stopped, sleepers, rest>>

-----------------------------------------------------------------------------
(* StartUserBot, loadAndStartBot and StartBots' loop.                      *)

\* The authorised session is saved, then restarted or started.
SaveSession(g) ==
  /\ At(g, "save")
  /\ Goto(g, "choose") \/ Finish(g)
  /\ UNCHANGED <<bot, botVars, cancelled, stopped, sleepers, rest>>

RestartOrStart(g) ==
  /\ At(g, "choose")
  /\ task' = [task EXCEPT ![g].op = IF Registered(g) # NoBot THEN "restart" ELSE "start",
                          ![g].at = IF Registered(g) # NoBot THEN "lookup" ELSE "check"]
  /\ UNCHANGED <<bot, botVars, cancelled, stopped, sleepers, rest>>

CheckNotRunning(g) ==
  /\ At(g, "check")
  /\ IF Registered(g) # NoBot THEN Finish(g) ELSE Goto(g, "load")
  /\ UNCHANGED <<bot, botVars, cancelled, stopped, sleepers, rest>>

\* The row, the subscription and the token of the user: each may be refused.
Load(g) ==
  /\ At(g, "load")
  /\ Goto(g, "create") \/ Finish(g)
  /\ UNCHANGED <<bot, botVars, cancelled, stopped, sleepers, rest>>

\* createOrUpdateBot.
CancelExisting(g) ==
  /\ At(g, "create")
  /\ Goto(g, "init")
  /\ cancelled' = IF Registered(g) # NoBot THEN cancelled \cup {Registered(g)} ELSE cancelled
  /\ UNCHANGED <<bot, botVars, stopped, sleepers, rest>>

\* initializeBot: a session that cannot be stored, or a bot whose client runs already.
InitializeBot(g) ==
  /\ At(g, "init")
  /\ \/ /\ Finish(g)
        /\ UNCHANGED botVars
     \/ /\ created < MaxBots
        /\ created' = created + 1
        /\ owner' = [owner EXCEPT ![created + 1] = task[g].user]
        /\ client' = [client EXCEPT ![created + 1] = "connecting"]
        /\ task' = [task EXCEPT ![g].bot = created + 1, ![g].at = "set"]
  /\ UNCHANGED <<bot, cancelled, stopped, sleepers, rest>>

SetBot(g) ==
  /\ At(g, "set")
  /\ bot' = [bot EXCEPT ![task[g].user] = task[g].bot]
  /\ Finish(g)
  /\ UNCHANGED <<botVars, cancelled, stopped, sleepers, rest>>

-----------------------------------------------------------------------------
(* StopUserBot and RestartUserBot.                                         *)

Sleep(g, place) == /\ Goto(g, place)
                   /\ sleepers' = Append(sleepers, g)

\* Mutant of StopReturns: a restart loads at once when there was nothing to stop.
StopReturnsAtOnce(g) ==
  /\ IF task[g].op = "restart" THEN Goto(g, "load") ELSE Finish(g)
  /\ UNCHANGED sleepers

\* A restart goes on whatever StopUserBot says.
StopReturns(g) == IF task[g].op = "restart" THEN Sleep(g, "pause")
                                            ELSE Finish(g) /\ UNCHANGED sleepers

Lookup(g) ==
  /\ At(g, "lookup")
  /\ IF Registered(g) = NoBot
       THEN StopReturns(g)
       ELSE /\ task' = [task EXCEPT ![g].bot = Registered(g), ![g].at = "swap"]
            /\ UNCHANGED sleepers
  /\ UNCHANGED <<bot, botVars, cancelled, stopped, rest>>

\* Mutant of SwapStopped: the bot's context is not cancelled.
SwapOnly(g) ==
  /\ At(g, "swap")
  /\ IF task[g].bot \in stopped
       THEN StopReturns(g) /\ UNCHANGED stopped
       ELSE stopped' = stopped \cup {task[g].bot} /\ Sleep(g, "grace")
  /\ UNCHANGED <<bot, botVars, cancelled, rest>>

\* bot.stopped.Swap(true), then bot.cancel().
SwapStopped(g) ==
  /\ At(g, "swap")
  /\ IF task[g].bot \in stopped
       THEN StopReturns(g) /\ UNCHANGED <<cancelled, stopped>>
       ELSE /\ stopped' = stopped \cup {task[g].bot}
            /\ cancelled' = cancelled \cup {task[g].bot}
            /\ Sleep(g, "grace")
  /\ UNCHANGED <<bot, botVars, rest>>

Wakes(g, place) == At(g, place) /\ sleepers # <<>> /\ Head(sleepers) = g

\* The sleep of StopUserBot is over; a restart goes to sleep again.
StopSucceeds(g) ==
  IF task[g].op = "restart" THEN Goto(g, "pause") /\ sleepers' = Append(Tail(sleepers), g)
                            ELSE Finish(g) /\ sleepers' = Tail(sleepers)

\* Mutant of DeleteBot: a stopped bot stays registered.
KeepBot(g) == /\ Wakes(g, "grace")
              /\ StopSucceeds(g)
              /\ UNCHANGED <<bot, botVars, cancelled, stopped, rest>>

\* Whatever bot is registered now is deleted.
DeleteBot(g) == /\ Wakes(g, "grace")
                /\ bot' = [bot EXCEPT ![task[g].user] = NoBot]
                /\ StopSucceeds(g)
                /\ UNCHANGED <<botVars, cancelled, stopped, rest>>

\* The second sleep of RestartUserBot ends.
Reload(g) ==
  /\ Wakes(g, "pause")
  /\ Goto(g, "load")
  /\ sleepers' = Tail(sleepers)
  /\ UNCHANGED <<bot, botVars, cancelled, stopped, rest>>

Step(g) == \/ SaveSession(g) \/ RestartOrStart(g) \/ CheckNotRunning(g) \/ Load(g)
           \/ CancelExisting(g) \/ InitializeBot(g) \/ SetBot(g)
           \/ Lookup(g) \/ SwapStopped(g) \/ DeleteBot(g) \/ Reload(g)

-----------------------------------------------------------------------------
(* The client goroutine that initializeBot starts.                         *)

clientFrame == <<bot, created, owner, cancelled, task, sleepers, rest>>

Authorised(b) == /\ client[b] = "connecting"
                 /\ client' = [client EXCEPT ![b] = "running"]
                 /\ UNCHANGED <<clientFrame, stopped>>

\* The session is not authorised: the channel is disabled in the database, and the bot
\* that is registered by now, if there is one, is marked as stopped.
Unauthorised(b) == /\ client[b] = "connecting"
                   /\ client' = [client EXCEPT ![b] = "disabling"]
                   /\ UNCHANGED <<clientFrame, stopped>>

MarkStopped(b) ==
  /\ client[b] = "disabling"
  /\ client' = [client EXCEPT ![b] = "rejected"]
  /\ stopped' = IF bot[owner[b]] # NoBot THEN stopped \cup {bot[owner[b]]} ELSE stopped
  /\ UNCHANGED clientFrame

\* client.Run returns: the bot's context is done, or with an error that is only logged.
Disconnects(b) == /\ client[b] \in {"connecting", "running"}
                  /\ client' = [client EXCEPT ![b] = "ended"]
                  /\ UNCHANGED <<clientFrame, stopped>>

Cancels(b) == b \in cancelled /\ Disconnects(b)

Next == \/ \E u \in Users : \/ Boot(u)
                            \/ \E g \in Listeners : MissingAccessHash(g, u)
                            \/ \E g \in Clients, op \in {"start", "stop", "restart", "auth"} :
                                  Request(g, op, u)
        \/ \E g \in Goroutines : Step(g)
        \/ \E b \in Bots : Authorised(b) \/ Unauthorised(b) \/ MarkStopped(b) \/ Disconnects(b)

Spec == Init /\ [][Next]_vars

\* Sleeps end (only the oldest can, so one condition serves all), and a client notices
\* that its context is done.  The loads and calls that other steps stand for may hang.
Fairness == /\ WF_vars(\E g \in Goroutines : DeleteBot(g) \/ Reload(g))
            /\ \A b \in Bots : WF_vars(Cancels(b)) /\ WF_vars(MarkStopped(b))

FairSpec == Spec /\ Fairness

-----------------------------------------------------------------------------
Ops == {"idle", "boot", "start", "stop", "restart", "auth"}
Places == {"idle", "save", "choose", "check", "load", "create", "init", "set",
           "lookup", "swap", "grace", "pause"}
Task == [op : Ops, user : Users \cup {None}, bot : Bots \cup {NoBot}, at : Places]

TypeOK ==
  /\ bot \in [Users -> Bots \cup {NoBot}]
  /\ created \in 0..MaxBots
  /\ owner \in [Bots -> Users \cup {None}]
  /\ client \in [Bots -> {"none", "connecting", "running", "disabling", "rejected", "ended"}]
  /\ cancelled \subseteq Bots
  /\ stopped \subseteq Bots
  /\ unbooted \subseteq Users
  /\ task \in [Goroutines -> Task]
  /\ sleepers \in Seq(Goroutines)
  /\ overlapped \subseteq Users

\* A bot whose client talks to Telegram and has not been told to end.
Live(b) == client[b] \in {"connecting", "running"} /\ b \notin cancelled

LiveBots(u) == {b \in Bots : owner[b] = u /\ Live(b)}

\* A user never has two bots that answer his messages, whatever listeners stop, clients
\* find out and restarts replace, as long as two requests for him never overlap.
OneLiveBot == \A u \in Users \ overlapped : Cardinality(LiveBots(u)) <= 1

\* A live bot can be stopped: it is registered, or about to be.  No delayed deletion by
\* StopUserBot hits the bot that came after the one it stopped.
LiveIsReachable ==
  \A u \in Users \ overlapped : \A b \in LiveBots(u) :
    bot[u] = b \/ \E g \in Goroutines : At(g, "set") /\ task[g].bot = b

\* A bot marked as stopped is on its way out of the registry, so that it can be started
\* again; only a client that found its session unauthorised leaves one there.
StoppedLeaves ==
  \A u \in Users : bot[u] \in stopped =>
    \/ \E g \in Goroutines : At(g, "grace") /\ task[g].user = u
    \/ \E b \in Bots : owner[b] = u /\ client[b] = "rejected"

\* Once StopUserBot has cancelled a bot, its client ends and the bot leaves the registry,
\* whatever the other goroutines that stop, replace or reject it do meanwhile.
StopTakesEffect ==
  \A b \in Bots : (\E g \in Goroutines : At(g, "grace") /\ task[g].bot = b) ~>
    client[b] \in {"rejected", "ended"} /\ \A u \in Users : bot[u] # b

\* createOrUpdateBot: if the bot exists, it is always stopped.
NeverTwoBots == \A u \in Users : Cardinality(LiveBots(u)) <= 1
=============================================================================
