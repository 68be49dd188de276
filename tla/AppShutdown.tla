---------------------------- MODULE AppShutdown ----------------------------
(***************************************************************************)
(* How the process ends: the signal, App.Run and App.Starter of            *)
(* app/app.go, StopBots and StopUserBot of telegram/telegram.go,           *)
(* HandlerClose and CloseDoneCh of db/db.go, and main.                     *)
(*                                                                         *)
(* The goroutines are the one of Run that waits for the signal, its        *)
(* emergency timer, the saver that StopBots starts, one StopUserBot for    *)
(* every bot it finds, HandlerClose, Starter, the modules that shut down   *)
(* on the bus, the message handlers that still queue sessions, and what    *)
(* goes on with the bots meanwhile: starts in flight, requests to stop one *)
(* and clients that find themselves unauthorised.  The timers may fire at  *)
(* any moment after they were armed.                                       *)
(***************************************************************************)
EXTENDS Naturals

CONSTANTS Bots,       \* the users that have a bot
          Handlers,   \* message handlers of those bots
          Modules,    \* Start, CRM, Mod and End, which shut down on the bus
          Listener,   \* the NotificationListener on the same bus
          StartCap    \* places in StartCh (100 in the code)

ASSUME ShutdownAssumption == /\ Listener \notin Modules
                             /\ StartCap \in Nat \ {0}

VARIABLES process,      \* "up", "exited", or "StartCh", on which it panicked
          live,         \* a.ctx, parent of every other context, is not cancelled
          app,          \* where the goroutine of Run that waits for the signal is
          timedOut,     \* StopBots gave up waiting
          emergency,    \* the emergency timer: "off", "armed" or "fired"
          saver,        \* where the goroutine that StopBots starts is
          registered,   \* the users whose bot is in the registry
          stopped,      \* those whose registered bot has its flag stopped set
          rejected,     \* those whose flag was set by a client without authorisation
          starting,     \* those for whom a start has loaded what it needs
          stop,         \* where StopUserBot is, for every bot and caller
          latecomers,   \* history variable: bots registered after rangeBot
          startClosed,  \* StartCh is closed
          starts,       \* how many sessions are in StartCh
          starter,      \* Starter still ranges over StartCh
          handler,      \* where every message handler is
          module,       \* where every producer on the bus is
          doneClosed,   \* DoneCh of the database is closed
          database      \* "open" or "closed"

botVars == <<registered, stopped, rejected, starting, stop, latecomers>>
startVars == <<startClosed, starts, starter, handler>>
dbVars == <<doneClosed, database>>
shutdownVars == <<process, live, app, timedOut, emergency, saver, botVars, startVars, module, dbVars>>

Producers == Modules \union {Listener}
Callers == {"shutdown", "request"}

ShutdownTypeOK == /\ process \in {"up", "exited", "StartCh"}
                  /\ live \in BOOLEAN
                  /\ app \in {"idle", "http", "stopping", "adding", "waiting", "over"}
                  /\ timedOut \in BOOLEAN
                  /\ emergency \in {"off", "armed", "fired"}
                  /\ saver \in {"off", "ranging", "waiting", "saving", "saved"}
                  /\ registered \subseteq Bots
                  /\ stopped \subseteq Bots
                  /\ rejected \subseteq Bots
                  /\ starting \subseteq Bots
                  /\ latecomers \subseteq Bots
                  /\ stop \in [Bots -> [Callers -> {"none", "called", "grace", "returned"}]]
                  /\ startClosed \in BOOLEAN
                  /\ starts \in 0..StartCap
                  /\ starter \in BOOLEAN
                  /\ handler \in [Handlers -> {"idle", "preparing", "queueing"}]
                  /\ module \in [Producers -> {"off", "running", "ended"}]
                  /\ doneClosed \in BOOLEAN
                  /\ database \in {"open", "closed"}

ShutdownInit == /\ process = "up"
                /\ live = TRUE
                /\ app = "idle"
                /\ timedOut = FALSE
                /\ emergency = "off"
                /\ saver = "off"
                /\ registered = {}
                /\ stopped = {}
                /\ rejected = {}
                /\ starting = {}
                /\ latecomers = {}
                /\ stop = [b \in Bots |-> [c \in Callers |-> "none"]]
                /\ startClosed = FALSE
                /\ starts = 0
                /\ starter = TRUE
                /\ handler = [h \in Handlers |-> "idle"]
                /\ module = [p \in Producers |-> IF p = Listener THEN "running" ELSE "off"]
                /\ doneClosed = FALSE
                /\ database = "open"

Up == process = "up"
AppAt(place) == Up /\ app = place
SaverAt(place) == Up /\ saver = place
StopAt(b, c, place) == Up /\ stop[b][c] = place
HandlerAt(h, place) == Up /\ handler[h] = place

-----------------------------------------------------------------------------
(* The database.                                                           *)

\* Run and the emergency timer both call it: a sync.Once.
CloseDoneCh == doneClosed' = TRUE /\ UNCHANGED process

\* HandlerClose: both the cancelled context and DoneCh, in this order.
HandlerClose ==
  /\ Up /\ ~live /\ doneClosed
  /\ database' = "closed"
  /\ UNCHANGED <<process, live, app, timedOut, emergency, saver, botVars, startVars, module,
                 doneClosed>>

\* Exit is closed after the database; main returns.
MainReturns ==
  /\ Up /\ database = "closed"
  /\ process' = "exited"
  /\ UNCHANGED <<live, app, timedOut, emergency, saver, botVars, startVars, module, dbVars>>

-----------------------------------------------------------------------------
(* The goroutine of Run.                                                   *)

\* The signal cancels a.ctx and with it every other context.
Signal ==
  /\ Up /\ live
  /\ live' = FALSE
  /\ UNCHANGED <<process, app, timedOut, emergency, saver, botVars, startVars, module, dbVars>>

\* Mutant of BeginShutdown: no emergency timer.
BeginUnarmed ==
  /\ AppAt("idle") /\ ~live
  /\ app' = "http"
  /\ UNCHANGED <<process, live, timedOut, emergency, saver, botVars, startVars, module, dbVars>>

\* Run wakes up, arms the timer and calls StopBots.
BeginShutdown ==
  /\ AppAt("idle") /\ ~live
  /\ app' = "http"
  /\ emergency' = "armed"
  /\ UNCHANGED <<process, live, timedOut, saver, botVars, startVars, module, dbVars>>

EmergencyFires ==
  /\ Up /\ emergency = "armed"
  /\ emergency' = "fired"
  /\ CloseDoneCh
  /\ UNCHANGED <<live, app, timedOut, saver, botVars, startVars, module, database>>

\* httpServer.Shutdown returns, after two seconds at the latest.
HttpStops ==
  /\ AppAt("http")
  /\ app' = "stopping"
  /\ saver' = "ranging"
  /\ UNCHANGED <<process, live, timedOut, emergency, botVars, startVars, module, dbVars>>

StopBotsReturns == app' = "adding" /\ startClosed' = TRUE

BotsAreStopped ==
  /\ AppAt("stopping") /\ saver \in {"saving", "saved"}
  /\ StopBotsReturns
  /\ UNCHANGED <<process, live, timedOut, emergency, saver, botVars, starts, starter, handler,
                 module, dbVars>>

\* shortOpTimeout.
GiveUpOnBots ==
  /\ AppAt("stopping")
  /\ timedOut' = TRUE
  /\ StopBotsReturns
  /\ UNCHANGED <<process, live, emergency, saver, botVars, starts, starter, handler, module,
                 dbVars>>

\* Mutant of OnBus: the listener was started without bus.Add.
OnBusShuttingDown(p) == p \in Modules /\ module[p] = "running"

\* What WaitAndClose waits for.
OnBus(p) == module[p] = "running"

AddToBus ==
  /\ AppAt("adding")
  /\ app' = "waiting"
  /\ module' = [p \in Producers |-> IF p \in Modules THEN "running" ELSE module[p]]
  /\ UNCHANGED <<process, live, timedOut, emergency, saver, botVars, startVars, dbVars>>

WaitAndClose ==
  /\ AppAt("waiting")
  /\ \A p \in Producers : ~OnBus(p)
  /\ app' = "over"
  /\ CloseDoneCh
  /\ UNCHANGED <<live, timedOut, emergency, saver, botVars, startVars, module, database>>

\* Modules take their time, or never return.
ModuleEnds(p) ==
  /\ Up /\ module[p] = "running" /\ ~live
  /\ module' = [module EXCEPT ![p] = "ended"]
  /\ UNCHANGED <<process, live, app, timedOut, emergency, saver, botVars, startVars, dbVars>>

-----------------------------------------------------------------------------
(* The saver of StopBots and StopUserBot.                                  *)

CallStop(b, c) == stop' = [stop EXCEPT ![b][c] = "called"]

\* rangeBot: one StopUserBot for every registered bot.
RangeBots ==
  /\ SaverAt("ranging")
  /\ saver' = "waiting"
  /\ stop' = [b \in Bots |-> IF b \in registered THEN [stop[b] EXCEPT !["shutdown"] = "called"]
                                                 ELSE stop[b]]
  /\ UNCHANGED <<process, live, app, timedOut, emergency, registered, stopped, rejected, starting,
                 latecomers, startVars, module, dbVars>>

\* Mutant of StopsReturned: wg.Add inside the goroutines, which may not run yet.
StopsReturnedOrNotBegun == \A b \in Bots : stop[b]["shutdown"] # "grace"

StopsReturned == \A b \in Bots : stop[b]["shutdown"] \in {"none", "returned"}

\* wg.Wait returns and done is closed; then the dialogues are saved.
AllStopped ==
  /\ SaverAt("waiting")
  /\ StopsReturned
  /\ saver' = "saving"
  /\ UNCHANGED <<process, live, app, timedOut, emergency, botVars, startVars, module, dbVars>>

SaveAllContextDuringExit ==
  /\ SaverAt("saving")
  /\ saver' = "saved"
  /\ UNCHANGED <<process, live, app, timedOut, emergency, botVars, startVars, module, dbVars>>

\* A request of the page, or a message from somebody whose access hash is missing, stops a bot.
RequestStops(b) ==
  /\ Up /\ stop[b]["request"] \in {"none", "returned"}
  /\ CallStop(b, "request")
  /\ UNCHANGED <<process, live, app, timedOut, emergency, saver, registered, stopped, rejected,
                 starting, latecomers, startVars, module, dbVars>>

\* StopUserBot: nothing to do for a bot that is gone or being stopped.
NothingToStop(b, c) ==
  /\ StopAt(b, c, "called")
  /\ b \notin registered \/ b \in stopped
  /\ stop' = [stop EXCEPT ![b][c] = "returned"]
  /\ UNCHANGED <<process, live, app, timedOut, emergency, saver, registered, stopped, rejected,
                 starting, latecomers, startVars, module, dbVars>>

SwapStopped(b, c) ==
  /\ StopAt(b, c, "called")
  /\ b \in registered \ stopped
  /\ stopped' = stopped \union {b}
  /\ stop' = [stop EXCEPT ![b][c] = "grace"]
  /\ UNCHANGED <<process, live, app, timedOut, emergency, saver, registered, rejected, starting,
                 latecomers, startVars, module, dbVars>>

\* shutdownGraceTimeout is over: deleteBot.
GraceEnds(b, c) ==
  /\ StopAt(b, c, "grace")
  /\ registered' = registered \ {b}
  /\ stop' = [stop EXCEPT ![b][c] = "returned"]
  /\ UNCHANGED <<process, live, app, timedOut, emergency, saver, stopped, rejected, starting,
                 latecomers, startVars, module, dbVars>>

\* The client of the bot is not authorised: it marks the bot and leaves it in the registry.
ClientRejected(b) ==
  /\ Up /\ b \in registered \ stopped
  /\ stopped' = stopped \union {b}
  /\ rejected' = rejected \union {b}
  /\ UNCHANGED <<process, live, app, timedOut, emergency, saver, registered, starting, stop,
                 latecomers, startVars, module, dbVars>>

\* StartBots and loadAndStartBot read the database under a.ctx; past that nothing looks at it.
LoadBot(b) ==
  /\ Up /\ live
  /\ starting' = starting \union {b}
  /\ UNCHANGED <<process, live, app, timedOut, emergency, saver, registered, stopped, rejected,
                 stop, latecomers, startVars, module, dbVars>>

\* createOrUpdateBot and setBot: a new bot, whose flag is not set, in the place of any other.
SetBot(b) ==
  /\ Up /\ b \in starting
  /\ starting' = starting \ {b}
  /\ registered' = registered \union {b}
  /\ stopped' = stopped \ {b}
  /\ rejected' = rejected \ {b}
  /\ latecomers' = IF saver \in {"off", "ranging"} THEN latecomers ELSE latecomers \union {b}
  /\ UNCHANGED <<process, live, app, timedOut, emergency, saver, stop, startVars, module, dbVars>>

-----------------------------------------------------------------------------
(* Sessions that are still queued, and Starter.                            *)

\* A client, which runs before its bot is registered, hands over no more messages once its
\* context is cancelled.
HandleNewUser(h) ==
  /\ HandlerAt(h, "idle") /\ live /\ registered \union starting # {}
  /\ handler' = [handler EXCEPT ![h] = "preparing"]
  /\ UNCHANGED <<process, live, app, timedOut, emergency, saver, botVars, startClosed, starts,
                 starter, module, dbVars>>

\* initializeUserSession succeeds or fails.
InitializeUserSession(h) ==
  /\ HandlerAt(h, "preparing")
  /\ \E place \in {"queueing", "idle"} : handler' = [handler EXCEPT ![h] = place]
  /\ UNCHANGED <<process, live, app, timedOut, emergency, saver, botVars, startClosed, starts,
                 starter, module, dbVars>>

QueueReturns(h) ==
  /\ HandlerAt(h, "queueing")
  /\ handler' = [handler EXCEPT ![h] = "idle"]
  /\ UNCHANGED <<live, app, timedOut, emergency, saver, botVars, startClosed, starter, module,
                 dbVars>>

RoomInStartCh == starts < StartCap

QueueSession(h) ==
  /\ QueueReturns(h)
  /\ ~startClosed /\ RoomInStartCh
  /\ starts' = starts + 1
  /\ UNCHANGED process

\* The select finds a cancelled context, or nothing ready.
QueueFails(h) ==
  /\ QueueReturns(h)
  /\ ~live \/ ~RoomInStartCh
  /\ UNCHANGED <<starts, process>>

\* Of a cancelled context and a closed channel the select takes either.
QueuePanics(h) ==
  /\ QueueReturns(h)
  /\ startClosed
  /\ process' = "StartCh"
  /\ UNCHANGED starts

StarterTakes ==
  /\ Up /\ starter /\ starts > 0
  /\ starts' = starts - 1
  /\ UNCHANGED <<process, live, app, timedOut, emergency, saver, botVars, startClosed, starter,
                 handler, module, dbVars>>

StarterEnds ==
  /\ Up /\ starter /\ starts = 0 /\ startClosed
  /\ starter' = FALSE
  /\ UNCHANGED <<process, live, app, timedOut, emergency, saver, botVars, startClosed, starts,
                 handler, module, dbVars>>

-----------------------------------------------------------------------------
Run == BeginShutdown \/ HttpStops \/ BotsAreStopped \/ GiveUpOnBots \/ AddToBus \/ WaitAndClose
Save == RangeBots \/ AllStopped \/ SaveAllContextDuringExit
StopUserBot(b, c) == NothingToStop(b, c) \/ SwapStopped(b, c) \/ GraceEnds(b, c)
Queue(h) == QueueSession(h) \/ QueueFails(h) \/ QueuePanics(h)

ShutdownNext == \/ Signal \/ EmergencyFires \/ Run \/ Save
                \/ \E p \in Producers : ModuleEnds(p)
                \/ \E b \in Bots : \/ LoadBot(b) \/ SetBot(b) \/ ClientRejected(b) \/ RequestStops(b)
                                   \/ \E c \in Callers : StopUserBot(b, c)
                \/ \E h \in Handlers : HandleNewUser(h) \/ InitializeUserSession(h) \/ Queue(h)
                \/ StarterTakes \/ StarterEnds
                \/ HandlerClose \/ MainReturns

ShutdownSpec == ShutdownInit /\ [][ShutdownNext]_shutdownVars

\* The process gets its turn, the timers fire and the database closes;
\* modules, handlers and requests may hang.
ShutdownFairness == /\ WF_shutdownVars(Run) /\ WF_shutdownVars(EmergencyFires)
                    /\ WF_shutdownVars(HandlerClose) /\ WF_shutdownVars(MainReturns)
FairShutdown == ShutdownSpec /\ ShutdownFairness

-----------------------------------------------------------------------------
(* Properties.                                                             *)

\* The database closes after everything on the bus has ended, the listener
\* included, unless the emergency timer fired: WaitAndClose comes before
\* CloseDoneCh in Run, and the timer is the only other one to close DoneCh.
DatabaseLast ==
  database = "closed" /\ emergency # "fired" => \A p \in Producers : module[p] = "ended"

\* Unless StopBots gave up, modules shut down and StartCh closes when every bot that rangeBot
\* found has left the registry or is about to be deleted by a request, except one that its
\* client marked as stopped, for which StopUserBot does nothing, and one whose place a start
\* in flight has taken: the order of StopUserBot's flag, grace and deletion with wg.Wait and
\* close(done).
BotsLeaveFirst ==
  startClosed /\ ~timedOut =>
    \A b \in registered \ (rejected \union latecomers) :
      b \in stopped /\ stop[b]["request"] = "grace"

\* Once the signal came the process ends, whatever modules, bots and requests
\* do: the emergency timer of Run.
ProcessEnds == ~live ~> process # "up"
=============================================================================
