------------------------- MODULE AppShutdownProofs -------------------------
(***************************************************************************)
(* Proofs about AppShutdown, for any number of bots, handlers and modules. *)
(*                                                                         *)
(* The inductive invariant relates DoneCh to the goroutine of Run that     *)
(* closes it (ByRun), that goroutine to the producers (Waited), the saver  *)
(* and the flags of the bots to the StopUserBot goroutines, to the clients *)
(* and to the starts in flight (Leaving, Flagged), and StartCh to the      *)
(* saver (Closing).                                                        *)
(***************************************************************************)
EXTENDS AppShutdown, TLAPS

ByRun == /\ app = "idle" => emergency = "off"
         /\ database = "closed" => doneClosed
         /\ (doneClosed /\ emergency # "fired") => app = "over"

Waited == /\ module[Listener] # "off"
          /\ app \in {"waiting", "over"} => \A p \in Producers : module[p] # "off"
          /\ app = "over" => \A p \in Producers : module[p] = "ended"

\* A flag that is set belongs to a StopUserBot, which will delete the bot, or was set by the
\* bot's client.
Flagged == \A b \in registered \cap stopped :
             b \in rejected \/ \E c \in Callers : stop[b][c] = "grace"

\* Every bot that is registered after rangeBot was found by it or came later.
Leaving == saver \in {"waiting", "saving", "saved"} =>
             \A b \in registered \ (rejected \union latecomers) :
                \/ stop[b]["shutdown"] \in {"called", "grace"}
                \/ b \in stopped /\ stop[b]["request"] = "grace"

\* The saver does not run before StopBots starts it.
Early == app \in {"idle", "http"} => saver = "off"

Closing == /\ startClosed => app \in {"adding", "waiting", "over"}
           /\ (startClosed /\ ~timedOut) => saver \in {"saving", "saved"}
           /\ saver \in {"saving", "saved"} => StopsReturned

\* rangeBot comes before every StopUserBot of the shutdown.
NotBegun == saver \in {"off", "ranging"} => \A b \in Bots : stop[b]["shutdown"] = "none"

ShutdownInv == /\ ShutdownTypeOK /\ ByRun /\ Waited
               /\ Flagged /\ NotBegun /\ Leaving /\ Early /\ Closing

USE DEF Callers

LEMMA InitEstablishes == ShutdownInit => ShutdownInv
<1> SUFFICES ASSUME ShutdownInit PROVE ShutdownInv
  OBVIOUS
<1>1. live \in BOOLEAN /\ timedOut \in BOOLEAN /\ startClosed \in BOOLEAN
  BY DEF ShutdownInit
<1>2. starter \in BOOLEAN /\ doneClosed \in BOOLEAN
  BY DEF ShutdownInit
<1>3. stop \in [Bots -> [Callers -> {"none", "called", "grace", "returned"}]]
  BY DEF ShutdownInit
<1>4. module \in [Producers -> {"off", "running", "ended"}] /\ module[Listener] = "running"
  BY DEF ShutdownInit, Producers
<1>5. starts \in 0..StartCap
  BY ShutdownAssumption DEF ShutdownInit
<1>6. ShutdownTypeOK
  BY <1>1, <1>2, <1>3, <1>4, <1>5 DEF ShutdownInit, ShutdownTypeOK
<1>7. ByRun /\ Waited
  BY <1>4 DEF ShutdownInit, ByRun, Waited
<1>8. Flagged /\ NotBegun /\ Leaving /\ Early /\ Closing
  BY DEF ShutdownInit, Flagged, NotBegun, Leaving, Early, Closing
<1>9. QED
  BY <1>6, <1>7, <1>8 DEF ShutdownInv

-----------------------------------------------------------------------------
(* Type correctness.                                                       *)

LEMMA TypeStep == ASSUME ShutdownTypeOK, ShutdownNext PROVE ShutdownTypeOK'
<1> USE DEF ShutdownTypeOK, botVars, startVars, dbVars
<1>1. ASSUME Signal PROVE ShutdownTypeOK'
  <2>1. live' \in BOOLEAN
    BY <1>1 DEF Signal
  <2>2. QED
    BY <1>1, <2>1 DEF Signal
<1>2. ASSUME EmergencyFires PROVE ShutdownTypeOK'
  BY <1>2 DEF EmergencyFires, CloseDoneCh
<1>3. ASSUME Run PROVE ShutdownTypeOK'
  <2>1. CASE BeginShutdown
    BY <2>1 DEF BeginShutdown
  <2>2. CASE HttpStops
    BY <2>2 DEF HttpStops
  <2>3. CASE BotsAreStopped \/ GiveUpOnBots
    <3>1. timedOut' \in BOOLEAN /\ startClosed' \in BOOLEAN
      BY <2>3 DEF BotsAreStopped, GiveUpOnBots, StopBotsReturns
    <3>2. QED
      BY <2>3, <3>1 DEF BotsAreStopped, GiveUpOnBots, StopBotsReturns
  <2>4. CASE AddToBus
    BY <2>4 DEF AddToBus
  <2>5. CASE WaitAndClose
    BY <2>5 DEF WaitAndClose, CloseDoneCh
  <2>6. QED
    BY <1>3, <2>1, <2>2, <2>3, <2>4, <2>5 DEF Run
<1>4. ASSUME Save PROVE ShutdownTypeOK'
  BY <1>4 DEF Save, RangeBots, AllStopped, SaveAllContextDuringExit
<1>5. ASSUME NEW p \in Producers, ModuleEnds(p) PROVE ShutdownTypeOK'
  BY <1>5 DEF ModuleEnds
<1>6. ASSUME NEW b \in Bots, RequestStops(b) PROVE ShutdownTypeOK'
  BY <1>6 DEF RequestStops, CallStop
<1>7. ASSUME NEW b \in Bots, NEW c \in Callers, StopUserBot(b, c) PROVE ShutdownTypeOK'
  BY <1>7 DEF StopUserBot, NothingToStop, SwapStopped, GraceEnds
<1>13. ASSUME NEW b \in Bots, LoadBot(b) \/ SetBot(b) \/ ClientRejected(b) PROVE ShutdownTypeOK'
  BY <1>13 DEF LoadBot, SetBot, ClientRejected
<1>8. ASSUME NEW h \in Handlers, HandleNewUser(h) \/ InitializeUserSession(h) PROVE ShutdownTypeOK'
  BY <1>8 DEF HandleNewUser, InitializeUserSession
<1>9. ASSUME NEW h \in Handlers, Queue(h) PROVE ShutdownTypeOK'
  BY <1>9, ShutdownAssumption DEF Queue, QueueSession, RoomInStartCh, QueueFails, QueuePanics, QueueReturns
<1>10. ASSUME StarterTakes \/ StarterEnds PROVE ShutdownTypeOK'
  <2>1. starter' \in BOOLEAN
    BY <1>10 DEF StarterTakes, StarterEnds
  <2>2. starts' \in 0..StartCap
    BY <1>10, ShutdownAssumption DEF StarterTakes, StarterEnds
  <2>3. QED
    BY <1>10, <2>1, <2>2 DEF StarterTakes, StarterEnds
<1>11. ASSUME HandlerClose \/ MainReturns PROVE ShutdownTypeOK'
  BY <1>11 DEF HandlerClose, MainReturns
<1>12. QED
  BY <1>1, <1>2, <1>3, <1>4, <1>5, <1>6, <1>7, <1>8, <1>9, <1>10, <1>11, <1>13 DEF ShutdownNext

-----------------------------------------------------------------------------
(* The database and the producers.                                         *)

LEMMA OrderStep == ASSUME ShutdownInv, ShutdownNext PROVE ByRun' /\ Waited'
<1> USE DEF ShutdownInv, ShutdownTypeOK, ByRun, Waited, botVars, startVars, dbVars
<1>1. ASSUME Signal PROVE ByRun' /\ Waited'
  BY <1>1 DEF Signal
<1>2. ASSUME EmergencyFires PROVE ByRun' /\ Waited'
  BY <1>2 DEF EmergencyFires, CloseDoneCh
<1>3. ASSUME BeginShutdown \/ HttpStops PROVE ByRun' /\ Waited'
  BY <1>3 DEF BeginShutdown, HttpStops, AppAt
<1>4. ASSUME BotsAreStopped \/ GiveUpOnBots PROVE ByRun' /\ Waited'
  BY <1>4 DEF BotsAreStopped, GiveUpOnBots, StopBotsReturns, AppAt
<1>5. ASSUME AddToBus PROVE ByRun' /\ Waited'
  BY <1>5, ShutdownAssumption DEF AddToBus, AppAt, Producers
<1>6. ASSUME WaitAndClose PROVE ByRun' /\ Waited'
  BY <1>6 DEF WaitAndClose, CloseDoneCh, AppAt, OnBus
<1>7. ASSUME Save PROVE ByRun' /\ Waited'
  BY <1>7 DEF Save, RangeBots, AllStopped, SaveAllContextDuringExit
<1>8. ASSUME NEW p \in Producers, ModuleEnds(p) PROVE ByRun' /\ Waited'
  BY <1>8 DEF ModuleEnds, Producers
<1>9. ASSUME NEW b \in Bots, NEW c \in Callers, RequestStops(b) \/ StopUserBot(b, c)
      PROVE  ByRun' /\ Waited'
  BY <1>9 DEF RequestStops, CallStop, StopUserBot, NothingToStop, SwapStopped, GraceEnds
<1>13. ASSUME NEW b \in Bots, LoadBot(b) \/ SetBot(b) \/ ClientRejected(b) PROVE ByRun' /\ Waited'
  BY <1>13 DEF LoadBot, SetBot, ClientRejected
<1>10. ASSUME NEW h \in Handlers, HandleNewUser(h) \/ InitializeUserSession(h) \/ Queue(h)
       PROVE  ByRun' /\ Waited'
  BY <1>10 DEF HandleNewUser, InitializeUserSession, Queue, QueueSession, QueueFails, QueuePanics, QueueReturns
<1>11. ASSUME StarterTakes \/ StarterEnds \/ HandlerClose \/ MainReturns PROVE ByRun' /\ Waited'
  BY <1>11 DEF StarterTakes, StarterEnds, HandlerClose, MainReturns
<1>12. QED
  BY <1>1, <1>2, <1>3, <1>4, <1>5, <1>6, <1>7, <1>8, <1>9, <1>10, <1>11, <1>13 DEF ShutdownNext, Run

-----------------------------------------------------------------------------
(* The bots.                                                               *)

LEMMA BotsKeep ==
  ASSUME ShutdownInv, UNCHANGED <<botVars, saver>>
  PROVE  Flagged' /\ Leaving' /\ StopsReturned' = StopsReturned
  BY DEF ShutdownInv, Flagged, Leaving, botVars, StopsReturned

LEMMA BotsStep == ASSUME ShutdownInv, ShutdownNext PROVE Flagged' /\ Leaving'
<1> USE DEF ShutdownInv, ShutdownTypeOK
<1>1. ASSUME Signal \/ EmergencyFires PROVE Flagged' /\ Leaving'
  BY <1>1, BotsKeep DEF Signal, EmergencyFires
<1>2. ASSUME Run PROVE Flagged' /\ Leaving'
  <2>1. CASE HttpStops
    BY <2>1 DEF HttpStops, Flagged, Leaving, botVars
  <2>2. CASE ~HttpStops
    BY <1>2, <2>2, BotsKeep
       DEF Run, BeginShutdown, BotsAreStopped, GiveUpOnBots, AddToBus, WaitAndClose
  <2>3. QED
    BY <2>1, <2>2
<1>3. ASSUME RangeBots PROVE Flagged' /\ Leaving'
  <2>1. SaverAt("ranging") /\ saver' = "waiting" /\ registered' = registered /\ stopped' = stopped
    BY <1>3 DEF RangeBots
  <2>2. \A b \in Bots : stop'[b]["request"] = stop[b]["request"]
    BY <1>3 DEF RangeBots
  <2>3. \A b \in registered : stop'[b]["shutdown"] = "called"
    BY <1>3 DEF RangeBots
  <2>4. \A b \in Bots : b \notin registered => stop'[b] = stop[b]
    BY <1>3 DEF RangeBots
  <2>5. \A b \in Bots : stop[b]["shutdown"] # "grace"
    BY <1>3 DEF ShutdownInv, NotBegun, RangeBots, SaverAt
  <2>9. rejected' = rejected /\ registered \subseteq Bots
    BY <1>3 DEF RangeBots
  <2>6. Flagged'
    BY <2>1, <2>2, <2>5, <2>9 DEF Flagged
  <2>7. Leaving'
    BY <2>1, <2>3 DEF Leaving
  <2>8. QED
    BY <2>6, <2>7
<1>4. ASSUME AllStopped \/ SaveAllContextDuringExit PROVE Flagged' /\ Leaving'
  BY <1>4 DEF AllStopped, SaveAllContextDuringExit, SaverAt, Flagged, Leaving, botVars
<1>5. ASSUME NEW b \in Bots, RequestStops(b) PROVE Flagged' /\ Leaving'
  BY <1>5 DEF RequestStops, CallStop, Flagged, Leaving
<1>6. ASSUME NEW b \in Bots, NEW c \in Callers, NothingToStop(b, c) PROVE Flagged' /\ Leaving'
  BY <1>6 DEF NothingToStop, StopAt, Flagged, Leaving
<1>7. ASSUME NEW b \in Bots, NEW c \in Callers, SwapStopped(b, c) PROVE Flagged' /\ Leaving'
  BY <1>7 DEF SwapStopped, StopAt, Flagged, Leaving
<1>8. ASSUME NEW b \in Bots, NEW c \in Callers, GraceEnds(b, c) PROVE Flagged' /\ Leaving'
  BY <1>8 DEF GraceEnds, StopAt, Flagged, Leaving
<1>9. ASSUME NEW p \in Producers, ModuleEnds(p) PROVE Flagged' /\ Leaving'
  BY <1>9, BotsKeep DEF ModuleEnds
<1>10. ASSUME NEW h \in Handlers, HandleNewUser(h) \/ InitializeUserSession(h) \/ Queue(h)
       PROVE  Flagged' /\ Leaving'
  BY <1>10, BotsKeep
     DEF HandleNewUser, InitializeUserSession, Queue, QueueSession, QueueFails, QueuePanics, QueueReturns
<1>11. ASSUME StarterTakes \/ StarterEnds \/ HandlerClose \/ MainReturns PROVE Flagged' /\ Leaving'
  BY <1>11, BotsKeep DEF StarterTakes, StarterEnds, HandlerClose, MainReturns
<1>12. ASSUME NEW b \in Bots, LoadBot(b) PROVE Flagged' /\ Leaving'
  BY <1>12 DEF LoadBot, Flagged, Leaving
<1>13. ASSUME NEW b \in Bots, ClientRejected(b) PROVE Flagged' /\ Leaving'
  BY <1>13 DEF ClientRejected, Flagged, Leaving
<1>14. ASSUME NEW b \in Bots, SetBot(b) PROVE Flagged' /\ Leaving'
  BY <1>14 DEF SetBot, Flagged, Leaving
<1>15. QED
  BY <1>1, <1>2, <1>3, <1>4, <1>5, <1>6, <1>7, <1>8, <1>9, <1>10, <1>11, <1>12, <1>13, <1>14
     DEF ShutdownNext, Save, StopUserBot

LEMMA BegunStep == ASSUME ShutdownInv, ShutdownNext PROVE NotBegun'
<1> USE DEF ShutdownInv, ShutdownTypeOK
<1>1. ASSUME UNCHANGED <<stop, saver>> PROVE NotBegun'
  BY <1>1 DEF NotBegun
<1>2. ASSUME Signal \/ EmergencyFires PROVE NotBegun'
  BY <1>1, <1>2 DEF Signal, EmergencyFires, botVars
<1>3. ASSUME HttpStops PROVE NotBegun'
  BY <1>3 DEF HttpStops, AppAt, NotBegun, Early, botVars
<1>4. ASSUME Run, ~HttpStops PROVE NotBegun'
  BY <1>1, <1>4 DEF Run, BeginShutdown, BotsAreStopped, GiveUpOnBots, AddToBus, WaitAndClose, botVars
<1>5. ASSUME Save PROVE NotBegun'
  BY <1>5 DEF Save, RangeBots, AllStopped, SaveAllContextDuringExit, NotBegun, botVars, SaverAt
<1>6. ASSUME NEW b \in Bots, RequestStops(b) PROVE NotBegun'
  BY <1>6 DEF RequestStops, CallStop, NotBegun
<1>7. ASSUME NEW b \in Bots, NEW c \in Callers, StopUserBot(b, c) PROVE NotBegun'
  <2>1. CASE NothingToStop(b, c)
    BY <2>1 DEF NothingToStop, StopAt, NotBegun
  <2>2. CASE SwapStopped(b, c)
    BY <2>2 DEF SwapStopped, StopAt, NotBegun
  <2>3. CASE GraceEnds(b, c)
    BY <2>3 DEF GraceEnds, StopAt, NotBegun
  <2>4. QED
    BY <1>7, <2>1, <2>2, <2>3 DEF StopUserBot
<1>8. ASSUME NEW p \in Producers, ModuleEnds(p) PROVE NotBegun'
  BY <1>1, <1>8 DEF ModuleEnds, botVars
<1>9. ASSUME NEW h \in Handlers, HandleNewUser(h) \/ InitializeUserSession(h) \/ Queue(h)
      PROVE  NotBegun'
  BY <1>1, <1>9 DEF HandleNewUser, InitializeUserSession, Queue, QueueSession, QueueFails, QueuePanics,
     QueueReturns, botVars
<1>10. ASSUME StarterTakes \/ StarterEnds \/ HandlerClose \/ MainReturns PROVE NotBegun'
  BY <1>1, <1>10 DEF StarterTakes, StarterEnds, HandlerClose, MainReturns, botVars
<1>11. ASSUME NEW b \in Bots, LoadBot(b) \/ SetBot(b) \/ ClientRejected(b) PROVE NotBegun'
  BY <1>1, <1>11 DEF LoadBot, SetBot, ClientRejected
<1>12. QED
  BY <1>2, <1>3, <1>4, <1>5, <1>6, <1>7, <1>8, <1>9, <1>10, <1>11 DEF ShutdownNext

-----------------------------------------------------------------------------
(* StartCh.                                                                *)

LEMMA ClosingStep == ASSUME ShutdownInv, ShutdownNext PROVE Early' /\ Closing'
<1> USE DEF ShutdownInv, ShutdownTypeOK, Early, Closing, StopsReturned, botVars, startVars, dbVars
<1> DEFINE Goal == Early' /\ Closing'
<1>1. ASSUME Signal \/ EmergencyFires PROVE Goal
  BY <1>1 DEF Signal, EmergencyFires, CloseDoneCh
<1>2. ASSUME BeginShutdown \/ HttpStops PROVE Goal
  BY <1>2 DEF BeginShutdown, HttpStops, AppAt
<1>3. ASSUME BotsAreStopped \/ GiveUpOnBots PROVE Goal
  BY <1>3 DEF BotsAreStopped, GiveUpOnBots, StopBotsReturns, AppAt
<1>4. ASSUME AddToBus \/ WaitAndClose PROVE Goal
  BY <1>4 DEF AddToBus, WaitAndClose, CloseDoneCh, AppAt
<1>5. ASSUME Save PROVE Goal
  BY <1>5 DEF Save, RangeBots, AllStopped, SaveAllContextDuringExit, SaverAt
<1>6. ASSUME NEW b \in Bots, RequestStops(b) PROVE Goal
  BY <1>6 DEF RequestStops, CallStop
<1>7. ASSUME NEW b \in Bots, NEW c \in Callers, StopUserBot(b, c) PROVE Goal
  BY <1>7 DEF StopUserBot, NothingToStop, SwapStopped, GraceEnds, StopAt
<1>8. ASSUME NEW p \in Producers, ModuleEnds(p) PROVE Goal
  BY <1>8 DEF ModuleEnds
<1>9. ASSUME NEW h \in Handlers, HandleNewUser(h) \/ InitializeUserSession(h) \/ Queue(h) PROVE Goal
  BY <1>9 DEF HandleNewUser, InitializeUserSession, Queue, QueueSession, QueueFails, QueuePanics, QueueReturns
<1>10. ASSUME StarterTakes \/ StarterEnds \/ HandlerClose \/ MainReturns PROVE Goal
  BY <1>10 DEF StarterTakes, StarterEnds, HandlerClose, MainReturns
<1>11. ASSUME NEW b \in Bots, LoadBot(b) \/ SetBot(b) \/ ClientRejected(b) PROVE Goal
  BY <1>11 DEF LoadBot, SetBot, ClientRejected
<1>12. QED
  BY <1>1, <1>2, <1>3, <1>4, <1>5, <1>6, <1>7, <1>8, <1>9, <1>10, <1>11 DEF ShutdownNext, Run

-----------------------------------------------------------------------------
(* The theorems.                                                           *)

LEMMA StutterKeeps == ASSUME ShutdownInv, UNCHANGED shutdownVars PROVE ShutdownInv'
<1> USE DEF shutdownVars, botVars, startVars, dbVars
<1>1. ShutdownTypeOK' /\ ByRun' /\ Waited'
  BY DEF ShutdownInv, ShutdownTypeOK, ByRun, Waited
<1>2. Flagged' /\ NotBegun' /\ Leaving'
  BY DEF ShutdownInv, Flagged, NotBegun, Leaving
<1>3. Early' /\ Closing'
  BY DEF ShutdownInv, Early, Closing, StopsReturned
<1>4. QED
  BY <1>1, <1>2, <1>3 DEF ShutdownInv

THEOREM Invariance == ShutdownSpec => []ShutdownInv
<1>1. ASSUME ShutdownInv, ShutdownNext PROVE ShutdownInv'
  <2>1. ShutdownTypeOK'
    BY <1>1, TypeStep DEF ShutdownInv
  <2>2. QED
    BY <1>1, <2>1, OrderStep, BotsStep, BegunStep, ClosingStep DEF ShutdownInv
<1>2. ShutdownInv /\ [ShutdownNext]_shutdownVars => ShutdownInv'
  BY <1>1, StutterKeeps
<1>3. QED
  BY InitEstablishes, <1>2, PTL DEF ShutdownSpec

\* Type correctness of every variable, whatever the number of bots, handlers
\* and modules and the capacity of StartCh.
THEOREM TypeCorrect == ShutdownSpec => []ShutdownTypeOK
<1>1. ShutdownInv => ShutdownTypeOK
  BY DEF ShutdownInv
<1>2. QED
  BY <1>1, Invariance, PTL

\* Without the emergency timer the database closes last: HandlerClose waits
\* for DoneCh, which Run closes when WaitAndClose has seen all producers end.
THEOREM DatabaseClosesLast == ShutdownSpec => []DatabaseLast
<1>1. ShutdownInv => DatabaseLast
  BY DEF ShutdownInv, ByRun, Waited, DatabaseLast
<1>2. QED
  BY <1>1, Invariance, PTL

\* When StopBots has closed StartCh in time, every bot it found has been deleted, or a
\* request that flagged it first is about to delete it, however many bots are started,
\* stopped and found unauthorised meanwhile: what is left in the registry was marked by its
\* own client or registered by a start that was already in flight.
THEOREM BotsLeaveBeforeModules == ShutdownSpec => []BotsLeaveFirst
<1>1. ShutdownInv => BotsLeaveFirst
  <2> SUFFICES ASSUME ShutdownInv, startClosed, ~timedOut,
                      NEW b \in registered \ (rejected \union latecomers)
               PROVE  b \in stopped /\ stop[b]["request"] = "grace"
    BY DEF BotsLeaveFirst
  <2>1. b \in Bots
    BY DEF ShutdownInv, ShutdownTypeOK
  <2>2. saver \in {"saving", "saved"} /\ stop[b]["shutdown"] \in {"none", "returned"}
    BY <2>1 DEF ShutdownInv, Closing, StopsReturned
  <2>3. QED
    BY <2>2 DEF ShutdownInv, Leaving
<1>2. QED
  BY <1>1, Invariance, PTL
=============================================================================
