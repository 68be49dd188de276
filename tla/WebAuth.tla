------------------------------ MODULE WebAuth ------------------------------
(***************************************************************************)
(* One authorisation of a Telegram account over a WebSocket:               *)
(* AuthWebSocketHandler of telegram/web_handler.go and the goroutine that  *)
(* AuthenticateWithQRForWeb of telegram/auth.go starts.                    *)
(*                                                                         *)
(* Four goroutines: the handler, which forwards authorisation states to    *)
(* the page; the reader of the page's messages; the one that authorises,   *)
(* saves the session and starts the bot; and the Telegram client's.  They  *)
(* share stateChan, passwordChan, done with its mutex and flag, and the    *)
(* atomic flag channelClosed.                                              *)
(***************************************************************************)
EXTENDS Naturals, Sequences

CONSTANT StateCap   \* places in stateChan (10 in the code)

ASSUME WebAuthAssumption == StateCap \in Nat \ {0}

VARIABLES conn,           \* the WebSocket: "open", "lost" or "closed"
          handler,        \* where AuthWebSocketHandler is
          reader,         \* where the goroutine that reads the page's messages is
          auth,           \* where the goroutine that authorises is
          tg,             \* where the Telegram client's goroutine is, and the state it offers
          held,           \* the state the handler writes to the page, or None
          stateChan,      \* authorisation states on their way to the handler
          stateClosed,    \* stateChan is closed
          channelClosed,  \* the flag safeStateSend looks at
          password,       \* passwordChan holds a password
          doneClosed,     \* doneIsClosed, which goes with close(done)
          doneChan,       \* doneChan and sessionChan hold the session
          errChan,        \* errChan holds an error
          expired,        \* authTimeout has passed
          result,         \* how AuthenticateWithQRForWeb ended
          session,        \* the session is in authSessions
          alive,          \* the process has not died of a panic
          shown,          \* history variable: the last state written to the page
          lost            \* history variable: an outcome found stateChan full

goroutines == <<handler, held, reader, auth, tg>>
channels == <<stateChan, stateClosed, channelClosed, password, doneClosed, doneChan, errChan>>
rest == <<result, session, alive, shown, lost>>
vars == <<conn, goroutines, channels, expired, rest>>

None == "none"
States == {"qr_code", "need_password", "success", "error"}
Outcomes == {"success", "error"}

Client(place) == [at |-> place, state |-> None, then |-> None]

Init == /\ conn = "open"
        /\ handler = "request"
        /\ held = None
        /\ reader = "off"
        /\ auth = "off"
        /\ tg = Client("off")
        /\ stateChan = <<>>
        /\ stateClosed = FALSE
        /\ channelClosed = FALSE
        /\ password = FALSE
        /\ doneClosed = FALSE
        /\ doneChan = FALSE
        /\ errChan = FALSE
        /\ expired = FALSE
        /\ result = None
        /\ session = FALSE
        /\ alive = TRUE
        /\ shown = None
        /\ lost = FALSE

-----------------------------------------------------------------------------
(* A goroutine runs as long as the process lives.                          *)
HandlerAt(place) == alive /\ handler = place
ReaderAt(place) == alive /\ reader = place
AuthAt(place) == alive /\ auth = place
ClientAt(place) == alive /\ tg.at = place

-----------------------------------------------------------------------------
(* The handler.                                                            *)

\* A write to a connection whose page is gone may still succeed.
WriteMayFail == conn = "lost"

\* The page is asked for the data of the account and answers with them, or not.
RequestAuthData ==
  /\ HandlerAt("request")
  /\ \/ /\ handler' = "select"
        /\ reader' = "reading"
        /\ auth' = "wait"
        /\ tg' = Client("connecting")
        /\ session' = TRUE
        /\ UNCHANGED conn
     \/ /\ handler' = "returned"
        /\ conn' = "closed"
        /\ UNCHANGED <<reader, auth, tg, session>>
  /\ UNCHANGED <<held, channels, expired, result, alive, shown, lost>>

othersChannels == <<stateClosed, channelClosed, password, doneClosed, doneChan, errChan>>

ReceiveState ==
  /\ HandlerAt("select")
  /\ stateChan # <<>>
  /\ stateChan' = Tail(stateChan)
  /\ held' = Head(stateChan)
  /\ handler' = "write"
  /\ UNCHANGED <<conn, reader, auth, tg, othersChannels, expired, rest>>

WriteState ==
  /\ HandlerAt("write")
  /\ held' = None
  /\ \/ /\ handler' = "select"
        /\ shown' = held
     \/ /\ WriteMayFail
        /\ handler' = "closing"
        /\ UNCHANGED shown
  /\ UNCHANGED <<conn, reader, auth, tg, channels, expired, result, session, alive, lost>>

\* Nothing is left in stateChan and nothing will come.
StatesEnd ==
  /\ HandlerAt("select")
  /\ stateChan = <<>> /\ stateClosed
  /\ handler' = "drained"
  /\ UNCHANGED <<conn, held, reader, auth, tg, channels, expired, rest>>

\* Mutant of MutexFree: safeCloseDone without its mutex.
MutexIgnored == TRUE

\* doneMutex is held for longer than a step only by a reader that sends on done.
MutexFree == reader # "sending"

\* Mutant of SafeCloseDone: the handler forgets funcClose.
SafeCloseDoneOnly ==
  /\ HandlerAt("closing") \/ HandlerAt("drained")
  /\ MutexFree
  /\ doneClosed' = TRUE
  /\ handler' = "returned"
  /\ UNCHANGED <<conn, held, reader, auth, tg, stateChan, stateClosed, channelClosed, password,
                 doneChan, errChan, expired, rest>>

\* The deferred safeCloseDone, then the closing of the connection.
SafeCloseDone ==
  /\ HandlerAt("closing") \/ HandlerAt("drained")
  /\ MutexFree
  /\ doneClosed' = TRUE
  /\ handler' = "returned"
  /\ conn' = "closed"
  /\ UNCHANGED <<held, reader, auth, tg, stateChan, stateClosed, channelClosed, password, doneChan,
                 errChan, expired, rest>>

-----------------------------------------------------------------------------
(* The reader.                                                             *)

\* A password waits in passwordChan; a second one ends the reader.  What a page sent
\* before it left may still be read.
ReadPassword ==
  /\ ReaderAt("reading")
  /\ conn # "closed"
  /\ reader' = IF password THEN "ending" ELSE "reading"
  /\ password' = TRUE
  /\ UNCHANGED <<conn, handler, held, auth, tg, stateChan, stateClosed, channelClosed, doneClosed,
                 doneChan, errChan, expired, rest>>

ReadFails ==
  /\ ReaderAt("reading")
  /\ conn # "open"
  /\ reader' = "ending"
  /\ UNCHANGED <<conn, handler, held, auth, tg, channels, expired, rest>>

\* The deferred function takes the mutex and keeps it while it sends on done.
EndReader ==
  /\ ReaderAt("ending")
  /\ reader' = IF doneClosed THEN "gone" ELSE "sending"
  /\ UNCHANGED <<conn, handler, held, auth, tg, channels, expired, rest>>

\* done has no buffer: the reader and the select of the handler meet.
TellDone ==
  /\ ReaderAt("sending")
  /\ HandlerAt("select")
  /\ reader' = "gone"
  /\ handler' = "closing"
  /\ UNCHANGED <<conn, held, auth, tg, channels, expired, rest>>

PageLeaves ==
  /\ alive
  /\ conn = "open"
  /\ conn' = "lost"
  /\ UNCHANGED <<goroutines, channels, expired, rest>>

-----------------------------------------------------------------------------
(* The goroutine that authorises.                                          *)

\* Mutant of AwaitOutcome: no case for the end of ctx.
AwaitOutcomeForever ==
  /\ AuthAt("wait")
  /\ doneChan \/ errChan
  /\ auth' = "leave"
  /\ doneChan' = FALSE
  /\ errChan' = FALSE
  /\ result' = IF doneChan THEN "session" ELSE "error"
  /\ UNCHANGED <<conn, handler, held, reader, tg, stateChan, stateClosed, channelClosed, password,
                 doneClosed, expired, session, alive, shown, lost>>

AwaitOutcome ==
  /\ AuthAt("wait")
  /\ auth' = "leave"
  /\ \/ /\ doneChan
        /\ doneChan' = FALSE
        /\ result' = "session"
        /\ UNCHANGED errChan
     \/ /\ errChan
        /\ errChan' = FALSE
        /\ result' = "error"
        /\ UNCHANGED doneChan
     \/ /\ expired
        /\ result' = "timeout"
        /\ UNCHANGED <<doneChan, errChan>>
  /\ UNCHANGED <<conn, handler, held, reader, tg, stateChan, stateClosed, channelClosed, password,
                 doneClosed, expired, session, alive, shown, lost>>

\* channelClosed is set; the deferred cancel ends the context of the client.
LeaveAuthenticate ==
  /\ AuthAt("leave")
  /\ channelClosed' = TRUE
  /\ auth' = IF result = "session" THEN "save" ELSE "free"
  /\ UNCHANGED <<conn, handler, held, reader, tg, stateChan, stateClosed, password, doneClosed,
                 doneChan, errChan, expired, rest>>

\* Encrypted or not, the session is saved, or the database refuses it.
SaveSession ==
  /\ AuthAt("save")
  /\ auth' \in {"start", "free"}
  /\ UNCHANGED <<conn, handler, held, reader, tg, channels, expired, rest>>

\* RestartUserBot or StartUserBot: see BotLifecycle.
StartBot ==
  /\ AuthAt("start")
  /\ auth' = "free"
  /\ UNCHANGED <<conn, handler, held, reader, tg, channels, expired, rest>>

FreeSession ==
  /\ AuthAt("free")
  /\ auth' = "close"
  /\ session' = FALSE
  /\ UNCHANGED <<conn, handler, held, reader, tg, channels, expired, result, alive, shown, lost>>

CloseStates ==
  /\ AuthAt("close")
  /\ auth' = "gone"
  /\ stateClosed' = TRUE
  /\ UNCHANGED <<conn, handler, held, reader, tg, stateChan, channelClosed, password, doneClosed,
                 doneChan, errChan, expired, rest>>

\* context.WithTimeout(context.Background(), authTimeout).
Expire ==
  /\ AuthAt("wait")
  /\ ~expired
  /\ expired' = TRUE
  /\ UNCHANGED <<conn, goroutines, channels, rest>>

CtxDone == expired \/ channelClosed

-----------------------------------------------------------------------------
(* The Telegram client.  safeStateSend looks at channelClosed and sends in *)
(* two steps; what the client does next is in tg.then.                     *)

Offer(state, next) == tg' = [at |-> "load", state |-> state, then |-> next]

clientOnly == <<conn, handler, held, reader, auth, expired, stateClosed, channelClosed, doneClosed>>

Connect ==
  /\ ClientAt("connecting")
  /\ tg' \in {Client("scan"), Client("failed")}
  /\ UNCHANGED <<clientOnly, stateChan, password, doneChan, errChan, rest>>

\* QR().Auth: a code to scan, again and again, then the login, a password or an error.
ScanCode ==
  /\ ClientAt("scan")
  /\ \/ Offer("qr_code", "scan")
     \/ tg' = Client("login")
     \/ Offer("need_password", "password")
     \/ Offer("error", "failed")
  /\ UNCHANGED <<clientOnly, stateChan, password, doneChan, errChan, rest>>

AwaitPassword ==
  /\ ClientAt("password")
  /\ \/ /\ password
        /\ password' = FALSE
        /\ tg' = Client("checking")
     \/ /\ CtxDone
        /\ tg' = Client("failed")
        /\ UNCHANGED password
  /\ UNCHANGED <<clientOnly, stateChan, doneChan, errChan, rest>>

\* Mutant of CheckPassword: a wrong password leads back to the code to scan.
CheckPasswordRetries ==
  /\ ClientAt("checking")
  /\ tg' = Client("login") \/ Offer("error", "scan")
  /\ UNCHANGED <<clientOnly, stateChan, password, doneChan, errChan, rest>>

CheckPassword ==
  /\ ClientAt("checking")
  /\ tg' = Client("login") \/ Offer("error", "failed")
  /\ UNCHANGED <<clientOnly, stateChan, password, doneChan, errChan, rest>>

\* Mutant of LogIn: the session is handed over before success is offered.
LogInSignalsFirst ==
  /\ ClientAt("login")
  /\ doneChan' = TRUE
  /\ Offer("success", "returned")
  /\ UNCHANGED <<clientOnly, stateChan, password, errChan, rest>>

\* Self and LoadSession.
LogIn ==
  /\ ClientAt("login")
  /\ Offer("success", "signal") \/ Offer("error", "failed")
  /\ UNCHANGED <<clientOnly, stateChan, password, doneChan, errChan, rest>>

SignalDone ==
  /\ ClientAt("signal")
  /\ doneChan' = TRUE
  /\ tg' = Client("returned")
  /\ UNCHANGED <<clientOnly, stateChan, password, errChan, rest>>

\* Mutant of RunReturns: the error is reported before it is offered.
RunReturnsReporting ==
  /\ ClientAt("failed") \/ ClientAt("returned")
  /\ errChan' = TRUE
  /\ Offer("error", "gone")
  /\ UNCHANGED <<clientOnly, stateChan, password, doneChan, rest>>

\* Run returns: the callback's error, an error of its own, or nothing to report.
RunReturns ==
  /\ ClientAt("failed") \/ ClientAt("returned")
  /\ tg' = Client("gone") \/ Offer("error", "report")
  /\ UNCHANGED <<clientOnly, stateChan, password, doneChan, errChan, rest>>

ReportError ==
  /\ ClientAt("report")
  /\ errChan' = TRUE
  /\ tg' = Client("gone")
  /\ UNCHANGED <<clientOnly, stateChan, password, doneChan, rest>>

LoadFlag ==
  /\ ClientAt("load")
  /\ tg' = IF channelClosed THEN Client(tg.then) ELSE [tg EXCEPT !.at = "send"]
  /\ UNCHANGED <<clientOnly, stateChan, password, doneChan, errChan, rest>>

HasRoom == Len(stateChan) < StateCap

SendState ==
  /\ ClientAt("send")
  /\ ~stateClosed
  /\ stateChan' = IF HasRoom THEN Append(stateChan, tg.state) ELSE stateChan
  /\ lost' = (lost \/ (~HasRoom /\ tg.state \in Outcomes))
  /\ tg' = Client(tg.then)
  /\ UNCHANGED <<clientOnly, password, doneChan, errChan, result, session, alive, shown>>

\* A send on a closed channel panics.  The goroutine itself recovers and reports it; the
\* callback runs in a goroutine of the client library, which may hand the panic on or not.
SendPanics ==
  /\ ClientAt("send")
  /\ stateClosed
  /\ \/ /\ tg' = Client("report")
        /\ UNCHANGED alive
     \/ /\ tg.then # "report"
        /\ alive' = FALSE
        /\ UNCHANGED tg
  /\ UNCHANGED <<clientOnly, stateChan, password, doneChan, errChan, result, session, shown, lost>>

-----------------------------------------------------------------------------
Handler == RequestAuthData \/ ReceiveState \/ WriteState \/ StatesEnd \/ SafeCloseDone

Reader == ReadPassword \/ ReadFails \/ EndReader \/ TellDone

Auth == \/ AwaitOutcome \/ LeaveAuthenticate \/ SaveSession \/ StartBot
        \/ FreeSession \/ CloseStates

Telegram == \/ Connect \/ ScanCode \/ AwaitPassword \/ CheckPassword \/ LogIn \/ SignalDone
            \/ RunReturns \/ ReportError \/ LoadFlag \/ SendState \/ SendPanics

Next == Handler \/ Reader \/ PageLeaves \/ Auth \/ Expire \/ Telegram

Spec == Init /\ [][Next]_vars

\* The goroutines of the program run and the timer fires; a write to the page ends, one way
\* or the other, and a closed connection ends a read.  Saving is bounded by a timeout of the
\* repository.  Nothing is assumed of Telegram, of the page, or of the start of the bot.
FairSpec ==
  /\ Spec
  /\ WF_vars(Handler)
  /\ WF_vars(ReadFails \/ EndReader)
  /\ WF_vars(AwaitOutcome \/ LeaveAuthenticate \/ SaveSession \/ FreeSession \/ CloseStates)
  /\ WF_vars(Expire)

-----------------------------------------------------------------------------
Clients ==
  [at : {"off", "connecting", "scan", "password", "checking", "login", "signal", "failed",
         "returned", "load", "send", "report", "gone"},
   state : States \cup {None},
   then : {"scan", "password", "failed", "signal", "returned", "report", "gone", None}]

TypeOK ==
  /\ conn \in {"open", "lost", "closed"}
  /\ handler \in {"request", "select", "write", "drained", "closing", "returned"}
  /\ held \in States \cup {None}
  /\ reader \in {"off", "reading", "ending", "sending", "gone"}
  /\ auth \in {"off", "wait", "leave", "save", "start", "free", "close", "gone"}
  /\ tg \in Clients
  /\ stateChan \in Seq(States) /\ Len(stateChan) =< StateCap
  /\ stateClosed \in BOOLEAN /\ channelClosed \in BOOLEAN
  /\ password \in BOOLEAN
  /\ doneClosed \in BOOLEAN
  /\ doneChan \in BOOLEAN /\ errChan \in BOOLEAN
  /\ expired \in BOOLEAN
  /\ result \in {None, "session", "error", "timeout"}
  /\ session \in BOOLEAN
  /\ alive \in BOOLEAN
  /\ shown \in States \cup {None}
  /\ lost \in BOOLEAN

\* The reader sends on done only while it is open, however its end races with the handler's
\* (web_handler.go: the flag is read and acted on under doneMutex on both sides).
NoSendOnClosedDone == reader = "sending" => ~doneClosed

\* The callback of the client meets a closed stateChan, which nobody recovers, only if the
\* authorisation timed out (auth.go, safeStateSend): every other end of the authorisation
\* comes after the last state the callback offers.
PanicOnlyOnTimeout == ~alive => result = "timeout"

\* A handler that has read its channel to the end has told the page how the authorisation
\* ended, unless stateChan was full at that moment or the time was over (auth.go: a state is
\* offered before doneChan or errChan is signalled; web_handler.go: the channel is drained).
OutcomeTold ==
  handler = "drained" /\ ~lost =>
    /\ result = "session" => shown \in Outcomes
    /\ result = "error" => shown = "error"

Rank(state) == CASE state = None -> 0
                 [] state = "qr_code" -> 1
                 [] state = "need_password" -> 2
                 [] state = "success" -> 3
                 [] state = "error" -> 4

\* The page is never taken back: no code to scan after the password was asked for, nothing
\* but an error after success, nothing after an error (auth.go, the order of the offers).
ShownForward == [][Rank(shown) =< Rank(shown')]_shown

\* The handler does not forward states for ever, even if nobody scans the code, unless the
\* process died or the start of the bot hangs (auth.go, authTimeout).
HandlerLeaves ==
  handler = "select" ~> handler \in {"drained", "closing", "returned"} \/ auth = "start" \/ ~alive

\* When the handler has returned, the reader ends too.
ReaderFollows == handler = "returned" /\ reader # "off" ~> reader = "gone" \/ ~alive

\* What web_handler.go promises of safeCloseDone ("Безопасное закрытие канала") and of its
\* defer: a handler that is done closes done.  It cannot while the reader sends on done with
\* doneMutex held and the handler has left its select.
DoneIsClosed == handler \in {"drained", "closing"} ~> doneClosed \/ ~alive
=============================================================================
