--------------------------- MODULE WebAuthProofs ---------------------------
(***************************************************************************)
(* Proofs about WebAuth: type correctness, and that the reader never sends *)
(* on a closed channel, that the process dies only after a timeout, that   *)
(* the page learns the outcome and that it is never taken back, whatever   *)
(* the capacity of stateChan.                                              *)
(***************************************************************************)
EXTENDS WebAuth, TLAPS

\* Where the client will be when it has offered its state.
Place == IF tg.at \in {"load", "send"} THEN tg.then ELSE tg.at

\* What the client may be offering, and where it goes on.
Offers == /\ tg.at \in {"load", "send"} =>
               \/ tg.state = "qr_code" /\ tg.then = "scan"
               \/ tg.state = "need_password" /\ tg.then = "password"
               \/ tg.state = "error" /\ tg.then \in {"failed", "report"}
               \/ tg.state = "success" /\ tg.then = "signal"

\* The stages of the authorising goroutine.
Stages == /\ handler = "request" => auth = "off" /\ reader = "off" /\ tg.at = "off"
          /\ stateClosed <=> auth = "gone"
          /\ channelClosed <=> auth \in {"save", "start", "free", "close", "gone"}
          /\ result = None <=> auth \in {"off", "wait"}

\* The session is handed over by a client whose callback is over, an error by a client
\* that is gone.
Signals == /\ doneChan \/ result = "session" => Place \in {"returned", "report", "gone"}
           /\ errChan \/ result = "error" => tg.at = "gone"
           /\ tg.at = "off" => ~doneChan /\ ~errChan

\* The least rank of what the client may still offer.
Floor == CASE tg.at \in {"connecting", "scan"} -> 1
           [] tg.at \in {"password", "checking", "login"} -> 2
           [] tg.at \in {"load", "send"} -> Rank(tg.state)
           [] tg.at \in {"signal", "returned"} -> 3
           [] tg.at \in {"failed", "report", "gone"} -> 4
           [] OTHER -> 0

\* What was shown, what is being written, what is in the channel and what is still to come
\* follow each other in rank.
InOrder == /\ Rank(shown) =< Floor /\ Rank(held) =< Floor
           /\ held # None => Rank(shown) =< Rank(held)
           /\ \A i \in DOMAIN stateChan :
                 /\ Rank(shown) =< Rank(stateChan[i])
                 /\ Rank(held) =< Rank(stateChan[i])
                 /\ Rank(stateChan[i]) =< Floor
           /\ \A i, j \in DOMAIN stateChan : i =< j => Rank(stateChan[i]) =< Rank(stateChan[j])

\* What the handler holds, and that nothing follows the end of the channel.
Writing == /\ held # None <=> handler = "write"
           /\ handler = "drained" => stateChan = <<>> /\ stateClosed

\* One of the outcomes is on its way to the page or was shown, unless it was dropped, the
\* handler has left or the time was over.
Told(outcomes) == \/ result = "timeout"
                  \/ lost
                  \/ handler \in {"closing", "returned"}
                  \/ shown \in outcomes
                  \/ held \in outcomes
                  \/ \E i \in DOMAIN stateChan : stateChan[i] \in outcomes

Promises == /\ tg.at = "signal" \/ doneChan \/ result = "session" => Told(Outcomes)
            /\ tg.at = "report" \/ errChan => result = "session" \/ Told({"error"})
            /\ result = "error" => Told({"error"})

AuthInv == /\ TypeOK
           /\ NoSendOnClosedDone
           /\ PanicOnlyOnTimeout
           /\ Offers
           /\ Stages
           /\ Signals
           /\ InOrder
           /\ Writing
           /\ Promises

-----------------------------------------------------------------------------
(* Sequences of states, as stateChan uses them.                            *)

LEMMA HeadAndTail ==
  ASSUME NEW q \in Seq(States), q # <<>>
  PROVE  /\ Tail(q) \in Seq(States)
         /\ Len(Tail(q)) = Len(q) - 1
         /\ Len(q) \in Nat \ {0}
         /\ DOMAIN q = 1..Len(q) /\ DOMAIN Tail(q) = 1..(Len(q) - 1)
         /\ \A i \in 1..(Len(q) - 1) : Tail(q)[i] = q[i + 1]
         /\ Head(q) = q[1]
         /\ Head(q) \in States
  OBVIOUS

LEMMA Appended ==
  ASSUME NEW q \in Seq(States), NEW x \in States
  PROVE  /\ Append(q, x) \in Seq(States)
         /\ Len(Append(q, x)) = Len(q) + 1
         /\ Len(q) \in Nat
         /\ DOMAIN q = 1..Len(q) /\ DOMAIN Append(q, x) = 1..(Len(q) + 1)
         /\ \A i \in 1..Len(q) : Append(q, x)[i] = q[i]
         /\ Append(q, x)[Len(q) + 1] = x
  OBVIOUS

LEMMA Ranks ==
  /\ Rank(None) = 0 /\ Rank("qr_code") = 1 /\ Rank("need_password") = 2
  /\ Rank("success") = 3 /\ Rank("error") = 4
  BY DEF Rank, None

-----------------------------------------------------------------------------
(* What each goroutine leaves alone.                                       *)

LEMMA ReaderFrame ==
  ASSUME Reader
  PROVE  /\ UNCHANGED <<tg, stateChan, stateClosed, channelClosed, doneChan, errChan,
                        result, alive, shown, held, lost, auth>>
         /\ handler' = handler \/ (handler = "select" /\ handler' = "closing")
<1>1. CASE ReadPassword
  BY <1>1 DEF ReadPassword, rest
<1>2. CASE ReadFails
  BY <1>2 DEF ReadFails, channels, rest
<1>3. CASE EndReader
  BY <1>3 DEF EndReader, channels, rest
<1>4. CASE TellDone
  BY <1>4 DEF TellDone, channels, rest, HandlerAt
<1>5. QED BY <1>1, <1>2, <1>3, <1>4 DEF Reader

LEMMA AuthFrame ==
  ASSUME Auth
  PROVE  /\ UNCHANGED <<tg, stateChan, handler, held, reader, doneClosed, alive, shown, lost>>
         /\ result' = result \/ (auth = "wait" /\ result' # None)
         /\ doneChan' => doneChan
         /\ errChan' => errChan
<1>1. CASE AwaitOutcome
  BY <1>1 DEF AwaitOutcome, AuthAt, None
<1>2. CASE LeaveAuthenticate
  BY <1>2 DEF LeaveAuthenticate, rest
<1>3. CASE SaveSession \/ StartBot
  BY <1>3 DEF SaveSession, StartBot, channels, rest
<1>4. CASE FreeSession
  BY <1>4 DEF FreeSession, channels
<1>5. CASE CloseStates
  BY <1>5 DEF CloseStates, rest
<1>6. QED BY <1>1, <1>2, <1>3, <1>4, <1>5 DEF Auth

LEMMA TelegramFrame ==
  ASSUME Telegram
  PROVE  /\ UNCHANGED <<conn, handler, held, reader, auth, expired, stateClosed,
                        channelClosed, doneClosed, result, session, shown>>
         /\ tg.at # "off"
         /\ SendPanics \/ UNCHANGED alive
BY DEF Telegram, Connect, ScanCode, AwaitPassword, CheckPassword, LogIn, SignalDone, RunReturns,
       ReportError, LoadFlag, SendState, SendPanics, clientOnly, rest, ClientAt

LEMMA HandlerFrame ==
  ASSUME Handler
  PROVE  /\ UNCHANGED <<stateClosed, channelClosed, doneChan, errChan, result, alive, lost>>
         /\ handler' # "request"
         /\ RequestAuthData \/ (UNCHANGED <<tg, auth, reader>> /\ handler # "request")
<1>1. CASE RequestAuthData
  BY <1>1 DEF RequestAuthData, channels
<1>2. CASE ReceiveState
  BY <1>2 DEF ReceiveState, othersChannels, rest, HandlerAt
<1>3. CASE WriteState
  BY <1>3 DEF WriteState, channels, HandlerAt
<1>4. CASE StatesEnd
  BY <1>4 DEF StatesEnd, channels, rest, HandlerAt
<1>5. CASE SafeCloseDone
  BY <1>5 DEF SafeCloseDone, rest, HandlerAt
<1>6. QED BY <1>1, <1>2, <1>3, <1>4, <1>5 DEF Handler

Others == PageLeaves \/ Expire \/ UNCHANGED vars

LEMMA OthersFrame ==
  ASSUME Others
  PROVE  /\ UNCHANGED <<goroutines, channels, rest>>
         /\ UNCHANGED <<handler, held, reader, auth, tg>>
         /\ UNCHANGED <<stateChan, stateClosed, channelClosed, password, doneClosed, doneChan, errChan>>
         /\ UNCHANGED <<result, session, alive, shown, lost>>
BY DEF Others, PageLeaves, Expire, vars, goroutines, channels, rest

LEMMA Steps == ASSUME [Next]_vars
               PROVE  Handler \/ Reader \/ Auth \/ Telegram \/ Others
BY DEF Next, Others

-----------------------------------------------------------------------------
(* Types.                                                                  *)

LEMMA InitTyped == ASSUME Init PROVE TypeOK
<1>1. tg \in Clients
  BY DEF Init, Client, Clients, None
<1>2. <<>> \in Seq(States) /\ Len(<<>>) =< StateCap
  BY WebAuthAssumption
<1>3. QED BY <1>1, <1>2 DEF Init, TypeOK

LEMMA HandlerTyped == ASSUME TypeOK, Handler PROVE TypeOK'
<1> USE DEF TypeOK, channels, othersChannels, rest, HandlerAt
<1>1. CASE RequestAuthData
  <2>1. tg' \in Clients
    BY <1>1 DEF RequestAuthData, Client, Clients
  <2>2. /\ handler' \in {"select", "returned"} /\ conn' \in {"open", "lost", "closed"}
        /\ reader' \in {"off", "reading", "ending", "sending", "gone"}
        /\ auth' \in {"off", "wait", "leave", "save", "start", "free", "close", "gone"}
        /\ session' \in BOOLEAN
    BY <1>1 DEF RequestAuthData
  <2>3. QED BY <1>1, <2>1, <2>2 DEF RequestAuthData
<1>2. CASE ReceiveState
  <2>1. /\ Tail(stateChan) \in Seq(States) /\ Len(Tail(stateChan)) =< StateCap
        /\ Head(stateChan) \in States
    BY <1>2, HeadAndTail, WebAuthAssumption DEF ReceiveState
  <2>2. QED BY <1>2, <2>1 DEF ReceiveState
<1>3. CASE WriteState
  BY <1>3 DEF WriteState
<1>4. CASE StatesEnd
  BY <1>4 DEF StatesEnd
<1>5. CASE SafeCloseDone
  BY <1>5 DEF SafeCloseDone
<1>6. QED BY <1>1, <1>2, <1>3, <1>4, <1>5 DEF Handler

LEMMA ReaderTyped == ASSUME TypeOK, Reader \/ PageLeaves PROVE TypeOK'
<1> USE DEF TypeOK, goroutines, channels, rest
<1>1. CASE PageLeaves
  BY <1>1 DEF PageLeaves
<1>2. CASE ReadPassword
  BY <1>2 DEF ReadPassword
<1>3. CASE ReadFails \/ EndReader \/ TellDone
  BY <1>3 DEF ReadFails, EndReader, TellDone
<1>4. QED BY <1>1, <1>2, <1>3 DEF Reader

LEMMA AuthTyped == ASSUME TypeOK, Auth \/ Expire PROVE TypeOK'
<1> USE DEF TypeOK, goroutines, channels, rest
<1>1. CASE AwaitOutcome
  <2>1. /\ doneChan' \in BOOLEAN /\ errChan' \in BOOLEAN
        /\ result' \in {"session", "error", "timeout"}
    BY <1>1 DEF AwaitOutcome
  <2>2. QED BY <1>1, <2>1 DEF AwaitOutcome
<1>2. CASE LeaveAuthenticate
  BY <1>2 DEF LeaveAuthenticate
<1>3. CASE SaveSession \/ StartBot
  BY <1>3 DEF SaveSession, StartBot
<1>4. CASE FreeSession
  <2>1. /\ auth' = "close" /\ session' = FALSE
        /\ UNCHANGED <<conn, handler, held, reader, tg, channels, expired, result, alive, shown, lost>>
    BY <1>4 DEF FreeSession
  <2>2. /\ session' \in BOOLEAN
        /\ auth' \in {"off", "wait", "leave", "save", "start", "free", "close", "gone"}
    BY <2>1
  <2>3. QED BY <2>1, <2>2
<1>5. CASE CloseStates
  BY <1>5 DEF CloseStates
<1>6. CASE Expire
  BY <1>6 DEF Expire
<1>7. QED BY <1>1, <1>2, <1>3, <1>4, <1>5, <1>6 DEF Auth

\* The client's steps, without the sequence of places they come from.
LEMMA ClientPlaces ==
  /\ \A place \in {"scan", "login", "checking", "failed", "report", "returned", "gone",
                   "password", "signal"} : Client(place) \in Clients
  /\ \A state \in States, next \in {"scan", "password", "failed", "signal", "report"} :
        [at |-> "load", state |-> state, then |-> next] \in Clients
BY DEF Client, Clients, None

LEMMA TelegramTyped == ASSUME TypeOK, Offers, Telegram PROVE TypeOK'
<1>1. tg' \in Clients
  <2>1. CASE Connect \/ ScanCode \/ CheckPassword \/ LogIn \/ RunReturns
    BY <2>1, ClientPlaces DEF Connect, ScanCode, CheckPassword, LogIn, RunReturns, Offer, States
  <2>2. CASE AwaitPassword \/ SignalDone \/ ReportError
    BY <2>2, ClientPlaces DEF AwaitPassword, SignalDone, ReportError
  <2>3. CASE LoadFlag
    <3>1. tg.then \in {"scan", "password", "failed", "report", "signal"}
      BY <2>3 DEF LoadFlag, ClientAt, Offers
    <3>2. [tg EXCEPT !.at = "send"] \in Clients
      BY DEF TypeOK, Clients
    <3>3. QED BY <2>3, <3>1, <3>2, ClientPlaces DEF LoadFlag
  <2>4. CASE SendState
    <3>1. tg.then \in {"scan", "password", "failed", "report", "signal"}
      BY <2>4 DEF SendState, ClientAt, Offers
    <3>2. QED BY <2>4, <3>1, ClientPlaces DEF SendState
  <2>5. CASE SendPanics
    BY <2>5, ClientPlaces DEF SendPanics, TypeOK
  <2>6. QED BY <2>1, <2>2, <2>3, <2>4, <2>5 DEF Telegram
<1>2. /\ stateChan' \in Seq(States) /\ Len(stateChan') =< StateCap
      /\ lost' \in BOOLEAN
  <2>1. CASE SendState
    <3>1. tg.state \in States
      BY <2>1 DEF SendState, ClientAt, Offers, States
    <3>2. CASE HasRoom
      BY <2>1, <3>1, <3>2, Appended, WebAuthAssumption DEF SendState, HasRoom, TypeOK
    <3>3. CASE ~HasRoom
      BY <2>1, <3>3 DEF SendState, TypeOK
    <3>4. QED BY <3>2, <3>3
  <2>2. CASE ~SendState
    <3>1. UNCHANGED <<stateChan, lost>>
      BY <2>2 DEF Telegram, Connect, ScanCode, AwaitPassword, CheckPassword, LogIn, SignalDone,
                  RunReturns, ReportError, LoadFlag, SendPanics, rest
    <3>2. QED BY <3>1 DEF TypeOK
  <2>3. QED BY <2>1, <2>2
<1>3. /\ password' \in BOOLEAN /\ doneChan' \in BOOLEAN /\ errChan' \in BOOLEAN
      /\ alive' \in BOOLEAN
  BY DEF TypeOK, Telegram, Connect, ScanCode, AwaitPassword, CheckPassword, LogIn, SignalDone,
         RunReturns, ReportError, LoadFlag, SendState, SendPanics, rest
<1>4. QED BY <1>1, <1>2, <1>3, TelegramFrame DEF TypeOK

LEMMA TypesKept ==
  ASSUME TypeOK, Offers, [Next]_vars
  PROVE  TypeOK'
<1>1. CASE UNCHANGED vars
  BY <1>1 DEF TypeOK, vars, goroutines, channels, rest
<1>2. QED BY <1>1, HandlerTyped, ReaderTyped, AuthTyped, TelegramTyped DEF Next

-----------------------------------------------------------------------------
(* The control of the client and of the authorising goroutine.             *)

LEMMA OffersKept ==
  ASSUME TypeOK, Offers, [Next]_vars
  PROVE  Offers'
<1>1. CASE Telegram
  <2>1. CASE Connect \/ AwaitPassword \/ SignalDone \/ ReportError
    BY <2>1 DEF Connect, AwaitPassword, SignalDone, ReportError, Offers, Client
  <2>2. CASE ScanCode \/ CheckPassword \/ LogIn \/ RunReturns
    BY <2>2 DEF ScanCode, CheckPassword, LogIn, RunReturns, Offers, Offer, Client
  <2>3. CASE LoadFlag
    BY <2>3 DEF LoadFlag, ClientAt, Offers, Client, TypeOK, Clients
  <2>4. CASE SendState
    BY <2>4 DEF SendState, ClientAt, Offers, Client
  <2>5. CASE SendPanics
    BY <2>5 DEF SendPanics, Offers, Client
  <2>6. QED BY <1>1, <2>1, <2>2, <2>3, <2>4, <2>5 DEF Telegram
<1>2. CASE RequestAuthData
  BY <1>2 DEF RequestAuthData, Offers, Client
<1>3. CASE UNCHANGED tg
  BY <1>3 DEF Offers
<1>4. QED BY <1>1, <1>2, <1>3, Steps, HandlerFrame, ReaderFrame, AuthFrame, OthersFrame

LEMMA StagesKept ==
  ASSUME TypeOK, Stages, [Next]_vars
  PROVE  Stages'
<1>1. CASE RequestAuthData
  <2>1. auth = "off" /\ handler' # "request"
    BY <1>1 DEF RequestAuthData, HandlerAt, Stages
  <2>2. auth' \in {"off", "wait"}
    BY <1>1, <2>1 DEF RequestAuthData
  <2>3. UNCHANGED <<stateClosed, channelClosed, result>>
    BY <1>1 DEF RequestAuthData, channels
  <2>4. QED BY <2>1, <2>2, <2>3 DEF Stages
<1>2. CASE Handler /\ ~RequestAuthData
  BY <1>2, HandlerFrame DEF Stages
<1>3. CASE Reader
  <2>1. reader # "off"
    BY <1>3 DEF Reader, ReadPassword, ReadFails, EndReader, TellDone, ReaderAt
  <2>2. QED BY <1>3, <2>1, ReaderFrame DEF Stages
<1>4. CASE Auth
  <2>1. CASE AwaitOutcome
    BY <2>1 DEF AwaitOutcome, AuthAt, Stages, None
  <2>2. CASE LeaveAuthenticate
    BY <2>2 DEF LeaveAuthenticate, AuthAt, Stages, rest
  <2>3. CASE SaveSession
    BY <2>3 DEF SaveSession, AuthAt, Stages, channels, rest
  <2>4. CASE StartBot
    BY <2>4 DEF StartBot, AuthAt, Stages, channels, rest
  <2>5. CASE FreeSession
    BY <2>5 DEF FreeSession, AuthAt, Stages, channels
  <2>6. CASE CloseStates
    BY <2>6 DEF CloseStates, AuthAt, Stages, rest
  <2>7. QED BY <1>4, <2>1, <2>2, <2>3, <2>4, <2>5, <2>6 DEF Auth
<1>5. CASE Telegram
  BY <1>5, TelegramFrame DEF Stages
<1>6. CASE Others
  BY <1>6, OthersFrame DEF Stages
<1>7. QED BY <1>1, <1>2, <1>3, <1>4, <1>5, <1>6, Steps

LEMMA LockKept ==
  ASSUME NoSendOnClosedDone, [Next]_vars
  PROVE  NoSendOnClosedDone'
<1> USE DEF NoSendOnClosedDone
<1>1. CASE SafeCloseDone
  BY <1>1 DEF SafeCloseDone, MutexFree
<1>2. CASE RequestAuthData
  BY <1>2 DEF RequestAuthData, channels
<1>3. CASE ReceiveState \/ WriteState \/ StatesEnd
  BY <1>3 DEF ReceiveState, WriteState, StatesEnd, othersChannels, channels
<1>4. CASE ReadPassword
  BY <1>4 DEF ReadPassword
<1>5. CASE ReadFails \/ EndReader \/ TellDone
  BY <1>5 DEF ReadFails, EndReader, TellDone, channels
<1>6. CASE Auth \/ Telegram \/ Others
  BY <1>6, AuthFrame, TelegramFrame, OthersFrame
<1>7. QED BY <1>1, <1>2, <1>3, <1>4, <1>5, <1>6, Steps DEF Handler, Reader

\* The session is signalled when the callback is over, an error when the client is gone.
LEMMA SignalsKept ==
  ASSUME TypeOK, Offers, Stages, Signals, [Next]_vars
  PROVE  Signals'
<1>1. CASE Telegram
  <2>1. UNCHANGED result /\ tg.at # "off"
    BY <1>1, TelegramFrame
  <2>2. CASE Connect \/ ScanCode \/ AwaitPassword \/ CheckPassword \/ LogIn
    <3>1. /\ ~doneChan /\ ~errChan /\ result \notin {"session", "error"}
          /\ UNCHANGED <<doneChan, errChan>> /\ tg'.at # "off"
      BY <2>2 DEF Signals, Place, Connect, ScanCode, AwaitPassword, CheckPassword, LogIn, ClientAt,
                  Client, Offer
    <3>2. QED BY <3>1, <2>1 DEF Signals
  <2>3. CASE SignalDone
    BY <2>3, <2>1 DEF SignalDone, Signals, Place, Client, ClientAt
  <2>4. CASE RunReturns
    BY <2>4, <2>1 DEF RunReturns, Signals, Place, Client, Offer, ClientAt
  <2>5. CASE ReportError
    BY <2>5, <2>1 DEF ReportError, Signals, Place, Client, ClientAt
  <2>6. CASE LoadFlag
    BY <2>6, <2>1 DEF LoadFlag, Signals, Place, Client, ClientAt, Offers, TypeOK, Clients
  <2>7. CASE SendState
    BY <2>7, <2>1 DEF SendState, Signals, Place, Client, ClientAt, Offers
  <2>8. CASE SendPanics
    <3>1. /\ tg' \in {tg, Client("report")} /\ UNCHANGED <<doneChan, errChan>>
          /\ tg.at = "send" /\ ~errChan /\ result # "error"
      BY <2>8 DEF SendPanics, Signals, ClientAt
    <3>2. CASE tg' = tg
      BY <3>1, <3>2, <2>1 DEF Signals, Place
    <3>3. CASE tg' = Client("report")
      BY <3>1, <3>3, <2>1 DEF Signals, Place, Client
    <3>4. QED BY <3>1, <3>2, <3>3
  <2>9. QED BY <1>1, <2>2, <2>3, <2>4, <2>5, <2>6, <2>7, <2>8 DEF Telegram
<1>2. CASE RequestAuthData
  <2>1. /\ UNCHANGED <<doneChan, errChan, result>> /\ ~doneChan /\ ~errChan
        /\ result \notin {"session", "error"}
    BY <1>2 DEF RequestAuthData, HandlerAt, channels, Stages, Signals, None
  <2>2. QED BY <2>1 DEF Signals
<1>3. CASE (Handler /\ ~RequestAuthData) \/ Reader \/ Others
  BY <1>3, HandlerFrame, ReaderFrame, OthersFrame DEF Signals, Place
<1>4. CASE AwaitOutcome
  <2>1. /\ UNCHANGED tg
        /\ doneChan' => doneChan
        /\ errChan' => errChan
        /\ result' = "session" => doneChan
        /\ result' = "error" => errChan
    BY <1>4 DEF AwaitOutcome
  <2>2. QED BY <2>1 DEF Signals, Place
<1>5. CASE Auth /\ ~AwaitOutcome
  <2>1. UNCHANGED <<tg, result, doneChan, errChan>>
    BY <1>5 DEF Auth, LeaveAuthenticate, SaveSession, StartBot, FreeSession, CloseStates, channels, rest
  <2>2. QED BY <2>1 DEF Signals, Place
<1>6. QED BY <1>1, <1>2, <1>3, <1>4, <1>5, Steps

LEMMA PanicKept ==
  ASSUME TypeOK, Offers, Stages, Signals, PanicOnlyOnTimeout, [Next]_vars
  PROVE  PanicOnlyOnTimeout'
<1>1. CASE SendPanics
  <2>1. result # None
    BY <1>1 DEF SendPanics, Stages
  <2>2. ~alive' => tg.then # "report" \/ ~alive
    BY <1>1 DEF SendPanics
  <2>3. tg.then # "report" => result \notin {"session", "error"}
    BY <1>1 DEF SendPanics, ClientAt, Signals, Place, Offers
  <2>4. UNCHANGED result
    BY <1>1 DEF SendPanics
  <2>5. QED BY <2>1, <2>2, <2>3, <2>4 DEF PanicOnlyOnTimeout, TypeOK
<1>2. CASE Telegram /\ ~SendPanics
  BY <1>2, TelegramFrame DEF PanicOnlyOnTimeout
<1>3. CASE Auth
  <2>1. alive
    BY <1>3 DEF Auth, AwaitOutcome, LeaveAuthenticate, SaveSession, StartBot, FreeSession,
                CloseStates, AuthAt
  <2>2. QED BY <1>3, <2>1, AuthFrame DEF PanicOnlyOnTimeout
<1>4. CASE Handler \/ Reader \/ Others
  BY <1>4, HandlerFrame, ReaderFrame, OthersFrame DEF PanicOnlyOnTimeout
<1>5. QED BY <1>1, <1>2, <1>3, <1>4, Steps

-----------------------------------------------------------------------------
(* The order of what the page sees.                                        *)

LEMMA RankRange == \A state \in States \cup {None} : Rank(state) \in 0..4
BY Ranks DEF States

LEMMA FloorRange == ASSUME TypeOK, Offers PROVE Floor \in 0..4
BY Ranks DEF Floor, Offers

\* The client never goes back to a state of lower rank.
LEMMA FloorGrows ==
  ASSUME TypeOK, Offers, Telegram
  PROVE  Floor =< Floor'
<1> USE Ranks DEF Floor, Client
<1>1. CASE Connect \/ AwaitPassword \/ SignalDone \/ ReportError
  BY <1>1 DEF Connect, AwaitPassword, SignalDone, ReportError, ClientAt
<1>2. CASE ScanCode
  BY <1>2 DEF ScanCode, Offer, ClientAt
<1>3. CASE CheckPassword \/ LogIn
  BY <1>3 DEF CheckPassword, LogIn, Offer, ClientAt
<1>4. CASE RunReturns
  BY <1>4 DEF RunReturns, Offer, ClientAt
<1>5. CASE LoadFlag
  BY <1>5 DEF LoadFlag, ClientAt, Offers, TypeOK, Clients
<1>6. CASE SendState
  BY <1>6 DEF SendState, ClientAt, Offers
<1>7. CASE SendPanics
  <2>1. tg' = tg \/ (tg'.at = "report" /\ Floor' = 4)
    BY <1>7 DEF SendPanics
  <2>2. Floor \in 0..4
    BY FloorRange
  <2>3. CASE tg' = tg
    BY <2>2, <2>3
  <2>4. QED BY <2>1, <2>2, <2>3
<1>8. QED BY <1>1, <1>2, <1>3, <1>4, <1>5, <1>6, <1>7 DEF Telegram

LEMMA WritingKept ==
  ASSUME TypeOK, Stages, Writing, [Next]_vars
  PROVE  Writing'
<1>1. CASE RequestAuthData
  BY <1>1 DEF RequestAuthData, HandlerAt, Writing
<1>2. CASE ReceiveState
  <2>1. Head(stateChan) # None
    BY <1>2, HeadAndTail DEF ReceiveState, TypeOK, States, None
  <2>2. QED BY <1>2, <2>1 DEF ReceiveState, Writing
<1>3. CASE WriteState
  BY <1>3 DEF WriteState, Writing
<1>4. CASE StatesEnd
  BY <1>4 DEF StatesEnd, HandlerAt, Writing, channels
<1>5. CASE SafeCloseDone
  BY <1>5 DEF SafeCloseDone, HandlerAt, Writing
<1>6. CASE Reader
  BY <1>6, ReaderFrame DEF Writing
<1>7. CASE Auth
  <2>1. stateClosed => stateClosed'
    BY <1>7 DEF Auth, AwaitOutcome, LeaveAuthenticate, SaveSession, StartBot, FreeSession,
                CloseStates, channels
  <2>2. QED BY <1>7, <2>1, AuthFrame DEF Writing
<1>8. CASE Telegram
  <2>1. stateClosed => UNCHANGED stateChan
    BY <1>8 DEF Telegram, Connect, ScanCode, AwaitPassword, CheckPassword, LogIn, SignalDone,
                RunReturns, ReportError, LoadFlag, SendState, SendPanics
  <2>2. QED BY <1>8, <2>1, TelegramFrame DEF Writing
<1>9. CASE Others
  BY <1>9, OthersFrame DEF Writing
<1>10. QED BY <1>1, <1>2, <1>3, <1>4, <1>5, <1>6, <1>7, <1>8, <1>9, Steps DEF Handler

\* All there is to see stays as it is and the client does not go back.
LEMMA OrderStays ==
  ASSUME TypeOK, InOrder, UNCHANGED <<stateChan, held, shown>>,
         Floor \in 0..4, Floor' \in 0..4, Floor =< Floor'
  PROVE  InOrder'
<1>1. \A i \in DOMAIN stateChan : Rank(stateChan[i]) \in 0..4
  BY RankRange DEF TypeOK
<1>2. Rank(shown) \in 0..4 /\ Rank(held) \in 0..4
  BY RankRange DEF TypeOK
<1>3. QED BY <1>1, <1>2 DEF InOrder

LEMMA ReceiveInOrder ==
  ASSUME TypeOK, Offers, Writing, InOrder, ReceiveState
  PROVE  InOrder'
<1> DEFINE n == Len(stateChan)
<1>1. /\ n \in Nat \ {0} /\ DOMAIN stateChan = 1..n /\ DOMAIN stateChan' = 1..(n - 1)
      /\ \A i \in 1..(n - 1) : stateChan'[i] = stateChan[i + 1]
      /\ held' = stateChan[1] /\ held = None
      /\ UNCHANGED <<shown, tg>>
  BY HeadAndTail DEF ReceiveState, TypeOK, Writing, HandlerAt, rest
<1>2. Floor' = Floor
  BY <1>1 DEF Floor
<1> HIDE DEF n
<1>3. /\ Rank(shown) =< Floor /\ Rank(held') =< Floor
      /\ Rank(shown) =< Rank(held')
  BY <1>1 DEF InOrder
<1>4. ASSUME NEW i \in 1..(n - 1)
      PROVE  /\ Rank(shown) =< Rank(stateChan'[i])
             /\ Rank(held') =< Rank(stateChan'[i])
             /\ Rank(stateChan'[i]) =< Floor
  <2>1. i + 1 \in 1..n /\ 1 \in 1..n /\ 1 =< i + 1
    BY <1>1, <1>4
  <2>2. QED BY <1>1, <1>4, <2>1 DEF InOrder
<1>5. ASSUME NEW i \in 1..(n - 1), NEW j \in 1..(n - 1), i =< j
      PROVE  Rank(stateChan'[i]) =< Rank(stateChan'[j])
  <2>1. i + 1 \in 1..n /\ j + 1 \in 1..n /\ i + 1 =< j + 1
    BY <1>1, <1>5
  <2>2. QED BY <1>1, <1>5, <2>1 DEF InOrder
<1>6. QED BY <1>1, <1>2, <1>3, <1>4, <1>5 DEF InOrder

LEMMA SendInOrder ==
  ASSUME TypeOK, Offers, InOrder, SendState, Offers', TypeOK'
  PROVE  InOrder'
<1>1. /\ UNCHANGED <<held, shown>> /\ tg.state \in States /\ Floor = Rank(tg.state)
  BY DEF SendState, clientOnly, ClientAt, Floor, Offers, States
<1>2. Floor =< Floor' /\ Floor \in 0..4 /\ Floor' \in 0..4
  <2>1. Floor' \in 0..4
    BY Ranks DEF Floor, Offers
  <2>2. QED BY <2>1, FloorGrows, FloorRange DEF Telegram
<1>3. CASE UNCHANGED stateChan
  BY <1>1, <1>2, <1>3, OrderStays
<1>4. CASE stateChan' = Append(stateChan, tg.state)
  <2> DEFINE n == Len(stateChan)
  <2>1. /\ n \in Nat /\ DOMAIN stateChan = 1..n /\ DOMAIN stateChan' = 1..(n + 1)
        /\ \A i \in 1..n : stateChan'[i] = stateChan[i]
        /\ stateChan'[n + 1] = tg.state
    BY <1>1, <1>4, Appended DEF TypeOK
  <2>2. \A i \in 1..n : Rank(stateChan[i]) \in 0..4
    BY <2>1, RankRange DEF TypeOK
  <2>3. Rank(shown) \in 0..4 /\ Rank(held) \in 0..4
    BY RankRange DEF TypeOK
  <2> HIDE DEF n
  <2>4. ASSUME NEW i \in 1..(n + 1)
        PROVE  /\ Rank(shown) =< Rank(stateChan'[i])
               /\ Rank(held) =< Rank(stateChan'[i])
               /\ Rank(stateChan'[i]) =< Floor
    <3>1. CASE i = n + 1
      BY <1>1, <1>2, <2>1, <3>1 DEF InOrder
    <3>2. CASE i \in 1..n
      BY <2>1, <3>2 DEF InOrder
    <3>3. QED BY <2>1, <3>1, <3>2
  <2>5. ASSUME NEW i \in 1..(n + 1), NEW j \in 1..(n + 1), i =< j
        PROVE  Rank(stateChan'[i]) =< Rank(stateChan'[j])
    <3>1. CASE j = n + 1
      BY <1>1, <2>1, <2>4, <3>1
    <3>2. CASE j \in 1..n
      <4>1. i \in 1..n
        BY <2>1, <2>5, <3>2
      <4>2. QED BY <2>1, <2>5, <3>2, <4>1 DEF InOrder
    <3>3. QED BY <2>1, <3>1, <3>2
  <2>6. \A i \in 1..(n + 1) : Rank(stateChan'[i]) =< Floor'
    <3>1. \A i \in 1..(n + 1) : Rank(stateChan'[i]) \in 0..4
      BY <1>1, <1>2, <2>1, <2>2
    <3>2. QED BY <1>2, <2>4, <3>1
  <2>7. Rank(shown) =< Floor' /\ Rank(held) =< Floor'
    BY <1>2, <2>3 DEF InOrder
  <2>8. held # None => Rank(shown) =< Rank(held)
    BY DEF InOrder
  <2>9. QED BY <1>1, <2>1, <2>4, <2>5, <2>6, <2>7, <2>8 DEF InOrder
<1>5. QED BY <1>3, <1>4 DEF SendState

LEMMA OrderKept ==
  ASSUME TypeOK, Offers, Stages, Writing, InOrder, [Next]_vars, TypeOK', Offers'
  PROVE  InOrder'
<1>1. Floor \in 0..4 /\ Floor' \in 0..4
  BY Ranks DEF Floor, Offers
<1>2. CASE RequestAuthData
  <2>1. UNCHANGED <<stateChan, held, shown>>
    BY <1>2 DEF RequestAuthData, channels
  <2>2. Floor = 0
    BY <1>2 DEF RequestAuthData, HandlerAt, Stages, Floor
  <2>3. QED BY <1>1, <2>1, <2>2, OrderStays
<1>3. CASE ReceiveState
  BY <1>3, ReceiveInOrder
<1>4. CASE WriteState
  <2>1. /\ UNCHANGED <<stateChan, tg>> /\ held' = None /\ held # None
        /\ shown' \in {shown, held}
    BY <1>4 DEF WriteState, HandlerAt, Writing, channels
  <2>2. Floor' = Floor
    BY <2>1 DEF Floor
  <2>3. \A i \in DOMAIN stateChan : Rank(stateChan[i]) \in 0..4
    BY RankRange DEF TypeOK
  <2>4. Rank(held') = 0
    BY <2>1, Ranks
  <2>5. QED BY <1>1, <2>1, <2>2, <2>3, <2>4 DEF InOrder
<1>5. CASE UNCHANGED <<tg, stateChan, held, shown>>
  <2>1. Floor' = Floor
    BY <1>5 DEF Floor
  <2>2. QED BY <1>1, <1>5, <2>1, OrderStays
<1>6. CASE StatesEnd \/ SafeCloseDone \/ Reader \/ Auth \/ Others
  <2>1. UNCHANGED <<tg, stateChan, held, shown>>
    BY <1>6, ReaderFrame, AuthFrame, OthersFrame DEF StatesEnd, SafeCloseDone, channels, rest
  <2>2. QED BY <1>5, <2>1
<1>7. CASE SendState
  BY <1>7, SendInOrder
<1>8. CASE Telegram /\ ~SendState
  <2>1. UNCHANGED stateChan
    BY <1>8 DEF Telegram, Connect, ScanCode, AwaitPassword, CheckPassword, LogIn, SignalDone,
                RunReturns, ReportError, LoadFlag, SendPanics
  <2>2. QED BY <1>1, <1>8, <2>1, TelegramFrame, FloorGrows, OrderStays
<1>9. QED BY <1>2, <1>3, <1>4, <1>6, <1>7, <1>8, Steps DEF Handler

-----------------------------------------------------------------------------
(* The outcome reaches the page.                                           *)

LEMMA OutcomeRanks ==
  ASSUME NEW outcomes \in {Outcomes, {"error"}}, NEW x \in outcomes, NEW y \in States,
         Rank(x) =< Rank(y)
  PROVE  y \in outcomes
BY Ranks DEF Outcomes, States

LEMMA TelegramKeepsLost == ASSUME TypeOK, Telegram, lost PROVE lost'
<1>1. CASE SendState
  BY <1>1 DEF SendState
<1>2. CASE ~SendState
  BY <1>2 DEF Telegram, Connect, ScanCode, AwaitPassword, CheckPassword, LogIn, SignalDone,
              RunReturns, ReportError, LoadFlag, SendPanics, rest
<1>3. QED BY <1>1, <1>2

\* The client only adds to the channel.
LEMMA TelegramAdds ==
  ASSUME TypeOK, Offers, Telegram, NEW i \in DOMAIN stateChan
  PROVE  i \in DOMAIN stateChan' /\ stateChan'[i] = stateChan[i]
<1>1. CASE SendState
  <2>1. tg.state \in States
    BY <1>1 DEF SendState, ClientAt, Offers, States
  <2>2. QED BY <1>1, <2>1, Appended DEF SendState, TypeOK
<1>2. CASE ~SendState
  BY <1>2 DEF Telegram, Connect, ScanCode, AwaitPassword, CheckPassword, LogIn, SignalDone,
              RunReturns, ReportError, LoadFlag, SendPanics
<1>3. QED BY <1>1, <1>2

\* What was told stays told: it moves from the channel to the handler and to the page.
LEMMA ToldStays ==
  ASSUME TypeOK, Offers, Stages, Writing, InOrder, [Next]_vars,
         NEW outcomes \in {Outcomes, {"error"}}, Told(outcomes)
  PROVE  Told(outcomes)'
<1> USE DEF Told
<1>1. CASE result = "timeout"
  <2>1. result' = "timeout"
    BY <1>1, Steps, HandlerFrame, ReaderFrame, AuthFrame, TelegramFrame, OthersFrame DEF Stages, None
  <2>2. QED BY <2>1
<1>2. CASE lost
  <2>1. lost'
    BY <1>2, Steps, HandlerFrame, ReaderFrame, AuthFrame, TelegramKeepsLost, OthersFrame
  <2>2. QED BY <2>1
<1>3. CASE handler \in {"closing", "returned"}
  <2>1. handler' \in {"closing", "returned"}
    <3>1. CASE Handler
      BY <1>3, <3>1 DEF Handler, RequestAuthData, ReceiveState, WriteState, StatesEnd,
                        SafeCloseDone, HandlerAt
    <3>2. CASE ~Handler
      BY <1>3, <3>2, Steps, ReaderFrame, AuthFrame, TelegramFrame, OthersFrame
    <3>3. QED BY <3>1, <3>2
  <2>2. QED BY <2>1
<1>4. CASE Reader \/ Auth \/ Telegram \/ Others
  <2>1. UNCHANGED <<shown, held>>
    BY <1>4, ReaderFrame, AuthFrame, TelegramFrame, OthersFrame
  <2>2. \A i \in DOMAIN stateChan : i \in DOMAIN stateChan' /\ stateChan'[i] = stateChan[i]
    BY <1>4, ReaderFrame, AuthFrame, TelegramAdds, OthersFrame
  <2>3. QED BY <1>1, <1>2, <1>3, <2>1, <2>2
<1>5. CASE ReceiveState
  <2>1. UNCHANGED shown /\ held = None /\ None \notin outcomes
    BY <1>5 DEF ReceiveState, HandlerAt, Writing, rest, None, Outcomes
  <2>2. ASSUME NEW i \in DOMAIN stateChan, stateChan[i] \in outcomes
        PROVE  held' \in outcomes \/ \E j \in DOMAIN stateChan' : stateChan'[j] \in outcomes
    <3>1. CASE i = 1
      BY <1>5, <2>2, <3>1, HeadAndTail DEF ReceiveState, TypeOK
    <3>2. CASE i # 1
      <4>1. i - 1 \in DOMAIN stateChan' /\ stateChan'[i - 1] = stateChan[i]
        BY <1>5, <3>2, HeadAndTail DEF ReceiveState, TypeOK
      <4>2. QED BY <2>2, <4>1
    <3>3. QED BY <3>1, <3>2
  <2>3. QED BY <1>1, <1>2, <1>3, <2>1, <2>2
<1>6. CASE WriteState
  <2>1. held # None /\ held \in States /\ Rank(shown) =< Rank(held) /\ UNCHANGED stateChan
    BY <1>6 DEF WriteState, HandlerAt, Writing, InOrder, TypeOK, channels
  <2>2. shown \in outcomes => held \in outcomes
    BY <2>1, OutcomeRanks
  <2>3. shown' = held \/ handler' = "closing"
    BY <1>6 DEF WriteState
  <2>4. QED BY <1>1, <1>2, <1>3, <2>1, <2>2, <2>3
<1>7. CASE RequestAuthData \/ StatesEnd \/ SafeCloseDone
  <2>1. UNCHANGED <<shown, held, stateChan>>
    BY <1>7 DEF RequestAuthData, StatesEnd, SafeCloseDone, channels, rest
  <2>2. QED BY <1>1, <1>2, <1>3, <2>1
<1>8. QED BY <1>4, <1>5, <1>6, <1>7, Steps DEF Handler

\* A state that is sent is on its way, or the channel was full.
LEMMA SentIsTold ==
  ASSUME TypeOK, Offers, SendState, NEW outcomes \in {Outcomes, {"error"}}, tg.state \in outcomes
  PROVE  Told(outcomes)'
<1>1. tg.state \in Outcomes /\ tg.state \in States
  BY DEF Outcomes, States
<1>2. CASE HasRoom
  <2>1. Len(stateChan) + 1 \in DOMAIN stateChan' /\ stateChan'[Len(stateChan) + 1] = tg.state
    BY <1>1, <1>2, Appended DEF SendState, TypeOK
  <2>2. QED BY <2>1 DEF Told
<1>3. CASE ~HasRoom
  BY <1>1, <1>3 DEF SendState, Told
<1>4. QED BY <1>2, <1>3

LEMMA PromisesKept ==
  ASSUME TypeOK, Offers, Stages, Signals, Writing, InOrder, Promises, [Next]_vars
  PROVE  Promises'
<1>1. /\ Told(Outcomes) => Told(Outcomes)'
      /\ Told({"error"}) => Told({"error"})'
  BY ToldStays
<1>2. CASE UNCHANGED <<tg, doneChan, errChan, result>>
  BY <1>1, <1>2 DEF Promises
<1>3. CASE RequestAuthData
  <2>1. /\ tg'.at \notin {"signal", "report"}
        /\ UNCHANGED <<doneChan, errChan, result>>
    BY <1>3 DEF RequestAuthData, HandlerAt, Stages, channels, Client
  <2>2. QED BY <1>1, <2>1 DEF Promises
<1>4. CASE Auth
  <2>1. CASE AwaitOutcome
    <3>1. result = None /\ UNCHANGED tg
      BY <2>1 DEF AwaitOutcome, AuthAt, Stages
    <3>2. /\ doneChan' => doneChan
          /\ errChan' => errChan
          /\ result' = "session" => doneChan
          /\ result' = "error" => errChan
      BY <2>1 DEF AwaitOutcome
    <3>3. errChan => Told({"error"})
      BY <3>1 DEF Promises, None
    <3>4. tg.at = "report" => Told({"error"})
      BY <3>1 DEF Promises, None
    <3>5. QED BY <1>1, <3>1, <3>2, <3>3, <3>4 DEF Promises
  <2>2. CASE ~AwaitOutcome
    <3>1. UNCHANGED <<tg, doneChan, errChan, result>>
      BY <1>4, <2>2 DEF Auth, LeaveAuthenticate, SaveSession, StartBot, FreeSession, CloseStates,
                        channels, rest
    <3>2. QED BY <1>2, <3>1
  <2>3. QED BY <2>1, <2>2
<1>5. CASE Telegram
  <2>0. UNCHANGED result
    BY <1>5, TelegramFrame
  <2>a. channelClosed /\ tg.at # "gone" => result \in {"session", "timeout"}
    BY DEF Stages, Signals, TypeOK
  <2>b. result = "timeout" => Told(Outcomes) /\ Told({"error"})
    BY DEF Told
  <2>1. CASE Connect \/ ScanCode \/ AwaitPassword \/ CheckPassword \/ LogIn \/ RunReturns
    <3>1. tg'.at \notin {"signal", "report"} /\ UNCHANGED <<doneChan, errChan>>
      BY <2>1 DEF Connect, ScanCode, AwaitPassword, CheckPassword, LogIn, RunReturns, Offer, Client
    <3>2. QED BY <1>1, <2>0, <3>1 DEF Promises
  <2>2. CASE SignalDone
    <3>1. tg.at = "signal" /\ tg'.at = "returned" /\ UNCHANGED errChan
      BY <2>2 DEF SignalDone, ClientAt, Client
    <3>2. QED BY <1>1, <2>0, <3>1 DEF Promises
  <2>3. CASE ReportError
    <3>1. tg.at = "report" /\ tg'.at = "gone" /\ UNCHANGED doneChan
      BY <2>3 DEF ReportError, ClientAt, Client
    <3>2. QED BY <1>1, <2>0, <3>1 DEF Promises
  <2>4. CASE LoadFlag
    <3>1. tg.at = "load" /\ UNCHANGED <<doneChan, errChan>>
      BY <2>4 DEF LoadFlag, ClientAt
    <3>2. tg'.at \in {"signal", "report"} => channelClosed
      BY <2>4, <3>1 DEF LoadFlag, TypeOK, Clients
    <3>3. QED BY <1>1, <2>0, <2>a, <2>b, <3>1, <3>2 DEF Promises
  <2>5. CASE SendState
    <3>1. tg.at = "send" /\ UNCHANGED <<doneChan, errChan>> /\ tg'.at = tg.then
      BY <2>5 DEF SendState, ClientAt, Client
    <3>2. /\ tg.then = "signal" => tg.state \in Outcomes
          /\ tg.then = "report" => tg.state \in {"error"}
      BY <3>1 DEF Offers, Outcomes
    <3>3. /\ tg.then = "signal" => Told(Outcomes)'
          /\ tg.then = "report" => Told({"error"})'
      BY <2>5, <3>2, SentIsTold
    <3>4. QED BY <1>1, <2>0, <3>1, <3>3 DEF Promises
  <2>6. CASE SendPanics
    <3>1. /\ tg.at = "send" /\ UNCHANGED <<doneChan, errChan>> /\ channelClosed
          /\ tg'.at \in {"send", "report"}
      <4>1. auth = "gone"
        BY <2>6 DEF SendPanics, Stages
      <4>2. channelClosed
        BY <4>1 DEF Stages
      <4>3. tg.at = "send" /\ UNCHANGED <<doneChan, errChan>>
        BY <2>6 DEF SendPanics, ClientAt
      <4>4. tg'.at \in {"send", "report"}
        BY <2>6, <4>3 DEF SendPanics, Client
      <4>5. QED BY <4>2, <4>3, <4>4
    <3>2. QED BY <1>1, <2>0, <2>a, <2>b, <3>1 DEF Promises
  <2>7. QED BY <1>5, <2>1, <2>2, <2>3, <2>4, <2>5, <2>6 DEF Telegram
<1>6. CASE (Handler /\ ~RequestAuthData) \/ Reader \/ Others
  <2>1. UNCHANGED <<tg, doneChan, errChan, result>>
    BY <1>6, HandlerFrame, ReaderFrame, OthersFrame
  <2>2. QED BY <1>2, <2>1
<1>7. QED BY <1>3, <1>4, <1>5, <1>6, Steps

-----------------------------------------------------------------------------
(* The inductive invariant and what follows from it.                       *)

LEMMA InitInv == ASSUME Init PROVE AuthInv
<1>1. TypeOK
  BY InitTyped
<1>2. NoSendOnClosedDone /\ PanicOnlyOnTimeout /\ Offers /\ Stages /\ Signals /\ Writing
  BY DEF Init, NoSendOnClosedDone, PanicOnlyOnTimeout, Offers, Stages, Signals, Place, Writing,
         Client, None
<1>3. InOrder
  BY Ranks DEF Init, InOrder, Floor, Client
<1>4. Promises
  BY DEF Init, Promises, Client, None
<1>5. QED BY <1>1, <1>2, <1>3, <1>4 DEF AuthInv

LEMMA NextInv == ASSUME AuthInv, [Next]_vars PROVE AuthInv'
<1>1. TypeOK' /\ Offers'
  BY TypesKept, OffersKept DEF AuthInv
<1>2. QED BY <1>1, LockKept, PanicKept, StagesKept, SignalsKept, OrderKept, WritingKept,
             PromisesKept DEF AuthInv

THEOREM Invariance == Spec => []AuthInv
BY InitInv, NextInv, PTL DEF Spec

\* Every reachable state is well typed and stateChan never holds more than it has places.
THEOREM TypeCorrect == Spec => []TypeOK
BY Invariance, PTL DEF AuthInv

\* The reader never sends on a closed channel: doneIsClosed is read and acted on under
\* doneMutex by the reader and by the handler (web_handler.go).
THEOREM ReaderSendsOnOpenDone == Spec => []NoSendOnClosedDone
BY Invariance, PTL DEF AuthInv

\* Only an authorisation that timed out can kill the process with a send on stateChan
\* (auth.go, safeStateSend).
THEOREM PanicNeedsTimeout == Spec => []PanicOnlyOnTimeout
BY Invariance, PTL DEF AuthInv

\* A handler that drained stateChan has shown the outcome, unless the channel was full.
THEOREM PageLearnsOutcome == Spec => []OutcomeTold
<1>1. ASSUME AuthInv PROVE OutcomeTold
  <2>1. ASSUME handler = "drained", ~lost, result \in {"session", "error"},
               NEW outcomes, None \notin outcomes, Told(outcomes)
        PROVE  shown \in outcomes
    BY <1>1, <2>1 DEF AuthInv, Writing, Told
  <2>2. None \notin Outcomes /\ None \notin {"error"}
    BY DEF None, Outcomes
  <2>3. QED BY <1>1, <2>1, <2>2 DEF AuthInv, Promises, OutcomeTold
<1>2. QED BY <1>1, Invariance, PTL

\* The states are shown in order: nothing is asked for again, nothing follows an error.
THEOREM PageGoesForward == Spec => ShownForward
<1>1. ASSUME AuthInv, [Next]_vars PROVE [Rank(shown) =< Rank(shown')]_shown
  <2>1. CASE WriteState
    <3>1. shown' \in {shown, held} /\ held # None
      BY <1>1, <2>1 DEF WriteState, HandlerAt, AuthInv, Writing
    <3>2. QED BY <1>1, <3>1 DEF AuthInv, InOrder
  <2>2. CASE UNCHANGED shown
    BY <2>2
  <2>3. CASE Handler /\ ~WriteState
    BY <2>2, <2>3 DEF Handler, RequestAuthData, ReceiveState, StatesEnd, SafeCloseDone, rest
  <2>4. QED BY <1>1, <2>1, <2>2, <2>3, Steps, ReaderFrame, AuthFrame, TelegramFrame, OthersFrame
<1>2. QED BY <1>1, Invariance, PTL DEF Spec, ShownForward
=============================================================================
