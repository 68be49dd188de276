--------------------------- MODULE FirstContact ----------------------------
(***************************************************************************)
(* How a bot of telegram/telegram.go takes in the messages of its senders: *)
(* handleNewMessage, handleNewUser with its three stages,                  *)
(* sendFirstContactMessage and preloadFirstInteraction with the Redis      *)
(* cache of telegram/cache.go, the listener of the assistant's answers,    *)
(* and Starter of app/app.go.                                              *)
(*                                                                         *)
(* The bot may be restarted, and so may the process.  The sessions' core   *)
(* (StartSession, GetCh) is a library: it creates a sender's channel some  *)
(* time after the session was queued and may remove it at any time.        *)
(* Everything a message sets going is named after the message.             *)
(***************************************************************************)
EXTENDS Naturals, FiniteSets

CONSTANTS Senders,
          Messages,     \* the messages that will arrive
          Sender,       \* who sends each of them
          Concurrent,   \* how many messages the client hands over at a time
          StartCap,     \* places in StartCh (100 in the code)
          MaxBots,      \* bound: the bot and its successors after restarts
          RedisFails,   \* Redis may fail, or forget a key when its time is over
          None

ASSUME ContactAssumption == /\ IsFiniteSet(Messages)
                            /\ Messages \intersect {None, "none", "starting", "over"} = {}
                            /\ Sender \in [Messages -> Senders]
                            /\ StartCap \in Nat \ {0}
                            /\ MaxBots \in Nat \ {0}
                            /\ RedisFails \in BOOLEAN
                            /\ None \notin Messages

Places == {"checking", "greeting", "initializing", "queueing", "listening", "processing"}
Idle == {"new", "over"}

VARIABLES epoch,       \* the bot that runs; the contexts of earlier ones are cancelled
          known,       \* knownUsers of that bot
          preloaded,   \* preloadFirstInteraction of that bot is over
          announcing,  \* the bots loaded with Events.Start on
          redis,       \* senders with a first_interaction key
          at,          \* where handleNewMessage is with a message
          bot,         \* the bot that received the message
          first,       \* isFirstMessage
          contact,     \* where sendFirstContactMessage is
          session,     \* "none", "queued" in StartCh or "started"
          channel,     \* the message whose session created the sender's channel, or None
          listener,    \* the channel of a response listener, or where it is without one
          notified,    \* history variable: messages that sent the start event
          silent,      \* history variable: messages whose bot had no start event to send
          newDialogs,  \* history variable: messages reported to the CRM as a new dialogue
          overlapped,  \* history variable: senders with two set-ups at once, or one by a superseded bot
          forgotten    \* history variable: senders Redis failed or forgot

botVars == <<epoch, known, preloaded, announcing>>
handling == <<at, bot, first>>
core == <<session, channel>>
history == <<silent, overlapped, forgotten>>
vars == <<botVars, redis, handling, contact, core, listener, notified, newDialogs, history>>

Queued == {m \in Messages : session[m] = "queued"}

TypeOK == /\ epoch \in 1..MaxBots
          /\ known \subseteq Senders
          /\ preloaded \in BOOLEAN
          /\ announcing \subseteq 1..MaxBots
          /\ redis \subseteq Senders
          /\ at \in [Messages -> Places \union Idle]
          /\ bot \in [Messages -> 0..MaxBots]
          /\ first \in [Messages -> BOOLEAN]
          /\ contact \in [Messages -> {"none", "asking", "notifying", "saving", "over"}]
          /\ session \in [Messages -> {"none", "queued", "started"}]
          /\ Cardinality(Queued) <= StartCap
          /\ channel \in [Senders -> Messages \union {None}]
          /\ listener \in [Messages -> Messages \union {"none", "starting", "over"}]
          /\ notified \subseteq Messages
          /\ silent \subseteq Messages
          /\ newDialogs \subseteq Messages
          /\ overlapped \subseteq Senders
          /\ forgotten \subseteq Senders

Init == /\ epoch = 1
        /\ known = {}
        /\ preloaded = FALSE
        /\ announcing \in SUBSET (1..MaxBots)
        /\ redis = {}
        /\ at = [m \in Messages |-> "new"]
        /\ bot = [m \in Messages |-> 0]
        /\ first = [m \in Messages |-> FALSE]
        /\ contact = [m \in Messages |-> "none"]
        /\ session = [m \in Messages |-> "none"]
        /\ channel = [s \in Senders |-> None]
        /\ listener = [m \in Messages |-> "none"]
        /\ notified = {}
        /\ silent = {}
        /\ newDialogs = {}
        /\ overlapped = {}
        /\ forgotten = {}

\* The context of the bot that received m.
Live(m) == bot[m] = epoch

Go(m, from, to) == at[m] = from /\ at' = [at EXCEPT ![m] = to]

-----------------------------------------------------------------------------
(* handleNewMessage.                                                       *)

\* Only a running client delivers messages.
Receive(m) ==
  /\ Cardinality({n \in Messages : at[n] \in Places}) < Concurrent
  /\ Go(m, "new", "checking")
  /\ bot' = [bot EXCEPT ![m] = epoch]
  /\ UNCHANGED <<botVars, redis, first, contact, core, listener, notified, newDialogs, history>>

\* Parts of a set-up of n that a later set-up of the same sender can meet.
InProgress(n) == \/ at[n] \in {"greeting", "initializing", "queueing", "listening"}
                 \/ contact[n] \in {"asking", "notifying", "saving"}
                 \/ session[n] = "queued"
                 \/ listener[n] = "starting"

\* A superseded bot looks at the knownUsers of its successor.
MarkOverlap(m) ==
  overlapped' = IF ~Live(m) \/ \E n \in Messages \ {m} : Sender[n] = Sender[m] /\ InProgress(n)
                THEN overlapped \union {Sender[m]} ELSE overlapped

\* A new sender, or a known one whose channel is lost.
NeedsSetup(s) == s \notin known \/ channel[s] = None

CheckSender(m) ==
  /\ \/ /\ NeedsSetup(Sender[m])
        /\ Go(m, "checking", "greeting")
        /\ first' = [first EXCEPT ![m] = Sender[m] \notin known]
        /\ MarkOverlap(m)
     \/ /\ ~NeedsSetup(Sender[m])
        /\ Go(m, "checking", "processing")
        /\ UNCHANGED <<first, overlapped>>
     \* no bot is registered while it is replaced
     \/ /\ ~Live(m)
        /\ Go(m, "checking", "over")
        /\ UNCHANGED <<first, overlapped>>
  /\ UNCHANGED <<botVars, redis, bot, contact, core, listener, notified, newDialogs, silent, forgotten>>

\* handleNewUser: go sendFirstContactMessage.
Greet(m) ==
  /\ Go(m, "greeting", "initializing")
  /\ contact' = [contact EXCEPT ![m] = "asking"]
  /\ UNCHANGED <<botVars, redis, bot, first, core, listener, notified, newDialogs, history>>

\* Stage 1; the database or the model may fail.
InitializeUserSession(m) ==
  /\ Go(m, "initializing", "queueing") \/ Go(m, "initializing", "over")
  /\ UNCHANGED <<botVars, redis, bot, first, contact, core, listener, notified, newDialogs, history>>

HasRoom == Cardinality(Queued) < StartCap

\* Stage 2: no waiting for a place in StartCh.
QueueUserSession(m) ==
  /\ \/ /\ HasRoom
        /\ Go(m, "queueing", "listening")
        /\ session' = [session EXCEPT ![m] = "queued"]
     \/ /\ ~HasRoom \/ ~Live(m)
        /\ Go(m, "queueing", "over")
        /\ UNCHANGED session
  /\ UNCHANGED <<botVars, redis, bot, first, contact, channel, listener, notified, newDialogs, history>>

\* Mutant of MarkKnown: only a sender whose channel is there is remembered.
MarkKnownWithChannel(m) ==
  known' = IF Live(m) /\ channel[Sender[m]] # None THEN known \union {Sender[m]} ELSE known

\* knownUsers of an earlier bot is nobody's concern any more.
MarkKnown(m) == known' = IF Live(m) THEN known \union {Sender[m]} ELSE known

\* Stage 3 and knownUsers.Store.
StartResponseListener(m) ==
  /\ Go(m, "listening", "processing")
  /\ listener' = [listener EXCEPT ![m] = "starting"]
  /\ MarkKnown(m)
  /\ UNCHANGED <<epoch, preloaded, announcing, redis, bot, first, contact, core, notified, newDialogs, history>>

\* processIncomingTextMessage: GetCh, SendToRx and the message to the CRM.
ProcessIncomingMessage(m) ==
  /\ Go(m, "processing", "over")
  /\ \/ channel[Sender[m]] # None /\ newDialogs' = IF first[m] THEN newDialogs \union {m} ELSE newDialogs
     \/ UNCHANGED newDialogs
  /\ UNCHANGED <<botVars, redis, bot, first, contact, core, listener, notified, history>>

-----------------------------------------------------------------------------
(* sendFirstContactMessage and Redis.                                      *)

Forget(m) == forgotten' = forgotten \union {Sender[m]}

\* A call of Redis fails with it, or with the cancelled context of its bot.
RedisCallFails(m) == RedisFails \/ ~Live(m)

\* Mutant of AskRedis: a failed Has counts as a sender that is known.
AskRedisTrusting(m) ==
  \/ /\ contact' = [contact EXCEPT ![m] = IF Sender[m] \in redis THEN "saving" ELSE "notifying"]
     /\ UNCHANGED forgotten
  \/ /\ RedisCallFails(m)
     /\ contact' = [contact EXCEPT ![m] = "saving"]
     /\ Forget(m)

\* Mutant of AskRedis: the event is sent whenever handleNewUser runs.
AskNobody(m) == contact' = [contact EXCEPT ![m] = "notifying"] /\ UNCHANGED forgotten

\* A failed Has counts as a first contact.
AskRedis(m) ==
  \/ /\ contact' = [contact EXCEPT ![m] = IF Sender[m] \in redis THEN "saving" ELSE "notifying"]
     /\ UNCHANGED forgotten
  \/ /\ RedisCallFails(m)
     /\ contact' = [contact EXCEPT ![m] = "notifying"]
     /\ Forget(m)

HasContact(m) ==
  /\ contact[m] = "asking"
  /\ AskRedis(m)
  /\ UNCHANGED <<botVars, redis, handling, core, listener, notified, newDialogs, silent, overlapped>>

\* The event start, if the bot of m has it on; whether it arrives makes no
\* difference to the code, and neither does the setting to what follows.
SendNotification(m) ==
  /\ contact[m] = "notifying"
  /\ contact' = [contact EXCEPT ![m] = "saving"]
  /\ IF bot[m] \in announcing
     THEN notified' = notified \union {m} /\ UNCHANGED silent
     ELSE silent' = silent \union {m} /\ UNCHANGED notified
  /\ UNCHANGED <<botVars, redis, handling, core, listener, newDialogs, overlapped, forgotten>>

SetContact(m) ==
  /\ contact[m] = "saving"
  /\ contact' = [contact EXCEPT ![m] = "over"]
  /\ \/ redis' = redis \union {Sender[m]} /\ UNCHANGED forgotten
     \/ RedisCallFails(m) /\ Forget(m) /\ UNCHANGED redis
  /\ UNCHANGED <<botVars, handling, core, listener, notified, newDialogs, silent, overlapped>>

\* firstInteractionTTL.
KeyExpires(s) ==
  /\ RedisFails /\ s \in redis
  /\ redis' = redis \ {s}
  /\ forgotten' = forgotten \union {s}
  /\ UNCHANGED <<botVars, handling, contact, core, listener, notified, newDialogs, silent, overlapped>>

\* The scan of Redis and the stores are one step: known only grows.
PreloadFirstInteraction ==
  /\ ~preloaded
  /\ preloaded' = TRUE
  /\ known' = known \union redis \/ (RedisFails /\ UNCHANGED known)
  /\ UNCHANGED <<epoch, announcing, redis, handling, contact, core, listener, notified, newDialogs, history>>

-----------------------------------------------------------------------------
(* Starter, the core and the listener.                                     *)

\* Starter takes the session and the core opens the channel if there is none.
StartSession(m) ==
  /\ session[m] = "queued"
  /\ session' = [session EXCEPT ![m] = "started"]
  /\ channel' = [channel EXCEPT ![Sender[m]] = IF @ = None THEN m ELSE @]
  /\ UNCHANGED <<botVars, redis, handling, contact, listener, notified, newDialogs, history>>

\* The core ends a session: its channel is closed and not found any more.
SessionEnds(s) ==
  /\ channel[s] # None
  /\ channel' = [channel EXCEPT ![s] = None]
  /\ UNCHANGED <<botVars, redis, handling, contact, session, listener, notified, newDialogs, history>>

\* getAndValidateUserChannel.
ListenerGetsChannel(m) ==
  /\ listener[m] = "starting"
  /\ listener' = [listener EXCEPT ![m] = IF channel[Sender[m]] = None THEN "over" ELSE channel[Sender[m]]]
  /\ UNCHANGED <<botVars, redis, handling, contact, core, notified, newDialogs, history>>

\* processMessagesLoop ends with TxCh or with the bot.
ListenerEnds(m) ==
  /\ listener[m] \in Messages
  /\ channel[Sender[m]] # listener[m] \/ ~Live(m)
  /\ listener' = [listener EXCEPT ![m] = "over"]
  /\ UNCHANGED <<botVars, redis, handling, contact, core, notified, newDialogs, history>>

-----------------------------------------------------------------------------
(* Restarts.                                                               *)

Successor == /\ epoch < MaxBots
             /\ epoch' = epoch + 1
             /\ known' = {}
             /\ preloaded' = FALSE
             /\ UNCHANGED announcing

\* The bot is restarted; what the old one has set going sees its context cancelled.
RestartBot ==
  /\ Successor
  /\ UNCHANGED <<redis, handling, contact, core, listener, notified, newDialogs, history>>

\* The process dies and starts again; Redis keeps what it has.  A first
\* contact that was interrupted may have sent the event without saving it.
RestartProcess ==
  /\ Successor
  /\ at' = [m \in Messages |-> IF at[m] = "new" THEN "new" ELSE "over"]
  /\ contact' = [m \in Messages |-> IF contact[m] = "none" THEN "none" ELSE "over"]
  /\ session' = [m \in Messages |-> IF session[m] = "queued" THEN "none" ELSE session[m]]
  /\ channel' = [s \in Senders |-> None]
  /\ listener' = [m \in Messages |-> IF listener[m] = "none" THEN "none" ELSE "over"]
  /\ forgotten' = forgotten \union {Sender[m] : m \in {n \in Messages : contact[n] = "saving"}}
  /\ UNCHANGED <<redis, bot, first, notified, newDialogs, silent, overlapped>>

-----------------------------------------------------------------------------
Handle(m) == \/ Receive(m) \/ CheckSender(m) \/ Greet(m) \/ InitializeUserSession(m)
             \/ QueueUserSession(m) \/ StartResponseListener(m) \/ ProcessIncomingMessage(m)
FirstContactOf(m) == HasContact(m) \/ SendNotification(m) \/ SetContact(m)
Listen(m) == ListenerGetsChannel(m) \/ ListenerEnds(m)

Next == \/ \E m \in Messages : Handle(m) \/ FirstContactOf(m) \/ StartSession(m) \/ Listen(m)
        \/ \E s \in Senders : KeyExpires(s) \/ SessionEnds(s)
        \/ PreloadFirstInteraction \/ RestartBot \/ RestartProcess

Spec == Init /\ [][Next]_vars

-----------------------------------------------------------------------------
(* Properties.                                                             *)

\* The start event of a sender is repeated only when Redis failed or forgot
\* him, a restart came between the event and the key, or two set-ups of his
\* overlapped: Has before the event and Set after it in sendFirstContactMessage.
RepeatsAreExplained ==
  \A m, n \in notified :
     (Sender[m] = Sender[n] /\ m # n) => Sender[m] \in forgotten \union overlapped

\* Redis holds nobody who was not announced, even when it fails: a sender that
\* is skipped after a restart has had his start event sent, or came to a bot that
\* had Events.Start off (Set in sendFirstContactMessage does not ask for it).
SavedAfterNotified == \A s \in redis : \E m \in notified \union silent : Sender[m] = s

\* One bot reports a dialogue to the CRM as new at most once, unless set-ups
\* overlapped: knownUsers.Store in handleNewUser against isFirstMessage.
NewDialogOnce ==
  \A m, n \in newDialogs :
     (Sender[m] = Sender[n] /\ bot[m] = bot[n] /\ m # n) => Sender[m] \in overlapped

\* Two listeners of the running bot never compete for the answers on one
\* channel, unless set-ups overlapped: startResponseListener is called again
\* only for a lost channel or by a new bot.
OneListener ==
  \A m, n \in Messages :
     (/\ m # n /\ Live(m) /\ Live(n)
      /\ listener[m] \in Messages /\ listener[m] = listener[n]) => Sender[m] \in overlapped

\* "только один раз даже после рестарта" (once only, even after a restart):
\* the comment in sendFirstContactMessage.
StartOnce == \A m, n \in notified : Sender[m] = Sender[n] => m = n
=============================================================================
