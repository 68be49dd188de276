------------------------- MODULE FirstContactProofs -------------------------
(***************************************************************************)
(* Proofs about FirstContact, for any number of senders and messages, any  *)
(* concurrency of the client and any number of restarts.                   *)
(*                                                                         *)
(* Every property rests on Apart: two set-ups of one sender are never in   *)
(* progress at once unless he is in overlapped.  From it follow what Redis *)
(* and the first contacts know of each other (Told), that the running bot  *)
(* knows whom it has set up (Claimed, Attached), and that a listener that  *)
(* looks for its channel finds a new one (Separate).                       *)
(***************************************************************************)
EXTENDS FirstContact, FiniteSetTheorems, TLAPS

\* Nothing has been set going for a message before its place in the handler.
Fresh == \A m \in Messages :
           /\ at[m] = "new" => bot[m] = 0
           /\ bot[m] <= epoch
           /\ at[m] \in {"new", "checking"} => ~first[m]
           /\ at[m] \in {"new", "checking", "greeting"} =>
                 contact[m] = "none" /\ session[m] = "none" /\ listener[m] = "none"
           /\ at[m] \in {"initializing", "queueing"} => session[m] = "none" /\ listener[m] = "none"
           /\ at[m] = "listening" => listener[m] = "none"

Apart == \A m, n \in Messages :
           (m # n /\ Sender[m] = Sender[n] /\ InProgress(m) /\ InProgress(n)) => Sender[m] \in overlapped

\* What has been notified is in Redis or on the way there, and so is nobody else but the
\* senders of a bot without start events.
Told == \A m \in Messages :
          /\ (m \in notified /\ Sender[m] \notin forgotten) => (Sender[m] \in redis \/ contact[m] = "saving")
          /\ contact[m] = "saving" => \E n \in notified \union silent : Sender[n] = Sender[m]
          /\ contact[m] = "notifying" =>
                \A n \in notified : Sender[n] = Sender[m] => Sender[m] \in forgotten \union overlapped

\* A message that is, or may become, the start of a new dialogue in the CRM.
Claims(m) == /\ first[m]
             /\ at[m] \in {"greeting", "initializing", "queueing", "listening", "processing"} \/ m \in newDialogs

Claimed == /\ \A m \in newDialogs : first[m] /\ at[m] = "over"
           /\ \A m \in Messages :
                (Claims(m) /\ Live(m) /\ (at[m] = "processing" \/ m \in newDialogs)) => Sender[m] \in known
           /\ \A m, n \in Messages :
                (m # n /\ Sender[m] = Sender[n] /\ bot[m] = bot[n] /\ Claims(m) /\ Claims(n))
                   => Sender[m] \in overlapped

\* Channels and listeners belong to started sessions of their sender, and the
\* running bot knows whom it listens to.
Attached == /\ \A s \in Senders : channel[s] # None =>
                 session[channel[s]] = "started" /\ Sender[channel[s]] = s
            /\ \A m \in Messages : listener[m] \in Messages =>
                 session[listener[m]] = "started" /\ Sender[listener[m]] = Sender[m]
            /\ \A m \in Messages : (Live(m) /\ listener[m] # "none") => Sender[m] \in known

\* While a set-up of the running bot is in progress, the channel of its sender
\* is not one the bot already listens to.
Separate == \A m, n \in Messages :
              (/\ m # n /\ Sender[m] = Sender[n] /\ Live(m) /\ Live(n) /\ InProgress(m)
               /\ listener[n] \in Messages /\ Sender[m] \notin overlapped)
                 => channel[Sender[m]] # listener[n]

ContactInv == /\ TypeOK /\ Fresh /\ Apart
              /\ Told /\ RepeatsAreExplained /\ SavedAfterNotified
              /\ Claimed /\ Attached /\ Separate /\ OneListener

LEMMA InitEstablishes == Init => ContactInv
<1> SUFFICES ASSUME Init PROVE ContactInv
  OBVIOUS
<1> USE ContactAssumption DEF Init
<1>1. Queued = {}
  BY DEF Queued
<1>2. Cardinality(Queued) <= StartCap
  BY <1>1, FS_EmptySet
<1>3. first \in [Messages -> BOOLEAN] /\ preloaded \in BOOLEAN
  OBVIOUS
<1>4. TypeOK
  BY <1>2, <1>3 DEF TypeOK, Idle
<1>5. Fresh /\ Apart
  BY DEF Fresh, Apart, InProgress
<1>6. Told /\ RepeatsAreExplained /\ SavedAfterNotified
  BY DEF Told, RepeatsAreExplained, SavedAfterNotified
<1>7. Claimed /\ Attached
  BY DEF Claimed, Claims, Attached
<1>8. Separate /\ OneListener
  BY DEF Separate, OneListener, InProgress
<1>9. QED
  BY <1>4, <1>5, <1>6, <1>7, <1>8 DEF ContactInv

-----------------------------------------------------------------------------
(* Type correctness.                                                       *)

\* StartCh never holds more than its capacity.
LEMMA QueuedStep == ASSUME TypeOK, Next PROVE Cardinality(Queued') <= StartCap
<1>1. IsFiniteSet(Messages) /\ StartCap \in Nat
  BY ContactAssumption
<1>2. IsFiniteSet(Queued) /\ Cardinality(Queued) \in Nat /\ Cardinality(Queued) <= StartCap
  <2>1. Queued \subseteq Messages
    BY DEF Queued
  <2>2. QED
    BY <1>1, <2>1, FS_Subset, FS_CardinalityType DEF TypeOK
<1>3. ASSUME Queued' \subseteq Queued PROVE Cardinality(Queued') <= StartCap
  BY <1>1, <1>2, <1>3, FS_Subset, FS_CardinalityType
<1>4. ASSUME NEW m \in Messages, QueueUserSession(m) PROVE Cardinality(Queued') <= StartCap
  <2>1. CASE UNCHANGED session
    BY <2>1, <1>3 DEF Queued
  <2>2. CASE HasRoom /\ session' = [session EXCEPT ![m] = "queued"]
    <3>1. Queued' = Queued \union {m}
      BY <2>2 DEF Queued, TypeOK
    <3>2. Cardinality(Queued \union {m}) =
            IF m \in Queued THEN Cardinality(Queued) ELSE Cardinality(Queued) + 1
      BY <1>2, FS_AddElement, Zenon
    <3>3. QED
      BY <1>1, <1>2, <2>2, <3>1, <3>2 DEF HasRoom
  <2>3. QED
    BY <1>4, <2>1, <2>2 DEF QueueUserSession
<1>5. ASSUME UNCHANGED session PROVE Cardinality(Queued') <= StartCap
  BY <1>3, <1>5 DEF Queued
<1>6. ASSUME NEW m \in Messages, Handle(m), ~QueueUserSession(m) PROVE UNCHANGED session
  BY <1>6 DEF Handle, Receive, CheckSender, Greet, InitializeUserSession, StartResponseListener,
     ProcessIncomingMessage, core
<1>7. ASSUME NEW m \in Messages, FirstContactOf(m) \/ Listen(m) PROVE UNCHANGED session
  BY <1>7 DEF FirstContactOf, HasContact, SendNotification, SetContact, Listen, ListenerGetsChannel,
     ListenerEnds, core
<1>8. ASSUME NEW m \in Messages, StartSession(m) PROVE Queued' \subseteq Queued
  BY <1>8 DEF StartSession, Queued, TypeOK
<1>9. ASSUME NEW s \in Senders, KeyExpires(s) \/ SessionEnds(s) PROVE UNCHANGED session
  BY <1>9 DEF KeyExpires, SessionEnds, core
<1>10. ASSUME PreloadFirstInteraction \/ RestartBot PROVE UNCHANGED session
  BY <1>10 DEF PreloadFirstInteraction, RestartBot, core
<1>11. ASSUME RestartProcess PROVE Queued' \subseteq Queued
  BY <1>11 DEF RestartProcess, Queued, TypeOK
<1>12. QED
  BY <1>3, <1>4, <1>5, <1>6, <1>7, <1>8, <1>9, <1>10, <1>11 DEF Next

LEMMA TypeStep == ASSUME TypeOK, Next PROVE TypeOK'
<1> USE ContactAssumption DEF TypeOK, botVars, handling, core, history, Idle, Places
<1> DEFINE Bounded == Cardinality(Queued') <= StartCap
<1>0. Bounded
  BY QueuedStep
<1> HIDE DEF Bounded
<1>a. ASSUME Bounded PROVE Cardinality(Queued)' <= StartCap
  BY <1>a DEF Bounded
<1>1. ASSUME NEW m \in Messages, Receive(m) PROVE TypeOK'
  BY <1>0, <1>a, <1>1 DEF Receive, Go
<1>2. ASSUME NEW m \in Messages, CheckSender(m) PROVE TypeOK'
  <2>1. first' \in [Messages -> BOOLEAN]
    BY <1>2 DEF CheckSender
  <2>2. overlapped' \subseteq Senders
    BY <1>2 DEF CheckSender, MarkOverlap
  <2>3. at' \in [Messages -> Places \union Idle]
    BY <1>2 DEF CheckSender, Go
  <2>4. QED
    BY <1>0, <1>a, <1>2, <2>1, <2>2, <2>3 DEF CheckSender
<1>3. ASSUME NEW m \in Messages, Greet(m) PROVE TypeOK'
  BY <1>0, <1>a, <1>3 DEF Greet, Go
<1>4. ASSUME NEW m \in Messages, InitializeUserSession(m) PROVE TypeOK'
  BY <1>0, <1>a, <1>4 DEF InitializeUserSession, Go
<1>5. ASSUME NEW m \in Messages, QueueUserSession(m) PROVE TypeOK'
  BY <1>0, <1>a, <1>5 DEF QueueUserSession, Go
<1>6. ASSUME NEW m \in Messages, StartResponseListener(m) PROVE TypeOK'
  BY <1>0, <1>a, <1>6 DEF StartResponseListener, Go, MarkKnown
<1>7. ASSUME NEW m \in Messages, ProcessIncomingMessage(m) PROVE TypeOK'
  BY <1>0, <1>a, <1>7 DEF ProcessIncomingMessage, Go
<1>8. ASSUME NEW m \in Messages, HasContact(m) PROVE TypeOK'
  BY <1>0, <1>a, <1>8 DEF HasContact, AskRedis, Forget
<1>9. ASSUME NEW m \in Messages, SendNotification(m) PROVE TypeOK'
  BY <1>0, <1>a, <1>9 DEF SendNotification
<1>10. ASSUME NEW m \in Messages, SetContact(m) PROVE TypeOK'
  BY <1>0, <1>a, <1>10 DEF SetContact, Forget
<1>11. ASSUME NEW m \in Messages, StartSession(m) PROVE TypeOK'
  BY <1>0, <1>a, <1>11 DEF StartSession
<1>12. ASSUME NEW m \in Messages, Listen(m) PROVE TypeOK'
  BY <1>0, <1>a, <1>12 DEF Listen, ListenerGetsChannel, ListenerEnds
<1>13. ASSUME NEW s \in Senders, KeyExpires(s) PROVE TypeOK'
  BY <1>0, <1>a, <1>13 DEF KeyExpires
<1>14. ASSUME NEW s \in Senders, SessionEnds(s) PROVE TypeOK'
  BY <1>0, <1>a, <1>14 DEF SessionEnds
<1>15. ASSUME PreloadFirstInteraction PROVE TypeOK'
  <2>1. preloaded' \in BOOLEAN
    BY <1>15 DEF PreloadFirstInteraction
  <2>2. QED
    BY <1>0, <1>a, <1>15, <2>1 DEF PreloadFirstInteraction
<1>16. ASSUME Successor
       PROVE  /\ epoch' \in 1..MaxBots /\ known' \subseteq Senders
              /\ preloaded' \in BOOLEAN /\ announcing' \subseteq 1..MaxBots
  <2>1. preloaded' \in BOOLEAN
    BY <1>16 DEF Successor
  <2>2. QED
    BY <1>16, <2>1 DEF Successor
<1>17. ASSUME RestartBot PROVE TypeOK'
  BY <1>0, <1>a, <1>16, <1>17 DEF RestartBot
<1>18. ASSUME RestartProcess PROVE TypeOK'
  BY <1>0, <1>a, <1>16, <1>18 DEF RestartProcess
<1>19. QED
  BY <1>1, <1>2, <1>3, <1>4, <1>5, <1>6, <1>7, <1>8, <1>9, <1>10, <1>11, <1>12, <1>13, <1>14, <1>15,
     <1>17, <1>18 DEF Next, Handle, FirstContactOf

-----------------------------------------------------------------------------
(* The order of the stages.                                                *)

LEMMA FreshStep == ASSUME ContactInv, Next PROVE Fresh'
<1> USE DEF ContactInv, TypeOK, Fresh, botVars, handling, core, history, Idle, Places
<1>1. ASSUME NEW m \in Messages, Receive(m) PROVE Fresh'
  BY <1>1 DEF Receive, Go
<1>2. ASSUME NEW m \in Messages, CheckSender(m) PROVE Fresh'
  BY <1>2 DEF CheckSender, Go
<1>3. ASSUME NEW m \in Messages, Greet(m) PROVE Fresh'
  BY <1>3 DEF Greet, Go
<1>4. ASSUME NEW m \in Messages, InitializeUserSession(m) PROVE Fresh'
  BY <1>4 DEF InitializeUserSession, Go
<1>5. ASSUME NEW m \in Messages, QueueUserSession(m) PROVE Fresh'
  BY <1>5 DEF QueueUserSession, Go
<1>6. ASSUME NEW m \in Messages, StartResponseListener(m) PROVE Fresh'
  BY <1>6 DEF StartResponseListener, Go
<1>7. ASSUME NEW m \in Messages, ProcessIncomingMessage(m) PROVE Fresh'
  BY <1>7 DEF ProcessIncomingMessage, Go
<1>8. ASSUME NEW m \in Messages, HasContact(m) PROVE Fresh'
  BY <1>8 DEF HasContact, AskRedis
<1>9. ASSUME NEW m \in Messages, SendNotification(m) PROVE Fresh'
  BY <1>9 DEF SendNotification
<1>10. ASSUME NEW m \in Messages, SetContact(m) PROVE Fresh'
  BY <1>10 DEF SetContact
<1>11. ASSUME NEW m \in Messages, StartSession(m) PROVE Fresh'
  BY <1>11 DEF StartSession
<1>12. ASSUME NEW m \in Messages, Listen(m) PROVE Fresh'
  BY <1>12, ContactAssumption DEF Listen, ListenerGetsChannel, ListenerEnds
<1>13. ASSUME NEW s \in Senders, KeyExpires(s) \/ SessionEnds(s) PROVE Fresh'
  BY <1>13 DEF KeyExpires, SessionEnds
<1>14. ASSUME PreloadFirstInteraction PROVE Fresh'
  BY <1>14 DEF PreloadFirstInteraction
<1>15. ASSUME RestartBot PROVE Fresh'
  BY <1>15 DEF RestartBot, Successor
<1>16. ASSUME RestartProcess PROVE Fresh'
  BY <1>16 DEF RestartProcess, Successor
<1>17. QED
  BY <1>1, <1>2, <1>3, <1>4, <1>5, <1>6, <1>7, <1>8, <1>9, <1>10, <1>11, <1>12, <1>13, <1>14, <1>15,
     <1>16 DEF Next, Handle, FirstContactOf

-----------------------------------------------------------------------------
(* Set-ups that overlap are noted.                                         *)

\* No step but CheckSender begins a set-up, and none forgets an overlap.
LEMMA Progress ==
  ASSUME ContactInv, Next
  PROVE  /\ overlapped \subseteq overlapped'
         /\ \A n \in Messages : InProgress(n)' => (InProgress(n) \/ CheckSender(n))
<1> USE DEF ContactInv, TypeOK, InProgress, botVars, handling, core, history, Idle, Places
<1> DEFINE Goal == /\ overlapped \subseteq overlapped'
                   /\ \A n \in Messages : InProgress(n)' => (InProgress(n) \/ CheckSender(n))
<1>1. ASSUME NEW m \in Messages, Receive(m) PROVE Goal
  BY <1>1 DEF Receive, Go
<1>2. ASSUME NEW m \in Messages, CheckSender(m) PROVE Goal
  <2>1. overlapped \subseteq overlapped'
    BY <1>2 DEF CheckSender, MarkOverlap
  <2>2. ASSUME NEW n \in Messages, n # m, InProgress(n)' PROVE InProgress(n)
    BY <1>2, <2>2 DEF CheckSender, Go
  <2> HIDE DEF InProgress
  <2>3. QED
    BY <1>2, <2>1, <2>2
<1>3. ASSUME NEW m \in Messages, Greet(m) PROVE Goal
  BY <1>3 DEF Greet, Go
<1>4. ASSUME NEW m \in Messages, InitializeUserSession(m) PROVE Goal
  BY <1>4 DEF InitializeUserSession, Go
<1>5. ASSUME NEW m \in Messages, QueueUserSession(m) PROVE Goal
  BY <1>5 DEF QueueUserSession, Go
<1>6. ASSUME NEW m \in Messages, StartResponseListener(m) PROVE Goal
  BY <1>6 DEF StartResponseListener, Go
<1>7. ASSUME NEW m \in Messages, ProcessIncomingMessage(m) PROVE Goal
  BY <1>7 DEF ProcessIncomingMessage, Go
<1>8. ASSUME NEW m \in Messages, HasContact(m) PROVE Goal
  BY <1>8 DEF HasContact, AskRedis
<1>9. ASSUME NEW m \in Messages, SendNotification(m) PROVE Goal
  BY <1>9 DEF SendNotification
<1>10. ASSUME NEW m \in Messages, SetContact(m) PROVE Goal
  BY <1>10 DEF SetContact
<1>11. ASSUME NEW m \in Messages, StartSession(m) PROVE Goal
  BY <1>11 DEF StartSession
<1>12. ASSUME NEW m \in Messages, Listen(m) PROVE Goal
  BY <1>12, ContactAssumption DEF Listen, ListenerGetsChannel, ListenerEnds
<1>13. ASSUME NEW s \in Senders, KeyExpires(s) \/ SessionEnds(s) PROVE Goal
  BY <1>13 DEF KeyExpires, SessionEnds
<1>14. ASSUME PreloadFirstInteraction \/ RestartBot PROVE Goal
  BY <1>14 DEF PreloadFirstInteraction, RestartBot
<1>15. ASSUME RestartProcess PROVE Goal
  BY <1>15 DEF RestartProcess
<1>16. QED
  BY <1>1, <1>2, <1>3, <1>4, <1>5, <1>6, <1>7, <1>8, <1>9, <1>10, <1>11, <1>12, <1>13, <1>14, <1>15
     DEF Next, Handle, FirstContactOf

\* CheckSender sees the other set-ups of its sender.
LEMMA OverlapNoted ==
  ASSUME ContactInv, NEW m \in Messages, NEW n \in Messages, m # n, Sender[m] = Sender[n],
         CheckSender(m), InProgress(m)', ~InProgress(m), InProgress(n) \/ ~Live(m)
  PROVE  Sender[m] \in overlapped'
<1>1. at'[m] = "greeting"
  BY DEF CheckSender, Go, InProgress, ContactInv, TypeOK, core
<1>2. MarkOverlap(m)
  BY <1>1 DEF CheckSender, Go, ContactInv, TypeOK
<1>3. QED
  BY <1>2 DEF MarkOverlap

LEMMA OneAtATime ==
  ASSUME ContactInv, NEW m \in Messages, NEW n \in Messages, m # n, CheckSender(m), InProgress(n)'
  PROVE  InProgress(n)
  BY DEF ContactInv, TypeOK, InProgress, CheckSender, Go, core

LEMMA ApartStep == ASSUME ContactInv, Next PROVE Apart'
<1> SUFFICES ASSUME NEW m \in Messages, NEW n \in Messages, m # n, Sender[m] = Sender[n],
                    InProgress(m)', InProgress(n)'
             PROVE  Sender[m] \in overlapped'
  BY DEF Apart
<1>1. CASE InProgress(m) /\ InProgress(n)
  BY <1>1, Progress DEF ContactInv, Apart
<1>2. CASE ~InProgress(m)
  <2>1. CheckSender(m)
    BY <1>2, Progress
  <2>2. InProgress(n)
    BY <2>1, OneAtATime
  <2>3. QED
    BY <1>2, <2>1, <2>2, OverlapNoted
<1>3. CASE ~InProgress(n)
  <2>1. CheckSender(n)
    BY <1>3, Progress
  <2>2. InProgress(m)
    BY <2>1, OneAtATime
  <2>3. QED
    BY <1>3, <2>1, <2>2, OverlapNoted
<1>4. QED
  BY <1>1, <1>2, <1>3

-----------------------------------------------------------------------------
(* The start event and Redis.                                              *)

ToldInv == Told /\ RepeatsAreExplained /\ SavedAfterNotified

LEMMA ToldKept ==
  ASSUME ContactInv, Next, UNCHANGED <<contact, notified, silent, redis, forgotten>>
  PROVE  ToldInv'
<1>1. overlapped \subseteq overlapped'
  BY Progress
<1>2. Told' /\ RepeatsAreExplained'
  BY <1>1 DEF ContactInv, Told, RepeatsAreExplained
<1>3. SavedAfterNotified'
  BY DEF ContactInv, SavedAfterNotified
<1>4. QED
  BY <1>2, <1>3 DEF ToldInv

LEMMA HasContactStep == ASSUME ContactInv, NEW m \in Messages, HasContact(m) PROVE ToldInv'
<1> USE DEF ContactInv, TypeOK
<1>1. /\ contact[m] = "asking" /\ UNCHANGED <<redis, notified, silent, overlapped>>
      /\ contact' = [contact EXCEPT ![m] = contact'[m]] /\ contact'[m] \in {"saving", "notifying"}
      /\ forgotten \subseteq forgotten'
  BY DEF HasContact, AskRedis, Forget
<1>2. contact'[m] = "saving" => Sender[m] \in redis
  BY DEF HasContact, AskRedis
<1>3. contact'[m] = "notifying" => (Sender[m] \notin redis \/ Sender[m] \in forgotten')
  BY DEF HasContact, AskRedis, Forget
<1>4. ASSUME NEW n \in notified, Sender[n] = Sender[m], Sender[m] \notin redis, Sender[m] \notin forgotten'
      PROVE  Sender[m] \in overlapped'
  <2>1. n \in Messages /\ contact[n] = "saving" /\ n # m
    BY <1>1, <1>4 DEF Told
  <2>2. InProgress(m) /\ InProgress(n)
    BY <1>1, <2>1 DEF InProgress
  <2>3. QED
    BY <1>1, <1>4, <2>1, <2>2 DEF Apart
<1>5. Told'
  <2> SUFFICES ASSUME NEW n \in Messages
               PROVE  /\ (n \in notified' /\ Sender[n] \notin forgotten') =>
                            (Sender[n] \in redis' \/ contact'[n] = "saving")
                      /\ contact'[n] = "saving" => \E k \in notified' \union silent' : Sender[k] = Sender[n]
                      /\ contact'[n] = "notifying" =>
                            \A k \in notified' : Sender[k] = Sender[n] =>
                                Sender[n] \in forgotten' \union overlapped'
    BY DEF Told
  <2>1. CASE n # m
    BY <1>1, <2>1 DEF Told
  <2>2. CASE n = m
    <3>1. (n \in notified' /\ Sender[n] \notin forgotten') => Sender[n] \in redis'
      BY <1>1, <2>2 DEF Told
    <3>2. contact'[n] = "saving" => \E k \in notified' \union silent' : Sender[k] = Sender[n]
      BY <1>1, <1>2, <2>2 DEF SavedAfterNotified
    <3>3. contact'[n] = "notifying" =>
             \A k \in notified' : Sender[k] = Sender[n] => Sender[n] \in forgotten' \union overlapped'
      BY <1>1, <1>3, <1>4, <2>2
    <3>4. QED
      BY <3>1, <3>2, <3>3
  <2>3. QED
    BY <2>1, <2>2
<1>6. RepeatsAreExplained' /\ SavedAfterNotified'
  BY <1>1 DEF RepeatsAreExplained, SavedAfterNotified
<1>7. QED
  BY <1>5, <1>6 DEF ToldInv

LEMMA SendNotificationStep == ASSUME ContactInv, NEW m \in Messages, SendNotification(m) PROVE ToldInv'
<1> USE DEF ContactInv, TypeOK
<1>1. /\ contact[m] = "notifying" /\ contact' = [contact EXCEPT ![m] = "saving"]
      /\ notified \subseteq notified' /\ notified' \subseteq notified \union {m}
      /\ silent \subseteq silent' /\ m \in notified' \union silent'
      /\ UNCHANGED <<redis, forgotten, overlapped>>
  BY DEF SendNotification, history
<1>2. ASSUME NEW n \in Messages, n # m, contact[n] = "notifying", Sender[n] = Sender[m]
      PROVE  Sender[n] \in overlapped
  BY <1>1, <1>2 DEF Apart, InProgress
<1>3. Told'
  BY <1>1, <1>2 DEF Told
<1>4. RepeatsAreExplained'
  BY <1>1 DEF RepeatsAreExplained, Told
<1>5. SavedAfterNotified'
  BY <1>1 DEF SavedAfterNotified
<1>6. QED
  BY <1>3, <1>4, <1>5 DEF ToldInv

LEMMA SetContactStep == ASSUME ContactInv, NEW m \in Messages, SetContact(m) PROVE ToldInv'
<1> USE DEF ContactInv, TypeOK
<1>1. /\ contact[m] = "saving" /\ contact' = [contact EXCEPT ![m] = "over"]
      /\ UNCHANGED <<notified, silent, overlapped>> /\ redis \subseteq redis' /\ forgotten \subseteq forgotten'
      /\ Sender[m] \in redis' \union forgotten' /\ redis' \subseteq redis \union {Sender[m]}
  BY DEF SetContact, Forget
<1>2. Told'
  BY <1>1 DEF Told
<1>3. RepeatsAreExplained'
  BY <1>1 DEF RepeatsAreExplained
<1>4. SavedAfterNotified'
  BY <1>1 DEF SavedAfterNotified, Told
<1>5. QED
  BY <1>2, <1>3, <1>4 DEF ToldInv

LEMMA GreetStep == ASSUME ContactInv, NEW m \in Messages, Greet(m) PROVE ToldInv'
<1>1. /\ contact[m] = "none" /\ contact' = [contact EXCEPT ![m] = "asking"]
      /\ UNCHANGED <<redis, notified, silent, forgotten, overlapped>>
  BY DEF Greet, Go, ContactInv, Fresh, history
<1>2. Told'
  BY <1>1 DEF ContactInv, TypeOK, Told
<1>3. QED
  BY <1>1, <1>2 DEF ContactInv, RepeatsAreExplained, SavedAfterNotified, ToldInv

LEMMA KeyExpiresStep == ASSUME ContactInv, NEW s \in Senders, KeyExpires(s) PROVE ToldInv'
<1>1. /\ redis' = redis \ {s} /\ forgotten' = forgotten \union {s}
      /\ UNCHANGED <<contact, notified, silent, overlapped>>
  BY DEF KeyExpires
<1>2. Told'
  BY <1>1 DEF ContactInv, Told
<1>3. QED
  BY <1>1, <1>2 DEF ContactInv, RepeatsAreExplained, SavedAfterNotified, ToldInv

LEMMA RestartTold == ASSUME ContactInv, RestartProcess PROVE ToldInv'
<1>1. /\ \A m \in Messages : contact'[m] \in {"none", "over"}
      /\ \A m \in Messages : contact[m] = "saving" => Sender[m] \in forgotten'
      /\ forgotten \subseteq forgotten' /\ UNCHANGED <<redis, notified, silent, overlapped>>
  BY DEF RestartProcess, ContactInv, TypeOK
<1>2. Told'
  BY <1>1 DEF ContactInv, Told
<1>3. QED
  BY <1>1, <1>2 DEF ContactInv, RepeatsAreExplained, SavedAfterNotified, ToldInv

LEMMA ToldStep == ASSUME ContactInv, Next PROVE ToldInv'
<1> USE DEF history
<1>1. ASSUME NEW m \in Messages, Handle(m), ~Greet(m) PROVE ToldInv'
  BY <1>1, ToldKept DEF Handle, Receive, CheckSender, InitializeUserSession, QueueUserSession,
     StartResponseListener, ProcessIncomingMessage
<1>2. ASSUME NEW m \in Messages, StartSession(m) \/ Listen(m) PROVE ToldInv'
  BY <1>2, ToldKept DEF StartSession, Listen, ListenerGetsChannel, ListenerEnds
<1>3. ASSUME NEW s \in Senders, SessionEnds(s) PROVE ToldInv'
  BY <1>3, ToldKept DEF SessionEnds
<1>4. ASSUME PreloadFirstInteraction \/ RestartBot PROVE ToldInv'
  BY <1>4, ToldKept DEF PreloadFirstInteraction, RestartBot
<1>5. QED
  BY <1>1, <1>2, <1>3, <1>4, GreetStep, HasContactStep, SendNotificationStep, SetContactStep,
     KeyExpiresStep, RestartTold DEF Next, FirstContactOf

-----------------------------------------------------------------------------
(* New dialogues.                                                          *)

\* A step that touches no handler forgets no overlap and nobody that is known.
LEMMA ClaimedKept ==
  ASSUME ContactInv, Next, UNCHANGED <<first, at, newDialogs, bot, epoch>>, known \subseteq known'
  PROVE  Claimed'
<1>1. overlapped \subseteq overlapped'
  BY Progress
<1>2. QED
  BY <1>1 DEF ContactInv, Claimed, Claims, Live

LEMMA ReceiveClaimed == ASSUME ContactInv, NEW m \in Messages, Receive(m) PROVE Claimed'
  BY DEF ContactInv, TypeOK, Receive, Go, Claimed, Claims, Live, botVars, history

LEMMA CheckSenderClaimed == ASSUME ContactInv, NEW m \in Messages, CheckSender(m) PROVE Claimed'
<1> USE DEF ContactInv, TypeOK
<1>1. /\ at[m] = "checking" /\ m \notin newDialogs
      /\ UNCHANGED <<newDialogs, bot, epoch, known>>
      /\ overlapped \subseteq overlapped'
      /\ \A n \in Messages : n # m => at'[n] = at[n] /\ first'[n] = first[n]
  BY DEF CheckSender, Go, MarkOverlap, Claimed, botVars
<1>2. \A n \in Messages : n # m => (Claims(n)' <=> Claims(n))
  BY <1>1 DEF Claims
<1>3. Claims(m)' => /\ at'[m] = "greeting" /\ MarkOverlap(m) /\ Sender[m] \notin known
  <2>1. ~first[m]
    BY <1>1 DEF Fresh
  <2>2. CASE NeedsSetup(Sender[m]) /\ Go(m, "checking", "greeting") /\ MarkOverlap(m)
             /\ first' = [first EXCEPT ![m] = Sender[m] \notin known]
    BY <2>2 DEF Claims, Go
  <2>3. CASE UNCHANGED first
    BY <1>1, <2>1, <2>3 DEF Claims
  <2>4. QED
    BY <2>2, <2>3 DEF CheckSender
<1>4. ASSUME NEW n \in Messages, n # m, Sender[n] = Sender[m], bot[n] = bot[m], Claims(n), Claims(m)'
      PROVE  Sender[m] \in overlapped'
  <2>1. CASE ~Live(m) \/ InProgress(n)
    BY <1>3, <1>4, <2>1 DEF MarkOverlap
  <2>2. CASE Live(m) /\ ~InProgress(n)
    <3>1. at[n] = "processing" \/ n \in newDialogs
      BY <1>4, <2>2 DEF Claims, InProgress
    <3>2. Live(n)
      BY <1>4, <2>2 DEF Live
    <3>3. Sender[n] \in known
      BY <1>4, <3>1, <3>2 DEF Claimed
    <3>4. QED
      BY <1>3, <1>4, <3>3
  <2>3. QED
    BY <2>1, <2>2
<1>5. \A n \in newDialogs' : first'[n] /\ at'[n] = "over"
  BY <1>1 DEF Claimed
<1>6. \A n \in Messages :
         (Claims(n)' /\ Live(n)' /\ (at'[n] = "processing" \/ n \in newDialogs')) => Sender[n] \in known'
  BY <1>1, <1>2, <1>3 DEF Claimed, Live
<1>7. ASSUME NEW k \in Messages, NEW n \in Messages, k # n, Sender[k] = Sender[n], bot'[k] = bot'[n],
             Claims(k)', Claims(n)'
      PROVE  Sender[k] \in overlapped'
  <2>1. CASE k # m /\ n # m
    BY <1>1, <1>2, <1>7, <2>1 DEF Claimed
  <2>2. CASE k = m
    BY <1>1, <1>2, <1>4, <1>7, <2>2
  <2>3. CASE n = m
    BY <1>1, <1>2, <1>4, <1>7, <2>3
  <2>4. QED
    BY <2>1, <2>2, <2>3
<1>8. QED
  BY <1>5, <1>6, <1>7 DEF Claimed

LEMMA MoveClaimed ==
  ASSUME ContactInv, NEW m \in Messages,
         Greet(m) \/ InitializeUserSession(m) \/ QueueUserSession(m)
  PROVE  Claimed'
<1> USE DEF ContactInv, TypeOK
<1>1. /\ at[m] \in {"greeting", "initializing", "queueing"} /\ m \notin newDialogs
      /\ at' = [at EXCEPT ![m] = at'[m]] /\ at'[m] \in {"initializing", "queueing", "listening", "over"}
      /\ UNCHANGED <<first, newDialogs, bot, epoch, known, overlapped>>
  BY DEF Greet, InitializeUserSession, QueueUserSession, Go, Claimed, botVars, history
<1>2. \A n \in Messages : Claims(n)' => Claims(n)
  BY <1>1 DEF Claims
<1>3. \A n \in newDialogs' : first'[n] /\ at'[n] = "over"
  BY <1>1 DEF Claimed
<1>4. QED
  BY <1>1, <1>2, <1>3 DEF Claimed, Live

LEMMA ListenerClaimed == ASSUME ContactInv, NEW m \in Messages, StartResponseListener(m) PROVE Claimed'
<1> USE DEF ContactInv, TypeOK
<1>1. /\ at[m] = "listening" /\ m \notin newDialogs /\ at' = [at EXCEPT ![m] = "processing"]
      /\ UNCHANGED <<first, newDialogs, bot, epoch, overlapped>>
      /\ known \subseteq known' /\ (Live(m) => Sender[m] \in known')
  BY DEF StartResponseListener, Go, MarkKnown, Claimed, history
<1>2. \A n \in Messages : Claims(n)' <=> Claims(n)
  BY <1>1 DEF Claims
<1>3. \A n \in newDialogs' : first'[n] /\ at'[n] = "over"
  BY <1>1 DEF Claimed
<1>4. \A n \in Messages : Live(n)' <=> Live(n)
  BY <1>1 DEF Live
<1>5. \A n \in Messages :
         (Claims(n)' /\ Live(n)' /\ (at'[n] = "processing" \/ n \in newDialogs')) => Sender[n] \in known'
  BY <1>1, <1>2, <1>4 DEF Claimed
<1>6. QED
  BY <1>1, <1>2, <1>3, <1>5 DEF Claimed

LEMMA ProcessClaimed == ASSUME ContactInv, NEW m \in Messages, ProcessIncomingMessage(m) PROVE Claimed'
<1> USE DEF ContactInv, TypeOK
<1>1. /\ at[m] = "processing" /\ at' = [at EXCEPT ![m] = "over"]
      /\ UNCHANGED <<first, bot, epoch, known, overlapped>>
      /\ newDialogs' = newDialogs \/ (first[m] /\ newDialogs' = newDialogs \union {m})
  BY DEF ProcessIncomingMessage, Go, botVars, history
<1>2. \A n \in Messages : Claims(n)' => Claims(n)
  BY <1>1 DEF Claims
<1>3. \A n \in newDialogs' : first'[n] /\ at'[n] = "over"
  BY <1>1 DEF Claimed
<1>4. \A n \in Messages :
         (Claims(n)' /\ Live(n)' /\ (at'[n] = "processing" \/ n \in newDialogs')) => Sender[n] \in known'
  BY <1>1, <1>2 DEF Claimed, Live
<1>5. QED
  BY <1>1, <1>2, <1>3, <1>4 DEF Claimed

LEMMA RestartClaimed == ASSUME ContactInv, RestartBot \/ RestartProcess PROVE Claimed'
<1> USE DEF ContactInv, TypeOK
<1>1. /\ epoch' = epoch + 1 /\ UNCHANGED <<first, newDialogs, bot, overlapped>>
      /\ \A n \in Messages : at'[n] = at[n] \/ (at[n] # "new" /\ at'[n] = "over")
  BY DEF RestartBot, RestartProcess, Successor, handling, history
<1>2. \A n \in Messages : ~Live(n)'
  BY <1>1 DEF Fresh, Live
<1>3. \A n \in Messages : Claims(n)' => Claims(n)
  BY <1>1 DEF Claims
<1>4. \A n \in newDialogs' : first'[n] /\ at'[n] = "over"
  BY <1>1 DEF Claimed
<1>5. QED
  BY <1>1, <1>2, <1>3, <1>4 DEF Claimed

LEMMA ClaimedStep == ASSUME ContactInv, Next PROVE Claimed'
<1> USE DEF botVars, handling
<1>1. ASSUME NEW m \in Messages, FirstContactOf(m) \/ StartSession(m) \/ Listen(m) PROVE Claimed'
  BY <1>1, ClaimedKept DEF FirstContactOf, HasContact, SendNotification, SetContact, StartSession, Listen,
     ListenerGetsChannel, ListenerEnds
<1>2. ASSUME NEW s \in Senders, KeyExpires(s) \/ SessionEnds(s) PROVE Claimed'
  BY <1>2, ClaimedKept DEF KeyExpires, SessionEnds
<1>3. ASSUME PreloadFirstInteraction PROVE Claimed'
  BY <1>3, ClaimedKept DEF PreloadFirstInteraction
<1>4. QED
  BY <1>1, <1>2, <1>3, ReceiveClaimed, CheckSenderClaimed, MoveClaimed, ListenerClaimed, ProcessClaimed,
     RestartClaimed DEF Next, Handle

-----------------------------------------------------------------------------
(* Channels and listeners.                                                 *)

LEMMA AttachedKept ==
  ASSUME ContactInv, UNCHANGED <<channel, listener, epoch>>, known \subseteq known',
         \A m \in Messages : session[m] = "started" => session'[m] = "started",
         \A m \in Messages : listener[m] # "none" => bot'[m] = bot[m]
  PROVE  Attached'
  BY ContactAssumption DEF ContactInv, TypeOK, Attached, Live

LEMMA ReceiveAttached == ASSUME ContactInv, NEW m \in Messages, Receive(m) PROVE Attached'
<1>1. \A n \in Messages : listener[n] # "none" => bot'[n] = bot[n]
  BY DEF ContactInv, TypeOK, Fresh, Receive, Go
<1>2. QED
  BY <1>1, AttachedKept DEF Receive, botVars, core

LEMMA QueueAttached == ASSUME ContactInv, NEW m \in Messages, QueueUserSession(m) PROVE Attached'
<1>1. \A n \in Messages : session[n] = "started" => session'[n] = "started"
  BY DEF ContactInv, TypeOK, Fresh, QueueUserSession, Go
<1>2. QED
  BY <1>1, AttachedKept DEF QueueUserSession, botVars

LEMMA ListenerAttached == ASSUME ContactInv, NEW m \in Messages, StartResponseListener(m) PROVE Attached'
<1> USE ContactAssumption DEF ContactInv, TypeOK
<1>1. /\ listener' = [listener EXCEPT ![m] = "starting"] /\ UNCHANGED <<core, epoch, bot>>
      /\ known \subseteq known' /\ (Live(m) => Sender[m] \in known')
  BY DEF StartResponseListener, MarkKnown
<1>2. QED
  BY <1>1 DEF Attached, Live, core

LEMMA SessionAttached == ASSUME ContactInv, NEW m \in Messages, StartSession(m) PROVE Attached'
<1> USE ContactAssumption DEF ContactInv, TypeOK
<1>1. /\ session' = [session EXCEPT ![m] = "started"]
      /\ channel' = [channel EXCEPT ![Sender[m]] = IF @ = None THEN m ELSE @]
      /\ UNCHANGED <<listener, known, epoch, bot>>
  BY DEF StartSession, botVars, handling
<1>2. QED
  BY <1>1 DEF Attached, Live

LEMMA ListenAttached == ASSUME ContactInv, NEW m \in Messages, Listen(m) PROVE Attached'
<1> USE ContactAssumption DEF ContactInv, TypeOK
<1>1. /\ listener[m] # "none" /\ UNCHANGED <<core, known, epoch, bot>>
      /\ listener' = [listener EXCEPT ![m] = listener'[m]]
      /\ listener'[m] = "over" \/ (channel[Sender[m]] # None /\ listener'[m] = channel[Sender[m]])
  BY DEF Listen, ListenerGetsChannel, ListenerEnds, botVars, handling
<1>2. QED
  BY <1>1 DEF Attached, Live, core

LEMMA SessionEndsAttached == ASSUME ContactInv, NEW s \in Senders, SessionEnds(s) PROVE Attached'
  BY ContactAssumption DEF ContactInv, TypeOK, SessionEnds, Attached, Live, botVars, handling

LEMMA RestartAttached == ASSUME ContactInv, RestartBot \/ RestartProcess PROVE Attached'
<1> USE ContactAssumption DEF ContactInv, TypeOK
<1>1. \A n \in Messages : ~Live(n)'
  BY DEF RestartBot, RestartProcess, Successor, Fresh, Live, handling
<1>2. CASE RestartBot
  BY <1>1, <1>2 DEF RestartBot, Attached, core
<1>3. CASE RestartProcess
  BY <1>1, <1>3 DEF RestartProcess, Attached
<1>4. QED
  BY <1>2, <1>3

LEMMA AttachedStep == ASSUME ContactInv, Next PROVE Attached'
<1> USE DEF botVars, handling, core
<1>1. ASSUME NEW m \in Messages,
             CheckSender(m) \/ Greet(m) \/ InitializeUserSession(m) \/ ProcessIncomingMessage(m)
      PROVE  Attached'
  BY <1>1, AttachedKept DEF CheckSender, Greet, InitializeUserSession, ProcessIncomingMessage
<1>2. ASSUME NEW m \in Messages, FirstContactOf(m) PROVE Attached'
  BY <1>2, AttachedKept DEF FirstContactOf, HasContact, SendNotification, SetContact
<1>3. ASSUME NEW s \in Senders, KeyExpires(s) PROVE Attached'
  BY <1>3, AttachedKept DEF KeyExpires
<1>4. ASSUME PreloadFirstInteraction PROVE Attached'
  BY <1>4, AttachedKept DEF PreloadFirstInteraction
<1>5. QED
  BY <1>1, <1>2, <1>3, <1>4, ReceiveAttached, QueueAttached, ListenerAttached, SessionAttached,
     ListenAttached, SessionEndsAttached, RestartAttached DEF Next, Handle

-----------------------------------------------------------------------------
(* One listener.                                                           *)

Apartness == Separate /\ OneListener

\* A step that gives nobody a channel and starts no session keeps them apart.
LEMMA SeparateKept ==
  ASSUME ContactInv, Next, UNCHANGED epoch,
         \A m \in Messages : ~CheckSender(m),
         \A s \in Senders : channel'[s] \in {channel[s], None},
         \A m \in Messages : listener'[m] \in Messages => (listener[m] = listener'[m] /\ bot'[m] = bot[m]),
         \A m \in Messages : InProgress(m) => bot'[m] = bot[m]
  PROVE  Apartness'
<1> USE ContactAssumption DEF ContactInv, TypeOK
<1>1. /\ overlapped \subseteq overlapped'
      /\ \A n \in Messages : InProgress(n)' => InProgress(n)
  BY Progress
<1>2. Separate'
  <2> SUFFICES ASSUME NEW m \in Messages, NEW n \in Messages, m # n, Sender[m] = Sender[n],
                      Live(m)', Live(n)', InProgress(m)', listener'[n] \in Messages,
                      Sender[m] \notin overlapped'
               PROVE  channel'[Sender[m]] # listener'[n]
    BY DEF Separate
  <2>1. InProgress(m) /\ Live(m) /\ Live(n) /\ listener[n] = listener'[n] /\ Sender[m] \notin overlapped
    BY <1>1 DEF Live
  <2>2. channel[Sender[m]] # listener[n]
    BY <2>1 DEF Separate
  <2>3. QED
    BY <2>1, <2>2
<1>3. OneListener'
  BY <1>1 DEF OneListener, Live
<1>4. QED
  BY <1>2, <1>3 DEF Apartness

LEMMA ReceiveSeparate == ASSUME ContactInv, Next, NEW m \in Messages, Receive(m) PROVE Apartness'
<1> USE DEF ContactInv, TypeOK
<1>1. /\ at[m] = "new" /\ at' = [at EXCEPT ![m] = "checking"] /\ bot' = [bot EXCEPT ![m] = epoch]
      /\ UNCHANGED <<epoch, channel, listener>>
  BY DEF Receive, Go, botVars, core
<1>2. ~InProgress(m) /\ listener[m] = "none"
  BY <1>1 DEF InProgress, Fresh
<1>3. \A n \in Messages : ~CheckSender(n)
  BY <1>1 DEF CheckSender, Go
<1>4. QED
  BY <1>1, <1>2, <1>3, SeparateKept, ContactAssumption

LEMMA CheckSenderSeparate == ASSUME ContactInv, Next, NEW m \in Messages, CheckSender(m) PROVE Apartness'
<1> USE ContactAssumption DEF ContactInv, TypeOK
<1>1. /\ at[m] = "checking" /\ listener[m] = "none" /\ ~InProgress(m)
      /\ UNCHANGED <<epoch, bot, known, channel, listener>>
      /\ overlapped \subseteq overlapped'
  BY DEF CheckSender, Go, MarkOverlap, Fresh, InProgress, botVars, core
<1>2. \A n \in Messages : n # m => (InProgress(n)' => InProgress(n))
  BY OneAtATime
<1>3. InProgress(m)' => NeedsSetup(Sender[m]) /\ MarkOverlap(m)
  BY <1>1 DEF CheckSender, Go, InProgress, core
<1>4. ASSUME NEW k \in Messages, NEW n \in Messages, k # n, Sender[k] = Sender[n], Live(k)', Live(n)',
             InProgress(k)', listener'[n] \in Messages, Sender[k] \notin overlapped'
      PROVE  channel'[Sender[k]] # listener'[n]
  <2>1. CASE k # m
    BY <1>1, <1>2, <1>4, <2>1 DEF Separate, Live
  <2>2. CASE k = m
    <3>1. listener[n] \in Messages /\ listener[n] # "none" /\ Live(n)
      BY <1>1, <1>4 DEF Live
    <3>2. Sender[m] \in known
      BY <1>4, <2>2, <3>1 DEF Attached
    <3>3. channel[Sender[m]] = None
      BY <1>3, <1>4, <2>2, <3>2 DEF NeedsSetup
    <3>4. QED
      BY <1>1, <2>2, <3>1, <3>3
  <2>3. QED
    BY <2>1, <2>2
<1>5. Separate'
  BY <1>4 DEF Separate
<1>6. OneListener'
  BY <1>1 DEF OneListener, Live
<1>7. QED
  BY <1>5, <1>6 DEF Apartness

LEMMA SessionSeparate == ASSUME ContactInv, Next, NEW m \in Messages, StartSession(m) PROVE Apartness'
<1> USE ContactAssumption DEF ContactInv, TypeOK
<1>1. /\ session[m] = "queued" /\ UNCHANGED <<at, contact, listener, epoch, bot, overlapped>>
      /\ channel' = [channel EXCEPT ![Sender[m]] = IF @ = None THEN m ELSE @]
  BY DEF StartSession, botVars, handling, history
<1>2. \A n \in Messages : InProgress(n)' => InProgress(n)
  <2>1. \A n \in Messages : ~CheckSender(n)
    BY <1>1 DEF CheckSender, Go
  <2>2. QED
    BY <2>1, Progress
<1>3. \A n \in Messages : listener[n] \in Messages => listener[n] # m
  BY <1>1 DEF Attached
<1>4. Separate'
  BY <1>1, <1>2, <1>3 DEF Separate, Live
<1>5. OneListener'
  BY <1>1 DEF OneListener, Live
<1>6. QED
  BY <1>4, <1>5 DEF Apartness

\* A step of the handler moves its message.
LEMMA GoMoves ==
  ASSUME TypeOK, UNCHANGED at, NEW n \in Messages
  PROVE  ~CheckSender(n)
  BY DEF TypeOK, CheckSender, Go

LEMMA ListenSeparate == ASSUME ContactInv, Next, NEW m \in Messages, Listen(m) PROVE Apartness'
<1> USE ContactAssumption DEF ContactInv, TypeOK
<1>1. UNCHANGED <<at, contact, session, channel, epoch, bot, overlapped>>
  BY DEF Listen, ListenerGetsChannel, ListenerEnds, botVars, handling, core, history
<1>2. \A n \in Messages : ~CheckSender(n)
  BY <1>1, GoMoves DEF ContactInv
<1>3. CASE ListenerEnds(m)
  <2>1. \A n \in Messages : listener'[n] \in Messages => listener[n] = listener'[n]
    BY <1>3 DEF ListenerEnds
  <2>2. QED
    BY <1>1, <1>2, <2>1, SeparateKept
<1>4. CASE ListenerGetsChannel(m)
  <2>1. listener[m] = "starting" /\ InProgress(m)
    BY <1>4 DEF ListenerGetsChannel, InProgress
  <2>2. \A n \in Messages : n # m => listener'[n] = listener[n]
    BY <1>4 DEF ListenerGetsChannel
  <2>3. listener'[m] \in Messages => listener'[m] = channel[Sender[m]]
    BY <1>4 DEF ListenerGetsChannel
  <2>4. \A n \in Messages : InProgress(n)' => InProgress(n)
    BY <1>2, Progress
  <2>5. ASSUME NEW k \in Messages, k # m, listener[k] \in Messages, listener[k] = listener'[m],
               Live(k), Live(m)
        PROVE  Sender[m] \in overlapped
    <3>1. listener'[m] \in Messages /\ channel[Sender[m]] = listener[k]
      BY <2>3, <2>5
    <3>2. channel[Sender[m]] # None
      BY <2>5, <3>1
    <3>3. Sender[k] = Sender[m]
      BY <3>1, <3>2, <2>5 DEF Attached
    <3>4. QED
      BY <2>1, <2>5, <3>1, <3>3 DEF Separate
  <2>6. OneListener'
    <3> SUFFICES ASSUME NEW k \in Messages, NEW n \in Messages, k # n, Live(k)', Live(n)',
                        listener'[k] \in Messages, listener'[k] = listener'[n]
                 PROVE  Sender[k] \in overlapped'
      BY DEF OneListener
    <3>1. Live(k) /\ Live(n)
      BY <1>1 DEF Live
    <3>2. CASE k # m /\ n # m
      BY <1>1, <2>2, <3>1, <3>2 DEF OneListener
    <3>3. CASE k = m
      BY <1>1, <2>2, <2>5, <3>1, <3>3
    <3>4. CASE n = m
      <4>1. Sender[m] \in overlapped
        BY <2>2, <2>5, <3>1, <3>4
      <4>2. listener'[m] = channel[Sender[m]] /\ listener[k] = channel[Sender[m]] /\ listener[k] \in Messages
        BY <2>2, <2>3, <3>4
      <4>3. Sender[k] = Sender[m]
        BY <4>2 DEF Attached
      <4>4. QED
        BY <1>1, <4>1, <4>3
    <3>5. QED
      BY <3>2, <3>3, <3>4
  <2>7. Separate'
    <3> SUFFICES ASSUME NEW k \in Messages, NEW n \in Messages, k # n, Sender[k] = Sender[n],
                        Live(k)', Live(n)', InProgress(k)', listener'[n] \in Messages,
                        Sender[k] \notin overlapped'
                 PROVE  channel'[Sender[k]] # listener'[n]
      BY DEF Separate
    <3>1. Live(k) /\ Live(n) /\ InProgress(k) /\ Sender[k] \notin overlapped
      BY <1>1, <2>4 DEF Live
    <3>2. n # m
      BY <2>1, <3>1 DEF Apart
    <3>3. QED
      BY <1>1, <2>2, <3>1, <3>2 DEF Separate
  <2>8. QED
    BY <2>6, <2>7 DEF Apartness
<1>5. QED
  BY <1>3, <1>4 DEF Listen

LEMMA RestartSeparate == ASSUME ContactInv, RestartBot \/ RestartProcess PROVE Apartness'
<1>1. \A n \in Messages : ~Live(n)'
  BY DEF ContactInv, TypeOK, RestartBot, RestartProcess, Successor, Fresh, Live, handling
<1>2. QED
  BY <1>1 DEF Apartness, Separate, OneListener

LEMMA SeparateStep == ASSUME ContactInv, Next PROVE Apartness'
<1> USE ContactAssumption DEF botVars, handling, core
<1>1. ASSUME NEW m \in Messages,
             \/ Greet(m) \/ InitializeUserSession(m) \/ QueueUserSession(m) \/ StartResponseListener(m)
             \/ ProcessIncomingMessage(m)
      PROVE  Apartness'
  <2>1. \A n \in Messages : ~CheckSender(n)
    BY <1>1 DEF Greet, InitializeUserSession, QueueUserSession, StartResponseListener,
       ProcessIncomingMessage, CheckSender, Go, ContactInv, TypeOK
  <2>2. UNCHANGED <<epoch, bot, channel>>
    BY <1>1 DEF Greet, InitializeUserSession, QueueUserSession, StartResponseListener, ProcessIncomingMessage
  <2>3. \A n \in Messages : listener'[n] \in Messages => listener[n] = listener'[n]
    BY <1>1 DEF Greet, InitializeUserSession, QueueUserSession, StartResponseListener,
       ProcessIncomingMessage, ContactInv, TypeOK
  <2>4. QED
    BY <2>1, <2>2, <2>3, SeparateKept
<1>2. ASSUME NEW m \in Messages, FirstContactOf(m) PROVE Apartness'
  <2>1. UNCHANGED <<at, epoch, bot, channel, listener>>
    BY <1>2 DEF FirstContactOf, HasContact, SendNotification, SetContact
  <2>2. \A n \in Messages : ~CheckSender(n)
    BY <2>1, GoMoves DEF ContactInv
  <2>3. QED
    BY <2>1, <2>2, SeparateKept
<1>3. ASSUME NEW s \in Senders, KeyExpires(s) \/ SessionEnds(s) PROVE Apartness'
  <2>1. UNCHANGED <<at, epoch, bot, listener>> /\ \A r \in Senders : channel'[r] \in {channel[r], None}
    BY <1>3 DEF KeyExpires, SessionEnds, ContactInv, TypeOK
  <2>2. \A n \in Messages : ~CheckSender(n)
    BY <2>1, GoMoves DEF ContactInv
  <2>3. QED
    BY <2>1, <2>2, SeparateKept
<1>4. ASSUME PreloadFirstInteraction PROVE Apartness'
  <2>1. UNCHANGED <<at, epoch, bot, channel, listener>>
    BY <1>4 DEF PreloadFirstInteraction
  <2>2. \A n \in Messages : ~CheckSender(n)
    BY <2>1, GoMoves DEF ContactInv
  <2>3. QED
    BY <2>1, <2>2, SeparateKept
<1>5. QED
  BY <1>1, <1>2, <1>3, <1>4, ReceiveSeparate, CheckSenderSeparate, SessionSeparate, ListenSeparate,
     RestartSeparate DEF Next, Handle

-----------------------------------------------------------------------------
(* The theorems.                                                           *)

LEMMA StutterKeeps == ASSUME ContactInv, UNCHANGED vars PROVE ContactInv'
<1> USE DEF ContactInv, vars, botVars, handling, core, history
<1>1. TypeOK'
  BY DEF TypeOK, Queued
<1>2. Fresh' /\ Apart'
  BY DEF Fresh, Apart, InProgress
<1>3. Told' /\ RepeatsAreExplained' /\ SavedAfterNotified'
  BY DEF Told, RepeatsAreExplained, SavedAfterNotified
<1>4. Claimed' /\ Attached'
  BY DEF Claimed, Claims, Attached, Live
<1>5. Separate' /\ OneListener'
  BY DEF Separate, OneListener, InProgress, Live
<1>6. QED
  BY <1>1, <1>2, <1>3, <1>4, <1>5

THEOREM Invariance == Spec => []ContactInv
<1>1. ASSUME ContactInv, Next PROVE ContactInv'
  <2>1. TypeOK'
    BY <1>1, TypeStep DEF ContactInv
  <2>2. Fresh' /\ Apart' /\ ToldInv'
    BY <1>1, FreshStep, ApartStep, ToldStep
  <2>3. Claimed' /\ Attached' /\ Apartness'
    BY <1>1, ClaimedStep, AttachedStep, SeparateStep
  <2>4. QED
    BY <2>1, <2>2, <2>3 DEF ContactInv, ToldInv, Apartness
<1>2. ContactInv /\ [Next]_vars => ContactInv'
  BY <1>1, StutterKeeps
<1>3. QED
  BY InitEstablishes, <1>2, PTL DEF Spec

\* Type correctness, and the bound of StartCh, for any number of messages.
THEOREM TypeCorrect == Spec => []TypeOK
<1>1. ContactInv => TypeOK
  BY DEF ContactInv
<1>2. QED
  BY <1>1, Invariance, PTL

\* sendFirstContactMessage repeats the start event of a sender only when Redis
\* failed or forgot him, or two of his set-ups overlapped.
THEOREM RepeatsExplained == Spec => []RepeatsAreExplained
<1>1. ContactInv => RepeatsAreExplained
  BY DEF ContactInv
<1>2. QED
  BY <1>1, Invariance, PTL

\* Whatever Redis does, it holds only senders who were announced, or who came to a bot
\* with Events.Start off (sendFirstContactMessage).
THEOREM NotifiedBeforeSaved == Spec => []SavedAfterNotified
<1>1. ContactInv => SavedAfterNotified
  BY DEF ContactInv
<1>2. QED
  BY <1>1, Invariance, PTL

\* knownUsers keeps one bot from reporting a dialogue as new twice.
THEOREM OneNewDialog == Spec => []NewDialogOnce
<1>1. ContactInv => NewDialogOnce
  <2> SUFFICES ASSUME ContactInv, NEW m \in newDialogs, NEW n \in newDialogs,
                      Sender[m] = Sender[n], bot[m] = bot[n], m # n
               PROVE  Sender[m] \in overlapped
    BY DEF NewDialogOnce
  <2>1. m \in Messages /\ n \in Messages /\ Claims(m) /\ Claims(n)
    BY DEF ContactInv, TypeOK, Claimed, Claims
  <2>2. QED
    BY <2>1 DEF ContactInv, Claimed
<1>2. QED
  BY <1>1, Invariance, PTL

\* startResponseListener never gives one channel a second listener of the
\* running bot, as long as set-ups do not overlap.
THEOREM OnlyOneListener == Spec => []OneListener
<1>1. ContactInv => OneListener
  BY DEF ContactInv
<1>2. QED
  BY <1>1, Invariance, PTL
=============================================================================
