----------------------------- MODULE CallSession -----------------------------
(***************************************************************************)
(* The voice calls of one bot (telegram/call.go, telegram/call_outgoing.go *)
(* and telegram/ntgcalls_registry.go): the goroutine that sets a call up,  *)
(* incoming or outgoing, the goroutines spawned for Telegram updates, RPC  *)
(* hangups, signalling errors, the watchdog and native callbacks, and the  *)
(* cleanup they all race for.                                              *)
(*                                                                         *)
(* A call is keyed by its own id in activeCalls and ntgCallsByID, but the  *)
(* native engine and the realtime model session are keyed by the Telegram  *)
(* user at the other end: UserOf.                                          *)
(***************************************************************************)
EXTENDS Integers, Sequences

CONSTANTS Calls,    \* call ids
          Users,    \* Telegram users
          UserOf,   \* the user at the other end of each call (cs.callerID)
          Slots,    \* bound of the model: short-lived goroutines in flight
          ConnCap   \* capacity of cs.connState (8 in the code)

ASSUME CallAssumption == /\ UserOf \in [Calls -> Users]
                         /\ ConnCap \in Nat \ {0}

VARIABLES pc,         \* where the setup goroutine of each call is
          outgoing,   \* the calls this bot dialled
          cleanup,    \* how far cleanupCall has come, per call
          expired,    \* calls whose callMaxDuration is over
          active,     \* b.activeCalls
          byID,       \* ntgCallsByID
          byUser,     \* ntgCallsByUserID, {} where the map has no entry
          engine,     \* users with a P2P call in the native engine
          unstopped,  \* users for whom Destroy returned an error or did not wait for the library
          realtime,   \* calls whose realtime model session is running
          selfEnded,  \* calls whose model session was ended by its provider
          events,     \* lifecycle events recorded by each call's hub
          phoneCall,  \* calls with a PhoneCall waiting in phoneCallCh
          accepted,   \* calls with an acceptance waiting in phoneCallAcceptedCh
          conn,       \* contents of cs.connState
          slot,       \* the short-lived goroutines
          botStopped, \* b.ctx is cancelled
          crashed     \* the process died of a send on a closed channel

setupVars == <<pc, outgoing, expired>>
native == <<engine, unstopped>>
models == <<realtime, selfEnded>>
engineVars == <<byID, byUser, native, models>>
inbox == <<phoneCall, accepted, conn>>
world == <<botStopped, crashed>>
vars == <<pc, outgoing, expired, cleanup, active, byID, byUser, engine, unstopped,
          realtime, selfEnded, events, phoneCall, accepted, conn, slot, botStopped, crashed>>

ConnStates == {"connecting", "connected", "failed"}

Idle == [op |-> "idle", calls |-> {}]

Init == /\ pc = [c \in Calls |-> "idle"]
        /\ outgoing = {}
        /\ cleanup = [c \in Calls |-> "none"]
        /\ expired = {}
        /\ active = {}
        /\ byID = {}
        /\ byUser = [u \in Users |-> {}]
        /\ engine = {}
        /\ unstopped = {}
        /\ realtime = {}
        /\ selfEnded = {}
        /\ events = [c \in Calls |-> <<>>]
        /\ phoneCall = {}
        /\ accepted = {}
        /\ conn = [c \in Calls |-> <<>>]
        /\ slot = [g \in Slots |-> Idle]
        /\ botStopped = FALSE
        /\ crashed = FALSE

-----------------------------------------------------------------------------
(* What the stage of cleanupCall says of the session.                      *)

ChannelsClosed(c) == cleanup[c] \notin {"none", "ended"}
Cancelled(c)      == cleanup[c] \notin {"none", "ended", "closed"}
HubClosed(c)      == cleanup[c] \in {"hubClosed", "done"}

\* cs.ctx is done: cancelled by cleanup, by its deadline, or with its parent b.ctx.
CtxDone(c) == Cancelled(c) \/ c \in expired \/ botStopped

\* Mutant of Published: publish does not look whether the hub is closed.
PublishedAlways(c, type) == Append(events[c], type)

Published(c, type) == IF HubClosed(c) THEN events[c] ELSE Append(events[c], type)

SameUser(c) == {d \in Calls : UserOf[d] = UserOf[c]}

\* The process is alive and the setup goroutine of c is at one of these stages.
At(c, stages) == ~crashed /\ pc[c] \in stages

Goto(c, stage) == pc' = [pc EXCEPT ![c] = stage]

-----------------------------------------------------------------------------
(* cleanupCall.  The first caller runs it (sync.Once), stage by stage; what *)
(* the other goroutines do in between is what makes the stages matter.     *)

\* Mutant of CleanupCall: without the sync.Once every caller announces the end.
CleanupCallEachTime(c) ==
  /\ cleanup' = [cleanup EXCEPT ![c] = IF @ = "none" THEN "ended" ELSE @]
  /\ events' = [events EXCEPT ![c] = Published(c, "call_ended")]

CleanupCall(c) ==
  IF cleanup[c] = "none"
    THEN /\ cleanup' = [cleanup EXCEPT ![c] = "ended"]
         /\ events' = [events EXCEPT ![c] = Append(@, "call_ended")]
    ELSE UNCHANGED <<cleanup, events>>

Stage(c, from, to) == /\ ~crashed
                      /\ cleanup[c] = from
                      /\ cleanup' = [cleanup EXCEPT ![c] = to]
                      /\ UNCHANGED <<setupVars, inbox, slot, world>>

CloseChannels(c) == /\ Stage(c, "ended", "closed")
                    /\ UNCHANGED <<active, engineVars, events>>

CancelCtx(c) == /\ Stage(c, "closed", "cancelled")
                /\ UNCHANGED <<active, engineVars, events>>

\* Mutant of UnregisterSession: the registry by user keeps the call.
UnregisterByID(c) == /\ Stage(c, "cancelled", "unregistered")
                     /\ byID' = byID \ {c}
                     /\ UNCHANGED <<active, byUser, native, models, events>>

UnregisterSession(c) == /\ Stage(c, "cancelled", "unregistered")
                        /\ byID' = byID \ {c}
                        /\ byUser' = [byUser EXCEPT ![UserOf[c]] = @ \ {c}]
                        /\ UNCHANGED <<active, native, models, events>>

\* start.CloseSession is given the user's respId.
CloseSession(c) == /\ Stage(c, "unregistered", "sessionClosed")
                   /\ realtime' = realtime \ SameUser(c)
                   /\ UNCHANGED <<active, byID, byUser, native, selfEnded, events>>

ForgetCall(c) == /\ Stage(c, "sessionClosed", "forgotten")
                 /\ active' = active \ {c}
                 /\ UNCHANGED <<engineVars, events>>

CloseHub(c) == /\ Stage(c, "forgotten", "hubClosed")
               /\ UNCHANGED <<active, engineVars, events>>

\* engine.Destroy, which is given a user's id.  Its callers only log an error of the library
\* and the timeout of asyncWait.
Destroy(u) == \/ /\ engine' = engine \ {u}
                 /\ UNCHANGED unstopped
              \/ /\ u \in engine
                 /\ unstopped' = unstopped \cup {u}
                 /\ UNCHANGED engine

DestroyEngine(c) == /\ Stage(c, "hubClosed", "done")
                    /\ Destroy(UserOf[c])
                    /\ UNCHANGED <<active, byID, byUser, models, events>>

Cleanup(c) == \/ CloseChannels(c) \/ CancelCtx(c) \/ UnregisterSession(c) \/ CloseSession(c)
              \/ ForgetCall(c) \/ CloseHub(c) \/ DestroyEngine(c)

-----------------------------------------------------------------------------
(* How a session comes to exist.                                           *)

\* handleIncomingCall up to the session: refused (engine, permission, user or
\* dialogue initialisation) or accepted.
ReceiveCall(c) ==
  /\ At(c, {"idle"})
  /\ ~botStopped
  /\ \/ Goto(c, "refused")
     \/ Goto(c, "accepted")
  /\ UNCHANGED <<outgoing, expired, cleanup, active, engineVars, events, inbox, slot, world>>

\* engine.CreateP2P failed: refused by the library, or the wait for it was given up.
MayCreate(u) == engine' \in {engine, engine \cup {u}}

\* Bot.InitiateOutgoingCall up to engine.CreateP2P; every earlier failure just returns.
Dial(c) ==
  /\ At(c, {"idle"})
  /\ ~botStopped
  /\ \/ /\ Goto(c, "refused")
        /\ MayCreate(UserOf[c])
        /\ UNCHANGED outgoing
     \/ /\ Goto(c, "dialling")
        /\ outgoing' = outgoing \cup {c}
        /\ engine' = engine \cup {UserOf[c]}
  /\ UNCHANGED <<expired, cleanup, active, byID, byUser, unstopped, models, events, inbox, slot,
                 world>>

\* InitOutgoingExchange and PhoneRequestCall: a failure destroys the engine's call.
RequestCall(c) ==
  /\ At(c, {"dialling"})
  /\ \/ /\ ~botStopped
        /\ Goto(c, "accepted")
        /\ UNCHANGED native
     \/ /\ Goto(c, "refused")
        /\ Destroy(UserOf[c])
  /\ UNCHANGED <<outgoing, expired, cleanup, active, byID, byUser, models, events, inbox,
                 slot, world>>

RegisterSession(c) ==
  /\ At(c, {"accepted"})
  /\ Goto(c, "registered")
  /\ byID' = byID \cup {c}
  /\ byUser' = [byUser EXCEPT ![UserOf[c]] = @ \cup {c}]
  /\ UNCHANGED <<outgoing, expired, cleanup, active, native, models, events, inbox, slot,
                 world>>

StoreCall(c) ==
  /\ At(c, {"registered"})
  /\ Goto(c, "stored")
  /\ active' = active \cup {c}
  /\ UNCHANGED <<outgoing, expired, cleanup, engineVars, events, inbox, slot, world>>

\* call_started, then the setup goroutine.  The call can be hung up before this.
AnnounceCall(c) ==
  /\ At(c, {"stored"})
  /\ Goto(c, IF c \in outgoing THEN "waitAccepted" ELSE "create")
  /\ events' = [events EXCEPT ![c] = Published(c, "call_started")]
  /\ UNCHANGED <<outgoing, expired, cleanup, active, engineVars, inbox, slot, world>>

Arrive(c) == \/ ReceiveCall(c) \/ Dial(c) \/ RequestCall(c)
             \/ RegisterSession(c) \/ StoreCall(c) \/ AnnounceCall(c)
-----------------------------------------------------------------------------
(* setupP2PCall and setupOutgoingP2PCall.                                  *)

\* handleCallError and discardCallSession: PhoneDiscardCall, whatever its result, then cleanup.
Fail(c) == Goto(c, "discarding")

quiet == <<outgoing, expired, slot, world>>

CreateP2P(c) ==
  /\ At(c, {"create"})
  /\ \/ /\ Goto(c, "accept")
        /\ engine' = engine \cup {UserOf[c]}
     \/ /\ Fail(c)
        /\ MayCreate(UserOf[c])
  /\ UNCHANGED <<quiet, cleanup, active, byID, byUser, unstopped, models, events, inbox>>

\* Mutant of AcceptCall: the RPCs run under the bot's context, not the call's.
AcceptCallUnchecked(c) ==
  /\ At(c, {"accept"})
  /\ \/ /\ ~botStopped
        /\ UserOf[c] \in engine
        /\ Goto(c, "waitCall")
     \/ Fail(c)
  /\ UNCHANGED <<quiet, cleanup, active, engineVars, events, inbox>>

\* MessagesGetDhConfig, InitExchange and PhoneAcceptCall; the RPCs run under cs.ctx.
AcceptCall(c) ==
  /\ At(c, {"accept"})
  /\ \/ /\ ~CtxDone(c)
        /\ UserOf[c] \in engine
        /\ Goto(c, "waitCall")
     \/ Fail(c)
  /\ UNCHANGED <<quiet, cleanup, active, engineVars, events, inbox>>

\* An empty GB is refused; from a closed channel comes nil, whose use panics into cleanup.
TakeAccepted(c) ==
  /\ At(c, {"waitAccepted"})
  /\ \/ /\ c \in accepted
        /\ accepted' = accepted \ {c}
        /\ Goto(c, "confirm") \/ Fail(c)
        /\ UNCHANGED <<cleanup, events>>
     \/ /\ c \notin accepted
        /\ ChannelsClosed(c)
        /\ Goto(c, "done")
        /\ CleanupCall(c)
        /\ UNCHANGED accepted
  /\ UNCHANGED <<quiet, active, engineVars, phoneCall, conn>>

\* ExchangeKeys and PhoneConfirmCall, whose answer may already hold the PhoneCall.
ConfirmCall(c) ==
  /\ At(c, {"confirm"})
  /\ \/ /\ ~CtxDone(c)
        /\ UserOf[c] \in engine
        /\ Goto(c, "connect") \/ Goto(c, "waitCall")
     \/ Fail(c)
  /\ UNCHANGED <<quiet, cleanup, active, engineVars, events, inbox>>

\* The nil of a closed channel is checked for an outgoing call only.
TakePhoneCall(c) ==
  /\ At(c, {"waitCall"})
  /\ \/ /\ c \in phoneCall
        /\ phoneCall' = phoneCall \ {c}
        /\ Goto(c, "connect")
        /\ UNCHANGED <<cleanup, events>>
     \/ /\ c \notin phoneCall
        /\ ChannelsClosed(c)
        /\ Goto(c, "done")
        /\ IF c \in outgoing THEN UNCHANGED <<cleanup, events>> ELSE CleanupCall(c)
        /\ UNCHANGED phoneCall
  /\ UNCHANGED <<quiet, active, engineVars, accepted, conn>>

\* ExchangeKeys (incoming) and ConnectP2P; then the signalling goroutines start.
ConnectP2P(c) ==
  /\ At(c, {"connect"})
  /\ \/ /\ UserOf[c] \in engine
        /\ Goto(c, "connWait")
     \/ Fail(c)
  /\ UNCHANGED <<quiet, cleanup, active, engineVars, events, inbox>>

\* A state is taken from connState; a value buffered before close is still delivered.
ReadConnState(c) ==
  /\ At(c, {"connWait"})
  /\ conn[c] # <<>>
  /\ conn' = [conn EXCEPT ![c] = Tail(@)]
  /\ \/ /\ Head(conn[c]) = "connected"
        /\ Goto(c, "realtime")
        /\ events' = [events EXCEPT ![c] = Published(c, "call_connected")]
     \/ /\ Head(conn[c]) = "connecting"
        /\ UNCHANGED <<pc, events>>
     \/ /\ Head(conn[c]) = "failed"
        /\ Fail(c)
        /\ UNCHANGED events
  /\ UNCHANGED <<quiet, cleanup, active, engineVars, phoneCall, accepted>>

\* Mutant of SetupTimeout: the timeout just returns, like the cancellation does.
SetupTimeoutReturns(c) ==
  /\ At(c, {"waitAccepted", "waitCall", "connWait"})
  /\ Goto(c, "done")
  /\ UNCHANGED <<quiet, cleanup, active, engineVars, events, inbox>>

\* phoneCallTimeout, p2pConnectTimeout.
SetupTimeout(c) ==
  /\ At(c, {"waitAccepted", "waitCall", "connWait"})
  /\ Fail(c)
  /\ UNCHANGED <<quiet, cleanup, active, engineVars, events, inbox>>

\* The waits that watch cs.ctx return without cleaning up; the incoming side's wait for
\* PhoneCall does not watch it.
Abandon(c) ==
  /\ At(c, {"waitAccepted", "connWait"}) \/ (At(c, {"waitCall"}) /\ c \in outgoing)
  /\ CtxDone(c)
  /\ Goto(c, "done")
  /\ UNCHANGED <<quiet, cleanup, active, engineVars, events, inbox>>

\* startRealtimeSession runs under b.ctx, not cs.ctx.
StartRealtime(c) ==
  /\ At(c, {"realtime"})
  /\ \/ /\ ~botStopped
        /\ Goto(c, "bridge")
        /\ realtime' = realtime \cup {c}
     \/ /\ Fail(c)
        /\ UNCHANGED realtime
  /\ UNCHANGED <<quiet, cleanup, active, byID, byUser, native, selfEnded, events, inbox>>

\* <-cs.ctx.Done() at the end of a setup that succeeded.
EndBridge(c) ==
  /\ At(c, {"bridge"})
  /\ CtxDone(c)
  /\ Goto(c, "done")
  /\ CleanupCall(c)
  /\ UNCHANGED <<quiet, active, engineVars, inbox>>

\* Mutant of Discard: an error of PhoneDiscardCall skips the cleanup, as in HangupCall.
DiscardOnSuccess(c) ==
  /\ At(c, {"discarding"})
  /\ Goto(c, "done")
  /\ CleanupCall(c) \/ UNCHANGED <<cleanup, events>>
  /\ UNCHANGED <<quiet, active, engineVars, inbox>>

Discard(c) ==
  /\ At(c, {"discarding"})
  /\ Goto(c, "done")
  /\ CleanupCall(c)
  /\ UNCHANGED <<quiet, active, engineVars, inbox>>

Setup(c) == \/ CreateP2P(c) \/ AcceptCall(c) \/ TakeAccepted(c) \/ ConfirmCall(c)
            \/ TakePhoneCall(c) \/ ConnectP2P(c) \/ ReadConnState(c) \/ Abandon(c)
            \/ StartRealtime(c) \/ EndBridge(c) \/ Discard(c)

\* callMaxDuration (2 h) outlasts every timeout of the setup, so only a bridge sees it.
Expire(c) ==
  /\ At(c, {"bridge"})
  /\ expired' = expired \cup {c}
  /\ UNCHANGED <<pc, outgoing, cleanup, active, engineVars, events, inbox, slot, world>>
-----------------------------------------------------------------------------
(* The short-lived goroutines: each looks the session up in one step and   *)
(* acts on it in a later one.                                              *)

Spawn(g, op, cs) == /\ ~crashed
                    /\ slot[g] = Idle
                    /\ slot' = [slot EXCEPT ![g] = [op |-> op, calls |-> cs]]
                    /\ UNCHANGED <<setupVars, cleanup, active, engineVars, events, inbox, world>>

Runs(g, op, c) == ~crashed /\ slot[g] = [op |-> op, calls |-> {c}]

Finish(g) == slot' = [slot EXCEPT ![g] = Idle]

\* What the peer can have caused Telegram to send: an acceptance of a call we dialled,
\* a PhoneCall once the call has been accepted or confirmed.
PeerMaySend(op, c) ==
  CASE op = "accepted"  -> c \in outgoing
    [] op = "phoneCall" -> pc[c] \notin {"stored", "create", "accept", "waitAccepted"}
    [] OTHER            -> TRUE

\* handlePhoneCallUpdate, handlePhoneCallAcceptedUpdate, handleSignalingData: the lookup.
\* Only the last one asks whether cleanup has begun.
ReceiveUpdate(g, op, c) ==
  /\ ~botStopped
  /\ c \in active
  /\ PeerMaySend(op, c)
  /\ op = "signaling" => cleanup[c] = "none"
  /\ Spawn(g, op, {c})

\* hangupCall (PhoneCallDiscarded): discardCallSession on the session found.
PeerHangsUp(g, c) == ~botStopped /\ c \in active /\ Spawn(g, "discard", {c})

\* Mutant of RequestHangup: the native call is stopped before Telegram is asked.
RequestHangupStopsEngine(g, c) ==
  /\ ~crashed
  /\ c \in active
  /\ slot[g] = Idle
  /\ slot' = [slot EXCEPT ![g] = [op |-> "hangup", calls |-> {c}]]
  /\ engine' = engine \ {UserOf[c]}
  /\ UNCHANGED <<setupVars, cleanup, active, byID, byUser, unstopped, models, events, inbox, world>>

\* HangupCall (gRPC, HTTP): the lookup.
RequestHangup(g, c) == c \in active /\ Spawn(g, "hangup", {c})

\* forwardSignaling or pumpSignalingFromPeer meets a connection error and discards.
SignalingFails(g, c) ==
  /\ pc[c] \in {"connWait", "realtime", "bridge"}
  /\ ~CtxDone(c)
  /\ Spawn(g, "discard", {c})

\* The realtime watchdog's callback finds the call in activeCalls and discards.
WatchdogFires(g, c) == pc[c] = "bridge" /\ c \in active /\ Spawn(g, "discard", {c})

\* A native callback (signalling or frame data, connection state) lists the sessions of its user.
NativeCallback(g, u, op) ==
  /\ u \in engine
  /\ byUser[u] \cap byID # {}
  /\ Spawn(g, op, byUser[u] \cap byID)

-----------------------------------------------------------------------------
Done(g) == UNCHANGED <<setupVars, cleanup, active, engineVars, events, botStopped>> /\ Finish(g)

\* A send on a closed channel kills the process.
SendPanics(g, c) == /\ ChannelsClosed(c)
                    /\ crashed' = TRUE
                    /\ UNCHANGED inbox
                    /\ Done(g)

\* The three-way select of the update handlers: send, cs.ctx.Done(), full.
Offer(g, op, c, full, put) ==
  /\ Runs(g, op, c)
  /\ \/ SendPanics(g, c)
     \/ /\ ~ChannelsClosed(c) /\ ~full
        /\ put
        /\ UNCHANGED crashed
        /\ Done(g)
     \/ /\ CtxDone(c)
        /\ UNCHANGED <<inbox, crashed>>
        /\ Done(g)
     \/ /\ ~ChannelsClosed(c) /\ full /\ ~CtxDone(c)
        /\ slot' = [slot EXCEPT ![g].op = "discard"]
        /\ UNCHANGED <<setupVars, cleanup, active, engineVars, events, inbox, world>>

DeliverPhoneCall(g, c) ==
  Offer(g, "phoneCall", c, c \in phoneCall,
        phoneCall' = phoneCall \cup {c} /\ UNCHANGED <<accepted, conn>>)

DeliverAccepted(g, c) ==
  Offer(g, "accepted", c, c \in accepted,
        accepted' = accepted \cup {c} /\ UNCHANGED <<phoneCall, conn>>)

\* Signalling data is buffered or dropped; its contents do not matter here.
DeliverSignaling(g, c) ==
  /\ Runs(g, "signaling", c)
  /\ \/ SendPanics(g, c)
     \/ /\ ~ChannelsClosed(c) \/ CtxDone(c)
        /\ UNCHANGED <<inbox, crashed>>
        /\ Done(g)

HasPlace(c) == Len(conn[c]) < ConnCap

\* A callback sends to one session of its list after another, without waiting.
CallbackSends(g, c) ==
  /\ ~crashed
  /\ slot[g].op \in ConnStates \cup {"data"}
  /\ c \in slot[g].calls
  /\ \/ SendPanics(g, c)
     \/ /\ ~ChannelsClosed(c)
        /\ conn' = IF slot[g].op \in ConnStates /\ HasPlace(c)
                     THEN [conn EXCEPT ![c] = Append(@, slot[g].op)] ELSE conn
        /\ IF slot[g].calls = {c} THEN Finish(g) ELSE slot' = [slot EXCEPT ![g].calls = @ \ {c}]
        /\ UNCHANGED <<setupVars, cleanup, active, engineVars, events, phoneCall, accepted, world>>

\* discardCallSession: the RPC's result is ignored.
DiscardSession(g, c) ==
  /\ Runs(g, "discard", c)
  /\ CleanupCall(c)
  /\ Finish(g)
  /\ UNCHANGED <<setupVars, active, engineVars, inbox, world>>

\* HangupCall: an error of PhoneDiscardCall, sure once b.ctx is cancelled, is returned
\* and the call stays.
HangupCall(g, c) ==
  /\ Runs(g, "hangup", c)
  /\ \/ ~botStopped /\ CleanupCall(c)
     \/ UNCHANGED <<cleanup, events>>
  /\ Finish(g)
  /\ UNCHANGED <<setupVars, active, engineVars, inbox, world>>

Act(g, c) == \/ DeliverPhoneCall(g, c) \/ DeliverAccepted(g, c) \/ DeliverSignaling(g, c)
             \/ CallbackSends(g, c) \/ DiscardSession(g, c) \/ HangupCall(g, c)

\* What sets a short-lived goroutine going.
Trigger(g) ==
  \/ \E c \in Calls : \/ \E op \in {"phoneCall", "accepted", "signaling"} : ReceiveUpdate(g, op, c)
                      \/ PeerHangsUp(g, c) \/ RequestHangup(g, c)
                      \/ SignalingFails(g, c) \/ WatchdogFires(g, c)
  \/ \E u \in Users, op \in ConnStates \cup {"data"} : NativeCallback(g, u, op)

\* StopUserBot cancels b.ctx.
StopBot == /\ ~crashed
           /\ ~botStopped
           /\ botStopped' = TRUE
           /\ UNCHANGED <<setupVars, cleanup, active, engineVars, events, inbox, slot, crashed>>

\* The provider closes the session by itself; watchRealtimeErrors then just stops reading.
ProviderEnds(c) ==
  /\ ~crashed
  /\ c \in realtime
  /\ realtime' = realtime \ {c}
  /\ selfEnded' = selfEnded \cup {c}
  /\ UNCHANGED <<setupVars, cleanup, active, byID, byUser, native, events, inbox, slot, world>>

\* The library carries out a stop that Destroy no longer waits for; after an error it never does.
LateStop(u) ==
  /\ ~crashed
  /\ u \in unstopped
  /\ engine' = engine \ {u}
  /\ unstopped' = unstopped \ {u}
  /\ UNCHANGED <<setupVars, cleanup, active, byID, byUser, models, events, inbox, slot, world>>

\* What no goroutine of a call does.
Elsewhere == \/ StopBot
             \/ \E c \in Calls : ProviderEnds(c)
             \/ \E u \in Users : LateStop(u)

Next == \/ \E c \in Calls : Arrive(c) \/ Setup(c) \/ SetupTimeout(c) \/ Expire(c) \/ Cleanup(c)
        \/ \E g \in Slots : Trigger(g) \/ \E c \in Calls : Act(g, c)
        \/ Elsewhere

Spec == Init /\ [][Next]_vars

\* Goroutines that can run do, and timers fire.  Nothing is assumed of Telegram, of the peer,
\* of the native library or of whoever hangs up.
Fairness ==
  /\ \A c \in Calls : /\ WF_vars(StoreCall(c) \/ AnnounceCall(c))
                      /\ WF_vars(Setup(c))
                      /\ WF_vars(SetupTimeout(c))
                      /\ WF_vars(Expire(c))
                      /\ WF_vars(Cleanup(c))
  /\ \A g \in Slots : WF_vars(\E c \in Calls : Act(g, c))

FairSpec == Spec /\ Fairness

-----------------------------------------------------------------------------
SetupStages == {"idle", "refused", "dialling", "accepted", "registered", "stored", "create",
                "accept", "waitAccepted", "confirm", "waitCall", "connect", "connWait",
                "realtime", "bridge", "discarding", "done"}
CleanupStages == {"none", "ended", "closed", "cancelled", "unregistered", "sessionClosed",
                  "forgotten", "hubClosed", "done"}
EventTypes == {"call_started", "call_connected", "call_ended"}
Ops == {"idle", "phoneCall", "accepted", "signaling", "discard", "hangup", "data"} \cup ConnStates

TypeOK ==
  /\ pc \in [Calls -> SetupStages]
  /\ outgoing \subseteq Calls
  /\ cleanup \in [Calls -> CleanupStages]
  /\ expired \subseteq Calls
  /\ active \subseteq Calls
  /\ byID \subseteq Calls
  /\ byUser \in [Users -> SUBSET Calls]
  /\ engine \subseteq Users
  /\ unstopped \subseteq Users
  /\ realtime \subseteq Calls
  /\ selfEnded \subseteq Calls
  /\ events \in [Calls -> Seq(EventTypes)]
  /\ phoneCall \subseteq Calls
  /\ accepted \subseteq Calls
  /\ conn \in [Calls -> Seq(ConnStates)]
  /\ \A c \in Calls : Len(conn[c]) <= ConnCap
  /\ slot \in [Slots -> [op : Ops, calls : SUBSET Calls]]
  /\ botStopped \in BOOLEAN
  /\ crashed \in BOOLEAN

\* The two registries agree, and hold a session from its registration until its
\* cleanup takes it out, so a callback never misses a live call and finds no
\* stale one (ntgcalls_registry.go against the order of cleanupCall).
RegistriesAgree ==
  /\ \A u \in Users : byUser[u] = {c \in byID : UserOf[c] = u}
  /\ \A c \in Calls : c \in active /\ ~Cancelled(c) => c \in byID

\* Setup, update handlers, hangups, the watchdog and signalling errors race for
\* cleanup: the client is told once, and only if cleanup has begun, that the call ended.
EndedOnce ==
  \A c \in Calls :
    /\ \A i, j \in DOMAIN events[c] :
          events[c][i] = "call_ended" /\ events[c][j] = "call_ended" => i = j
    /\ (\E i \in DOMAIN events[c] : events[c][i] = "call_ended") <=> cleanup[c] # "none"

\* A setup goroutine that is gone has seen to the cleanup of its call, except that the
\* cancellation of b.ctx makes some waits return at once (setupP2PCall,
\* setupOutgoingP2PCall): only stopping the bot can leave a session behind.
AbandonedOnlyByStop ==
  \A c \in Calls : pc[c] = "done" /\ cleanup[c] = "none" => botStopped

\* No call is forgotten: every call in activeCalls is taken out again, whichever
\* of its goroutines, timers and peers fail, unless the bot is stopped or the process dies.
EveryCallIsForgotten ==
  \A c \in Calls : c \in active ~> (c \notin active \/ botStopped \/ crashed)

\* A call whose audio bridge runs, and which nobody has begun to end, has its native
\* call and, unless the provider ended it, its model session.  ntgcalls_registry.go says
\* that several simultaneous calls of one user are supported.
LiveCallHasMedia ==
  \A c \in Calls : pc[c] = "bridge" /\ cleanup[c] = "none" =>
    UserOf[c] \in engine /\ c \in realtime \cup selfEnded

\* Cleanup destroys the native call while the setup may be about to create it, or about
\* to use it.  One that is there when cleanup is over either survived a Destroy that failed
\* or gave up waiting, which is only logged, or was created too late: then it belongs to an
\* incoming call whose setup never got past its acceptance, for the RPCs that accept it
\* run under cs.ctx.  A call that was dialled, or came to a connection, leaves none that
\* Destroy was not asked to take.
NativeReleased ==
  \A c \in Calls : cleanup[c] = "done" /\ UserOf[c] \in engine \ unstopped =>
    /\ c \notin outgoing
    /\ pc[c] \in {"accept", "discarding", "done"}
    /\ \A i \in DOMAIN events[c] : events[c][i] # "call_connected"

\* The stages of a setup before its call is in activeCalls.
Unborn == {"idle", "refused", "dialling", "accepted", "registered"}

Life == INSTANCE CallLife WITH Types <- EventTypes, log <- events,
                               gone <- {c \in Calls : pc[c] \notin Unborn /\ c \notin active},
                               closed <- {c \in Calls : HubClosed(c)}

\* Whatever races with whatever, the subscribers of a call are told each event once,
\* call_connected only after call_started, nothing after the close of the hub, and the
\* call leaves activeCalls, and its hub closes after that, only when its end is recorded.
ImplementsLife == Life!Spec
=============================================================================
