-------------------------- MODULE CallSessionProofs --------------------------
(***************************************************************************)
(* Proofs about CallSession, for any number of calls, users and goroutines *)
(* and any capacity of connState.  Two lemmas say what a step can do to    *)
(* the stages of a call (StepMoves) and to its events and cleanup          *)
(* (StepEnds); the invariants follow from them and from the few actions    *)
(* that touch a registry, the engine or the realtime sessions.             *)
(***************************************************************************)
EXTENDS CallSession, TLAPS

-----------------------------------------------------------------------------
(* Types.                                                                  *)

LEMMA TypeInit == Init => TypeOK
<1> SUFFICES ASSUME Init PROVE TypeOK
  OBVIOUS
<1>1. <<>> \in Seq(EventTypes) /\ <<>> \in Seq(ConnStates) /\ Len(<<>>) = 0 /\ ConnCap \in Nat
  BY CallAssumption
<1>2. events \in [Calls -> Seq(EventTypes)] /\ conn \in [Calls -> Seq(ConnStates)]
  BY <1>1 DEF Init
<1>3. ASSUME NEW c \in Calls PROVE Len(conn[c]) <= ConnCap
  <2>1. conn[c] = <<>>
    BY DEF Init
  <2>2. QED
    BY <2>1, <1>1
<1>4. pc \in [Calls -> SetupStages] /\ cleanup \in [Calls -> CleanupStages]
  BY DEF Init, SetupStages, CleanupStages
<1>5. slot \in [Slots -> [op : Ops, calls : SUBSET Calls]]
  BY DEF Init, Idle, Ops
<1>6. QED
  BY <1>2, <1>3, <1>4, <1>5 DEF Init, TypeOK, EventTypes

\* What publish appends keeps the events typed.
LEMMA PublishedTyped ==
  ASSUME TypeOK, NEW c \in Calls, NEW t \in EventTypes
  PROVE  /\ Published(c, t) \in Seq(EventTypes)
         /\ Append(events[c], t) \in Seq(EventTypes)
<1>1. events[c] \in Seq(EventTypes)
  BY DEF TypeOK, EventTypes
<1>2. QED
  BY <1>1 DEF Published

LEMMA CleanupCallTyped ==
  ASSUME TypeOK, NEW c \in Calls, CleanupCall(c)
  PROVE  cleanup' \in [Calls -> CleanupStages] /\ events' \in [Calls -> Seq(EventTypes)]
<1>1. /\ cleanup \in [Calls -> CleanupStages] /\ events \in [Calls -> Seq(EventTypes)]
      /\ "ended" \in CleanupStages /\ "call_ended" \in EventTypes
  BY DEF TypeOK, EventTypes, CleanupStages
<1>2. Append(events[c], "call_ended") \in Seq(EventTypes)
  BY <1>1
<1>3. QED
  BY <1>1, <1>2 DEF CleanupCall

LEMMA CleanupTyped ==
  ASSUME TypeOK, NEW c \in Calls, Cleanup(c)
  PROVE  TypeOK'
<1>1. cleanup' \in [Calls -> CleanupStages]
  BY DEF Cleanup, CloseChannels, CancelCtx, UnregisterSession, CloseSession, ForgetCall, CloseHub,
         DestroyEngine, Stage, TypeOK, CleanupStages
<1>2. UNCHANGED <<setupVars, inbox, slot, world, events>>
  BY DEF Cleanup, CloseChannels, CancelCtx, UnregisterSession, CloseSession, ForgetCall, CloseHub,
         DestroyEngine, Stage
<1>3. /\ byID' \subseteq Calls /\ byUser' \in [Users -> SUBSET Calls] /\ engine' \subseteq Users
      /\ unstopped' \subseteq Users /\ realtime' \subseteq Calls /\ selfEnded' \subseteq Calls
      /\ active' \subseteq Calls
  <2>1. UserOf[c] \in Users
    BY CallAssumption
  <2>2. QED
    BY <2>1 DEF Cleanup, CloseChannels, CancelCtx, UnregisterSession, CloseSession, ForgetCall,
                CloseHub, DestroyEngine, Destroy, engineVars, native, models, TypeOK
<1>4. QED
  BY <1>1, <1>2, <1>3 DEF TypeOK, setupVars, inbox, world

LEMMA ArriveTyped ==
  ASSUME TypeOK, NEW c \in Calls, Arrive(c)
  PROVE  TypeOK'
<1>1. UserOf[c] \in Users
  BY CallAssumption
<1>2. CASE ReceiveCall(c)
  BY <1>2 DEF ReceiveCall, Goto, TypeOK, SetupStages, engineVars, native, models, inbox, world
<1>3. CASE Dial(c)
  BY <1>1, <1>3 DEF Dial, MayCreate, Goto, TypeOK, SetupStages, models, inbox, world
<1>4. CASE RequestCall(c)
  BY <1>1, <1>4 DEF RequestCall, Destroy, Goto, TypeOK, SetupStages, native, models, inbox, world
<1>5. CASE RegisterSession(c)
  BY <1>1, <1>5 DEF RegisterSession, Goto, TypeOK, SetupStages, native, models, inbox, world
<1>6. CASE StoreCall(c)
  BY <1>6 DEF StoreCall, Goto, TypeOK, SetupStages, engineVars, native, models, inbox, world
<1>7. CASE AnnounceCall(c)
  <2>1. events' \in [Calls -> Seq(EventTypes)]
    BY <1>7, PublishedTyped DEF AnnounceCall, TypeOK, EventTypes
  <2>2. pc' \in [Calls -> SetupStages]
    BY <1>7 DEF AnnounceCall, Goto, TypeOK, SetupStages
  <2>3. QED
    BY <1>7, <2>1, <2>2 DEF AnnounceCall, TypeOK, EventTypes, engineVars, native, models, inbox, world
<1>8. QED
  BY <1>2, <1>3, <1>4, <1>5, <1>6, <1>7 DEF Arrive

LEMMA SetupTyped ==
  ASSUME TypeOK, NEW c \in Calls, Setup(c) \/ SetupTimeout(c) \/ Expire(c)
  PROVE  TypeOK'
<1> USE DEF quiet, engineVars, native, models, inbox, world
<1>1. UserOf[c] \in Users
  BY CallAssumption
<1>2. CASE CreateP2P(c)
  BY <1>1, <1>2 DEF CreateP2P, MayCreate, Fail, Goto, TypeOK, SetupStages
<1>3. CASE AcceptCall(c)
  BY <1>3 DEF AcceptCall, Fail, Goto, TypeOK, SetupStages
<1>4. CASE TakeAccepted(c)
  <2>1. cleanup' \in [Calls -> CleanupStages] /\ events' \in [Calls -> Seq(EventTypes)]
    BY <1>4, CleanupCallTyped DEF TakeAccepted, TypeOK, EventTypes
  <2>2. pc' \in [Calls -> SetupStages] /\ accepted' \subseteq Calls
    BY <1>4 DEF TakeAccepted, Fail, Goto, TypeOK, SetupStages
  <2>3. QED
    BY <1>4, <2>1, <2>2 DEF TakeAccepted, TypeOK, EventTypes
<1>5. CASE ConfirmCall(c)
  BY <1>5 DEF ConfirmCall, Fail, Goto, TypeOK, SetupStages
<1>6. CASE TakePhoneCall(c)
  <2>1. cleanup' \in [Calls -> CleanupStages] /\ events' \in [Calls -> Seq(EventTypes)]
    BY <1>6, CleanupCallTyped DEF TakePhoneCall, TypeOK, EventTypes
  <2>2. pc' \in [Calls -> SetupStages] /\ phoneCall' \subseteq Calls
    BY <1>6 DEF TakePhoneCall, Goto, TypeOK, SetupStages
  <2>3. QED
    BY <1>6, <2>1, <2>2 DEF TakePhoneCall, TypeOK, EventTypes
<1>7. CASE ConnectP2P(c)
  BY <1>7 DEF ConnectP2P, Fail, Goto, TypeOK, SetupStages
<1>8. CASE ReadConnState(c)
  <2>1. conn[c] \in Seq(ConnStates) /\ Len(conn[c]) <= ConnCap /\ ConnCap \in Nat /\ conn[c] # <<>>
    BY <1>8, CallAssumption DEF ReadConnState, TypeOK
  <2>2. Tail(conn[c]) \in Seq(ConnStates) /\ Len(Tail(conn[c])) <= ConnCap
    BY <2>1
  <2>3. conn' \in [Calls -> Seq(ConnStates)] /\ \A d \in Calls : Len(conn'[d]) <= ConnCap
    <3>1. conn' = [conn EXCEPT ![c] = Tail(conn[c])] /\ conn \in [Calls -> Seq(ConnStates)]
      BY <1>8 DEF ReadConnState, TypeOK
    <3>2. conn'[c] = Tail(conn[c]) /\ \A d \in Calls \ {c} : conn'[d] = conn[d]
      BY <3>1
    <3>3. \A d \in Calls : Len(conn'[d]) <= ConnCap
      BY <3>2, <2>2 DEF TypeOK
    <3>4. QED
      BY <3>1, <3>3, <2>2
  <2>4. events' \in [Calls -> Seq(EventTypes)]
    BY <1>8, PublishedTyped DEF ReadConnState, TypeOK, EventTypes
  <2>5. pc' \in [Calls -> SetupStages]
    BY <1>8 DEF ReadConnState, Fail, Goto, TypeOK, SetupStages
  <2>6. QED
    BY <1>8, <2>3, <2>4, <2>5 DEF ReadConnState, TypeOK, EventTypes
<1>9. CASE Abandon(c)
  BY <1>9 DEF Abandon, Goto, TypeOK, SetupStages
<1>10. CASE StartRealtime(c)
  BY <1>10 DEF StartRealtime, Fail, Goto, TypeOK, SetupStages
<1>11. CASE EndBridge(c) \/ Discard(c)
  <2>1. cleanup' \in [Calls -> CleanupStages] /\ events' \in [Calls -> Seq(EventTypes)]
    BY <1>11, CleanupCallTyped DEF EndBridge, Discard
  <2>2. pc' \in [Calls -> SetupStages]
    BY <1>11 DEF EndBridge, Discard, Goto, TypeOK, SetupStages
  <2>3. QED
    BY <1>11, <2>1, <2>2 DEF EndBridge, Discard, TypeOK, EventTypes
<1>12. CASE SetupTimeout(c)
  BY <1>12 DEF SetupTimeout, Fail, Goto, TypeOK, SetupStages
<1>13. CASE Expire(c)
  BY <1>13 DEF Expire, TypeOK
<1>14. QED
  BY <1>2, <1>3, <1>4, <1>5, <1>6, <1>7, <1>8, <1>9, <1>10, <1>11, <1>12, <1>13 DEF Setup

LEMMA TriggerTyped ==
  ASSUME TypeOK, NEW g \in Slots, Trigger(g)
  PROVE  TypeOK'
<1>1. ASSUME NEW op \in Ops, NEW cs \in SUBSET Calls, Spawn(g, op, cs)
      PROVE  TypeOK'
  BY <1>1 DEF Spawn, TypeOK, setupVars, engineVars, native, models, inbox, world
<1>2. {"phoneCall", "accepted", "signaling", "discard", "hangup", "data"} \cup ConnStates \subseteq Ops
  BY DEF Ops
<1>3. ASSUME NEW c \in Calls, NEW op \in {"phoneCall", "accepted", "signaling"},
             ReceiveUpdate(g, op, c)
      PROVE  TypeOK'
  BY <1>1, <1>2, <1>3 DEF ReceiveUpdate
<1>4. ASSUME NEW c \in Calls,
             \/ PeerHangsUp(g, c) \/ RequestHangup(g, c) \/ SignalingFails(g, c)
             \/ WatchdogFires(g, c)
      PROVE  TypeOK'
  BY <1>1, <1>2, <1>4 DEF PeerHangsUp, RequestHangup, SignalingFails, WatchdogFires
<1>5. ASSUME NEW u \in Users, NEW op \in ConnStates \cup {"data"}, NativeCallback(g, u, op)
      PROVE  TypeOK'
  <2>1. byUser[u] \cap byID \in SUBSET Calls
    BY DEF TypeOK
  <2>2. QED
    BY <1>1, <1>2, <1>5, <2>1 DEF NativeCallback
<1>6. QED
  BY <1>3, <1>4, <1>5 DEF Trigger

LEMMA ActTyped ==
  ASSUME TypeOK, NEW g \in Slots, NEW c \in Calls, Act(g, c)
  PROVE  TypeOK'
<1> USE DEF setupVars, engineVars, native, models, inbox, world
<1>1. /\ slot \in [Slots -> [op : Ops, calls : SUBSET Calls]] /\ slot[g] \in [op : Ops, calls : SUBSET Calls]
      /\ Idle \in [op : Ops, calls : SUBSET Calls]
      /\ [slot[g] EXCEPT !.op = "discard"] \in [op : Ops, calls : SUBSET Calls]
      /\ [slot[g] EXCEPT !.calls = slot[g].calls \ {c}] \in [op : Ops, calls : SUBSET Calls]
  BY DEF TypeOK, Ops, Idle
<1>2. ASSUME Finish(g) PROVE slot' \in [Slots -> [op : Ops, calls : SUBSET Calls]]
  BY <1>1, <1>2 DEF Finish
<1>3. CASE DeliverPhoneCall(g, c) \/ DeliverAccepted(g, c) \/ DeliverSignaling(g, c)
  <2>1. /\ UNCHANGED <<pc, outgoing, expired, cleanup, active, byID, byUser, native, models,
                      events, botStopped, conn>>
        /\ phoneCall' \subseteq Calls /\ accepted' \subseteq Calls /\ crashed' \in BOOLEAN
    BY <1>3 DEF DeliverPhoneCall, DeliverAccepted, DeliverSignaling, Offer, SendPanics, Done, TypeOK
  <2>2. slot' \in [Slots -> [op : Ops, calls : SUBSET Calls]]
    BY <1>1, <1>2, <1>3
       DEF DeliverPhoneCall, DeliverAccepted, DeliverSignaling, Offer, SendPanics, Done
  <2>3. QED
    BY <2>1, <2>2 DEF TypeOK
<1>4. CASE CallbackSends(g, c)
  <2>1. /\ UNCHANGED <<pc, outgoing, expired, cleanup, active, byID, byUser, native, models,
                      events, botStopped, phoneCall, accepted>>
        /\ crashed' \in BOOLEAN
    BY <1>4 DEF CallbackSends, SendPanics, Done, TypeOK
  <2>2. slot' \in [Slots -> [op : Ops, calls : SUBSET Calls]]
    <3>1. CASE Finish(g)
      BY <3>1, <1>2
    <3>2. CASE slot' = [slot EXCEPT ![g].calls = @ \ {c}]
      BY <3>2, <1>1
    <3>3. QED
      BY <3>1, <3>2, <1>4 DEF CallbackSends, SendPanics, Done
  <2>3. /\ conn \in [Calls -> Seq(ConnStates)] /\ conn[c] \in Seq(ConnStates) /\ ConnCap \in Nat
        /\ \A d \in Calls : Len(conn[d]) <= ConnCap
    BY CallAssumption DEF TypeOK
  <2>4. conn' \in [Calls -> Seq(ConnStates)] /\ \A d \in Calls : Len(conn'[d]) <= ConnCap
    <3>1. CASE conn' = conn
      BY <3>1, <2>3
    <3>2. CASE slot[g].op \in ConnStates /\ HasPlace(c) /\ conn' = [conn EXCEPT ![c] = Append(@, slot[g].op)]
      <4>1. Append(conn[c], slot[g].op) \in Seq(ConnStates) /\ Len(Append(conn[c], slot[g].op)) <= ConnCap
        BY <3>2, <2>3 DEF HasPlace
      <4>2. conn'[c] = Append(conn[c], slot[g].op) /\ \A d \in Calls \ {c} : conn'[d] = conn[d]
        BY <3>2, <2>3
      <4>3. \A d \in Calls : Len(conn'[d]) <= ConnCap
        BY <4>1, <4>2, <2>3
      <4>4. QED
        BY <3>2, <4>1, <4>3, <2>3
    <3>3. QED
      BY <3>1, <3>2, <1>4 DEF CallbackSends, SendPanics
  <2>5. QED
    BY <2>1, <2>2, <2>4 DEF TypeOK
<1>5. CASE DiscardSession(g, c) \/ HangupCall(g, c)
  <2>1. cleanup' \in [Calls -> CleanupStages] /\ events' \in [Calls -> Seq(EventTypes)]
    BY <1>5, CleanupCallTyped DEF DiscardSession, HangupCall, TypeOK, EventTypes
  <2>2. slot' \in [Slots -> [op : Ops, calls : SUBSET Calls]]
    BY <1>2, <1>5 DEF DiscardSession, HangupCall
  <2>3. QED
    BY <1>5, <2>1, <2>2 DEF DiscardSession, HangupCall, TypeOK, EventTypes
<1>6. QED
  BY <1>3, <1>4, <1>5 DEF Act

LEMMA TypeStep == TypeOK /\ [Next]_vars => TypeOK'
<1> SUFFICES ASSUME TypeOK, [Next]_vars PROVE TypeOK'
  OBVIOUS
<1>1. ASSUME NEW c \in Calls, Arrive(c) \/ Setup(c) \/ SetupTimeout(c) \/ Expire(c) \/ Cleanup(c)
      PROVE  TypeOK'
  BY <1>1, ArriveTyped, SetupTyped, CleanupTyped
<1>2. ASSUME NEW g \in Slots, Trigger(g) \/ \E c \in Calls : Act(g, c)
      PROVE  TypeOK'
  BY <1>2, TriggerTyped, ActTyped
<1>3. CASE Elsewhere \/ UNCHANGED vars
  <2>1. CASE StopBot
    BY <2>1 DEF StopBot, TypeOK, setupVars, engineVars, native, models, inbox
  <2>2. ASSUME NEW c \in Calls, ProviderEnds(c) PROVE TypeOK'
    BY <2>2 DEF ProviderEnds, TypeOK, setupVars, native, inbox, world
  <2>3. ASSUME NEW u \in Users, LateStop(u) PROVE TypeOK'
    BY <2>3 DEF LateStop, TypeOK, setupVars, models, inbox, world
  <2>4. CASE UNCHANGED vars
    BY <2>4 DEF vars, TypeOK
  <2>5. QED
    BY <1>3, <2>1, <2>2, <2>3, <2>4 DEF Elsewhere
<1>4. QED
  BY <1>1, <1>2, <1>3 DEF Next

\* Every reachable state of the calls is well typed; in particular connState never holds
\* more than its capacity, whatever the native callbacks send.
THEOREM TypeCorrect == Spec => []TypeOK
<1>1. QED
  BY TypeInit, TypeStep, PTL DEF Spec

-----------------------------------------------------------------------------
(* What a step can do.                                                     *)

\* What happens elsewhere stops the bot, or takes a native call or a model session.
LEMMA ElsewhereFrame ==
  ASSUME Elsewhere \/ UNCHANGED vars
  PROVE  /\ UNCHANGED <<pc, outgoing, expired, cleanup, active, byID, byUser, events, phoneCall,
                        accepted, conn, slot, crashed>>
         /\ botStopped => botStopped'
         /\ engine' \subseteq engine
<1>1. CASE StopBot \/ UNCHANGED vars
  BY <1>1 DEF StopBot, vars, setupVars, engineVars, native, inbox
<1>2. ASSUME NEW c \in Calls, ProviderEnds(c)
      PROVE  UNCHANGED <<pc, outgoing, expired, cleanup, active, byID, byUser, events, phoneCall,
                         accepted, conn, slot, crashed, botStopped, engine>>
  BY <1>2 DEF ProviderEnds, setupVars, native, inbox, world
<1>3. ASSUME NEW u \in Users, LateStop(u)
      PROVE  /\ UNCHANGED <<pc, outgoing, expired, cleanup, active, byID, byUser, events, phoneCall,
                            accepted, conn, slot, crashed, botStopped>>
             /\ engine' \subseteq engine
  BY <1>3 DEF LateStop, setupVars, inbox, world
<1>4. QED
  BY <1>1, <1>2, <1>3 DEF Elsewhere

\* The stages at which a session has not been made.
Unregistered == {"idle", "refused", "dialling", "accepted"}

\* A setup goroutine moves only by its own steps: to the end with the cleanup begun or
\* the context done, into the bridge with a realtime session, into the wait for a
\* connection with a native call; from the bridge only to the end; and it makes no
\* session but by registering it.
MovesOf(c) ==
  \/ pc'[c] = pc[c]
  \/ pc[c] \in Unregistered /\ pc'[c] \in Unregistered
  \/ RegisterSession(c) /\ pc'[c] = "registered"
  \/ /\ pc[c] \notin Unregistered /\ pc'[c] \notin Unregistered
     /\ pc[c] # "done"
     /\ pc[c] = "bridge" => pc'[c] = "done"
     /\ pc'[c] = "done" =>
          \/ cleanup'[c] # "none"
          \/ CtxDone(c) /\ pc[c] \in {"waitAccepted", "waitCall", "connWait"}
     /\ pc'[c] = "bridge" => StartRealtime(c) /\ pc[c] = "realtime" /\ c \in realtime'
     /\ pc'[c] = "connWait" => ConnectP2P(c) /\ UserOf[c] \in engine
     /\ pc'[c] = "realtime" => ReadConnState(c) /\ pc[c] = "connWait"

LEMMA StepMoves ==
  ASSUME TypeOK, [Next]_vars, NEW c \in Calls
  PROVE  MovesOf(c)
<1> USE DEF MovesOf
<1>1. /\ pc \in [Calls -> SetupStages] /\ cleanup \in [Calls -> CleanupStages]
      /\ realtime \subseteq Calls
  BY DEF TypeOK
<1>2. ASSUME NEW d \in Calls, NEW stage, Goto(d, stage)
      PROVE  pc'[d] = stage /\ (d # c => pc'[c] = pc[c])
  BY <1>1, <1>2 DEF Goto
<1>3. ASSUME NEW d \in Calls, CleanupCall(d) PROVE cleanup'[d] # "none"
  BY <1>1, <1>3 DEF CleanupCall
<1>4. ASSUME NEW d \in Calls, Arrive(d) PROVE MovesOf(c)
  <2>1. CASE ReceiveCall(d)
    BY <2>1, <1>2 DEF ReceiveCall, At, Unregistered
  <2>2. CASE Dial(d)
    BY <2>2, <1>2 DEF Dial, At, Unregistered
  <2>3. CASE RequestCall(d)
    BY <2>3, <1>2 DEF RequestCall, At, Unregistered
  <2>4. CASE RegisterSession(d)
    BY <2>4, <1>2 DEF RegisterSession
  <2>5. CASE StoreCall(d)
    BY <2>5, <1>2 DEF StoreCall, At, Unregistered
  <2>6. CASE AnnounceCall(d)
    BY <2>6, <1>2 DEF AnnounceCall, At, Unregistered
  <2>7. QED
    BY <1>4, <2>1, <2>2, <2>3, <2>4, <2>5, <2>6 DEF Arrive
<1>5. ASSUME NEW d \in Calls, Setup(d) \/ SetupTimeout(d) \/ Expire(d) PROVE MovesOf(c)
  <2>1. CASE CreateP2P(d)
    BY <2>1, <1>2 DEF CreateP2P, Fail, At, Unregistered
  <2>2. CASE AcceptCall(d)
    BY <2>2, <1>2 DEF AcceptCall, Fail, At, Unregistered
  <2>3. CASE TakeAccepted(d)
    BY <2>3, <1>2, <1>3 DEF TakeAccepted, Fail, At, Unregistered
  <2>4. CASE ConfirmCall(d)
    BY <2>4, <1>2 DEF ConfirmCall, Fail, At, Unregistered
  <2>5. CASE TakePhoneCall(d)
    BY <2>5, <1>2, <1>3 DEF TakePhoneCall, ChannelsClosed, At, Unregistered
  <2>6. CASE ConnectP2P(d)
    BY <2>6, <1>2 DEF ConnectP2P, Fail, At, Unregistered
  <2>7. CASE ReadConnState(d)
    <3>1. \/ pc' = pc
          \/ /\ pc[d] = "connWait" /\ pc'[d] \in {"realtime", "discarding"}
             /\ d # c => pc'[c] = pc[c]
      BY <2>7, <1>2 DEF ReadConnState, Fail, At
    <3>2. QED
      BY <3>1, <2>7 DEF Unregistered
  <2>8. CASE Abandon(d)
    BY <2>8, <1>2 DEF Abandon, At, Unregistered
  <2>9. CASE StartRealtime(d)
    BY <2>9, <1>1, <1>2 DEF StartRealtime, Fail, At, Unregistered
  <2>10. CASE EndBridge(d) \/ Discard(d)
    BY <2>10, <1>2, <1>3 DEF EndBridge, Discard, At, Unregistered
  <2>11. CASE SetupTimeout(d)
    BY <2>11, <1>2 DEF SetupTimeout, Fail, At, Unregistered
  <2>12. CASE Expire(d)
    BY <2>12 DEF Expire
  <2>13. QED
    BY <1>5, <2>1, <2>2, <2>3, <2>4, <2>5, <2>6, <2>7, <2>8, <2>9, <2>10, <2>11, <2>12 DEF Setup
<1>6. ASSUME NEW d \in Calls, Cleanup(d) PROVE pc' = pc
  BY <1>6 DEF Cleanup, CloseChannels, CancelCtx, UnregisterSession, CloseSession, ForgetCall,
              CloseHub, DestroyEngine, Stage, setupVars
<1>7. ASSUME NEW g \in Slots, Trigger(g) PROVE pc' = pc
  BY <1>7 DEF Trigger, ReceiveUpdate, PeerHangsUp, RequestHangup, SignalingFails, WatchdogFires,
              NativeCallback, Spawn, setupVars
<1>8. ASSUME NEW g \in Slots, NEW d \in Calls, Act(g, d) PROVE pc' = pc
  BY <1>8 DEF Act, DeliverPhoneCall, DeliverAccepted, DeliverSignaling, CallbackSends,
              DiscardSession, HangupCall, Offer, SendPanics, Done, setupVars
<1>9. CASE Elsewhere \/ UNCHANGED vars
  BY <1>9, ElsewhereFrame
<1>10. QED
  BY <1>4, <1>5, <1>6, <1>7, <1>8, <1>9 DEF Next

\* The cleanup of a call begins once, with call_ended, and only goes forward; the other
\* events leave it alone.
EndsOf(c) ==
  \/ cleanup'[c] = cleanup[c] /\ events'[c] = events[c]
  \/ cleanup[c] = "none" /\ cleanup'[c] = "ended" /\ events'[c] = Append(events[c], "call_ended")
  \/ /\ cleanup'[c] = cleanup[c]
     /\ \E t \in {"call_started", "call_connected"} : events'[c] = Append(events[c], t)
  \/ /\ cleanup[c] # "none" /\ cleanup'[c] # "none"
     /\ Cancelled(c) => Cancelled(c)'
     /\ events'[c] = events[c]

LEMMA StepEnds ==
  ASSUME TypeOK, [Next]_vars, NEW c \in Calls
  PROVE  EndsOf(c)
<1>1. cleanup \in [Calls -> CleanupStages] /\ events \in [Calls -> Seq(EventTypes)]
  BY DEF TypeOK, EventTypes
<1>2. ASSUME NEW d \in Calls, CleanupCall(d) PROVE EndsOf(c)
  BY <1>1, <1>2 DEF CleanupCall, EndsOf
<1>3. ASSUME NEW d \in Calls, NEW t \in {"call_started", "call_connected"},
             events' = [events EXCEPT ![d] = Published(d, t)], cleanup' = cleanup
      PROVE  EndsOf(c)
  BY <1>1, <1>3 DEF Published, EndsOf
<1>4. ASSUME UNCHANGED <<cleanup, events>> PROVE EndsOf(c)
  BY <1>4 DEF EndsOf
<1>5. ASSUME NEW d \in Calls, Arrive(d) PROVE EndsOf(c)
  <2>1. CASE AnnounceCall(d)
    BY <2>1, <1>3 DEF AnnounceCall
  <2>2. CASE ~AnnounceCall(d)
    BY <2>2, <1>4, <1>5 DEF Arrive, ReceiveCall, Dial, RequestCall, RegisterSession, StoreCall
  <2>3. QED
    BY <2>1, <2>2
<1>6. ASSUME NEW d \in Calls, Setup(d) \/ SetupTimeout(d) \/ Expire(d) PROVE EndsOf(c)
  <2>1. CASE TakeAccepted(d) \/ TakePhoneCall(d) \/ EndBridge(d) \/ Discard(d)
    BY <2>1, <1>2, <1>4 DEF TakeAccepted, TakePhoneCall, EndBridge, Discard
  <2>2. CASE ReadConnState(d)
    <3>1. \/ UNCHANGED <<cleanup, events>>
          \/ events' = [events EXCEPT ![d] = Published(d, "call_connected")] /\ cleanup' = cleanup
      BY <2>2 DEF ReadConnState
    <3>2. QED
      BY <3>1, <1>3, <1>4
  <2>3. CASE \/ CreateP2P(d) \/ AcceptCall(d) \/ ConfirmCall(d) \/ ConnectP2P(d) \/ Abandon(d)
             \/ StartRealtime(d) \/ SetupTimeout(d) \/ Expire(d)
    BY <2>3, <1>4 DEF CreateP2P, AcceptCall, ConfirmCall, ConnectP2P, Abandon, StartRealtime,
                      SetupTimeout, Expire
  <2>4. QED
    BY <1>6, <2>1, <2>2, <2>3 DEF Setup
<1>7. ASSUME NEW d \in Calls, NEW from, NEW to, Stage(d, from, to), events' = events,
             from \notin {"none"}, to \notin {"none", "ended", "closed"} \/ from = "ended" \/ from = "closed",
             to # "none", from = "closed" => to = "cancelled"
      PROVE  EndsOf(c)
  BY <1>1, <1>7 DEF Stage, EndsOf, Cancelled
<1>8. ASSUME NEW d \in Calls, Cleanup(d) PROVE EndsOf(c)
  <2>1. CASE CloseChannels(d) \/ CancelCtx(d)
    BY <2>1, <1>7 DEF CloseChannels, CancelCtx
  <2>2. CASE UnregisterSession(d) \/ CloseSession(d) \/ ForgetCall(d) \/ CloseHub(d) \/ DestroyEngine(d)
    BY <2>2, <1>7 DEF UnregisterSession, CloseSession, ForgetCall, CloseHub, DestroyEngine
  <2>3. QED
    BY <1>8, <2>1, <2>2 DEF Cleanup
<1>9. ASSUME NEW g \in Slots, Trigger(g) PROVE EndsOf(c)
  BY <1>4, <1>9 DEF Trigger, ReceiveUpdate, PeerHangsUp, RequestHangup, SignalingFails, WatchdogFires,
              NativeCallback, Spawn
<1>10. ASSUME NEW g \in Slots, NEW d \in Calls, Act(g, d) PROVE EndsOf(c)
  <2>1. CASE DiscardSession(g, d) \/ HangupCall(g, d)
    BY <2>1, <1>2, <1>4 DEF DiscardSession, HangupCall
  <2>2. CASE \/ DeliverPhoneCall(g, d) \/ DeliverAccepted(g, d) \/ DeliverSignaling(g, d)
             \/ CallbackSends(g, d)
    BY <2>2, <1>4 DEF DeliverPhoneCall, DeliverAccepted, DeliverSignaling, CallbackSends,
                      Offer, SendPanics, Done
  <2>3. QED
    BY <1>10, <2>1, <2>2 DEF Act
<1>11. CASE Elsewhere \/ UNCHANGED vars
  BY <1>4, <1>11, ElsewhereFrame
<1>12. QED
  BY <1>5, <1>6, <1>8, <1>9, <1>10, <1>11 DEF Next

-----------------------------------------------------------------------------
(* The end of a call is announced once.                                    *)

\* The places of call_ended in the events of c.
Ends(c) == {i \in DOMAIN events[c] : events[c][i] = "call_ended"}

LEMMA EndsAppend ==
  ASSUME TypeOK, NEW c \in Calls, NEW t \in EventTypes, events'[c] = Append(events[c], t)
  PROVE  /\ t = "call_ended" => Ends(c)' = Ends(c) \cup {Len(events[c]) + 1}
         /\ t # "call_ended" => Ends(c)' = Ends(c)
<1>1. events[c] \in Seq(EventTypes)
  BY DEF TypeOK, EventTypes
<1>2. /\ Len(events[c]) \in Nat
      /\ DOMAIN events[c] = 1..Len(events[c])
      /\ DOMAIN events'[c] = 1..(Len(events[c]) + 1)
      /\ \A i \in 1..Len(events[c]) : events'[c][i] = events[c][i]
      /\ events'[c][Len(events[c]) + 1] = t
  BY <1>1
<1>3. QED
  BY <1>2 DEF Ends

EndInv == \A c \in Calls : /\ \A i, j \in Ends(c) : i = j
                           /\ Ends(c) # {} <=> cleanup[c] # "none"

LEMMA EndStep == TypeOK /\ EndInv /\ [Next]_vars => EndInv'
<1> SUFFICES ASSUME TypeOK, EndInv, [Next]_vars, NEW c \in Calls
             PROVE  /\ \A i, j \in Ends(c)' : i = j
                    /\ Ends(c)' # {} <=> cleanup'[c] # "none"
  BY DEF EndInv
<1>1. CASE events'[c] = events[c] /\ (cleanup[c] = "none" <=> cleanup'[c] = "none")
  <2>1. Ends(c)' = Ends(c)
    BY <1>1 DEF Ends
  <2>2. QED
    BY <1>1, <2>1 DEF EndInv
<1>2. CASE cleanup[c] = "none" /\ cleanup'[c] = "ended" /\ events'[c] = Append(events[c], "call_ended")
  BY <1>2, EndsAppend DEF EndInv, EventTypes
<1>3. CASE /\ cleanup'[c] = cleanup[c]
           /\ \E t \in {"call_started", "call_connected"} : events'[c] = Append(events[c], t)
  <2>1. PICK t \in {"call_started", "call_connected"} : events'[c] = Append(events[c], t)
    BY <1>3
  <2>2. Ends(c)' = Ends(c)
    BY <2>1, EndsAppend DEF EventTypes
  <2>3. QED
    BY <1>3, <2>2 DEF EndInv
<1>4. QED
  BY <1>1, <1>2, <1>3, StepEnds DEF EndsOf

\* However many goroutines race for the cleanup of a call, its end is announced to the
\* subscribers once, and exactly when the cleanup has begun.
THEOREM EndAnnouncedOnce == Spec => []EndedOnce
<1>1. Init => EndInv
  <2>1. SUFFICES ASSUME Init, NEW c \in Calls PROVE Ends(c) = {} /\ cleanup[c] = "none"
    BY DEF EndInv
  <2>2. events[c] = <<>> /\ cleanup[c] = "none"
    BY <2>1 DEF Init
  <2>3. QED
    BY <2>2 DEF Ends
<1>2. EndInv => EndedOnce
  <2>1. SUFFICES ASSUME EndInv, NEW c \in Calls
                 PROVE  /\ \A i, j \in DOMAIN events[c] :
                              events[c][i] = "call_ended" /\ events[c][j] = "call_ended" => i = j
                        /\ (\E i \in DOMAIN events[c] : events[c][i] = "call_ended")
                             <=> cleanup[c] # "none"
    BY DEF EndedOnce
  <2>2. /\ \A i, j \in Ends(c) : i = j
        /\ Ends(c) # {} <=> cleanup[c] # "none"
    BY <2>1 DEF EndInv
  <2>3. QED
    BY <2>2 DEF Ends
<1>3. QED
  BY <1>1, <1>2, EndStep, TypeInit, TypeStep, PTL DEF Spec

-----------------------------------------------------------------------------
(* A setup goroutine that is gone.                                         *)

\* Only a bridge outlives callMaxDuration, and what follows it is the end.
AbandonInv == \A c \in Calls : /\ pc[c] = "done" /\ cleanup[c] = "none" => botStopped
                               /\ c \in expired => pc[c] \in {"bridge", "done"}

LEMMA ExpiredFrame ==
  ASSUME [Next]_vars
  PROVE  /\ expired' = expired \/ \E c \in Calls : pc[c] = "bridge" /\ pc' = pc /\ expired' = expired \cup {c}
         /\ botStopped => botStopped'
<1>1. ASSUME NEW c \in Calls, Arrive(c) PROVE expired' = expired /\ botStopped' = botStopped
  BY <1>1 DEF Arrive, ReceiveCall, Dial, RequestCall, RegisterSession, StoreCall, AnnounceCall, world
<1>2. ASSUME NEW c \in Calls, Setup(c) \/ SetupTimeout(c)
      PROVE  expired' = expired /\ botStopped' = botStopped
  BY <1>2 DEF Setup, CreateP2P, AcceptCall, TakeAccepted, ConfirmCall, TakePhoneCall, ConnectP2P,
              ReadConnState, Abandon, StartRealtime, EndBridge, Discard, SetupTimeout, quiet, world
<1>3. ASSUME NEW c \in Calls, Expire(c)
      PROVE  pc[c] = "bridge" /\ pc' = pc /\ expired' = expired \cup {c} /\ botStopped' = botStopped
  BY <1>3 DEF Expire, At, world
<1>4. ASSUME NEW c \in Calls, Cleanup(c) PROVE expired' = expired /\ botStopped' = botStopped
  BY <1>4 DEF Cleanup, CloseChannels, CancelCtx, UnregisterSession, CloseSession, ForgetCall,
              CloseHub, DestroyEngine, Stage, setupVars, world
<1>5. ASSUME NEW g \in Slots, Trigger(g) PROVE expired' = expired /\ botStopped' = botStopped
  BY <1>5 DEF Trigger, ReceiveUpdate, PeerHangsUp, RequestHangup, SignalingFails, WatchdogFires,
              NativeCallback, Spawn, setupVars, world
<1>6. ASSUME NEW g \in Slots, NEW c \in Calls, Act(g, c)
      PROVE  expired' = expired /\ botStopped' = botStopped
  BY <1>6 DEF Act, DeliverPhoneCall, DeliverAccepted, DeliverSignaling, CallbackSends,
              DiscardSession, HangupCall, Offer, SendPanics, Done, setupVars, world
<1>7. CASE Elsewhere \/ UNCHANGED vars
  BY <1>7, ElsewhereFrame
<1>8. QED
  BY <1>1, <1>2, <1>3, <1>4, <1>5, <1>6, <1>7 DEF Next

LEMMA AbandonStep == TypeOK /\ AbandonInv /\ [Next]_vars => AbandonInv'
<1> SUFFICES ASSUME TypeOK, AbandonInv, [Next]_vars, NEW c \in Calls
             PROVE  /\ pc'[c] = "done" /\ cleanup'[c] = "none" => botStopped'
                    /\ c \in expired' => pc'[c] \in {"bridge", "done"}
  BY DEF AbandonInv
<1>1. /\ pc[c] = "done" /\ cleanup[c] = "none" => botStopped
      /\ c \in expired => pc[c] \in {"bridge", "done"}
  BY DEF AbandonInv
<1>2. cleanup'[c] = "none" => cleanup[c] = "none"
  BY StepEnds DEF EndsOf
<1>3. botStopped => botStopped'
  BY ExpiredFrame
<1>4. pc'[c] = "done" /\ cleanup'[c] = "none" => botStopped'
  <2>1. CASE pc'[c] = pc[c]
    BY <2>1, <1>1, <1>2, <1>3
  <2>2. CASE pc'[c] # pc[c] /\ pc'[c] = "done" /\ cleanup'[c] = "none"
    <3>1. CtxDone(c) /\ pc[c] \in {"waitAccepted", "waitCall", "connWait"}
      BY <2>2, StepMoves DEF MovesOf, Unregistered
    <3>2. c \notin expired /\ ~Cancelled(c)
      BY <3>1, <2>2, <1>1, <1>2 DEF Cancelled
    <3>3. QED
      BY <3>1, <3>2, <1>3 DEF CtxDone
  <2>3. QED
    BY <2>1, <2>2
<1>5. c \in expired' => pc'[c] \in {"bridge", "done"}
  <2>1. CASE c \in expired' /\ c \notin expired
    BY <2>1, ExpiredFrame
  <2>2. CASE c \in expired
    <3>1. pc[c] \in {"bridge", "done"}
      BY <2>2, <1>1
    <3>2. RegisterSession(c) => pc[c] = "accepted"
      BY DEF RegisterSession, At
    <3>3. QED
      BY <3>1, <3>2, StepMoves DEF MovesOf, Unregistered
  <2>3. QED
    BY <2>1, <2>2
<1>6. QED
  BY <1>4, <1>5

\* Every setup goroutine that has returned has seen to the cleanup of its call, unless
\* the bot was stopped: no timeout, failure or lost race leaves a session behind.
THEOREM NoSetupAbandons == Spec => []AbandonedOnlyByStop
<1>1. Init => AbandonInv
  BY DEF Init, AbandonInv
<1>2. AbandonInv => AbandonedOnlyByStop
  BY DEF AbandonInv, AbandonedOnlyByStop
<1>3. QED
  BY <1>1, <1>2, AbandonStep, TypeInit, TypeStep, PTL DEF Spec

-----------------------------------------------------------------------------
(* The registries.                                                         *)

\* The registries agree, and hold every session between its registration and the
\* cancellation of its context.
RegistryInv ==
  /\ \A u \in Users : byUser[u] = {c \in byID : UserOf[c] = u}
  /\ \A c \in Calls : /\ c \in active => pc[c] \notin Unregistered
                      /\ pc[c] \notin Unregistered => c \in byID \/ Cancelled(c)

\* Registration and unregistration are the only steps that touch a registry.
LEMMA RegistryFrame ==
  ASSUME [Next]_vars
  PROVE  \/ \E c \in Calls : RegisterSession(c) \/ UnregisterSession(c)
         \/ UNCHANGED <<byID, byUser>>
<1> USE DEF engineVars, native, models
<1>1. ASSUME NEW c \in Calls, Arrive(c) PROVE RegisterSession(c) \/ UNCHANGED <<byID, byUser>>
  BY <1>1 DEF Arrive, ReceiveCall, Dial, RequestCall, StoreCall, AnnounceCall
<1>2. ASSUME NEW c \in Calls, Setup(c) \/ SetupTimeout(c) \/ Expire(c)
      PROVE  UNCHANGED <<byID, byUser>>
  BY <1>2 DEF Setup, CreateP2P, AcceptCall, TakeAccepted, ConfirmCall, TakePhoneCall, ConnectP2P,
              ReadConnState, Abandon, StartRealtime, EndBridge, Discard, SetupTimeout, Expire
<1>3. ASSUME NEW c \in Calls, Cleanup(c) PROVE UnregisterSession(c) \/ UNCHANGED <<byID, byUser>>
  BY <1>3 DEF Cleanup, CloseChannels, CancelCtx, CloseSession, ForgetCall, CloseHub, DestroyEngine
<1>4. ASSUME NEW g \in Slots, Trigger(g) PROVE UNCHANGED <<byID, byUser>>
  BY <1>4 DEF Trigger, ReceiveUpdate, PeerHangsUp, RequestHangup, SignalingFails, WatchdogFires,
              NativeCallback, Spawn
<1>5. ASSUME NEW g \in Slots, NEW c \in Calls, Act(g, c) PROVE UNCHANGED <<byID, byUser>>
  BY <1>5 DEF Act, DeliverPhoneCall, DeliverAccepted, DeliverSignaling, CallbackSends,
              DiscardSession, HangupCall, Offer, SendPanics, Done
<1>6. CASE Elsewhere \/ UNCHANGED vars
  BY <1>6, ElsewhereFrame
<1>7. QED
  BY <1>1, <1>2, <1>3, <1>4, <1>5, <1>6 DEF Next

\* A call becomes active only by being stored.
LEMMA ActiveFrame ==
  ASSUME [Next]_vars, NEW c \in Calls
  PROVE  c \in active' => c \in active \/ StoreCall(c)
<1>1. ASSUME NEW d \in Calls, Arrive(d) PROVE c \in active' => c \in active \/ StoreCall(c)
  BY <1>1 DEF Arrive, ReceiveCall, Dial, RequestCall, RegisterSession, StoreCall, AnnounceCall
<1>2. ASSUME NEW d \in Calls, Setup(d) \/ SetupTimeout(d) \/ Expire(d) PROVE active' = active
  BY <1>2 DEF Setup, CreateP2P, AcceptCall, TakeAccepted, ConfirmCall, TakePhoneCall, ConnectP2P,
              ReadConnState, Abandon, StartRealtime, EndBridge, Discard, SetupTimeout, Expire
<1>3. ASSUME NEW d \in Calls, Cleanup(d) PROVE active' \subseteq active
  BY <1>3 DEF Cleanup, CloseChannels, CancelCtx, UnregisterSession, CloseSession, ForgetCall,
              CloseHub, DestroyEngine
<1>4. ASSUME NEW g \in Slots, Trigger(g) PROVE active' = active
  BY <1>4 DEF Trigger, ReceiveUpdate, PeerHangsUp, RequestHangup, SignalingFails, WatchdogFires,
              NativeCallback, Spawn
<1>5. ASSUME NEW g \in Slots, NEW d \in Calls, Act(g, d) PROVE active' = active
  BY <1>5 DEF Act, DeliverPhoneCall, DeliverAccepted, DeliverSignaling, CallbackSends,
              DiscardSession, HangupCall, Offer, SendPanics, Done
<1>6. CASE Elsewhere \/ UNCHANGED vars
  BY <1>6, ElsewhereFrame
<1>7. QED
  BY <1>1, <1>2, <1>3, <1>4, <1>5, <1>6 DEF Next

LEMMA RegistryStep == TypeOK /\ RegistryInv /\ [Next]_vars => RegistryInv'
<1> SUFFICES ASSUME TypeOK, RegistryInv, [Next]_vars PROVE RegistryInv'
  OBVIOUS
<1>1. ASSUME NEW u \in Users PROVE byUser'[u] = {c \in byID' : UserOf[c] = u}
  <2>1. /\ byUser \in [Users -> SUBSET Calls] /\ byID \subseteq Calls
        /\ byUser[u] = {c \in byID : UserOf[c] = u}
    BY DEF TypeOK, RegistryInv
  <2>2. ASSUME NEW c \in Calls, RegisterSession(c) PROVE byUser'[u] = {d \in byID' : UserOf[d] = u}
    <3>1. byID' = byID \cup {c} /\ byUser' = [byUser EXCEPT ![UserOf[c]] = @ \cup {c}]
      BY <2>2 DEF RegisterSession
    <3>2. byUser'[u] = IF UserOf[c] = u THEN byUser[u] \cup {c} ELSE byUser[u]
      BY <2>1, <3>1
    <3>3. QED
      BY <2>1, <3>1, <3>2
  <2>3. ASSUME NEW c \in Calls, UnregisterSession(c) PROVE byUser'[u] = {d \in byID' : UserOf[d] = u}
    <3>1. byID' = byID \ {c} /\ byUser' = [byUser EXCEPT ![UserOf[c]] = @ \ {c}]
      BY <2>3 DEF UnregisterSession
    <3>2. byUser'[u] = IF UserOf[c] = u THEN byUser[u] \ {c} ELSE byUser[u]
      BY <2>1, <3>1
    <3>3. QED
      BY <2>1, <3>1, <3>2
  <2>4. QED
    BY <2>1, <2>2, <2>3, RegistryFrame
<1>2. ASSUME NEW c \in Calls, c \in active' PROVE pc'[c] \notin Unregistered
  <2>1. c \in active \/ StoreCall(c)
    BY <1>2, ActiveFrame
  <2>2. pc[c] \notin Unregistered
    BY <2>1 DEF StoreCall, At, RegistryInv, Unregistered
  <2>3. QED
    BY <2>2, StepMoves DEF MovesOf, Unregistered
<1>3. ASSUME NEW c \in Calls, pc'[c] \notin Unregistered PROVE c \in byID' \/ Cancelled(c)'
  <2>1. Cancelled(c) => Cancelled(c)'
    BY StepEnds DEF EndsOf, Cancelled
  <2>2. CASE RegisterSession(c)
    BY <2>2 DEF RegisterSession
  <2>3. CASE ~RegisterSession(c)
    <3>1. pc[c] \notin Unregistered
      BY <1>3, <2>3, StepMoves DEF MovesOf
    <3>2. c \in byID \/ Cancelled(c)
      BY <3>1 DEF RegistryInv
    <3>3. CASE \E d \in Calls : UnregisterSession(d)
      <4>1. PICK d \in Calls : UnregisterSession(d)
        BY <3>3
      <4>2. byID' = byID \ {d} /\ cleanup' = [cleanup EXCEPT ![d] = "unregistered"]
        BY <4>1 DEF UnregisterSession, Stage
      <4>3. d = c => Cancelled(c)'
        BY <4>2 DEF Cancelled, TypeOK
      <4>4. QED
        BY <3>2, <4>2, <4>3, <2>1
    <3>4. CASE ~\E d \in Calls : UnregisterSession(d)
      <4>1. byID \subseteq byID'
        BY <3>4, RegistryFrame DEF RegisterSession
      <4>2. QED
        BY <3>2, <4>1, <2>1
    <3>5. QED
      BY <3>3, <3>4
  <2>4. QED
    BY <2>2, <2>3
<1>4. QED
  BY <1>1, <1>2, <1>3 DEF RegistryInv

\* The two registries name the same sessions, and a native callback finds every live
\* call: a session is in them from its registration until its context is cancelled.
THEOREM RegistriesConsistent == Spec => []RegistriesAgree
<1>1. Init => RegistryInv
  BY DEF Init, RegistryInv, Unregistered
<1>2. RegistryInv => RegistriesAgree
  BY DEF RegistryInv, RegistriesAgree
<1>3. QED
  BY <1>1, <1>2, RegistryStep, TypeInit, TypeStep, PTL DEF Spec

-----------------------------------------------------------------------------
(* The life of a call as its subscribers see it.                           *)

\* The stages after call_started and after call_connected were published, or not published
\* because the hub had been closed.
Told == SetupStages \ (Unborn \cup {"stored"})
Late == {"realtime", "bridge", "discarding", "done"}

\* A setup goroutine that stays on its side of StoreCall and of AnnounceCall, and does not
\* come back from the connection.
Steady(c) ==
  \/ pc'[c] = pc[c]
  \/ pc[c] \in Unborn /\ pc'[c] \in Unborn
  \/ pc[c] \in Told /\ pc'[c] \in Told /\ (pc[c] \in Late => pc'[c] \in Late)

LEMMA GotoIsSteady ==
  ASSUME TypeOK, NEW d \in Calls, NEW stage \in SetupStages, Goto(d, stage),
         \/ pc[d] \in Unborn /\ stage \in Unborn
         \/ pc[d] \in Told /\ stage \in Told /\ (pc[d] \in Late => stage \in Late)
  PROVE  \A c \in Calls : Steady(c)
<1>1. \A c \in Calls : pc'[c] = IF c = d THEN stage ELSE pc[c]
  BY DEF Goto, TypeOK
<1>2. QED
  BY <1>1 DEF Steady

\* Setting up, but for what is published, is steady.
LEMMA SetupIsSteady ==
  ASSUME TypeOK, NEW d \in Calls,
         Setup(d) \/ SetupTimeout(d) \/ Expire(d)
  PROVE  /\ \A c \in Calls : Steady(c)
         /\ active' = active
         /\ \/ UNCHANGED <<cleanup, events>>
            \/ CleanupCall(d) /\ pc[d] \notin Unborn
            \/ /\ events' = [events EXCEPT ![d] = Published(d, "call_connected")]
               /\ cleanup' = cleanup
               /\ pc[d] = "connWait" /\ pc'[d] = "realtime"
<1> USE DEF Fail, At, SetupStages, Unborn, Told, Late
<1>1. CASE CreateP2P(d)
  BY <1>1, GotoIsSteady DEF CreateP2P
<1>2. CASE AcceptCall(d)
  BY <1>2, GotoIsSteady DEF AcceptCall
<1>3. CASE TakeAccepted(d)
  BY <1>3, GotoIsSteady DEF TakeAccepted
<1>4. CASE ConfirmCall(d)
  BY <1>4, GotoIsSteady DEF ConfirmCall
<1>5. CASE TakePhoneCall(d)
  BY <1>5, GotoIsSteady DEF TakePhoneCall
<1>6. CASE ConnectP2P(d)
  BY <1>6, GotoIsSteady DEF ConnectP2P
<1>7. CASE ReadConnState(d)
  <2>1. active' = active /\ cleanup' = cleanup /\ pc[d] = "connWait"
    BY <1>7 DEF ReadConnState
  <2>2. \/ Goto(d, "realtime") /\ events' = [events EXCEPT ![d] = Published(d, "call_connected")]
        \/ pc' = pc /\ events' = events
        \/ Goto(d, "discarding") /\ events' = events
    BY <1>7 DEF ReadConnState
  <2>3. Goto(d, "realtime") => pc'[d] = "realtime"
    BY DEF Goto, TypeOK
  <2>4. pc' = pc => \A c \in Calls : Steady(c)
    BY DEF Steady
  <2>5. QED
    BY <2>1, <2>2, <2>3, <2>4, GotoIsSteady
<1>8. CASE Abandon(d)
  BY <1>8, GotoIsSteady DEF Abandon
<1>9. CASE StartRealtime(d)
  BY <1>9, GotoIsSteady DEF StartRealtime
<1>10. CASE EndBridge(d)
  BY <1>10, GotoIsSteady DEF EndBridge
<1>11. CASE Discard(d)
  BY <1>11, GotoIsSteady DEF Discard
<1>12. CASE SetupTimeout(d)
  BY <1>12, GotoIsSteady DEF SetupTimeout
<1>13. CASE Expire(d)
  BY <1>13 DEF Expire, Steady
<1>14. QED
  BY <1>1, <1>2, <1>3, <1>4, <1>5, <1>6, <1>7, <1>8, <1>9, <1>10, <1>11, <1>12, <1>13 DEF Setup

\* Before a call is stored its setup does no more than move, and register it.
LEMMA ArriveIsSteady ==
  ASSUME TypeOK, NEW d \in Calls, Arrive(d), ~StoreCall(d), ~AnnounceCall(d)
  PROVE  (\A c \in Calls : Steady(c)) /\ UNCHANGED <<active, cleanup, events>>
<1> USE DEF At, SetupStages, Unborn, Told, Late
<1>1. CASE ReceiveCall(d)
  BY <1>1, GotoIsSteady DEF ReceiveCall
<1>2. CASE Dial(d)
  BY <1>2, GotoIsSteady DEF Dial
<1>3. CASE RequestCall(d)
  BY <1>3, GotoIsSteady DEF RequestCall
<1>4. CASE RegisterSession(d)
  BY <1>4, GotoIsSteady DEF RegisterSession
<1>5. QED
  BY <1>1, <1>2, <1>3, <1>4 DEF Arrive

\* Storing and announcing, which move a call to the other side.
LEMMA StoreAndAnnounce ==
  ASSUME TypeOK, NEW d \in Calls
  PROVE  /\ StoreCall(d) =>
              /\ pc[d] = "registered" /\ pc' = [pc EXCEPT ![d] = "stored"] /\ pc'[d] = "stored"
              /\ active' = active \cup {d}
              /\ UNCHANGED <<cleanup, events, slot>>
         /\ AnnounceCall(d) =>
              /\ pc[d] = "stored" /\ pc'[d] \in Told \ Late
              /\ \A c \in Calls \ {d} : pc'[c] = pc[c]
              /\ events' = [events EXCEPT ![d] = Published(d, "call_started")]
              /\ UNCHANGED <<active, cleanup, slot>>
  BY DEF StoreCall, AnnounceCall, At, Goto, TypeOK, Told, Late, SetupStages, Unborn

LEMMA StepIsSteady ==
  ASSUME TypeOK, [Next]_vars, NEW c \in Calls
  PROVE  Steady(c) \/ StoreCall(c) \/ AnnounceCall(c)
<1>1. ASSUME NEW d \in Calls, Arrive(d) PROVE Steady(c) \/ StoreCall(c) \/ AnnounceCall(c)
  <2>1. CASE StoreCall(d) \/ AnnounceCall(d)
    <3>1. d # c => pc'[c] = pc[c]
      BY <2>1, StoreAndAnnounce DEF TypeOK
    <3>2. QED
      BY <2>1, <3>1 DEF Steady
  <2>2. CASE ~StoreCall(d) /\ ~AnnounceCall(d)
    BY <2>2, <1>1, ArriveIsSteady
  <2>3. QED
    BY <2>1, <2>2
<1>2. ASSUME NEW d \in Calls, Setup(d) \/ SetupTimeout(d) \/ Expire(d) PROVE Steady(c)
  BY <1>2, SetupIsSteady
<1>3. ASSUME NEW d \in Calls, Cleanup(d) PROVE pc' = pc
  BY <1>3 DEF Cleanup, CloseChannels, CancelCtx, UnregisterSession, CloseSession, ForgetCall,
              CloseHub, DestroyEngine, Stage, setupVars
<1>4. ASSUME NEW g \in Slots, Trigger(g) PROVE pc' = pc
  BY <1>4 DEF Trigger, ReceiveUpdate, PeerHangsUp, RequestHangup, SignalingFails, WatchdogFires,
              NativeCallback, Spawn, setupVars
<1>5. ASSUME NEW g \in Slots, NEW d \in Calls, Act(g, d) PROVE pc' = pc
  BY <1>5 DEF Act, DeliverPhoneCall, DeliverAccepted, DeliverSignaling, CallbackSends,
              DiscardSession, HangupCall, Offer, SendPanics, Done, setupVars
<1>6. CASE Elsewhere \/ UNCHANGED vars
  BY <1>6, ElsewhereFrame DEF Steady
<1>7. pc' = pc => Steady(c)
  BY DEF Steady
<1>8. QED
  BY <1>1, <1>2, <1>3, <1>4, <1>5, <1>6, <1>7 DEF Next

\* The goroutines that may end a call.
SessionOps == {"phoneCall", "accepted", "signaling", "discard", "hangup"}

\* A call in activeCalls, and one that a goroutine has looked up there, has been stored.
BornInv ==
  /\ \A c \in active : pc[c] \notin Unborn
  /\ \A g \in Slots : slot[g].op \in SessionOps => \A c \in slot[g].calls : pc[c] \notin Unborn

\* Where such a goroutine has its call from.
LEMMA SlotFrame ==
  ASSUME TypeOK, [Next]_vars, NEW g \in Slots, slot'[g].op \in SessionOps, NEW c \in slot'[g].calls
  PROVE  \/ slot[g].op \in SessionOps /\ c \in slot[g].calls
         \/ c \in active
         \/ pc[c] \in {"connWait", "realtime", "bridge"}
<1> DEFINE From == \/ slot[g].op \in SessionOps /\ c \in slot[g].calls
                   \/ c \in active
                   \/ pc[c] \in {"connWait", "realtime", "bridge"}
<1>1. slot \in [Slots -> [op : Ops, calls : SUBSET Calls]]
  BY DEF TypeOK
<1>2. slot' = slot => From
  OBVIOUS
<1>3. ASSUME NEW h \in Slots, Finish(h) PROVE From
  <2>1. h # g
    BY <1>1, <1>3 DEF Finish, Idle, SessionOps
  <2>2. slot'[g] = slot[g]
    BY <1>1, <1>3, <2>1 DEF Finish
  <2>3. QED
    BY <2>2
<1>4. ASSUME NEW h \in Slots, NEW op \in Ops, NEW cs \in SUBSET Calls, Spawn(h, op, cs),
             \/ op \notin SessionOps
             \/ \A d \in cs : d \in active \/ pc[d] \in {"connWait", "realtime", "bridge"}
      PROVE  From
  <2>1. slot' = [slot EXCEPT ![h] = [op |-> op, calls |-> cs]]
    BY <1>4 DEF Spawn
  <2>2. CASE h = g
    <3>1. slot'[g] = [op |-> op, calls |-> cs]
      BY <1>1, <2>1, <2>2
    <3>2. QED
      BY <3>1, <1>4
  <2>3. CASE h # g
    BY <1>1, <2>1, <2>3
  <2>4. QED
    BY <2>2, <2>3
<1>5. ASSUME NEW d \in Calls, Arrive(d) PROVE slot' = slot
  BY <1>5 DEF Arrive, ReceiveCall, Dial, RequestCall, RegisterSession, StoreCall, AnnounceCall
<1>6. ASSUME NEW d \in Calls, Setup(d) \/ SetupTimeout(d) \/ Expire(d) PROVE slot' = slot
  BY <1>6 DEF Setup, CreateP2P, AcceptCall, TakeAccepted, ConfirmCall, TakePhoneCall, ConnectP2P,
              ReadConnState, Abandon, StartRealtime, EndBridge, Discard, SetupTimeout, Expire, quiet
<1>7. ASSUME NEW d \in Calls, Cleanup(d) PROVE slot' = slot
  BY <1>7 DEF Cleanup, CloseChannels, CancelCtx, UnregisterSession, CloseSession, ForgetCall,
              CloseHub, DestroyEngine, Stage
<1>8. ASSUME NEW h \in Slots, Trigger(h) PROVE From
  <2>1. ASSUME NEW d \in Calls,
               \/ \E op \in {"phoneCall", "accepted", "signaling"} : ReceiveUpdate(h, op, d)
               \/ PeerHangsUp(h, d) \/ RequestHangup(h, d) \/ WatchdogFires(h, d)
        PROVE  From
    BY <2>1, <1>4 DEF ReceiveUpdate, PeerHangsUp, RequestHangup, WatchdogFires, Ops
  <2>2. ASSUME NEW d \in Calls, SignalingFails(h, d) PROVE From
    BY <2>2, <1>4 DEF SignalingFails, Ops
  <2>3. ASSUME NEW u \in Users, NEW op \in ConnStates \cup {"data"}, NativeCallback(h, u, op)
        PROVE  From
    <3>1. op \in Ops /\ op \notin SessionOps
      BY DEF Ops, ConnStates, SessionOps
    <3>2. byUser[u] \cap byID \in SUBSET Calls
      BY DEF TypeOK
    <3>3. QED
      BY <2>3, <3>1, <3>2, <1>4 DEF NativeCallback
  <2>4. QED
    BY <1>8, <2>1, <2>2, <2>3 DEF Trigger
<1>9. ASSUME NEW h \in Slots, NEW d \in Calls, Act(h, d) PROVE From
  <2>1. CASE Finish(h)
    BY <2>1, <1>3
  <2>2. CASE slot' = [slot EXCEPT ![h].op = "discard"] /\ slot[h].op \in SessionOps
    <3>1. slot'[g].calls = slot[g].calls /\ (h # g => slot'[g].op = slot[g].op)
      BY <2>2, <1>1
    <3>2. QED
      BY <2>2, <3>1
  <2>3. CASE /\ slot[h].op \in ConnStates \cup {"data"}
             /\ slot' = [slot EXCEPT ![h].calls = @ \ {d}]
    <3>1. slot'[g].op = slot[g].op /\ slot'[g].calls \subseteq slot[g].calls
      BY <2>3, <1>1
    <3>2. QED
      BY <3>1
  <2>4. QED
    BY <1>9, <2>1, <2>2, <2>3
       DEF Act, DeliverPhoneCall, DeliverAccepted, DeliverSignaling, CallbackSends, DiscardSession,
           HangupCall, Offer, SendPanics, Done, Runs, SessionOps
<1>10. CASE Elsewhere \/ UNCHANGED vars
  BY <1>2, <1>10, ElsewhereFrame
<1>11. QED
  BY <1>2, <1>5, <1>6, <1>7, <1>8, <1>9, <1>10 DEF Next

LEMMA BornStep == TypeOK /\ BornInv /\ [Next]_vars => BornInv'
<1> SUFFICES ASSUME TypeOK, BornInv, [Next]_vars PROVE BornInv'
  OBVIOUS
<1>1. active' \subseteq Calls /\ \A g \in Slots : slot'[g].calls \subseteq Calls
  BY TypeStep DEF TypeOK
<1>2. ASSUME NEW c \in Calls, pc[c] \notin Unborn PROVE pc'[c] \notin Unborn
  <2>1. CASE Steady(c)
    BY <1>2, <2>1 DEF Steady, Told
  <2>2. CASE StoreCall(c) \/ AnnounceCall(c)
    BY <2>2, StoreAndAnnounce DEF Told, Unborn
  <2>3. QED
    BY <2>1, <2>2, StepIsSteady
<1>3. ASSUME NEW c \in active' PROVE pc'[c] \notin Unborn
  <2>1. c \in active \/ StoreCall(c)
    BY <1>1, ActiveFrame
  <2>2. QED
    BY <1>1, <1>2, <2>1, StoreAndAnnounce DEF BornInv, Unborn
<1>4. ASSUME NEW g \in Slots, slot'[g].op \in SessionOps, NEW c \in slot'[g].calls
      PROVE  pc'[c] \notin Unborn
  <2>1. pc[c] \notin Unborn
    BY <1>4, SlotFrame DEF BornInv, Unborn
  <2>2. QED
    BY <1>1, <1>2, <2>1
<1>5. QED
  BY <1>3, <1>4 DEF BornInv

\* The steps as subscribers can tell them apart.
Connects(d) == /\ pc[d] = "connWait" /\ pc'[d] = "realtime"
               /\ events' = [events EXCEPT ![d] = Published(d, "call_connected")]
               /\ UNCHANGED <<cleanup, active>>
               /\ \A c \in Calls : Steady(c)
BeginsToEnd(d) == /\ CleanupCall(d) /\ pc[d] \notin Unborn
            /\ active' = active
            /\ \A c \in Calls : Steady(c)
Quiet == /\ UNCHANGED <<events, cleanup, active>>
         /\ \A c \in Calls : Steady(c)

LEMMA StepOfLife ==
  ASSUME TypeOK, BornInv, [Next]_vars
  PROVE  \/ \E d \in Calls : \/ StoreCall(d) \/ AnnounceCall(d) \/ Connects(d) \/ BeginsToEnd(d)
                             \/ Cleanup(d)
         \/ Quiet
<1> DEFINE Goal == \/ \E d \in Calls : \/ StoreCall(d) \/ AnnounceCall(d) \/ Connects(d) \/ BeginsToEnd(d)
                                       \/ Cleanup(d)
                   \/ Quiet
<1>1. ASSUME UNCHANGED <<pc, events, cleanup, active>> PROVE Quiet
  BY <1>1 DEF Quiet, Steady
<1>2. ASSUME NEW d \in Calls, Arrive(d) PROVE Goal
  BY <1>2, ArriveIsSteady DEF Quiet
<1>3. ASSUME NEW d \in Calls, Setup(d) \/ SetupTimeout(d) \/ Expire(d) PROVE Goal
  BY <1>3, SetupIsSteady DEF Quiet, Connects, BeginsToEnd
<1>4. ASSUME NEW g \in Slots, Trigger(g) PROVE Quiet
  <2>1. UNCHANGED <<pc, events, cleanup, active>>
    BY <1>4 DEF Trigger, ReceiveUpdate, PeerHangsUp, RequestHangup, SignalingFails, WatchdogFires,
                NativeCallback, Spawn, setupVars
  <2>2. QED
    BY <1>1, <2>1
<1>5. ASSUME NEW g \in Slots, NEW d \in Calls, Act(g, d) PROVE Goal
  <2>1. CASE DiscardSession(g, d) \/ HangupCall(g, d)
    <3>1. /\ pc' = pc /\ active' = active
          /\ CleanupCall(d) \/ UNCHANGED <<cleanup, events>>
          /\ slot[g].op \in SessionOps /\ d \in slot[g].calls
      BY <2>1 DEF DiscardSession, HangupCall, Runs, setupVars, SessionOps
    <3>2. pc[d] \notin Unborn
      BY <3>1 DEF BornInv
    <3>3. QED
      BY <3>1, <3>2, <1>1 DEF BeginsToEnd, Steady
  <2>2. CASE \/ DeliverPhoneCall(g, d) \/ DeliverAccepted(g, d) \/ DeliverSignaling(g, d)
             \/ CallbackSends(g, d)
    <3>1. UNCHANGED <<pc, events, cleanup, active>>
      BY <2>2 DEF DeliverPhoneCall, DeliverAccepted, DeliverSignaling, CallbackSends,
                  Offer, SendPanics, Done, setupVars
    <3>2. QED
      BY <3>1, <1>1
  <2>3. QED
    BY <1>5, <2>1, <2>2 DEF Act
<1>6. CASE Elsewhere \/ UNCHANGED vars
  BY <1>1, <1>6, ElsewhereFrame
<1>7. QED
  BY <1>2, <1>3, <1>4, <1>5, <1>6 DEF Next

\* The stages of cleanup, as they matter here.
LEMMA CleanupStage ==
  ASSUME TypeOK, NEW d \in Calls, Cleanup(d)
  PROVE  /\ pc' = pc /\ events' = events
         /\ \A c \in Calls \ {d} : cleanup'[c] = cleanup[c]
         /\ cleanup[d] # "none" /\ cleanup'[d] # "none"
         /\ \/ /\ cleanup[d] = "sessionClosed" /\ cleanup'[d] = "forgotten"
               /\ active' = active \ {d}
            \/ /\ cleanup[d] = "forgotten" /\ cleanup'[d] = "hubClosed"
               /\ active' = active
            \/ /\ cleanup[d] = "hubClosed" /\ cleanup'[d] = "done"
               /\ active' = active
            \/ /\ cleanup'[d] \in {"closed", "cancelled", "unregistered", "sessionClosed"}
               /\ cleanup[d] \in {"ended", "closed", "cancelled", "unregistered"}
               /\ active' = active
<1>1. cleanup \in [Calls -> CleanupStages]
  BY DEF TypeOK
<1>2. ASSUME NEW from, NEW to, Stage(d, from, to)
      PROVE  /\ pc' = pc /\ cleanup[d] = from /\ cleanup'[d] = to
             /\ \A c \in Calls \ {d} : cleanup'[c] = cleanup[c]
  BY <1>1, <1>2 DEF Stage, setupVars
<1>3. CASE CloseChannels(d)
  BY <1>2, <1>3 DEF CloseChannels
<1>4. CASE CancelCtx(d)
  BY <1>2, <1>4 DEF CancelCtx
<1>5. CASE UnregisterSession(d)
  BY <1>2, <1>5 DEF UnregisterSession
<1>6. CASE CloseSession(d)
  BY <1>2, <1>6 DEF CloseSession
<1>7. CASE ForgetCall(d)
  BY <1>2, <1>7 DEF ForgetCall
<1>8. CASE CloseHub(d)
  BY <1>2, <1>8 DEF CloseHub
<1>9. CASE DestroyEngine(d)
  BY <1>2, <1>9 DEF DestroyEngine
<1>10. QED
  BY <1>3, <1>4, <1>5, <1>6, <1>7, <1>8, <1>9 DEF Cleanup

LEMMA RecordedAppend ==
  ASSUME TypeOK, NEW d \in Calls, NEW t \in EventTypes, events' = [events EXCEPT ![d] = Append(@, t)]
  PROVE  /\ \A u \in EventTypes : Life!Recorded(d, u)' <=> Life!Recorded(d, u) \/ u = t
         /\ \A c \in Calls \ {d}, u \in EventTypes : Life!Recorded(c, u)' <=> Life!Recorded(c, u)
<1>1. events[d] \in Seq(EventTypes) /\ events'[d] = Append(events[d], t)
      /\ \A c \in Calls \ {d} : events'[c] = events[c]
  BY DEF TypeOK
<1>2. /\ Len(events[d]) \in Nat
      /\ DOMAIN events[d] = 1..Len(events[d])
      /\ DOMAIN events'[d] = 1..(Len(events[d]) + 1)
      /\ \A i \in 1..Len(events[d]) : events'[d][i] = events[d][i]
      /\ events'[d][Len(events[d]) + 1] = t
  BY <1>1
<1>3. ASSUME NEW u \in EventTypes PROVE Life!Recorded(d, u)' <=> Life!Recorded(d, u) \/ u = t
  BY <1>2 DEF Life!Recorded
<1>4. QED
  BY <1>1, <1>3 DEF Life!Recorded

\* What is recorded tells how far the setup has come, and the other way round as long as
\* the hub is open; cleanup is for stored calls only.
LifeOf(c) ==
  /\ Life!Recorded(c, "call_started") => pc[c] \in Told
  /\ Life!Recorded(c, "call_connected") => pc[c] \in Late
  /\ pc[c] \in Told => Life!Recorded(c, "call_started") \/ HubClosed(c)
  /\ cleanup[c] # "none" => pc[c] \notin Unborn
  /\ cleanup[c] \in {"forgotten", "hubClosed", "done"} => c \notin active

LifeInv == \A c \in Calls : LifeOf(c)

LEMMA LifeInvStep == TypeOK /\ BornInv /\ LifeInv /\ [Next]_vars => LifeInv'
<1> SUFFICES ASSUME TypeOK, BornInv, LifeInv, [Next]_vars, NEW c \in Calls PROVE LifeOf(c)'
  BY DEF LifeInv
<1>1. LifeOf(c) /\ TypeOK' /\ pc[c] \in SetupStages /\ Late \subseteq Told
  BY TypeStep DEF LifeInv, TypeOK, Late, Told, SetupStages, Unborn
<1>2. ASSUME Steady(c), UNCHANGED <<events, active>>, cleanup'[c] = cleanup[c] PROVE LifeOf(c)'
  BY <1>1, <1>2 DEF LifeOf, Steady, Told, Late, HubClosed, Life!Recorded
<1>3. ASSUME NEW d \in Calls, StoreCall(d) PROVE LifeOf(c)'
  <2>1. /\ pc[d] = "registered" /\ pc' = [pc EXCEPT ![d] = "stored"] /\ active' = active \cup {d}
        /\ cleanup' = cleanup /\ events' = events
    BY <1>3, StoreAndAnnounce
  <2>2. CASE c = d
    <3>1. pc'[c] = "stored" /\ pc[c] = "registered" /\ cleanup'[c] = "none"
      BY <1>1, <2>1, <2>2 DEF LifeOf, TypeOK, Unborn
    <3>2. ~Life!Recorded(c, "call_started") /\ ~Life!Recorded(c, "call_connected")
      BY <3>1, <1>1 DEF LifeOf, Told, Unborn
    <3>3. ~Life!Recorded(c, "call_started")' /\ ~Life!Recorded(c, "call_connected")'
      BY <3>2, <2>1 DEF Life!Recorded
    <3>4. QED
      BY <3>1, <3>3 DEF LifeOf, Told
  <2>3. CASE c # d
    <3>1. pc'[c] = pc[c] /\ (c \in active' <=> c \in active)
      BY <2>1, <2>3 DEF TypeOK
    <3>2. QED
      BY <3>1, <2>1, <1>1 DEF LifeOf, HubClosed, Life!Recorded
  <2>4. QED
    BY <2>2, <2>3
<1>4. ASSUME NEW d \in Calls, NEW t \in {"call_started", "call_connected"},
             events' = [events EXCEPT ![d] = Published(d, t)]
      PROVE  \/ /\ HubClosed(d)
                /\ \A e \in Calls, u \in EventTypes : Life!Recorded(e, u)' <=> Life!Recorded(e, u)
             \/ /\ ~HubClosed(d)
                /\ events' = [events EXCEPT ![d] = Append(@, t)]
                /\ \A u \in EventTypes : Life!Recorded(d, u)' <=> Life!Recorded(d, u) \/ u = t
                /\ \A e \in Calls \ {d}, u \in EventTypes :
                     Life!Recorded(e, u)' <=> Life!Recorded(e, u)
  <2>1. CASE HubClosed(d)
    <3>1. events' = events
      BY <1>4, <2>1 DEF Published, TypeOK
    <3>2. QED
      BY <2>1, <3>1 DEF Life!Recorded
  <2>2. CASE ~HubClosed(d)
    BY <1>4, <2>2, RecordedAppend DEF Published, EventTypes
  <2>3. QED
    BY <2>1, <2>2
<1>5. ASSUME NEW d \in Calls, AnnounceCall(d) PROVE LifeOf(c)'
  <2>1. /\ pc[d] = "stored" /\ pc'[d] \in Told \ Late
        /\ \A e \in Calls \ {d} : pc'[e] = pc[e]
        /\ events' = [events EXCEPT ![d] = Published(d, "call_started")]
        /\ active' = active /\ cleanup' = cleanup
    BY <1>5, StoreAndAnnounce
  <2>2. CASE c = d
    <3>1. ~Life!Recorded(c, "call_connected")
      BY <1>1, <2>1, <2>2 DEF LifeOf, Late
    <3>2. /\ ~Life!Recorded(c, "call_connected")'
          /\ Life!Recorded(c, "call_started")' \/ HubClosed(c)'
      BY <1>4, <2>1, <2>2, <3>1 DEF EventTypes, HubClosed
    <3>3. QED
      BY <3>2, <2>1, <2>2, <1>1 DEF LifeOf, Told
  <2>3. CASE c # d
    <3>1. /\ Life!Recorded(c, "call_started")' <=> Life!Recorded(c, "call_started")
          /\ Life!Recorded(c, "call_connected")' <=> Life!Recorded(c, "call_connected")
      BY <1>4, <2>1, <2>3 DEF EventTypes
    <3>2. QED
      BY <3>1, <2>1, <2>3, <1>1 DEF LifeOf, HubClosed
  <2>4. QED
    BY <2>2, <2>3
<1>6. ASSUME NEW d \in Calls, Connects(d) PROVE LifeOf(c)'
  <2>1. /\ pc[d] = "connWait" /\ pc'[d] = "realtime" /\ Steady(c)
        /\ events' = [events EXCEPT ![d] = Published(d, "call_connected")]
        /\ active' = active /\ cleanup' = cleanup
    BY <1>6 DEF Connects
  <2>2. CASE c = d
    <3>1. pc[c] \in Told /\ pc'[c] \in Told /\ pc'[c] \in Late
      BY <2>1, <2>2 DEF Told, Late, SetupStages, Unborn
    <3>2. Life!Recorded(c, "call_started")' <=> Life!Recorded(c, "call_started")
      BY <1>4, <2>1, <2>2 DEF EventTypes
    <3>3. QED
      BY <3>1, <3>2, <2>1, <1>1 DEF LifeOf, HubClosed, Told
  <2>3. CASE c # d
    <3>1. /\ Life!Recorded(c, "call_started")' <=> Life!Recorded(c, "call_started")
          /\ Life!Recorded(c, "call_connected")' <=> Life!Recorded(c, "call_connected")
      BY <1>4, <2>1, <2>3 DEF EventTypes
    <3>2. QED
      BY <3>1, <2>1, <1>1 DEF LifeOf, HubClosed, Steady, Told, Late
  <2>4. QED
    BY <2>2, <2>3
<1>7. ASSUME NEW d \in Calls, BeginsToEnd(d) PROVE LifeOf(c)'
  <2>1. CleanupCall(d) /\ pc[d] \notin Unborn /\ active' = active /\ Steady(c)
    BY <1>7 DEF BeginsToEnd
  <2>2. CASE cleanup[d] # "none"
    BY <1>2, <2>1, <2>2 DEF CleanupCall
  <2>3. CASE cleanup[d] = "none"
    <3>1. /\ cleanup' = [cleanup EXCEPT ![d] = "ended"]
          /\ events' = [events EXCEPT ![d] = Append(@, "call_ended")]
      BY <2>1, <2>3 DEF CleanupCall
    <3>2. /\ Life!Recorded(c, "call_started")' <=> Life!Recorded(c, "call_started")
          /\ Life!Recorded(c, "call_connected")' <=> Life!Recorded(c, "call_connected")
      BY <3>1, RecordedAppend DEF EventTypes
    <3>3. /\ cleanup'[c] = IF c = d THEN "ended" ELSE cleanup[c]
          /\ HubClosed(c)' = HubClosed(c)
      BY <3>1, <2>3 DEF TypeOK, HubClosed
    <3>4. pc[c] \notin Unborn => pc'[c] \notin Unborn
      BY <2>1 DEF Steady, Told
    <3>5. cleanup'[c] # "none" => pc'[c] \notin Unborn
      BY <3>3, <3>4, <2>1, <1>1 DEF LifeOf
    <3>6. QED
      BY <3>2, <3>3, <3>5, <2>1, <1>1 DEF LifeOf, Steady, Told, Late
  <2>4. QED
    BY <2>2, <2>3
<1>8. ASSUME NEW d \in Calls, Cleanup(d) PROVE LifeOf(c)'
  <2>1. /\ pc'[c] = pc[c]
        /\ HubClosed(c) => HubClosed(c)'
        /\ cleanup[c] = "none" <=> cleanup'[c] = "none"
        /\ c \in active' => c \in active
        /\ cleanup'[c] \in {"forgotten", "hubClosed", "done"} => c \notin active'
    BY <1>1, <1>8, CleanupStage DEF HubClosed, LifeOf
  <2>2. events' = events
    BY <1>8, CleanupStage
  <2>3. QED
    BY <2>1, <2>2, <1>1 DEF LifeOf, Life!Recorded
<1>9. CASE Quiet
  BY <1>2, <1>9 DEF Quiet
<1>10. QED
  BY <1>3, <1>5, <1>6, <1>7, <1>8, <1>9, StepOfLife

\* What CallLife calls gone and closed.
Gone == {c \in Calls : pc[c] \notin Unborn /\ c \notin active}
Shut == {c \in Calls : HubClosed(c)}

\* A closed hub records nothing more.
LEMMA StepKeepsEvents ==
  ASSUME TypeOK, BornInv, [Next]_vars, NEW c \in Calls, HubClosed(c)
  PROVE  events'[c] = events[c]
<1>1. ASSUME NEW d \in Calls, NEW t, events' = [events EXCEPT ![d] = Published(d, t)]
      PROVE  events'[c] = events[c]
  BY <1>1 DEF Published, TypeOK
<1>2. ASSUME NEW d \in Calls, CleanupCall(d) PROVE events'[c] = events[c]
  BY <1>2 DEF CleanupCall, HubClosed, TypeOK
<1>3. QED
  BY <1>1, <1>2, StepOfLife, StoreAndAnnounce, CleanupStage DEF Connects, BeginsToEnd, Quiet

LEMMA GoneStays ==
  ASSUME active' = active, \A c \in Calls : Steady(c)
  PROVE  Gone' = Gone
<1>1. \A c \in Calls : pc'[c] \in Unborn <=> pc[c] \in Unborn
  BY DEF Steady, Told
<1>2. QED
  BY <1>1 DEF Gone

\* An event is told: what it takes.
LEMMA RecordsLife ==
  ASSUME NEW d \in Calls, NEW t \in EventTypes, ~HubClosed(d), ~Life!Recorded(d, t),
         t = "call_connected" => Life!Recorded(d, "call_started"),
         events' = [events EXCEPT ![d] = Append(@, t)], Gone' = Gone, Shut' = Shut
  PROVE  Life!Next
<1>1. Life!Record(d, t)
  BY DEF Life!Record, Gone, Shut
<1>2. QED
  BY <1>1 DEF Life!Next

LEMMA LifeStep ==
  TypeOK /\ BornInv /\ EndInv /\ LifeInv /\ [Next]_vars => [Life!Next]_(Life!lifeVars)
<1> SUFFICES ASSUME TypeOK, BornInv, EndInv, LifeInv, [Next]_vars
             PROVE  [Life!Next]_(Life!lifeVars)
  OBVIOUS
<1>1. ASSUME events' = events, Gone' = Gone, Shut' = Shut PROVE UNCHANGED Life!lifeVars
  BY <1>1 DEF Life!lifeVars, Gone, Shut
<1>2. ASSUME NEW d \in Calls PROVE Life!Recorded(d, "call_ended") <=> cleanup[d] # "none"
  <2>1. Ends(d) # {} <=> cleanup[d] # "none"
    BY DEF EndInv
  <2>2. QED
    BY <2>1 DEF Ends, Life!Recorded
<1>3. cleanup' = cleanup => Shut' = Shut
  BY DEF Shut, HubClosed
<1>4. ASSUME NEW d \in Calls, HubClosed(d), NEW t, events' = [events EXCEPT ![d] = Published(d, t)]
      PROVE  events' = events
  BY <1>4 DEF Published, TypeOK
<1>5. ASSUME NEW d \in Calls, StoreCall(d) PROVE UNCHANGED Life!lifeVars
  <2>1. /\ pc[d] = "registered" /\ pc' = [pc EXCEPT ![d] = "stored"] /\ active' = active \cup {d}
        /\ cleanup' = cleanup /\ events' = events
    BY <1>5, StoreAndAnnounce
  <2>2. \A c \in Calls : (pc'[c] \notin Unborn /\ c \notin active') <=> (pc[c] \notin Unborn /\ c \notin active)
    BY <2>1 DEF TypeOK, Unborn
  <2>3. Gone' = Gone
    BY <2>2 DEF Gone
  <2>4. QED
    BY <2>1, <2>3, <1>1, <1>3
<1>6. ASSUME NEW d \in Calls, AnnounceCall(d) PROVE [Life!Next]_(Life!lifeVars)
  <2>1. /\ pc[d] = "stored" /\ pc'[d] \in Told \ Late
        /\ \A e \in Calls \ {d} : pc'[e] = pc[e]
        /\ events' = [events EXCEPT ![d] = Published(d, "call_started")]
        /\ active' = active /\ cleanup' = cleanup
    BY <1>6, StoreAndAnnounce
  <2>2. \A c \in Calls : pc'[c] \in Unborn <=> pc[c] \in Unborn
    BY <2>1 DEF Told, Unborn
  <2>3. Gone' = Gone /\ Shut' = Shut
    BY <2>1, <2>2, <1>3 DEF Gone
  <2>4. CASE HubClosed(d)
    BY <2>1, <2>3, <2>4, <1>1, <1>4
  <2>5. CASE ~HubClosed(d)
    <3>1. ~Life!Recorded(d, "call_started")
      BY <2>1 DEF LifeInv, LifeOf, Told
    <3>2. events' = [events EXCEPT ![d] = Append(@, "call_started")]
      BY <2>1, <2>5 DEF Published
    <3>3. QED
      BY <3>1, <3>2, <2>3, <2>5, RecordsLife DEF EventTypes
  <2>6. QED
    BY <2>4, <2>5
<1>7. ASSUME NEW d \in Calls, Connects(d) PROVE [Life!Next]_(Life!lifeVars)
  <2>1. /\ pc[d] = "connWait"
        /\ events' = [events EXCEPT ![d] = Published(d, "call_connected")]
        /\ Gone' = Gone /\ Shut' = Shut
    BY <1>7, <1>3, GoneStays DEF Connects
  <2>2. CASE HubClosed(d)
    BY <2>1, <2>2, <1>1, <1>4
  <2>3. CASE ~HubClosed(d)
    <3>1. ~Life!Recorded(d, "call_connected") /\ Life!Recorded(d, "call_started")
      BY <2>1, <2>3 DEF LifeInv, LifeOf, Told, Late, SetupStages, Unborn
    <3>2. events' = [events EXCEPT ![d] = Append(@, "call_connected")]
      BY <2>1, <2>3 DEF Published
    <3>3. QED
      BY <3>1, <3>2, <2>1, <2>3, RecordsLife DEF EventTypes
  <2>4. QED
    BY <2>2, <2>3
<1>8. ASSUME NEW d \in Calls, BeginsToEnd(d) PROVE [Life!Next]_(Life!lifeVars)
  <2>1. CleanupCall(d) /\ Gone' = Gone
    BY <1>8, GoneStays DEF BeginsToEnd
  <2>2. CASE cleanup[d] # "none"
    BY <2>1, <2>2, <1>1, <1>3 DEF CleanupCall
  <2>3. CASE cleanup[d] = "none"
    <3>1. /\ cleanup' = [cleanup EXCEPT ![d] = "ended"]
          /\ events' = [events EXCEPT ![d] = Append(@, "call_ended")]
      BY <2>1, <2>3 DEF CleanupCall
    <3>2. \A c \in Calls : HubClosed(c)' <=> HubClosed(c)
      BY <3>1, <2>3 DEF TypeOK, HubClosed
    <3>3. Shut' = Shut /\ ~HubClosed(d) /\ ~Life!Recorded(d, "call_ended")
      BY <3>2, <2>3, <1>2 DEF Shut, HubClosed
    <3>4. QED
      BY <3>1, <3>3, <2>1, RecordsLife DEF EventTypes
  <2>4. QED
    BY <2>2, <2>3
<1>9. ASSUME NEW d \in Calls, Cleanup(d) PROVE [Life!Next]_(Life!lifeVars)
  <2>1. /\ pc' = pc /\ events' = events
        /\ \A c \in Calls \ {d} : cleanup'[c] = cleanup[c]
        /\ pc[d] \notin Unborn /\ cleanup[d] # "none"
    BY <1>9, CleanupStage DEF LifeInv, LifeOf
  <2>2. CASE cleanup[d] = "sessionClosed" /\ cleanup'[d] = "forgotten" /\ active' = active \ {d}
    <3>1. Gone' = Gone \cup {d}
      BY <2>1, <2>2 DEF Gone
    <3>2. \A c \in Calls : HubClosed(c)' <=> HubClosed(c)
      BY <2>1, <2>2 DEF HubClosed
    <3>3. Shut' = Shut
      BY <3>2 DEF Shut
    <3>4. Life!Leave(d)
      BY <3>1, <3>3, <2>1, <1>2 DEF Life!Leave, Gone, Shut
    <3>5. QED
      BY <3>4 DEF Life!Next
  <2>3. CASE cleanup[d] = "forgotten" /\ cleanup'[d] = "hubClosed" /\ active' = active
    <3>1. d \in Gone /\ Gone' = Gone
      BY <2>1, <2>3 DEF Gone, LifeInv, LifeOf
    <3>2. \A c \in Calls : HubClosed(c)' <=> HubClosed(c) \/ c = d
      BY <2>1, <2>3 DEF HubClosed
    <3>3. Shut' = Shut \cup {d}
      BY <3>2 DEF Shut
    <3>4. Life!Close(d)
      BY <3>1, <3>3, <2>1 DEF Life!Close, Gone, Shut
    <3>5. QED
      BY <3>4 DEF Life!Next
  <2>4. CASE /\ active' = active
             /\ \/ cleanup[d] = "hubClosed" /\ cleanup'[d] = "done"
                \/ /\ cleanup'[d] \in {"closed", "cancelled", "unregistered", "sessionClosed"}
                   /\ cleanup[d] \in {"ended", "closed", "cancelled", "unregistered"}
    <3>1. Gone' = Gone
      BY <2>1, <2>4 DEF Gone
    <3>2. \A c \in Calls : HubClosed(c)' <=> HubClosed(c)
      BY <2>1, <2>4 DEF HubClosed
    <3>3. Shut' = Shut
      BY <3>2 DEF Shut
    <3>4. QED
      BY <3>1, <3>3, <2>1, <1>1
  <2>5. QED
    BY <2>2, <2>3, <2>4, <1>9, CleanupStage
<1>10. CASE Quiet
  BY <1>1, <1>3, <1>10, GoneStays DEF Quiet
<1>11. QED
  BY <1>5, <1>6, <1>7, <1>8, <1>9, <1>10, StepOfLife

LEMMA LifeInvHolds == Spec => [](TypeOK /\ BornInv /\ EndInv /\ LifeInv)
<1>1. Init => BornInv /\ EndInv /\ LifeInv
  <2>1. SUFFICES ASSUME Init PROVE BornInv /\ EndInv /\ LifeInv
    OBVIOUS
  <2>2. BornInv
    BY <2>1 DEF Init, BornInv, Idle, SessionOps
  <2>3. ASSUME NEW c \in Calls PROVE LifeOf(c) /\ Ends(c) = {} /\ cleanup[c] = "none"
    <3>1. pc[c] = "idle" /\ cleanup[c] = "none" /\ events[c] = <<>>
      BY <2>1 DEF Init
    <3>2. \A t : ~Life!Recorded(c, t)
      BY <3>1 DEF Life!Recorded
    <3>3. Ends(c) = {}
      BY <3>1 DEF Ends
    <3>4. QED
      BY <3>1, <3>2, <3>3 DEF LifeOf, Told, Unborn
  <2>4. QED
    BY <2>2, <2>3 DEF EndInv, LifeInv
<1>2. QED
  BY <1>1, TypeInit, TypeStep, BornStep, EndStep, LifeInvStep, PTL DEF Spec

\* Among all that races in the calls of a bot, what subscribers see of each is the life
\* that CallLife describes: every step records one event of one call, takes a call out
\* or closes a hub as allowed there, or is invisible.
THEOREM LifeImplemented == Spec => ImplementsLife
<1>1. Init => Life!Init
  <2>1. SUFFICES ASSUME Init PROVE Life!Init
    OBVIOUS
  <2>2. Gone = {} /\ Shut = {}
    BY <2>1 DEF Init, Gone, Shut, Unborn, HubClosed
  <2>3. QED
    BY <2>1, <2>2 DEF Init, Life!Init, Gone, Shut
<1>2. QED
  BY <1>1, LifeStep, LifeInvHolds, PTL DEF Spec, ImplementsLife, Life!Spec

-----------------------------------------------------------------------------
(* Native calls that outlive the cleanup of their call.                    *)

\* The native calls that no Destroy was asked to take.
Kept == engine \ unstopped

\* Native calls are made by the two steps that create them, and a dialled call, which has
\* one already, is never set up as an incoming one.
LEMMA NativeFrame ==
  ASSUME TypeOK, [Next]_vars
  PROVE  \/ /\ Kept' \subseteq Kept /\ outgoing' = outgoing
         \/ \E d \in Calls : /\ Dial(d) \/ CreateP2P(d)
                             /\ Kept' \subseteq Kept \cup {UserOf[d]}
                             /\ outgoing' \subseteq outgoing \cup (IF Dial(d) THEN {d} ELSE {})
<1> USE DEF engineVars, native, models, Kept
<1>1. ASSUME NEW d \in Calls, Arrive(d), ~Dial(d) PROVE Kept' \subseteq Kept /\ outgoing' = outgoing
  BY <1>1 DEF Arrive, ReceiveCall, RequestCall, Destroy, RegisterSession, StoreCall, AnnounceCall
<1>2. ASSUME NEW d \in Calls, Dial(d) \/ CreateP2P(d)
      PROVE  /\ Kept' \subseteq Kept \cup {UserOf[d]}
             /\ outgoing' \subseteq outgoing \cup (IF Dial(d) THEN {d} ELSE {})
  BY <1>2 DEF Dial, CreateP2P, MayCreate, Fail, quiet
<1>3. ASSUME NEW d \in Calls, Setup(d) \/ SetupTimeout(d) \/ Expire(d), ~CreateP2P(d)
      PROVE  Kept' = Kept /\ outgoing' = outgoing
  BY <1>3 DEF Setup, AcceptCall, TakeAccepted, ConfirmCall, TakePhoneCall, ConnectP2P,
              ReadConnState, Abandon, StartRealtime, EndBridge, Discard, SetupTimeout, Expire, quiet
<1>4. ASSUME NEW d \in Calls, Cleanup(d) PROVE Kept' \subseteq Kept /\ outgoing' = outgoing
  BY <1>4 DEF Cleanup, CloseChannels, CancelCtx, UnregisterSession, CloseSession, ForgetCall,
              CloseHub, DestroyEngine, Destroy, Stage, setupVars
<1>5. ASSUME NEW g \in Slots, Trigger(g) PROVE Kept' = Kept /\ outgoing' = outgoing
  BY <1>5 DEF Trigger, ReceiveUpdate, PeerHangsUp, RequestHangup, SignalingFails, WatchdogFires,
              NativeCallback, Spawn, setupVars
<1>6. ASSUME NEW g \in Slots, NEW d \in Calls, Act(g, d) PROVE Kept' = Kept /\ outgoing' = outgoing
  BY <1>6 DEF Act, DeliverPhoneCall, DeliverAccepted, DeliverSignaling, CallbackSends,
              DiscardSession, HangupCall, Offer, SendPanics, Done, setupVars
<1>7. CASE Elsewhere \/ UNCHANGED vars
  BY <1>7 DEF Elsewhere, StopBot, ProviderEnds, LateStop, vars, setupVars
<1>8. QED
  BY <1>1, <1>2, <1>3, <1>4, <1>5, <1>6, <1>7 DEF Next, Setup

\* The ways to the stages at which a call is dialled, refused or has a native call too many.
LEMMA PathFrame ==
  ASSUME TypeOK, [Next]_vars, NEW c \in Calls
  PROVE  /\ pc'[c] = "create" => pc[c] = "create" \/ c \notin outgoing
         /\ pc'[c] = "accept" => pc[c] = "accept" \/ pc[c] = "create"
         /\ pc[c] = "accept" /\ CtxDone(c) => pc'[c] \in {"accept", "discarding"}
         /\ pc[c] = "discarding" => pc'[c] \in {"discarding", "done"}
         /\ pc[c] = "done" => pc'[c] = "done"
         /\ pc[c] = "refused" => pc'[c] = "refused"
         /\ pc'[c] = "dialling" => pc[c] = "dialling" \/ c \in outgoing'
         /\ outgoing \subseteq outgoing'
<1> DEFINE Framed == /\ pc'[c] = "create" => pc[c] = "create" \/ c \notin outgoing
                     /\ pc'[c] = "accept" => pc[c] = "accept" \/ pc[c] = "create"
                     /\ pc[c] = "accept" /\ CtxDone(c) => pc'[c] \in {"accept", "discarding"}
                     /\ pc[c] = "discarding" => pc'[c] \in {"discarding", "done"}
                     /\ pc[c] = "done" => pc'[c] = "done"
                     /\ pc[c] = "refused" => pc'[c] = "refused"
                     /\ pc'[c] = "dialling" => pc[c] = "dialling" \/ c \in outgoing'
<1>1. ASSUME NEW d \in Calls, NEW stage, Goto(d, stage)
      PROVE  pc'[d] = stage /\ (d # c => pc'[c] = pc[c])
  BY <1>1 DEF Goto, TypeOK
<1>2. ASSUME NEW d \in Calls, Arrive(d) PROVE Framed
  BY <1>1, <1>2 DEF Arrive, ReceiveCall, Dial, RequestCall, RegisterSession, StoreCall, AnnounceCall, At
<1>3. ASSUME NEW d \in Calls, Setup(d) \/ SetupTimeout(d) \/ Expire(d) PROVE Framed
  <2>1. CASE CreateP2P(d)
    BY <1>1, <2>1 DEF CreateP2P, Fail, At
  <2>2. CASE AcceptCall(d)
    BY <1>1, <2>2 DEF AcceptCall, Fail, At
  <2>3. CASE TakeAccepted(d) \/ ConfirmCall(d) \/ TakePhoneCall(d)
    BY <1>1, <2>3 DEF TakeAccepted, ConfirmCall, TakePhoneCall, Fail, At
  <2>4. CASE ConnectP2P(d) \/ ReadConnState(d) \/ Abandon(d) \/ SetupTimeout(d)
    BY <1>1, <2>4 DEF ConnectP2P, ReadConnState, Abandon, SetupTimeout, Fail, At
  <2>5. CASE StartRealtime(d) \/ EndBridge(d) \/ Discard(d) \/ Expire(d)
    BY <1>1, <2>5 DEF StartRealtime, EndBridge, Discard, Expire, Fail, At
  <2>6. QED
    BY <1>3, <2>1, <2>2, <2>3, <2>4, <2>5 DEF Setup
<1>4. ASSUME NEW d \in Calls, Cleanup(d) PROVE pc' = pc
  BY <1>4, CleanupStage
<1>5. ASSUME NEW g \in Slots, Trigger(g) PROVE pc' = pc
  BY <1>5 DEF Trigger, ReceiveUpdate, PeerHangsUp, RequestHangup, SignalingFails, WatchdogFires,
              NativeCallback, Spawn, setupVars
<1>6. ASSUME NEW g \in Slots, NEW d \in Calls, Act(g, d) PROVE pc' = pc
  BY <1>6 DEF Act, DeliverPhoneCall, DeliverAccepted, DeliverSignaling, CallbackSends,
              DiscardSession, HangupCall, Offer, SendPanics, Done, setupVars
<1>7. CASE Elsewhere \/ UNCHANGED vars
  BY <1>7, ElsewhereFrame
<1>8. Framed
  BY <1>2, <1>3, <1>4, <1>5, <1>6, <1>7 DEF Next
<1>9. outgoing \subseteq outgoing'
  <2>1. \A d \in Calls : Dial(d) => outgoing \subseteq outgoing'
    BY DEF Dial
  <2>2. \A d \in Calls : CreateP2P(d) => outgoing' = outgoing
    BY DEF CreateP2P, quiet
  <2>3. QED
    BY <2>1, <2>2, NativeFrame
<1>10. QED
  BY <1>8, <1>9

\* No two calls are with one user, which the code does not ensure.
DistinctUsers == \A c, d \in Calls : UserOf[c] = UserOf[d] => c = d

\* NativeReleased, and what makes it inductive: a dialled call never creates its native
\* call while it is set up.
NativeInv == /\ NativeReleased
             /\ \A c \in outgoing : pc[c] \notin {"create", "accept"}

LEMMA NativeStep ==
  ASSUME DistinctUsers
  PROVE  TypeOK /\ BornInv /\ LifeInv /\ NativeInv /\ [Next]_vars => NativeInv'
<1> SUFFICES ASSUME TypeOK, BornInv, LifeInv, NativeInv, [Next]_vars PROVE NativeInv'
  OBVIOUS
<1>1. TypeOK'
  BY TypeStep
<1>2. ASSUME NEW c \in outgoing' PROVE pc'[c] \notin {"create", "accept"}
  <2>1. c \in Calls
    BY <1>1 DEF TypeOK
  <2>2. CASE c \in outgoing
    BY <2>1, <2>2, PathFrame DEF NativeInv
  <2>3. CASE c \notin outgoing
    <3>1. PICK d \in Calls : Dial(d) /\ c = d
      BY <2>3, NativeFrame
    <3>2. pc[c] = "idle" /\ (pc'[c] = "refused" \/ pc'[c] = "dialling")
      BY <3>1 DEF Dial, At, Goto, TypeOK
    <3>3. QED
      BY <3>2
  <2>4. QED
    BY <2>2, <2>3
<1>3. ASSUME NEW c \in Calls, cleanup'[c] = "done", UserOf[c] \in Kept'
      PROVE  /\ c \notin outgoing'
             /\ pc'[c] \in {"accept", "discarding", "done"}
             /\ ~Life!Recorded(c, "call_connected")'
  <2>1. cleanup[c] = "done"
    <3>1. CASE \E d \in Calls : Cleanup(d)
      <4>1. PICK d \in Calls : Cleanup(d)
        BY <3>1
      <4>2. CASE DestroyEngine(d)
        <5>1. UserOf[d] \notin Kept' /\ (c # d => cleanup'[c] = cleanup[c])
          BY <4>2 DEF DestroyEngine, Destroy, Stage, TypeOK, Kept
        <5>2. QED
          BY <5>1, <1>3
      <4>3. CASE ~DestroyEngine(d)
        <5>1. cleanup'[d] # "done" /\ (c # d => cleanup'[c] = cleanup[c])
          BY <4>1, <4>3 DEF Cleanup, CloseChannels, CancelCtx, UnregisterSession, CloseSession,
                            ForgetCall, CloseHub, Stage, TypeOK
        <5>2. QED
          BY <5>1, <1>3
      <4>4. QED
        BY <4>2, <4>3
    <3>2. CASE ~\E d \in Calls : Cleanup(d)
      <4>1. \/ cleanup' = cleanup
            \/ \E d \in Calls : CleanupCall(d)
        BY <3>2, StepOfLife DEF StoreCall, AnnounceCall, Connects, BeginsToEnd, Quiet
      <4>2. \A d \in Calls : CleanupCall(d) => cleanup'[c] \in {cleanup[c], "ended"}
        BY DEF CleanupCall, TypeOK
      <4>3. QED
        BY <4>1, <4>2, <1>3
    <3>3. QED
      BY <3>1, <3>2
  <2>2. LifeOf(c) /\ CtxDone(c)
    BY <2>1 DEF LifeInv, CtxDone, Cancelled
  <2>3. CASE UserOf[c] \in Kept
    <3>1. /\ c \notin outgoing /\ pc[c] \in {"accept", "discarding", "done"}
          /\ ~Life!Recorded(c, "call_connected")
      BY <2>1, <2>3 DEF NativeInv, NativeReleased, Life!Recorded, Kept
    <3>2. pc'[c] \in {"accept", "discarding", "done"}
      BY <2>2, <3>1, PathFrame
    <3>3. c \notin outgoing'
      <4>1. ASSUME NEW d \in Calls, Dial(d) PROVE d # c
        BY <3>1, <4>1 DEF Dial, At
      <4>2. QED
        BY <3>1, <4>1, NativeFrame
    <3>4. ~Life!Recorded(c, "call_connected")'
      <4>1. HubClosed(c)
        BY <2>1 DEF HubClosed
      <4>2. events'[c] = events[c]
        BY <2>1, <3>1, <4>1, StepKeepsEvents
      <4>3. QED
        BY <3>1, <4>2 DEF Life!Recorded
    <3>5. QED
      BY <3>2, <3>3, <3>4
  <2>4. CASE UserOf[c] \notin Kept
    <3>1. PICK d \in Calls : /\ Dial(d) \/ CreateP2P(d)
                             /\ UserOf[d] = UserOf[c]
      BY <1>3, <2>4, NativeFrame
    <3>2. d = c
      BY <3>1 DEF DistinctUsers
    <3>3. ~Dial(c)
      BY <2>1, <2>2 DEF Dial, At, LifeOf, Unborn
    <3>4. CreateP2P(c) /\ pc[c] = "create"
      BY <3>1, <3>2, <3>3 DEF CreateP2P, At
    <3>5. pc'[c] \in {"accept", "discarding"} /\ outgoing' = outgoing /\ events' = events
      BY <3>4 DEF CreateP2P, Fail, Goto, quiet, TypeOK
    <3>6. c \notin outgoing /\ ~Life!Recorded(c, "call_connected")
      BY <2>2, <3>4 DEF NativeInv, LifeOf, Late
    <3>7. QED
      BY <3>5, <3>6 DEF Life!Recorded
  <2>5. QED
    BY <2>3, <2>4
<1>4. QED
  BY <1>2, <1>3 DEF NativeInv, NativeReleased, Life!Recorded, Kept

\* As long as no two calls are with one user, a native call that is there after the cleanup
\* of its call survived a Destroy that failed or timed out, or was created behind the
\* cleanup's back, by an incoming call that will be refused its acceptance: a dialled call
\* and a connected one leave none that Destroy was not asked to take.
THEOREM NativeIsReleased ==
  ASSUME DistinctUsers
  PROVE  Spec => []NativeReleased
<1>1. Init => NativeInv
  BY DEF Init, NativeInv, NativeReleased
<1>2. NativeInv => NativeReleased
  BY DEF NativeInv
<1>3. QED
  BY <1>1, <1>2, NativeStep, LifeInvHolds, PTL DEF Spec

-----------------------------------------------------------------------------
(* The media of a live call.  The engine and the realtime sessions are     *)
(* keyed by user, so what one call has, another call of its user can take. *)

\* Who takes a native call or a realtime session away.
LEMMA MediaFrame ==
  ASSUME [Next]_vars
  PROVE  /\ \A u \in engine : \/ u \in engine'
                              \/ u \in unstopped
                              \/ \E d \in Calls : UserOf[d] = u /\ (RequestCall(d) \/ DestroyEngine(d))
         /\ \A u \in unstopped' : \/ u \in unstopped
                                  \/ \E d \in Calls : /\ UserOf[d] = u
                                                      /\ RequestCall(d) \/ DestroyEngine(d)
         /\ \A c \in realtime \cup selfEnded :
              \/ c \in realtime' \cup selfEnded'
              \/ \E d \in Calls : CloseSession(d) /\ c \in SameUser(d)
<1> USE DEF engineVars, native, models
<1>1. ASSUME NEW d \in Calls, Arrive(d)
      PROVE  /\ UNCHANGED models
             /\ \A u \in engine : u \in engine' \/ (UserOf[d] = u /\ RequestCall(d))
             /\ \A u \in unstopped' : u \in unstopped \/ (UserOf[d] = u /\ RequestCall(d))
  BY <1>1 DEF Arrive, ReceiveCall, Dial, MayCreate, RequestCall, Destroy, RegisterSession,
              StoreCall, AnnounceCall
<1>2. ASSUME NEW d \in Calls, Setup(d) \/ SetupTimeout(d) \/ Expire(d)
      PROVE  /\ realtime \subseteq realtime' /\ selfEnded' = selfEnded
             /\ engine \subseteq engine' /\ unstopped' = unstopped
  BY <1>2 DEF Setup, CreateP2P, MayCreate, AcceptCall, TakeAccepted, ConfirmCall, TakePhoneCall,
              ConnectP2P, ReadConnState, Abandon, StartRealtime, EndBridge, Discard, SetupTimeout,
              Expire
<1>3. ASSUME NEW d \in Calls, Cleanup(d)
      PROVE  /\ selfEnded' = selfEnded
             /\ \A u \in engine : u \in engine' \/ (UserOf[d] = u /\ DestroyEngine(d))
             /\ \A u \in unstopped' : u \in unstopped \/ (UserOf[d] = u /\ DestroyEngine(d))
             /\ \A c \in realtime : c \in realtime' \/ (CloseSession(d) /\ c \in SameUser(d))
  <2>1. CASE DestroyEngine(d)
    BY <2>1 DEF DestroyEngine, Destroy
  <2>2. CASE CloseSession(d)
    BY <2>2 DEF CloseSession
  <2>3. CASE CloseChannels(d) \/ CancelCtx(d) \/ UnregisterSession(d) \/ ForgetCall(d) \/ CloseHub(d)
    BY <2>3 DEF CloseChannels, CancelCtx, UnregisterSession, ForgetCall, CloseHub
  <2>4. QED
    BY <1>3, <2>1, <2>2, <2>3 DEF Cleanup
<1>4. ASSUME NEW g \in Slots, Trigger(g) PROVE UNCHANGED <<native, models>>
  BY <1>4 DEF Trigger, ReceiveUpdate, PeerHangsUp, RequestHangup, SignalingFails, WatchdogFires,
              NativeCallback, Spawn
<1>5. ASSUME NEW g \in Slots, NEW d \in Calls, Act(g, d) PROVE UNCHANGED <<native, models>>
  BY <1>5 DEF Act, DeliverPhoneCall, DeliverAccepted, DeliverSignaling, CallbackSends,
              DiscardSession, HangupCall, Offer, SendPanics, Done
<1>6. CASE Elsewhere \/ UNCHANGED vars
  <2>1. \/ UNCHANGED <<native, models>>
        \/ \E c \in Calls : ProviderEnds(c)
        \/ \E u \in Users : LateStop(u)
    BY <1>6 DEF Elsewhere, StopBot, vars
  <2>2. \A c \in Calls : ProviderEnds(c) =>
           UNCHANGED native /\ realtime \cup selfEnded \subseteq realtime' \cup selfEnded'
    BY DEF ProviderEnds
  <2>3. \A u \in Users : LateStop(u) =>
           /\ UNCHANGED models /\ unstopped' \subseteq unstopped
           /\ u \in unstopped /\ engine' = engine \ {u}
    BY DEF LateStop
  <2>4. QED
    BY <2>1, <2>2, <2>3
<1>7. QED
  BY <1>1, <1>2, <1>3, <1>4, <1>5, <1>6 DEF Next

\* A failed request for a dialled call, and the end of a cleanup.
TookEngine(d) == cleanup[d] = "done" \/ (d \in outgoing /\ pc[d] = "refused")
TookRealtime(d) == cleanup[d] \in {"sessionClosed", "forgotten", "hubClosed", "done"}

\* Nobody but another call of the same user takes the media of a call that nobody has begun
\* to end, except that the provider may end the model session by itself.
MediaTakenByUsersCall ==
  \A c \in Calls : cleanup[c] = "none" =>
    /\ pc[c] \in {"connWait", "realtime", "bridge"} =>
         UserOf[c] \in engine \/ \E d \in SameUser(c) \ {c} : TookEngine(d)
    /\ pc[c] = "bridge" =>
         c \in realtime \cup selfEnded \/ \E d \in SameUser(c) \ {c} : TookRealtime(d)

MediaInv == /\ MediaTakenByUsersCall
            /\ \A u \in unstopped : \E d \in Calls : UserOf[d] = u /\ TookEngine(d)
            /\ \A c \in Calls : pc[c] = "dialling" => c \in outgoing

\* What has been taken was taken for good, as far as the marks of the taker go.
LEMMA TakenStays ==
  ASSUME TypeOK, BornInv, [Next]_vars, NEW d \in Calls
  PROVE  /\ TookEngine(d) => TookEngine(d)'
         /\ TookRealtime(d) => TookRealtime(d)'
         /\ pc'[d] = "dialling" => pc[d] = "dialling" \/ d \in outgoing'
         /\ outgoing \subseteq outgoing'
<1>1. \/ cleanup' = cleanup
      \/ \E e \in Calls : CleanupCall(e) \/ Cleanup(e)
  BY StepOfLife DEF StoreCall, AnnounceCall, Connects, BeginsToEnd, Quiet
<1>2. \A e \in Calls : CleanupCall(e) => cleanup'[d] = cleanup[d] \/ cleanup[d] = "none"
  BY DEF CleanupCall, TypeOK
<1>3. /\ cleanup[d] = "done" => cleanup'[d] = "done"
      /\ TookRealtime(d) => TookRealtime(d)'
  BY <1>1, <1>2, CleanupStage DEF TookRealtime
<1>4. pc[d] = "refused" => pc'[d] = "refused"
  BY PathFrame
<1>5. outgoing \subseteq outgoing' /\ (pc'[d] = "dialling" => pc[d] = "dialling" \/ d \in outgoing')
  BY PathFrame
<1>6. QED
  BY <1>3, <1>4, <1>5 DEF TookEngine

\* Whoever asks Destroy for a native call, successfully or not, is marked.
LEMMA Takers ==
  ASSUME TypeOK, MediaInv, NEW d \in Calls, RequestCall(d) \/ DestroyEngine(d)
  PROVE  UNCHANGED native \/ TookEngine(d)'
<1>1. CASE RequestCall(d)
  <2>1. /\ pc[d] = "dialling" /\ pc'[d] \in {"accepted", "refused"} /\ outgoing' = outgoing
        /\ pc'[d] = "accepted" => UNCHANGED native
    BY <1>1 DEF RequestCall, At, Goto, TypeOK
  <2>2. QED
    BY <2>1 DEF MediaInv, TookEngine
<1>2. CASE DestroyEngine(d)
  BY <1>2 DEF DestroyEngine, Stage, TypeOK, TookEngine
<1>3. QED
  BY <1>1, <1>2

LEMMA MediaStep == TypeOK /\ BornInv /\ MediaInv /\ [Next]_vars => MediaInv'
<1> SUFFICES ASSUME TypeOK, BornInv, MediaInv, [Next]_vars PROVE MediaInv'
  OBVIOUS
<1>1. ASSUME NEW c \in Calls, pc'[c] = "dialling" PROVE c \in outgoing'
  BY <1>1, TakenStays DEF MediaInv
<1>2. ASSUME NEW c \in Calls, cleanup'[c] = "none",
             pc'[c] \in {"connWait", "realtime", "bridge"}
      PROVE  UserOf[c] \in engine' \/ \E d \in SameUser(c) \ {c} : TookEngine(d)'
  <2>1. cleanup[c] = "none"
    BY <1>2, StepEnds DEF EndsOf
  <2>2. UserOf[c] \in engine \/ \E d \in SameUser(c) \ {c} : TookEngine(d)
    <3>1. CASE pc'[c] = pc[c]
      BY <3>1, <2>1, <1>2 DEF MediaInv, MediaTakenByUsersCall
    <3>2. CASE pc'[c] # pc[c]
      <4>1. \/ pc'[c] = "connWait" /\ UserOf[c] \in engine
            \/ pc[c] \in {"connWait", "realtime", "bridge"}
        BY <3>2, <1>2, StepMoves DEF MovesOf, Unregistered
      <4>2. QED
        BY <4>1, <2>1 DEF MediaInv, MediaTakenByUsersCall
    <3>3. QED
      BY <3>1, <3>2
  <2>3. CASE \E d \in SameUser(c) \ {c} : TookEngine(d)
    BY <2>3, TakenStays DEF SameUser
  <2>4. CASE UserOf[c] \in engine /\ UserOf[c] \notin engine'
    <3>1. \E d \in Calls : UserOf[d] = UserOf[c] /\ TookEngine(d)'
      <4>1. CASE UserOf[c] \in unstopped
        BY <4>1, TakenStays DEF MediaInv
      <4>2. CASE UserOf[c] \notin unstopped
        <5>1. PICK d \in Calls : UserOf[d] = UserOf[c] /\ (RequestCall(d) \/ DestroyEngine(d))
          BY <2>4, <4>2, MediaFrame
        <5>2. QED
          BY <2>4, <5>1, Takers DEF native
      <4>3. QED
        BY <4>1, <4>2
    <3>2. ~TookEngine(c)'
      BY <1>2 DEF TookEngine
    <3>3. QED
      BY <3>1, <3>2 DEF SameUser
  <2>5. QED
    BY <2>2, <2>3, <2>4
<1>3. ASSUME NEW c \in Calls, cleanup'[c] = "none", pc'[c] = "bridge"
      PROVE  c \in realtime' \cup selfEnded' \/ \E d \in SameUser(c) \ {c} : TookRealtime(d)'
  <2>1. cleanup[c] = "none"
    BY <1>3, StepEnds DEF EndsOf
  <2>2. \/ c \in realtime' \/ c \in realtime \cup selfEnded
        \/ \E d \in SameUser(c) \ {c} : TookRealtime(d)
    BY <2>1, <1>3, StepMoves DEF MovesOf, MediaInv, MediaTakenByUsersCall, Unregistered
  <2>3. CASE \E d \in SameUser(c) \ {c} : TookRealtime(d)
    BY <2>3, TakenStays DEF SameUser
  <2>4. CASE c \in realtime \cup selfEnded /\ c \notin realtime' \cup selfEnded'
    <3>1. PICK d \in Calls : CloseSession(d) /\ c \in SameUser(d)
      BY <2>4, MediaFrame
    <3>2. cleanup[d] = "unregistered" /\ cleanup'[d] = "sessionClosed"
      BY <3>1 DEF CloseSession, Stage, TypeOK
    <3>3. QED
      BY <3>1, <3>2, <2>1 DEF SameUser, TookRealtime
  <2>5. QED
    BY <2>2, <2>3, <2>4
<1>4. ASSUME NEW u \in unstopped' PROVE \E d \in Calls : UserOf[d] = u /\ TookEngine(d)'
  <2>1. CASE u \in unstopped
    BY <2>1, TakenStays DEF MediaInv
  <2>2. CASE u \notin unstopped
    <3>1. PICK d \in Calls : UserOf[d] = u /\ (RequestCall(d) \/ DestroyEngine(d))
      BY <2>2, MediaFrame
    <3>2. UNCHANGED unstopped \/ TookEngine(d)'
      BY <3>1, Takers DEF native
    <3>3. QED
      BY <2>2, <3>1, <3>2
  <2>3. QED
    BY <2>1, <2>2
<1>5. QED
  BY <1>1, <1>2, <1>3, <1>4 DEF MediaInv, MediaTakenByUsersCall, SameUser

\* Whatever the calls and their users: a call that nobody has begun to end loses its native
\* call only to a Destroy, answered or late, that another call of its user asked for when it
\* failed to be dialled or was cleaned up; and its model session only to its provider or to
\* the cleanup of another call of its user.
THEOREM MediaTakenOnlyByUser == Spec => []MediaTakenByUsersCall
<1>1. Init => MediaInv
  BY DEF Init, MediaInv, MediaTakenByUsersCall
<1>2. MediaInv => MediaTakenByUsersCall
  BY DEF MediaInv
<1>3. QED
  BY <1>1, <1>2, MediaStep, LifeInvHolds, PTL DEF Spec

\* As long as no two calls are with one user, a call whose audio bridge runs keeps its
\* native call, and its model session unless the provider ends it, until somebody begins its
\* cleanup.
THEOREM MediaKept ==
  ASSUME DistinctUsers
  PROVE  Spec => []LiveCallHasMedia
<1>1. MediaTakenByUsersCall => LiveCallHasMedia
  BY DEF MediaTakenByUsersCall, LiveCallHasMedia, SameUser, DistinctUsers
<1>2. QED
  BY <1>1, MediaTakenOnlyByUser, PTL
=============================================================================
