----------------------------- MODULE OutgoingCall -----------------------------
(***************************************************************************)
(* StartOutgoingCall of the gRPC front end (delivery/rpc/server.go,        *)
(* User.InitiateOutgoingCall in telegram/telegram.go).  The goroutine that *)
(* dials returns nothing to the request that started it: the request polls *)
(* the bot's activeCalls and answers with a call that was not there when   *)
(* it began.  How a call comes to be stored and forgotten is CallSession's *)
(* matter (StoreCall, ForgetCall); here only that it happens.              *)
(***************************************************************************)
EXTENDS Integers

CONSTANTS CallIds,  \* call ids
          Requests, \* StartOutgoingCall requests to one bot
          NoCall    \* what a request without a call has

ASSUME DialAssumption == NoCall \notin CallIds

VARIABLES activeCalls, \* b.activeCalls
          used,        \* ids that have been a call's
          request,     \* where each request is
          before,      \* activeCalls as the request found it
          dialling,    \* requests whose goroutine has not stored its call yet
          dialled,     \* history: the call the goroutine stored
          answer,      \* the call whose id was answered
          intruded     \* history: requests during whose wait another call was stored

dialVars == <<activeCalls, used, request, before, dialling, dialled, answer, intruded>>

DialInit == /\ activeCalls = {} /\ used = {}
            /\ request = [r \in Requests |-> "idle"]
            /\ before = [r \in Requests |-> {}]
            /\ dialling = {}
            /\ dialled = [r \in Requests |-> NoCall]
            /\ answer = [r \in Requests |-> NoCall]
            /\ intruded = {}

Waiting == {r \in Requests : request[r] = "waiting"}

\* The snapshot of activeCalls, and the goroutine.  Without a bot, user or target the
\* request fails at once, which changes nothing.
BeginRequest(r) ==
  /\ request[r] = "idle"
  /\ request' = [request EXCEPT ![r] = "waiting"]
  /\ before' = [before EXCEPT ![r] = activeCalls]
  /\ dialling' = dialling \cup {r}
  /\ UNCHANGED <<activeCalls, used, dialled, answer, intruded>>

Store(c) == /\ c \notin used
            /\ used' = used \cup {c}
            /\ activeCalls' = activeCalls \cup {c}

\* Bot.InitiateOutgoingCall has got through to Telegram, perhaps after the deadline.
StoreDialled(r, c) ==
  /\ r \in dialling
  /\ Store(c)
  /\ dialling' = dialling \ {r}
  /\ dialled' = [dialled EXCEPT ![r] = c]
  /\ intruded' = intruded \cup (Waiting \ {r})
  /\ UNCHANGED <<request, before, answer>>

\* It has failed on its way; nobody is told.
DialFails(r) == /\ r \in dialling
                /\ dialling' = dialling \ {r}
                /\ UNCHANGED <<activeCalls, used, request, before, dialled, answer, intruded>>

\* A peer calls.
StoreIncoming(c) == /\ Store(c)
                    /\ intruded' = intruded \cup Waiting
                    /\ UNCHANGED <<request, before, dialling, dialled, answer>>

\* The end of cleanupCall.
ForgetCall(c) == /\ c \in activeCalls
                 /\ activeCalls' = activeCalls \ {c}
                 /\ UNCHANGED <<used, request, before, dialling, dialled, answer, intruded>>

\* Mutant of NewCalls: the snapshot is not looked at.
NewCallsOrOld(r) == activeCalls

NewCalls(r) == activeCalls \ before[r]

\* A tick of the 100 ms ticker finds a call.
AnswerRequest(r) ==
  /\ request[r] = "waiting"
  /\ \E c \in NewCalls(r) : answer' = [answer EXCEPT ![r] = c]
  /\ request' = [request EXCEPT ![r] = "answered"]
  /\ UNCHANGED <<activeCalls, used, before, dialling, dialled, intruded>>

\* "outgoing call was not created", after 30 s.  That the client has gone is not noticed:
\* the request runs under context.WithoutCancel.
TimeoutRequest(r) ==
  /\ request[r] = "waiting"
  /\ request' = [request EXCEPT ![r] = "failed"]
  /\ UNCHANGED <<activeCalls, used, before, dialling, dialled, answer, intruded>>

DialNext ==
  \/ \E r \in Requests : \/ BeginRequest(r) \/ DialFails(r) \/ AnswerRequest(r) \/ TimeoutRequest(r)
                         \/ \E c \in CallIds : StoreDialled(r, c)
  \/ \E c \in CallIds : StoreIncoming(c) \/ ForgetCall(c)

DialSpec == DialInit /\ [][DialNext]_dialVars

-----------------------------------------------------------------------------
DialTypeOK ==
  /\ activeCalls \subseteq used /\ used \subseteq CallIds
  /\ request \in [Requests -> {"idle", "waiting", "answered", "failed"}]
  /\ before \in [Requests -> SUBSET CallIds]
  /\ dialling \subseteq Requests
  /\ dialled \in [Requests -> CallIds \cup {NoCall}]
  /\ answer \in [Requests -> CallIds \cup {NoCall}]
  /\ intruded \subseteq Requests

\* The client is given the id of the call that was dialled for it, unless another call of
\* the bot, incoming or another request's, was stored while it waited
\* (User.InitiateOutgoingCall, whose answer SubscribeCallEvents and HangupCall are then used with).
AnswerIsOwn ==
  \A r \in Requests : request[r] = "answered" => answer[r] = dialled[r] \/ r \in intruded
=============================================================================
