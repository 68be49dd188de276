----------------------------- MODULE CallStream -----------------------------
(***************************************************************************)
(* The hub of one call driven by its call: CallEventHub under the promise  *)
(* of CallLife, which CallSession is shown to keep.  What is published,    *)
(* when the call leaves activeCalls and when the hub closes is the         *)
(* call's choice; replay, delivery, drops and clients are the hub's.       *)
(***************************************************************************)
EXTENDS CallEventHub

ThisCall == "call"

Life == INSTANCE CallLife WITH
          Calls  <- {ThisCall},
          log    <- [c \in {ThisCall} |-> [i \in 1..Len(history) |-> history[i].type]],
          gone   <- {c \in {ThisCall} : ~listed},
          closed <- {c \in {ThisCall} : closed}

\* Where call_ended stands in the history.
EndAt == {i \in 1..Len(history) : history[i].type = "call_ended"}

\* Bound of the model: the last place in the history is for the end.
RoomForEnd == Len(history) < MaxEvents \/ EndAt # {}

\* A step of the hub that its call allows.
StreamNext == Next /\ [Life!Next]_(Life!lifeVars) /\ RoomForEnd'

StreamSpec == Init /\ [][StreamNext]_vars

\* What is left of cleanupCall, as far as the hub is concerned, once it has announced the end.
RestOfCleanup == EndAt # {} /\ (RemoveCall \/ CloseHub)

\* The fairness of the hub; and a cleanup that has begun goes on: it waits for nothing but
\* h.mu.  That it begins is not assumed (see EveryCallIsForgotten of CallSession).
StreamFairness == /\ \A s \in Subs : /\ WF_vars(Handler(s))
                                     /\ SF_vars(BeginReplay(s))
                                     /\ SF_vars(Unsubscribe(s))
                  /\ SF_vars(RestOfCleanup)

FairStreamSpec == StreamSpec /\ StreamFairness

-----------------------------------------------------------------------------
\* A stream that returns nil to a client that is still there has told it that the call is
\* over: call_ended was sent to it, unless publish dropped it for a full channel or the
\* client had seen it before.
NilMeansEnded ==
  \A s \in Subs : pc[s] = "ended" /\ ~cancelled[s] =>
    \E i \in EndAt : i \in Sequences(got[s]) \cup lost[s] \/ i <= after[s]

\* A client that comes back and is told by the bot of its call that there is no such call
\* will never see call_ended; but the refusal says the same: the end has been recorded.  A
\* client that getBot sends to no bot, or to a successor that has never heard of the call
\* ("misdirected"), learns nothing of it.
RefusedMeansOver == \A s \in Subs : pc[s] = "refused" => EndAt # {}

\* A client is sent away by the bot of its call only when the call is over, with nil or with
\* a refusal.  The handler of rpc/server.go returns nil on a closed channel and does not look
\* at the events, User.SubscribeCallEvents looks at activeCalls only: it is the order of
\* publish, Delete and close in cleanupCall, and of replay and live delivery, that makes
\* both right.
StreamTellsEnd == NilMeansEnded /\ RefusedMeansOver

\* Once the cleanup of the call has begun every stream returns, one that was still subscribing
\* included, unless a stuck replay keeps close from taking h.mu.
StreamsReturn ==
  \A s \in Subs : (EndAt # {} /\ pc[s] \in {"found", "replay", "streaming"})
                     ~> (pc[s] \in {"ended", "failed"} \/ ReplayStuck)
=============================================================================
