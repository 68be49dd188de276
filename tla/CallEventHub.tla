---------------------------- MODULE CallEventHub ----------------------------
(***************************************************************************)
(* The event hub of one call (telegram/call_events.go) together with its   *)
(* two users: the gRPC handler that streams the events to a client         *)
(* (delivery/rpc/server.go, User.SubscribeCallEvents) and the end of       *)
(* cleanupCall, which takes the call out of activeCalls and then closes    *)
(* the hub.                                                                *)
(*                                                                         *)
(* h.mu is held across a step only by subscribe, whose replay SENDS the    *)
(* history into a channel of ChanCap places that nobody reads yet; the     *)
(* variable holder is the subscription that holds it.  publish, close and  *)
(* the unsubscribing goroutine run under h.mu without blocking, so each is *)
(* one step that needs holder = None.                                      *)
(***************************************************************************)
EXTENDS Integers, Sequences, FiniteSets

CONSTANTS Types,      \* event types: "call_started", "call_ended", model events
          Subs,       \* subscriptions, one per SubscribeCallEvents RPC
          ChanCap,    \* capacity of a subscriber's channel (64 in the code)
          MaxEvents,  \* bound of the model: events published in one call
          None        \* no subscription holds h.mu

ASSUME HubAssumption == /\ ChanCap \in Nat \ {0}
                        /\ MaxEvents \in Nat
                        /\ None \notin Subs

VARIABLES history,    \* h.history
          closed,     \* h.closed
          subs,       \* h.subs: subscriptions whose channel publish sends to
          holder,     \* who holds h.mu across steps
          listed,     \* the call is in bot.activeCalls
          registry,   \* whether this call's bot is the one getBot finds: not yet,
                      \* now, or no longer
          pc,         \* where the RPC handler of each subscription is
          after,      \* after_sequence of each subscription
          next,       \* replay position in history, while subscribe runs
          chan,       \* contents of each subscription's channel
          cancelled,  \* the stream's context is done: the client has gone
          got,        \* events sent to the client
          lost        \* history variable: numbers publish found no room for

vars == <<history, closed, subs, holder, listed, registry, pc, after, next, chan, cancelled, got, lost>>

Event == [sequence : 1..MaxEvents, type : Types]

Init == /\ history = <<>>
        /\ closed = FALSE
        /\ subs = {}
        /\ holder = None
        /\ listed = TRUE
        /\ registry \in {"before", "this"}
        /\ pc = [s \in Subs |-> "idle"]
        /\ after = [s \in Subs |-> 0]
        /\ next = [s \in Subs |-> 1]
        /\ chan = [s \in Subs |-> <<>>]
        /\ cancelled = [s \in Subs |-> FALSE]
        /\ got = [s \in Subs |-> <<>>]
        /\ lost = [s \in Subs |-> {}]

-----------------------------------------------------------------------------
(* publish: numbered, recorded, and offered to every subscriber without    *)
(* waiting.  A channel with no room misses the event for good.             *)

\* Mutant of HasRoom: one event too many is buffered.
HasRoomInclusive(s) == Len(chan[s]) <= ChanCap

HasRoom(s) == Len(chan[s]) < ChanCap

Numbered(t) == [sequence |-> Len(history) + 1, type |-> t]

Publish(t) ==
  /\ ~closed
  /\ holder = None
  /\ Len(history) < MaxEvents
  /\ history' = Append(history, Numbered(t))
  /\ chan' = [s \in Subs |-> IF s \in subs /\ HasRoom(s)
                               THEN Append(chan[s], Numbered(t)) ELSE chan[s]]
  /\ lost' = [s \in Subs |-> IF s \in subs /\ ~HasRoom(s)
                               THEN lost[s] \cup {Len(history) + 1} ELSE lost[s]]
  /\ UNCHANGED <<closed, subs, holder, listed, registry, pc, after, next, cancelled, got>>

-----------------------------------------------------------------------------
(* The RPC: the bot is looked up by its user, the call in the activeCalls  *)
(* of the bot found, then the hub subscribed.  after_sequence is the       *)
(* number of an event the client has seen, or 0.                           *)

\* initializeBot has started the client, which can take calls, before setBot registers it.
SetBot == /\ registry = "before"
          /\ registry' = "this"
          /\ UNCHANGED <<history, closed, subs, holder, listed, pc, after, next, chan, cancelled, got, lost>>

\* StopUserBot deletes the bot, or another bot of the user is set in its place.
LoseBot == /\ registry = "this"
           /\ registry' = "after"
           /\ UNCHANGED <<history, closed, subs, holder, listed, pc, after, next, chan, cancelled, got, lost>>

\* Another bot of the user does not know the call; with none the answer is "bot not found".
Lookup(s) ==
  /\ pc[s] = "idle"
  /\ \E a \in 0..Len(history) : after' = [after EXCEPT ![s] = a]
  /\ pc' = [pc EXCEPT ![s] = IF registry # "this" THEN "misdirected"
                             ELSE IF listed THEN "found" ELSE "refused"]
  /\ UNCHANGED <<history, closed, subs, holder, listed, registry, next, chan, cancelled, got, lost>>

\* h.mu.Lock() at the head of subscribe.
BeginReplay(s) ==
  /\ pc[s] = "found"
  /\ holder = None
  /\ holder' = s
  /\ pc' = [pc EXCEPT ![s] = "replay"]
  /\ UNCHANGED <<history, closed, subs, listed, registry, after, next, chan, cancelled, got, lost>>

\* Mutants of Wanted: the boundary of after_sequence is off by one, either way.
WantedAfterNext(s, e) == e.sequence > after[s] + 1
WantedInclusive(s, e) == e.sequence >= after[s]

Wanted(s, e) == e.sequence > after[s]

\* One turn of the replay loop.  The send blocks when the channel is full, and
\* nobody can receive from a channel that subscribe has not returned yet.
ReplayOne(s) ==
  /\ pc[s] = "replay"
  /\ next[s] <= Len(history)
  /\ \/ /\ Wanted(s, history[next[s]])
        /\ HasRoom(s)
        /\ chan' = [chan EXCEPT ![s] = Append(@, history[next[s]])]
     \/ /\ ~Wanted(s, history[next[s]])
        /\ UNCHANGED chan
  /\ next' = [next EXCEPT ![s] = @ + 1]
  /\ UNCHANGED <<history, closed, subs, holder, listed, registry, pc, after, cancelled, got, lost>>

\* The channel of a closed hub is closed instead of joining h.subs.
EndReplay(s) ==
  /\ pc[s] = "replay"
  /\ next[s] > Len(history)
  /\ holder' = None
  /\ subs' = IF closed THEN subs ELSE subs \cup {s}
  /\ pc' = [pc EXCEPT ![s] = "streaming"]
  /\ UNCHANGED <<history, closed, listed, registry, after, next, chan, cancelled, got, lost>>

\* A channel is open exactly while it is in h.subs.
ChanClosed(s) == s \notin subs

\* The handler's loop: receive an event and Send it, which may fail.
SendEvent(s) ==
  /\ pc[s] = "streaming"
  /\ chan[s] # <<>>
  /\ chan' = [chan EXCEPT ![s] = Tail(@)]
  /\ \/ /\ got' = [got EXCEPT ![s] = Append(@, Head(chan[s]))]
        /\ UNCHANGED pc
     \/ /\ pc' = [pc EXCEPT ![s] = "failed"]
        /\ UNCHANGED got
  /\ UNCHANGED <<history, closed, subs, holder, listed, registry, after, next, cancelled, lost>>

\* The loop returns: nil on a closed and drained channel, the context's error otherwise.
EndStream(s) ==
  /\ pc[s] = "streaming"
  /\ \/ /\ ChanClosed(s)
        /\ chan[s] = <<>>
        /\ pc' = [pc EXCEPT ![s] = "ended"]
     \/ /\ cancelled[s]
        /\ pc' = [pc EXCEPT ![s] = "failed"]
  /\ UNCHANGED <<history, closed, subs, holder, listed, registry, after, next, chan, cancelled, got, lost>>

Disconnect(s) ==
  /\ pc[s] \in {"found", "replay", "streaming"}
  /\ ~cancelled[s]
  /\ cancelled' = [cancelled EXCEPT ![s] = TRUE]
  /\ UNCHANGED <<history, closed, subs, holder, listed, registry, pc, after, next, chan, got, lost>>

\* The goroutine of subscribe; the stream's context is also done once the handler has returned.
Unsubscribe(s) ==
  /\ s \in subs
  /\ cancelled[s] \/ pc[s] = "failed"
  /\ holder = None
  /\ subs' = subs \ {s}
  /\ UNCHANGED <<history, closed, holder, listed, registry, pc, after, next, chan, cancelled, got, lost>>

-----------------------------------------------------------------------------
(* The end of cleanupCall: activeCalls.Delete, then eventHub.close.        *)

RemoveCall ==
  /\ listed
  /\ listed' = FALSE
  /\ UNCHANGED <<history, closed, subs, holder, registry, pc, after, next, chan, cancelled, got, lost>>

\* Mutant of CloseHub: the subscribers' channels stay open.
CloseHubKeepingChannels ==
  /\ ~listed
  /\ ~closed
  /\ holder = None
  /\ closed' = TRUE
  /\ UNCHANGED <<history, subs, holder, listed, registry, pc, after, next, chan, cancelled, got, lost>>

CloseHub ==
  /\ ~listed
  /\ ~closed
  /\ holder = None
  /\ closed' = TRUE
  /\ subs' = {}
  /\ UNCHANGED <<history, holder, listed, registry, pc, after, next, chan, cancelled, got, lost>>

-----------------------------------------------------------------------------
Handler(s) == ReplayOne(s) \/ EndReplay(s) \/ SendEvent(s) \/ EndStream(s)

Next == \/ \E t \in Types : Publish(t)
        \/ \E s \in Subs : \/ Lookup(s) \/ BeginReplay(s) \/ Handler(s)
                           \/ Disconnect(s) \/ Unsubscribe(s)
        \/ SetBot \/ LoseBot
        \/ RemoveCall
        \/ CloseHub

Spec == Init /\ [][Next]_vars

\* Goroutines that can run do, and sync.Mutex does not starve a waiter: strong fairness of
\* the steps that lock it.  Nothing makes a call end: when its bot is stopped some waits of
\* its setup return without cleanupCall.
Fairness == /\ \A s \in Subs : /\ WF_vars(Handler(s))
                               /\ SF_vars(BeginReplay(s))
                               /\ SF_vars(Unsubscribe(s))
            /\ SF_vars(CloseHub)

FairSpec == Spec /\ Fairness

-----------------------------------------------------------------------------
TypeOK ==
  /\ history \in Seq(Event)
  /\ closed \in BOOLEAN
  /\ subs \subseteq Subs
  /\ holder \in Subs \cup {None}
  /\ listed \in BOOLEAN
  /\ registry \in {"before", "this", "after"}
  /\ pc \in [Subs -> {"idle", "misdirected", "refused", "found", "replay", "streaming", "ended", "failed"}]
  /\ after \in [Subs -> 0..MaxEvents]
  /\ next \in [Subs -> 1..(MaxEvents + 1)]
  /\ chan \in [Subs -> Seq(Event)]
  /\ \A s \in Subs : Len(chan[s]) <= ChanCap
  /\ cancelled \in [Subs -> BOOLEAN]
  /\ got \in [Subs -> Seq(Event)]
  /\ lost \in [Subs -> SUBSET (1..MaxEvents)]

Sequences(q) == {q[i].sequence : i \in DOMAIN q}

\* Every number after the cursor is received, waiting in the channel or lost.
Accounted(s) ==
  Sequences(got[s]) \cup Sequences(chan[s]) \cup lost[s] = (after[s] + 1)..Len(history)

\* The stream of a client that is still there misses nothing but the events that
\* publish dropped for a full channel, whatever publish, close and the other
\* subscriptions do between the lookup of the call and the hand-over from replay to
\* live delivery; and when it returns nil it has handed over the events of the whole
\* call, call_ended included (call_events.go subscribe, publish and close together).
StreamIsComplete ==
  \A s \in Subs : pc[s] \in {"streaming", "ended"} /\ ~cancelled[s] =>
    /\ Accounted(s)
    /\ pc[s] = "ended" => closed /\ chan[s] = <<>>

Log == INSTANCE CallEventLog WITH log <- history, ended <- closed, cursor <- after,
                                  delivered <- got

\* The hub implements the numbered, append-only, forward-only log.
ImplementsLog == Log!Spec

\* subscribe waits, with h.mu held, for a receiver that does not exist yet.
Stuck(s) == /\ pc[s] = "replay"
            /\ next[s] <= Len(history)
            /\ Wanted(s, history[next[s]])
            /\ ~HasRoom(s)

ReplayStuck == \E s \in Subs : Stuck(s)

\* A replay gets stuck only for a client that has missed more events than a channel has
\* places; everybody else's subscription starts, however many streams the call has.
StuckOnlyBehind == \A s \in Subs : Stuck(s) => Len(history) > after[s] + ChanCap

\* What README.md says of after_sequence: a client can resume the stream.  Every
\* subscription to a listed call comes to stream events.
ResumedStreamStarts == \A s \in Subs : pc[s] = "replay" ~> pc[s] = "streaming"
=============================================================================
