---------------------------- MODULE CallEventLog ----------------------------
(***************************************************************************)
(* What the event stream of one call promises to its subscribers, with no  *)
(* word on buffers, locks or goroutines: an append-only log of numbered    *)
(* events, ended once, and for every subscription a sequence of deliveries *)
(* that walks forward through the log from the cursor the subscriber gave. *)
(* An event may be skipped, but it is never repeated, reordered, altered   *)
(* or invented.  CallEventHub is shown to implement this specification.    *)
(***************************************************************************)
EXTENDS Integers, Sequences

CONSTANTS Types,  \* the event types that can be published
          Subs    \* the subscriptions

VARIABLES log,       \* the published events, in order
          ended,     \* no further event will be published
          cursor,    \* after_sequence of each subscription
          delivered  \* the events each subscription has received, in order

logVars == <<log, ended, cursor, delivered>>

Event == [sequence : Nat, type : Types]

\* The sequence number up to which s has been served.
Served(s) == IF delivered[s] = <<>> THEN cursor[s]
                                   ELSE delivered[s][Len(delivered[s])].sequence

Init == /\ log = <<>>
        /\ ended = FALSE
        /\ cursor = [s \in Subs |-> 0]
        /\ delivered = [s \in Subs |-> <<>>]

\* An event is numbered by its place in the log.
Record(t) == /\ ~ended
             /\ log' = Append(log, [sequence |-> Len(log) + 1, type |-> t])
             /\ UNCHANGED <<ended, cursor, delivered>>

End == /\ ended' = TRUE
       /\ UNCHANGED <<log, cursor, delivered>>

\* A subscription starts, or resumes, after an event it knows of.
Open(s) == /\ delivered[s] = <<>>
           /\ \E a \in 0..Len(log) : cursor' = [cursor EXCEPT ![s] = a]
           /\ UNCHANGED <<log, ended, delivered>>

\* Delivery moves forward in the log.
Deliver(s) == /\ \E i \in 1..Len(log) :
                    /\ i > Served(s)
                    /\ delivered' = [delivered EXCEPT ![s] = Append(@, log[i])]
              /\ UNCHANGED <<log, ended, cursor>>

Next == \/ \E t \in Types : Record(t)
        \/ End
        \/ \E s \in Subs : Open(s) \/ Deliver(s)

Spec == Init /\ [][Next]_logVars
=============================================================================
