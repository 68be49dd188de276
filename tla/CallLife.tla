------------------------------ MODULE CallLife ------------------------------
(***************************************************************************)
(* The life of calls as far as their subscribers can tell, with no word on *)
(* goroutines, timers, peers or media: what the hub of a call records, and *)
(* when the call leaves activeCalls and its hub closes.                    *)
(*                                                                         *)
(* The order promised is weaker than the names of the events suggest.  A   *)
(* call is connected only after it started, each of the three is told once *)
(* and a call leaves only after its end was told; but call_started and     *)
(* call_connected may follow call_ended.                                   *)
(*                                                                         *)
(* CallSession implements this specification for all calls of a bot, and   *)
(* CallStream puts the hub of one call under its promise.                  *)
(***************************************************************************)
EXTENDS Sequences

CONSTANTS Calls,  \* the calls
          Types   \* the event types that can be published

VARIABLES log,    \* the types of the events recorded for each call, in order
          gone,   \* calls that have been in activeCalls and are no longer
          closed  \* calls whose hub is closed

lifeVars == <<log, gone, closed>>

\* What a call is told of itself at most once; the other types are the model's events.
Once == {"call_started", "call_connected", "call_ended"}

Recorded(c, t) == \E i \in DOMAIN log[c] : log[c][i] = t

Init == /\ log = [c \in Calls |-> <<>>]
        /\ gone = {}
        /\ closed = {}

Record(c, t) ==
  /\ c \notin closed
  /\ t \in Once => ~Recorded(c, t)
  /\ t = "call_connected" => Recorded(c, "call_started")
  /\ log' = [log EXCEPT ![c] = Append(@, t)]
  /\ UNCHANGED <<gone, closed>>

\* Mutant of Leave: the call is taken out before its end is told.
LeaveUntold(c) ==
  /\ gone' = gone \cup {c}
  /\ UNCHANGED <<log, closed>>

Leave(c) ==
  /\ Recorded(c, "call_ended")
  /\ gone' = gone \cup {c}
  /\ UNCHANGED <<log, closed>>

Close(c) ==
  /\ c \in gone
  /\ closed' = closed \cup {c}
  /\ UNCHANGED <<log, gone>>

Next == \E c \in Calls : \/ \E t \in Types : Record(c, t)
                         \/ Leave(c)
                         \/ Close(c)

Spec == Init /\ [][Next]_lifeVars
=============================================================================
