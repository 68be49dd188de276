------------------------------- MODULE NtgAsync -------------------------------
(***************************************************************************)
(* The asynchronous calls into the native library                          *)
(* (telegram/ntgcalls_purego_impl.go).  A call gets a handle, native       *)
(* memory for its error and, for some, a native copy of its payload; the   *)
(* library answers whenever it likes, by writing to that memory and        *)
(* calling the promise with the handle.  Who waits for the answer, for how *)
(* long, and what is released when, depends on the kind of the call:       *)
(*                                                                         *)
(*   "plain"     CreateP2P, the exchanges, ConnectP2P, SetExternalPlayback,*)
(*               unmute, Destroy: wait, then a deferred asyncFree          *)
(*   "signaling" SendSignalingData: the same, and its payload is released  *)
(*   "sources"   each mode of SetExternalBoth: asyncFree on failures only  *)
(*   "frame"     SendAudio: nobody waits; a pool of workers, or a          *)
(*               goroutine of its own when their queue is full, cleans up  *)
(***************************************************************************)
EXTENDS Integers, Sequences, FiniteSets

CONSTANTS Handles,  \* calls into the library, by their handles
          Workers,  \* goroutines of the frame pool (8 in the code)
          QueueCap  \* capacity of ntgPureGoFrameCleanupCh (1024 in the code)

ASSUME AsyncAssumption == Workers \in Nat \ {0} /\ QueueCap \in Nat

VARIABLES kind,     \* what each handle was made for
          stage,    \* where the Go side of each call is
          native,   \* where the library is with it
          table,    \* asyncHandles
          closed,   \* calls whose channel the promise has closed
          slots,    \* the native memory for the error code and message
          buffer,   \* the native copy of the payload
          queue,    \* ntgPureGoFrameCleanupCh
          pool,     \* frames the workers of the pool hold
          givenUp  \* history: calls given up before their answer

callVars == <<kind, stage, native, closed, queue, pool, givenUp>>
memory == <<table, slots, buffer>>
asyncVars == <<kind, stage, native, table, closed, slots, buffer, queue, pool, givenUp>>

Kinds == {"plain", "signaling", "sources", "frame"}

HasBuffer(k) == k \in {"signaling", "frame"}

AsyncInit == /\ kind = [h \in Handles |-> "none"]
             /\ stage = [h \in Handles |-> "new"]
             /\ native = [h \in Handles |-> "none"]
             /\ table = {}
             /\ closed = {}
             /\ slots = [h \in Handles |-> "none"]
             /\ buffer = [h \in Handles |-> "none"]
             /\ queue = <<>>
             /\ pool = {}
             /\ givenUp = {}

Enter(h, s) == stage' = [stage EXCEPT ![h] = s]

\* asyncFree, given the table it finds: without an entry nothing is released.
AsyncFree(h, found) ==
  /\ table' = found \ {h}
  /\ slots' = [slots EXCEPT ![h] = IF h \in found THEN "freed" ELSE @]

ReleaseBuffer(h) == buffer' = [buffer EXCEPT ![h] = IF @ = "held" THEN "freed" ELSE @]

-----------------------------------------------------------------------------
\* asyncNew and the call of the foreign function, which hands the library the memory.
CallLibrary(h, k) ==
  /\ stage[h] = "new"
  /\ Enter(h, "calling")
  /\ kind' = [kind EXCEPT ![h] = k]
  /\ native' = [native EXCEPT ![h] = "working"]
  /\ table' = table \cup {h}
  /\ slots' = [slots EXCEPT ![h] = "held"]
  /\ buffer' = [buffer EXCEPT ![h] = IF HasBuffer(k) THEN "held" ELSE @]
  /\ UNCHANGED <<closed, queue, pool, givenUp>>

\* ret < 0: the library has not taken the call.
Refuse(h) ==
  /\ stage[h] = "calling"
  /\ native[h] = "working"
  /\ Enter(h, "returned")
  /\ native' = [native EXCEPT ![h] = "none"]
  /\ AsyncFree(h, table)
  /\ ReleaseBuffer(h)
  /\ UNCHANGED <<kind, closed, queue, pool, givenUp>>

\* The caller goes on to asyncWait.
Wait(h) ==
  /\ stage[h] = "calling"
  /\ kind[h] # "frame"
  /\ Enter(h, "waiting")
  /\ UNCHANGED <<kind, native, closed, queue, pool, givenUp, memory>>

\* SendAudio queues the frame for the pool, or spawns a goroutine for it.
QueueFrame(h) ==
  /\ stage[h] = "calling"
  /\ kind[h] = "frame"
  /\ \/ /\ Len(queue) < QueueCap
        /\ Enter(h, "queued")
        /\ queue' = Append(queue, h)
     \/ /\ Len(queue) >= QueueCap
        /\ Enter(h, "cleaning")
        /\ UNCHANGED queue
  /\ UNCHANGED <<kind, native, closed, pool, givenUp, memory>>

\* The library reads the payload, writes the error and calls the promise, which closes
\* the channel of a call that is in the table and ignores any other.
Answer(h) ==
  /\ native[h] = "working"
  /\ native' = [native EXCEPT ![h] = "answered"]
  /\ closed' = IF h \in table THEN closed \cup {h} ELSE closed
  /\ UNCHANGED <<kind, stage, queue, pool, givenUp, memory>>

\* asyncWait returns; SetExternalBoth keeps the handle of a call that succeeded.
WaitReturns(h) ==
  /\ stage[h] = "waiting"
  /\ h \in closed
  /\ Enter(h, "returned")
  /\ \/ AsyncFree(h, table)
     \/ kind[h] = "sources" /\ UNCHANGED <<table, slots>>
  /\ ReleaseBuffer(h)
  /\ UNCHANGED <<kind, native, closed, queue, pool, givenUp>>

\* Mutant of WaitTimeout: the entry stays, so the deferred asyncFree releases the memory.
WaitTimeoutFrees(h) ==
  /\ stage[h] = "waiting"
  /\ Enter(h, "returned")
  /\ givenUp' = IF h \in closed THEN givenUp ELSE givenUp \cup {h}
  /\ AsyncFree(h, table)
  /\ ReleaseBuffer(h)
  /\ UNCHANGED <<kind, native, closed, queue, pool>>

\* asyncWait gives up: it deletes the entry, so that the asyncFree of its caller finds
\* nothing to release.  An answer in the same moment may lose.
WaitTimeout(h) ==
  /\ stage[h] = "waiting"
  /\ Enter(h, "returned")
  /\ givenUp' = IF h \in closed THEN givenUp ELSE givenUp \cup {h}
  /\ AsyncFree(h, table \ {h})
  /\ ReleaseBuffer(h)
  /\ UNCHANGED <<kind, native, closed, queue, pool>>

-----------------------------------------------------------------------------
\* A worker of the pool takes a frame.
TakeFrame ==
  /\ queue # <<>>
  /\ Cardinality(pool) < Workers
  /\ Enter(Head(queue), "cleaning")
  /\ pool' = pool \cup {Head(queue)}
  /\ queue' = Tail(queue)
  /\ UNCHANGED <<kind, native, closed, givenUp, memory>>

\* Mutant of CleanFrame: the goroutine waits for the answer without the timer.
CleanAnsweredFrame(h) ==
  /\ stage[h] = "cleaning"
  /\ h \in closed
  /\ Enter(h, "returned")
  /\ pool' = pool \ {h}
  /\ AsyncFree(h, table)
  /\ ReleaseBuffer(h)
  /\ UNCHANGED <<kind, native, closed, queue, givenUp>>

\* The answer, or 200 ms without one: all memory of the frame is released.
CleanFrame(h) ==
  /\ stage[h] = "cleaning"
  /\ Enter(h, "returned")
  /\ givenUp' = IF h \in closed THEN givenUp ELSE givenUp \cup {h}
  /\ pool' = pool \ {h}
  /\ AsyncFree(h, table)
  /\ ReleaseBuffer(h)
  /\ UNCHANGED <<kind, native, closed, queue>>

GoStep(h) == Wait(h) \/ QueueFrame(h) \/ WaitReturns(h) \/ WaitTimeout(h) \/ CleanFrame(h)

AsyncNext == \/ \E h \in Handles : \/ \E k \in Kinds : CallLibrary(h, k)
                                   \/ Refuse(h) \/ Answer(h) \/ GoStep(h)
             \/ TakeFrame

AsyncSpec == AsyncInit /\ [][AsyncNext]_asyncVars

\* Goroutines run and timers fire.  The library returns from its functions but need not
\* ever answer.
AsyncFairness == WF_asyncVars(TakeFrame) /\ \A h \in Handles : WF_asyncVars(GoStep(h))

-----------------------------------------------------------------------------
Stages == {"new", "calling", "waiting", "queued", "cleaning", "returned"}
InProgress == {h \in Handles : stage[h] \in {"calling", "waiting", "queued", "cleaning"}}

AsyncTypeOK ==
  /\ kind \in [Handles -> Kinds \cup {"none"}]
  /\ stage \in [Handles -> Stages]
  /\ native \in [Handles -> {"none", "working", "answered"}]
  /\ table \subseteq Handles
  /\ closed \subseteq Handles
  /\ slots \in [Handles -> {"none", "held", "freed"}]
  /\ buffer \in [Handles -> {"none", "held", "freed"}]
  /\ queue \in Seq(Handles)
  /\ Len(queue) <= QueueCap
  /\ pool \subseteq Handles
  /\ givenUp \subseteq Handles

\* The library never works on memory that has been released, except that of a frame or the
\* payload of signalling data that was given up before its answer; and whoever waits for
\* an answer is in the table, so that the promise finds him (asyncWait, asyncFree).
MemoryOutlivesCall ==
  /\ \A h \in Handles : native[h] = "working" =>
       /\ slots[h] = "freed" => kind[h] = "frame" /\ h \in givenUp
       /\ buffer[h] = "freed" => HasBuffer(kind[h]) /\ h \in givenUp
  /\ InProgress \subseteq table

\* Whatever the library does, a call leaves the table, except a successful one of
\* SetExternalBoth, whose entry and memory stay for ever.
HandlesReleased ==
  \A h \in Handles : h \in table ~> h \notin table \/ (kind[h] = "sources" /\ h \in closed)
=============================================================================
