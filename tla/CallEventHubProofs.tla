------------------------- MODULE CallEventHubProofs -------------------------
(***************************************************************************)
(* Proofs about CallEventHub, for any number of subscriptions and events   *)
(* and any channel capacity.  The inductive invariant says, beside types:  *)
(*   - history is numbered by position;                                    *)
(*   - h.mu is held across steps exactly by the subscription in replay;    *)
(*   - what waits in a channel lies ahead of what was delivered, in order, *)
(*     and behind the replay position;                                     *)
(*   - the stream of a client that is still there accounts for every       *)
(*     number after its cursor.                                            *)
(***************************************************************************)
EXTENDS CallStream, TLAPS

Numbering == \A i \in 1..Len(history) : history[i].sequence = i

\* A subscription that has not reached subscribe has touched nothing.
Fresh(s) == pc[s] \in {"idle", "misdirected", "refused", "found"} =>
              chan[s] = <<>> /\ got[s] = <<>> /\ lost[s] = {} /\ next[s] = 1

Locking(s) == /\ holder = s <=> pc[s] = "replay"
              /\ s \in subs => pc[s] \in {"streaming", "failed"}
              /\ pc[s] = "streaming" /\ s \notin subs /\ ~cancelled[s] => closed

Waiting(s) ==
  /\ after[s] <= Len(history)
  /\ Log!Served(s) \in 0..Len(history)
  /\ \A i \in 1..Len(chan[s]) : /\ chan[s][i].sequence \in 1..Len(history)
                                /\ chan[s][i] = history[chan[s][i].sequence]
                                /\ chan[s][i].sequence > Log!Served(s)
  /\ \A i, j \in 1..Len(chan[s]) : i < j => chan[s][i].sequence < chan[s][j].sequence

Replaying(s) == pc[s] = "replay" =>
  /\ got[s] = <<>>
  /\ lost[s] = {}
  /\ next[s] <= Len(history) + 1
  /\ \A i \in 1..Len(chan[s]) : chan[s][i].sequence < next[s]
  /\ Sequences(chan[s]) = (after[s] + 1)..(next[s] - 1)
  /\ next[s] > after[s] => Len(chan[s]) = (next[s] - 1) - after[s]

Complete(s) == pc[s] \in {"streaming", "ended"} /\ ~cancelled[s] =>
  /\ Accounted(s)
  /\ pc[s] = "ended" => closed /\ chan[s] = <<>>

SubInv(s) == Fresh(s) /\ Locking(s) /\ Waiting(s) /\ Replaying(s) /\ Complete(s)

HubInv == /\ TypeOK
          /\ Numbering
          /\ \A s \in Subs : SubInv(s)

-----------------------------------------------------------------------------
(* Sequences of events.                                                    *)

LEMMA SequencesAppend ==
  ASSUME NEW q \in Seq(Event), NEW e \in Event
  PROVE  Sequences(Append(q, e)) = Sequences(q) \cup {e.sequence}
<1> DEFINE r == Append(q, e)
<1>1. /\ Len(r) = Len(q) + 1
      /\ DOMAIN q = 1..Len(q) /\ DOMAIN r = 1..(Len(q) + 1)
      /\ \A i \in 1..Len(q) : r[i] = q[i]
      /\ r[Len(q) + 1] = e
      /\ Len(q) \in Nat
  OBVIOUS
<1>2. ASSUME NEW x \in Sequences(r) PROVE x \in Sequences(q) \cup {e.sequence}
  <2>1. PICK i \in DOMAIN r : x = r[i].sequence
    BY DEF Sequences
  <2>2. i \in 1..Len(q) \/ i = Len(q) + 1
    BY <1>1
  <2>3. QED
    BY <2>1, <2>2, <1>1 DEF Sequences
<1>3. ASSUME NEW x \in Sequences(q) \cup {e.sequence} PROVE x \in Sequences(r)
  <2>1. CASE x \in Sequences(q)
    <3>1. PICK i \in DOMAIN q : x = q[i].sequence
      BY <2>1 DEF Sequences
    <3>2. i \in DOMAIN r /\ r[i] = q[i]
      BY <1>1
    <3>3. QED
      BY <3>1, <3>2 DEF Sequences
  <2>2. CASE x = e.sequence
    <3>1. Len(q) + 1 \in DOMAIN r
      BY <1>1
    <3>2. QED
      BY <2>2, <3>1, <1>1 DEF Sequences
  <2>3. QED
    BY <1>3, <2>1, <2>2
<1>4. QED
  BY <1>2, <1>3

LEMMA SequencesHeadTail ==
  ASSUME NEW q \in Seq(Event), q # <<>>
  PROVE  Sequences(q) = {Head(q).sequence} \cup Sequences(Tail(q))
<1> DEFINE t == Tail(q)
<1>1. /\ DOMAIN q = 1..Len(q) /\ DOMAIN t = 1..(Len(q) - 1)
      /\ \A i \in 1..(Len(q) - 1) : t[i] = q[i + 1]
      /\ Head(q) = q[1]
      /\ Len(q) \in Nat /\ Len(q) >= 1
  OBVIOUS
<1>2. ASSUME NEW x \in Sequences(q) PROVE x \in {Head(q).sequence} \cup Sequences(t)
  <2>1. PICK i \in 1..Len(q) : x = q[i].sequence
    BY <1>1 DEF Sequences
  <2>2. CASE i = 1
    BY <2>1, <2>2, <1>1
  <2>3. CASE i # 1
    <3>1. i - 1 \in 1..(Len(q) - 1) /\ t[i - 1] = q[i]
      BY <2>3, <1>1
    <3>2. QED
      BY <3>1, <2>1, <1>1 DEF Sequences
  <2>4. QED
    BY <2>2, <2>3
<1>3. ASSUME NEW x \in {Head(q).sequence} \cup Sequences(t) PROVE x \in Sequences(q)
  <2>1. CASE x = Head(q).sequence
    BY <2>1, <1>1 DEF Sequences
  <2>2. CASE x \in Sequences(t)
    <3>1. PICK i \in 1..(Len(q) - 1) : x = t[i].sequence
      BY <2>2, <1>1 DEF Sequences
    <3>2. i + 1 \in 1..Len(q) /\ t[i] = q[i + 1]
      BY <1>1
    <3>3. QED
      BY <3>1, <3>2, <1>1 DEF Sequences
  <2>3. QED
    BY <1>3, <2>1, <2>2
<1>4. QED
  BY <1>2, <1>3

-----------------------------------------------------------------------------
(* The invariant is inductive: one lemma for publish, the replay, the      *)
(* delivery and the end each, and one for the steps that only move a       *)
(* handler or a flag.                                                      *)

LEMMA HistoryBounded ==
  HubInv => Len(history) \in 0..MaxEvents
<1> SUFFICES ASSUME HubInv PROVE Len(history) \in 0..MaxEvents
  OBVIOUS
<1>1. Len(history) \in Nat /\ history \in Seq(Event) /\ MaxEvents \in Nat
  BY HubAssumption DEF HubInv, TypeOK
<1>2. CASE Len(history) = 0
  BY <1>1, <1>2
<1>3. CASE Len(history) # 0
  <2>1. Len(history) \in 1..Len(history) /\ history[Len(history)] \in Event
    BY <1>1, <1>3
  <2>2. history[Len(history)].sequence = Len(history)
    BY <2>1 DEF HubInv, Numbering
  <2>3. QED
    BY <2>1, <2>2, <1>1 DEF Event
<1>4. QED
  BY <1>2, <1>3

LEMMA HubInvInit == Init => HubInv
<1> SUFFICES ASSUME Init PROVE HubInv
  OBVIOUS
<1>1. TypeOK
  <2>1. MaxEvents \in Nat /\ ChanCap \in Nat /\ <<>> \in Seq(Event) /\ Len(<<>>) = 0
    BY HubAssumption
  <2>2. 0 \in 0..MaxEvents /\ 1 \in 1..(MaxEvents + 1)
    BY <2>1
  <2>3. /\ chan \in [Subs -> Seq(Event)] /\ got \in [Subs -> Seq(Event)]
        /\ \A s \in Subs : Len(chan[s]) <= ChanCap
    BY <2>1 DEF Init
  <2>4. /\ after \in [Subs -> 0..MaxEvents] /\ next \in [Subs -> 1..(MaxEvents + 1)]
        /\ lost \in [Subs -> SUBSET (1..MaxEvents)]
    BY <2>2 DEF Init
  <2>5. QED
    BY <2>1, <2>3, <2>4 DEF Init, TypeOK
<1>2. Numbering
  BY DEF Init, Numbering
<1>3. ASSUME NEW s \in Subs PROVE SubInv(s)
  BY <1>3, HubAssumption
     DEF Init, SubInv, Fresh, Locking, Waiting, Replaying, Complete, Log!Served
<1>4. QED
  BY <1>1, <1>2, <1>3 DEF HubInv

LEMMA PublishKeepsInv ==
  ASSUME HubInv, NEW t \in Types, Publish(t)
  PROVE  HubInv'
<1> DEFINE n == Len(history)
           e == Numbered(t)
<1>1. /\ TypeOK /\ n \in 0..MaxEvents /\ n + 1 \in 1..MaxEvents /\ n \in Nat
      /\ e \in Event /\ e.sequence = n + 1
      /\ MaxEvents \in Nat /\ ChanCap \in Nat
  <2>1. TypeOK /\ n \in 0..MaxEvents /\ n < MaxEvents /\ MaxEvents \in Nat /\ ChanCap \in Nat
    BY HistoryBounded, HubAssumption DEF HubInv, Publish
  <2>2. n \in Nat /\ n + 1 \in 1..MaxEvents
    BY <2>1
  <2>3. e \in Event /\ e.sequence = n + 1
    BY <2>2 DEF Numbered, Event
  <2>4. QED
    BY <2>1, <2>2, <2>3
<1>2. /\ history \in Seq(Event) /\ history' = Append(history, e)
      /\ Len(history') = n + 1
      /\ history'[n + 1] = e
      /\ \A i \in 1..n : history'[i] = history[i]
  BY <1>1 DEF TypeOK, Publish
<1>3. /\ ~closed /\ holder = None
      /\ closed' = closed /\ subs' = subs /\ holder' = holder /\ pc' = pc
      /\ after' = after /\ next' = next /\ cancelled' = cancelled /\ got' = got
  BY DEF Publish
<1>4. Numbering'
  BY <1>1, <1>2 DEF HubInv, Numbering
<1>5. ASSUME NEW s \in Subs
      PROVE  \/ s \notin subs /\ chan'[s] = chan[s] /\ lost'[s] = lost[s]
             \/ /\ s \in subs /\ chan'[s] = Append(chan[s], e) /\ lost'[s] = lost[s]
                /\ Len(chan[s]) < ChanCap
             \/ s \in subs /\ chan'[s] = chan[s] /\ lost'[s] = lost[s] \cup {n + 1}
  BY DEF Publish, HasRoom
<1>6. TypeOK'
  <2>1. chan' \in [Subs -> Seq(Event)]
    BY <1>1 DEF Publish, TypeOK
  <2>2. lost' \in [Subs -> SUBSET (1..MaxEvents)]
    BY <1>1 DEF Publish, TypeOK
  <2>3. ASSUME NEW s \in Subs PROVE Len(chan'[s]) <= ChanCap
    <3>1. chan[s] \in Seq(Event) /\ Len(chan[s]) \in Nat /\ Len(chan[s]) <= ChanCap
      BY <1>1 DEF TypeOK
    <3>2. chan'[s] = Append(chan[s], e) => Len(chan'[s]) = Len(chan[s]) + 1
      BY <3>1, <1>1
    <3>3. QED
      BY <3>1, <3>2, <1>1, <1>5
  <2>4. QED
    BY <2>1, <2>2, <2>3, <1>1, <1>2 DEF Publish, TypeOK
<1>7. ASSUME NEW s \in Subs PROVE SubInv(s)'
  <2>0. /\ SubInv(s) /\ chan[s] \in Seq(Event) /\ got[s] \in Seq(Event)
        /\ after[s] \in Nat
    BY DEF HubInv, TypeOK
  <2>1. Log!Served(s)' = Log!Served(s) /\ Log!Served(s) \in 0..n
    BY <1>3, <2>0 DEF Log!Served, SubInv, Waiting
  <2>2. Fresh(s)' /\ Locking(s)'
    BY <1>3, <1>5, <2>0 DEF SubInv, Fresh, Locking
  <2>3. Waiting(s)'
    <3>1. CASE chan'[s] = chan[s]
      BY <3>1, <1>1, <1>2, <1>3, <2>0, <2>1 DEF SubInv, Waiting
    <3>2. CASE chan'[s] = Append(chan[s], e)
      <4>1. /\ Len(chan'[s]) = Len(chan[s]) + 1
            /\ chan'[s][Len(chan[s]) + 1] = e
            /\ \A i \in 1..Len(chan[s]) : chan'[s][i] = chan[s][i]
            /\ Len(chan[s]) \in Nat
        BY <3>2, <2>0, <1>1
      <4>2. ASSUME NEW i \in 1..Len(chan'[s])
            PROVE  /\ chan'[s][i].sequence \in 1..(n + 1)
                   /\ chan'[s][i] = history'[chan'[s][i].sequence]
                   /\ chan'[s][i].sequence > Log!Served(s)
        <5>1. CASE i \in 1..Len(chan[s])
          <6>1. /\ chan[s][i].sequence \in 1..n
                /\ chan[s][i] = history[chan[s][i].sequence]
                /\ chan[s][i].sequence > Log!Served(s)
            BY <5>1, <2>0 DEF SubInv, Waiting
          <6>2. chan'[s][i] = chan[s][i]
            BY <5>1, <4>1
          <6>3. history'[chan[s][i].sequence] = history[chan[s][i].sequence]
            BY <6>1, <1>2
          <6>4. QED
            BY <6>1, <6>2, <6>3, <1>1
        <5>2. CASE i = Len(chan[s]) + 1
          BY <5>2, <4>1, <1>1, <1>2, <2>1
        <5>3. QED
          BY <5>1, <5>2, <4>1
      <4>3. ASSUME NEW i \in 1..Len(chan'[s]), NEW j \in 1..Len(chan'[s]), i < j
            PROVE  chan'[s][i].sequence < chan'[s][j].sequence
        <5>1. i \in 1..Len(chan[s]) /\ chan'[s][i] = chan[s][i]
          BY <4>1, <4>3
        <5>2. CASE j \in 1..Len(chan[s])
          BY <5>1, <5>2, <4>1, <4>3, <2>0 DEF SubInv, Waiting
        <5>3. CASE j = Len(chan[s]) + 1
          BY <5>1, <5>3, <4>1, <1>1, <2>0 DEF SubInv, Waiting
        <5>4. QED
          BY <5>2, <5>3, <4>1
      <4>4. QED
        BY <4>2, <4>3, <1>1, <1>2, <1>3, <2>0, <2>1 DEF SubInv, Waiting
    <3>3. QED
      BY <3>1, <3>2, <1>5
  <2>4. Replaying(s)'
    BY <1>3, <2>0, HubAssumption DEF SubInv, Locking, Replaying
  <2>5. Complete(s)'
    <3>1. CASE pc[s] \in {"streaming", "ended"} /\ ~cancelled[s]
      <4>1. pc[s] = "streaming" /\ s \in subs
        BY <3>1, <1>3, <2>0 DEF SubInv, Complete, Locking
      <4>2. (after[s] + 1)..(n + 1) = ((after[s] + 1)..n) \cup {n + 1}
        BY <1>1, <2>0 DEF SubInv, Waiting
      <4>3. \/ /\ Sequences(chan'[s]) = Sequences(chan[s]) \cup {n + 1}
               /\ lost'[s] = lost[s]
            \/ /\ Sequences(chan'[s]) = Sequences(chan[s])
               /\ lost'[s] = lost[s] \cup {n + 1}
        BY <4>1, <1>1, <1>5, <2>0, SequencesAppend
      <4>4. Sequences(got[s]) \cup Sequences(chan[s]) \cup lost[s] = (after[s] + 1)..n
        BY <3>1, <2>0 DEF SubInv, Complete, Accounted
      <4>5. Sequences(got'[s]) \cup Sequences(chan'[s]) \cup lost'[s]
              = (after'[s] + 1)..Len(history')
        BY <4>2, <4>3, <4>4, <1>2, <1>3
      <4>6. QED
        BY <4>1, <4>5, <1>3 DEF Complete, Accounted
    <3>2. CASE ~(pc[s] \in {"streaming", "ended"} /\ ~cancelled[s])
      BY <3>2, <1>3 DEF Complete
    <3>3. QED
      BY <3>1, <3>2
  <2>6. QED
    BY <2>2, <2>3, <2>4, <2>5 DEF SubInv
<1>8. QED
  BY <1>4, <1>6, <1>7 DEF HubInv

\* What a step does not touch of a subscription keeps its part of the invariant.
LEMMA UntouchedKeepsInv ==
  ASSUME NEW r \in Subs, SubInv(r),
         history' = history, closed' = closed,
         holder' = r <=> holder = r, r \in subs' <=> r \in subs,
         pc'[r] = pc[r], after'[r] = after[r], next'[r] = next[r], chan'[r] = chan[r],
         cancelled'[r] = cancelled[r], got'[r] = got[r], lost'[r] = lost[r]
  PROVE  SubInv(r)'
<1>1. Log!Served(r)' = Log!Served(r)
  BY DEF Log!Served
<1>2. Fresh(r)' /\ Locking(r)' /\ Replaying(r)'
  BY DEF SubInv, Fresh, Locking, Replaying
<1>3. Waiting(r)'
  BY <1>1 DEF SubInv, Waiting
<1>4. Complete(r)'
  BY DEF SubInv, Complete, Accounted
<1>5. QED
  BY <1>2, <1>3, <1>4 DEF SubInv

LEMMA ReplayOneKeepsInv ==
  ASSUME HubInv, NEW s \in Subs, ReplayOne(s)
  PROVE  HubInv'
<1> DEFINE n == Len(history)
           k == next[s]
           e == history[k]
           q == chan[s]
<1>1. /\ TypeOK /\ SubInv(s) /\ Numbering /\ n \in 0..MaxEvents
      /\ MaxEvents \in Nat /\ ChanCap \in Nat
  BY HistoryBounded, HubAssumption DEF HubInv
<1>2. /\ pc[s] = "replay" /\ k \in 1..n /\ got[s] = <<>>
      /\ next' = [next EXCEPT ![s] = k + 1]
      /\ history' = history /\ closed' = closed /\ subs' = subs /\ holder' = holder
      /\ listed' = listed /\ registry' = registry /\ pc' = pc /\ after' = after /\ cancelled' = cancelled
      /\ got' = got /\ lost' = lost
  BY <1>1 DEF ReplayOne, TypeOK, SubInv, Replaying
<1>3. e \in Event /\ e.sequence = k /\ q \in Seq(Event) /\ after[s] \in Nat /\ k \in Nat
  BY <1>1, <1>2 DEF TypeOK, Numbering
<1>4. \/ /\ k > after[s] /\ Len(q) < ChanCap
         /\ chan' = [chan EXCEPT ![s] = Append(q, e)]
      \/ k <= after[s] /\ chan' = chan
  BY <1>3 DEF ReplayOne, Wanted, HasRoom
<1>5. /\ \A i \in 1..Len(q) : /\ q[i].sequence \in 1..n
                              /\ q[i] = history[q[i].sequence]
                              /\ q[i].sequence > after[s]
                              /\ q[i].sequence < k
      /\ \A i, j \in 1..Len(q) : i < j => q[i].sequence < q[j].sequence
      /\ Sequences(q) = (after[s] + 1)..(k - 1)
      /\ lost[s] = {}
      /\ k > after[s] => Len(q) = (k - 1) - after[s]
  BY <1>1, <1>2 DEF SubInv, Waiting, Replaying, Log!Served
<1>6. TypeOK'
  <2>1. next' \in [Subs -> 1..(MaxEvents + 1)]
    BY <1>1, <1>2 DEF TypeOK
  <2>2. /\ Append(q, e) \in Seq(Event) /\ Len(Append(q, e)) = Len(q) + 1 /\ Len(q) \in Nat
        /\ chan \in [Subs -> Seq(Event)] /\ \A r \in Subs : Len(chan[r]) <= ChanCap
    BY <1>1, <1>3 DEF TypeOK
  <2>3. chan' \in [Subs -> Seq(Event)] /\ \A r \in Subs : Len(chan'[r]) <= ChanCap
    <3>1. CASE chan' = chan
      BY <3>1, <2>2
    <3>2. CASE Len(q) < ChanCap /\ chan' = [chan EXCEPT ![s] = Append(q, e)]
      <4>1. chan' \in [Subs -> Seq(Event)]
        BY <3>2, <2>2
      <4>2. ASSUME NEW r \in Subs PROVE Len(chan'[r]) <= ChanCap
        <5>1. CASE r = s
          <6>1. chan'[r] = Append(q, e)
            BY <5>1, <3>2, <2>2
          <6>2. Len(q) + 1 <= ChanCap
            BY <3>2, <2>2, <1>1
          <6>3. QED
            BY <6>1, <6>2, <2>2
        <5>2. CASE r # s
          BY <5>2, <3>2, <2>2
        <5>3. QED
          BY <5>1, <5>2
      <4>3. QED
        BY <4>1, <4>2
    <3>3. QED
      BY <3>1, <3>2, <1>4
  <2>4. QED
    BY <2>1, <2>2, <2>3, <1>1, <1>2 DEF TypeOK
<1>7. SubInv(s)'
  <2>1. Log!Served(s)' = after[s]
    BY <1>2 DEF Log!Served
  <2>2. Fresh(s)' /\ Locking(s)' /\ Complete(s)'
    BY <1>1, <1>2 DEF SubInv, Fresh, Locking, Complete
  <2>3. next'[s] = k + 1
    BY <1>1, <1>2 DEF TypeOK
  <2>4. CASE k > after[s] /\ Len(q) < ChanCap /\ chan' = [chan EXCEPT ![s] = Append(q, e)]
    <3>1. /\ chan'[s] = Append(q, e)
          /\ Len(chan'[s]) = Len(q) + 1
          /\ chan'[s][Len(q) + 1] = e
          /\ \A i \in 1..Len(q) : chan'[s][i] = q[i]
          /\ Len(q) \in Nat
      BY <2>4, <1>1, <1>3 DEF TypeOK
    <3>2. ASSUME NEW i \in 1..Len(chan'[s])
          PROVE  /\ chan'[s][i].sequence \in 1..n
                 /\ chan'[s][i] = history[chan'[s][i].sequence]
                 /\ chan'[s][i].sequence > after[s]
                 /\ chan'[s][i].sequence < k + 1
      <4>1. CASE i \in 1..Len(q)
        BY <4>1, <3>1, <1>5, <1>3
      <4>2. CASE i = Len(q) + 1
        BY <4>2, <3>1, <2>4, <1>2, <1>3
      <4>3. QED
        BY <4>1, <4>2, <3>1
    <3>3. ASSUME NEW i \in 1..Len(chan'[s]), NEW j \in 1..Len(chan'[s]), i < j
          PROVE  chan'[s][i].sequence < chan'[s][j].sequence
      <4>1. i \in 1..Len(q) /\ chan'[s][i] = q[i]
        BY <3>1, <3>3
      <4>2. CASE j \in 1..Len(q)
        BY <4>1, <4>2, <3>1, <3>3, <1>5
      <4>3. CASE j = Len(q) + 1
        BY <4>1, <4>3, <3>1, <1>3, <1>5
      <4>4. QED
        BY <4>2, <4>3, <3>1
    <3>4. Sequences(chan'[s]) = (after[s] + 1)..k
      <4>1. Sequences(chan'[s]) = ((after[s] + 1)..(k - 1)) \cup {k}
        BY <3>1, <1>3, <1>5, SequencesAppend
      <4>2. QED
        BY <4>1, <2>4, <1>3
    <3>5. Waiting(s)'
      BY <3>2, <3>3, <2>1, <1>1, <1>2 DEF SubInv, Waiting, Log!Served
    <3>6. Replaying(s)'
      <4>1. k + 1 <= n + 1 /\ (k + 1) - 1 = k
        BY <1>1, <1>2, <1>3
      <4>2. Len(chan'[s]) = k - after[s]
        BY <3>1, <2>4, <1>3, <1>5
      <4>3. QED
        BY <4>1, <4>2, <3>2, <3>4, <2>3, <1>2, <1>5 DEF Replaying
    <3>7. QED
      BY <2>2, <3>5, <3>6 DEF SubInv
  <2>5. CASE k <= after[s] /\ chan' = chan
    <3>1. Waiting(s)'
      BY <2>5, <2>1, <1>1, <1>2, <1>5 DEF SubInv, Waiting, Log!Served
    <3>2. Replaying(s)'
      <4>1. (after[s] + 1)..(k - 1) = (after[s] + 1)..((k + 1) - 1) /\ k + 1 <= n + 1
        BY <2>5, <1>1, <1>2, <1>3
      <4>2. \A i \in 1..Len(q) : q[i].sequence < k + 1
        BY <1>3, <1>5
      <4>3. Len(q) = 0
        <5>1. Len(q) \in Nat /\ (Len(q) > 0 => 1 \in 1..Len(q))
          BY <1>3
        <5>2. ASSUME 1 \in 1..Len(q) PROVE FALSE
          <6>1. q[1].sequence \in Nat /\ q[1].sequence > after[s] /\ q[1].sequence < k
            BY <5>2, <1>1, <1>5
          <6>2. QED
            BY <6>1, <2>5, <1>3
        <5>3. QED
          BY <5>1, <5>2
      <4>4. k + 1 > after[s] => Len(q) = ((k + 1) - 1) - after[s]
        BY <4>3, <2>5, <1>3
      <4>5. QED
        BY <4>1, <4>2, <4>4, <2>3, <2>5, <1>2, <1>5 DEF Replaying
    <3>3. QED
      BY <2>2, <3>1, <3>2 DEF SubInv
  <2>6. QED
    BY <1>4, <2>4, <2>5
<1>8. ASSUME NEW r \in Subs, r # s PROVE SubInv(r)'
  <2>1. chan'[r] = chan[r] /\ next'[r] = next[r]
    BY <1>1, <1>2, <1>4, <1>8 DEF TypeOK
  <2>2. QED
    BY <2>1, <1>2, UntouchedKeepsInv DEF HubInv
<1>9. Numbering'
  BY <1>1, <1>2 DEF Numbering
<1>10. QED
  BY <1>6, <1>7, <1>8, <1>9 DEF HubInv

\* The hand-over from replay to live delivery.
LEMMA EndReplayKeepsInv ==
  ASSUME HubInv, NEW s \in Subs, EndReplay(s)
  PROVE  HubInv'
<1>1. /\ TypeOK /\ SubInv(s) /\ Numbering /\ Len(history) \in Nat /\ None \notin Subs
      /\ pc[s] = "replay" /\ holder = s /\ s \notin subs
      /\ after[s] \in Nat /\ next[s] \in Nat
  <2>1. TypeOK /\ SubInv(s) /\ Numbering /\ Len(history) \in Nat /\ MaxEvents \in Nat
    BY HistoryBounded, HubAssumption DEF HubInv
  <2>2. after[s] \in 0..MaxEvents /\ next[s] \in 1..(MaxEvents + 1)
    BY <2>1 DEF TypeOK
  <2>3. QED
    BY <2>1, <2>2, HubAssumption DEF EndReplay, SubInv, Locking
<1>2. /\ holder' = None /\ pc' = [pc EXCEPT ![s] = "streaming"]
      /\ history' = history /\ closed' = closed /\ listed' = listed /\ registry' = registry /\ after' = after
      /\ next' = next /\ chan' = chan /\ cancelled' = cancelled /\ got' = got
      /\ lost' = lost /\ subs' = IF closed THEN subs ELSE subs \cup {s}
  BY DEF EndReplay
<1>3. TypeOK'
  BY <1>1, <1>2 DEF TypeOK
<1>4. SubInv(s)'
  <2>1. pc'[s] = "streaming"
    BY <1>1, <1>2 DEF TypeOK
  <2>2. Log!Served(s)' = Log!Served(s)
    BY <1>2 DEF Log!Served
  <2>3. Fresh(s)' /\ Locking(s)' /\ Replaying(s)'
    BY <2>1, <1>1, <1>2 DEF Fresh, Locking, Replaying
  <2>4. Waiting(s)'
    BY <2>2, <1>1, <1>2 DEF SubInv, Waiting
  <2>5. Complete(s)'
    <3>1. next[s] - 1 = Len(history)
      BY <1>1 DEF EndReplay, SubInv, Replaying
    <3>2. /\ Sequences(chan[s]) = (after[s] + 1)..Len(history)
          /\ got[s] = <<>> /\ lost[s] = {}
      BY <3>1, <1>1 DEF SubInv, Replaying
    <3>3. Sequences(got[s]) = {}
      BY <3>2 DEF Sequences
    <3>4. Accounted(s)'
      BY <3>2, <3>3, <1>2 DEF Accounted
    <3>5. QED
      BY <3>4, <2>1 DEF Complete
  <2>6. QED
    BY <2>3, <2>4, <2>5 DEF SubInv
<1>5. ASSUME NEW r \in Subs, r # s PROVE SubInv(r)'
  <2>1. pc'[r] = pc[r]
    BY <1>1, <1>2, <1>5 DEF TypeOK
  <2>2. (holder' = r <=> holder = r) /\ (r \in subs' <=> r \in subs)
    BY <1>1, <1>2, <1>5
  <2>3. QED
    BY <2>1, <2>2, <1>2, UntouchedKeepsInv DEF HubInv
<1>6. Numbering'
  BY <1>1, <1>2 DEF Numbering
<1>7. QED
  BY <1>3, <1>4, <1>5, <1>6 DEF HubInv

LEMMA SendEventKeepsInv ==
  ASSUME HubInv, NEW s \in Subs, SendEvent(s)
  PROVE  HubInv'
<1> DEFINE q == chan[s]
           g == got[s]
<1>1. /\ TypeOK /\ SubInv(s) /\ Numbering /\ Len(history) \in Nat
      /\ pc[s] = "streaming" /\ q \in Seq(Event) /\ q # <<>> /\ g \in Seq(Event)
      /\ after[s] \in Nat /\ ChanCap \in Nat
  <2>1. TypeOK /\ SubInv(s) /\ Numbering /\ pc[s] = "streaming" /\ q # <<>>
    BY DEF HubInv, SendEvent
  <2>2. /\ Len(history) \in Nat /\ q \in Seq(Event) /\ g \in Seq(Event)
        /\ after[s] \in Nat /\ ChanCap \in Nat
    BY <2>1, HistoryBounded, HubAssumption DEF TypeOK
  <2>3. QED
    BY <2>1, <2>2
<1>2. /\ chan' = [chan EXCEPT ![s] = Tail(q)]
      /\ history' = history /\ closed' = closed /\ subs' = subs /\ holder' = holder
      /\ listed' = listed /\ registry' = registry /\ after' = after /\ next' = next
      /\ cancelled' = cancelled
      /\ lost' = lost
  BY DEF SendEvent
<1>3. \/ got' = [got EXCEPT ![s] = Append(g, Head(q))] /\ pc' = pc
      \/ pc' = [pc EXCEPT ![s] = "failed"] /\ got' = got
  BY DEF SendEvent
<1>4. /\ Head(q) = q[1] /\ Head(q) \in Event /\ Tail(q) \in Seq(Event)
      /\ Len(q) \in Nat /\ Len(q) >= 1 /\ Len(Tail(q)) = Len(q) - 1
      /\ \A i \in 1..(Len(q) - 1) : Tail(q)[i] = q[i + 1]
      /\ Append(g, Head(q)) \in Seq(Event)
  BY <1>1
<1>5. chan'[s] = Tail(q) /\ \A r \in Subs \ {s} : chan'[r] = chan[r]
  BY <1>1, <1>2 DEF TypeOK
<1>6. TypeOK'
  <2>1. chan' \in [Subs -> Seq(Event)]
    BY <1>1, <1>2, <1>4 DEF TypeOK
  <2>2. got' \in [Subs -> Seq(Event)]
    BY <1>1, <1>3, <1>4 DEF TypeOK
  <2>3. ASSUME NEW r \in Subs PROVE Len(chan'[r]) <= ChanCap
    <3>1. Len(chan[r]) <= ChanCap
      BY <1>1 DEF TypeOK
    <3>2. CASE r = s
      BY <3>1, <3>2, <1>1, <1>4, <1>5
    <3>3. CASE r # s
      BY <3>1, <3>3, <1>5
    <3>4. QED
      BY <3>2, <3>3
  <2>4. pc' \in [Subs -> {"idle", "misdirected", "refused", "found", "replay", "streaming",
                          "ended", "failed"}]
    BY <1>1, <1>3 DEF TypeOK
  <2>5. QED
    BY <2>1, <2>2, <2>3, <2>4, <1>1, <1>2 DEF TypeOK
<1>7. SubInv(s)'
  <2>1. pc'[s] \in {"streaming", "failed"} /\ (pc'[s] = "streaming" => got'[s] = Append(g, Head(q)))
    BY <1>1, <1>3 DEF TypeOK
  <2>2. Fresh(s)' /\ Locking(s)' /\ Replaying(s)'
    BY <2>1, <1>1, <1>2 DEF SubInv, Fresh, Locking, Replaying
  <2>3. /\ \A i \in 1..Len(q) : /\ q[i].sequence \in 1..Len(history)
                                /\ q[i] = history[q[i].sequence]
                                /\ q[i].sequence > Log!Served(s)
        /\ \A i, j \in 1..Len(q) : i < j => q[i].sequence < q[j].sequence
        /\ after[s] <= Len(history) /\ Log!Served(s) \in 0..Len(history)
    BY <1>1 DEF SubInv, Waiting
  <2>4. Log!Served(s)' = Log!Served(s) \/ Log!Served(s)' = q[1].sequence
    <3>1. CASE got' = got
      BY <3>1, <1>2 DEF Log!Served
    <3>2. CASE got' = [got EXCEPT ![s] = Append(g, Head(q))]
      <4>1. got'[s] = Append(g, Head(q))
        BY <3>2, <1>1 DEF TypeOK
      <4>2. got'[s] # <<>> /\ got'[s][Len(got'[s])] = q[1]
        BY <4>1, <1>1, <1>4
      <4>3. QED
        BY <4>2 DEF Log!Served
    <3>3. QED
      BY <3>1, <3>2, <1>3
  <2>5. Waiting(s)'
    <3>1. ASSUME NEW i \in 1..Len(Tail(q))
          PROVE  /\ i + 1 \in 1..Len(q) /\ Tail(q)[i] = q[i + 1] /\ 1 \in 1..Len(q)
                 /\ q[i + 1].sequence > q[1].sequence
                 /\ q[i + 1].sequence > Log!Served(s)
                 /\ q[i + 1].sequence \in 1..Len(history)
                 /\ q[i + 1] = history[q[i + 1].sequence]
      <4>1. i + 1 \in 1..Len(q) /\ Tail(q)[i] = q[i + 1] /\ 1 \in 1..Len(q) /\ 1 < i + 1
        BY <1>4
      <4>2. q[1].sequence < q[i + 1].sequence
        BY <4>1, <2>3
      <4>3. QED
        BY <4>1, <4>2, <2>3
    <3>2. Log!Served(s)' \in 0..Len(history)
      BY <2>3, <2>4, <1>1, <1>4
    <3>3. \A i, j \in 1..Len(Tail(q)) : i < j => Tail(q)[i].sequence < Tail(q)[j].sequence
      BY <3>1, <2>3
    <3>4. \A i \in 1..Len(Tail(q)) : Tail(q)[i].sequence > Log!Served(s)'
      BY <3>1, <2>4
    <3>5. \A i \in 1..Len(Tail(q)) : /\ Tail(q)[i].sequence \in 1..Len(history)
                                     /\ Tail(q)[i] = history[Tail(q)[i].sequence]
      BY <3>1
    <3>6. history' = history /\ chan'[s] = Tail(q) /\ after'[s] = after[s] /\ after[s] <= Len(history)
      BY <2>3, <1>2, <1>5
    <3>7. QED
      BY ONLY <3>2, <3>3, <3>4, <3>5, <3>6 DEF Waiting
  <2>6. Complete(s)'
    <3>1. CASE pc'[s] = "streaming" /\ ~cancelled[s]
      <4>1. Sequences(g) \cup Sequences(q) \cup lost[s] = (after[s] + 1)..Len(history)
        BY <3>1, <1>1 DEF SubInv, Complete, Accounted
      <4>2. Sequences(got'[s]) = Sequences(g) \cup {Head(q).sequence}
        BY <3>1, <2>1, <1>1, <1>4, SequencesAppend
      <4>3. Sequences(q) = {Head(q).sequence} \cup Sequences(chan'[s])
        BY <1>1, <1>5, SequencesHeadTail
      <4>4. Sequences(got'[s]) \cup Sequences(chan'[s]) \cup lost'[s]
              = (after'[s] + 1)..Len(history')
        BY <4>1, <4>2, <4>3, <1>2
      <4>5. QED
        BY <3>1, <4>4 DEF Complete, Accounted
    <3>2. CASE ~(pc'[s] = "streaming" /\ ~cancelled[s])
      BY <3>2, <2>1, <1>2 DEF Complete
    <3>3. QED
      BY <3>1, <3>2
  <2>7. QED
    BY <2>2, <2>5, <2>6 DEF SubInv
<1>8. ASSUME NEW r \in Subs, r # s PROVE SubInv(r)'
  <2>1. chan'[r] = chan[r] /\ got'[r] = got[r] /\ pc'[r] = pc[r]
    BY <1>1, <1>3, <1>5, <1>8 DEF TypeOK
  <2>2. QED
    BY <2>1, <1>2, UntouchedKeepsInv DEF HubInv
<1>9. Numbering'
  BY <1>1, <1>2 DEF Numbering
<1>10. QED
  BY <1>6, <1>7, <1>8, <1>9 DEF HubInv

LEMMA LookupKeepsInv ==
  ASSUME HubInv, NEW s \in Subs, Lookup(s)
  PROVE  HubInv'
<1>1. /\ TypeOK /\ SubInv(s) /\ Numbering /\ Len(history) \in 0..MaxEvents
      /\ MaxEvents \in Nat /\ pc[s] = "idle"
  BY HistoryBounded, HubAssumption DEF HubInv, Lookup
<1>2. PICK a \in 0..Len(history) : after' = [after EXCEPT ![s] = a]
  BY DEF Lookup
<1>3. /\ pc' = [pc EXCEPT ![s] = IF registry # "this" THEN "misdirected"
                                ELSE IF listed THEN "found" ELSE "refused"]
      /\ history' = history /\ closed' = closed /\ subs' = subs /\ holder' = holder
      /\ listed' = listed /\ registry' = registry /\ next' = next /\ chan' = chan /\ cancelled' = cancelled
      /\ got' = got /\ lost' = lost
  BY DEF Lookup
<1>4. TypeOK'
  BY <1>1, <1>2, <1>3 DEF TypeOK
<1>5. SubInv(s)'
  <2>1. pc'[s] \in {"found", "refused", "misdirected"} /\ after'[s] = a
    BY <1>1, <1>2, <1>3 DEF TypeOK
  <2>2. chan[s] = <<>> /\ got[s] = <<>> /\ lost[s] = {} /\ next[s] = 1
    BY <1>1 DEF SubInv, Fresh
  <2>3. Fresh(s)' /\ Locking(s)' /\ Replaying(s)' /\ Complete(s)'
    BY <2>1, <2>2, <1>1, <1>3 DEF SubInv, Fresh, Locking, Replaying, Complete
  <2>4. Log!Served(s)' = a /\ Len(chan'[s]) = 0
    BY <2>1, <2>2, <1>3 DEF Log!Served
  <2>5. Waiting(s)'
    BY <2>1, <2>4, <1>1, <1>3 DEF Waiting
  <2>6. QED
    BY <2>3, <2>5 DEF SubInv
<1>6. ASSUME NEW r \in Subs, r # s PROVE SubInv(r)'
  <2>1. pc'[r] = pc[r] /\ after'[r] = after[r]
    BY <1>1, <1>2, <1>3, <1>6 DEF TypeOK
  <2>2. QED
    BY <2>1, <1>3, UntouchedKeepsInv DEF HubInv
<1>7. QED
  BY <1>1, <1>3, <1>4, <1>5, <1>6 DEF HubInv, Numbering

LEMMA BeginReplayKeepsInv ==
  ASSUME HubInv, NEW s \in Subs, BeginReplay(s)
  PROVE  HubInv'
<1>1. /\ TypeOK /\ SubInv(s) /\ Numbering /\ Len(history) \in Nat /\ None \notin Subs
      /\ pc[s] = "found" /\ holder = None /\ after[s] \in Nat
  <2>1. TypeOK /\ SubInv(s) /\ Numbering /\ Len(history) \in Nat /\ MaxEvents \in Nat
    BY HistoryBounded, HubAssumption DEF HubInv
  <2>2. after[s] \in 0..MaxEvents
    BY <2>1 DEF TypeOK
  <2>3. QED
    BY <2>1, <2>2, HubAssumption DEF BeginReplay
<1>2. /\ holder' = s /\ pc' = [pc EXCEPT ![s] = "replay"]
      /\ history' = history /\ closed' = closed /\ subs' = subs
      /\ listed' = listed /\ registry' = registry /\ after' = after /\ next' = next /\ chan' = chan
      /\ cancelled' = cancelled /\ got' = got /\ lost' = lost
  BY DEF BeginReplay
<1>3. TypeOK'
  BY <1>1, <1>2 DEF TypeOK
<1>4. SubInv(s)'
  <2>1. pc'[s] = "replay"
    BY <1>1, <1>2 DEF TypeOK
  <2>2. chan[s] = <<>> /\ got[s] = <<>> /\ lost[s] = {} /\ next[s] = 1
    BY <1>1 DEF SubInv, Fresh
  <2>3. Fresh(s)' /\ Locking(s)' /\ Complete(s)'
    BY <2>1, <1>1, <1>2 DEF SubInv, Fresh, Locking, Complete
  <2>4. Log!Served(s)' = Log!Served(s)
    BY <1>2 DEF Log!Served
  <2>5. Waiting(s)'
    BY <2>4, <1>1, <1>2 DEF SubInv, Waiting
  <2>6. /\ Sequences(chan[s]) = (after[s] + 1)..(1 - 1)
        /\ 1 > after[s] => Len(chan[s]) = (1 - 1) - after[s]
    BY <2>2, <1>1 DEF Sequences
  <2>7. Replaying(s)'
    BY <2>2, <2>6, <1>1, <1>2 DEF Replaying
  <2>8. QED
    BY <2>3, <2>5, <2>7 DEF SubInv
<1>5. ASSUME NEW r \in Subs, r # s PROVE SubInv(r)'
  <2>1. pc'[r] = pc[r] /\ (holder' = r <=> holder = r)
    BY <1>1, <1>2, <1>5 DEF TypeOK
  <2>2. QED
    BY <2>1, <1>2, UntouchedKeepsInv DEF HubInv
<1>6. QED
  BY <1>1, <1>2, <1>3, <1>4, <1>5 DEF HubInv, Numbering

LEMMA EndStreamKeepsInv ==
  ASSUME HubInv, NEW s \in Subs, EndStream(s)
  PROVE  HubInv'
<1>1. TypeOK /\ SubInv(s) /\ Numbering /\ pc[s] = "streaming"
  BY DEF HubInv, EndStream
<1>2. /\ history' = history /\ closed' = closed /\ subs' = subs /\ holder' = holder
      /\ listed' = listed /\ registry' = registry /\ after' = after /\ next' = next /\ chan' = chan
      /\ cancelled' = cancelled /\ got' = got /\ lost' = lost
  BY DEF EndStream
<1>3. \/ s \notin subs /\ chan[s] = <<>> /\ pc' = [pc EXCEPT ![s] = "ended"]
      \/ cancelled[s] /\ pc' = [pc EXCEPT ![s] = "failed"]
  BY DEF EndStream, ChanClosed
<1>4. TypeOK'
  BY <1>1, <1>2, <1>3 DEF TypeOK
<1>5. SubInv(s)'
  <2>1. \/ pc'[s] = "ended" /\ s \notin subs /\ chan[s] = <<>>
        \/ pc'[s] = "failed"
    BY <1>1, <1>3 DEF TypeOK
  <2>2. Fresh(s)' /\ Locking(s)' /\ Replaying(s)'
    BY <2>1, <1>1, <1>2 DEF SubInv, Fresh, Locking, Replaying
  <2>3. Log!Served(s)' = Log!Served(s)
    BY <1>2 DEF Log!Served
  <2>4. Waiting(s)'
    BY <2>3, <1>1, <1>2 DEF SubInv, Waiting
  <2>5. Complete(s)'
    BY <2>1, <1>1, <1>2 DEF SubInv, Locking, Complete, Accounted
  <2>6. QED
    BY <2>2, <2>4, <2>5 DEF SubInv
<1>6. ASSUME NEW r \in Subs, r # s PROVE SubInv(r)'
  <2>1. pc'[r] = pc[r]
    BY <1>1, <1>3, <1>6 DEF TypeOK
  <2>2. QED
    BY <2>1, <1>2, UntouchedKeepsInv DEF HubInv
<1>7. QED
  BY <1>1, <1>2, <1>4, <1>5, <1>6 DEF HubInv, Numbering

\* A client that goes away, and the goroutine of subscribe.
LEMMA LeavingKeepsInv ==
  ASSUME HubInv, NEW s \in Subs, Disconnect(s) \/ Unsubscribe(s)
  PROVE  HubInv'
<1>1. TypeOK /\ SubInv(s) /\ Numbering
  BY DEF HubInv
<1>2. /\ history' = history /\ closed' = closed /\ holder' = holder /\ pc' = pc
      /\ listed' = listed /\ registry' = registry /\ after' = after /\ next' = next /\ chan' = chan
      /\ got' = got /\ lost' = lost
  BY DEF Disconnect, Unsubscribe
<1>3. \/ cancelled' = [cancelled EXCEPT ![s] = TRUE] /\ subs' = subs
      \/ /\ cancelled' = cancelled /\ subs' = subs \ {s}
         /\ cancelled[s] \/ pc[s] = "failed"
  BY DEF Disconnect, Unsubscribe
<1>4. TypeOK'
  BY <1>1, <1>2, <1>3 DEF TypeOK
<1>5. SubInv(s)'
  <2>1. /\ s \in subs' => s \in subs
        /\ cancelled'[s] \/ pc[s] = "failed"
        /\ cancelled[s] => cancelled'[s]
    BY <1>1, <1>3 DEF TypeOK
  <2>2. Fresh(s)' /\ Locking(s)' /\ Replaying(s)' /\ Complete(s)'
    BY <2>1, <1>1, <1>2 DEF SubInv, Fresh, Locking, Replaying, Complete
  <2>3. Log!Served(s)' = Log!Served(s)
    BY <1>2 DEF Log!Served
  <2>4. Waiting(s)'
    BY <2>3, <1>1, <1>2 DEF SubInv, Waiting
  <2>5. QED
    BY <2>2, <2>4 DEF SubInv
<1>6. ASSUME NEW r \in Subs, r # s PROVE SubInv(r)'
  <2>1. cancelled'[r] = cancelled[r] /\ (r \in subs' <=> r \in subs)
    BY <1>1, <1>3, <1>6 DEF TypeOK
  <2>2. QED
    BY <2>1, <1>2, UntouchedKeepsInv DEF HubInv
<1>7. QED
  BY <1>1, <1>2, <1>4, <1>5, <1>6 DEF HubInv, Numbering

LEMMA CloseHubKeepsInv ==
  ASSUME HubInv, CloseHub
  PROVE  HubInv'
<1>1. /\ closed' = TRUE /\ subs' = {} /\ history' = history /\ holder' = holder /\ pc' = pc
      /\ listed' = listed /\ registry' = registry /\ after' = after /\ next' = next /\ chan' = chan
      /\ cancelled' = cancelled /\ got' = got /\ lost' = lost
  BY DEF CloseHub
<1>2. TypeOK'
  BY <1>1 DEF HubInv, TypeOK
<1>3. ASSUME NEW s \in Subs PROVE SubInv(s)'
  <2>1. SubInv(s) /\ Log!Served(s)' = Log!Served(s)
    BY <1>1 DEF HubInv, Log!Served
  <2>2. Fresh(s)' /\ Locking(s)' /\ Replaying(s)'
    BY <2>1, <1>1 DEF SubInv, Fresh, Locking, Replaying
  <2>3. Waiting(s)'
    BY <2>1, <1>1 DEF SubInv, Waiting
  <2>4. Complete(s)'
    BY <2>1, <1>1 DEF SubInv, Complete, Accounted
  <2>5. QED
    BY <2>2, <2>3, <2>4 DEF SubInv
<1>4. QED
  BY <1>1, <1>2, <1>3 DEF HubInv, Numbering

\* RemoveCall, the registry of bots, and stuttering.
LEMMA UnchangedKeepsInv ==
  ASSUME HubInv, RemoveCall \/ SetBot \/ LoseBot \/ UNCHANGED vars
  PROVE  HubInv'
<1>1. /\ history' = history /\ closed' = closed /\ subs' = subs /\ holder' = holder /\ pc' = pc
      /\ after' = after /\ next' = next /\ chan' = chan
      /\ cancelled' = cancelled /\ got' = got /\ lost' = lost
  BY DEF RemoveCall, SetBot, LoseBot, vars
<1>2. listed' \in BOOLEAN /\ registry' \in {"before", "this", "after"}
  BY DEF RemoveCall, SetBot, LoseBot, vars, HubInv, TypeOK
<1>3. TypeOK'
  BY <1>1, <1>2 DEF HubInv, TypeOK
<1>4. ASSUME NEW s \in Subs PROVE SubInv(s)'
  BY <1>1, <1>4, UntouchedKeepsInv DEF HubInv
<1>5. QED
  BY <1>1, <1>3, <1>4 DEF HubInv, Numbering

LEMMA HubInvStep == HubInv /\ [Next]_vars => HubInv'
<1> SUFFICES ASSUME HubInv, [Next]_vars PROVE HubInv'
  OBVIOUS
<1>1. ASSUME NEW t \in Types, Publish(t) PROVE HubInv'
  BY <1>1, PublishKeepsInv
<1>2. ASSUME NEW s \in Subs, Lookup(s) PROVE HubInv'
  BY <1>2, LookupKeepsInv
<1>3. ASSUME NEW s \in Subs, BeginReplay(s) PROVE HubInv'
  BY <1>3, BeginReplayKeepsInv
<1>4. ASSUME NEW s \in Subs, Handler(s) PROVE HubInv'
  BY <1>4, ReplayOneKeepsInv, EndReplayKeepsInv, SendEventKeepsInv, EndStreamKeepsInv DEF Handler
<1>5. ASSUME NEW s \in Subs, Disconnect(s) \/ Unsubscribe(s) PROVE HubInv'
  BY <1>5, LeavingKeepsInv
<1>6. CASE CloseHub
  BY <1>6, CloseHubKeepsInv
<1>7. CASE RemoveCall \/ SetBot \/ LoseBot \/ UNCHANGED vars
  BY <1>7, UnchangedKeepsInv
<1>8. QED
  BY <1>1, <1>2, <1>3, <1>4, <1>5, <1>6, <1>7 DEF Next

LEMMA HubInvHolds == Spec => []HubInv
<1>1. QED
  BY HubInvInit, HubInvStep, PTL DEF Spec

-----------------------------------------------------------------------------
(* The theorems.                                                           *)

\* Every reachable state of the hub is well typed; in particular no channel ever
\* holds more than its capacity, though publish and replay both send to it.
THEOREM TypeCorrect == Spec => []TypeOK
<1>1. HubInv => TypeOK
  BY DEF HubInv
<1>2. QED
  BY <1>1, HubInvHolds, PTL

\* The stream of a client that is still there misses nothing but what publish dropped,
\* across the hand-over from replay to live delivery and up to the close of the hub.
THEOREM StreamCompleteness == Spec => []StreamIsComplete
<1>1. HubInv => StreamIsComplete
  BY DEF HubInv, SubInv, Complete, StreamIsComplete
<1>2. QED
  BY <1>1, HubInvHolds, PTL

LEMMA RefinesInit == Init => Log!Init
<1>1. QED
  BY DEF Init, Log!Init

\* Publish records, Lookup opens, SendEvent delivers, CloseHub ends; the rest stutters.
LEMMA RefinesStep == HubInv /\ [Next]_vars => [Log!Next]_Log!logVars
<1> SUFFICES ASSUME HubInv, [Next]_vars PROVE [Log!Next]_Log!logVars
  OBVIOUS
<1> USE DEF Log!logVars
<1>1. ASSUME NEW t \in Types, Publish(t) PROVE Log!Record(t)
  BY <1>1 DEF Publish, Numbered, Log!Record
<1>2. ASSUME NEW s \in Subs, Lookup(s) PROVE Log!Open(s)
  BY <1>2 DEF Lookup, HubInv, SubInv, Fresh, Log!Open
<1>3. ASSUME NEW s \in Subs, SendEvent(s)
      PROVE  Log!Deliver(s) \/ UNCHANGED Log!logVars
  <2>1. CASE got' = got
    BY <2>1, <1>3 DEF SendEvent
  <2>2. CASE got' = [got EXCEPT ![s] = Append(@, Head(chan[s]))]
    <3>1. SubInv(s) /\ chan[s] \in Seq(Event) /\ chan[s] # <<>>
      BY <1>3 DEF HubInv, TypeOK, SendEvent
    <3>2. 1 \in 1..Len(chan[s]) /\ Head(chan[s]) = chan[s][1]
      BY <3>1
    <3>3. PICK i \in 1..Len(history) : i = chan[s][1].sequence
      BY <3>1, <3>2 DEF SubInv, Waiting
    <3>4. chan[s][1] = history[i] /\ i > Log!Served(s)
      BY <3>1, <3>2, <3>3 DEF SubInv, Waiting
    <3>5. got' = [got EXCEPT ![s] = Append(@, history[i])]
      BY <2>2, <3>2, <3>4
    <3>6. history' = history /\ closed' = closed /\ after' = after
      BY <1>3 DEF SendEvent
    <3>7. QED
      BY <3>4, <3>5, <3>6 DEF Log!Deliver
  <2>3. QED
    BY <2>1, <2>2, <1>3 DEF SendEvent
<1>4. CASE CloseHub
  BY <1>4 DEF CloseHub, Log!End, Log!Next
<1>5. ASSUME NEW s \in Subs,
             \/ BeginReplay(s) \/ ReplayOne(s) \/ EndReplay(s) \/ EndStream(s)
             \/ Disconnect(s) \/ Unsubscribe(s)
      PROVE  UNCHANGED Log!logVars
  BY <1>5 DEF BeginReplay, ReplayOne, EndReplay, EndStream, Disconnect, Unsubscribe
<1>6. CASE RemoveCall \/ SetBot \/ LoseBot \/ UNCHANGED vars
  BY <1>6 DEF RemoveCall, SetBot, LoseBot, vars
<1>7. QED
  BY <1>1, <1>2, <1>3, <1>4, <1>5, <1>6 DEF Next, Handler, Log!Next

\* What a client sees of a call's events is the abstract log, walked forward: numbered
\* without gaps by publish, never repeated, reordered or altered by replay or live delivery.
THEOREM Implementation == Spec => ImplementsLog
<1>1. QED
  BY RefinesInit, RefinesStep, HubInvHolds, PTL DEF Spec, ImplementsLog, Log!Spec

-----------------------------------------------------------------------------
(* A replay that is stuck.                                                 *)

\* A replay that waits for a place has put a channel full of events after the cursor
\* into it, and the event it holds comes after them: only a client that is further behind
\* than a channel holds can make its call wait, whatever the other streams do.
THEOREM StuckNeedsBacklog == Spec => []StuckOnlyBehind
<1>1. HubInv => StuckOnlyBehind
  <2>1. SUFFICES ASSUME HubInv, NEW s \in Subs, Stuck(s)
                 PROVE  Len(history) > after[s] + ChanCap
    BY DEF StuckOnlyBehind
  <2>2. /\ SubInv(s) /\ pc[s] = "replay" /\ next[s] <= Len(history)
        /\ history[next[s]].sequence > after[s] /\ ~(Len(chan[s]) < ChanCap)
    BY <2>1 DEF Stuck, Wanted, HasRoom, HubInv
  <2>3. /\ next[s] \in 1..(MaxEvents + 1) /\ after[s] \in 0..MaxEvents /\ Len(chan[s]) \in Nat
        /\ Len(history) \in Nat /\ ChanCap \in Nat /\ MaxEvents \in Nat
    BY <2>1, HubAssumption DEF HubInv, TypeOK
  <2>4. history[next[s]].sequence = next[s]
    BY <2>1, <2>2, <2>3 DEF HubInv, Numbering
  <2>5. Len(chan[s]) = (next[s] - 1) - after[s]
    BY <2>2, <2>4 DEF SubInv, Replaying
  <2>6. QED
    BY <2>2, <2>3, <2>5
<1>2. QED
  BY <1>1, HubInvHolds, PTL

-----------------------------------------------------------------------------
(* The hub under its call (CallStream).                                    *)

\* Every step of the composition is one of the hub, so the hub's invariant holds in it.
LEMMA StreamInvHolds == StreamSpec => []HubInv
<1>1. [StreamNext]_vars => [Next]_vars
  BY DEF StreamNext
<1>2. QED
  BY <1>1, HubInvInit, HubInvStep, PTL DEF StreamSpec

\* The call leaves activeCalls when its end is recorded, the hub closes when the call has
\* left, and its bot refuses a client when it has.
OverInv == /\ ~listed => EndAt # {}
           /\ closed => ~listed
           /\ \A s \in Subs : pc[s] = "refused" => ~listed

\* What is recorded stays recorded.
LEMMA EndStays ==
  ASSUME HubInv, [Next]_vars
  PROVE  EndAt \subseteq EndAt'
<1>1. history' = history \/ \E t \in Types : history' = Append(history, Numbered(t))
  BY DEF Next, Handler, Publish, Lookup, BeginReplay, ReplayOne, EndReplay, SendEvent, EndStream,
         Disconnect, Unsubscribe, SetBot, LoseBot, RemoveCall, CloseHub, vars
<1>2. history \in Seq(Event)
  BY DEF HubInv, TypeOK
<1>3. CASE history' = history
  BY <1>3 DEF EndAt
<1>4. ASSUME NEW t \in Types, history' = Append(history, Numbered(t))
      PROVE  EndAt \subseteq EndAt'
  <2>1. /\ Len(history) \in Nat /\ Len(history') = Len(history) + 1
        /\ \A i \in 1..Len(history) : history'[i] = history[i]
    BY <1>2, <1>4
  <2>2. QED
    BY <2>1 DEF EndAt
<1>5. QED
  BY <1>1, <1>3, <1>4

LEMMA OverStep == HubInv /\ OverInv /\ [StreamNext]_vars => OverInv'
<1> SUFFICES ASSUME HubInv, OverInv, [StreamNext]_vars PROVE OverInv'
  OBVIOUS
<1>1. [Next]_vars /\ EndAt \subseteq EndAt'
  BY EndStays DEF StreamNext
<1>2. CASE RemoveCall
  <2>1. listed /\ ~listed' /\ history' = history /\ closed' = closed /\ pc' = pc
    BY <1>2 DEF RemoveCall
  <2>2. Life!Next
    <3>1. [Life!Next]_(Life!lifeVars)
      BY <2>1 DEF StreamNext, vars
    <3>2. {c \in {ThisCall} : ~listed} # {c \in {ThisCall} : ~listed'}
      BY <2>1
    <3>3. QED
      BY <3>1, <3>2 DEF Life!lifeVars
  <2>3. Life!Recorded(ThisCall, "call_ended")
    <3>1. PICK c \in {ThisCall} : (\E t \in Types : Life!Record(c, t)) \/ Life!Leave(c) \/ Life!Close(c)
      BY <2>2 DEF Life!Next
    <3>2. {d \in {ThisCall} : ~listed'} # {d \in {ThisCall} : ~listed}
      BY <2>1
    <3>3. Life!Leave(c)
      BY <3>1, <3>2 DEF Life!Record, Life!Close
    <3>4. QED
      BY <3>3 DEF Life!Leave
  <2>4. EndAt # {}
    BY <2>3 DEF Life!Recorded, EndAt
  <2>5. QED
    BY <2>1, <2>4, <1>1 DEF OverInv
<1>3. CASE CloseHub
  BY <1>3, <1>1 DEF CloseHub, OverInv
<1>4. ASSUME NEW s \in Subs, Lookup(s) PROVE OverInv'
  <2>1. /\ pc' = [pc EXCEPT ![s] = IF registry # "this" THEN "misdirected"
                                ELSE IF listed THEN "found" ELSE "refused"]
        /\ listed' = listed /\ closed' = closed /\ pc \in [Subs -> {"idle", "misdirected", "refused",
             "found", "replay", "streaming", "ended", "failed"}]
    BY <1>4 DEF Lookup, HubInv, TypeOK
  <2>2. \A r \in Subs : pc'[r] = "refused" => pc[r] = "refused" \/ ~listed
    BY <2>1
  <2>3. QED
    BY <2>1, <2>2, <1>1 DEF OverInv
<1>5. ASSUME NEW s \in Subs, BeginReplay(s) \/ Handler(s)
      PROVE  OverInv'
  <2>1. /\ listed' = listed /\ closed' = closed
        /\ \A r \in Subs : pc'[r] = "refused" => pc[r] = "refused"
    BY <1>5 DEF BeginReplay, Handler, ReplayOne, EndReplay, SendEvent, EndStream, HubInv, TypeOK
  <2>2. QED
    BY <2>1, <1>1 DEF OverInv
<1>6. ASSUME \/ \E t \in Types : Publish(t)
             \/ \E s \in Subs : Disconnect(s) \/ Unsubscribe(s)
             \/ SetBot \/ LoseBot
             \/ UNCHANGED vars
      PROVE  OverInv'
  <2>1. listed' = listed /\ closed' = closed /\ pc' = pc
    BY <1>6 DEF Publish, Disconnect, Unsubscribe, SetBot, LoseBot, vars
  <2>2. QED
    BY <2>1, <1>1 DEF OverInv
<1>7. QED
  BY <1>1, <1>2, <1>3, <1>4, <1>5, <1>6 DEF Next

LEMMA OverInvHolds == StreamSpec => []OverInv
<1>1. Init => OverInv
  BY DEF Init, OverInv
<1>2. QED
  BY <1>1, OverStep, StreamInvHolds, PTL DEF StreamSpec

\* A client whose stream ended without an error knows, or could have known, that its call
\* is over: what the hub promises of deliveries and what the call promises of its end
\* combine, for any number of clients and events.
THEOREM NilTellsTheEnd == StreamSpec => []NilMeansEnded
<1>1. HubInv /\ OverInv => NilMeansEnded
  <2>1. SUFFICES ASSUME HubInv, OverInv, NEW s \in Subs, pc[s] = "ended", ~cancelled[s]
                 PROVE  \E i \in EndAt : i \in Sequences(got[s]) \cup lost[s] \/ i <= after[s]
    BY DEF NilMeansEnded
  <2>2. Accounted(s) /\ closed /\ chan[s] = <<>>
    BY <2>1 DEF HubInv, SubInv, Complete
  <2>3. Sequences(chan[s]) = {}
    BY <2>2 DEF Sequences
  <2>4. PICK i \in EndAt : TRUE
    BY <2>1, <2>2 DEF OverInv
  <2>5. i \in 1..Len(history) /\ after[s] \in Nat /\ Len(history) \in Nat
    BY <2>1, HubAssumption DEF EndAt, HubInv, TypeOK
  <2>6. i <= after[s] \/ i \in (after[s] + 1)..Len(history)
    BY <2>5
  <2>7. QED
    BY <2>2, <2>3, <2>4, <2>6 DEF Accounted
<1>2. QED
  BY <1>1, StreamInvHolds, OverInvHolds, PTL

\* Whom the bot of the call refuses, because the call has left activeCalls, is refused truly:
\* the end of the call is in the history of its hub.
THEOREM RefusalIsTrue == StreamSpec => []RefusedMeansOver
<1>1. OverInv => RefusedMeansOver
  BY DEF OverInv, RefusedMeansOver
<1>2. QED
  BY <1>1, OverInvHolds, PTL

\* The bot of a call sends a client away, with nil or with a refusal, only from a call that is
\* over, whenever the registry of bots finds it, loses it or replaces it (rpc/server.go,
\* User.SubscribeCallEvents and cleanupCall together).
THEOREM EndIsTold == StreamSpec => []StreamTellsEnd
BY NilTellsTheEnd, RefusalIsTrue, PTL DEF StreamTellsEnd
=============================================================================
