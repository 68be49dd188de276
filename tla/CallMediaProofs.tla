--------------------------- MODULE CallMediaProofs ---------------------------
(***************************************************************************)
(* What the native library may rely on (NtgAsync) and what the peer hears  *)
(* (AudioBridge), for every number of calls, workers, queue places, and    *)
(* every size of frames and chunks.                                        *)
(***************************************************************************)
EXTENDS NtgAsync, AudioBridge, SequenceTheorems, TLAPS

-----------------------------------------------------------------------------
(* The asynchronous calls.                                                 *)

\* A handle that has not been used has nothing.
Unused == \A h \in Handles : stage[h] = "new" =>
            native[h] = "none" /\ buffer[h] = "none" /\ h \notin closed

\* The promise closes the channel of an answered call.
ClosedIsAnswered == \A h \in closed : native[h] = "answered"

\* Only calls with a payload have a copy of it.
BufferOfPayload == \A h \in Handles : buffer[h] # "none" => HasBuffer(kind[h])

\* The pool and its queue are for frames.
FramesOnly == \A h \in Handles : stage[h] \in {"queued", "cleaning"} => kind[h] = "frame"

\* A frame is in the queue once, and nowhere else.
QueuedOnce == /\ \A i \in 1 .. Len(queue) : stage[queue[i]] = "queued"
              /\ \A i, j \in 1 .. Len(queue) : queue[i] = queue[j] => i = j

AsyncInv == /\ AsyncTypeOK /\ MemoryOutlivesCall
            /\ Unused /\ ClosedIsAnswered /\ BufferOfPayload /\ FramesOnly /\ QueuedOnce

LEMMA AsyncInitEstablishes == AsyncInit => AsyncInv
<1> SUFFICES ASSUME AsyncInit PROVE AsyncInv
  OBVIOUS
<1>1. AsyncTypeOK
  BY AsyncAssumption DEF AsyncInit, AsyncTypeOK, Kinds, Stages
<1>2. MemoryOutlivesCall /\ Unused /\ ClosedIsAnswered
  BY DEF AsyncInit, MemoryOutlivesCall, Unused, ClosedIsAnswered, InProgress
<1>3. BufferOfPayload /\ FramesOnly /\ QueuedOnce
  BY DEF AsyncInit, BufferOfPayload, FramesOnly, QueuedOnce
<1> QED
  BY <1>1, <1>2, <1>3 DEF AsyncInv

\* The operations that do not touch the queue.
LEMMA AsyncOffQueue ==
  ASSUME AsyncInv, NEW h \in Handles,
         \/ \E k \in Kinds : CallLibrary(h, k)
         \/ Refuse(h) \/ Wait(h) \/ Answer(h) \/ WaitReturns(h) \/ WaitTimeout(h) \/ CleanFrame(h)
  PROVE  AsyncInv'
<1> USE DEF AsyncInv, AsyncTypeOK, MemoryOutlivesCall, Unused, ClosedIsAnswered, BufferOfPayload,
            FramesOnly, QueuedOnce, InProgress, HasBuffer, Stages, Kinds, Enter, memory
<1>1. ASSUME NEW k \in Kinds, CallLibrary(h, k) PROVE AsyncInv'
  BY <1>1 DEF CallLibrary
<1>2. CASE Refuse(h)
  BY <1>2 DEF Refuse, AsyncFree, ReleaseBuffer
<1>3. CASE Wait(h)
  BY <1>3 DEF Wait
<1>4. CASE Answer(h)
  BY <1>4 DEF Answer
<1>5. CASE WaitReturns(h)
  BY <1>5 DEF WaitReturns, AsyncFree, ReleaseBuffer
<1>6. CASE WaitTimeout(h)
  BY <1>6 DEF WaitTimeout, AsyncFree, ReleaseBuffer
<1>7. CASE CleanFrame(h)
  BY <1>7 DEF CleanFrame, AsyncFree, ReleaseBuffer
<1> QED
  BY <1>1, <1>2, <1>3, <1>4, <1>5, <1>6, <1>7

LEMMA AsyncQueueFrame == ASSUME AsyncInv, NEW h \in Handles, QueueFrame(h) PROVE AsyncInv'
<1> USE DEF AsyncInv, AsyncTypeOK, MemoryOutlivesCall, Unused, ClosedIsAnswered, BufferOfPayload,
            FramesOnly, QueuedOnce, InProgress, Stages, Kinds, Enter, memory
<1>1. CASE queue' = queue
  BY <1>1 DEF QueueFrame
<1>2. CASE queue' = Append(queue, h) /\ Len(queue) < QueueCap
  <2>1. /\ queue' \in Seq(Handles) /\ Len(queue') = Len(queue) + 1
        /\ \A i \in 1 .. Len(queue) : queue'[i] = queue[i]
        /\ queue'[Len(queue) + 1] = h
    BY <1>2
  <2>2. AsyncTypeOK'
    <3>1. queue' \in Seq(Handles) /\ Len(queue') <= QueueCap
      BY <1>2, <2>1, AsyncAssumption
    <3> QED
      BY <3>1 DEF QueueFrame
  <2>3. QueuedOnce'
    BY <1>2, <2>1 DEF QueueFrame
  <2> QED
    BY <1>2, <2>2, <2>3 DEF QueueFrame
<1> QED
  BY <1>1, <1>2 DEF QueueFrame

LEMMA AsyncTakeFrame == ASSUME AsyncInv, TakeFrame PROVE AsyncInv'
<1> USE DEF AsyncInv, AsyncTypeOK, MemoryOutlivesCall, Unused, ClosedIsAnswered, BufferOfPayload,
            FramesOnly, QueuedOnce, InProgress, Stages, Kinds, Enter, memory
<1>1. /\ Head(queue) \in Handles /\ Head(queue) = queue[1] /\ 1 \in 1 .. Len(queue)
      /\ Tail(queue) \in Seq(Handles) /\ Len(Tail(queue)) = Len(queue) - 1
      /\ \A i \in 1 .. Len(queue) - 1 : Tail(queue)[i] = queue[i + 1]
  BY DEF TakeFrame
<1>2. stage[Head(queue)] = "queued"
  BY <1>1
<1>3. AsyncTypeOK'
  <2>1. queue' \in Seq(Handles) /\ Len(queue') <= QueueCap
    BY <1>1, AsyncAssumption DEF TakeFrame
  <2>2. pool' \subseteq Handles
    BY <1>1 DEF TakeFrame
  <2> QED
    BY <2>1, <2>2, <1>1 DEF TakeFrame
<1>4. QueuedOnce'
  BY <1>1, <1>2 DEF TakeFrame
<1> QED
  BY <1>1, <1>2, <1>3, <1>4 DEF TakeFrame

\* Calls into the library keep their strengthened invariant.
THEOREM AsyncInvariance == AsyncSpec => []AsyncInv
<1>1. AsyncInv /\ [AsyncNext]_asyncVars => AsyncInv'
  <2> SUFFICES ASSUME AsyncInv, [AsyncNext]_asyncVars PROVE AsyncInv'
    OBVIOUS
  <2>1. CASE AsyncNext
    BY <2>1, AsyncOffQueue, AsyncQueueFrame, AsyncTakeFrame DEF AsyncNext, GoStep
  <2>2. CASE UNCHANGED asyncVars
    BY <2>2 DEF asyncVars, AsyncInv, AsyncTypeOK, MemoryOutlivesCall, Unused, ClosedIsAnswered,
                BufferOfPayload, FramesOnly, QueuedOnce, InProgress
  <2> QED
    BY <2>1, <2>2
<1> QED
  BY <1>1, AsyncInitEstablishes, PTL DEF AsyncSpec

\* Types of the asynchronous calls (ntgcalls_purego_impl.go).
THEOREM AsyncTypeCorrect == AsyncSpec => []AsyncTypeOK
<1>1. AsyncInv => AsyncTypeOK
  BY DEF AsyncInv
<1> QED
  BY <1>1, AsyncInvariance, PTL

\* The library never works on released memory but where the code gives a call up without
\* waiting for it: asyncWait's timeout keeps the error's memory, not the payload's.
THEOREM MemoryIsKept == AsyncSpec => []MemoryOutlivesCall
<1>1. AsyncInv => MemoryOutlivesCall
  BY DEF AsyncInv
<1> QED
  BY <1>1, AsyncInvariance, PTL

-----------------------------------------------------------------------------
(* Sequences of samples.                                                   *)

Sound == Seq(Nat)

LEMMA Join ==
  \A a, b \in Sound : /\ a \o b \in Sound
                      /\ Len(a) \in Nat /\ Len(b) \in Nat
                      /\ Len(a \o b) = Len(a) + Len(b)
BY DEF Sound

\* Equations between concatenations, as operators so that the provers instantiate them only
\* where they are named.
Grouped(a, b, c) == (a \o b) \o c = a \o (b \o c)

LEMMA Regroup == \A a, b, c \in Sound : Grouped(a, b, c)
BY ConcatAssociative DEF Sound, Grouped

\* Samples change hands at the borders of pieces.
Rehanded(a, f, r, h, o, w, g) ==
  r \o h = w \o g => ((a \o f) \o r) \o (h \o o) = ((a \o (f \o w)) \o g) \o o

LEMMA Rehand == \A a, f, r, h, o, w, g \in Sound : Rehanded(a, f, r, h, o, w, g)
<1> SUFFICES ASSUME NEW a \in Sound, NEW f \in Sound, NEW r \in Sound, NEW h \in Sound,
                    NEW o \in Sound, NEW w \in Sound, NEW g \in Sound
             PROVE  Rehanded(a, f, r, h, o, w, g)
  OBVIOUS
<1> DEFINE x == a \o f
           y == x \o r
<1>1. x \in Sound /\ y \in Sound
  BY Join
<1> HIDE DEF x, y
<1>2. Grouped(y, h, o) /\ Grouped(x, r, h) /\ Grouped(x, w, g)
  BY <1>1, Regroup
<1>3. Grouped(a, f, w)
  BY Regroup
<1>4. (y \o h) \o o = y \o (h \o o) /\ (x \o r) \o h = x \o (r \o h)
      /\ (x \o w) \o g = x \o (w \o g) /\ (a \o f) \o w = a \o (f \o w)
  BY <1>2, <1>3 DEF Grouped
<1> QED
  BY <1>4 DEF Rehanded, x, y

\* A piece between the first and the last two.
Dropped(a, b, c, d) == ((a \o b) \o c) \o d = a \o ((b \o c) \o d)

LEMMA Drop == \A a, b, c, d \in Sound : Dropped(a, b, c, d)
<1> SUFFICES ASSUME NEW a \in Sound, NEW b \in Sound, NEW c \in Sound, NEW d \in Sound
             PROVE  Dropped(a, b, c, d)
  OBVIOUS
<1> DEFINE y == b \o c
<1>1. y \in Sound
  BY Join
<1> HIDE DEF y
<1>2. Grouped(a, b, c) /\ Grouped(a, y, d)
  BY <1>1, Regroup
<1> QED
  BY <1>2 DEF Grouped, Dropped, y

\* The samples of t are samples of s, at places that move to the right by at most gap.
LEMMA CutMiddle ==
  ASSUME NEW a \in Sound, NEW b \in Sound, NEW c \in Sound
  PROVE  /\ (a \o b) \o c \in Sound /\ a \o c \in Sound
         /\ Len((a \o b) \o c) = Len(a) + Len(b) + Len(c)
         /\ Len(a \o c) = Len(a) + Len(c)
         /\ \A i \in 1 .. Len(a) + Len(c) :
              (a \o c)[i] = ((a \o b) \o c)[IF i <= Len(a) THEN i ELSE i + Len(b)]
<1>1. /\ a \o b \in Sound /\ Len(a \o b) = Len(a) + Len(b)
      /\ \A i \in 1 .. Len(a) + Len(b) : (a \o b)[i] = IF i <= Len(a) THEN a[i] ELSE b[i - Len(a)]
  BY DEF Sound
<1> QED
  BY DEF Sound

\* A sequence is its beginning and its rest.
LEMMA CutAt ==
  ASSUME NEW s \in Sound, NEW n \in 0 .. Len(s)
  PROVE  /\ SubSeq(s, 1, n) \in Sound /\ Len(SubSeq(s, 1, n)) = n
         /\ SubSeq(s, n + 1, Len(s)) \in Sound /\ Len(SubSeq(s, n + 1, Len(s))) = Len(s) - n
         /\ s = SubSeq(s, 1, n) \o SubSeq(s, n + 1, Len(s))
<1>1. n + 1 \in Int /\ Len(s) \in Nat /\ n \in Int
  BY DEF Sound
<1>2. \A i \in 1 .. Len(s) : s[i] \in Nat
  BY DEF Sound
<1>3. SubSeq(s, 1, n) \in Sound /\ Len(SubSeq(s, 1, n)) = n
  BY <1>1, <1>2, SubSeqProperties DEF Sound
<1>4. SubSeq(s, n + 1, Len(s)) \in Sound /\ Len(SubSeq(s, n + 1, Len(s))) = Len(s) - n
  BY <1>1, <1>2, SubSeqProperties DEF Sound
<1>5. SubSeq(s, 1, n) \o SubSeq(s, n + 1, Len(s)) = SubSeq(s, 1, Len(s))
  <2>1. 1 \in 1 .. Len(s) + 1 /\ n \in 1 - 1 .. Len(s) /\ Len(s) \in n .. Len(s)
    BY <1>1
  <2> QED
    BY <2>1, ConcatAdjacentSubSeq DEF Sound
<1>6. SubSeq(s, 1, Len(s)) = s
  BY SubSeqFull DEF Sound
<1> QED
  BY <1>3, <1>4, <1>5, <1>6

\* Whole frames.
LEMMA WholeFrames ==
  ASSUME NEW n \in Nat
  PROVE  Whole(n) \in 0 .. n /\ \E k \in 0 .. n : Whole(n) = k * FrameSize
<1>1. FrameSize \in Nat /\ FrameSize > 0
  BY BridgeAssumption
<1>2. n \div FrameSize \in 0 .. n /\ (n \div FrameSize) * FrameSize <= n
  BY <1>1
<1>3. (n \div FrameSize) * FrameSize >= 0
  BY <1>1, <1>2
<1> QED
  BY <1>1, <1>2, <1>3 DEF Whole

-----------------------------------------------------------------------------
(* What the peer hears.                                                    *)

\* Nothing is later than what has been produced.
Made == mark <= produced /\ \A i \in DOMAIN Pipeline : Pipeline[i] <= produced

\* A signal that the sender has walked past at the top of its loop has not been followed by
\* a frame yet.
SignalSeen == drainCh = "signalled" /\ sender \in {"select", "drainTop", "drainSelect"} => late = 0

BridgeInv == BridgeTypeOK /\ AudioInOrder /\ InterruptionIsPrompt /\ Made /\ SignalSeen

LEMMA BridgeInitEstablishes == BridgeInit => BridgeInv
<1> SUFFICES ASSUME BridgeInit PROVE BridgeInv
  OBVIOUS
<1>1. Pipeline = <<>>
  BY DEF BridgeInit, Pipeline
<1>2. Len(frameQueue) = 0 /\ 0 = 0 * FrameSize
  BY BridgeAssumption DEF BridgeInit
<1>3. BridgeTypeOK
  <2>1. \E k \in 0 .. Len(frameQueue) : Len(frameQueue) = k * FrameSize
    BY <1>2
  <2>2. outClosed \in BOOLEAN /\ setup \in BOOLEAN /\ ctxDone \in BOOLEAN
    BY DEF BridgeInit
  <2>3. out \in Seq(Nat) /\ framer \in Seq(Nat) /\ frameQueue \in Seq(Nat) /\ sent \in Seq(Nat)
    BY DEF BridgeInit
  <2> QED
    BY <2>1, <2>2, <2>3 DEF BridgeInit, BridgeTypeOK
<1> QED
  BY <1>1, <1>3 DEF BridgeInit, BridgeInv, AudioInOrder, InterruptionIsPrompt, Made, SignalSeen

LEMMA PipelineIsSound ==
  ASSUME BridgeTypeOK
  PROVE  /\ Pipeline \in Sound
         /\ sent \in Sound /\ frameQueue \in Sound /\ framer \in Sound /\ out \in Sound
         /\ Len(Pipeline) = Len(sent) + Len(frameQueue) + Len(framer) + Len(out)
<1>1. sent \in Sound /\ frameQueue \in Sound /\ framer \in Sound /\ out \in Sound
  BY DEF BridgeTypeOK, Sound
<1>2. sent \o frameQueue \in Sound /\ Len(sent \o frameQueue) = Len(sent) + Len(frameQueue)
  BY <1>1 DEF Sound
<1>3. /\ (sent \o frameQueue) \o framer \in Sound
      /\ Len((sent \o frameQueue) \o framer) = Len(sent) + Len(frameQueue) + Len(framer)
  BY <1>1, <1>2 DEF Sound
<1> QED
  BY <1>1, <1>3 DEF Sound, Pipeline

\* What keeps the samples on their way keeps what is said of them, as long as the marks
\* stay and draining is not left.
LEMMA PipelineKept ==
  ASSUME BridgeInv, BridgeTypeOK', Pipeline' = Pipeline, Len(sent) <= Len(sent'),
         UNCHANGED <<produced, lost, mark>>, Draining => Draining'
  PROVE  /\ AudioInOrder' /\ Made'
         /\ \A i \in DOMAIN Pipeline' : i > Len(sent') /\ ~Draining' => Pipeline'[i] > mark'
<1>1. Len(sent) \in Nat /\ Len(sent') \in Nat /\ Pipeline \in Sound
  BY PipelineIsSound DEF BridgeInv, BridgeTypeOK
<1> QED
  BY <1>1 DEF BridgeInv, AudioInOrder, InterruptionIsPrompt, Made, Sound

\* So does the loss of samples in the middle, after what has been sent.
LEMMA PipelineCut ==
  ASSUME BridgeInv, BridgeTypeOK', NEW a \in Sound, NEW b \in Sound, NEW c \in Sound,
         Pipeline = (a \o b) \o c, Pipeline' = a \o c, Len(sent) <= Len(a),
         lost' = lost + Len(b), UNCHANGED <<produced, mark, sent>>, Draining => Draining'
  PROVE  /\ AudioInOrder' /\ Made'
         /\ \A i \in DOMAIN Pipeline' : i > Len(sent') /\ ~Draining' => Pipeline'[i] > mark'
<1> DEFINE Old(i) == IF i <= Len(a) THEN i ELSE i + Len(b)
<1>1. /\ Pipeline \in Sound /\ Pipeline' \in Sound
      /\ Len(Pipeline) = Len(a) + Len(b) + Len(c) /\ Len(Pipeline') = Len(a) + Len(c)
      /\ \A i \in 1 .. Len(a) + Len(c) : Pipeline'[i] = Pipeline[Old(i)]
  <2>1. /\ (a \o b) \o c \in Sound /\ a \o c \in Sound
        /\ Len((a \o b) \o c) = Len(a) + Len(b) + Len(c)
        /\ Len(a \o c) = Len(a) + Len(c)
    BY CutMiddle
  <2>2. \A i \in 1 .. Len(a) + Len(c) : (a \o c)[i] = ((a \o b) \o c)[Old(i)]
    BY CutMiddle
  <2> QED
    BY <2>1, <2>2
<1>2. Len(a) \in Nat /\ Len(b) \in Nat /\ Len(c) \in Nat /\ Len(sent) \in Nat
  BY PipelineIsSound DEF Sound, BridgeInv
<1>3. /\ DOMAIN Pipeline = 1 .. Len(a) + Len(b) + Len(c)
      /\ DOMAIN Pipeline' = 1 .. Len(a) + Len(c)
  BY <1>1 DEF Sound
<1>4. \A i \in DOMAIN Pipeline' : /\ Old(i) \in DOMAIN Pipeline /\ Old(i) >= i
                                  /\ Pipeline'[i] = Pipeline[Old(i)]
  BY <1>1, <1>2, <1>3
<1>5. \A i, j \in DOMAIN Pipeline' : i < j => Old(i) < Old(j)
  BY <1>2, <1>3
<1>6. produced \in Nat /\ lost \in Nat
  BY DEF BridgeInv, BridgeTypeOK
<1>7. AudioInOrder'
  <2> HIDE DEF Old
  <2>1. ASSUME NEW i \in DOMAIN Pipeline', NEW j \in DOMAIN Pipeline', i < j
        PROVE  Pipeline'[i] < Pipeline'[j]
    <3>1. Old(i) \in DOMAIN Pipeline /\ Old(j) \in DOMAIN Pipeline /\ Old(i) < Old(j)
      BY <1>4, <1>5, <2>1
    <3>2. \A k, l \in DOMAIN Pipeline : k < l => Pipeline[k] < Pipeline[l]
      BY DEF BridgeInv, AudioInOrder
    <3>3. Pipeline[Old(i)] < Pipeline[Old(j)]
      BY <3>1, <3>2
    <3> QED
      BY <1>4, <3>3
  <2>2. Len(Pipeline') + lost' = produced'
    BY <1>1, <1>2, <1>6 DEF BridgeInv, AudioInOrder
  <2> QED
    BY <2>1, <2>2 DEF AudioInOrder
<1>8. Made'
  BY <1>4 DEF BridgeInv, Made
<1>9. \A i \in DOMAIN Pipeline' : i > Len(sent') /\ ~Draining' => Pipeline'[i] > mark'
  <2> SUFFICES ASSUME NEW i \in DOMAIN Pipeline', i > Len(sent), ~Draining
               PROVE  Pipeline'[i] > mark
    OBVIOUS
  <2>1. Old(i) > Len(sent) /\ Old(i) \in DOMAIN Pipeline /\ Pipeline'[i] = Pipeline[Old(i)]
    BY <1>2, <1>3, <1>4
  <2> QED
    BY <2>1 DEF BridgeInv, InterruptionIsPrompt
<1> QED
  BY <1>7, <1>8, <1>9

\* Signals, closings and the ends of goroutines.
Still == \/ SignalDrain \/ CloseAudio \/ CloseDrain \/ SetupDone \/ PeerSpeaks \/ CloseHeard \/ EndCall
         \/ StartBridge \/ CheckDrain \/ SelectDrain \/ SendSilence \/ SenderLeaves
         \/ ForwardHeard \/ CallerLeaves \/ ListenerLeaves \/ UNCHANGED bridgeVars

LEMMA BridgeStill == ASSUME BridgeInv, Still PROVE BridgeInv'
<1>1. UNCHANGED <<out, framer, frameQueue, sent, lost, mark, produced>>
  BY DEF Still, SignalDrain, CloseAudio, CloseDrain, SetupDone, PeerSpeaks, CloseHeard, EndCall,
         StartBridge, CheckDrain, SelectDrain, SendSilence, SenderLeaves, ForwardHeard, CallerLeaves,
         ListenerLeaves, bridgeVars, sound, model
<1>2. Draining => Draining'
  BY DEF Still, SignalDrain, CloseAudio, CloseDrain, SetupDone, PeerSpeaks, CloseHeard, EndCall,
         StartBridge, CheckDrain, SelectDrain, SendSilence, SenderLeaves, ForwardHeard, CallerLeaves,
         ListenerLeaves, bridgeVars, Draining
<1>3. /\ drains' \in Nat /\ late' \in Nat
      /\ drainCh' = "signalled" => late' <= 1
      /\ SignalSeen'
  BY DEF BridgeInv, BridgeTypeOK, InterruptionIsPrompt, SignalSeen,
         Still, SignalDrain, CloseAudio, CloseDrain, SetupDone, PeerSpeaks, CloseHeard, EndCall,
         StartBridge, CheckDrain, SelectDrain, SendSilence, SenderLeaves, ForwardHeard, CallerLeaves,
         ListenerLeaves, bridgeVars, model, others
<1>4. outClosed' \in BOOLEAN /\ setup' \in BOOLEAN /\ ctxDone' \in BOOLEAN
  BY DEF BridgeInv, BridgeTypeOK,
         Still, SignalDrain, CloseAudio, CloseDrain, SetupDone, PeerSpeaks, CloseHeard, EndCall,
         StartBridge, CheckDrain, SelectDrain, SendSilence, SenderLeaves, ForwardHeard, CallerLeaves,
         ListenerLeaves, bridgeVars, model, others
<1>5. /\ drainCh' \in {"quiet", "signalled", "closed", "nil"}
      /\ sender' \in {"unstarted", "top", "select", "drainTop", "drainSelect", "gone"}
      /\ caller' \in {"unstarted", "loop", "gone"}
      /\ heard' \in {"quiet", "chunk", "closed"}
      /\ listener' \in {"loop", "gone"}
  BY DEF BridgeInv, BridgeTypeOK,
         Still, SignalDrain, CloseAudio, CloseDrain, SetupDone, PeerSpeaks, CloseHeard, EndCall,
         StartBridge, CheckDrain, SelectDrain, SendSilence, SenderLeaves, ForwardHeard, CallerLeaves,
         ListenerLeaves, bridgeVars, model, others
<1>6. BridgeTypeOK'
  BY <1>1, <1>3, <1>4, <1>5 DEF BridgeInv, BridgeTypeOK
<1>7. Pipeline' = Pipeline /\ Len(sent) <= Len(sent')
  BY <1>1 DEF Pipeline, BridgeInv, BridgeTypeOK
<1> QED
  BY <1>1, <1>2, <1>3, <1>6, <1>7, PipelineKept DEF BridgeInv, InterruptionIsPrompt

LEMMA BridgeProduce == ASSUME BridgeInv, Produce PROVE BridgeInv'
<1> USE DEF BridgeInv
<1>1. /\ produced \in Nat /\ produced' = produced + 1
      /\ UNCHANGED <<outClosed, drainCh, drains, sender, framer, frameQueue, sent, lost, mark, late, others>>
      /\ out' = Append(out, produced + 1)
  BY DEF Produce, BridgeTypeOK
<1>2. BridgeTypeOK'
  BY <1>1 DEF BridgeTypeOK, others
<1> DEFINE before == (sent \o frameQueue) \o framer
<1>3. before \in Sound /\ out \in Sound
  BY DEF BridgeTypeOK, Sound
<1>4. Pipeline = before \o out /\ Pipeline' = before \o Append(out, produced + 1)
  BY <1>1 DEF Pipeline
<1>5. Pipeline' = Append(Pipeline, produced + 1)
  <2> HIDE DEF before
  <2> DEFINE sample == <<produced + 1>>
  <2>1. sample \in Sound /\ before \o out \in Sound
    BY <1>1, <1>3, Join DEF Sound
  <2>2. /\ Append(out, produced + 1) = out \o sample
        /\ Append(before \o out, produced + 1) = (before \o out) \o sample
    BY <1>1, <1>3, <2>1, AppendIsConcat DEF Sound
  <2> HIDE DEF sample
  <2>3. (before \o out) \o sample = before \o (out \o sample)
    BY <1>3, <2>1, Regroup DEF Grouped
  <2> QED
    BY <1>4, <2>2, <2>3
<1>6. Pipeline \in Sound /\ Len(sent) \in Nat
  BY PipelineIsSound DEF Sound
<1>7. /\ DOMAIN Pipeline = 1 .. Len(Pipeline) /\ DOMAIN Pipeline' = 1 .. Len(Pipeline) + 1
      /\ Len(Pipeline') = Len(Pipeline) + 1 /\ Len(Pipeline) \in Nat
      /\ \A i \in 1 .. Len(Pipeline) : Pipeline'[i] = Pipeline[i] /\ Pipeline[i] \in Nat
      /\ Pipeline'[Len(Pipeline) + 1] = produced + 1
  BY <1>1, <1>5, <1>6 DEF Sound
<1>8. mark \in Nat /\ lost \in Nat
  BY DEF BridgeTypeOK
<1>9. Made'
  BY <1>1, <1>7, <1>8 DEF Made
<1>10. AudioInOrder'
  BY <1>1, <1>7, <1>8 DEF AudioInOrder, Made
<1>11. InterruptionIsPrompt'
  BY <1>1, <1>7, <1>8 DEF InterruptionIsPrompt, Made, Draining
<1>12. SignalSeen'
  BY <1>1 DEF SignalSeen
<1> QED
  BY <1>2, <1>9, <1>10, <1>11, <1>12

\* Framing moves samples from the channel to the framer and from there to the queue.
LEMMA BridgeReceives == ASSUME BridgeInv, ReceiveChunk PROVE BridgeInv'
<1> USE DEF BridgeInv
<1>1. PICK n \in 1 .. MaxChunk :
        /\ n <= Len(out)
        /\ out' = SubSeq(out, n + 1, Len(out))
        /\ LET buf == framer \o SubSeq(out, 1, n)
               cut == Whole(Len(buf))
           IN  /\ frameQueue' = frameQueue \o SubSeq(buf, 1, cut)
               /\ framer' = SubSeq(buf, cut + 1, Len(buf))
  BY DEF ReceiveChunk
<1> DEFINE head == SubSeq(out, 1, n)
           buf == framer \o head
           cut == Whole(Len(buf))
           whole == SubSeq(buf, 1, cut)
<1>2. /\ sender = "select" /\ sender' = "top"
      /\ UNCHANGED <<produced, outClosed, drains, drainCh, sent, lost, mark, late, others>>
  BY DEF ReceiveChunk, model
<1>3. /\ sent \in Sound /\ frameQueue \in Sound /\ framer \in Sound /\ out \in Sound
      /\ n \in 0 .. Len(out)
  BY <1>1, PipelineIsSound, BridgeAssumption
<1>4. head \in Sound /\ out' \in Sound /\ out = head \o out'
  BY <1>1, <1>3, CutAt
<1>5. buf \in Sound /\ Len(buf) \in Nat
  BY <1>3, <1>4 DEF Sound
<1>6. cut \in 0 .. Len(buf) /\ \E k \in 0 .. Len(buf) : cut = k * FrameSize
  BY <1>5, WholeFrames
<1>7. /\ whole \in Sound /\ Len(whole) = cut
      /\ framer' \in Sound /\ buf = whole \o framer'
  <2> HIDE DEF buf, cut
  <2>1. framer' = SubSeq(buf, cut + 1, Len(buf))
    BY <1>1 DEF buf, cut
  <2> QED
    BY <1>5, <1>6, <2>1, CutAt
<1>8. frameQueue' = frameQueue \o whole
  BY <1>1
<1> HIDE DEF head, buf, cut, whole
<1>9. /\ frameQueue' \in Sound /\ Len(frameQueue') = Len(frameQueue) + cut
      /\ Len(frameQueue) \in Nat
  BY <1>3, <1>7, <1>8, Join
<1>10. \E k \in 0 .. Len(frameQueue') : Len(frameQueue') = k * FrameSize
  <2>1. PICK k \in 0 .. Len(frameQueue) : Len(frameQueue) = k * FrameSize
    BY DEF BridgeTypeOK
  <2>2. PICK q \in 0 .. Len(buf) : cut = q * FrameSize
    BY <1>6
  <2>3. FrameSize \in Nat /\ FrameSize > 0
    BY BridgeAssumption
  <2>4. k \in Nat /\ q \in Nat
    BY <1>5, <1>9
  <2>5. (k + q) * FrameSize = Len(frameQueue')
    BY <1>9, <2>1, <2>2, <2>3, <2>4
  <2>6. k + q <= (k + q) * FrameSize
    BY <2>3, <2>4
  <2> QED
    BY <2>4, <2>5, <2>6
<1>11. BridgeTypeOK'
  BY <1>2, <1>4, <1>7, <1>9, <1>10 DEF BridgeTypeOK, Sound, others
<1>12. Pipeline' = Pipeline
  <2>1. framer \o head = whole \o framer'
    BY <1>7 DEF buf
  <2>2. Rehanded(sent, frameQueue, framer, head, out', whole, framer')
    BY <1>3, <1>4, <1>7, Rehand
  <2> QED
    BY <1>2, <1>4, <1>8, <2>1, <2>2 DEF Pipeline, Rehanded
<1>13. ~Draining /\ ~Draining' /\ Len(sent) <= Len(sent')
  BY <1>2, <1>3 DEF Draining, Sound
<1>14. (drainCh' = "signalled" => late' <= 1) /\ SignalSeen'
  BY <1>2 DEF SignalSeen, InterruptionIsPrompt
<1> QED
  BY <1>2, <1>11, <1>12, <1>13, <1>14, PipelineKept DEF InterruptionIsPrompt

\* A queue that is not empty holds a frame.
LEMMA FrameIsQueued ==
  ASSUME BridgeTypeOK, frameQueue # <<>>
  PROVE  FrameSize \in 0 .. Len(frameQueue)
<1>1. frameQueue \in Sound /\ FrameSize \in Nat /\ FrameSize > 0 /\ Len(frameQueue) \in Nat
  BY PipelineIsSound, BridgeAssumption DEF Sound
<1>2. PICK k \in 0 .. Len(frameQueue) : Len(frameQueue) = k * FrameSize
  BY DEF BridgeTypeOK
<1>3. k > 0
  <2>1. Len(frameQueue) > 0
    BY <1>1 DEF Sound
  <2> QED
    BY <1>1, <1>2, <2>1
<1>4. (k - 1) * FrameSize >= 0 /\ Len(frameQueue) = (k - 1) * FrameSize + FrameSize
  BY <1>1, <1>2, <1>3
<1> QED
  BY <1>1, <1>4

LEMMA BridgeSends == ASSUME BridgeInv, SendFrame PROVE BridgeInv'
<1> USE DEF BridgeInv
<1> DEFINE frame == SubSeq(frameQueue, 1, FrameSize)
<1>1. /\ sender = "select" /\ sender' = "top" /\ frameQueue # <<>>
      /\ UNCHANGED <<produced, outClosed, drains, drainCh, out, framer, mark, others>>
      /\ frameQueue' = SubSeq(frameQueue, FrameSize + 1, Len(frameQueue))
  BY DEF SendFrame, model
<1>2. /\ sent \in Sound /\ frameQueue \in Sound /\ framer \in Sound /\ out \in Sound
      /\ FrameSize \in Nat /\ FrameSize > 0 /\ Len(frameQueue) \in Nat
  BY PipelineIsSound, BridgeAssumption DEF Sound
<1>3. PICK k \in 0 .. Len(frameQueue) : Len(frameQueue) = k * FrameSize
  BY DEF BridgeTypeOK
<1>4. k > 0
  <2>1. Len(frameQueue) > 0
    BY <1>1, <1>2 DEF Sound
  <2> QED
    BY <1>2, <1>3, <2>1
<1>5. FrameSize \in 0 .. Len(frameQueue)
  <2>1. (k - 1) * FrameSize >= 0 /\ Len(frameQueue) = (k - 1) * FrameSize + FrameSize
    BY <1>2, <1>3, <1>4
  <2> QED
    BY <1>2, <1>4, <2>1
<1>6. /\ frame \in Sound /\ Len(frame) = FrameSize
      /\ frameQueue' \in Sound /\ Len(frameQueue') = Len(frameQueue) - FrameSize
  BY <1>1, <1>2, <1>5, CutAt
<1>13. frameQueue = frame \o frameQueue'
  BY <1>1, <1>2, <1>5, CutAt
<1> HIDE DEF frame
<1>7. \E q \in 0 .. Len(frameQueue') : Len(frameQueue') = q * FrameSize
  <2>1. k - 1 \in Nat /\ Len(frameQueue') = (k - 1) * FrameSize
    BY <1>2, <1>3, <1>4, <1>6
  <2>2. k - 1 <= (k - 1) * FrameSize
    BY <1>2, <2>1
  <2> QED
    BY <2>1, <2>2
<1> DEFINE rest == (frameQueue' \o framer) \o out
<1>8. /\ rest \in Sound /\ sent \o frame \in Sound
      /\ Pipeline = (sent \o frame) \o rest
      /\ Pipeline = (((sent \o frame) \o frameQueue') \o framer) \o out
      /\ sent \o rest = ((sent \o frameQueue') \o framer) \o out
  <2>1. frameQueue' \o framer \in Sound /\ rest \in Sound /\ sent \o frame \in Sound
    BY <1>2, <1>6, Join
  <2> DEFINE x == sent \o frame
  <2>2. x \in Sound
    BY <2>1
  <2> HIDE DEF x
  <2>3. Dropped(x, frameQueue', framer, out) /\ Dropped(sent, frameQueue', framer, out)
    BY <1>2, <1>6, <2>2, Drop
  <2>4. Grouped(sent, frame, frameQueue')
    BY <1>2, <1>6, Regroup
  <2>5. Pipeline = (((sent \o frame) \o frameQueue') \o framer) \o out
    BY <1>13, <2>4 DEF Pipeline, Grouped
  <2> QED
    BY <2>1, <2>3, <2>5 DEF Dropped, x
<1>9. ~Draining /\ ~Draining'
  BY <1>1 DEF Draining
<1>10. CASE sent' = sent \o frame /\ late' = (IF drainCh = "signalled" THEN late + 1 ELSE late)
            /\ UNCHANGED lost
  <2>1. sent' \in Sound /\ Len(sent') = Len(sent) + FrameSize /\ Len(sent) \in Nat
    BY <1>2, <1>6, <1>10, Join
  <2>2. BridgeTypeOK'
    <3>1. late' \in Nat /\ lost' \in Nat /\ frameQueue' \in Seq(Nat) /\ sent' \in Seq(Nat)
      BY <1>6, <1>10, <2>1 DEF BridgeTypeOK, Sound
    <3> QED
      BY <1>1, <1>7, <3>1 DEF BridgeTypeOK, others
  <2>3. Pipeline' = Pipeline
    BY <1>1, <1>8, <1>10 DEF Pipeline
  <2>4. (drainCh' = "signalled" => late' <= 1) /\ SignalSeen'
    BY <1>1, <1>10 DEF SignalSeen, InterruptionIsPrompt
  <2> QED
    BY <1>1, <1>2, <1>9, <1>10, <2>1, <2>2, <2>3, <2>4, PipelineKept DEF InterruptionIsPrompt
<1>11. CASE lost' = lost + FrameSize /\ UNCHANGED <<sent, late>>
  <2>1. BridgeTypeOK'
    <3>1. lost' \in Nat /\ frameQueue' \in Seq(Nat)
      BY <1>2, <1>6, <1>11 DEF BridgeTypeOK, Sound
    <3> QED
      BY <1>1, <1>7, <1>11, <3>1 DEF BridgeTypeOK, others
  <2>2. Pipeline' = sent \o rest
    BY <1>1, <1>8, <1>11 DEF Pipeline
  <2>5. (drainCh' = "signalled" => late' <= 1) /\ SignalSeen'
    BY <1>1, <1>11 DEF SignalSeen, InterruptionIsPrompt
  <2>6. Len(sent) <= Len(sent)
    BY <1>2 DEF Sound
  <2> HIDE DEF rest
  <2>7. /\ AudioInOrder' /\ Made'
        /\ \A i \in DOMAIN Pipeline' : i > Len(sent') /\ ~Draining' => Pipeline'[i] > mark'
    BY <1>1, <1>2, <1>6, <1>8, <1>9, <1>11, <2>1, <2>2, <2>6, PipelineCut
  <2> QED
    BY <2>1, <2>5, <2>7 DEF InterruptionIsPrompt
<1> QED
  BY <1>10, <1>11 DEF SendFrame, frame

\* drainAll takes chunks from the channel and, when that is empty, drops the rest.
LEMMA BridgeDrains == ASSUME BridgeInv, DrainChunk PROVE BridgeInv'
<1> USE DEF BridgeInv
<1>1. PICK n \in 1 .. MaxChunk : n <= Len(out) /\ out' = SubSeq(out, n + 1, Len(out)) /\ lost' = lost + n
  BY DEF DrainChunk
<1>2. UNCHANGED <<produced, outClosed, drains, drainCh, sender, framer, frameQueue, sent, mark, late, others>>
  BY DEF DrainChunk, model
<1>3. /\ sent \in Sound /\ frameQueue \in Sound /\ framer \in Sound /\ out \in Sound
      /\ n \in 0 .. Len(out)
  BY <1>1, PipelineIsSound, BridgeAssumption
<1> DEFINE head == SubSeq(out, 1, n)
           a == (sent \o frameQueue) \o framer
<1>4. head \in Sound /\ Len(head) = n /\ out' \in Sound
  BY <1>1, <1>3, CutAt
<1>5. out = head \o out'
  BY <1>1, <1>3, CutAt
<1>6. a \in Sound /\ Len(sent) <= Len(a)
  BY <1>3, Join
<1> HIDE DEF head, a
<1>7. Grouped(a, head, out')
  BY <1>4, <1>6, Regroup
<1>8. Pipeline = (a \o head) \o out' /\ Pipeline' = a \o out'
  BY <1>2, <1>5, <1>7 DEF Pipeline, Grouped, a
<1>9. BridgeTypeOK'
  <2>1. lost' \in Nat /\ out' \in Seq(Nat)
    BY <1>1, <1>4 DEF BridgeTypeOK, Sound
  <2> QED
    BY <1>2, <2>1 DEF BridgeTypeOK, others
<1>10. /\ AudioInOrder' /\ Made'
       /\ \A i \in DOMAIN Pipeline' : i > Len(sent') /\ ~Draining' => Pipeline'[i] > mark'
  <2>1. Draining => Draining'
    BY <1>2 DEF Draining
  <2> QED
    BY <1>1, <1>2, <1>4, <1>6, <1>8, <1>9, <2>1, PipelineCut
<1>11. (drainCh' = "signalled" => late' <= 1) /\ SignalSeen'
  BY <1>2 DEF SignalSeen, InterruptionIsPrompt
<1> QED
  BY <1>9, <1>10, <1>11 DEF InterruptionIsPrompt

LEMMA BridgeDrained == ASSUME BridgeInv, DrainDone PROVE BridgeInv'
<1> USE DEF BridgeInv
<1>1. /\ Draining /\ out = <<>> /\ lost' = lost + Len(frameQueue) + Len(framer)
      /\ frameQueue' = <<>> /\ framer' = <<>> /\ mark' = produced
      /\ sender' \in {"select", "top"}
      /\ UNCHANGED <<produced, outClosed, drains, drainCh, out, sent, late, others>>
  BY DEF DrainDone, model
<1>2. /\ sent \in Sound /\ Len(sent) \in Nat /\ Len(frameQueue) \in Nat /\ Len(framer) \in Nat
      /\ Len(Pipeline) = Len(sent) + Len(frameQueue) + Len(framer)
  <2>1. Len(out) = 0
    BY <1>1
  <2> QED
    BY <2>1, PipelineIsSound, Join
<1>3. Pipeline' = sent
  BY <1>1, <1>2, ConcatEmptySeq DEF Pipeline, Sound
<1>4. \A i \in 1 .. Len(sent) : Pipeline[i] = sent[i] /\ i \in DOMAIN Pipeline
  <2>1. /\ sent \in Sound /\ frameQueue \in Sound /\ framer \in Sound /\ out \in Sound
        /\ Pipeline \in Sound
    BY PipelineIsSound
  <2> DEFINE rest == (frameQueue \o framer) \o out
  <2>2. rest \in Sound
    BY <2>1, Join
  <2>3. Dropped(sent, frameQueue, framer, out)
    BY <2>1, Drop
  <2>4. Pipeline = sent \o rest
    BY <2>3 DEF Pipeline, Dropped
  <2> HIDE DEF rest
  <2>5. \A i \in 1 .. Len(sent) : Pipeline[i] = sent[i]
    BY <2>1, <2>2, <2>4 DEF Sound
  <2> QED
    BY <1>2, <2>1, <2>5 DEF Sound
<1>5. DOMAIN Pipeline' = 1 .. Len(sent)
  BY <1>2, <1>3 DEF Sound
<1>6. BridgeTypeOK'
  <2>1. Len(frameQueue') = 0 /\ 0 = 0 * FrameSize /\ frameQueue' \in Seq(Nat) /\ framer' \in Seq(Nat)
    BY <1>1, BridgeAssumption
  <2>2. \E k \in 0 .. Len(frameQueue') : Len(frameQueue') = k * FrameSize
    BY <2>1
  <2>3. lost' \in Nat
    BY <1>1, <1>2 DEF BridgeTypeOK
  <2> QED
    BY <1>1, <2>1, <2>2, <2>3 DEF BridgeTypeOK, others
<1>7. AudioInOrder'
  <2>1. Len(Pipeline') + lost' = produced'
    BY <1>1, <1>2, <1>3 DEF AudioInOrder, BridgeTypeOK
  <2> QED
    BY <1>3, <1>4, <1>5, <2>1 DEF AudioInOrder
<1>8. Made'
  BY <1>1, <1>3, <1>4, <1>5 DEF Made, BridgeTypeOK
<1>9. InterruptionIsPrompt'
  BY <1>1, <1>2, <1>5 DEF InterruptionIsPrompt
<1>10. SignalSeen'
  BY <1>1 DEF SignalSeen, Draining
<1> QED
  BY <1>6, <1>7, <1>8, <1>9, <1>10

\* The audio of a call keeps its strengthened invariant.
THEOREM BridgeInvariance == BridgeSpec => []BridgeInv
<1>1. BridgeInv /\ [BridgeNext]_bridgeVars => BridgeInv'
  <2> SUFFICES ASSUME BridgeInv, [BridgeNext]_bridgeVars PROVE BridgeInv'
    OBVIOUS
  <2>1. \/ Still \/ Produce \/ ReceiveChunk \/ SendFrame \/ DrainChunk \/ DrainDone
    BY DEF BridgeNext, World, Sender, Still
  <2> QED
    BY <2>1, BridgeStill, BridgeProduce, BridgeReceives, BridgeSends, BridgeDrains, BridgeDrained
<1> QED
  BY <1>1, BridgeInitEstablishes, PTL DEF BridgeSpec

\* Types of the audio bridge (call.go, call_audio.go); the queue holds whole frames.
THEOREM BridgeTypeCorrect == BridgeSpec => []BridgeTypeOK
<1>1. BridgeInv => BridgeTypeOK
  BY DEF BridgeInv
<1> QED
  BY <1>1, BridgeInvariance, PTL

\* For every size of frames, chunks and queue the peer hears the model's samples in order,
\* each at most once, and none is missing unaccounted for (callAudioBridge).
THEOREM AudioKeepsOrder == BridgeSpec => []AudioInOrder
<1>1. BridgeInv => AudioInOrder
  BY DEF BridgeInv
<1> QED
  BY <1>1, BridgeInvariance, PTL

\* An interruption is followed by at most one frame, and after drainAll by nothing that was
\* produced before (callAudioBridge).
THEOREM InterruptionTakesEffect == BridgeSpec => []InterruptionIsPrompt
<1>1. BridgeInv => InterruptionIsPrompt
  BY DEF BridgeInv
<1> QED
  BY <1>1, BridgeInvariance, PTL

-----------------------------------------------------------------------------
(* The promise of the line.                                                *)

\* A frame that is taken holds samples that are later than those taken before and than
\* the last interruption.
LEMMA LinePlays ==
  ASSUME BridgeInv, SendFrame, sent' # sent
  PROVE  Line!Play
<1> USE DEF BridgeInv
<1> DEFINE frame == SubSeq(frameQueue, 1, FrameSize)
           rest == SubSeq(frameQueue, FrameSize + 1, Len(frameQueue))
           back == (rest \o framer) \o out
           front == sent \o frame
<1>1. /\ sent \in Sound /\ frameQueue \in Sound /\ framer \in Sound /\ out \in Sound
      /\ Pipeline \in Sound
      /\ FrameSize \in Nat /\ FrameSize > 0 /\ Len(frameQueue) \in Nat
  BY PipelineIsSound, BridgeAssumption DEF Sound
<1>2. sent' = front /\ UNCHANGED <<produced, mark>> /\ ~Draining /\ frameQueue # <<>>
  BY DEF SendFrame, model, Draining
<1>3. FrameSize \in 0 .. Len(frameQueue)
  BY <1>1, <1>2, FrameIsQueued
<1>4. frame \in Sound /\ Len(frame) = FrameSize /\ rest \in Sound /\ frameQueue = frame \o rest
  BY <1>1, <1>3, CutAt
<1> HIDE DEF frame, rest
<1>5. Pipeline = ((front \o rest) \o framer) \o out
  <2>1. Grouped(sent, frame, rest)
    BY <1>1, <1>4, Regroup
  <2> QED
    BY <1>4, <2>1 DEF Pipeline, Grouped
<1>6. front \in Sound /\ back \in Sound
  BY <1>1, <1>4, Join
<1>7. /\ Len(front) = Len(sent) + FrameSize
      /\ \A i \in 1 .. Len(sent) : front[i] = sent[i]
      /\ \A i \in 1 .. FrameSize : front[Len(sent) + i] = frame[i]
      /\ DOMAIN sent = 1 .. Len(sent) /\ Len(sent) \in Nat
      /\ \A i \in 1 .. FrameSize : frame[i] \in Nat
  <2>1. sent \in Seq(Nat) /\ frame \in Seq(Nat) /\ Len(frame) = FrameSize
    BY <1>1, <1>4 DEF Sound
  <2>2. /\ Len(sent \o frame) = Len(sent) + Len(frame)
        /\ \A i \in 1 .. Len(sent) + Len(frame) :
             (sent \o frame)[i] = IF i <= Len(sent) THEN sent[i] ELSE frame[i - Len(sent)]
    BY <2>1, ConcatProperties
  <2>3. /\ DOMAIN sent = 1 .. Len(sent) /\ Len(sent) \in Nat
        /\ \A i \in 1 .. Len(frame) : frame[i] \in Nat
    BY <2>1
  <2>4. \A i \in 1 .. FrameSize : /\ Len(sent) + i \in 1 .. Len(sent) + FrameSize
                                  /\ ~(Len(sent) + i <= Len(sent))
                                  /\ (Len(sent) + i) - Len(sent) = i
    BY <1>1, <2>3
  <2>5. \A i \in 1 .. Len(sent) : i \in 1 .. Len(sent) + FrameSize
    BY <1>1, <2>3
  <2> QED
    BY <2>1, <2>2, <2>3, <2>4, <2>5
<1> HIDE DEF front
<1>8. Pipeline = front \o back
  <2>1. Dropped(front, rest, framer, out)
    BY <1>1, <1>4, <1>6, Drop
  <2> QED
    BY <1>5, <2>1 DEF Dropped
<1> HIDE DEF back
<1>9. /\ DOMAIN Pipeline = 1 .. Len(Pipeline) /\ Len(Pipeline) = Len(front) + Len(back)
      /\ Len(back) \in Nat
      /\ \A i \in 1 .. Len(front) : Pipeline[i] = front[i]
  BY <1>1, <1>6, <1>8 DEF Sound
<1>10. /\ \A i \in 1 .. Len(sent) : i \in DOMAIN Pipeline /\ Pipeline[i] = sent[i]
       /\ \A i \in 1 .. FrameSize : /\ Len(sent) + i \in DOMAIN Pipeline
                                    /\ Pipeline[Len(sent) + i] = frame[i]
  BY <1>1, <1>7, <1>9
<1>11. \A i, j \in 1 .. FrameSize : i < j => frame[i] < frame[j]
  <2> SUFFICES ASSUME NEW i \in 1 .. FrameSize, NEW j \in 1 .. FrameSize, i < j
               PROVE  frame[i] < frame[j]
    OBVIOUS
  <2>1. Len(sent) + i < Len(sent) + j
    BY <1>1, <1>7
  <2> QED
    BY <1>10, <2>1 DEF AudioInOrder
<1>12. \A i \in DOMAIN sent, j \in 1 .. FrameSize : sent[i] < frame[j]
  <2> SUFFICES ASSUME NEW i \in 1 .. Len(sent), NEW j \in 1 .. FrameSize
               PROVE  sent[i] < frame[j]
    BY <1>7
  <2>1. i < Len(sent) + j
    BY <1>1, <1>7
  <2> QED
    BY <1>10, <2>1 DEF AudioInOrder
<1>13. frame \in [1 .. FrameSize -> mark + 1 .. produced]
  <2>1. ASSUME NEW i \in 1 .. FrameSize
        PROVE  frame[i] \in mark + 1 .. produced
    <3>1. Len(sent) + i > Len(sent)
      BY <1>1, <1>7
    <3>2. frame[i] > mark /\ frame[i] <= produced
      BY <1>2, <1>10, <3>1 DEF InterruptionIsPrompt, Made
    <3>3. frame[i] \in Nat /\ mark \in Nat /\ produced \in Nat
      BY <1>7 DEF BridgeTypeOK
    <3> QED
      BY <3>2, <3>3
  <2>2. frame = [i \in 1 .. FrameSize |-> frame[i]]
    BY <1>4 DEF Sound
  <2> QED
    BY <2>1, <2>2
<1> QED
  BY <1>2, <1>11, <1>12, <1>13 DEF Line!Play, front

\* For every size of frames, chunks and queue the bridge keeps the promise of the line:
\* every step of its goroutines is one of the line or changes nothing that the peer and the
\* model can tell (callAudioBridge, audioFramer).
THEOREM LineImplemented == BridgeSpec => ImplementsLine
<1>1. BridgeInit => Line!Init
  BY DEF BridgeInit, Line!Init
<1>2. BridgeInv /\ [BridgeNext]_bridgeVars => [Line!Next]_(Line!lineVars)
  <2> SUFFICES ASSUME BridgeInv, [BridgeNext]_bridgeVars
               PROVE  [Line!Next]_(Line!lineVars)
    OBVIOUS
  <2>1. CASE Still
    BY <2>1 DEF Still, SignalDrain, CloseAudio, CloseDrain, SetupDone, PeerSpeaks, CloseHeard, EndCall,
         StartBridge, CheckDrain, SelectDrain, SendSilence, SenderLeaves, ForwardHeard, CallerLeaves,
         ListenerLeaves, bridgeVars, sound, model, Line!lineVars
  <2>2. CASE Produce
    BY <2>2 DEF Produce, Line!Say, Line!Next
  <2>3. CASE ReceiveChunk \/ DrainChunk
    BY <2>3 DEF ReceiveChunk, DrainChunk, model, Line!lineVars
  <2>4. CASE SendFrame
    <3>1. UNCHANGED <<produced, mark>>
      BY <2>4 DEF SendFrame, model
    <3>2. QED
      BY <2>4, <3>1, LinePlays DEF Line!Next, Line!lineVars
  <2>5. CASE DrainDone
    BY <2>5 DEF DrainDone, model, Line!Interrupt, Line!Next
  <2> QED
    BY <2>1, <2>2, <2>3, <2>4, <2>5 DEF BridgeNext, World, Sender, Still
<1> QED
  BY <1>1, <1>2, BridgeInvariance, PTL DEF BridgeSpec, ImplementsLine, Line!Spec
=============================================================================
