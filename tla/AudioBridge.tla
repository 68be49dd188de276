----------------------------- MODULE AudioBridge -----------------------------
(***************************************************************************)
(* The audio of one connected call (telegram/call.go: callAudioBridge,     *)
(* handleRealtimeEvents; telegram/call_audio.go: the framer).  Three       *)
(* goroutines: the sender takes the model's audio from audioOut, cuts it   *)
(* into frames, queues them and sends one per tick; the caller's goroutine *)
(* forwards what the peer says; the third handles the model's events.      *)
(*                                                                         *)
(* A sample is a number, in the order in which the model produced it.      *)
(* Where one chunk of audioOut ends and the next begins is decided when it *)
(* is received.  Silence sent while no frame is queued is left out, and so *)
(* is the resampling, which keeps the order.                               *)
(***************************************************************************)
EXTENDS Integers, Sequences

CONSTANTS FrameSize,  \* samples of a frame (480 in the code)
          QueueLimit, \* frames from which audioOut is left alone (100 in the code)
          MaxChunk,   \* samples of a chunk at most
          MaxSamples, \* bound of the model: samples produced
          MaxDrains   \* bound of the model: drain signals

ASSUME BridgeAssumption == /\ {FrameSize, MaxChunk} \subseteq Nat \ {0}
                           /\ QueueLimit \in Nat /\ MaxSamples \in Nat /\ MaxDrains \in Nat

VARIABLES produced,   \* how many samples the model has produced
          out,        \* samples waiting in audioOut
          outClosed,  \* audioOut is closed
          drainCh,    \* the drain channel, "nil" once the sender has seen it closed
          drains,     \* drain signals so far
          sender,     \* where the sender is
          framer,     \* framer.buf
          frameQueue, \* the samples of the queued frames
          sent,       \* samples the engine has taken
          lost,       \* history: how many samples were dropped by drains and send errors
          mark,       \* history: the last sample produced when a drain was over
          late,       \* history: frames sent since the signal now waiting in drainCh
          setup,      \* audioSetupDone is closed
          ctxDone,    \* cs.ctx is done
          caller,     \* the goroutine of the peer's audio
          heard,      \* audioFromTG: "quiet", "chunk" or "closed"
          listener    \* the goroutine of the model's events

sound == <<out, framer, frameQueue, sent, lost, mark>>
model == <<produced, outClosed, drains>>
others == <<setup, ctxDone, caller, heard, listener>>
bridgeVars == <<produced, out, outClosed, drainCh, drains, sender, framer, frameQueue, sent, lost,
                mark, late, setup, ctxDone, caller, heard, listener>>

BridgeInit == /\ produced = 0 /\ out = <<>> /\ outClosed = FALSE
              /\ drainCh = "quiet" /\ drains = 0
              /\ sender = "unstarted"
              /\ framer = <<>> /\ frameQueue = <<>> /\ sent = <<>>
              /\ lost = 0 /\ mark = 0 /\ late = 0
              /\ setup = FALSE /\ ctxDone = FALSE
              /\ caller = "unstarted" /\ heard = "quiet" /\ listener = "loop"

Pipeline == sent \o frameQueue \o framer \o out

QueuedFrames == Len(frameQueue) \div FrameSize

-----------------------------------------------------------------------------
(* The world: the model's session, the peer, the setup and cleanupCall.    *)

Produce == /\ ~outClosed
           /\ produced < MaxSamples
           /\ produced' = produced + 1
           /\ out' = Append(out, produced + 1)
           /\ UNCHANGED <<outClosed, drainCh, drains, sender, framer, frameQueue, sent, lost, mark,
                          late, others>>

\* The peer interrupts: the session signals a drain.
SignalDrain == /\ drainCh = "quiet"
               /\ drains < MaxDrains
               /\ drains' = drains + 1
               /\ drainCh' = "signalled"
               /\ late' = 0
               /\ UNCHANGED <<produced, outClosed, sender, sound, others>>

\* The session ends, or its provider does.
CloseAudio == /\ ~outClosed
              /\ outClosed' = TRUE
              /\ UNCHANGED <<produced, drains, drainCh, sender, sound, late, others>>

CloseDrain == /\ drainCh = "quiet"
              /\ drainCh' = "closed"
              /\ UNCHANGED <<model, sender, sound, late, others>>

\* The goroutine that sets the native streams up is over, well or not.
SetupDone == /\ ~setup
             /\ setup' = TRUE
             /\ UNCHANGED <<model, drainCh, sender, sound, late, ctxDone, caller, heard, listener>>

PeerSpeaks == /\ heard = "quiet"
              /\ heard' = "chunk"
              /\ UNCHANGED <<model, drainCh, sender, sound, late, setup, ctxDone, caller, listener>>

\* cleanupCall closes audioFromTG before it cancels cs.ctx; a chunk left in it goes nowhere.
CloseHeard == /\ heard # "closed"
              /\ heard' = "closed"
              /\ UNCHANGED <<model, drainCh, sender, sound, late, setup, ctxDone, caller, listener>>

EndCall == /\ ~ctxDone
           /\ ctxDone' = TRUE
           /\ UNCHANGED <<model, drainCh, sender, sound, late, setup, caller, heard, listener>>

World == \/ Produce \/ SignalDrain \/ CloseAudio \/ CloseDrain \/ SetupDone \/ PeerSpeaks
         \/ CloseHeard \/ EndCall
-----------------------------------------------------------------------------
\* callAudioBridge waits for the setup or for the end.
StartBridge == /\ sender = "unstarted"
               /\ \/ setup /\ sender' = "top" /\ caller' = "loop"
                  \/ ctxDone /\ sender' = "gone" /\ caller' = "gone"
               /\ UNCHANGED <<model, drainCh, sound, late, setup, ctxDone, heard, listener>>

\* Mutant of CheckDrain: the loop goes straight to its select.
CheckNothing == /\ sender = "top"
                /\ sender' = "select"
                /\ UNCHANGED <<model, drainCh, sound, late, others>>

\* The look at drainCh that comes before everything else.
CheckDrain == /\ sender = "top"
              /\ sender' = IF drainCh = "signalled" THEN "drainTop" ELSE "select"
              /\ drainCh' = CASE drainCh = "signalled" -> "quiet"
                              [] drainCh = "closed"    -> "nil"
                              [] OTHER                 -> drainCh
              /\ UNCHANGED <<model, sound, late, others>>

\* The second look, among the cases of the select.
SelectDrain == /\ sender = "select"
               /\ \/ drainCh = "signalled" /\ drainCh' = "quiet" /\ sender' = "drainSelect"
                  \/ drainCh = "closed" /\ drainCh' = "nil" /\ sender' = "top"
               /\ UNCHANGED <<model, sound, late, others>>

Draining == sender \in {"drainTop", "drainSelect"}

\* drainAll takes what is in audioOut.  From a closed channel it receives for ever, which
\* changes nothing: DrainDone is never reached.
DrainChunk ==
  /\ Draining
  /\ \E n \in 1 .. MaxChunk : /\ n <= Len(out)
                              /\ out' = SubSeq(out, n + 1, Len(out))
                              /\ lost' = lost + n
  /\ UNCHANGED <<model, drainCh, sender, framer, frameQueue, sent, mark, late, others>>

\* Mutant of DrainDone: the samples of a started frame stay in the framer.
DrainDoneKeepsFramer ==
  /\ Draining
  /\ out = <<>> /\ ~outClosed
  /\ lost' = lost + Len(frameQueue)
  /\ frameQueue' = <<>>
  /\ mark' = produced
  /\ sender' = IF sender = "drainTop" THEN "select" ELSE "top"
  /\ UNCHANGED <<model, drainCh, out, framer, sent, late, others>>

DrainDone ==
  /\ Draining
  /\ out = <<>> /\ ~outClosed
  /\ lost' = lost + Len(frameQueue) + Len(framer)
  /\ frameQueue' = <<>> /\ framer' = <<>>
  /\ mark' = produced
  /\ sender' = IF sender = "drainTop" THEN "select" ELSE "top"
  /\ UNCHANGED <<model, drainCh, out, sent, late, others>>

\* audioFramer.Push: how many of n buffered samples make whole frames.
Whole(n) == (n \div FrameSize) * FrameSize

\* A chunk is received and framed, unless enough frames are queued.
ReceiveChunk ==
  /\ sender = "select"
  /\ QueuedFrames < QueueLimit
  /\ \E n \in 1 .. MaxChunk :
       /\ n <= Len(out)
       /\ out' = SubSeq(out, n + 1, Len(out))
       /\ LET buf == framer \o SubSeq(out, 1, n)
              cut == Whole(Len(buf))
          IN  /\ frameQueue' = frameQueue \o SubSeq(buf, 1, cut)
              /\ framer' = SubSeq(buf, cut + 1, Len(buf))
  /\ sender' = "top"
  /\ UNCHANGED <<model, drainCh, sent, lost, mark, late, others>>

\* Mutant of SendFrame: a frame that the engine refuses is queued again.
SendFrameRetrying ==
  /\ sender = "select"
  /\ frameQueue # <<>>
  /\ \/ /\ sent' = sent \o SubSeq(frameQueue, 1, FrameSize)
        /\ late' = IF drainCh = "signalled" THEN late + 1 ELSE late
        /\ frameQueue' = SubSeq(frameQueue, FrameSize + 1, Len(frameQueue))
     \/ /\ frameQueue' = SubSeq(frameQueue, FrameSize + 1, Len(frameQueue))
                           \o SubSeq(frameQueue, 1, FrameSize)
        /\ UNCHANGED <<sent, late>>
  /\ sender' = "top"
  /\ UNCHANGED <<model, drainCh, out, framer, lost, mark, others>>

\* A tick: the first frame is sent, or lost when the engine refuses it.
SendFrame ==
  /\ sender = "select"
  /\ frameQueue # <<>>
  /\ frameQueue' = SubSeq(frameQueue, FrameSize + 1, Len(frameQueue))
  /\ \/ /\ sent' = sent \o SubSeq(frameQueue, 1, FrameSize)
        /\ late' = IF drainCh = "signalled" THEN late + 1 ELSE late
        /\ UNCHANGED lost
     \/ /\ lost' = lost + FrameSize
        /\ UNCHANGED <<sent, late>>
  /\ sender' = "top"
  /\ UNCHANGED <<model, drainCh, out, framer, mark, others>>

SendSilence == /\ sender = "select"
               /\ frameQueue = <<>>
               /\ sender' = "top"
               /\ UNCHANGED <<model, drainCh, sound, late, others>>

\* Mutant of SenderLeaves: the end of the call is noticed when there is nothing to send.
SenderLeavesIdle == /\ sender = "select"
                    /\ outClosed /\ out = <<>> /\ QueuedFrames < QueueLimit
                    /\ sender' = "gone"
                    /\ UNCHANGED <<model, drainCh, sound, late, others>>

\* The end of the call, or of audioOut; queued frames and a started one are dropped.
SenderLeaves == /\ sender = "select"
                /\ \/ ctxDone
                   \/ outClosed /\ out = <<>> /\ QueuedFrames < QueueLimit
                /\ sender' = "gone"
                /\ UNCHANGED <<model, drainCh, sound, late, others>>

Sender == \/ CheckDrain \/ SelectDrain \/ DrainChunk \/ DrainDone \/ ReceiveChunk
          \/ SendFrame \/ SendSilence \/ SenderLeaves
-----------------------------------------------------------------------------
\* The peer's audio goes to the model.  isPlaying is never set, so nothing is attenuated.
ForwardHeard == /\ caller = "loop"
                /\ heard = "chunk"
                /\ heard' = "quiet"
                /\ \/ UNCHANGED caller
                   \/ ctxDone /\ caller' = "gone"
                /\ UNCHANGED <<model, drainCh, sender, sound, late, setup, ctxDone, listener>>

CallerLeaves == /\ caller = "loop"
                /\ ctxDone \/ heard = "closed"
                /\ caller' = "gone"
                /\ UNCHANGED <<model, drainCh, sender, sound, late, setup, ctxDone, heard, listener>>

\* handleRealtimeEvents: events are published and files sent until the end, of the call or
\* of the model's events.
ListenerLeaves == /\ listener = "loop"
                  /\ listener' = "gone"
                  /\ UNCHANGED <<model, drainCh, sender, sound, late, setup, ctxDone, caller, heard>>

BridgeNext == World \/ StartBridge \/ Sender \/ ForwardHeard \/ CallerLeaves \/ ListenerLeaves

BridgeSpec == BridgeInit /\ [][BridgeNext]_bridgeVars

\* Goroutines run; a select whose end-of-call case is ready takes it sooner or later.
BridgeFairness == /\ WF_bridgeVars(StartBridge)
                  /\ WF_bridgeVars(Sender)
                  /\ SF_bridgeVars(SenderLeaves)
                  /\ WF_bridgeVars(CallerLeaves)

-----------------------------------------------------------------------------
BridgeTypeOK ==
  /\ produced \in Nat /\ drains \in Nat /\ lost \in Nat /\ mark \in Nat /\ late \in Nat
  /\ outClosed \in BOOLEAN /\ setup \in BOOLEAN /\ ctxDone \in BOOLEAN
  /\ drainCh \in {"quiet", "signalled", "closed", "nil"}
  /\ sender \in {"unstarted", "top", "select", "drainTop", "drainSelect", "gone"}
  /\ out \in Seq(Nat) /\ framer \in Seq(Nat) /\ frameQueue \in Seq(Nat) /\ sent \in Seq(Nat)
  /\ \E k \in 0 .. Len(frameQueue) : Len(frameQueue) = k * FrameSize
  /\ caller \in {"unstarted", "loop", "gone"}
  /\ heard \in {"quiet", "chunk", "closed"}
  /\ listener \in {"loop", "gone"}

\* What the peer hears is what the model said, in order and without repetition, across
\* channel, framer and queue, and nothing is missing but what a drain or a refused frame
\* accounts for (callAudioBridge, audioFramer.Push).
AudioInOrder ==
  /\ \A i, j \in DOMAIN Pipeline : i < j => Pipeline[i] < Pipeline[j]
  /\ Len(Pipeline) + lost = produced

\* An interruption takes effect: at most one more frame is sent after its signal, and once
\* drainAll is over nothing produced before is left anywhere (the check that precedes the
\* select of callAudioBridge, and drainAll).
InterruptionIsPrompt ==
  /\ drainCh = "signalled" => late <= 1
  /\ \A i \in DOMAIN Pipeline : i > Len(sent) /\ ~Draining => Pipeline[i] > mark

\* What the engine has taken only grows, frame by frame, with samples that are later than
\* all before and than the last interruption that drainAll finished: channel, framer,
\* queue and drains together keep the promise of the line (callAudioBridge).
Line == INSTANCE AudioLine WITH said <- produced, played <- sent, floor <- mark

ImplementsLine == Line!Spec

\* When the call is over its goroutines leave, unless drainAll reads a closed audioOut,
\* which it does for ever.
BridgeEnds ==
  /\ ctxDone ~> sender = "gone" \/ (Draining /\ outClosed)
  /\ ctxDone ~> caller = "gone"
=============================================================================
