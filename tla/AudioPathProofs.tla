---------------------------- MODULE AudioPathProofs ----------------------------
(***************************************************************************)
(* The way of the sound, proved for every timeout, every bound, every set  *)
(* of commands, accounts and outputs: the player that makes it             *)
(* (SpotifyProvider), the engine that listens (AudioSource), and the       *)
(* loopback that plays it (Bluetooth).                                     *)
(*                                                                         *)
(* AudioSource: the input always fits what was asked for, and changes only *)
(* for a cause.  That the monitor is left only after Confirm batches       *)
(* without a gap needs the queue of the probe: its batches follow one      *)
(* another (Consecutive), and the worker has never counted more of a run   *)
(* than came of it.                                                        *)
(*                                                                         *)
(* Bluetooth: there is one loopback, whoever calls, fails or leaves        *)
(* halfway, because whoever works on it heads the queue of the permit.     *)
(*                                                                         *)
(* SpotifyProvider implements CommandPromise, because a command is in one  *)
(* place at a time: queued, pending, or on its way to Soloist, whose one   *)
(* answer is then on its way back.                                         *)
(***************************************************************************)
EXTENDS AudioSource, Bluetooth, SpotifyProvider, TLAPS

-----------------------------------------------------------------------------
(* The invariant.                                                          *)

\* Where the poll is, in a mode in which it gets there.
PollFits ==
  /\ pc \in {"probe", "listen"} => mode = "direct" /\ fallbackActive
  /\ pc = "listen" => probing

\* The batch after the one at place a of its run is the next one of it, or follows a gap.
Follows(a, b) == b = 1 \/ b = a + 1 \/ (a = Confirm /\ b = Confirm)
Consecutive(batches) == \A i \in 1..(Len(batches) - 1) : Follows(batches[i], batches[i + 1])

\* The queue goes on where the count of the probe, counted, is, and ends with the last arrival.
RunsFit(batches, counted, last) ==
  /\ batches = <<>> => last = 0 \/ counted <= last
  /\ batches # <<>> => /\ batches[1] = 1 \/ counted < batches[1]
                       /\ batches[Len(batches)] = last
  /\ Consecutive(batches)

CountFits ==
  /\ ~probing => contiguous = 0 /\ run = 0 /\ arrived = <<>>
  /\ RunsFit(arrived, contiguous, run)

Inv == TypeOK /\ InputFitsRequest /\ PollFits /\ CountFits

-----------------------------------------------------------------------------
(* Types.                                                                  *)

\* The waits and limits are ticks, and fewer than the oldest age.
LEMMA Limits ==
  /\ FirstBatch \in Nat /\ Stall \in Nat /\ ProbeInterval \in Nat /\ ProbeWindow \in Nat
  /\ CaptureFirst \in Nat /\ CaptureStall \in Nat /\ Recovery \in Nat /\ Oldest \in Nat
  /\ Stall < Oldest /\ FirstBatch < Oldest /\ ProbeInterval < Oldest /\ Recovery < Oldest
  /\ Stall <= FirstBatch /\ Confirm \in Nat /\ Confirm > 0 /\ MaxArrived \in Nat /\ MaxArrived > 0
<1> DEFINE Waits == {FirstBatch, Stall, ProbeInterval, ProbeWindow, CaptureFirst, CaptureStall, Recovery}
<1>1. \A n \in Waits : n \in Nat /\ n < Oldest
  BY AudioSourceAssumption
<1>2. /\ FirstBatch \in Waits /\ Stall \in Waits /\ ProbeInterval \in Waits /\ ProbeWindow \in Waits
      /\ CaptureFirst \in Waits /\ CaptureStall \in Waits /\ Recovery \in Waits
  OBVIOUS
<1> HIDE DEF Waits
<1>3. Confirm \in Nat /\ Confirm > 0 /\ MaxArrived \in Nat /\ MaxArrived > 0 /\ Oldest \in Nat /\ Stall <= FirstBatch
  BY AudioSourceAssumption
<1> QED
  BY <1>1, <1>2, <1>3

\* An age grows up to the oldest, and a wait runs out.
LEMMA TimePasses ==
  /\ \A age \in Ages : Older(age) \in Ages /\ Nearer(age) \in Ages
  /\ \A age \in Ages \union {Never} : Older(age) \in Ages \union {Never}
BY Limits DEF Ages, Older, Nearer, Never

\* The range of each variable, in parts that an action changes together.
Modes ==
  /\ pc \in {"idle", "observe", "judge", "capture", "probe", "listen", "reopen"}
  /\ mode \in {"off", "demo", "capture", "direct"}
  /\ source \in {"none", "capture", "direct", "monitor"}
  /\ fallbackActive \in BOOLEAN /\ probing \in BOOLEAN /\ enabled \in BOOLEAN
  /\ newGeneration \in BOOLEAN /\ deviceWorks \in BOOLEAN /\ changed \in BOOLEAN
  /\ playback \in {"playing", "resting", "failed"} /\ settled \in {"no", "flows", "silent"}
Times ==
  /\ openedAge \in Ages /\ probeAge \in Ages /\ inputAge \in Ages \union {Never}
  /\ startedAge \in Ages \union {Never} /\ captureAge \in Ages \union {Never}
  /\ probeWait \in Ages /\ retryWait \in Ages
Queue ==
  /\ contiguous \in 0..Confirm - 1 /\ run \in 0..Confirm
  /\ arrived \in Seq(1..Confirm) /\ Len(arrived) <= MaxArrived

\* The type invariant is these three.
LEMMA TypeParts == (TypeOK <=> Modes /\ Times /\ Queue) /\ (TypeOK' <=> Modes' /\ Times' /\ Queue')
BY DEF TypeOK, Modes, Times, Queue, Ages

\* What an accepted batch does to the queue.
LEMMA QueueGrows ==
  ASSUME Queue, NEW gap, Accept(gap)
  PROVE  arrived' \in Seq(1..Confirm) /\ Len(arrived') <= MaxArrived /\ run' \in 0..Confirm
<1>0. arrived \in Seq(1..Confirm) /\ Len(arrived) <= MaxArrived /\ run \in 0..Confirm /\ Confirm \in Nat /\ Confirm > 0
  BY Limits DEF Queue
<1>1. CASE ~(probing /\ Len(arrived) < MaxArrived)
  BY <1>0, <1>1 DEF Accept
<1>2. CASE probing /\ Len(arrived) < MaxArrived
  <2>1. run' = (IF gap THEN 1 ELSE IF run = Confirm THEN run ELSE run + 1) /\ arrived' = Append(arrived, run')
    BY <1>2 DEF Accept
  <2>2. run' \in 1..Confirm
    BY <1>0, <2>1
  <2>3. arrived' \in Seq(1..Confirm) /\ Len(arrived') = Len(arrived) + 1 /\ Len(arrived) \in Nat
    BY <1>0, <2>1, <2>2
  <2> QED
    BY <1>0, <1>2, <2>2, <2>3, Limits
<1> QED
  BY <1>1, <1>2

\* The queue without its first batch.
LEMMA QueueShrinks ==
  ASSUME Queue, arrived # <<>>
  PROVE  /\ Head(arrived) \in 1..Confirm /\ Head(arrived) = arrived[1]
         /\ Tail(arrived) \in Seq(1..Confirm) /\ Len(Tail(arrived)) <= MaxArrived
         /\ Len(Tail(arrived)) = Len(arrived) - 1 /\ Len(arrived) \in Nat \ {0}
         /\ \A i \in 1..(Len(arrived) - 1) : Tail(arrived)[i] = arrived[i + 1]
BY Limits DEF Queue

\* The empty queue is one.
LEMMA NoQueue == <<>> \in Seq(1..Confirm) /\ Len(<<>>) <= MaxArrived /\ Len(<<>>) = 0
BY Limits

\* Whatever opens, the session and the ingress are in their ranges.
LEMMA SessionOpens ==
  ASSUME Modes, Times, Queue, NEW direct \in BOOLEAN, NEW fallback \in BOOLEAN, OpenSession(direct, fallback)
  PROVE  /\ source' \in {"none", "capture", "direct", "monitor"} /\ openedAge' \in Ages /\ retryWait' \in Ages
         /\ captureAge' \in Ages \union {Never} /\ enabled' \in BOOLEAN /\ newGeneration' \in BOOLEAN
         /\ probing' \in BOOLEAN /\ probeAge' \in Ages /\ probeWait' \in Ages /\ Queue'
<1>a. /\ 0 \in Ages /\ Recovery \in Ages /\ ProbeInterval \in Ages /\ Never \in Ages \union {Never}
      /\ 0 \in 0..Confirm - 1 /\ 0 \in 0..Confirm
  BY Limits DEF Ages
<1>1. CASE direct /\ ~fallback
  BY <1>a, <1>1, NoQueue DEF OpenSession, OpenDirect, SetEnabled, Modes, Times, Queue, probe
<1>2. CASE ~(direct /\ ~fallback)
  <2>1. SetEnabled(FALSE) /\ (ResetProbe(0) \/ ResetProbe(ProbeInterval)) /\ (OpenCapture("monitor") \/ OpenCapture("capture"))
    BY <1>2 DEF OpenSession
  <2>2. Queue' /\ enabled' \in BOOLEAN /\ newGeneration' \in BOOLEAN /\ probing' \in BOOLEAN /\ probeAge' \in Ages /\ probeWait' \in Ages
    BY <1>a, <2>1, NoQueue DEF SetEnabled, ResetProbe, Queue
  <2>3. CASE deviceWorks
    BY <1>a, <2>1, <2>2, <2>3 DEF OpenCapture, Modes, Times
  <2>4. CASE ~deviceWorks
    BY <1>a, <2>1, <2>2, <2>4 DEF OpenCapture, Modes, Times
  <2> QED
    BY <2>3, <2>4
<1> QED
  BY <1>1, <1>2

\* Every step keeps the ranges.
LEMMA TypeStep == TypeOK /\ [Next]_vars => TypeOK'
<1> SUFFICES ASSUME TypeOK, [Next]_vars PROVE Modes' /\ Times' /\ Queue'
  BY TypeParts
<1>0. Modes /\ Times /\ Queue
  BY TypeParts
<1>a. /\ 0 \in Ages /\ Recovery \in Ages /\ ProbeInterval \in Ages /\ Never \in Ages \union {Never}
      /\ 0 \in 0..Confirm - 1 /\ 0 \in 0..Confirm
  BY Limits DEF Ages
<1>1. CASE StartCapture
  <2>1. OpenSession(FALSE, FALSE)
    BY <1>1 DEF StartCapture
  <2>2. /\ source' \in {"none", "capture", "direct", "monitor"} /\ openedAge' \in Ages /\ retryWait' \in Ages
        /\ captureAge' \in Ages \union {Never} /\ enabled' \in BOOLEAN /\ newGeneration' \in BOOLEAN
        /\ probing' \in BOOLEAN /\ probeAge' \in Ages /\ probeWait' \in Ages /\ Queue'
    BY <1>0, <2>1, SessionOpens DEF Modes
  <2> QED
    BY <1>0, <1>a, <1>1, <2>2 DEF Modes, Times, StartCapture, world
<1>2. CASE StartDemo
  BY <1>0, <1>a, <1>2, NoQueue DEF Modes, Times, Queue, StartDemo, SetEnabled, ResetProbe, request, probe, ingress, world
<1>3. CASE StartDirect
  BY <1>0, <1>a, <1>3, NoQueue DEF Modes, Times, Queue, StartDirect, OpenDirect, SetEnabled, ResetProbe, request, probe, ingress, world
<1>4. CASE Configure
  <2>1. OpenSession(mode = "direct", fallbackActive)
    BY <1>4 DEF Configure
  <2>2. /\ source' \in {"none", "capture", "direct", "monitor"} /\ openedAge' \in Ages /\ retryWait' \in Ages
        /\ captureAge' \in Ages \union {Never} /\ enabled' \in BOOLEAN /\ newGeneration' \in BOOLEAN
        /\ probing' \in BOOLEAN /\ probeAge' \in Ages /\ probeWait' \in Ages /\ Queue'
    BY <1>0, <2>1, SessionOpens DEF Modes
  <2> QED
    BY <1>0, <1>a, <1>4, <2>2 DEF Modes, Times, Configure, world
<1>5. CASE Stop
  BY <1>0, <1>a, <1>5, NoQueue DEF Modes, Times, Queue, Stop, SetEnabled, ResetProbe, request, probe, ingress, world
<1>6. CASE Observe
  BY <1>0, <1>a, <1>6, NoQueue DEF Modes, Times, Queue, Observe, request, probe, ingress, world
<1>7. CASE Judge
  BY <1>0, <1>a, <1>7, NoQueue DEF Modes, Times, Queue, Judge, request, probe, ingress, world
<1>8. CASE FallBack
  BY <1>0, <1>a, <1>8, NoQueue DEF Modes, Times, Queue, FallBack, OpenCapture, SetEnabled, ResetProbe, request, probe, ingress, world
<1>9. CASE CheckCapture
  BY <1>0, <1>a, <1>9, NoQueue DEF Modes, Times, Queue, CheckCapture, request, probe, ingress, world
<1>10. CASE AbandonProbe
  <2>1. CASE SetEnabled(FALSE) /\ ResetProbe(ProbeInterval)
    <3>1. pc' = "reopen" /\ UNCHANGED <<request, inputAge, captureAge, world>>
      BY <1>10 DEF AbandonProbe
    <3>2. Queue' /\ probeAge' \in Ages /\ probeWait' \in Ages /\ probing' = FALSE /\ enabled' = FALSE /\ newGeneration' = FALSE
      BY <1>a, <2>1, NoQueue DEF Queue, SetEnabled, ResetProbe
    <3>3. Modes'
      BY <1>0, <3>1, <3>2 DEF Modes, request, world
    <3>4. Times'
      BY <1>0, <3>1, <3>2 DEF Times, request
    <3> QED
      BY <3>2, <3>3, <3>4
  <2>2. CASE UNCHANGED <<enabled, arrived, newGeneration, probe, run>>
    BY <1>0, <1>10, <2>2 DEF Modes, Times, Queue, AbandonProbe, request, probe, world
  <2> QED
    BY <1>10, <2>1, <2>2 DEF AbandonProbe
<1>11. CASE WaitForProbe
  BY <1>0, <1>a, <1>11, NoQueue DEF Modes, Times, Queue, WaitForProbe, request, probe, ingress, world
<1>12. CASE StartProbe
  BY ZenonT(60), <1>0, <1>a, <1>12, NoQueue DEF Modes, Times, Queue, StartProbe, SetEnabled, request, probe, ingress, world
<1>13. CASE RestartProbe
  <2>1. (probeAge' = 0 /\ contiguous' = 0) \/ UNCHANGED <<probeAge, contiguous>>
    BY <1>13 DEF RestartProbe
  <2>2. probeAge' \in Ages /\ contiguous' \in 0..Confirm - 1
    BY <1>0, <1>a, <2>1 DEF Times, Queue
  <2> QED
    <3>1. pc' = "listen" /\ newGeneration' = FALSE
          /\ UNCHANGED <<request, probing, probeWait, enabled, inputAge, arrived, captureAge, world, run>>
      BY <1>13 DEF RestartProbe
    <3>2. Modes'
      BY ZenonT(60), <1>0, <3>1 DEF Modes, request, world
    <3>3. Times'
      BY <1>0, <2>2, <3>1 DEF Times, request
    <3>4. Queue'
      BY <1>0, <2>2, <3>1 DEF Queue
    <3> QED
      BY <3>2, <3>3, <3>4
<1>14. CASE Listen
  <2>1. contiguous' \in 0..Confirm - 1
    <3>1. contiguous' = CountBatch(Head(arrived)) /\ CountBatch(Head(arrived)) < Confirm
      BY <1>14 DEF Listen
    <3>2. contiguous \in Nat
      BY <1>0, Limits DEF Queue
    <3>3. CountBatch(Head(arrived)) \in Nat
      BY <3>2 DEF CountBatch
    <3> QED
      BY <3>1, <3>3, Limits
  <2>2. arrived' \in Seq(1..Confirm) /\ Len(arrived') <= MaxArrived
    BY <1>0, <1>14, QueueShrinks DEF Listen
  <2> QED
    BY <1>0, <1>14, <2>1, <2>2 DEF Modes, Times, Queue, Listen, request, world
<1>15. CASE Return
  BY <1>0, <1>a, <1>15, NoQueue DEF Modes, Times, Queue, Return, OpenDirect, ResetProbe, request, probe, ingress, world
<1>16. CASE EndListening
  <2>1. CASE SetEnabled(FALSE) /\ ResetProbe(ProbeInterval)
    <3>1. retryWait' \in Ages
      BY <1>0, <1>a, <1>16, <2>1 DEF Times, EndListening
    <3>2. pc' = "reopen"
          /\ UNCHANGED <<mode, source, fallbackActive, openedAge, startedAge, inputAge, captureAge, world>>
      BY <1>16 DEF EndListening
    <3>3. Queue' /\ probeAge' \in Ages /\ probeWait' \in Ages /\ probing' = FALSE /\ enabled' = FALSE /\ newGeneration' = FALSE
      BY <1>a, <2>1, NoQueue DEF Queue, SetEnabled, ResetProbe
    <3>4. Modes'
      BY <1>0, <3>2, <3>3 DEF Modes, world
    <3>5. Times'
      BY <1>0, <3>1, <3>2, <3>3 DEF Times
    <3> QED
      BY <3>3, <3>4, <3>5
  <2>2. CASE UNCHANGED <<enabled, arrived, newGeneration, probe, run, retryWait>>
    BY <1>0, <1>16, <2>2 DEF Modes, Times, Queue, EndListening, probe, world
  <2> QED
    BY <1>16, <2>1, <2>2 DEF EndListening
<1>17. CASE Reopen
  <2>1. CASE mode \in {"capture", "direct"} /\ source = "none" /\ retryWait = 0 /\ ~probing
    <3>1. OpenSession(mode = "direct", fallbackActive)
      BY <1>17, <2>1 DEF Reopen
    <3>2. /\ source' \in {"none", "capture", "direct", "monitor"} /\ openedAge' \in Ages /\ retryWait' \in Ages
          /\ captureAge' \in Ages \union {Never} /\ enabled' \in BOOLEAN /\ newGeneration' \in BOOLEAN
          /\ probing' \in BOOLEAN /\ probeAge' \in Ages /\ probeWait' \in Ages /\ Queue'
      BY <1>0, <3>1, SessionOpens DEF Modes
    <3> QED
      BY <1>0, <1>17, <3>2 DEF Modes, Times, Reopen, world
  <2>2. CASE ~(mode \in {"capture", "direct"} /\ source = "none" /\ retryWait = 0 /\ ~probing)
    BY <1>0, <1>17, <2>2 DEF Modes, Times, Queue, Reopen, probe, world
  <2> QED
    BY <2>1, <2>2
<1>18. CASE \E state \in {"playing", "resting", "failed"} : SetPlayback(state)
  BY <1>0, <1>a, <1>18, NoQueue DEF Modes, Times, Queue, SetPlayback, request, probe, ingress, world
<1>19. CASE \E gap \in BOOLEAN : Deliver(gap)
  <2>1. arrived' \in Seq(1..Confirm) /\ Len(arrived') <= MaxArrived /\ run' \in 0..Confirm
    BY <1>0, <1>19, QueueGrows DEF Deliver
  <2>2. inputAge' = 0
    BY <1>19 DEF Deliver, Accept
  <2> QED
    BY <1>0, <1>a, <1>19, <2>1, <2>2 DEF Modes, Times, Queue, Deliver, request, probe, world
<1>20. CASE BeginGeneration
  BY <1>0, <1>a, <1>20, NoQueue DEF Modes, Times, Queue, BeginGeneration, request, probe, ingress, world
<1>21. CASE Callback
  BY <1>0, <1>a, <1>21, NoQueue DEF Modes, Times, Queue, Callback, request, probe, ingress, world
<1>22. CASE DeviceChanges
  BY <1>0, <1>a, <1>22, NoQueue DEF Modes, Times, Queue, DeviceChanges, request, probe, ingress, world
<1>23. CASE Settle
  BY <1>0, <1>a, <1>23, NoQueue DEF Modes, Times, Queue, Settle, request, probe, ingress, world
<1>24. CASE Tick
  <2>1. arrived' \in Seq(1..Confirm) /\ Len(arrived') <= MaxArrived /\ run' \in 0..Confirm
    BY <1>0, <1>24, QueueGrows DEF Tick, Queue
  <2>2. inputAge' \in Ages \union {Never}
    BY <1>0, <1>a, <1>24, TimePasses DEF Tick, Accept, Times
  <2>3. Times'
    <3>1. /\ openedAge' = Older(openedAge) /\ startedAge' = Older(startedAge) /\ probeAge' = Older(probeAge)
          /\ probeWait' = Nearer(probeWait) /\ retryWait' = Nearer(retryWait)
          /\ captureAge' = 0 \/ captureAge' = Older(captureAge)
      BY <1>24 DEF Tick
    <3> QED
      BY <1>0, <1>a, <2>2, <3>1, TimePasses DEF Times
  <2>4. Modes'
    BY ZenonT(60), <1>0, <1>24 DEF Modes, Tick
  <2> QED
    BY <1>0, <1>24, <2>1, <2>3, <2>4 DEF Queue, Tick
<1>25. CASE UNCHANGED vars
  BY <1>0, <1>25 DEF Modes, Times, Queue, vars, request, probe, ingress, world
<1> QED
  BY <1>1, <1>2, <1>3, <1>4, <1>5, <1>6, <1>7, <1>8, <1>9, <1>10, <1>11, <1>12, <1>13, <1>14, <1>15, <1>16, <1>17, <1>18, <1>19, <1>20, <1>21, <1>22, <1>23, <1>24, <1>25 DEF Next, Command, Poll, World

-----------------------------------------------------------------------------
(* The input fits the request.                                             *)

\* A session that opens fits the mode, and takes PCM when it is the direct one.
LEMMA SessionFits ==
  ASSUME mode' \in {"capture", "direct"}, pc' = "idle",
         OpenSession(mode' = "direct", fallbackActive'), Modes, fallbackActive' \in BOOLEAN,
         ~fallbackActive' => ~probing \/ mode' = "capture"
  PROVE  InputFitsRequest' /\ PollFits'
<1>1. CASE mode' = "direct" /\ ~fallbackActive'
  BY <1>1 DEF OpenSession, SetEnabled, OpenDirect, probe, InputFitsRequest, PollFits
<1>2. CASE ~(mode' = "direct" /\ ~fallbackActive')
  <2>1. enabled' = FALSE /\ probing' = FALSE
    BY <1>2 DEF OpenSession, SetEnabled, ResetProbe
  <2>2. source' \in {"none", IF mode' = "direct" THEN "monitor" ELSE "capture"}
    <3>1. CASE deviceWorks
      BY <1>2, <3>1 DEF OpenSession, OpenCapture
    <3>2. CASE ~deviceWorks
      BY <1>2, <3>2 DEF OpenSession, OpenCapture
    <3> QED
      BY <3>1, <3>2
  <2> QED
    BY <1>2, <2>1, <2>2 DEF InputFitsRequest, PollFits
<1> QED
  BY <1>1, <1>2

\* What keeps these variables keeps that the input fits.
LEMMA NothingOpens ==
  ASSUME InputFitsRequest, PollFits, UNCHANGED <<mode, source, fallbackActive, probing, enabled>>,
         pc' = pc \/ pc' \notin {"probe", "listen"}
  PROVE  InputFitsRequest' /\ PollFits'
BY DEF InputFitsRequest, PollFits

\* Every step leaves the input one that fits what was asked for.
LEMMA FitStep == TypeOK /\ InputFitsRequest /\ PollFits /\ [Next]_vars => InputFitsRequest' /\ PollFits'
<1> SUFFICES ASSUME TypeOK, InputFitsRequest, PollFits, [Next]_vars PROVE InputFitsRequest' /\ PollFits'
  OBVIOUS
<1>0. Modes
  BY TypeParts
<1>1. CASE StartCapture
  <2>1. mode' = "capture" /\ fallbackActive' = FALSE /\ pc' = "idle" /\ OpenSession(FALSE, FALSE)
    BY <1>1 DEF StartCapture, Commanded
  <2>2. (mode' = "direct") = FALSE
    BY <2>1
  <2> QED
    BY <1>0, <2>1, <2>2, SessionFits
<1>2. CASE StartDemo
  BY <1>2 DEF StartDemo, Commanded, SetEnabled, ResetProbe, OpenDirect, InputFitsRequest, PollFits
<1>3. CASE StartDirect
  BY <1>3 DEF StartDirect, Commanded, SetEnabled, ResetProbe, OpenDirect, InputFitsRequest, PollFits
<1>4. CASE Configure
  <2>1. mode' = mode /\ mode \in {"capture", "direct"} /\ fallbackActive' = fallbackActive /\ pc' = "idle"
        /\ OpenSession(mode = "direct", fallbackActive)
    BY <1>4 DEF Configure, Commanded
  <2> QED
    BY <1>0, <2>1, SessionFits DEF InputFitsRequest, Modes
<1>5. CASE Stop
  BY <1>5 DEF Stop, Commanded, SetEnabled, ResetProbe, OpenDirect, InputFitsRequest, PollFits
<1>6. CASE Observe
  BY <1>6, NothingOpens DEF Observe, request, probe, ingress, world
<1>7. CASE Judge
  BY <1>7, NothingOpens DEF Judge, request, probe, ingress, world
<1>8. CASE FallBack
  <2>1. source = "direct" /\ fallbackActive' = TRUE /\ mode' = mode /\ enabled' = FALSE /\ probing' = FALSE /\ pc' = "capture"
    BY <1>8 DEF FallBack, DirectStalled, SetEnabled, ResetProbe
  <2>2. mode = "direct"
    BY <1>0, <2>1 DEF InputFitsRequest, Modes
  <2>3. source' \in {"none", "monitor"}
    <3>1. CASE deviceWorks
      BY <1>8, <3>1 DEF FallBack, OpenCapture
    <3>2. CASE ~deviceWorks
      BY <1>8, <3>2 DEF FallBack, OpenCapture
    <3> QED
      BY <3>1, <3>2
  <2> QED
    BY <2>1, <2>2, <2>3 DEF InputFitsRequest, PollFits
<1>9. CASE CheckCapture
  <2>1. UNCHANGED <<mode, fallbackActive, enabled, probing>> /\ pc' \in {"probe", "reopen"}
        /\ (pc' = "probe" => mode = "direct" /\ fallbackActive)
    BY <1>9 DEF CheckCapture, ingress, probe
  <2>2. source' = source \/ (source \in {"capture", "monitor"} /\ source' = "none")
    BY <1>9 DEF CheckCapture, CaptureStalled
  <2> QED
    BY <1>0, <2>1, <2>2 DEF InputFitsRequest, PollFits, Modes
<1>10. CASE AbandonProbe
  <2>1. UNCHANGED <<mode, source, fallbackActive>> /\ pc' = "reopen" /\ mode = "direct" /\ fallbackActive
    BY <1>10 DEF AbandonProbe, request, PollFits
  <2>2. (enabled' = FALSE /\ probing' = FALSE) \/ UNCHANGED <<enabled, probing>>
    BY <1>10 DEF AbandonProbe, SetEnabled, ResetProbe, probe
  <2> QED
    BY <2>1, <2>2 DEF InputFitsRequest, PollFits
<1>11. CASE WaitForProbe
  BY <1>11, NothingOpens DEF WaitForProbe, request, probe, ingress, world
<1>12. CASE StartProbe
  <2>1. UNCHANGED <<mode, source, fallbackActive>> /\ mode = "direct" /\ fallbackActive
        /\ enabled' = TRUE /\ probing' = TRUE
    BY <1>12 DEF StartProbe, request, PollFits, SetEnabled
  <2> QED
    BY <2>1 DEF InputFitsRequest, PollFits
<1>13. CASE RestartProbe
  <2>1. UNCHANGED <<mode, source, fallbackActive, enabled, probing>> /\ mode = "direct" /\ fallbackActive /\ probing
    BY <1>13 DEF RestartProbe, request, PollFits
  <2> QED
    BY <2>1 DEF InputFitsRequest, PollFits
<1>14. CASE Listen
  BY <1>14, NothingOpens DEF Listen, request, probe, ingress, world
<1>15. CASE Return
  <2>1. mode' = mode /\ enabled' = enabled /\ source' = "direct" /\ fallbackActive' = FALSE /\ probing' = FALSE /\ pc' = "reopen"
        /\ pc = "listen"
    BY <1>15 DEF Return, OpenDirect, ResetProbe
  <2>2. mode = "direct" /\ enabled
    BY <2>1 DEF InputFitsRequest, PollFits
  <2> QED
    BY <2>1, <2>2 DEF InputFitsRequest, PollFits
<1>16. CASE EndListening
  <2>1. UNCHANGED <<mode, source, fallbackActive>> /\ pc' = "reopen" /\ mode = "direct" /\ fallbackActive
    BY <1>16 DEF EndListening, PollFits
  <2>2. (enabled' = FALSE /\ probing' = FALSE) \/ UNCHANGED <<enabled, probing>>
    BY <1>16 DEF EndListening, SetEnabled, ResetProbe, probe
  <2> QED
    BY <2>1, <2>2 DEF InputFitsRequest, PollFits
<1>17. CASE Reopen
  <2>0. UNCHANGED <<mode, fallbackActive>> /\ pc' = "idle"
    BY <1>17 DEF Reopen
  <2>1. CASE mode \in {"capture", "direct"} /\ source = "none" /\ retryWait = 0 /\ ~probing
    <3>1. OpenSession(mode = "direct", fallbackActive)
      BY <1>17, <2>1 DEF Reopen
    <3> QED
      BY <1>0, <2>0, <2>1, <3>1, SessionFits DEF Modes
  <2>2. CASE ~(mode \in {"capture", "direct"} /\ source = "none" /\ retryWait = 0 /\ ~probing)
    BY <1>17, <2>0, <2>2, NothingOpens DEF Reopen, probe
  <2> QED
    BY <2>1, <2>2
<1>18. CASE \E state \in {"playing", "resting", "failed"} : SetPlayback(state)
  BY <1>18, NothingOpens DEF SetPlayback, request, probe, ingress, world
<1>19. CASE \E gap \in BOOLEAN : Deliver(gap)
  BY <1>19, NothingOpens DEF Deliver, request, probe, ingress, world
<1>20. CASE BeginGeneration
  BY <1>20, NothingOpens DEF BeginGeneration, request, probe, ingress, world
<1>21. CASE Callback
  BY <1>21, NothingOpens DEF Callback, request, probe, ingress, world
<1>22. CASE DeviceChanges
  BY <1>22, NothingOpens DEF DeviceChanges, request, probe, ingress, world
<1>23. CASE Settle
  BY <1>23, NothingOpens DEF Settle, request, probe, ingress, world
<1>24. CASE Tick
  BY <1>24, NothingOpens DEF Tick, request, probe, ingress, world
<1>25. CASE UNCHANGED vars
  BY <1>25, NothingOpens DEF vars, request, probe, ingress
<1> QED
  BY <1>1, <1>2, <1>3, <1>4, <1>5, <1>6, <1>7, <1>8, <1>9, <1>10, <1>11, <1>12, <1>13, <1>14, <1>15, <1>16, <1>17, <1>18, <1>19, <1>20, <1>21, <1>22, <1>23, <1>24, <1>25 DEF Next, Command, Poll, World

-----------------------------------------------------------------------------
(* The count of the probe fits its queue.                                  *)

\* A queue that is emptied starts over, or goes on where it was.
LEMMA RunsEmpty == \A counted, last : last = 0 \/ counted <= last => RunsFit(<<>>, counted, last)
BY DEF RunsFit, Consecutive

\* What Append leaves and what it adds.
LEMMA Appended ==
  ASSUME NEW S, NEW s \in Seq(S), NEW b \in S
  PROVE  /\ Append(s, b) # <<>> /\ Len(Append(s, b)) = Len(s) + 1
         /\ Append(s, b)[Len(s) + 1] = b /\ Len(s) \in Nat
         /\ \A i \in 1..Len(s) : Append(s, b)[i] = s[i]
<1>1. Len(s) \in Nat
  OBVIOUS
<1>2. Len(Append(s, b)) = Len(s) + 1
  OBVIOUS
<1>3. Append(s, b) # <<>>
  BY <1>1, <1>2
<1>4. Append(s, b)[Len(s) + 1] = b
  OBVIOUS
<1>5. \A i \in 1..Len(s) : Append(s, b)[i] = s[i]
  OBVIOUS
<1> QED
  BY <1>1, <1>2, <1>3, <1>4, <1>5

\* A batch that arrives follows the last one.
LEMMA RunsGrow ==
  ASSUME Queue, RunsFit(arrived, contiguous, run), NEW gap, Accept(gap)
  PROVE  RunsFit(arrived', contiguous, run')
<1>0. /\ arrived \in Seq(1..Confirm) /\ Len(arrived) \in Nat /\ run \in 0..Confirm /\ contiguous \in 0..Confirm - 1
      /\ Confirm \in Nat /\ Confirm > 0
  BY Limits DEF Queue
<1>1. CASE ~(probing /\ Len(arrived) < MaxArrived)
  BY <1>1 DEF Accept
<1>2. CASE probing /\ Len(arrived) < MaxArrived
  <2> DEFINE n == Len(arrived)
             b == IF gap THEN 1 ELSE IF run = Confirm THEN run ELSE run + 1
  <2>1. run' = b /\ arrived' = Append(arrived, b)
    BY <1>2 DEF Accept
  <2>2. b \in 1..Confirm /\ (b = 1 \/ b = run + 1 \/ (b = Confirm /\ run = Confirm))
    BY <1>0
  <2> HIDE DEF b
  <2>3. /\ Append(arrived, b) # <<>> /\ Len(Append(arrived, b)) = n + 1 /\ Append(arrived, b)[n + 1] = b /\ n \in Nat
        /\ \A i \in 1..n : Append(arrived, b)[i] = arrived[i]
    BY <1>0, <2>2, Appended
  <2>4. CASE arrived = <<>>
    <3>1. n = 0 /\ (run = 0 \/ contiguous <= run)
      BY <2>4 DEF RunsFit
    <3>2. b = 1 \/ contiguous < b
      BY <1>0, <2>2, <3>1
    <3> QED
      BY <2>1, <2>3, <3>1, <3>2 DEF RunsFit, Consecutive
  <2>5. CASE arrived # <<>>
    <3>1. n >= 1 /\ arrived[n] = run /\ (arrived[1] = 1 \/ contiguous < arrived[1])
      BY <1>0, <2>5 DEF RunsFit
    <3> HIDE DEF n
    <3>2. ASSUME NEW i \in 1..n PROVE Follows(Append(arrived, b)[i], Append(arrived, b)[i + 1])
      <4>1. CASE i = n
        BY <2>2, <2>3, <3>1, <4>1 DEF Follows
      <4>2. CASE i # n
        <5>1. i \in 1..(n - 1) /\ i + 1 \in 1..n
          BY <2>3, <4>2
        <5>2. Follows(arrived[i], arrived[i + 1])
          BY <5>1 DEF RunsFit, Consecutive, n
        <5> QED
          BY <2>3, <5>1, <5>2
      <4> QED
        BY <4>1, <4>2
    <3>3. Consecutive(Append(arrived, b))
      BY <2>3, <3>2 DEF Consecutive
    <3> QED
      BY <2>1, <2>3, <3>1, <3>3 DEF RunsFit
  <2> QED
    BY <2>4, <2>5
<1> QED
  BY <1>1, <1>2

\* The batch that is counted is followed by the next one.
LEMMA RunsShrink ==
  ASSUME Queue, RunsFit(arrived, contiguous, run), arrived # <<>>, CountBatch(Head(arrived)) < Confirm
  PROVE  RunsFit(Tail(arrived), CountBatch(Head(arrived)), run)
<1> DEFINE n == Len(arrived)
           t == Tail(arrived)
           c == CountBatch(Head(arrived))
<1>0. /\ n \in Nat \ {0} /\ Len(t) = n - 1 /\ t \in Seq(1..Confirm) /\ \A i \in 1..(n - 1) : t[i] = arrived[i + 1]
      /\ Head(arrived) = arrived[1] /\ arrived[1] \in 1..Confirm /\ arrived \in Seq(1..Confirm)
  BY QueueShrinks DEF Queue
<1>1. contiguous \in Nat /\ Confirm \in Nat
  BY Limits DEF Queue
<1>2. /\ arrived[1] = 1 \/ contiguous < arrived[1]
      /\ arrived[n] = run
      /\ \A i \in 1..(n - 1) : Follows(arrived[i], arrived[i + 1])
  BY DEF RunsFit, Consecutive
<1>3. c \in Nat /\ c <= arrived[1]
  BY <1>0, <1>1, <1>2 DEF CountBatch
<1>4. CASE n = 1
  <2> HIDE DEF t, c, n
  <2>1. t = <<>> /\ run = arrived[1]
    <3>1. t \in Seq(1..Confirm) /\ Len(t) = 0
      BY <1>0, <1>4
    <3> QED
      BY <1>2, <1>4, <3>1
  <2> QED
    BY <1>3, <2>1, RunsEmpty, <1>1, <1>0 DEF t, c
<1>5. CASE n # 1
  <2> HIDE DEF t, c, n
  <2>1. Follows(arrived[1], arrived[2]) /\ t[1] = arrived[2] /\ n >= 2
    BY <1>0, <1>2, <1>5
  <2>2. t[1] = 1 \/ c < t[1]
    <3>1. t[1] = 1 \/ t[1] = arrived[1] + 1 \/ t[1] = Confirm
      BY <2>1 DEF Follows
    <3>2. c < Confirm /\ c <= arrived[1] /\ arrived[1] \in Nat /\ c \in Nat
      BY <1>0, <1>3 DEF c
    <3> QED
      BY <1>1, <3>1, <3>2
  <2>3. t # <<>> /\ t[Len(t)] = run
    BY <1>0, <1>2, <2>1
  <2>4. ASSUME NEW i \in 1..(Len(t) - 1) PROVE Follows(t[i], t[i + 1])
    <3>1. i + 1 \in 1..(n - 1) /\ i \in 1..(n - 1) /\ i + 1 + 1 = i + 2
      BY <1>0
    <3> QED
      BY <1>0, <1>2, <3>1
  <2> QED
    BY <2>2, <2>3, <2>4 DEF RunsFit, Consecutive, t, c
<1> QED
  BY <1>4, <1>5

\* Every step leaves the count of the probe one that its queue goes on from.
LEMMA CountStep == Inv /\ [Next]_vars => CountFits'
<1> SUFFICES ASSUME Inv, [Next]_vars PROVE CountFits'
  OBVIOUS
<1>0. Modes /\ Queue /\ CountFits /\ InputFitsRequest /\ PollFits
  BY TypeParts DEF Inv
<1> DEFINE Same == UNCHANGED <<probing, contiguous, run, arrived>>
           Reset == probing' = FALSE /\ contiguous' = 0 /\ run' = 0 /\ arrived' = <<>>
<1>a. ASSUME Same PROVE CountFits'
  BY <1>0, <1>a DEF CountFits
<1>b. ASSUME Reset PROVE CountFits'
  BY <1>b, RunsEmpty DEF CountFits
<1>c. ASSUME NEW direct, NEW fallback, OpenSession(direct, fallback), (direct /\ ~fallback) => ~probing PROVE CountFits'
  <2>1. CASE direct /\ ~fallback
    <3>1. arrived' = <<>> /\ contiguous' = contiguous /\ run' = run /\ probing' = probing /\ ~probing
      BY <1>c, <2>1 DEF OpenSession, SetEnabled, probe
    <3> QED
      BY <1>0, <1>a, <3>1 DEF CountFits
  <2>2. CASE ~(direct /\ ~fallback)
    BY <1>b, <1>c, <2>2 DEF OpenSession, SetEnabled, ResetProbe
  <2> QED
    BY <2>1, <2>2
<1>d. ASSUME NEW gap, Accept(gap), UNCHANGED <<probing, contiguous>> PROVE CountFits'
  <2>1. RunsFit(arrived', contiguous', run')
    BY <1>0, <1>d, RunsGrow DEF CountFits
  <2>2. ~probing => UNCHANGED <<arrived, run>>
    BY <1>d DEF Accept
  <2> QED
    BY <1>0, <1>d, <2>1, <2>2 DEF CountFits
<1> HIDE DEF Same, Reset
<1>1. CASE StartCapture
  BY <1>1, <1>c DEF StartCapture
<1>2. CASE StartDemo
  BY <1>2, <1>b DEF StartDemo, SetEnabled, ResetProbe, Reset
<1>3. CASE StartDirect
  BY <1>3, <1>b DEF StartDirect, SetEnabled, ResetProbe, Reset
<1>4. CASE Configure
  <2>1. OpenSession(mode = "direct", fallbackActive)
    BY <1>4 DEF Configure
  <2>2. ~fallbackActive => ~probing
    BY <1>0 DEF InputFitsRequest
  <2> QED
    BY <2>1, <2>2, <1>c
<1>5. CASE Stop
  BY <1>5, <1>b DEF Stop, SetEnabled, ResetProbe, Reset
<1>6. CASE Observe
  BY <1>6, <1>a DEF Observe, probe, ingress, Same
<1>7. CASE Judge
  BY <1>7, <1>a DEF Judge, probe, ingress, Same
<1>8. CASE FallBack
  BY <1>8, <1>b DEF FallBack, SetEnabled, ResetProbe, Reset
<1>9. CASE CheckCapture
  BY <1>9, <1>a DEF CheckCapture, probe, ingress, Same
<1>10. CASE AbandonProbe
  <2>1. Same \/ Reset
    BY <1>10 DEF AbandonProbe, SetEnabled, ResetProbe, probe, Same, Reset
  <2> QED
    BY <2>1, <1>a, <1>b
<1>11. CASE WaitForProbe
  BY <1>11, <1>a DEF WaitForProbe, probe, ingress, Same
<1>12. CASE StartProbe
  <2>1. probing' = TRUE /\ arrived' = <<>> /\ contiguous' = 0 /\ run' = 0
    BY <1>12 DEF StartProbe, SetEnabled
  <2> QED
    BY <2>1, RunsEmpty DEF CountFits
<1>13. CASE RestartProbe
  <2>1. probing' = probing /\ probing /\ UNCHANGED <<arrived, run>> /\ (contiguous' = 0 \/ contiguous' = contiguous)
    BY <1>13 DEF RestartProbe
  <2>2. RunsFit(arrived, 0, run)
    <3>1. run \in Nat /\ (arrived # <<>> => arrived[1] \in Nat /\ arrived[1] > 0)
      BY <1>0, Limits, QueueShrinks DEF Queue
    <3> QED
      BY <1>0, <3>1 DEF CountFits, RunsFit
  <2> QED
    BY <1>0, <2>1, <2>2 DEF CountFits
<1>14. CASE Listen
  <2>1. arrived' = Tail(arrived) /\ contiguous' = CountBatch(Head(arrived)) /\ UNCHANGED <<probing, run>> /\ probing
        /\ arrived # <<>> /\ CountBatch(Head(arrived)) < Confirm
    BY <1>0, <1>14 DEF Listen, PollFits
  <2> QED
    BY <1>0, <2>1, RunsShrink DEF CountFits
<1>15. CASE Return
  BY <1>15, <1>b DEF Return, ResetProbe, Reset
<1>16. CASE EndListening
  <2>1. Same \/ Reset
    BY <1>16 DEF EndListening, SetEnabled, ResetProbe, probe, Same, Reset
  <2> QED
    BY <2>1, <1>a, <1>b
<1>17. CASE Reopen
  <2>1. CASE mode \in {"capture", "direct"} /\ source = "none" /\ retryWait = 0 /\ ~probing
    BY <1>c, <1>17, <2>1 DEF Reopen
  <2>2. CASE ~(mode \in {"capture", "direct"} /\ source = "none" /\ retryWait = 0 /\ ~probing)
    BY <1>a, <1>17, <2>2 DEF Reopen, probe, Same
  <2> QED
    BY <2>1, <2>2
<1>18. CASE \E state \in {"playing", "resting", "failed"} : SetPlayback(state)
  BY <1>18, <1>a DEF SetPlayback, probe, ingress, Same
<1>19. CASE \E gap \in BOOLEAN : Deliver(gap)
  <2> PICK gap \in BOOLEAN : Deliver(gap)
    BY <1>19
  <2>1. Accept(gap) /\ UNCHANGED <<probing, contiguous>>
    BY DEF Deliver, probe
  <2> QED
    BY <1>0, <1>d, <2>1
<1>20. CASE BeginGeneration
  <2>1. arrived' = <<>> /\ run' = 0 /\ UNCHANGED <<probing, contiguous>>
    BY <1>20 DEF BeginGeneration, probe
  <2> QED
    BY <1>0, <2>1, RunsEmpty DEF CountFits
<1>21. CASE Callback
  BY <1>21, <1>a DEF Callback, probe, ingress, Same
<1>22. CASE DeviceChanges
  BY <1>22, <1>a DEF DeviceChanges, probe, ingress, Same
<1>23. CASE Settle
  BY <1>23, <1>a DEF Settle, probe, ingress, Same
<1>24. CASE Tick
  <2>1. UNCHANGED <<probing, contiguous>> /\ (Accept(FALSE) \/ UNCHANGED <<arrived, run>>)
    BY <1>24 DEF Tick
  <2> QED
    BY <1>a, <1>d, <2>1 DEF Same
<1>25. CASE UNCHANGED vars
  BY <1>25, <1>a DEF vars, probe, ingress, Same
<1> QED
  BY <1>1, <1>2, <1>3, <1>4, <1>5, <1>6, <1>7, <1>8, <1>9, <1>10, <1>11, <1>12, <1>13, <1>14, <1>15, <1>16, <1>17, <1>18, <1>19, <1>20, <1>21, <1>22, <1>23, <1>24, <1>25 DEF Next, Command, Poll, World

-----------------------------------------------------------------------------
(* The theorems.                                                           *)

\* The invariant holds in every behaviour, for every timeout and every bound.
THEOREM SourceInvariant == Spec => []Inv
<1>1. Init => Inv
  <2> SUFFICES ASSUME Init PROVE Inv
    OBVIOUS
  <2>1. Modes /\ Times /\ Queue
    <3>1. Modes
      BY DEF Init, Modes
    <3>2. Times
      BY Limits DEF Init, Times, Ages
    <3>3. Queue
      BY Limits, NoQueue DEF Init, Queue
    <3> QED
      BY <3>1, <3>2, <3>3
  <2>2. InputFitsRequest /\ PollFits
    BY DEF Init, InputFitsRequest, PollFits
  <2>3. CountFits
    BY RunsEmpty DEF Init, CountFits
  <2> QED
    BY <2>1, <2>2, <2>3, TypeParts DEF Inv
<1>2. Inv /\ [Next]_vars => Inv'
  BY TypeStep, FitStep, CountStep DEF Inv
<1> QED
  BY <1>1, <1>2, PTL DEF Spec

\* Direct PCM is given up only when playback failed or no PCM came for long; it is
\* returned to only after a run of batches without a gap.
LEMMA CauseStep ==
  ASSUME Inv
  PROVE  /\ FallBack => playback = "failed" \/ inputAge \notin 0..Stall
         /\ Return => Head(arrived) >= Confirm
<1>0. Times /\ Queue /\ CountFits
  BY TypeParts DEF Inv
<1>1. ASSUME FallBack PROVE playback = "failed" \/ inputAge \notin 0..Stall
  <2>1. playback = "failed" \/ StalledSincePlayback
    BY <1>1 DEF FallBack, DirectStalled
  <2>2. inputAge \in Ages \union {Never} /\ openedAge \in Ages /\ (startedAge # Never => startedAge \in Ages)
    BY <1>0 DEF Times
  <2>3. StalledSincePlayback => inputAge \notin 0..Stall
    BY <2>2, Limits DEF StalledSincePlayback, Ages
  <2> QED
    BY <2>1, <2>3
<1>2. ASSUME Return PROVE Head(arrived) >= Confirm
  <2>1. arrived # <<>> /\ CountBatch(Head(arrived)) >= Confirm
    BY <1>2 DEF Return
  <2>2. Head(arrived) = arrived[1] /\ arrived[1] \in 1..Confirm /\ contiguous \in Nat /\ Confirm \in Nat
    BY <1>0, <2>1, QueueShrinks, Limits DEF Queue
  <2>3. arrived[1] = 1 \/ contiguous < arrived[1]
    BY <1>0, <2>1 DEF CountFits, RunsFit
  <2> QED
    BY <2>1, <2>2, <2>3 DEF CountBatch
<1> QED
  BY <1>1, <1>2

\* One input feeds the analysis, one that was asked for; Spotify's PCM is accepted exactly
\* when somebody takes it out; and the source changes only for a cause.
THEOREM TheSourceIsRight == Spec => SourceIsRight
<1>1. Inv => TypeOK /\ InputFitsRequest
  BY DEF Inv
<1>2. Inv /\ [Next]_vars => [/\ FallBack => playback = "failed" \/ inputAge \notin 0..Stall
                             /\ Return => Head(arrived) >= Confirm]_vars
  BY CauseStep
<1> QED
  BY <1>1, <1>2, SourceInvariant, PTL DEF Spec, SourceIsRight, SourceChangesForCause

-----------------------------------------------------------------------------
(* The loopback.                                                           *)

OrNone == Sinks \cup {NoSink}
Holding == {"switch", "info", "modules", "unload", "load", "undo"}
Places == Holding \cup {"idle", "collect", "show", "permit"}
Jobs == {"none", "refresh", "sink", "route"}
Task == [at : Places, job : Jobs, force : BOOLEAN, sink : OrNone, undo : OrNone, next : OrNone]

RouteTypeOK ==
  /\ shown \in OrNone /\ output \in OrNone
  /\ route \in Seq(Tasks) /\ task \in [Tasks -> Task]
  /\ loops \in Seq(OrNone)

Waits(t) == t \in {route[i] : i \in DOMAIN route}
Holds(t) == route # <<>> /\ Head(route) = t

\* Who waits for the permit is in the queue, and who works on the loopbacks is its head.
PermitsOK ==
  \A t \in Tasks :
    /\ At(t, "permit") => Waits(t)
    /\ task[t].at \in Holding => Holds(t)

\* A loopback is loaded when there is none.
LoadsAlone == \A t \in Tasks : At(t, "load") => loops = <<>>

RouteInv == RouteTypeOK /\ PermitsOK /\ LoadsAlone /\ OneRoute

\* No two tasks work on the loopbacks.
LEMMA OneHolds ==
  ASSUME PermitsOK, NEW t \in Tasks, NEW u \in Tasks, t # u, task[t].at \in Holding
  PROVE  task[u].at \notin Holding
BY DEF PermitsOK, Holds

\* Who leaves the queue takes nobody's place.
LEMMA LeavesOK ==
  ASSUME route \in Seq(Tasks), NEW t \in Tasks, Leaves(t)
  PROVE  /\ route' \in Seq(Tasks)
         /\ \A u \in Tasks \ {t} : (Waits(u) => Waits(u)') /\ (Holds(u) => Holds(u)')
<1>1. CASE UNCHANGED route
  BY <1>1 DEF Waits, Holds
<1>2. CASE ~UNCHANGED route
  <2>1. PICK i \in DOMAIN route : /\ route[i] = t
                                  /\ route' = SubSeq(route, 1, i - 1) \o SubSeq(route, i + 1, Len(route))
    BY <1>2 DEF Leaves
  <2>2. i \in 1..Len(route) /\ Len(route) \in Nat
    BY <2>1
  <2>3. /\ SubSeq(route, 1, i - 1) \in Seq(Tasks) /\ Len(SubSeq(route, 1, i - 1)) = i - 1
        /\ SubSeq(route, i + 1, Len(route)) \in Seq(Tasks)
        /\ Len(SubSeq(route, i + 1, Len(route))) = Len(route) - i
    BY <2>2
  <2> DEFINE before == SubSeq(route, 1, i - 1)
             after == SubSeq(route, i + 1, Len(route))
  <2>10. route' = before \o after
    BY <2>1
  <2>11. \A j \in 1..(i - 1) : before[j] = route[j]
    BY <2>2
  <2>12. \A j \in 1..(Len(route) - i) : after[j] = route[j + i]
    BY <2>2
  <2>13. before \in Seq(Tasks) /\ after \in Seq(Tasks) /\ Len(before) = i - 1 /\ Len(after) = Len(route) - i
    BY <2>3
  <2> HIDE DEF before, after
  <2>4. route' \in Seq(Tasks) /\ Len(route') = Len(route) - 1
    BY <2>2, <2>10, <2>13
  <2>5. \A j \in 1..(Len(route) - 1) : route'[j] = IF j < i THEN route[j] ELSE route[j + 1]
    <3>1. ASSUME NEW j \in 1..(Len(route) - 1), j < i PROVE route'[j] = route[j]
      BY <2>2, <2>10, <2>11, <2>13, <3>1
    <3>2. ASSUME NEW j \in 1..(Len(route) - 1), ~(j < i) PROVE route'[j] = route[j + 1]
      <4>1. route'[j] = after[j - (i - 1)]
        BY SMTT(30), <2>2, <2>10, <2>13, <3>2
      <4>2. j - (i - 1) \in 1..(Len(route) - i) /\ (j - (i - 1)) + i = j + 1
        BY <2>2, <3>2
      <4> QED
        BY <2>12, <4>1, <4>2
    <3> QED
      BY <3>1, <3>2
  <2>6. ASSUME NEW u \in Tasks \ {t}, Waits(u) PROVE Waits(u)'
    <3>1. PICK j \in 1..Len(route) : route[j] = u
      BY <2>6 DEF Waits
    <3>2. CASE j < i
      <4>1. j \in DOMAIN route' /\ route'[j] = u
        BY <2>2, <2>4, <2>5, <3>1, <3>2
      <4> QED
        BY <4>1 DEF Waits
    <3>3. CASE j > i
      <4>1. j - 1 \in 1..(Len(route) - 1) /\ ~(j - 1 < i) /\ (j - 1) + 1 = j
        BY <2>2, <3>1, <3>3
      <4>2. j - 1 \in DOMAIN route' /\ route'[j - 1] = u
        BY <2>4, <2>5, <3>1, <4>1
      <4> QED
        BY <4>2 DEF Waits
    <3> QED
      BY <2>1, <2>2, <3>1, <3>2, <3>3
  <2>7. ASSUME NEW u \in Tasks \ {t}, Holds(u) PROVE Holds(u)'
    <3>1. route[1] = u /\ i > 1
      BY <2>1, <2>2, <2>7 DEF Holds
    <3>2. route'[1] = u /\ Len(route') >= 1
      BY <2>2, <2>4, <2>5, <3>1
    <3> QED
      BY <2>4, <3>2 DEF Holds
  <2> QED
    BY <2>4, <2>6, <2>7
<1> QED
  BY <1>1, <1>2

\* Who joins the queue waits in it, behind the others.
LEMMA QueuesOK ==
  ASSUME route \in Seq(Tasks), NEW t \in Tasks, Queues(t)
  PROVE  /\ route' \in Seq(Tasks) /\ Waits(t)'
         /\ \A u \in Tasks : (Waits(u) => Waits(u)') /\ (Holds(u) => Holds(u)')
<1>1. route' \in Seq(Tasks) /\ Len(route') = Len(route) + 1
  BY DEF Queues
<1>2. \A j \in 1..Len(route) : j \in DOMAIN route' /\ route'[j] = route[j]
  BY DEF Queues
<1>3. Len(route) + 1 \in DOMAIN route' /\ route'[Len(route) + 1] = t
  BY DEF Queues
<1>4. Waits(t)'
  BY <1>3 DEF Waits
<1>5. ASSUME NEW u \in Tasks, Waits(u) PROVE Waits(u)'
  BY <1>2, <1>5 DEF Waits
<1>6. ASSUME NEW u \in Tasks, Holds(u) PROVE Holds(u)'
  <2>1. 1 \in 1..Len(route) /\ route[1] = u
    BY <1>6 DEF Holds
  <2> QED
    BY <1>1, <1>2, <2>1 DEF Holds
<1> QED
  BY <1>1, <1>4, <1>5, <1>6

USE DEF pipewire, NoSink, Tasks, OrNone, Holding, Places, Jobs, Task, Resting, At, Go, To

\* Only the task that has stepped is somewhere else.
LEMMA GoOK ==
  ASSUME RouteTypeOK, NEW t \in Tasks, NEW r \in Task, Go(t, r)
  PROVE  task' \in [Tasks -> Task] /\ task'[t] = r /\ \A u \in Tasks \ {t} : task'[u] = task[u]
BY DEF RouteTypeOK

\* What a step of one task owes the others: their place in the queue, and the loopbacks
\* unless it holds the permit.
LEMMA StepKeeps ==
  ASSUME RouteInv, RouteTypeOK', NEW t \in Tasks,
         \A u \in Tasks \ {t} : /\ task'[u] = task[u]
                                /\ (Waits(u) => Waits(u)') /\ (Holds(u) => Holds(u)'),
         task'[t].at = "permit" => Waits(t)',
         task'[t].at \in Holding => Holds(t)',
         loops' = loops \/ task[t].at \in Holding,
         task'[t].at = "load" => loops' = <<>>,
         Len(loops') <= 1
  PROVE  RouteInv'
<1>1. PermitsOK'
  BY DEF RouteInv, PermitsOK
<1>2. ASSUME NEW u \in Tasks, task'[u].at = "load" PROVE loops' = <<>>
  <2>1. CASE u = t
    BY <1>2, <2>1
  <2>2. CASE u # t
    <3>1. task[u].at = "load" /\ loops = <<>>
      BY <1>2, <2>2 DEF RouteInv, LoadsAlone
    <3>2. task[t].at \notin Holding
      BY <2>2, <3>1, OneHolds DEF RouteInv
    <3> QED
      BY <3>1, <3>2
  <2> QED
    BY <2>1, <2>2
<1> QED
  BY <1>1, <1>2 DEF RouteInv, LoadsAlone, OneRoute

\* The same for a step that leaves the queue alone.
LEMMA QuietKeeps ==
  ASSUME RouteInv, RouteTypeOK', NEW t \in Tasks, UNCHANGED route,
         \A u \in Tasks \ {t} : task'[u] = task[u],
         task'[t].at = "permit" => task[t].at = "permit",
         task'[t].at \in Holding => Holds(t),
         loops' = loops \/ task[t].at \in Holding,
         task'[t].at = "load" => loops' = <<>>,
         Len(loops') <= 1
  PROVE  RouteInv'
<1>1. \A u \in Tasks : (Waits(u) => Waits(u)') /\ (Holds(u) => Holds(u)')
  BY DEF Waits, Holds
<1> QED
  BY <1>1, StepKeeps DEF RouteInv, PermitsOK

\* What a call does to PipeWire, done or not: no second loopback, and nothing unless its
\* task holds the permit.
LEMMA EffectOK ==
  ASSUME RouteInv, NEW t \in Tasks, Perhaps(t)
  PROVE  /\ output' \in OrNone /\ loops' \in Seq(OrNone) /\ Len(loops') <= 1
         /\ UNCHANGED pipewire \/ task[t].at \in Holding
<1>0. /\ task[t] \in Task /\ output \in OrNone /\ loops \in Seq(OrNone) /\ Len(loops) <= 1
      /\ At(t, "load") => loops = <<>>
  BY DEF RouteInv, RouteTypeOK, OneRoute, LoadsAlone
<1>1. CASE UNCHANGED pipewire
  BY <1>0, <1>1
<1>2. CASE Effect(t) /\ At(t, "unload")
  <2>1. loops' = (IF loops = <<>> THEN loops ELSE Tail(loops)) /\ UNCHANGED output
    BY <1>2 DEF Effect
  <2> QED
    BY <1>0, <1>2, <2>1
<1>3. CASE Effect(t) /\ At(t, "load")
  <2>1. loops' = Append(loops, task[t].sink) /\ UNCHANGED output
    BY <1>3 DEF Effect
  <2> QED
    BY <1>0, <1>3, <2>1
<1>4. CASE Effect(t) /\ (At(t, "switch") \/ At(t, "undo"))
  <2>1. output' \in {task[t].sink, task[t].undo} /\ UNCHANGED loops
    BY <1>4 DEF Effect
  <2> QED
    BY <1>0, <1>4, <2>1
<1>5. CASE Effect(t) /\ task[t].at \notin {"unload", "load", "switch", "undo"}
  BY <1>0, <1>5 DEF Effect
<1> QED
  BY <1>1, <1>2, <1>3, <1>4, <1>5 DEF Perhaps

\* The end of a route: the permit is given back, or kept for the way back.
LEMMA RoutedOK ==
  ASSUME RouteInv, NEW t \in Tasks, task[t].at \in Holding, NEW ok \in BOOLEAN, Routed(t, ok),
         UNCHANGED shown, output' \in OrNone, loops' \in Seq(OrNone), Len(loops') <= 1
  PROVE  RouteInv'
<1> USE DEF RouteInv, RouteTypeOK
<1>1. task[t] \in Task /\ task[t].next \in OrNone /\ shown \in OrNone
  OBVIOUS
<1>2. ASSUME Leaves(t), NEW r \in Task, Go(t, r), r.at \notin Holding, r.at # "permit"
      PROVE  RouteInv'
  <2>1. RouteTypeOK'
    BY <1>2, LeavesOK, GoOK
  <2> QED
    BY <1>2, <2>1, LeavesOK, GoOK, StepKeeps
<1>3. CASE task[t].job = "refresh"
  <2>1. [Resting EXCEPT !.at = "show", !.next = task[t].next] \in Task
    BY <1>1
  <2> QED
    BY <1>2, <1>3, <2>1 DEF Routed
<1>4. CASE task[t].job = "sink" /\ ok
  <2>1. [Resting EXCEPT !.at = "collect", !.job = "refresh", !.next = shown] \in Task
    BY <1>1
  <2> DEFINE r == [Resting EXCEPT !.at = "collect", !.job = "refresh", !.next = shown]
  <2>2. Leaves(t) /\ Go(t, r)
    BY <1>4 DEF Routed, Refresh
  <2>3. r.at = "collect" /\ r \in Task
    BY <2>1
  <2>4. r.at \notin Holding /\ r.at # "permit"
    BY <2>3 DEF Holding
  <2> HIDE DEF r
  <2> QED
    BY <1>2, <2>2, <2>3, <2>4
<1>5. CASE task[t].job = "sink" /\ ~ok /\ task[t].undo # NoSink
  <2>1. UNCHANGED route /\ Go(t, [task[t] EXCEPT !.at = "undo"])
    BY <1>5 DEF Routed
  <2>2. [task[t] EXCEPT !.at = "undo"] \in Task
    BY <1>1
  <2>3. RouteTypeOK'
    BY <2>1, <2>2, GoOK
  <2>4. Holds(t)
    BY DEF PermitsOK
  <2>5. /\ task'[t] = [task[t] EXCEPT !.at = "undo"] /\ task'[t].at = "undo"
        /\ \A u \in Tasks \ {t} : task'[u] = task[u]
    BY <1>1, <2>1, <2>2, GoOK
  <2> QED
    BY <2>1, <2>3, <2>4, <2>5, QuietKeeps
<1>6. CASE task[t].job \notin {"refresh", "sink"} \/ (task[t].job = "sink" /\ ~ok /\ task[t].undo = NoSink)
  <2>1. Resting \in Task
    OBVIOUS
  <2>2. Leaves(t) /\ Go(t, Resting)
    BY <1>6 DEF Routed
  <2> QED
    BY <1>2, <2>1, <2>2
<1> QED
  BY <1>3, <1>4, <1>5, <1>6

\* A step to a place outside the route, or on within it, that touches neither the queue
\* nor the loopbacks.
LEMMA WalkOK ==
  ASSUME RouteInv, NEW t \in Tasks, NEW r \in Task, Go(t, r), UNCHANGED <<route, loops>>,
         shown' \in OrNone, output' \in OrNone,
         r.at = "permit" => task[t].at = "permit",
         r.at \in Holding => Holds(t),
         r.at = "load" => loops = <<>>
  PROVE  RouteInv'
<1>1. RouteTypeOK'
  BY GoOK DEF RouteInv, RouteTypeOK
<1> QED
  BY ZenonT(60), <1>1, GoOK, QuietKeeps DEF RouteInv, OneRoute

\* What a refresh does.
LEMMA RefreshingOK ==
  ASSUME RouteInv, NEW t \in Tasks, Collect(t) \/ Show(t)
  PROVE  RouteInv'
<1>0. task[t] \in Task /\ Resting \in Task
  BY DEF RouteInv, RouteTypeOK
<1>1. CASE Show(t)
  BY <1>0, <1>1, WalkOK DEF Show, RouteInv, RouteTypeOK
<1>2. CASE Collect(t)
  <2>1. PICK answered \in {TRUE, calm} :
          LET sink == IF answered THEN output ELSE task[t].next
          IN  IF sink = NoSink THEN Go(t, [task[t] EXCEPT !.next = sink, !.at = "show"]) /\ UNCHANGED route
              ELSE Go(t, [task[t] EXCEPT !.next = sink, !.at = "permit"]) /\ Queues(t)
    BY <1>2 DEF Collect
  <2> DEFINE sink == IF answered THEN output ELSE task[t].next
             rest == [task[t] EXCEPT !.next = sink, !.at = "show"]
             wait == [task[t] EXCEPT !.next = sink, !.at = "permit"]
  <2>2. sink \in OrNone
    BY <1>0 DEF RouteInv, RouteTypeOK
  <2>7. (Go(t, rest) /\ UNCHANGED route) \/ (Go(t, wait) /\ Queues(t))
    <3>1. CASE sink = NoSink
      BY <2>1, <3>1, Zenon
    <3>2. CASE sink # NoSink
      BY <2>1, <3>2, Zenon
    <3> QED
      BY <3>1, <3>2
  <2> HIDE DEF sink
  <2>3. rest \in Task /\ wait \in Task /\ rest.at = "show" /\ wait.at = "permit"
    BY <1>0, <2>2
  <2>4. UNCHANGED <<shown, output, loops>>
    BY <1>2 DEF Collect, pipewire
  <2>5. CASE Go(t, rest) /\ UNCHANGED route
    BY <2>3, <2>4, <2>5, WalkOK DEF RouteInv, RouteTypeOK
  <2>6. CASE Go(t, wait) /\ Queues(t)
    <3>1. RouteTypeOK'
      BY <2>3, <2>4, <2>6, GoOK, QueuesOK DEF RouteInv, RouteTypeOK
    <3>2. task'[t].at = "permit" /\ \A u \in Tasks \ {t} : task'[u] = task[u]
      BY <2>3, <2>6, GoOK DEF RouteInv
    <3>3. Waits(t)' /\ \A u \in Tasks : (Waits(u) => Waits(u)') /\ (Holds(u) => Holds(u)')
      BY <2>6, QueuesOK DEF RouteInv, RouteTypeOK
    <3> QED
      BY <2>4, <3>1, <3>2, <3>3, StepKeeps DEF RouteInv, OneRoute
  <2> QED
    BY <2>5, <2>6, <2>7
<1> QED
  BY <1>1, <1>2

\* What a task does to PipeWire while it holds the permit.
LEMMA RoutingOK ==
  ASSUME RouteInv, NEW t \in Tasks,
         Permit(t) \/ Info(t) \/ Modules(t) \/ Unload(t) \/ Load(t) \/ Switch(t) \/ Undo(t)
  PROVE  RouteInv'

<1>0. /\ task[t] \in Task /\ Resting \in Task /\ shown \in OrNone /\ output \in OrNone
      /\ loops \in Seq(OrNone) /\ Len(loops) <= 1
  BY DEF RouteInv, RouteTypeOK, OneRoute
<1>1. CASE Permit(t)
  <2>1. Holds(t)
    BY <1>1 DEF Permit, RouteInv, PermitsOK, RouteTypeOK, Waits, Holds
  <2> DEFINE place == IF task[t].job = "sink" THEN "switch" ELSE "info"
             r == [task[t] EXCEPT !.at = place]
  <2>4. place \in {"switch", "info"}
    OBVIOUS
  <2>3. Go(t, r) /\ UNCHANGED <<shown, gate, route, pipewire>>
    BY <1>1 DEF Permit
  <2> HIDE DEF place
  <2>2. r \in Task /\ r.at \in {"switch", "info"}
    BY <1>0, <2>4
  <2> QED
    BY <1>0, <2>1, <2>2, <2>3, WalkOK
<1> SUFFICES ASSUME task[t].at \in Holding, Holds(t),
                    Info(t) \/ Modules(t) \/ Unload(t) \/ Load(t) \/ Switch(t) \/ Undo(t)
             PROVE  RouteInv'
  BY <1>1 DEF RouteInv, PermitsOK, Info, Modules, Unload, Load, Switch, Undo
<1>2. ASSUME NEW ok \in BOOLEAN, Routed(t, ok), Perhaps(t), UNCHANGED shown PROVE RouteInv'
  BY <1>0, <1>2, EffectOK, RoutedOK
<1>3. CASE Info(t)
  <2> DEFINE sink == IF output # NoSink THEN output ELSE shown
             r == [task[t] EXCEPT !.at = "modules", !.sink = sink]
  <2>2. \/ Routed(t, FALSE) /\ Perhaps(t) /\ UNCHANGED shown
        \/ Go(t, r) /\ UNCHANGED <<shown, output, loops, route>>
    <3>1. Effect(t) => UNCHANGED <<output, loops>>
      BY <1>3 DEF Info, Effect
    <3> QED
      BY <1>3, <3>1 DEF Info, Call, Perhaps
  <2>3. sink \in OrNone
    BY <1>0
  <2> HIDE DEF sink
  <2>1. r \in Task /\ r.at = "modules"
    BY <1>0, <2>3
  <2> HIDE DEF r
  <2>4. CASE Go(t, r) /\ UNCHANGED <<shown, loops, route>> /\ output' \in OrNone
    BY <1>0, <2>1, <2>4, WalkOK
  <2> QED
    BY <1>0, <1>2, <2>1, <2>2, <2>4
<1>4. CASE Modules(t)
  <2> DEFINE r == [task[t] EXCEPT !.at = IF loops = <<>> THEN "load" ELSE "unload"]
  <2>1. r \in Task /\ r.at \in {"load", "unload"} /\ (r.at = "load" => loops = <<>>)
    BY <1>0
  <2>2. \/ \E ok \in BOOLEAN : Routed(t, ok) /\ Perhaps(t) /\ UNCHANGED shown
        \/ Go(t, r) /\ UNCHANGED <<shown, output, loops, route>>
    <3>1. Effect(t) => UNCHANGED <<output, loops>>
      BY <1>4 DEF Modules, Effect
    <3> QED
      BY <1>4, <3>1 DEF Modules, Call, Perhaps
  <2> QED
    BY <1>0, <1>2, <2>1, <2>2, WalkOK
<1>5. CASE Unload(t)
  <2> DEFINE r == [task[t] EXCEPT !.at = "load"]
  <2>1. r \in Task /\ r.at = "load"
    BY <1>0
  <2>2. CASE Routed(t, FALSE) /\ Perhaps(t) /\ UNCHANGED shown
    BY <1>2, <2>2
  <2>3. CASE /\ loops' = (IF loops = <<>> THEN loops ELSE Tail(loops))
             /\ Go(t, r) /\ UNCHANGED <<shown, output, route>>
    <3>1. loops' = <<>>
      BY <1>0, <2>3
    <3>2. RouteTypeOK'
      BY <2>1, <2>3, <3>1, GoOK DEF RouteInv, RouteTypeOK
    <3>3. task'[t] = r /\ \A u \in Tasks \ {t} : task'[u] = task[u]
      BY <2>1, <2>3, GoOK DEF RouteInv
    <3>4. task'[t].at = "load" /\ Len(loops') <= 1
      BY <2>1, <3>1, <3>3
    <3> HIDE DEF r
    <3> QED
      BY <2>3, <3>1, <3>2, <3>3, <3>4, QuietKeeps
  <2>4. Effect(t) => loops' = (IF loops = <<>> THEN loops ELSE Tail(loops)) /\ UNCHANGED output
    BY <1>5 DEF Unload, Effect
  <2> QED
    BY <1>5, <2>2, <2>3, <2>4 DEF Unload, Call
<1>6. CASE Load(t)
  <2>1. \E ok \in BOOLEAN : Routed(t, ok) /\ Perhaps(t) /\ UNCHANGED shown
    BY <1>6 DEF Load, Call, Perhaps
  <2> QED
    BY <1>2, <2>1
<1>7. CASE Switch(t)
  <2> DEFINE sink == IF shown # NoSink THEN shown ELSE output
             r == [task[t] EXCEPT !.at = "modules", !.undo = sink]
  <2>2. \/ Routed(t, FALSE) /\ Perhaps(t) /\ UNCHANGED shown
        \/ output' = task[t].sink /\ Go(t, r) /\ UNCHANGED <<shown, loops, route>>
    <3>1. Effect(t) => output' = task[t].sink /\ UNCHANGED loops
      BY <1>7 DEF Switch, Effect
    <3> QED
      BY <1>7, <3>1 DEF Switch, Call, Perhaps
  <2>3. sink \in OrNone
    BY <1>0
  <2> HIDE DEF sink
  <2>1. r \in Task /\ r.at = "modules" /\ task[t].sink \in OrNone
    BY <1>0, <2>3
  <2> HIDE DEF r
  <2>4. CASE Go(t, r) /\ UNCHANGED <<shown, loops, route>> /\ output' \in OrNone
    BY <1>0, <2>1, <2>4, WalkOK
  <2> QED
    BY <1>0, <1>2, <2>1, <2>2, <2>4
<1>8. CASE Undo(t)
  <2>1. CASE Go(t, Resting) /\ Leaves(t) /\ Perhaps(t) /\ UNCHANGED shown
    <3>1. RouteTypeOK'
      BY <1>0, <2>1, GoOK, LeavesOK, EffectOK DEF RouteInv, RouteTypeOK
    <3>2. task'[t] = Resting /\ \A u \in Tasks \ {t} : task'[u] = task[u]
      BY <1>0, <2>1, GoOK DEF RouteInv
    <3>3. \A u \in Tasks \ {t} : (Waits(u) => Waits(u)') /\ (Holds(u) => Holds(u)')
      BY <2>1, LeavesOK DEF RouteInv, RouteTypeOK
    <3> QED
      BY <1>0, <2>1, <3>1, <3>2, <3>3, EffectOK, StepKeeps
  <2> DEFINE r == [Resting EXCEPT !.at = "modules", !.sink = task[t].undo]
  <2>2. CASE output' = task[t].undo /\ Go(t, r) /\ UNCHANGED <<shown, loops, route>>
    <3>1. r \in Task /\ r.at = "modules" /\ task[t].undo \in OrNone
      BY <1>0
    <3> QED
      BY ZenonT(60), <1>0, <2>2, <3>1, WalkOK
  <2>3. Effect(t) => output' = task[t].undo /\ UNCHANGED loops
    BY <1>8 DEF Undo, Effect
  <2> QED
    BY <1>8, <2>1, <2>2, <2>3 DEF Undo
<1> QED
  BY <1>3, <1>4, <1>5, <1>6, <1>7, <1>8

\* Who calls, who leaves, and what else changes.
LEMMA CallersOK ==
  ASSUME RouteInv, PollOutputs \/ Ask \/ StartOperation \/ EndOperation \/ Drop \/ OutputChanges \/ Calm
  PROVE  RouteInv'

<1>0. /\ Resting \in Task /\ shown \in OrNone /\ output \in OrNone /\ "caller" \in Tasks
      /\ loops \in Seq(OrNone) /\ Len(loops) <= 1
  BY DEF RouteInv, RouteTypeOK, OneRoute
<1>1. ASSUME NEW t \in Tasks, Refresh(t), UNCHANGED <<shown, route, pipewire>> PROVE RouteInv'
  <2> DEFINE r == [Resting EXCEPT !.at = "collect", !.job = "refresh", !.next = shown]
  <2>1. r \in Task /\ r.at = "collect" /\ Go(t, r)
    BY <1>0, <1>1 DEF Refresh
  <2> QED
    BY <1>0, <1>1, <2>1, WalkOK
<1>2. ASSUME NEW r \in Task, Go("caller", r), r.at = "permit", Queues("caller"),
             UNCHANGED <<shown, pipewire>>
      PROVE  RouteInv'
  <2>1. RouteTypeOK'
    BY <1>0, <1>2, GoOK, QueuesOK DEF RouteInv, RouteTypeOK
  <2>2. task'["caller"] = r /\ \A u \in Tasks \ {"caller"} : task'[u] = task[u]
    BY <1>0, <1>2, GoOK DEF RouteInv
  <2>3. Waits("caller")' /\ \A u \in Tasks : (Waits(u) => Waits(u)') /\ (Holds(u) => Holds(u)')
    BY <1>0, <1>2, QueuesOK DEF RouteInv, RouteTypeOK
  <2> QED
    BY <1>0, <1>2, <2>1, <2>2, <2>3, StepKeeps
<1>3. CASE PollOutputs
  BY <1>1, <1>3 DEF PollOutputs
<1>4. CASE Ask
  <2>1. CASE Refresh("caller") /\ UNCHANGED route
    BY <1>0, <1>1, <1>4, <2>1 DEF Ask
  <2>2. ASSUME NEW sink \in Sinks, Queues("caller"),
               Go("caller", [Resting EXCEPT !.at = "permit", !.job = "sink", !.sink = sink])
        PROVE  RouteInv'
    <3>1. [Resting EXCEPT !.at = "permit", !.job = "sink", !.sink = sink] \in Task
      OBVIOUS
    <3> QED
      BY <1>2, <1>4, <2>2, <3>1 DEF Ask
  <2>3. ASSUME NEW force \in BOOLEAN, Queues("caller"),
               Go("caller", [Resting EXCEPT !.at = "permit", !.job = "route", !.force = force])
        PROVE  RouteInv'
    <3>1. [Resting EXCEPT !.at = "permit", !.job = "route", !.force = force] \in Task
      OBVIOUS
    <3> QED
      BY <1>2, <1>4, <2>3, <3>1 DEF Ask
  <2> QED
    BY <1>4, <2>1, <2>2, <2>3 DEF Ask
<1>5. CASE EndOperation
  BY <1>1, <1>5 DEF EndOperation
<1>6. CASE Drop
  <2>1. Go("caller", Resting) /\ Leaves("caller") /\ Perhaps("caller") /\ UNCHANGED shown
    BY <1>6 DEF Drop
  <2>2. RouteTypeOK'
    BY <1>0, <2>1, GoOK, LeavesOK, EffectOK DEF RouteInv, RouteTypeOK
  <2>3. task'["caller"] = Resting /\ \A u \in Tasks \ {"caller"} : task'[u] = task[u]
    BY <1>0, <2>1, GoOK DEF RouteInv
  <2>4. \A u \in Tasks \ {"caller"} : (Waits(u) => Waits(u)') /\ (Holds(u) => Holds(u)')
    BY <1>0, <2>1, LeavesOK DEF RouteInv, RouteTypeOK
  <2> QED
    BY <1>0, <2>1, <2>2, <2>3, <2>4, EffectOK, StepKeeps
<1>7. CASE StartOperation \/ OutputChanges \/ Calm
  <2>1. UNCHANGED <<shown, route, task, loops>> /\ output' \in OrNone
    BY <1>0, <1>7 DEF StartOperation, OutputChanges, Calm
  <2> QED
    BY <2>1 DEF RouteInv, RouteTypeOK, PermitsOK, LoadsAlone, OneRoute, Waits, Holds
<1> QED
  BY <1>3, <1>4, <1>5, <1>6, <1>7

\* Every reachable state satisfies the invariant.
THEOREM RouteInvariant == BluetoothSpec => []RouteInv
<1>1. BluetoothInit => RouteInv
  <2> SUFFICES ASSUME BluetoothInit PROVE RouteInv
    OBVIOUS
  <2>1. loops \in Seq(OrNone) /\ Len(loops) <= 1
    <3>1. CASE loops = <<>>
      BY <3>1
    <3>2. ASSUME NEW sink \in Sinks, loops = <<sink>> PROVE loops \in Seq(OrNone) /\ Len(loops) <= 1
      BY <3>2
    <3> QED
      BY <3>1, <3>2 DEF BluetoothInit
  <2>2. RouteTypeOK /\ \A t \in Tasks : task[t].at = "idle"
    BY <2>1 DEF BluetoothInit, RouteTypeOK
  <2> QED
    BY <2>1, <2>2 DEF RouteInv, PermitsOK, LoadsAlone, OneRoute
<1>2. RouteInv /\ [BluetoothNext]_bluetoothVars => RouteInv'
  <2>1. ASSUME RouteInv, UNCHANGED bluetoothVars PROVE RouteInv'
    BY <2>1 DEF bluetoothVars, pipewire, RouteInv, RouteTypeOK, PermitsOK, LoadsAlone, OneRoute, Waits, Holds
  <2> QED
    BY <2>1, RefreshingOK, RoutingOK, CallersOK DEF BluetoothNext, Steps
<1> QED
  BY <1>1, <1>2, PTL DEF BluetoothSpec

\* Spotify is played through one loopback at most, for any outputs and any failures.
THEOREM OneLoopback == BluetoothSpec => []OneRoute
BY RouteInvariant, PTL DEF RouteInv

-----------------------------------------------------------------------------
(* Spotify: both players keep the promise made to who sends a command.     *)

Kinds == {"auth_state", "playback", "command_result", "error"}
Messages == [kind : Kinds, name : {None} \cup {Name[c] : c \in Calls}, on : BOOLEAN]

\* The answers to commands: not an error about something else.
Results == {m \in Messages : m.kind = "command_result" \/ (m.kind = "error" /\ m.on)}

CommandTypeOK ==
  /\ SpotifyTypeOK /\ expired \subseteq Calls /\ seen \in BOOLEAN
  /\ delivered \subseteq Calls /\ confirmed \subseteq Calls
  /\ selections \in Nat
  /\ exit \in {None, "stopped", "renamed", "selected", "ended", "lost"}
  /\ wire \in Seq(Calls \cup {State}) /\ back \in Seq(Messages)

Sent(c) == answer[c] \notin {None, "asking"}

\* Of D there is one in s at most; and no command is in s twice.
Alone(s, D) == \A i, j \in DOMAIN s : s[i] \in D /\ s[j] \in D => i = j
Once(s) == \A i, j \in DOMAIN s : s[i] = s[j] /\ s[i] \in Calls => i = j

\* What is queued was sent, once, and has not gone to the player.
QueuedOK ==
  /\ Once(queue)
  /\ \A c \in Calls : c \in ToSet(queue) => Sent(c) /\ c \notin delivered /\ c # pending

\* What is pending belongs to a session, and its caller waits or has given up.
PendingOK ==
  /\ pending # None => at = "session" /\ answer[pending] \in {"waiting", "unsure"}
  /\ backend = "librespot" /\ pending # None => pending \in delivered
  /\ \A c \in delivered : Sent(c)

\* What is on its way to Soloist was not delivered and will not be sent again.
Coming == {"waiting", "unsure", "ok", "refused"}
OnTheWire ==
  /\ at # "session" \/ backend = "librespot" => wire = <<>> /\ back = <<>> /\ ~misled
  /\ Once(wire)
  /\ \A c \in Calls : c \in ToSet(wire) =>
       c \notin delivered /\ c \notin ToSet(queue) /\ answer[c] \in Coming

\* One command is on its way to Soloist, the pending one, and then its one answer is
\* on its way back: until an error about something else answers a command.
InFlightOK ==
  /\ Alone(wire, Calls) /\ Alone(back, Results)
  /\ \A c \in Calls : c \in ToSet(wire) => c = pending /\ c \notin delivered
  /\ \A m \in Results : m \in ToSet(back) =>
       /\ pending \in delivered
       /\ m.kind = "command_result" => pending \in confirmed
TellsApart == OnTheWire /\ (~misled => InFlightOK)

\* Where credentials come from: a session has some, and without any there is no pairing.
CredentialsOK ==
  /\ at \in {"choose", "retry"} => creds # None \/ cache = None \/ spoiled
  /\ backend = "librespot" /\ at \in {"opening", "session", "shutting"} => used # None
  /\ at = "shutting" /\ exit = "selected" => creds # None
  /\ UnpairedHasNone

CommandInv == CommandTypeOK /\ QueuedOK /\ PendingOK /\ TellsApart /\ CredentialsOK

\* What is said to whom, and that none of it is a command.
LEMMA Tokens ==
  /\ None \notin Calls /\ None \notin Replies /\ State \notin Calls
  /\ QueueLimit \in Nat /\ BacklogLimit \in Nat /\ None \notin Accounts
  BY CommandsAssumption, ConnectAssumption, SoloistAssumption

\* The head leaves the tail behind.
LEMMA HeadLeaves ==
  ASSUME NEW S, NEW s \in Seq(S), s # <<>>
  PROVE  /\ Head(s) \in S /\ Tail(s) \in Seq(S) /\ Head(s) \in ToSet(s)
         /\ ToSet(Tail(s)) \subseteq ToSet(s) /\ Len(Tail(s)) <= Len(s)
         /\ Once(s) => Once(Tail(s)) /\ (Head(s) \in Calls => Head(s) \notin ToSet(Tail(s)))
         /\ \A D : Alone(s, D) => /\ Alone(Tail(s), D)
                                  /\ Head(s) \in D => ToSet(Tail(s)) \cap D = {}
<1>1. /\ Head(s) = s[1] /\ 1 \in DOMAIN s /\ Tail(s) \in Seq(S) /\ Len(Tail(s)) = Len(s) - 1
      /\ Len(s) \in Nat /\ Len(Tail(s)) \in Nat /\ Head(s) \in S
      /\ DOMAIN s = 1 .. Len(s) /\ DOMAIN Tail(s) = 1 .. Len(Tail(s))
  OBVIOUS
<1>2. \A i \in DOMAIN Tail(s) : Tail(s)[i] = s[i + 1] /\ i + 1 \in DOMAIN s /\ i + 1 # 1
  BY <1>1
<1>3. \A i, j \in DOMAIN Tail(s) : i + 1 = j + 1 => i = j
  BY <1>1
<1>4. Head(s) \in ToSet(s) /\ ToSet(Tail(s)) \subseteq ToSet(s)
  BY <1>1, <1>2 DEF ToSet
<1>5. Once(s) => Once(Tail(s)) /\ (Head(s) \in Calls => Head(s) \notin ToSet(Tail(s)))
  BY <1>1, <1>2, <1>3 DEF ToSet, Once
<1>6. \A D : Alone(s, D) => /\ Alone(Tail(s), D)
                            /\ Head(s) \in D => ToSet(Tail(s)) \cap D = {}
  BY <1>1, <1>2, <1>3 DEF ToSet, Alone
<1> QED BY <1>1, <1>4, <1>5, <1>6

\* What is appended comes last, and stands alone if it is not there yet.
LEMMA LastJoins ==
  ASSUME NEW S, NEW s \in Seq(S), NEW e \in S
  PROVE  /\ Append(s, e) \in Seq(S) /\ ToSet(Append(s, e)) = ToSet(s) \cup {e}
         /\ Len(Append(s, e)) = Len(s) + 1
         /\ Once(s) /\ (e \in Calls => e \notin ToSet(s)) => Once(Append(s, e))
         /\ \A D : Alone(s, D) /\ (e \in D => ToSet(s) \cap D = {}) => Alone(Append(s, e), D)
<1> DEFINE t == Append(s, e)
<1>1. /\ t \in Seq(S) /\ Len(s) \in Nat /\ Len(t) = Len(s) + 1
      /\ DOMAIN s = 1 .. Len(s) /\ DOMAIN t = 1 .. (Len(s) + 1) /\ t[Len(s) + 1] = e
      /\ \A i \in DOMAIN s : t[i] = s[i]
  OBVIOUS
<1> HIDE DEF t
<1>2. \A i \in DOMAIN t : i \in DOMAIN s \/ i = Len(s) + 1
  BY <1>1
<1>3. Len(s) + 1 \in DOMAIN t /\ \A i \in DOMAIN s : i \in DOMAIN t
  BY <1>1
<1>4. ToSet(t) = ToSet(s) \cup {e}
  BY <1>1, <1>2, <1>3 DEF ToSet
<1>5. Once(s) /\ (e \in Calls => e \notin ToSet(s)) => Once(t)
  BY <1>1, <1>2 DEF ToSet, Once
<1>6. \A D : Alone(s, D) /\ (e \in D => ToSet(s) \cap D = {}) => Alone(t, D)
  BY <1>1, <1>2 DEF ToSet, Alone
<1> QED BY <1>1, <1>4, <1>5, <1>6 DEF t

\* An empty one holds nothing.
LEMMA NothingIn ==
  /\ ToSet(<<>>) = {} /\ Once(<<>>) /\ \A D : Alone(<<>>, D)
  /\ \A S : <<>> \in Seq(S) /\ Len(<<>>) = 0
<1>1. DOMAIN <<>> = {}
  OBVIOUS
<1> QED BY <1>1 DEF ToSet, Once, Alone

\* An answer is for those of S that wait.
LEMMA AnsweredIs ==
  ASSUME answer \in [Calls -> Replies \cup {None}], NEW S, NEW a \in Promise!Answers
  PROVE  /\ Answered(S, a) \in [Calls -> Replies \cup {None}]
         /\ \A c \in Calls :
              /\ c \notin S => Answered(S, a)[c] = answer[c]
              /\ c \in S /\ answer[c] = "waiting" => Answered(S, a)[c] = a
              /\ answer[c] # "waiting" => Answered(S, a)[c] = answer[c]
              /\ Sent(c) <=> Answered(S, a)[c] \notin {None, "asking"}
<1>1. a \in Replies /\ a # "asking" /\ a # "waiting"
  BY DEF Promise!Answers, Replies
<1>2. a # None
  BY <1>1, Tokens
<1> QED BY <1>1, <1>2, Tokens DEF Answered, Sent, Replies

\* What a step keeps, and what it is to who sends a command.
Kept == QueuedOK' /\ PendingOK' /\ TellsApart'
Promised == [Promise!Next]_(Promise!vars)
SameWires == UNCHANGED <<wire, back, misled>>
SameTraffic ==
  UNCHANGED <<backend, answer, queue, pending, delivered, confirmed>> /\ SameWires
CutOff == wire' = <<>> /\ back' = <<>> /\ misled' = FALSE
SameEffects == UNCHANGED <<delivered, confirmed>>

\* The parts of the state have their types.
LEMMA CommandParts ==
  ASSUME CommandInv
  PROVE  /\ answer \in [Calls -> Replies \cup {None}] /\ queue \in Seq(Calls \cup {State})
         /\ pending \in Calls \cup {None} /\ delivered \subseteq Calls /\ confirmed \subseteq Calls
         /\ wire \in Seq(Calls \cup {State}) /\ back \in Seq(Messages)
         /\ backend \in {"librespot", "soloist"} /\ QueuedOK /\ PendingOK
         /\ misled \in BOOLEAN /\ OnTheWire /\ (~misled => InFlightOK)
  BY DEF CommandInv, CommandTypeOK, SpotifyTypeOK, TellsApart

\* A step that nobody who sends commands is concerned with.
LEMMA QuietStep ==
  ASSUME CommandInv, SameTraffic, at # "session" \/ at' = at
  PROVE  Kept /\ Promised
<1>1. Kept
  BY CommandParts DEF SameTraffic, SameWires, Kept, QueuedOK, PendingOK, TellsApart, OnTheWire,
                      InFlightOK, Sent
<1>2. UNCHANGED Promise!vars
  BY DEF SameTraffic, Promise!vars
<1> QED BY <1>1, <1>2 DEF Promised

\* What an answer says of those that get it; and that it comes with the event of the one.
Fitting(S, a) ==
  \A c \in Calls : c \in S /\ answer[c] = "waiting" =>
    /\ a = "ok" => c \in confirmed' \/ misled'
    /\ a = "refused" => c \in delivered' \/ misled'
    /\ a = "undelivered" => c \notin delivered'
    /\ a = "disconnected" /\ backend = "soloist" => c \notin delivered'
Joins(S, old, new) == \E c \in Calls : S = {c} /\ answer[c] = "waiting" /\ new = old \cup S

\* Answers given are an answer of the promise, if they fit.
LEMMA AnswersArePromised ==
  ASSUME CommandInv, NEW S, NEW a \in Promise!Answers, answer' = Answered(S, a), Fitting(S, a),
         UNCHANGED delivered \/ Joins(S, delivered, delivered'),
         confirmed \subseteq confirmed', confirmed' \subseteq confirmed \cup delivered'
  PROVE  Promised
<1> DEFINE T == {c \in Calls : c \in S /\ answer[c] = "waiting"}
           published == [c \in Calls |-> IF answer[c] = "asking" THEN None ELSE answer[c]]
           then == [c \in Calls |-> IF answer'[c] = "asking" THEN None ELSE answer'[c]]
<1>1. answer \in [Calls -> Replies \cup {None}] /\ delivered \subseteq Calls
  BY CommandParts
<1>2. a # "asking"
  BY DEF Promise!Answers
<1>3. then = [c \in Calls |-> IF c \in T THEN a ELSE published[c]]
  BY <1>1, <1>2, Tokens DEF Answered, Replies
<1>4. \A c \in T : published[c] = "waiting"
  OBVIOUS
<1>a. \A old, new : Joins(S, old, new) => S = T /\ new = old \cup T
  BY DEF Joins
<1>5. delivered' \in {delivered, delivered \cup T}
  BY <1>a
<1>6. \E U \in SUBSET delivered' : confirmed' = confirmed \cup U
  <2> WITNESS confirmed' \cap delivered' \in SUBSET delivered'
  <2> QED OBVIOUS
<1>7. T \in SUBSET Calls
  OBVIOUS
<1>8. \A c \in T : CASE a = "ok" -> c \in confirmed' \/ ~(~misled')
                     [] a = "refused" -> c \in delivered' \/ ~(~misled')
                     [] a = "undelivered" -> c \notin delivered'
                     [] a = "disconnected" -> (backend = "soloist" => c \notin delivered')
                     [] a = "unsure" -> TRUE
  BY DEF Fitting, Promise!Answers
<1> HIDE DEF T
<1>9. Promise!Answer(T, a)
  BY <1>3, <1>4, <1>5, <1>6, <1>8 DEF Promise!Answer, Promise!Fits
<1> QED BY <1>7, <1>9 DEF Promised, Promise!Next

\* The queue fails while there is no session.
LEMMA QueueFails ==
  ASSUME CommandInv, FailQueued, UNCHANGED <<backend, pending>>, SameEffects, SameWires,
         at # "session"
  PROVE  Kept /\ Promised
<1> DEFINE S == ToSet(queue)
<1>1. answer' = Answered(S, "disconnected") /\ queue' = <<>>
  BY DEF FailQueued
<1>2. \A c \in Calls : Sent(c) <=> Sent(c)'
  BY <1>1, CommandParts, AnsweredIs DEF Promise!Answers, Sent
<1>3. pending = None /\ wire = <<>> /\ back = <<>> /\ ~misled
  BY CommandParts DEF PendingOK, OnTheWire
<1>4. QueuedOK' /\ PendingOK'
  BY <1>1, <1>2, <1>3, CommandParts, NothingIn DEF SameEffects, QueuedOK, PendingOK
<1>5. TellsApart'
  BY <1>3, NothingIn DEF SameWires, TellsApart, OnTheWire, InFlightOK
<1>6. \A c \in Calls : c \in S => c \notin delivered
  BY CommandParts DEF QueuedOK
<1>7. Promised
  <2> HIDE DEF S
  <2>1. "disconnected" \in Promise!Answers
    BY DEF Promise!Answers
  <2>2. Fitting(S, "disconnected")
    BY <1>6 DEF Fitting, SameEffects
  <2> QED BY <1>1, <2>1, <2>2, AnswersArePromised DEF SameEffects
<1> QED BY <1>4, <1>5, <1>7 DEF Kept

\* The pending command fails, and the wires are cut or there are none.
LEMMA PendingFails ==
  ASSUME CommandInv, NEW a \in {"unsure", "disconnected"}, a = "disconnected" => backend = "librespot",
         answer' = Answered({pending}, a), pending' = None,
         UNCHANGED <<backend, queue>>, SameEffects,
         CutOff \/ (backend = "librespot" /\ SameWires)
  PROVE  Kept /\ Promised
<1>0. a \in Promise!Answers
  BY DEF Promise!Answers
<1>1. \A c \in Calls : Sent(c) <=> Sent(c)'
  BY <1>0, CommandParts, AnsweredIs DEF Sent
<1>2. wire' = <<>> /\ back' = <<>> /\ ~misled'
  BY CommandParts DEF OnTheWire, SameWires, CutOff
<1>3. QueuedOK'
  BY <1>1, CommandParts, Tokens DEF QueuedOK, SameEffects
<1>4. PendingOK'
  BY <1>1, CommandParts DEF PendingOK, SameEffects
<1>5. TellsApart'
  BY <1>2, NothingIn DEF TellsApart, OnTheWire, InFlightOK
<1>6. Promised
  <2>1. Fitting({pending}, a)
    BY DEF Fitting
  <2> QED BY <1>0, <2>1, AnswersArePromised DEF SameEffects
<1> QED BY <1>3, <1>4, <1>5, <1>6 DEF Kept

\* The head of the queue is answered; it may have gone out with the connection.
LEMMA HeadAnswered ==
  ASSUME CommandInv, NEW c \in Calls, queue # <<>>, c = Head(queue), queue' = Tail(queue),
         pending = None, NEW a \in {"undelivered", "disconnected", "unsure"},
         answer' = Answered({c}, a), UNCHANGED <<backend, pending, confirmed>>,
         \/ UNCHANGED delivered
         \/ /\ a = "unsure" \/ (a = "disconnected" /\ backend = "librespot")
            /\ answer[c] = "waiting" /\ delivered' = delivered \cup {c},
         CutOff \/ (SameWires /\ at' = at)
  PROVE  Kept /\ Promised
<1>0. a \in Promise!Answers
  BY DEF Promise!Answers
<1>1. \A d \in Calls : (Sent(d) <=> Sent(d)') /\ (d # c => answer'[d] = answer[d])
  BY <1>0, CommandParts, AnsweredIs DEF Sent
<1>2. /\ c \in ToSet(queue) /\ c \notin ToSet(queue') /\ ToSet(queue') \subseteq ToSet(queue)
      /\ Once(queue')
  BY CommandParts, HeadLeaves DEF QueuedOK
<1>3. Sent(c) /\ c \notin delivered /\ c \notin ToSet(wire)
  BY <1>2, CommandParts DEF QueuedOK, OnTheWire
<1>4. QueuedOK'
  BY <1>1, <1>2, CommandParts DEF QueuedOK
<1>5. PendingOK'
  BY <1>1, <1>3, CommandParts DEF PendingOK
<1>6. TellsApart'
  <2>1. CASE CutOff
    BY <2>1, NothingIn DEF TellsApart, OnTheWire, InFlightOK, CutOff
  <2>2. CASE SameWires /\ at' = at
    <3>1. OnTheWire'
      BY <1>1, <1>2, <1>3, <2>2, CommandParts DEF OnTheWire, SameWires
    <3>2. ASSUME ~misled' PROVE InFlightOK'
      <4>1. InFlightOK
        BY <2>2, <3>2, CommandParts DEF SameWires
      <4>2. \A d \in Calls : d \notin ToSet(wire)
        BY <4>1, Tokens DEF InFlightOK
      <4>3. \A m \in Results : m \notin ToSet(back)
        BY <4>1, CommandParts, Tokens DEF InFlightOK
      <4> QED BY <2>2, <4>1, <4>2, <4>3 DEF InFlightOK, SameWires
    <3> QED BY <3>1, <3>2 DEF TellsApart
  <2> QED BY <2>1, <2>2
<1>7. Promised
  <2>1. Fitting({c}, a)
    BY <1>3 DEF Fitting
  <2>2. UNCHANGED delivered \/ Joins({c}, delivered, delivered')
    BY DEF Joins
  <2> QED BY <1>0, <2>1, <2>2, AnswersArePromised
<1> QED BY <1>4, <1>5, <1>6, <1>7 DEF Kept

\* The head of the queue goes to the player that is built in.
LEMMA DispatchOK ==
  ASSUME CommandInv, backend = "librespot", backend' = backend, SameWires,
         NEW c \in Calls, Dispatch(c)
  PROVE  Kept /\ Promised
<1>0. /\ at = "session" /\ at' = at /\ queue # <<>> /\ c = Head(queue) /\ pending = None
      /\ queue' = Tail(queue) /\ answer[c] = "waiting" /\ pending' = c
      /\ delivered' = delivered \cup {c} /\ UNCHANGED <<answer, confirmed>>
  BY DEF Dispatch, Fetch, Deliverable
<1>1. /\ c \in ToSet(queue) /\ c \notin ToSet(queue') /\ ToSet(queue') \subseteq ToSet(queue)
      /\ Once(queue')
  BY <1>0, CommandParts, HeadLeaves DEF QueuedOK
<1>2. Sent(c) /\ c \notin delivered
  BY <1>1, CommandParts DEF QueuedOK
<1>3. QueuedOK'
  BY <1>0, <1>1, CommandParts DEF QueuedOK, Sent
<1>4. PendingOK'
  BY <1>0, <1>2, CommandParts DEF PendingOK, Sent
<1>5. TellsApart'
  BY CommandParts, NothingIn DEF TellsApart, OnTheWire, InFlightOK, SameWires
<1>6. Promise!Deliver(c)
  BY <1>0, <1>2 DEF Promise!Deliver, Promise!MayCome
<1> QED BY <1>3, <1>4, <1>5, <1>6 DEF Kept, Promised, Promise!Next

\* An event of the built-in player: it confirms the pending command, or is none of it.
LEMMA PlayerEventOK ==
  ASSUME CommandInv, backend = "librespot", backend' = backend, SameWires,
         NEW event, PlayerEvent(event)
  PROVE  Kept /\ Promised
<1> DEFINE witnessed == {c \in Waiting \cap delivered : Confirms(event, Wants[c])}
           confirms == pending # None /\ Confirms(event, Wants[pending])
<1>0. /\ at = "session" /\ UNCHANGED <<at, queue, delivered>>
      /\ answer' = IF confirms THEN Answered({pending}, "ok") ELSE answer
      /\ confirmed' = confirmed \cup witnessed
      /\ pending' = IF confirms THEN None ELSE pending
  BY DEF PlayerEvent
<1>1. witnessed \in SUBSET Calls /\ witnessed \subseteq delivered
  BY DEF Waiting
<1>2. TellsApart'
  BY CommandParts, NothingIn DEF TellsApart, OnTheWire, InFlightOK, SameWires
<1>3. CASE ~confirms
  <2>1. UNCHANGED <<answer, pending>>
    BY <1>0, <1>3
  <2>2. QueuedOK' /\ PendingOK'
    BY <1>0, <2>1, CommandParts DEF QueuedOK, PendingOK, Sent
  <2> HIDE DEF witnessed, confirms
  <2>3. Promise!Confirm(witnessed)
    BY <1>0, <1>1, <2>1 DEF Promise!Confirm
  <2> QED BY <1>1, <1>2, <2>2, <2>3 DEF Kept, Promised, Promise!Next
<1>4. CASE confirms
  <2>1. pending \in Calls /\ pending \in delivered /\ answer[pending] \in {"waiting", "unsure"}
    BY <1>4, CommandParts DEF PendingOK
  <2>2. answer[pending] = "waiting" => pending \in witnessed
    BY <1>4, <2>1 DEF Waiting
  <2>3. answer' = Answered({pending}, "ok") /\ pending' = None
    BY <1>0, <1>4
  <2> HIDE DEF confirms, witnessed
  <2>4. "ok" \in Promise!Answers
    BY DEF Promise!Answers
  <2>5. \A c \in Calls : Sent(c) <=> Sent(c)'
    BY <2>3, <2>4, CommandParts, AnsweredIs DEF Sent
  <2>6. QueuedOK'
    BY <1>0, <2>3, <2>5, CommandParts, Tokens DEF QueuedOK
  <2>7. PendingOK'
    BY <1>0, <2>3, <2>5, CommandParts DEF PendingOK
  <2>8. Fitting({pending}, "ok")
    BY <1>0, <2>2 DEF Fitting
  <2>9. Promised
    BY <1>0, <1>1, <2>3, <2>4, <2>8, AnswersArePromised
  <2> QED BY <1>2, <2>6, <2>7, <2>9 DEF Kept
<1> QED BY <1>3, <1>4

\* A command goes to Soloist: it is on its way.
LEMMA SendCommandOK ==
  ASSUME CommandInv, backend = "soloist", UNCHANGED backend, NEW c \in Calls, SendCommand(c)
  PROVE  Kept /\ Promised
<1>0. /\ at = "session" /\ at' = at /\ queue # <<>> /\ c = Head(queue) /\ pending = None
      /\ queue' = Tail(queue) /\ answer[c] = "waiting" /\ pending' = c
      /\ wire' = Append(wire, c) /\ UNCHANGED <<answer, delivered, confirmed, back, misled>>
  BY DEF SendCommand, Fetch, Deliverable, effects
<1>1. /\ c \in ToSet(queue) /\ c \notin ToSet(queue') /\ ToSet(queue') \subseteq ToSet(queue)
      /\ Once(queue')
  BY <1>0, CommandParts, HeadLeaves DEF QueuedOK
<1>2. Sent(c) /\ c \notin delivered
  BY <1>1, CommandParts DEF QueuedOK
<1>3. QueuedOK'
  BY <1>0, <1>1, CommandParts DEF QueuedOK, Sent
<1>4. PendingOK'
  BY <1>0, <1>2, CommandParts DEF PendingOK, Sent
<1>5. c \notin ToSet(wire)
  BY <1>1, CommandParts DEF OnTheWire
<1>6. ToSet(wire') = ToSet(wire) \cup {c} /\ Once(wire')
  BY <1>0, <1>5, CommandParts, LastJoins DEF OnTheWire
<1>7. OnTheWire'
  BY <1>0, <1>1, <1>2, <1>6, CommandParts DEF OnTheWire, Coming
<1>8. ASSUME ~misled' PROVE InFlightOK'
  <2>1. InFlightOK
    BY <1>0, <1>8, CommandParts
  <2>2. \A d \in Calls : d \notin ToSet(wire)
    BY <1>0, <2>1, Tokens DEF InFlightOK
  <2>3. \A m \in Results : m \notin ToSet(back)
    BY <1>0, <2>1, CommandParts, Tokens DEF InFlightOK
  <2>4. Alone(wire', Calls)
    BY <1>0, <2>1, <2>2, CommandParts, LastJoins DEF InFlightOK
  <2> QED BY <1>0, <1>2, <1>6, <2>1, <2>2, <2>3, <2>4 DEF InFlightOK
<1>9. UNCHANGED Promise!vars
  BY <1>0 DEF Promise!vars
<1> QED BY <1>3, <1>4, <1>7, <1>8, <1>9 DEF Kept, TellsApart, Promised

\* The request for the state of the player is nobody's command.
LEMMA SendStateOK ==
  ASSUME CommandInv, backend = "soloist", UNCHANGED backend, SendState
  PROVE  Kept /\ Promised
<1>0. /\ at = "session" /\ at' = at /\ queue # <<>> /\ pending = None
      /\ queue' = Tail(queue) /\ (wire' = wire \/ wire' = Append(wire, State))
      /\ UNCHANGED <<answer, pending, delivered, confirmed, back, misled>>
  BY DEF SendState, Fetch, effects
<1>1. ToSet(queue') \subseteq ToSet(queue) /\ Once(queue')
  BY <1>0, CommandParts, HeadLeaves DEF QueuedOK
<1>2. QueuedOK'
  BY <1>0, <1>1, CommandParts DEF QueuedOK, Sent
<1>3. PendingOK'
  BY <1>0, CommandParts DEF PendingOK, Sent
<1>4. /\ ToSet(wire') \subseteq ToSet(wire) \cup {State} /\ Once(wire')
      /\ Alone(wire, Calls) => Alone(wire', Calls)
  <2>1. Once(wire) /\ wire \in Seq(Calls \cup {State}) /\ State \notin Calls
    BY CommandParts, Tokens DEF OnTheWire
  <2>2. /\ ToSet(Append(wire, State)) = ToSet(wire) \cup {State}
        /\ Once(Append(wire, State))
        /\ Alone(wire, Calls) => Alone(Append(wire, State), Calls)
    BY <2>1, LastJoins
  <2>3. CASE wire' = wire
    BY <2>1, <2>3
  <2>4. CASE wire' = Append(wire, State)
    BY <2>2, <2>4
  <2> QED BY <1>0, <2>3, <2>4
<1>5. TellsApart'
  <2>1. OnTheWire'
    BY <1>0, <1>1, <1>4, CommandParts, Tokens DEF OnTheWire
  <2>2. ~misled' => InFlightOK'
    BY <1>0, <1>4, CommandParts, Tokens DEF InFlightOK
  <2> QED BY <2>1, <2>2 DEF TellsApart
<1>6. UNCHANGED Promise!vars
  BY <1>0 DEF Promise!vars
<1> QED BY <1>2, <1>3, <1>5, <1>6 DEF Kept, Promised

\* What is said that answers nobody changes nothing about what is on its way.
LEMMA SaidToNobody ==
  ASSUME CommandInv, at = "session", NEW m \in Messages, m \notin Results, back' = Append(back, m),
         UNCHANGED <<at, backend, answer, queue, pending, delivered, confirmed, misled>>,
         wire' = wire \/ (wire # <<>> /\ wire' = Tail(wire)),
         backend = "soloist"
  PROVE  Kept /\ Promised
<1>1. /\ ToSet(wire') \subseteq ToSet(wire) /\ Once(wire')
      /\ Alone(wire, Calls) => Alone(wire', Calls)
  <2>1. CASE wire' = wire
    BY <2>1, CommandParts DEF OnTheWire
  <2>2. CASE wire # <<>> /\ wire' = Tail(wire)
    BY <2>2, CommandParts, HeadLeaves DEF OnTheWire
  <2> QED BY <2>1, <2>2
<1>2. /\ ToSet(back') = ToSet(back) \cup {m}
      /\ Alone(back, Results) => Alone(back', Results)
  BY CommandParts, LastJoins
<1>3. QueuedOK' /\ PendingOK'
  BY CommandParts DEF QueuedOK, PendingOK, Sent
<1>4. OnTheWire'
  BY <1>1, CommandParts DEF OnTheWire
<1>5. ~misled' => InFlightOK'
  BY <1>1, <1>2, CommandParts DEF InFlightOK
<1>6. UNCHANGED Promise!vars
  BY DEF Promise!vars
<1> QED BY <1>3, <1>4, <1>5, <1>6 DEF Kept, TellsApart, Promised

\* An error about something else is a message, and no answer.
LEMMA StrayIs == Stray \in Messages /\ Stray \notin Results
  BY DEF Stray, Message, Messages, Results, Kinds

\* Soloist takes the command that is on its way, and answers it.
LEMMA PlayerHandlesOK ==
  ASSUME CommandInv, backend = "soloist", UNCHANGED backend, PlayerHandles
  PROVE  Kept /\ Promised
<1> DEFINE c == Head(wire)
<1>0. /\ at = "session" /\ at' = at /\ wire # <<>> /\ wire' = Tail(wire)
      /\ UNCHANGED <<answer, queue, pending, misled>>
  BY DEF PlayerHandles, commands
<1>1. /\ c \in Calls \cup {State} /\ c \in ToSet(wire) /\ ToSet(wire') \subseteq ToSet(wire)
      /\ Once(wire') /\ (c \in Calls => c \notin ToSet(wire'))
      /\ Alone(wire, Calls) => Alone(wire', Calls) /\ (c \in Calls => ToSet(wire') \cap Calls = {})
  BY <1>0, CommandParts, HeadLeaves DEF OnTheWire
<1>2. CASE c = State
  <2>1. PICK m \in {Message("playback", None, TRUE), Stray} :
          back' = Append(back, m) /\ SameEffects
    BY <1>2 DEF PlayerHandles, effects, SameEffects
  <2>2. m \in Messages /\ m \notin Results
    <3>1. /\ Message("playback", None, TRUE) \in Messages
          /\ Message("playback", None, TRUE) \notin Results
      BY DEF Message, Messages, Results, Kinds
    <3> QED BY <2>1, <3>1, StrayIs
  <2> QED BY <1>0, <2>1, <2>2, SaidToNobody DEF SameEffects
<1>3. CASE c # State
  <2> DEFINE done == Message("command_result", Name[c], TRUE)
  <2>1. c \in Calls /\ c \notin delivered /\ c \notin ToSet(queue) /\ answer[c] \in Coming
    BY <1>1, <1>3, CommandParts DEF OnTheWire
  <2>2. /\ delivered' = delivered \cup {c}
        /\ \/ confirmed' = confirmed \cup {c} /\ back' = Append(back, done)
           \/ confirmed' = confirmed /\ back' = Append(back, Rejection)
    BY <1>3 DEF PlayerHandles
  <2>3. done \in Messages /\ Rejection \in Messages /\ Rejection.kind # "command_result"
    BY <2>1 DEF Message, Messages, Kinds, Rejection
  <2> HIDE DEF done
  <2>4. PICK m \in {done, Rejection} :
          /\ back' = Append(back, m)
          /\ m.kind = "command_result" => c \in confirmed'
    BY <2>2, <2>3
  <2>5. QueuedOK'
    BY <1>0, <2>1, <2>2, CommandParts DEF QueuedOK, Sent
  <2>6. PendingOK'
    BY <1>0, <2>1, <2>2, CommandParts, Tokens DEF PendingOK, Sent, Replies, Coming
  <2>7. OnTheWire'
    BY <1>0, <1>1, <2>1, <2>2, CommandParts DEF OnTheWire
  <2>8. ASSUME ~misled PROVE InFlightOK' /\ answer[c] \in {"waiting", "unsure"}
    <3>1. InFlightOK
      BY <2>8, CommandParts
    <3>2. c = pending
      BY <1>1, <2>1, <3>1 DEF InFlightOK
    <3>3. \A m1 \in Results : m1 \notin ToSet(back)
      BY <2>1, <3>1, <3>2 DEF InFlightOK
    <3>4. ToSet(back') = ToSet(back) \cup {m} /\ Alone(back', Results)
      <4>1. ToSet(back) \cap Results = {} /\ m \in Messages
        BY <2>3, <3>3
      <4> QED BY <2>4, <3>1, <4>1, CommandParts, LastJoins DEF InFlightOK
    <3>5. ToSet(wire') \cap Calls = {} /\ Alone(wire', Calls)
      BY <1>1, <2>1, <3>1 DEF InFlightOK
    <3>6. InFlightOK'
      BY <1>0, <2>1, <2>2, <2>4, <3>2, <3>3, <3>4, <3>5 DEF InFlightOK
    <3>7. pending # None
      BY <2>1, <3>2, Tokens
    <3> QED BY <3>2, <3>6, <3>7, CommandParts DEF PendingOK
  <2>9. Promise!Deliver(c)
    BY <1>0, <2>1, <2>2, <2>8, CommandParts DEF Promise!Deliver, Promise!MayCome, Coming
  <2> QED BY <1>0, <2>1, <2>5, <2>6, <2>7, <2>8, <2>9 DEF Kept, TellsApart, Promised, Promise!Next
<1> QED BY <1>2, <1>3

\* What Soloist reports on its own answers nobody.
LEMMA PlayerReportsOK ==
  ASSUME CommandInv, backend = "soloist", UNCHANGED backend, PlayerReports
  PROVE  Kept /\ Promised
<1>1. PICK m \in {Stray} \cup {Message("auth_state", None, on) : on \in BOOLEAN} :
        back' = Append(back, m)
  BY DEF PlayerReports
<1>2. m \in Messages /\ m \notin Results
  BY StrayIs DEF Message, Messages, Results, Kinds
<1>3. /\ at' = at /\ at = "session"
      /\ UNCHANGED <<answer, queue, pending, delivered, confirmed, wire, misled>>
  BY DEF PlayerReports, commands, effects
<1> QED BY <1>1, <1>2, <1>3, SaidToNobody

\* A report is read; the state may be asked for, by nobody.
LEMMA ReadReportOK ==
  ASSUME CommandInv, backend = "soloist", UNCHANGED backend, ReadReport
  PROVE  Kept /\ Promised
<1>0. /\ at = "session" /\ at' = at /\ back # <<>> /\ back' = Tail(back)
      /\ queue' = queue \/ queue' = Append(queue, State)
      /\ UNCHANGED <<answer, pending, delivered, confirmed, wire, misled>>
  BY DEF ReadReport, effects
<1>1. /\ ToSet(queue') \subseteq ToSet(queue) \cup {State} /\ Once(queue')
  <2>1. /\ ToSet(Append(queue, State)) = ToSet(queue) \cup {State}
        /\ Once(Append(queue, State))
    BY CommandParts, LastJoins, Tokens DEF QueuedOK
  <2>2. CASE queue' = queue
    BY <2>2, CommandParts DEF QueuedOK
  <2>3. CASE queue' = Append(queue, State)
    BY <2>1, <2>3
  <2> QED BY <1>0, <2>2, <2>3
<1>2. ToSet(back') \subseteq ToSet(back) /\ (Alone(back, Results) => Alone(back', Results))
  BY <1>0, CommandParts, HeadLeaves
<1>3. QueuedOK' /\ PendingOK'
  BY <1>0, <1>1, CommandParts, Tokens DEF QueuedOK, PendingOK, Sent
<1>4. OnTheWire'
  BY <1>0, <1>1, CommandParts, Tokens DEF OnTheWire
<1>5. ~misled' => InFlightOK'
  BY <1>0, <1>2, CommandParts DEF InFlightOK
<1>6. UNCHANGED Promise!vars
  BY <1>0 DEF Promise!vars
<1> QED BY <1>3, <1>4, <1>5, <1>6 DEF Kept, TellsApart, Promised

\* The answer of Soloist is read: the one command on its way has it, unless it is an error
\* about something else.
LEMMA AnswerIsRead ==
  ASSUME CommandInv, backend = "soloist", UNCHANGED <<backend, at, queue, wire>>, SameEffects,
         at = "session", back # <<>>, back' = Tail(back),
         NEW a \in {"ok", "refused"}, Head(back).kind = (IF a = "ok" THEN "command_result" ELSE "error"),
         answer' = Answered({pending}, a), pending' = None,
         ~misled' => ~misled /\ (pending = None \/ Head(back) \in Results), misled => misled'
  PROVE  Kept /\ Promised
<1> DEFINE m == Head(back)
<1>0. a \in Promise!Answers
  BY DEF Promise!Answers
<1>1. /\ m \in ToSet(back) /\ ToSet(back') \subseteq ToSet(back)
      /\ Alone(back, Results) => Alone(back', Results)
      /\ Alone(back, Results) /\ m \in Results => ToSet(back') \cap Results = {}
  BY CommandParts, HeadLeaves
<1>2. /\ \A c \in Calls : Sent(c) <=> Sent(c)'
      /\ \A c \in Calls : answer'[c] = answer[c] \/ answer'[c] = a
  BY <1>0, CommandParts, AnsweredIs DEF Sent
<1>3. QueuedOK'
  BY <1>2, CommandParts, Tokens DEF QueuedOK, SameEffects
<1>4. PendingOK'
  BY <1>2, CommandParts DEF PendingOK, SameEffects
<1>5. OnTheWire'
  BY <1>2, CommandParts DEF OnTheWire, SameEffects, Coming
<1>6. ASSUME ~misled' PROVE InFlightOK' /\ Fitting({pending}, a)
  <2>1. InFlightOK /\ (pending = None \/ m \in Results)
    BY <1>6, CommandParts
  <2>2. m \in Results => /\ pending \in delivered
                         /\ m.kind = "command_result" => pending \in confirmed
    BY <1>1, <2>1 DEF InFlightOK
  <2>3. \A c \in Calls : c \notin ToSet(wire)
    BY <2>1, <2>2, Tokens DEF InFlightOK
  <2>4. ToSet(back') \cap Results = {}
    <3>1. CASE m \in Results
      BY <1>1, <2>1, <3>1 DEF InFlightOK
    <3>2. CASE pending = None
      BY <1>1, <2>1, <3>2, CommandParts, Tokens DEF InFlightOK
    <3> QED BY <2>1, <3>1, <3>2
  <2>5. Fitting({pending}, a)
    BY <2>1, <2>2, Tokens DEF Fitting, SameEffects
  <2>6. InFlightOK'
    BY <1>1, <2>1, <2>3, <2>4 DEF InFlightOK
  <2> QED BY <2>5, <2>6
<1>7. Fitting({pending}, a)
  BY <1>6 DEF Fitting
<1>8. Promised
  BY <1>0, <1>7, AnswersArePromised DEF SameEffects
<1> QED BY <1>3, <1>4, <1>5, <1>6, <1>8 DEF Kept, TellsApart

\* What those who send commands do.
LEMMA CommandersOK ==
  ASSUME CommandInv, Callers, SameWires
  PROVE  Kept /\ Promised
<1>0. /\ answer \in [Calls -> Replies \cup {None}] /\ queue \in Seq(Calls \cup {State})
      /\ backend' = backend /\ at' = at /\ pending' = pending /\ SameEffects
  BY CommandParts DEF Callers, CheckStatus, Send, Expire, GiveUp, Abandoned, StopProvider,
                      effects, commands, SameEffects
<1>1. ASSUME NEW c \in Calls, NEW r \in Replies, answer[c] \in {None, "asking"},
             r \in {"asking", "undelivered", "disconnected"},
             answer' = [answer EXCEPT ![c] = r], queue' = queue
      PROVE  Kept /\ Promised
  <2>1. c \notin ToSet(queue) /\ c # pending /\ c \notin delivered /\ c \notin ToSet(wire)
    BY <1>1, CommandParts, Tokens DEF QueuedOK, PendingOK, OnTheWire, Coming, Sent, Replies
  <2>2. \A d \in Calls : (d # c => (Sent(d) <=> Sent(d)') /\ answer'[d] = answer[d])
    BY <1>0, <1>1 DEF Sent
  <2>3. QueuedOK'
    BY <1>0, <1>1, <2>1, <2>2, CommandParts DEF QueuedOK, SameEffects
  <2>4. PendingOK'
    BY <1>0, <2>1, <2>2, CommandParts DEF PendingOK, SameEffects
  <2>5. TellsApart'
    BY <1>0, <1>1, <2>1, <2>2, CommandParts DEF TellsApart, OnTheWire, InFlightOK, SameWires, SameEffects
  <2>6. CASE r = "asking"
    <3>1. UNCHANGED Promise!vars
      BY <1>0, <1>1, <2>6, Tokens DEF Promise!vars, SameEffects, Replies
    <3> QED BY <2>3, <2>4, <2>5, <3>1 DEF Kept, Promised
  <2>7. CASE r \in {"undelivered", "disconnected"}
    <3>1. Promise!Decline(c)
      BY <1>0, <1>1, <2>7, Tokens DEF Promise!Decline, SameEffects, Replies
    <3> QED BY <2>3, <2>4, <2>5, <3>1 DEF Kept, Promised, Promise!Next
  <2> QED BY <1>1, <2>6, <2>7
<1>2. ASSUME NEW c \in Calls, answer[c] = "asking", answer' = [answer EXCEPT ![c] = "waiting"],
             queue' = Append(queue, c)
      PROVE  Kept /\ Promised
  <2>1. c \notin ToSet(queue) /\ c # pending /\ c \notin delivered /\ c \notin ToSet(wire)
    BY <1>2, CommandParts, Tokens DEF QueuedOK, PendingOK, OnTheWire, Coming, Sent
  <2>2. \A d \in Calls : (Sent(d) => Sent(d)') /\ (d # c => answer'[d] = answer[d])
    BY <1>0, <1>2, Tokens DEF Sent, Replies
  <2>3. Sent(c)'
    BY <1>0, <1>2, Tokens DEF Sent, Replies
  <2>4. ToSet(queue') = ToSet(queue) \cup {c} /\ Once(queue')
    BY <1>2, <2>1, CommandParts, LastJoins DEF QueuedOK
  <2>5. QueuedOK'
    BY <1>0, <2>1, <2>2, <2>3, <2>4, CommandParts DEF QueuedOK, SameEffects
  <2>6. PendingOK'
    BY <1>0, <2>1, <2>2, CommandParts DEF PendingOK, SameEffects
  <2>7. TellsApart'
    BY <1>0, <2>1, <2>2, <2>4, CommandParts DEF TellsApart, OnTheWire, InFlightOK, SameWires, SameEffects
  <2>8. Promise!Ask(c)
    BY <1>0, <1>2, Tokens DEF Promise!Ask, SameEffects, Replies
  <2> QED BY <2>5, <2>6, <2>7, <2>8 DEF Kept, Promised, Promise!Next
<1>3. ASSUME NEW c \in Calls, answer[c] = "waiting", NEW a \in {"unsure", "disconnected"},
             a = "disconnected" => c \in ToSet(queue) /\ at = "done",
             answer' = [answer EXCEPT ![c] = a], queue' = queue
      PROVE  Kept /\ Promised
  <2>1. answer' = Answered({c}, a)
    BY <1>0, <1>3 DEF Answered
  <2>2. a \in Promise!Answers
    BY DEF Promise!Answers
  <2>3. \A d \in Calls : Sent(d) <=> Sent(d)'
    BY <2>1, <2>2, CommandParts, AnsweredIs DEF Sent
  <2>4. QueuedOK'
    BY <1>0, <1>3, <2>3, CommandParts DEF QueuedOK, SameEffects
  <2>5. a = "disconnected" => c # pending /\ c \notin delivered /\ c \notin ToSet(wire)
    BY <1>3, CommandParts DEF QueuedOK, OnTheWire
  <2>6. PendingOK'
    BY <1>0, <1>3, <2>3, <2>5, CommandParts DEF PendingOK, SameEffects
  <2>7. TellsApart'
    BY <1>0, <1>3, <2>5, CommandParts DEF TellsApart, OnTheWire, InFlightOK, SameWires, SameEffects, Coming
  <2>8. Fitting({c}, a)
    BY <1>0, <2>5 DEF Fitting, SameEffects
  <2>9. Promised
    BY <1>0, <2>1, <2>2, <2>8, AnswersArePromised DEF SameEffects
  <2> QED BY <2>4, <2>6, <2>7, <2>9 DEF Kept
<1>4. CASE UNCHANGED <<answer, queue>>
  <2>1. SameTraffic
    BY <1>0, <1>4 DEF SameTraffic, SameWires, SameEffects
  <2> QED BY <1>0, <2>1, QuietStep
<1>5. ASSUME NEW c \in Calls, CheckStatus(c) PROVE Kept /\ Promised
  <2>1. PICK r \in {"asking", "undelivered", "disconnected"} : answer' = [answer EXCEPT ![c] = r]
    BY <1>5 DEF CheckStatus, Declined
  <2> QED BY <1>1, <1>5, <2>1 DEF CheckStatus, Replies
<1>6. ASSUME NEW c \in Calls, Send(c) PROVE Kept /\ Promised
  <2>1. CASE Len(queue) < QueueLimit /\ at # "done"
    BY <1>2, <1>6, <2>1 DEF Send
  <2>2. CASE ~(Len(queue) < QueueLimit /\ at # "done")
    BY <1>1, <1>6, <2>2 DEF Send, Replies
  <2> QED BY <2>1, <2>2
<1>7. ASSUME NEW c \in Calls, GiveUp(c) PROVE Kept /\ Promised
  BY <1>3, <1>7 DEF GiveUp, Waiting
<1>8. ASSUME NEW c \in Calls, Abandoned(c) PROVE Kept /\ Promised
  BY <1>3, <1>8 DEF Abandoned, Waiting
<1>9. ASSUME NEW c \in Calls, Expire(c) PROVE Kept /\ Promised
  BY <1>4, <1>9 DEF Expire
<1>10. CASE StopProvider
  BY <1>4, <1>10 DEF StopProvider, commands
<1> QED BY <1>5, <1>6, <1>7, <1>8, <1>9, <1>10 DEF Callers

\* The queue fails with what is queued, or the pending command, or neither.
LEMMA LibrespotOK ==
  ASSUME CommandInv, backend = "librespot", backend' = backend, SameWires, ConnectSteps
  PROVE  Kept /\ Promised
<1>0. ~(at = "session") => pending = None
  BY CommandParts DEF PendingOK
<1>1. CASE SameTraffic /\ (at # "session" \/ at' = at)
  BY <1>1, QuietStep
<1>2. CASE Close \/ End \/ (\E refused \in BOOLEAN : OpenFails(refused))
  <2>1. FailQueued /\ pending' = pending /\ SameEffects /\ at # "session"
    BY <1>2 DEF Close, End, OpenFails, SameEffects, effects
  <2> QED BY <2>1, QueueFails DEF SameWires
<1>3. CASE LeaveSession
  <2>1. at = "shutting" /\ pending' = pending /\ SameEffects
    BY <1>3 DEF LeaveSession, SameEffects, effects
  <2>2. CASE FailQueued
    BY <2>1, <2>2, QueueFails DEF SameWires
  <2>3. CASE UNCHANGED <<answer, queue>>
    BY <2>1, <2>3, QuietStep DEF SameTraffic, SameEffects
  <2> QED BY <1>3, <2>2, <2>3 DEF LeaveSession, commands
<1>4. CASE TimeOut \/ \E reason \in {"stopped", "renamed", "selected", "ended", "lost"} : EndSession(reason)
  <2>1. PICK a \in {"unsure", "disconnected"} :
          answer' = Answered({pending}, a) /\ pending' = None /\ queue' = queue /\ SameEffects
    BY <1>4 DEF TimeOut, EndSession, FailPending, SameEffects, effects
  <2> QED BY <2>1, PendingFails DEF SameWires
<1>5. ASSUME NEW c \in Calls, DeclineUnpaired(c) \/ SkipCommand(c) \/ DispatchFails(c)
      PROVE  Kept /\ Promised
  <2>1. /\ queue # <<>> /\ c = Head(queue) /\ queue' = Tail(queue) /\ pending = None
        /\ pending' = pending /\ confirmed' = confirmed /\ at' = at
    BY <1>0, <1>5 DEF DeclineUnpaired, SkipCommand, DispatchFails, Fetch, effects
  <2>2. CASE DeclineUnpaired(c) \/ SkipCommand(c)
    <3>1. PICK a \in {"undelivered", "disconnected"} :
            answer' = Answered({c}, a) /\ delivered' = delivered
      BY <2>2 DEF DeclineUnpaired, SkipCommand, effects
    <3> QED BY <2>1, <3>1, HeadAnswered
  <2>3. CASE DispatchFails(c)
    <3>1. answer[c] = "waiting"
      BY <2>3 DEF DispatchFails, Deliverable
    <3>2. CASE answer' = Answered({c}, "undelivered") /\ UNCHANGED delivered
      BY <2>1, <3>2, HeadAnswered
    <3>3. CASE answer' = Answered({c}, "disconnected") /\ delivered' \in {delivered, delivered \cup {c}}
      BY <2>1, <3>1, <3>3, HeadAnswered
    <3> QED BY <2>3, <3>2, <3>3 DEF DispatchFails
  <2> QED BY <1>5, <2>2, <2>3
<1>6. ASSUME NEW c \in Calls, Dispatch(c) PROVE Kept /\ Promised
  BY <1>6, DispatchOK
<1>7. ASSUME NEW event \in Events, PlayerEvent(event) PROVE Kept /\ Promised
  BY <1>7, PlayerEventOK
<1>8. CASE Begin \/ Restart \/ Pause \/ CloseChannel
  BY <1>8, <1>1 DEF Begin, Restart, Pause, CloseChannel, SameTraffic, commands, effects
<1>9. CASE Choose \/ LeaveChoose \/ LeaveUnpaired \/ AbandonOpening \/ Opened
  BY <1>9, <1>1 DEF Choose, LeaveChoose, LeaveUnpaired, AbandonOpening, Leave, Opened,
                    SameTraffic, commands, effects
<1>10. CASE Retry \/ StopRetry
  BY <1>10, <1>1 DEF Retry, StopRetry, SameTraffic, commands, effects
<1>11. ASSUME NEW account \in Accounts, PairUnpaired(account) \/ PairOpening(account)
       PROVE  Kept /\ Promised
  BY <1>11, <1>1 DEF PairUnpaired, PairOpening, SameTraffic, commands, effects
<1> QED BY <1>2, <1>3, <1>4, <1>5, <1>6, <1>7, <1>8, <1>9, <1>10, <1>11 DEF ConnectSteps

\* The wires are cut with the session, and the pending command fails.
LEMMA DisconnectOK ==
  ASSUME CommandInv, backend' = backend, SameEffects, Disconnect
  PROVE  Kept /\ Promised
<1>1. answer' = Answered({pending}, "unsure") /\ pending' = None /\ queue' = queue /\ CutOff
  BY DEF Disconnect, FailPending, CutOff
<1> QED BY <1>1, PendingFails

\* What the supervisor of Soloist and its player do.
LEMMA SoloistOK ==
  ASSUME CommandInv, SoloistNext
  PROVE  Kept /\ Promised
<1>0. backend = "soloist" /\ backend' = backend
  BY DEF SoloistNext
<1>1. CASE SameTraffic /\ (at # "session" \/ at' = at)
  BY <1>1, QuietStep
<1>2. CASE Drain \/ SoloistEnd
  <2>1. FailQueued /\ pending' = pending /\ SameEffects /\ SameWires /\ at # "session"
    BY <1>2 DEF Drain, SoloistEnd, SameEffects, SameWires, effects, socket
  <2> QED BY <1>0, <2>1, QueueFails
<1>3. CASE CloseSession \/ LoseConnection \/ AckTimesOut
  BY <1>0, <1>3, DisconnectOK DEF CloseSession, LoseConnection, AckTimesOut, SameEffects, effects
<1>4. ASSUME NEW c \in Calls, SkipLate(c) PROVE Kept /\ Promised
  <2>1. /\ queue # <<>> /\ c = Head(queue) /\ queue' = Tail(queue) /\ pending = None
        /\ answer' = Answered({c}, "undelivered") /\ pending' = pending
        /\ SameEffects /\ SameWires /\ at' = at
    BY <1>4 DEF SkipLate, Fetch, effects, SameEffects, SameWires, socket
  <2> QED BY <1>0, <2>1, HeadAnswered DEF SameEffects
<1>5. ASSUME NEW c \in Calls, SendFails(c) PROVE Kept /\ Promised
  <2>1. /\ queue # <<>> /\ c = Head(queue) /\ queue' = Tail(queue) /\ pending = None
        /\ answer' = Answered({c}, "unsure") /\ pending' = pending /\ answer[c] = "waiting"
        /\ confirmed' = confirmed /\ CutOff
        /\ delivered' \in {delivered, delivered \cup {c}}
    BY <1>5 DEF SendFails, Fetch, Deliverable, CutOff
  <2> QED BY <1>0, <2>1, HeadAnswered
<1>6. ASSUME NEW c \in Calls, SendCommand(c) PROVE Kept /\ Promised
  BY <1>0, <1>6, SendCommandOK
<1>7. CASE SendState
  BY <1>0, <1>7, SendStateOK
<1>8. CASE ReadReport
  BY <1>0, <1>8, ReadReportOK
<1>9. CASE ReadResult
  <2>1. at = "session" /\ back # <<>> /\ Head(back).kind = "command_result" /\ SameEffects
    BY <1>9 DEF ReadResult, SameEffects, effects
  <2>2. CASE Disconnect
    BY <1>0, <2>1, <2>2, DisconnectOK
  <2>3. CASE ~Disconnect
    <3>1. /\ answer' = Answered({pending}, "ok") /\ pending' = None /\ back' = Tail(back)
          /\ UNCHANGED <<at, queue, wire, misled>>
      BY <1>9, <2>3 DEF ReadResult
    <3>2. Head(back) \in Results
      BY <2>1, CommandParts, HeadLeaves DEF Results
    <3> QED BY <1>0, <2>1, <3>1, <3>2, AnswerIsRead
  <2> QED BY <2>2, <2>3
<1>10. CASE ReadError
  <2>1. /\ at = "session" /\ back # <<>> /\ Head(back).kind = "error" /\ SameEffects
        /\ answer' = Answered({pending}, "refused") /\ pending' = None /\ back' = Tail(back)
        /\ UNCHANGED <<at, queue, wire>>
        /\ misled' = (misled \/ (pending # None /\ ~Head(back).on))
    BY <1>10 DEF ReadError, SameEffects, effects
  <2>2. Head(back).on => Head(back) \in Results
    BY <2>1, CommandParts, HeadLeaves DEF Results
  <2> QED BY <1>0, <2>1, <2>2, AnswerIsRead
<1>11. CASE SoloistBegin \/ Connected \/ ConnectFails \/ Backoff \/ MarkDisconnected
            \/ (CloseChannel /\ UNCHANGED socket)
  BY <1>0, <1>11, <1>1 DEF SoloistBegin, Connected, ConnectFails, Backoff, MarkDisconnected,
                    CloseChannel, SameTraffic, SameWires, commands, effects, socket
<1>12. CASE PlayerHandles
  BY <1>0, <1>12, PlayerHandlesOK
<1>13. CASE PlayerReports
  BY <1>0, <1>13, PlayerReportsOK
<1> QED BY <1>2, <1>3, <1>4, <1>5, <1>6, <1>7, <1>8, <1>9, <1>10, <1>11, <1>12, <1>13
        DEF SoloistNext, SoloistSteps

\* The types of the traffic, which both players share, and of what is the built-in one's.
Traffic ==
  /\ answer \in [Calls -> Replies \cup {None}] /\ expired \subseteq Calls
  /\ queue \in Seq(Calls \cup {State}) /\ Len(queue) <= QueueLimit
  /\ pending \in Calls \cup {None} /\ delivered \subseteq Calls /\ confirmed \subseteq Calls
Statuses == [connected : BOOLEAN, loggedIn : BOOLEAN, active : BOOLEAN]
Place ==
  /\ backend \in {"librespot", "soloist"} /\ at \in SpotifyPlaces /\ stopped \in BOOLEAN
  /\ status \in Statuses
Account ==
  /\ {creds, used, cache} \subseteq Accounts \cup {None} /\ seen \in BOOLEAN /\ spoiled \in BOOLEAN
  /\ selections \in Nat
  /\ exit \in {None, "stopped", "renamed", "selected", "ended", "lost"}
Wires == wire \in Seq(Calls \cup {State}) /\ back \in Seq(Messages) /\ misled \in BOOLEAN

\* The snapshot as the supervisors set it.
LEMMA StatusTypes ==
  ASSUME Place
  PROVE  /\ Offline \in Statuses /\ Down \in Statuses /\ [Down EXCEPT !.active = FALSE] \in Statuses
         /\ [status EXCEPT !.connected = TRUE] \in Statuses
         /\ [status EXCEPT !.connected = TRUE, !.loggedIn = TRUE] \in Statuses
         /\ \A on \in BOOLEAN :
              /\ [status EXCEPT !.active = on] \in Statuses
              /\ [status EXCEPT !.loggedIn = on, !.active = on] \in Statuses
  BY DEF Place, Statuses, Offline, Down

\* The types, part by part.
LEMMA CommandTypes == CommandTypeOK <=> Traffic /\ Place /\ Account /\ Wires
  BY DEF Statuses, CommandTypeOK, SpotifyTypeOK, Traffic, Place, Account, Wires

\* The same after a step.
LEMMA CommandTypesNext == Traffic' /\ Place' /\ Account' /\ Wires' => CommandTypeOK'
  BY DEF Statuses, CommandTypeOK, SpotifyTypeOK, Traffic, Place, Account, Wires

\* The queue as it is left by a command that is taken, refused or added.
LEMMA QueueTypes ==
  ASSUME Traffic
  PROVE  /\ queue # <<>> => /\ Tail(queue) \in Seq(Calls \cup {State})
                            /\ Len(Tail(queue)) <= QueueLimit
         /\ <<>> \in Seq(Calls \cup {State}) /\ Len(<<>>) <= QueueLimit
         /\ \A e \in Calls \cup {State} : Len(queue) < QueueLimit =>
              /\ Append(queue, e) \in Seq(Calls \cup {State})
              /\ Len(Append(queue, e)) <= QueueLimit
<1>1. queue \in Seq(Calls \cup {State}) /\ Len(queue) <= QueueLimit /\ QueueLimit \in Nat
      /\ Len(queue) \in Nat
  BY Tokens DEF Traffic
<1>2. queue # <<>> => /\ Tail(queue) \in Seq(Calls \cup {State})
                      /\ Len(Tail(queue)) <= Len(queue) /\ Len(Tail(queue)) \in Nat
  BY <1>1
<1>3. \A e \in Calls \cup {State} :
         /\ Append(queue, e) \in Seq(Calls \cup {State})
         /\ Len(Append(queue, e)) = Len(queue) + 1
  BY <1>1
<1> QED BY <1>1, <1>2, <1>3, NothingIn

\* Answers given have their type.
LEMMA AnswerTypes ==
  ASSUME Traffic, NEW S, NEW a \in {"ok", "refused", "undelivered", "disconnected", "unsure"}
  PROVE  Answered(S, a) \in [Calls -> Replies \cup {None}]
  BY AnsweredIs DEF Traffic, Promise!Answers

\* Those who send commands keep the types.
LEMMA CallersTypes ==
  ASSUME CommandTypeOK, Callers, UNCHANGED <<connect, socket>>
  PROVE  CommandTypeOK'
<1>0. Traffic /\ Place /\ Account /\ Wires
  BY CommandTypes
<1>1. Account' /\ Wires'
  BY <1>0 DEF Account, Wires, connect, socket, accounts, file, naming
<1>2. Place'
  BY <1>0 DEF Place, Callers, CheckStatus, Send, Expire, GiveUp, Abandoned, StopProvider
<1>3. Traffic'
  <2>1. answer' \in [Calls -> Replies \cup {None}]
    <3>1. \/ answer' = answer
          \/ \E c \in Calls, r \in Replies : answer' = [answer EXCEPT ![c] = r]
      <4>1. ASSUME NEW c \in Calls, CheckStatus(c)
            PROVE  \E r \in Replies : answer' = [answer EXCEPT ![c] = r]
        BY <4>1 DEF CheckStatus, Declined, Replies
      <4>2. ASSUME NEW c \in Calls, Send(c)
            PROVE  \E r \in Replies : answer' = [answer EXCEPT ![c] = r]
        BY <4>2 DEF Send, Replies
      <4>3. ASSUME NEW c \in Calls, GiveUp(c) \/ Abandoned(c)
            PROVE  \E r \in Replies : answer' = [answer EXCEPT ![c] = r]
        BY <4>3 DEF GiveUp, Abandoned, Replies
      <4>4. ASSUME NEW c \in Calls, Expire(c) PROVE answer' = answer
        BY <4>4 DEF Expire
      <4>5. CASE StopProvider
        BY <4>5 DEF StopProvider, commands
      <4> QED BY <4>1, <4>2, <4>3, <4>4, <4>5 DEF Callers
    <3> QED BY <1>0, <3>1 DEF Traffic
  <2>2. queue' \in Seq(Calls \cup {State}) /\ Len(queue') <= QueueLimit
    <3>1. \/ queue' = queue
          \/ \E c \in Calls : Len(queue) < QueueLimit /\ queue' = Append(queue, c)
      <4>1. CASE StopProvider
        BY <4>1 DEF StopProvider, commands
      <4>2. ASSUME NEW c \in Calls,
                   CheckStatus(c) \/ Send(c) \/ Expire(c) \/ GiveUp(c) \/ Abandoned(c)
            PROVE  queue' = queue \/ (Len(queue) < QueueLimit /\ queue' = Append(queue, c))
        BY <4>2 DEF CheckStatus, Send, Expire, GiveUp, Abandoned
      <4> QED
        BY <4>1, <4>2 DEF Callers
    <3> QED
      BY <1>0, <3>1, QueueTypes DEF Traffic
  <2>3. /\ expired' \subseteq Calls /\ pending' \in Calls \cup {None}
        /\ delivered' \subseteq Calls /\ confirmed' \subseteq Calls
    BY <1>0 DEF Traffic, Callers, CheckStatus, Send, Expire, GiveUp, Abandoned, StopProvider,
                commands, effects, Waiting
  <2> QED BY <2>1, <2>2, <2>3 DEF Traffic
<1> QED BY <1>1, <1>2, <1>3, CommandTypesNext

\* The supervisor of the built-in player keeps the types.
LEMMA ConnectTypes ==
  ASSUME CommandTypeOK, ConnectNext, UNCHANGED socket
  PROVE  CommandTypeOK'
<1>0. Traffic /\ Place /\ Account /\ Wires /\ backend' = backend
  BY CommandTypes DEF ConnectNext
<1>1. Wires'
  BY <1>0 DEF Wires, socket
<1>2. /\ Offline \in Statuses /\ Down \in Statuses /\ [Down EXCEPT !.active = FALSE] \in Statuses
      /\ [status EXCEPT !.connected = TRUE, !.loggedIn = TRUE] \in Statuses
  BY <1>0, StatusTypes
<1>3. CASE Begin \/ Restart \/ Pause \/ (CloseChannel /\ UNCHANGED connect)
  <2>1. Traffic'
    BY <1>0, <1>3 DEF Traffic, Begin, Restart, Pause, CloseChannel, commands, effects
  <2>2. Place'
    BY <1>0, <1>2, <1>3 DEF Place, Begin, Restart, Pause, CloseChannel, Goto, SpotifyPlaces
  <2>3. Account'
    BY <1>0, <1>3 DEF Account, Begin, Restart, Pause, CloseChannel, Renamed, connect, accounts, file, naming
  <2> QED BY <1>1, <2>1, <2>2, <2>3, CommandTypesNext
<1>4. CASE Close \/ End
  <2>1. Traffic'
    BY <1>0, <1>4, QueueTypes, AnswerTypes DEF Traffic, Close, End, FailQueued, effects
  <2>2. Place'
    BY <1>0, <1>2, <1>4 DEF Place, Close, End, Goto, SpotifyPlaces
  <2>3. Account'
    BY <1>0, <1>4 DEF Account, Close, End, connect, accounts, file, naming
  <2> QED BY <1>1, <2>1, <2>2, <2>3, CommandTypesNext
<1>5. CASE Choose \/ LeaveChoose \/ LeaveUnpaired \/ AbandonOpening \/ Opened
  <2>1. Traffic'
    BY <1>0, <1>5 DEF Traffic, Choose, LeaveChoose, LeaveUnpaired, AbandonOpening, Opened, commands, effects
  <2>2. Place'
    BY <1>0, <1>2, <1>5 DEF Place, Choose, LeaveChoose, LeaveUnpaired, AbandonOpening, Opened, Leave, Goto, SpotifyPlaces
  <2>3. Account'
    BY <1>0, <1>5 DEF Account, Choose, LeaveChoose, LeaveUnpaired, AbandonOpening, Opened, Leave, Renamed, connect, accounts, file, naming
  <2> QED BY <1>1, <2>1, <2>2, <2>3, CommandTypesNext
<1>6. CASE Retry \/ StopRetry \/ LeaveSession
  <2>1. Traffic'
    BY <1>0, <1>6, QueueTypes, AnswerTypes DEF Traffic, Retry, StopRetry, LeaveSession, FailQueued, commands, effects
  <2>2. Place'
    BY <1>0, <1>2, <1>6 DEF Place, Retry, StopRetry, LeaveSession, Goto, SpotifyPlaces
  <2>3. Account'
    <3>1. CASE Retry
      <4>1. used' = used /\ cache' = cache /\ spoiled' = spoiled /\ exit' = exit
        BY <3>1 DEF Retry, accounts, file
      <4>2. seen' \in BOOLEAN
        BY <1>0, <3>1 DEF Account, Retry, Renamed, naming
      <4>3. creds' \in Accounts \cup {None} /\ selections' \in Nat
        <5>1. ASSUME NEW account \in Accounts, Selected(account)
              PROVE  creds' \in Accounts \cup {None} /\ selections' \in Nat
          BY <1>0, <5>1 DEF Account, Selected
        <5>2. CASE UNCHANGED accounts
          BY <1>0, <5>2 DEF Account, accounts, file
        <5> QED BY <3>1, <5>1, <5>2 DEF Retry
      <4> QED BY <1>0, <4>1, <4>2, <4>3 DEF Account
    <3>2. CASE StopRetry
      BY <1>0, <3>2 DEF Account, StopRetry, connect, accounts, file, naming
    <3>3. CASE LeaveSession
      <4>1. ForRetry \in Accounts \cup {None}
        BY <1>0 DEF Account, ForRetry
      <4> QED BY <1>0, <3>3, <4>1 DEF Account, LeaveSession, file, naming
    <3> QED BY <1>6, <3>1, <3>2, <3>3
  <2> QED BY <1>1, <2>1, <2>2, <2>3, CommandTypesNext
<1>7. ASSUME NEW account \in Accounts, PairUnpaired(account) \/ PairOpening(account)
      PROVE  CommandTypeOK'
  <2>1. Traffic'
    BY <1>0, <1>7 DEF Traffic, PairUnpaired, PairOpening, commands, effects
  <2>2. Place'
    BY <1>0, <1>2, <1>7 DEF Place, PairUnpaired, PairOpening, Goto, SpotifyPlaces
  <2>3. Account'
    BY <1>0, <1>7 DEF Account, PairUnpaired, PairOpening, Selected, file, naming
  <2> QED BY <1>1, <2>1, <2>2, <2>3, CommandTypesNext
<1>8. ASSUME NEW refused \in BOOLEAN, OpenFails(refused) PROVE CommandTypeOK'
  <2>1. Traffic'
    BY <1>0, <1>8, QueueTypes, AnswerTypes DEF Traffic, OpenFails, FailQueued, effects
  <2>2. Place'
    BY <1>0, <1>2, <1>8 DEF Place, OpenFails, Goto, SpotifyPlaces
  <2>3. Account'
    BY <1>0, <1>8 DEF Account, OpenFails, file, naming
  <2> QED BY <1>1, <2>1, <2>2, <2>3, CommandTypesNext
<1>9. ASSUME NEW reason \in {"stopped", "renamed", "selected", "ended", "lost"}, EndSession(reason)
      PROVE  CommandTypeOK'
  <2>1. Traffic'
    BY <1>0, <1>9, AnswerTypes DEF Traffic, EndSession, FailPending, effects
  <2>2. Place'
    BY <1>0, <1>2, <1>9 DEF Place, EndSession, Goto, SpotifyPlaces
  <2>3. Account'
    <3>1. exit' = reason /\ used' = used /\ cache' = cache /\ spoiled' = spoiled
      BY <1>9 DEF EndSession, file
    <3>2. /\ creds' \in Accounts \cup {None} /\ selections' \in Nat /\ seen' \in BOOLEAN
      <4>1. CASE reason = "selected"
        BY <1>0, <1>9, <4>1 DEF Account, EndSession, Selected, naming
      <4>2. CASE reason = "renamed"
        BY <1>0, <1>9, <4>2 DEF Account, EndSession, Renamed
      <4>3. CASE reason \notin {"selected", "renamed"}
        BY <1>0, <1>9, <4>3 DEF Account, EndSession, naming
      <4> QED BY <4>1, <4>2, <4>3
    <3> QED BY <1>0, <3>1, <3>2 DEF Account
  <2> QED BY <1>1, <2>1, <2>2, <2>3, CommandTypesNext
<1>10. ASSUME NEW c \in Calls, DeclineUnpaired(c) \/ SkipCommand(c) \/ Dispatch(c) \/ DispatchFails(c)
       PROVE  CommandTypeOK'
  <2>1. Traffic'
    <3>1. answer' \in [Calls -> Replies \cup {None}]
      BY <1>0, <1>10, AnswerTypes DEF Traffic, DeclineUnpaired, SkipCommand, Dispatch, DispatchFails
    <3>2. queue' \in Seq(Calls \cup {State}) /\ Len(queue') <= QueueLimit
      BY <1>0, <1>10, QueueTypes DEF Traffic, DeclineUnpaired, SkipCommand, Dispatch, DispatchFails, Fetch
    <3>3. /\ expired' \subseteq Calls /\ pending' \in Calls \cup {None}
          /\ delivered' \subseteq Calls /\ confirmed' \subseteq Calls
      BY <1>0, <1>10 DEF Traffic, DeclineUnpaired, SkipCommand, Dispatch, DispatchFails, effects
    <3> QED BY <3>1, <3>2, <3>3 DEF Traffic
  <2>2. Place' /\ Account'
    BY <1>0, <1>10 DEF Place, Account, DeclineUnpaired, SkipCommand, Dispatch, DispatchFails, connect, accounts, file, naming
  <2> QED BY <1>1, <2>1, <2>2, CommandTypesNext
<1>11. ASSUME NEW event \in Events, PlayerEvent(event) PROVE CommandTypeOK'
  <2>1. Traffic'
    BY <1>0, <1>11, AnswerTypes DEF Traffic, PlayerEvent
  <2>2. status' \in Statuses
    <3> DEFINE on == IF event \in {"selected", "deselected"} THEN event = "selected"
                     ELSE status.active
    <3>1. on \in BOOLEAN
      BY <1>0 DEF Place, Statuses
    <3>2. status' = [status EXCEPT !.active = on]
      BY <1>11 DEF PlayerEvent
    <3> HIDE DEF on
    <3> QED BY <1>0, <3>1, <3>2, StatusTypes
  <2>3. Place' /\ Account'
    BY <1>0, <1>11, <2>2 DEF Place, Account, PlayerEvent, accounts, file, naming
  <2> QED BY <1>1, <2>1, <2>3, CommandTypesNext
<1>12. ASSUME NEW n \in Names, Rename(n) PROVE CommandTypeOK'
  <2>1. Traffic' /\ Place' /\ Account'
    BY <1>0, <1>12 DEF Traffic, Place, Account, Rename, shared, accounts, file
  <2> QED BY <1>1, <2>1, CommandTypesNext
<1>13. CASE TimeOut
  <2>1. Traffic'
    BY <1>0, <1>13, AnswerTypes DEF Traffic, TimeOut, FailPending, effects
  <2>2. Place' /\ Account'
    BY <1>0, <1>13 DEF Place, Account, TimeOut, connect, accounts, file, naming
  <2> QED BY <1>1, <2>1, <2>2, CommandTypesNext
<1> QED BY <1>3, <1>4, <1>5, <1>6, <1>7, <1>8, <1>9, <1>10, <1>11, <1>12, <1>13 DEF ConnectNext, ConnectSteps

\* The supervisor of Soloist and its player keep the types.
LEMMA SoloistTypes ==
  ASSUME CommandTypeOK, SoloistNext, UNCHANGED connect
  PROVE  CommandTypeOK'
<1>0. Traffic /\ Place /\ Account /\ Wires /\ backend' = backend
  BY CommandTypes DEF SoloistNext
<1>1. Account'
  BY <1>0 DEF Account, connect, accounts, file, naming
<1>2. CutOff => Wires'
  BY <1>0, NothingIn DEF CutOff, Wires
<1>3. UNCHANGED socket => Wires'
  BY <1>0 DEF Wires, socket
<1>4. wire # <<>> => Tail(wire) \in Seq(Calls \cup {State}) /\ Head(wire) \in Calls \cup {State}
  BY <1>0 DEF Wires
<1>5. back # <<>> => Tail(back) \in Seq(Messages) /\ Head(back) \in Messages
  BY <1>0 DEF Wires
<1>6. \A e \in Calls \cup {State} : Append(wire, e) \in Seq(Calls \cup {State})
  BY <1>0 DEF Wires
<1>7. \A m \in Messages : Append(back, m) \in Seq(Messages)
  BY <1>0 DEF Wires
<1>8. CASE \/ SoloistBegin \/ Connected \/ ConnectFails \/ Backoff \/ MarkDisconnected
           \/ (CloseChannel /\ UNCHANGED socket)
  <2>1. Traffic' /\ Wires'
    BY <1>0, <1>3, <1>8 DEF Traffic, SoloistBegin, Connected, ConnectFails, Backoff,
       MarkDisconnected, CloseChannel, commands, effects
  <2>2. Place'
    BY <1>0, <1>8, StatusTypes DEF Place, SoloistBegin, Connected, ConnectFails, Backoff, MarkDisconnected,
       CloseChannel, MoveTo, SpotifyPlaces
  <2> QED BY <1>1, <2>1, <2>2, CommandTypesNext
<1>9. CASE Drain \/ SoloistEnd
  <2>1. Traffic' /\ Wires'
    BY <1>0, <1>3, <1>9, QueueTypes, AnswerTypes
       DEF Traffic, Drain, SoloistEnd, FailQueued, effects
  <2>2. Place'
    BY <1>0, <1>9, StatusTypes DEF Place, Drain, SoloistEnd, MoveTo, SpotifyPlaces
  <2> QED BY <1>1, <2>1, <2>2, CommandTypesNext
<1>10. CASE Disconnect /\ UNCHANGED <<stopped, status, effects>>
  <2>1. Traffic' /\ Wires'
    BY <1>0, <1>2, <1>10, AnswerTypes DEF Traffic, Disconnect, FailPending, CutOff, effects
  <2>2. Place'
    BY <1>0, <1>10 DEF Place, Disconnect, MoveTo, SpotifyPlaces
  <2> QED BY <1>1, <2>1, <2>2, CommandTypesNext
<1>11. ASSUME NEW c \in Calls, SkipLate(c) \/ SendCommand(c) \/ SendFails(c)
       PROVE  CommandTypeOK'
  <2>1. answer' \in [Calls -> Replies \cup {None}]
    BY <1>0, <1>11, AnswerTypes DEF Traffic, SkipLate, SendCommand, SendFails
  <2>2. queue' \in Seq(Calls \cup {State}) /\ Len(queue') <= QueueLimit
    BY <1>0, <1>11, QueueTypes DEF SkipLate, SendCommand, SendFails, Fetch
  <2>3. /\ expired' \subseteq Calls /\ pending' \in Calls \cup {None}
        /\ delivered' \subseteq Calls /\ confirmed' \subseteq Calls
    BY <1>0, <1>11 DEF Traffic, SkipLate, SendCommand, SendFails, effects
  <2>4. Place'
    BY <1>0, <1>11 DEF Place, SkipLate, SendCommand, SendFails, MoveTo, SpotifyPlaces
  <2>5. Wires'
    <3>1. CASE SkipLate(c)
      BY <1>3, <3>1 DEF SkipLate
    <3>2. CASE SendCommand(c)
      BY <1>0, <1>6, <3>2 DEF SendCommand, Wires
    <3>3. CASE SendFails(c)
      BY <1>2, <3>3 DEF SendFails, CutOff
    <3> QED BY <1>11, <3>1, <3>2, <3>3
  <2>6. Traffic'
    BY <2>1, <2>2, <2>3 DEF Traffic
  <2> QED BY <1>1, <2>4, <2>5, <2>6, CommandTypesNext
<1>12. CASE SendState
  <2>1. Traffic'
    BY <1>0, <1>12, QueueTypes DEF Traffic, SendState, Fetch, effects
  <2>2. Place'
    BY <1>0, <1>12 DEF Place, SendState
  <2>3. wire' \in Seq(Calls \cup {State}) /\ back' = back /\ misled' = misled
    BY <1>0, <1>6, <1>12 DEF SendState, Wires
  <2>4. Wires'
    BY <1>0, <2>3 DEF Wires
  <2> QED BY <1>1, <2>1, <2>2, <2>4, CommandTypesNext
<1>13. CASE PlayerHandles
  <2>1. Traffic'
    BY <1>0, <1>4, <1>13 DEF Traffic, PlayerHandles, commands, effects
  <2>2. Place'
    BY <1>0, <1>13 DEF Place, PlayerHandles
  <2>3. /\ Message("playback", None, TRUE) \in Messages /\ Rejection \in Messages
        /\ \A c \in Calls : Message("command_result", Name[c], TRUE) \in Messages
    BY DEF Message, Messages, Kinds, Rejection
  <2>4. back' \in Seq(Messages)
    BY <1>4, <1>7, <1>13, <2>3, StrayIs DEF PlayerHandles
  <2>5. Wires'
    BY <1>0, <1>4, <1>13, <2>4 DEF PlayerHandles, Wires
  <2> QED BY <1>1, <2>1, <2>2, <2>5, CommandTypesNext
<1>14. CASE PlayerReports
  <2>1. \A on \in BOOLEAN : Message("auth_state", None, on) \in Messages
    BY DEF Message, Messages, Kinds
  <2>2. Wires'
    BY <1>0, <1>7, <1>14, <2>1, StrayIs DEF PlayerReports, Wires
  <2>3. Traffic' /\ Place'
    BY <1>0, <1>14 DEF Traffic, Place, PlayerReports, commands, effects
  <2> QED BY <1>1, <2>2, <2>3, CommandTypesNext
<1>15. CASE ReadReport
  <2>1. Wires'
    BY <1>0, <1>5, <1>15 DEF ReadReport, Wires
  <2>2. Traffic'
    BY <1>0, <1>15, QueueTypes DEF Traffic, ReadReport, effects
  <2>3. Head(back).on \in BOOLEAN
    BY <1>5, <1>15 DEF ReadReport, Messages
  <2>4. Place'
    BY <1>0, <1>15, <2>3, StatusTypes DEF Place, ReadReport
  <2> QED BY <1>1, <2>1, <2>2, <2>4, CommandTypesNext
<1>16. CASE (ReadResult /\ ~Disconnect) \/ ReadError
  <2>1. Wires'
    BY <1>0, <1>5, <1>16 DEF ReadResult, ReadError, Wires
  <2>2. Traffic'
    BY <1>0, <1>16, AnswerTypes DEF Traffic, ReadResult, ReadError, effects
  <2>3. Place'
    BY <1>0, <1>16 DEF Place, ReadResult, ReadError
  <2> QED BY <1>1, <2>1, <2>2, <2>3, CommandTypesNext
<1>17. CASE CloseSession \/ LoseConnection \/ AckTimesOut \/ (ReadResult /\ Disconnect)
  BY <1>10, <1>17 DEF CloseSession, LoseConnection, AckTimesOut, ReadResult
<1> QED BY <1>8, <1>9, <1>11, <1>12, <1>13, <1>14, <1>15, <1>16, <1>17 DEF SoloistNext, SoloistSteps

\* Where credentials come from stays true: with every step of the built-in player.
LEMMA CredentialsStep ==
  ASSUME CommandInv, ConnectNext
  PROVE  CredentialsOK'
<1>0. CredentialsOK /\ backend = "librespot" /\ backend' = backend /\ None \notin Accounts
  BY Tokens DEF CommandInv, ConnectNext
<1>1. CASE Begin \/ Restart \/ Pause \/ Close \/ End \/ (CloseChannel /\ UNCHANGED connect)
  BY <1>0, <1>1 DEF CredentialsOK, UnpairedHasNone, Begin, Restart, Pause, Close, End, CloseChannel,
     Goto, connect, accounts, file
<1>2. CASE Choose \/ LeaveChoose
  BY <1>0, <1>2 DEF CredentialsOK, UnpairedHasNone, Choose, LeaveChoose, Goto, connect, accounts, file
<1>3. CASE LeaveUnpaired \/ AbandonOpening \/ Opened
  BY <1>0, <1>3 DEF CredentialsOK, UnpairedHasNone, LeaveUnpaired, AbandonOpening, Opened, Leave,
     Goto, accounts, file
<1>4. CASE Retry \/ StopRetry
  BY <1>0, <1>4 DEF CredentialsOK, UnpairedHasNone, Retry, StopRetry, Selected, Goto, connect, accounts, file
<1>5. CASE LeaveSession
  BY <1>0, <1>5 DEF CredentialsOK, UnpairedHasNone, LeaveSession, ForRetry, Goto
<1>6. ASSUME NEW account \in Accounts, PairUnpaired(account) \/ PairOpening(account)
      PROVE  CredentialsOK'
  BY <1>0, <1>6 DEF CredentialsOK, UnpairedHasNone, PairUnpaired, PairOpening, Selected, Goto
<1>7. ASSUME NEW refused \in BOOLEAN, OpenFails(refused) PROVE CredentialsOK'
  BY <1>0, <1>7 DEF CredentialsOK, UnpairedHasNone, OpenFails, Goto
<1>8. ASSUME NEW reason \in {"stopped", "renamed", "selected", "ended", "lost"}, EndSession(reason)
      PROVE  CredentialsOK'
  <2>1. reason = "selected" => creds' \in Accounts
    BY <1>8 DEF EndSession, Selected
  <2>2. /\ at = "session" /\ at' = "shutting" /\ exit' = reason /\ used' = used
        /\ cache' = cache /\ spoiled' = spoiled
    BY <1>8 DEF EndSession, Goto, file
  <2> QED BY <1>0, <2>1, <2>2 DEF CredentialsOK, UnpairedHasNone
<1>9. CASE \/ TimeOut
           \/ \E c \in Calls : DeclineUnpaired(c) \/ SkipCommand(c) \/ Dispatch(c) \/ DispatchFails(c)
  BY <1>0, <1>9 DEF CredentialsOK, UnpairedHasNone, TimeOut, DeclineUnpaired, SkipCommand, Dispatch,
     DispatchFails, connect, accounts, file
<1>10. CASE (\E event \in Events : PlayerEvent(event)) \/ (\E n \in Names : Rename(n))
  BY <1>0, <1>10 DEF CredentialsOK, UnpairedHasNone, PlayerEvent, Rename, shared, accounts, file
<1> QED BY <1>1, <1>2, <1>3, <1>4, <1>5, <1>6, <1>7, <1>8, <1>9, <1>10 DEF ConnectNext, ConnectSteps

\* Who sends commands has no part in them.
LEMMA CredentialsOfCallers ==
  ASSUME CommandInv, Callers, UNCHANGED connect
  PROVE  CredentialsOK'
<1>1. UNCHANGED <<backend, at, creds, used, cache, spoiled, exit>>
  BY DEF Callers, CheckStatus, Send, Expire, GiveUp, Abandoned, StopProvider, connect, accounts, file
<1> QED BY <1>1 DEF CommandInv, CredentialsOK, UnpairedHasNone

\* Soloist pairs by itself: its supervisor is never where these are asked for.
LEMMA CredentialsOfSoloist ==
  ASSUME CommandInv, SoloistNext, UNCHANGED connect
  PROVE  CredentialsOK'
<1>1. /\ backend' = "soloist" /\ UNCHANGED <<creds, used, cache, spoiled, exit>>
      /\ at' = at \/ at' \in {"done", "connecting", "session", "backoff", "ending", "lost",
                              "closingChannel", "draining"}
  BY DEF SoloistNext, SoloistSteps, SoloistBegin, Connected, ConnectFails, Backoff, Drain,
     MarkDisconnected, SoloistEnd, CloseChannel, CloseSession, LoseConnection, AckTimesOut,
     SendState, SkipLate, SendCommand, SendFails, ReadReport, ReadResult, ReadError,
     PlayerHandles, PlayerReports, Disconnect, MoveTo, connect, accounts, file
<1> QED BY <1>1 DEF CommandInv, CredentialsOK, UnpairedHasNone

\* A step keeps the invariant, and is a step of the promise or none.
LEMMA CommandStep ==
  ASSUME CommandInv, [SpotifyNext]_spotifyVars
  PROVE  CommandInv' /\ Promised
<1>0. CommandTypeOK
  BY DEF CommandInv
<1>1. CASE Callers /\ UNCHANGED <<connect, socket>>
  <2>1. SameWires /\ UNCHANGED connect
    BY <1>1 DEF SameWires, socket
  <2> QED BY <1>0, <1>1, <2>1, CommandersOK, CallersTypes, CredentialsOfCallers DEF CommandInv, Kept
<1>2. CASE ConnectNext /\ UNCHANGED socket
  <2>1. backend = "librespot" /\ backend' = backend /\ SameWires
    BY <1>2 DEF ConnectNext, socket, SameWires
  <2>2. CASE ConnectSteps
    BY <1>0, <1>2, <2>1, <2>2, LibrespotOK, ConnectTypes, CredentialsStep DEF CommandInv, Kept
  <2>3. ASSUME NEW n \in Names, Rename(n) PROVE CommandInv' /\ Promised
    <3>1. SameTraffic /\ at' = at
      BY <2>1, <2>3 DEF SameTraffic, Rename, shared
    <3> QED BY <1>0, <1>2, <3>1, QuietStep, ConnectTypes, CredentialsStep DEF CommandInv, Kept
  <2> QED BY <1>2, <2>2, <2>3 DEF ConnectNext
<1>3. CASE SoloistNext /\ UNCHANGED connect
  BY <1>0, <1>3, SoloistOK, SoloistTypes, CredentialsOfSoloist DEF CommandInv, Kept
<1>4. CASE UNCHANGED spotifyVars
  <2>1. SameTraffic /\ at' = at /\ UNCHANGED <<shared, connect, socket>>
    BY <1>4 DEF spotifyVars, shared, connect, socket, SameTraffic, SameWires
  <2>2. CommandTypeOK'
    BY <1>0, <2>1 DEF CommandTypeOK, SpotifyTypeOK, shared, connect, socket, accounts, file, naming
  <2>3. CredentialsOK'
    BY <2>1 DEF CommandInv, CredentialsOK, UnpairedHasNone, shared, connect, accounts, file
  <2> QED BY <2>1, <2>2, <2>3, QuietStep DEF CommandInv, Kept
<1> QED BY <1>1, <1>2, <1>3, <1>4 DEF SpotifyNext

\* It holds at first, when nothing was sent.
LEMMA CommandStart == SpotifyInit => CommandInv /\ Promise!Init
<1> SUFFICES ASSUME SpotifyInit PROVE CommandInv /\ Promise!Init
  OBVIOUS
<1>1. /\ at = "unstarted" /\ stopped = FALSE /\ status = Offline /\ expired = {} /\ queue = <<>>
      /\ answer = [c \in Calls |-> None] /\ pending = None /\ delivered = {} /\ confirmed = {}
      /\ creds = None /\ used = None /\ cache \in Accounts \cup {None} /\ seen = TRUE
      /\ selections = 0 /\ exit = None /\ wire = <<>> /\ back = <<>>
      /\ spoiled = FALSE /\ misled = FALSE
      /\ backend \in {"librespot", "soloist"}
  BY DEF SpotifyInit, CommandsInit, ConnectInit, SoloistInit
<1>2. Traffic /\ Wires
  <2>1. QueueLimit \in Nat /\ Len(<<>>) = 0 /\ \A S : <<>> \in Seq(S)
    BY NothingIn, Tokens
  <2>2. Wires
    BY <1>1, <2>1 DEF Wires
  <2>3. Traffic
    BY <1>1, <2>1 DEF Traffic
  <2> QED BY <2>2, <2>3
<1>3. Place /\ Account
  BY <1>1 DEF Place, Account, SpotifyPlaces, Statuses, Offline
<1>4. QueuedOK /\ PendingOK /\ TellsApart
  BY <1>1, NothingIn DEF QueuedOK, PendingOK, TellsApart, OnTheWire, InFlightOK
<1>5. CredentialsOK
  BY <1>1 DEF CredentialsOK, UnpairedHasNone
<1>6. Promise!Init
  BY <1>1, Tokens DEF Promise!Init, Replies
<1> QED BY <1>2, <1>3, <1>4, <1>5, <1>6, CommandTypes DEF CommandInv

\* What is queued, pending and on its way to a player or back fits together, whoever asks,
\* gives up, renames, pairs or loses the connection.
THEOREM CommandInvariant == SpotifySpec => []CommandInv
<1>1. CommandInv /\ [SpotifyNext]_spotifyVars => CommandInv'
  BY CommandStep
<1> QED BY <1>1, CommandStart, PTL DEF SpotifySpec

\* The player waits for a pairing only when neither it nor the file has credentials
\* (supervise in crates/lumistripe-spotify).
THEOREM PairingIsNeeded == SpotifySpec => [](SpotifyTypeOK /\ UnpairedHasNone)
<1>1. CommandInv => SpotifyTypeOK /\ UnpairedHasNone
  BY DEF CommandInv, CommandTypeOK, CredentialsOK
<1> QED BY <1>1, CommandInvariant, PTL

\* Both players implement CommandPromise: a command reaches the player once at most, is
\* answered once, and the answer is true.
THEOREM PlayersKeepThePromise == SpotifySpec => ImplementsPromise
<1>1. CommandInv /\ [SpotifyNext]_spotifyVars => [Promise!Next]_(Promise!vars)
  BY CommandStep DEF Promised
<1> QED BY <1>1, CommandStart, CommandInvariant, PTL DEF SpotifySpec, ImplementsPromise, Promise!Spec
=============================================================================
