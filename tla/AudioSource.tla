------------------------------ MODULE AudioSource ------------------------------
(***************************************************************************)
(* Which input feeds the audio analysis: WorkerState of                    *)
(* crates/lumistripe-engine-runtime/src/audio_worker.rs, its commands and  *)
(* recover_stalled_capture_at, which moves between decoded Spotify PCM and *)
(* the PipeWire monitor, probes for the way back and reopens what broke.   *)
(*                                                                         *)
(* Time is counted in ticks and kept as ages (since an instant) and waits  *)
(* (until one), so that every timeout of the code is a comparison here.    *)
(* A tick is followed by one poll of the worker; what the poll reads may   *)
(* change between its steps.  The samples, what DSP makes of them and the  *)
(* overflow of the queue they come through are left out.  Idle, loading    *)
(* and paused playback, alike for all that is modelled, are "resting".     *)
(***************************************************************************)
EXTENDS Integers, Sequences

CONSTANTS
  FirstBatch,      \* DIRECT_PCM_FIRST_BATCH_TIMEOUT_NS, in ticks, ...
  Stall,           \* DIRECT_PCM_STALL_TIMEOUT_NS
  ProbeInterval,   \* DIRECT_PCM_RECOVERY_PROBE_INTERVAL_NS
  ProbeWindow,     \* DIRECT_PCM_RECOVERY_PROBE_TIMEOUT_NS
  Confirm,         \* DIRECT_PCM_RECOVERY_CONFIRM_BATCHES
  CaptureFirst,    \* AUDIO_INITIAL_CALLBACK_TIMEOUT_NS
  CaptureStall,    \* AUDIO_STALL_TIMEOUT_NS
  Recovery,        \* AUDIO_RECOVERY_DELAY_NS
  Oldest,          \* bound: an age this high is not told from a higher one
  MaxArrived       \* bound: probe batches that arrive between two polls

ASSUME AudioSourceAssumption ==
  /\ \A n \in {FirstBatch, Stall, ProbeInterval, ProbeWindow, CaptureFirst,
               CaptureStall, Recovery} : n \in Nat /\ n < Oldest
  /\ Oldest \in Nat /\ Confirm \in Nat \ {0} /\ MaxArrived \in Nat \ {0}
  /\ Stall <= FirstBatch

VARIABLES
  pc,             \* "idle", or the step of the poll that comes next
  mode,           \* what was asked for: "off", "demo", "capture", "direct"
  source,         \* session.input: "none", "capture", "direct", "monitor"
  fallbackActive,
  openedAge,      \* since session.opened_at_ns
  startedAge,     \* since direct_playback_started_ns; Never when it is None
  probing,        \* direct_probe_generation is Some
  probeAge,       \* since direct_probe_started_ns
  contiguous,     \* direct_probe_contiguous_batches
  probeWait,      \* until next_direct_probe_ns
  retryWait,      \* until retry_at_ns
  \* The PCM ingress and the devices:
  enabled,        \* the ingress accepts PCM
  inputAge,       \* since last_input_timestamp_ns; Never when it is None
  arrived,        \* batches queued for a probe, each as its place in the run of
                  \* batches without a gap that it belongs to: 1 follows a gap
  newGeneration,  \* the stream generation changed since the last poll
  playback,       \* "playing", "resting", "failed"
  captureAge,     \* since the open device called back; Never if it has not
  deviceWorks,    \* a capture device opens, and calls back
  \* What the properties talk about:
  settled,        \* "no", "flows" or "silent": how the world stays for good
  changed,        \* bound: playback changes at most once between two ticks
  run             \* the place of the last batch that arrived for the probe

request  == <<mode, source, fallbackActive, openedAge, startedAge, retryWait>>
probe    == <<probing, probeAge, contiguous, probeWait>>
ingress  == <<enabled, inputAge, arrived, newGeneration>>
world    == <<playback, deviceWorks, settled, changed>>
vars == <<pc, request, probe, ingress, captureAge, world, run>>

Never == -1
Older(age) == IF age = Never \/ age = Oldest THEN age ELSE age + 1
Nearer(wait) == IF wait = 0 THEN 0 ELSE wait - 1

Init ==
  /\ pc = "idle" /\ mode = "off" /\ source = "none" /\ fallbackActive = FALSE
  /\ openedAge = 0 /\ startedAge = Never
  /\ probing = FALSE /\ probeAge = 0 /\ contiguous = 0 /\ probeWait = 0
  /\ retryWait = 0
  /\ enabled = FALSE /\ inputAge = Never /\ arrived = <<>> /\ newGeneration = FALSE
  /\ playback = "resting" /\ captureAge = Never /\ deviceWorks = TRUE
  /\ settled = "no" /\ changed = FALSE /\ run = 0

-----------------------------------------------------------------------------
(* Helpers: each assigns a part of the state.                              *)

\* set_enabled and discard_queued; who reads the queue takes the generation after.
SetEnabled(on) == enabled' = on /\ arrived' = <<>> /\ newGeneration' = FALSE

ResetProbe(wait) ==
  /\ probing' = FALSE /\ probeAge' = 0 /\ contiguous' = 0 /\ run' = 0
  /\ probeWait' = wait

OpenDirect ==
  /\ source' = "direct" /\ openedAge' = 0 /\ retryWait' = 0
  /\ captureAge' = Never

OpenCapture(kind) ==
  /\ captureAge' = Never
  /\ IF deviceWorks THEN source' = kind /\ openedAge' = 0 /\ retryWait' = 0
                    ELSE source' = "none" /\ retryWait' = Recovery /\ UNCHANGED openedAge

\* open_session
OpenSession(direct, fallback) ==
  IF direct /\ ~fallback
    THEN SetEnabled(TRUE) /\ OpenDirect /\ UNCHANGED <<probe, run>>
    ELSE /\ SetEnabled(FALSE)
         /\ ResetProbe(IF direct THEN ProbeInterval ELSE 0)
         /\ OpenCapture(IF direct THEN "monitor" ELSE "capture")

-----------------------------------------------------------------------------
(* Commands, between two polls.                                            *)

Commanded == pc = "idle" /\ settled = "no"

StartCapture ==
  /\ Commanded
  /\ mode' = "capture" /\ fallbackActive' = FALSE /\ startedAge' = Never
  /\ OpenSession(FALSE, FALSE)
  /\ UNCHANGED <<pc, inputAge, world>>

StartDemo ==
  /\ Commanded
  /\ mode' = "demo" /\ fallbackActive' = FALSE /\ startedAge' = Never
  /\ source' = "none" /\ captureAge' = Never /\ retryWait' = 0
  /\ SetEnabled(FALSE) /\ ResetProbe(0)
  /\ UNCHANGED <<pc, openedAge, inputAge, world>>

StartDirect ==
  /\ Commanded
  /\ mode' = "direct" /\ fallbackActive' = FALSE /\ startedAge' = Never
  /\ ResetProbe(0) /\ SetEnabled(TRUE) /\ OpenDirect
  /\ UNCHANGED <<pc, inputAge, world>>

Configure ==
  /\ Commanded
  /\ mode \in {"capture", "direct"}
  /\ OpenSession(mode = "direct", fallbackActive)
  /\ UNCHANGED <<pc, mode, fallbackActive, startedAge, inputAge, world>>

Stop ==
  /\ Commanded
  /\ mode' = "off" /\ fallbackActive' = FALSE /\ startedAge' = Never
  /\ source' = "none" /\ captureAge' = Never
  /\ SetEnabled(FALSE) /\ ResetProbe(0)
  /\ UNCHANGED <<pc, openedAge, retryWait, inputAge, world>>

Command == StartCapture \/ StartDemo \/ StartDirect \/ Configure \/ Stop

-----------------------------------------------------------------------------
(* recover_stalled_capture_at.                                             *)

\* A direct session of an old generation is built anew, unless a batch of the
\* new one was processed first; then playback is read for the first time.
Observe ==
  /\ pc = "observe"
  /\ openedAge' \in IF source = "direct" /\ newGeneration THEN {0, openedAge}
                                                           ELSE {openedAge}
  /\ newGeneration' = (newGeneration /\ probing)
  /\ startedAge' = IF mode # "direct" THEN startedAge
                   ELSE IF playback # "playing" THEN Never
                   ELSE IF startedAge = Never THEN 0 ELSE startedAge
  /\ pc' = "judge"
  /\ UNCHANGED <<mode, source, fallbackActive, retryWait, probe, enabled, inputAge,
                 arrived, captureAge, world, run>>

\* ... and for the second time here.
StalledSincePlayback ==
  LET since == IF startedAge = Never THEN openedAge ELSE startedAge
  IN  IF inputAge \in 0..since /\ inputAge < Oldest THEN inputAge > Stall
                                                    ELSE since > FirstBatch
DirectStalled ==
  /\ source = "direct"
  /\ \/ playback = "failed"
     \/ playback = "playing" /\ StalledSincePlayback

Judge ==
  /\ pc = "judge"
  /\ ~(DirectStalled /\ retryWait = 0)
  /\ pc' = "capture"
  /\ UNCHANGED <<request, probe, ingress, captureAge, world, run>>

\* activate_monitor_fallback
FallBack ==
  /\ pc = "judge"
  /\ DirectStalled /\ retryWait = 0
  /\ fallbackActive' = TRUE
  /\ SetEnabled(FALSE) /\ ResetProbe(ProbeInterval) /\ OpenCapture("monitor")
  /\ pc' = "capture"
  /\ UNCHANGED <<mode, startedAge, inputAge, world>>

CaptureStalled ==
  /\ source \in {"capture", "monitor"}
  /\ IF captureAge = Never THEN openedAge > CaptureFirst ELSE captureAge > CaptureStall

CheckCapture ==
  /\ pc = "capture"
  /\ IF CaptureStalled
       THEN source' = "none" /\ captureAge' = Never /\ retryWait' = Recovery
       ELSE UNCHANGED <<source, captureAge, retryWait>>
  /\ pc' = IF mode = "direct" /\ fallbackActive THEN "probe" ELSE "reopen"
  /\ UNCHANGED <<mode, fallbackActive, openedAge, startedAge, probe, ingress, world, run>>

\* probe_direct_recovery: playback rests or failed.
AbandonProbe ==
  /\ pc = "probe"
  /\ playback # "playing"
  /\ IF probing THEN SetEnabled(FALSE) /\ ResetProbe(ProbeInterval)
                ELSE UNCHANGED <<enabled, arrived, newGeneration, probe, run>>
  /\ pc' = "reopen"
  /\ UNCHANGED <<request, inputAge, captureAge, world>>

WaitForProbe ==
  /\ pc = "probe"
  /\ playback = "playing" /\ ~probing /\ probeWait > 0
  /\ pc' = "reopen"
  /\ UNCHANGED <<request, probe, ingress, captureAge, world, run>>

StartProbe ==
  /\ pc = "probe"
  /\ playback = "playing" /\ ~probing /\ probeWait = 0
  /\ SetEnabled(TRUE)
  /\ probing' = TRUE /\ probeAge' = 0 /\ contiguous' = 0 /\ run' = 0
  /\ pc' = "listen"
  /\ UNCHANGED <<request, probeWait, inputAge, captureAge, world>>

\* A probe of an older generation starts over; its batches are stale.
RestartProbe ==
  /\ pc = "probe"
  /\ playback = "playing" /\ probing
  /\ IF newGeneration THEN probeAge' = 0 /\ contiguous' = 0
                      ELSE UNCHANGED <<probeAge, contiguous>>
  /\ newGeneration' = FALSE
  /\ pc' = "listen"
  /\ UNCHANGED <<request, probing, probeWait, enabled, inputAge, arrived, captureAge,
                 world, run>>

CountThrough(batch) == contiguous + 1
CountBatch(batch) == IF batch > 1 THEN contiguous + 1 ELSE 1

Listen ==
  /\ pc = "listen" /\ arrived # <<>>
  /\ CountBatch(Head(arrived)) < Confirm
  /\ contiguous' = CountBatch(Head(arrived))
  /\ arrived' = Tail(arrived)
  /\ UNCHANGED <<pc, request, probing, probeAge, probeWait, enabled, inputAge,
                 newGeneration, captureAge, world, run>>

\* activate_direct_after_probe
Return ==
  /\ pc = "listen" /\ arrived # <<>>
  /\ CountBatch(Head(arrived)) >= Confirm
  /\ fallbackActive' = FALSE
  /\ OpenDirect /\ ResetProbe(ProbeInterval)
  /\ arrived' = <<>> /\ newGeneration' = FALSE
  /\ pc' = "reopen"
  /\ UNCHANGED <<mode, startedAge, enabled, inputAge, world>>

ProbeFailedByOldInput == probeAge > ProbeWindow \/ inputAge > Stall
ProbeFailed ==
  LET last == IF inputAge = Never THEN probeAge ELSE inputAge
  IN  probeAge > ProbeWindow \/ (last <= probeAge /\ last > Stall)

EndListening ==
  /\ pc = "listen"
  /\ arrived = <<>>
  /\ IF ProbeFailed
       THEN /\ SetEnabled(FALSE) /\ ResetProbe(ProbeInterval)
            /\ retryWait' = IF source = "none" THEN 0 ELSE retryWait
       ELSE UNCHANGED <<enabled, arrived, newGeneration, probe, run, retryWait>>
  /\ pc' = "reopen"
  /\ UNCHANGED <<mode, source, fallbackActive, openedAge, startedAge, inputAge,
                 captureAge, world>>

Reopen ==
  /\ pc = "reopen"
  /\ IF mode \in {"capture", "direct"} /\ source = "none" /\ retryWait = 0 /\ ~probing
       THEN OpenSession(mode = "direct", fallbackActive)
       ELSE UNCHANGED <<source, openedAge, retryWait, probe, enabled, arrived,
                        newGeneration, captureAge, run>>
  /\ pc' = "idle"
  /\ UNCHANGED <<mode, fallbackActive, startedAge, inputAge, world>>

Poll ==
  \/ Observe \/ Judge \/ FallBack \/ CheckCapture \/ AbandonProbe \/ WaitForProbe
  \/ StartProbe \/ RestartProbe \/ Listen \/ Return \/ EndListening \/ Reopen

-----------------------------------------------------------------------------
(* The provider, the devices and time.                                     *)

SetPlayback(state) ==
  /\ settled = "no" /\ ~changed /\ playback # state
  /\ playback' = state /\ changed' = TRUE
  /\ UNCHANGED <<pc, request, probe, ingress, captureAge, deviceWorks, settled, run>>

\* A batch is accepted while the ingress is enabled, and waits only for a probe.
Accept(gap) ==
  /\ inputAge' = 0
  /\ IF probing /\ Len(arrived) < MaxArrived
       THEN /\ run' = IF gap THEN 1 ELSE IF run = Confirm THEN run ELSE run + 1
            /\ arrived' = Append(arrived, run')
       ELSE UNCHANGED <<arrived, run>>

Deliver(gap) ==
  /\ settled = "no" /\ enabled /\ Len(arrived) < MaxArrived
  /\ Accept(gap)
  /\ UNCHANGED <<pc, request, probe, enabled, newGeneration, captureAge, world>>

BeginGeneration ==
  /\ settled = "no" /\ enabled /\ ~newGeneration
  /\ newGeneration' = TRUE /\ arrived' = <<>> /\ run' = 0
  /\ UNCHANGED <<pc, request, probe, enabled, inputAge, captureAge, world>>

Callback ==
  /\ source \in {"capture", "monitor"} /\ deviceWorks /\ captureAge # 0
  /\ captureAge' = 0
  /\ UNCHANGED <<pc, request, probe, ingress, world, run>>

DeviceChanges ==
  /\ settled = "no"
  /\ deviceWorks' = ~deviceWorks
  /\ UNCHANGED <<pc, request, probe, ingress, captureAge, playback, settled, changed,
                 run>>

\* From now on Spotify plays, the device works, and PCM flows or is silent.
Settle ==
  /\ settled = "no" /\ pc = "idle"
  /\ settled' \in {"flows", "silent"}
  /\ playback' = "playing" /\ deviceWorks' = TRUE
  /\ UNCHANGED <<pc, request, probe, ingress, captureAge, changed, run>>

Tick ==
  /\ pc = "idle"
  /\ pc' = "observe"
  /\ openedAge' = Older(openedAge) /\ startedAge' = Older(startedAge)
  /\ probeAge' = Older(probeAge)
  /\ probeWait' = Nearer(probeWait) /\ retryWait' = Nearer(retryWait)
  /\ IF settled = "flows" /\ enabled
       THEN Accept(FALSE)
       ELSE inputAge' = Older(inputAge) /\ UNCHANGED <<arrived, run>>
  /\ captureAge' = IF settled # "no" /\ source \in {"capture", "monitor"} THEN 0
                   ELSE Older(captureAge)
  /\ changed' = FALSE
  /\ UNCHANGED <<mode, source, fallbackActive, probing, contiguous, enabled,
                 newGeneration, playback, deviceWorks, settled>>

World ==
  \/ \E state \in {"playing", "resting", "failed"} : SetPlayback(state)
  \/ \E gap \in BOOLEAN : Deliver(gap)
  \/ BeginGeneration \/ Callback \/ DeviceChanges \/ Settle

Next == Command \/ Poll \/ World \/ Tick

\* Time passes and the worker polls.
Spec == Init /\ [][Next]_vars /\ WF_vars(Poll) /\ WF_vars(Tick)

-----------------------------------------------------------------------------
(* Properties.                                                             *)

Ages == 0..Oldest
TypeOK ==
  /\ pc \in {"idle", "observe", "judge", "capture", "probe", "listen", "reopen"}
  /\ mode \in {"off", "demo", "capture", "direct"}
  /\ source \in {"none", "capture", "direct", "monitor"}
  /\ openedAge \in Ages /\ probeAge \in Ages
  /\ {inputAge, startedAge, captureAge} \subseteq Ages \union {Never}
  /\ probeWait \in Ages /\ retryWait \in Ages
  /\ contiguous \in 0..Confirm - 1
  /\ arrived \in Seq(1..Confirm) /\ Len(arrived) <= MaxArrived
  /\ {fallbackActive, probing, enabled, newGeneration, deviceWorks, changed}
       \subseteq BOOLEAN
  /\ playback \in {"playing", "resting", "failed"}
  /\ settled \in {"no", "flows", "silent"} /\ run \in 0..Confirm

\* "Only one input feeds DSP at a time", and it is one that was asked for; in
\* direct mode it is lost only to a monitor that cannot be opened.  Spotify's PCM
\* is accepted exactly when somebody takes it out: the direct session, or a probe
\* while the monitor plays.
InputFitsRequest ==
  /\ mode \in {"off", "demo"} => source = "none"
  /\ mode = "capture" => source \in {"none", "capture"}
  /\ mode = "direct" => IF fallbackActive THEN source \in {"none", "monitor"}
                                          ELSE source = "direct"
  /\ enabled <=> mode = "direct" /\ (~fallbackActive \/ probing)
  /\ probing => mode = "direct" /\ fallbackActive

\* Direct PCM is not given up while it arrives, and the monitor is left only
\* for PCM that came without a gap.
SourceChangesForCause ==
  [][/\ FallBack => playback = "failed" \/ inputAge \notin 0..Stall
     /\ Return => Head(arrived) >= Confirm]_vars

\* In a world that stays as it is, the source ends up where it belongs and
\* stays there, whatever failed, was probed or was commanded before.
SourceSettles ==
  /\ (settled = "flows" /\ mode = "direct") ~> [](source = "direct")
  /\ (settled = "silent" /\ mode = "direct") ~> [](source = "monitor")
  /\ (settled # "no" /\ mode = "capture") ~> [](source = "capture")

\* Samples are taken only for a reader, and the input is left only for a cause.
SourceIsRight == [](TypeOK /\ InputFitsRequest) /\ SourceChangesForCause
=============================================================================
