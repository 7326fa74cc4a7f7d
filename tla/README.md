# LumiStripe: TLA+ models, checks and proofs

LumiStripe drives addressable LED strips on a Raspberry Pi. A Rust engine
renders scenes to SPI outputs and follows music; a web dashboard owns the user's
settings, routes sound, runs the Spotify player and Bluetooth, and installs
updates. This directory holds TLA+ modules translated from the code, TLC
configurations that check them on small instances, and TLAPS proofs of the safety
properties that matter most.

Paths are relative to the repository. `RT` stands for
`crates/lumistripe-engine-runtime/src`, `AUDIO` for
`crates/lumistripe-engine-audio/src`, `WEB` for `apps/lumistripe-web/src` and
`HELPER` for `apps/lumistripe-deploy-helper/src`.

## 1. The system

### Components, their state and their operations

| component | state | operations | modelled in |
|---|---|---|---|
| Output worker and frame scheduler (`RT/lib.rs`) | work queue (commands, latest frame, latest render, two frame buffers), scheduled request, open devices, health counters | configure, submit frame / render / scene / audio update, render on a deadline, shutdown | `OutputWorker` |
| Engine lifecycle and dispatcher (`RT/lib.rs`) | accepting and shutdown flags, terminal failure, bounded command queue, join handles | request, IPC request, health check, shutdown, drop | `EngineControl` |
| Structure events (`RT/audio_worker.rs`, `RT/lib.rs`) | sliding history, acknowledgements per output | append, snapshot, act on, acknowledge, trim | `EventDelivery` |
| Animation coordination (`RT/lib.rs`, `beat_clock.rs`, `sequence.rs`, `quantized_switch.rs`, `effect_scheduler.rs`, `activity_gate.rs`) | beat grid, step of a sequence, pending switch, active overlays, gate | advance per frame, submit a scene | `AnimationCoordination` over `BeatClock`, `SequenceCoordinator`, `QuantizedSwitch`, `EffectSchedule` |
| Rendering (`crates/lumistripe-engine-effects`, `-animation-state`, `-compositing`, `RT/lib.rs`) | positions, phases, bursts; renderer, transition and layers of each output | render a frame | `AnimationMotion`, `EffectMotion`, `RenderStage` |
| Audio worker (`RT/audio_worker.rs`) | requested mode, open session, fallback, probe, retry timers, stream of the reader | commands, stalls, probes, batches | `AudioSource`, `PcmPipeline` |
| PCM ingress and capture (`AUDIO/ingress.rs`, `capture.rs`) | enable flag, generation, playback state, bounded queue, drops | submit, pop, enable, new generation, device callback | `PcmPipeline`, `AudioSource` |
| Structure analysis (`AUDIO/structure.rs`) | phase, candidate, history, ages | update per frame of features | `StructureTracker` |
| IPC server (`RT/lib.rs`) | connections, legacy layouts, stream acknowledgements | accept, request, stream frames, end | `IpcServer` |
| Control plane (`WEB/control.rs`, `state.rs`) | control model with revision, calibration sessions, candidate of the command at work | about 30 commands, rollbacks, state tick | `ControlPlane`, `AudioRouting`, `Preferences`, `AudioCalibration`, `PlayerName` |
| Settings store (`WEB/settings.rs`) | file and its copy in memory | replace categories atomically | `ControlPlane`, `Preferences` |
| Sessions and live streams (`WEB/auth.rs`, `streams.rs`, `app.rs`) | code, failures in a window, sessions; watch channels, sockets | pair, log out, expire; publish, send | `LiveStreams` |
| Spotify (`WEB/spotify.rs`, `crates/lumistripe-spotify`) | session, cached credentials, command queue, backlog, snapshot | pair, connect, restart, retry, commands with deadlines | `SpotifyProvider` over `SpotifyConnect` and `SpotifySoloist`, `SpotifyCommands` |
| Bluetooth and PipeWire (`WEB/bluetooth.rs`) | status, operation, loopback, semaphores | poll, operate, set default sink, sync the loopback | `Bluetooth`, the part towards the engine in `AudioRouting` |
| Network (`WEB/network.rs`, `HELPER/network_helper.rs`) | permit; profiles on disk and in NetworkManager | connect | `WifiConnect` |
| Updates and deployment (`deploy/*.sh`, `HELPER`, `WEB/updates.rs`) | checkout, release pointer, releases, cache, status file, locks | check, install, stage, switch, activate, restart, roll back, prune | `Deployment` |
| Configuration, protocol types, engine client, binaries | none that changes | validate, encode, one request per socket | not modelled |
| Frontend | browser | calls the routes | not modelled |

### How they interact

```
 browser -> routes -> ControlPlane task --EngineHandle.request--> command queue
   ^                    |    ^                                        |
   +-- LiveStreams   settings file  tick, 1 s                    dispatcher
                                                    configure, scene, | shutdown
 Spotify --PCM--> ingress --> audio worker --audio update--> work queue (mutex,
 PipeWire monitor ----------->   ^                           2 condvars) <-- frame
                                 |                             |         ^  streams
                                 +--- acknowledgements --- output thread  scheduler
                                      (RuntimeHealth)          |           thread
                                                            SPI devices
```

- `EngineHandle::request` uses a bounded channel and a reply channel. A request
  that was sent is executed even if the sender is gone.
- The dispatcher is one thread; it configures, submits scenes, and shuts the
  workers down by closing the queue and joining three threads.
- The work queue is one mutex with two condition variables, shared by five
  kinds of threads; the health record is a second mutex that nests in it.
- The control plane is one tokio task. It awaits the engine, PipeWire, BlueZ and
  the Spotify provider while it holds a candidate model; the HTTP caller or a
  deadline may drop the awaiting future.
- The updater, the timer's check and the dashboard share one status file and two
  locks; the launcher compares the release pointer with the checkout.

### What is hard here

Latest-wins queues whose counters must stay exact (`OutputWorker`); flags and a
failure record read without a common lock while workers die (`EngineControl`);
acknowledgements that travel back through another thread (`EventDelivery`); beat
arithmetic spread over four coordinators (`AnimationCoordination`); a source
switch with six timeouts (`AudioSource`); dropped futures, failing saves and
failing rollbacks (`ControlPlane`, `AudioRouting`, `PlayerName`); commands whose
acknowledgement carries only a name (`SpotifySoloist`); power cuts, signals and
kills between the commands of a shell script (`Deployment`, `WifiConnect`).
`PROJECT.json` lists each hazard at its line with the properties that cover it.

## 2. The modules

One action is one critical section, or one step between two points at which
another actor can act. History variables exist only for the properties and are
marked `ghost` or in the `VARIABLES` comments.

**`OutputWorker`.** `commands`, `commandPending`, `closed`, `slots`,
`pendingFrame`, `pendingRender`, `schedule` and `lastRequest` are the fields of
`WorkQueue`; `configured`, `lastSequence`, `sceneRevision` and `unaccounted` are
those of `RuntimeHealth` that decide something, the counters reduced to the
difference that must be zero. `opened`, `open` and `lit` are the `OutputSet` and
its LEDs. A frame is its sequence number and a stamp, in the order of acceptance.
Devices may fail at any open, write or blackout. The scheduler sleeps until a
deadline; the model lets it pass at any moment.

**`EngineControl`.** A worker runs, finishes when told, or panics; `stored` says
whether its join handle is still there, `poisoned` is the queue mutex after a
panic. The caller steps (`check`, `send`, `wait`, ...) are the points between two
reads of shared flags. A caller comes by its handle and by a socket in turn.

**`EventDelivery`.** The pending events are always a range, so the history is
`trimmed` and `structureSequence`. `rendering` says whether the render in flight
still belongs to the scheduled request, which decides whether its
acknowledgement counts.

**`AnimationCoordination`** is `advance_cycle_after_render` for one output, in the
order of the code: beat clock, music gate, sequence, Dynamic choice,
quantization, cycle, overlays; and what `submit_render_ordered` keeps of a scene.
`BeatClock`, `SequenceCoordinator`, `QuantizedSwitch` and `EffectSchedule` are its
parts, one per source file, without variables of their own. Scores are reduced
to which animation is best and by how much. Onsets come at any distance, with the
time they happened at, before the frame that reports them; they move the grid of
beats either way and draw its tempo or replace it. What the code computes between two
ticks is rounded to either of them, so an onset leaves one of several clocks; whether
an unsteady clock is trusted is a free choice of each frame (`doubt`). A frame
reports one onset at most.

**`AnimationMotion`, `EffectMotion`, `RenderStage`.** What an animation or effect
instance keeps between frames (heads, phases, levels, bursts) and the pixels it
lights; and which instance an output's renderer keeps, replaces or fades for a
request, with the power limit over all outputs. Colors are left out; levels and
speeds are whole steps.

**`AudioSource`.** Instants are ages and deadlines are waits, in ticks, with
`Oldest` as the cap beyond which ages are not told apart. One poll is a sequence
of steps (`observe`, `judge`, `capture`, `probe`, `listen`, `reopen`), because
Spotify's threads change playback, generation and input time between its reads.
`settled` marks a world that does not change any more.

**`PcmPipeline`.** The queue of the ingress, the device's queue, the reader of the
worker's session and the pending beats. A batch is one unit of position.

**`StructureTracker`.** Loudness is one of four levels, cut where the code compares
it; a rise or jump in the history is nondeterministic where the history is long
enough to show one. Timestamps are ages.

**`IpcServer`.** A connection's thread by the reads it waits in; requests of both
protocols reach the dispatcher; a configuration that timed out may be applied
later. `layout` is what the legacy side remembers.

**`ControlPlane`.** `model` is `ControlModel`, `store` the settings file and its
copy, `work` the candidate of the command at work and `stage` the await at which
it is. `requests` are on their way to the engine, which executes them in order
whether anybody still waits or not. A scene is what it shows, `SceneOf(model)`.
`torn` remembers which part of the engine a dropped command or a failed rollback
has left in doubt; `late` and `faults` count the reasons.

**`AudioRouting`.** A handler is a set of outcomes, each with the record it leaves:
done, refused, failed, or cut at an await when its deadline passed. PipeWire's
default source, the phone, the player and the microphones change between
handlers.

**`Preferences`, `AudioCalibration`, `PlayerName`.** The commands of the control plane
that keep scoped settings, measure the microphone, and rename the player. A
command of `Preferences` is one step; that it is saved and shown as a whole or not
at all is what `ControlPlane` shows.

**`LiveStreams`.** `PairingAuth`, the publishers as writers of watch channels with a
version each, and the tasks of two kinds of WebSockets, the `select!` of each as a
choice among its ready branches.

**`SpotifyProvider`** has the two backends as alternatives, chosen by the
configuration: `SpotifyConnect` is the embedded player's supervisor,
`SpotifySoloist` the external one's. Both extend `SpotifyCommands`, the callers'
side. `CommandPromise` is what a provider promises of a command; the refinement
maps what each backend has sent, and what the player did, to it.

**`Bluetooth`.** Three tasks (poller, operation, caller) with the calls they await and
the semaphores they hold; `loops` are the loopbacks PipeWire has.

**`WifiConnect`.** One action per command of the helper. `files` is the directory,
`known` what NetworkManager loaded, `proven` the profiles that connected.

**`Deployment`.** One action per command of the updater; each succeeds, fails into the
ERR trap, or leaves without it. `chk` is the check that holds the check lock.
`ReleasePromise` is the abstract specification.

### What composes what

`AnimationCoordination` uses its four parts in one step per frame.
`SpotifyProvider` composes both backends with the callers. `MCServices`, `MCLinks`
and `MCFrames` put modules that share no state side by side, as alternatives: a
behaviour is one of a single part. `EventDelivery` refines the schedule of
`OutputWorker`; `AudioSource`'s `arrived` is the view of `PcmPipeline` it needs.

## 3. The runs

| run | module, cfg | properties and what they show |
|---|---|---|
| `output_worker` | `OutputWorker` | `FrameAccounting`, `NoLostWakeup`, `DarkAfterShutdown`, `LatestWins`; `WorkersServe`: shutdown and configure return, scenes and frames reach the output thread |
| `engine_control` | `EngineControl` | `NoWorkerLeft`: the engine ends with its workers down, and `Ok` to Shutdown means it; `FailureHasACause`; `NobodyWaitsForEver` |
| `event_delivery` | `EventDelivery` | `InOrder`: no output skips an event; `EventsReachOutputs`: each reaches each output, unless the worker gives it up or a full history starves the output for good |
| `audio_source` | `AudioSource` | `SourceIsRight`: the source changes only for cause; `SourceSettles` |
| `control_plane` | `MCControlPlane` | `EngineAgrees`, `TopologySurvivesCallers`, `SettingsKept`, `Recovers` |
| `deployment` | `MCDeployment` | `EndsTogether`: checkout, pointer and served release agree; `StatusIsTrue`; `ImplementsPromise`: refines `ReleasePromise` |
| `spotify` | `MCSpotify` | `ImplementsPromise`: refines `CommandPromise`; `KeepsGoing` |
| `audio_routing` | `MCAudioRouting` | `ChoicesKept`: the user's default source and saved tuning survive, but for what failed calls lose; `AutoFollows` |
| `bluetooth` | `Bluetooth` | `OneRoute`: never two loopbacks; `RouteFollows` |
| `frames` | `MCFrames` | `LightComesAndGoes`, `BurstsComeAndGo`, `SceneIsShown` |
| `services` | `MCServices` | `TimesAgree`: steps end at the bar they count to, switches wait for a boundary the clock has and happen there; `ChangesOnTime`: no step is cut short, no beat sets an effect off twice (animation); `OnlyProvenConnect`, `NetworkKept` (Wi-Fi); `PhasesAreConfirmed`: no phase is entered before its own time of sound that asks for it and for no other (structure); `SettingsHold` (preferences); `ProfileIsMeasured` (calibration); `NamesAgree` (rename) |
| `links` | `MCLinks` | `StreamsStayApart` (samples), `SocketsFollow` (browsers), `LegacyDrawsOnItsOwn`, `ServeReturns` (engine socket) |

The cfg of a run has the run's name in camel case. Each property has a mutant in
`PROJECT.json`: one definition changed as a plausible bug would change it, for
which TLC finds the property violated under the same configuration.

### Bounds, and why they are enough

- `OutputWorker`: two devices, two sequence numbers, two accepted submissions, the
  most that interact: the queue holds one frame and one render, and a third
  displaces one of them as the second does. The proofs do not depend on it.
- `EngineControl`: a channel of capacity 1, so that full and empty both occur at
  once; one client beside the owner; two panics, so that a second worker dies
  while the first is dealt with.
- `EventDelivery`: two outputs, a history of 4, five events, so that it overflows. The
  budget is one history for both outputs, as in the code: with more than two events
  pending the second output is not given all of them (finding 4).
- `AudioSource`: the order of the code's timeouts, their values scaled down to 1 to
  3 ticks; ages are capped one above the longest.
- `ControlPlane`: two topologies, two outputs and one, so that a calibrated output
  can disappear; two looks and corrections; three commands, one fault, one late
  command. `MaxLead` bounds how far ticks run ahead of the engine, which only
  compares revisions.
- `Deployment`: two commits, two runs of the updater, one fault. `Qualities` stand for
  the classes of failed checks: none, the digest, a truncated archive that passes
  it, the runtime check.
- `Spotify`: two calls of the same name, for acknowledgements to be confused; a queue
  and a backlog of 1; one account, two names, one selection.
- `AudioRouting`: one phone, one failing or unanswered call. `Bluetooth`: two sinks,
  one caller at a time; calls may fail until `calm`.
- `Frames`: a strip of 4 pixels, speeds of 1 and 2 pixels. A gap of 5 or 6 frames between
  silent beats (12 to 21 in the source) is shorter than the way of some scans over the
  strip and longer than that of others, as on the strips the code drives. Two of each
  counted thing; bursts of 2 and 3 slots.
- `Services`: ticks of about 167 ms. A beat begins with 3 ticks and may come to last 2 to 6
  (`MAX_BPM` to `MIN_BPM`), onsets are 1 to 12 ticks apart or more
  (`MIN_BEAT_INTERVAL_SECONDS` to `MAX_CONTIGUOUS_BEAT_GAP_SECONDS`), bars of 2 beats, frames
  of 1 and 3 ticks, `MaxTime` 12, one scene submitted again. A switch may be one tick late
  (`MaxLateness`), less than half a beat at all tempos but the fastest, so one off the grid
  shows. Two helpers and three profiles; spans and holds of
  the structure tracker in the order of the code; two stripes, two values; two
  devices, two samples are enough; two names.
- `Links`: a queue of 2, positions and generations up to 4; two tokens, one session,
  one failed attempt; two clients, two sizes of an output. The numbers are the
  smallest at which a limit is reached and passed.

A `CHECK_DEADLOCK FALSE` is there where time or counters end (`Services`, `Links`,
`Frames`, `Spotify`, `AudioRouting`) or a world in which everybody left rests (`Bluetooth`).

### Fairness, and why the code justifies it

- Threads and tasks that have something to do run: weak fairness on the output
  thread, the scheduler, the dispatcher, the updater's commands, the tokio tasks.
  None for clients, streams, device failures, panics, users or signals.
- `EventDelivery`: strong fairness on `Rendered(MaxEvents)`: among the renders that
  finish, some see all events of their snapshot. With audio updates that always
  arrive during a render the code acknowledges nothing; whether that can happen
  depends on frame rates the untimed model does not know.
- `AudioSource`, `BeatClock` and the tick of `AudioRouting`: polls go on, time passes.
- `Spotify`: `select!` picks among ready branches at random, so a branch that is ready
  again and again is taken; strong fairness on `Restart`, and on `Opened` and
  `Connected`: an attempt that is repeated for ever succeeds at last.
- `LiveStreams`: strong fairness on `SessionTick`, an interval in the same `select!`
  as the changes it competes with.
- `Deployment`: the timer's check starts again and again, and the updater goes on.

### Refinements

`Deployment` implements `ReleasePromise`: the pointer is `active`, whole releases are
those that pass `Whole`, and the fallback is the previous commit from the preflight to
the end of the run. `SpotifyProvider` implements `CommandPromise`: an
`answer` is what the caller got, `delivered` what was written to the player,
`confirmed` what the player did. "Undelivered" excludes a delivery for either backend.
"Disconnected" does so only where the answers are `definite`, which they are of Soloist:
librespot gives it for commands it has dispatched, too (finding 21). What Soloist is taken
to say is `clear` until an error that was not about a command has answered one in the same
session (`misled`, finding 13); no later answer of that session is relied upon.

### What the checks found

Each disagreement was found while a property was stated; the models say what the
code does, and the properties are stated so that they hold of it.

1. `RT/lib.rs:4627` A configuration whose blackout fails drops the old outputs; a
   later shutdown answers `Ok` while their LEDs are lit (hence `abandoned`).
2. `RT/lib.rs:3288` During a graceful shutdown a health check can find the output
   thread finished and its handle still stored, and reports that it "terminated
   unexpectedly".
3. `RT/lib.rs:184` `EngineRuntime::shutdown` loads `accepting` twice; a failure
   between the loads is not reported.
4. `RT/audio_worker.rs:1044` The event budget is one history (256), filled output by
   output: where the first outputs' shares of a full history spend it, the last output is
   not given the newest events, acknowledges nothing newer, and the history stays full: it
   is starved for good. `EventsReachOutputs` excuses exactly that (`Starved`).
5. `RT/audio_worker.rs:1158` Playback that resumes between two reads of one poll
   gets no first-batch window and falls back to the monitor at once.
6. `WEB/control.rs:1053` A topology change passes a calibration session and may
   remove the output it calibrates; the next correction indexes out of bounds.
7. `RT/lib.rs:4229`, `3965` The accent of a drop is lost when the scheduler was not
   due, contrary to the test at `RT/effect_scheduler.rs:1020`; an overlay started on
   the output is cleared after one frame (`RT/lib.rs:4116`, `4355`); a resubmitted scene shows its template's base
   animation for one frame.
8. `deploy/update.sh:667`-`691` An updater that is cut between the switch of the
   checkout and the activation leaves a state that the launcher (line 21) says the
   updater repairs, and `update.sh:583` refuses to update from.
9. `deploy/update.sh:750` A kill between activation and restart: the next run finds
    nothing to restart and succeeds with the old binary still running; a rollback
    that failed ends likewise.
10. `deploy/update.sh:236` An update to the same commit prunes the real previous
    release, contrary to `deploy/README.md:181` and `243`.
11. `HELPER/update_state.rs:351` The timer's check leaves `release_status` as it was
    beside a new commit: `WEB/updates.rs:677` then offers a release nobody looked at.
12. `crates/lumistripe-spotify/src/lib.rs:500` `is_active` stays set after a new
    pairing; a pairing is lost when discovery ends or the device is renamed while
    connecting with other cached credentials; new credentials that are refused delete
    the cached ones of another account.
13. `WEB/spotify.rs:894`-`904` An "error" that answers the supervisor's own request for the
    state, or that is about no request, is taken for the refusal of the command in flight;
    what the player says afterwards of that command then answers the next of the same name
    (`misled`). A late `TrackChanged` of librespot can confirm the next skip.
14. `WEB/control.rs:3454` A command that fails after the default source went back
    leaves "spotify" active while the engine hears the microphone
    (`deploy/README.md:705`); `3487` a default source that PipeWire does not take after
    the phone was noted keeps the engine off the phone, as the tick returns early.
15. `WEB/bluetooth.rs` A refresh begun while an operation ran overwrites its result
    with "running", contrary to the name of the test at line 1496.
16. `RT/lib.rs:2676` A frame that is rejected discards the schedule all the same;
    `2841` a fresh schedule starts its acknowledgements at 0, so events may be given
    again, which nothing excludes.
17. `HELPER/network_helper.rs:855` A last reload that fails deletes the new profile
    after the old ones, so the profile that `deploy/README.md:357` says is stored is gone; a helper whose client left may
    remove the profile of the next one; a crash leaves an unproven profile, with its
    password, until the next success.
18. `WEB/control.rs:2825` After a rename that failed half-way, saving the old name is
    taken as unchanged and does not repair the player's.
19. In silence confetti (fade over 87 %), disco_sparkle, bpm with little decay and
    strobe_chase with a high duty cycle never go dark; beat_wave and firework bursts
    freeze while there is no audio. On strips longer than the gap of silent beats (12 to 21
    frames; `README.md` has strips of 80 and 24 pixels) rave_scanner and disco_comet that
    bounce, and red_rave_chase, turn before they have been everywhere and leave part of the
    strip dark for good. `LightComesAndGoes` excuses these (`TurnsEarly`, `FlashesOn`).
20. `RT/quantized_switch.rs:83` A delayed switch that waits past its cell keeps the time at
    which the cell started by the clock then, while onsets move the grid: it happens off the
    new one. With a beat of 500 ms and an offset of 440 ms, a switch whose boundary is 500
    waits until 940; an onset at 850 moves the beat to 947.5, and the switch happens at 950.
    `SwitchOnGrid` therefore measures a switch past its cell against the boundary it kept.
21. `crates/lumistripe-spotify/src/lib.rs:1088`, `1092`, `1099`, `1147`, `1171` A command that
    librespot has been given is answered "disconnected" when the session ends, as are those
    that were never dispatched (`524`, `562`, `610`): the caller cannot tell whether to repeat it.
22. `crates/lumistripe-spotify/src/lib.rs:545` A failure to remove the file of refused
    credentials is ignored: the supervisor then waits to be paired although the file still
    has them, and finds them again after a restart (`spoiled`).
23. `WEB/control.rs:3806`-`3810` with `WEB/bluetooth.rs:319`-`326` A `pactl` that fails at its
    2 s timeout may have set the default source; `override_audio_source` then forgets the
    user's, and the next one takes LumiStripe's own source for the user's. `3820`-`3825`
    restoring forgets it before the call that may fail. `UserDefaultKept` excuses these
    (`lost`).

Smaller ones, kept out of the properties: an idle setting for all is shadowed by a
stripe's own from the independent layout (`Preferences`); the buildup by rolling
energy has no end of its own, and faint sound in Idle leaves a candidate as it
is, so its time goes on while nothing asks for it (`StructureTracker`, `AUDIO/structure.rs:224`); an abandoned audio calibration blocks commands until it is
discarded (`AudioCalibration`, `WEB/control.rs:1039`); a preview error without a later
frame stays on a socket, and a valid session may be pushed out by expired ones
(`LiveStreams`); a legacy frame stream of another layout with as many bytes is accepted
(`IpcServer`).

## 4. The proofs

**`OutputWorkerProofs`.** For every set of devices, sequence numbers and every bound on
submissions: `TypeCorrect`, `AccountingIsExact`, `BuffersAreOwned`, `NoWakeupIsLost`,
`RendersAreCurrent`, `OutputsBehindWork`, `ClosingLeadsToBlackout`,
`DarkOnceShutDown` and the action property `LatestAlwaysWins`. They follow from
one inductive invariant, `IInv`. None of the properties is inductive alone:
accounting needs to know that an item in work owns a buffer that is not in the
queue (`BuffersOK`), which needs that at most one configuration is queued or
running and comes before the only shutdown (`CommandsOK`); latest-wins needs the
order of the stamps of what waits (`OrderOK`); darkness needs what the answer in
flight promises about the devices (`DarknessOK`). The proof has one step per
action and per group of conjuncts the action can disturb.

The same module proves `StageShowsTheScene` (`SceneIsShown`) of `RenderStage`, which composes
what the worker writes. `StageInv` says that what is left of a blend and what has passed
since it began stay below its duration, so an old scene is gone in time. That an effect
that stays is not restarted is a count over the two layers at most, by how they are
matched (`ReconfigureKeeps`). That the power stays within the limits needs two facts the
library has only as induction theorems, which take an operator: the sum over a finite set
of outputs is a number, and finitely many fractions have a smallest. Both are proved from
a least counterexample among the subsets.

**`ControlPlaneProofs`.** For any topologies, looks and corrections and every bound:
`TypeCorrect`, `SettingsAreKept` and `CallersStrandNoTopology`. The invariant adds:
what a stage says of the command that is there (`PlacesOK`), that the awaited
request is the last one sent and that an engine refuses to be configured only
for a fault (`AwaitOK`), and that a candidate already holds what committing it
will save (`SavedOK`). Worker steps are reduced to two lemmas: steps that send
the next request (`SendOnOK`) and steps that end the command (`RestOK`).

`EngineStaysInStep` (`EngineAgrees`) and `RefusalsHaveACause` are about the engine. Neither says anything of requests that are still on their
way, and these are what breaks them, so the invariant `EngineInv`, inductive
relative to the one before, is about them: the awaited request is the last and,
once accepted, the engine is as it asked (`LastOK`); older ones exist only while the
scene is in doubt (`AloneOK`); outside a reconfiguration no configuration is among
them while the topology is not in doubt (`TopologyOK`); until the candidate is
accepted the engine shows the model (`ShownOK`); and while nothing is in doubt the
next revision is newer than the engine's (`RevisionOK`).

**`EngineControlProofs`.** For any clients, any capacity of the command queue and any
number of panics: `EngineTypes`, `NoWorkerIsLeft` (`NoWorkerLeft`), `FailuresAreCaused`
(`FailureHasACause`) and `RequestsAreKept`: a request that was sent and not answered is in
the queue or in the dispatcher's hands, and in one of them only. The invariant `EngineInv`
relates the stages of `shutdown_workers` to what each knows of the stages before it: which
join handles are taken, which threads are down, whether the output queue is closed
(`HandlesOK`); a worker that is about to be reported as failed has panicked or was told to
stop (`CausesOK`); and while the dispatcher runs, the commands it holds or finds in the
queue and the callers that wait are in a one-to-one correspondence (`RequestsOK`).

**`DeploymentProofs`.** `DeploymentImplementsPromise`: for any commits, modes and qualities of
releases, and any faults, `Deployment` implements `ReleasePromise`. The invariant
`DeploymentInv` relates what the running script notes to where it is: until the release is
activated the pointer is the previous one, after it the pointer, the checkout and the
target agree, and the previous release is whole for as long as it is the fallback. The
simulation then has three parts: most steps are quiet, they stutter or end the promise's
update; the preflight begins it; installing or building adds a release, activating and
rolling back move the pointer, and pruning discards.
`UpdatesEndTogether` (`EndsTogether`) needs more: what the dashboard serves at each place of
the script and in its trap (`ServedOK`), and that checkout and pointer differ only midway
(`TogetherOK`). From the same invariant follows `SuccessesAreServed`, and `LocksAndTypesHold`
shows that the update lock and the run agree on who holds it: it is the updater's exactly
while a run is at work, and the probe's exactly while a check holds what it has read.

**`AudioPathProofs`** has what brings sound into the engine: the source, the phone's
loopback and the Spotify players.

- `AudioSource`: `TheSourceIsRight` (`SourceIsRight`), an invariant and two action properties,
  for any timeouts and bounds: one input, which fits what was asked for, and a source that
  changes only for a cause. The monitor is left only after `Confirm` batches without a gap;
  that the count of the probe is true is not inductive, and `CountFits` adds what is in the
  queue: batches that follow one another, from where the count is to the last that came.
- `Bluetooth`: `OneLoopback` (`OneRoute`), for any outputs and whatever fails. The route's
  semaphore is a queue of tasks: who works on the loopbacks is its head and who waits is in
  it (`PermitsOK`), so two never work at once; and a loopback is loaded only after the others
  are gone (`LoadsAlone`). A task that is dropped leaves the queue from its middle:
  `LeavesOK` shows that nobody else's place changes hands.
- `SpotifyProvider`: `PlayersKeepThePromise`: for any calls, accounts and lengths of the queue,
  it implements `CommandPromise`. `CommandInv` says that a command is in one place at a
  time: in the queue, pending, on the wire, or its one answer on the way back (`QueuedOK`,
  `PendingOK`, `OnTheWire`), and that, as long as no stray error has answered a command
  (`misled`), an answer on its way is that of the pending command, which has reached the
  player (`InFlightOK`, `TellsApart`).
  Each step of either backend is then a step of the promise or a stutter, and the initial
  states map to its own. `PairingIsNeeded`: the supervisor waits for a pairing only when
  neither it nor the file has credentials (`CredentialsOK`).

**`AnimationProofs`.** `BeatsAgree` (`TimesAgree`) and, the hardest part of it by itself,
`SwitchesKeepTheGrid` (`SwitchOnGrid`), for any scene, tempo, grid, offset and length of a
frame, and for onsets at any distance. The difficulty is that the clock is not the same from
one step to the next: an onset moves the grid under what was scheduled on it, either way, past
the present too, and may change its tempo. So nothing in the invariant (`AnimationInvariant`)
depends on where the grid lies; what it says is that what waits follows the clock:

- the clock is set or not, as a whole, and counts its beats from 1 (`ClockInv`); a reading
  that is trusted has its next beat ahead, on the line of the clock's beats (`ReadOK`,
  `ReadsClock`);
- a step ends at the bar its count leads to: the last bar plus the bars left is the target
  (`SeqOK`);
- a pending switch has its boundary where the clock of this frame has its cell start, for as
  long as the cell lasts, because every frame computes it anew from the clock's reading
  (`Tracks`); that boundary is ahead (`PendingOK`), and it is that of the next cell, or of the
  first that the offset leaves ahead (`Near`). `SelectorOK` keeps this through new scenes,
  which keep a pending switch only under the same grid and offset.

A switch that happens is then one that was pending with the boundary of that very frame's
clock. Each place where a switch is scheduled, tracked or settled has a lemma.

Products and quotients of variables are beyond the SMT solver; the lemmas about them are
stated for the one product or division at hand, and their leaves name it, so that it is an
unknown to the solver.

**`EventDeliveryProofs`.** `EventsComeInOrder` (`InOrder`), for any number of outputs, length
of the history and budget. An acknowledgement may be in the output thread, published, or
read back by the worker; in each place it covers only events that were acted on or given
up (`Covered`), and what keeps it so is that a snapshot has no holes (`NoHoles`): an event
before one in it is in it too or is covered. The least acknowledgement, to which the history
is trimmed, is the minimum of a finite set, which exists by the well-foundedness of its
subsets (`GreatestExists`).

**`ServicesProofs`** holds the proofs of modules that share no state, each for any values of
its constants.

- `WifiConnect`: `OnlyProvenProfilesConnect` and `NetworkIsKept`. That a profile which connects
  by itself has been proven is not inductive: a helper switches its own profile on some steps
  after it proved it, and could in between lose it to another. `WifiInv` adds that one helper
  at most writes each profile, that a helper past the connection has proven its own, and that
  from the moment it removes old profiles the file of its replacement connects by itself, or
  the loss is excused (two helpers at work, or a failed second reload that deletes the
  replacement).
- `AudioRouting`: `ChoicesSurvive` (`ChoicesKept`). Every handler is a set of outcomes, and each
  record in it, errors and cuts included, keeps the user's default source and the saved
  profile (`Good`), whether or not a call that failed has done what it was asked; only where
  the code forgets the user's source at such a call is it `lost`. One lemma per call, and one
  per handler made of calls. While a profile is
  tried out the weaker `AllKeep` holds, until it is saved or taken back.
- `StructureTracker`: `PhasesDoNotFlicker` (`PhasesAreConfirmed`): a phase is entered only after
  the sound has asked for it, and for no other, for the time of its own that the code gives
  it, the longer one for a buildup by rolling energy. `evidence` records what the sound asked for,
  whatever the tracker makes of it; `StructureInv` says that the candidate is what the sound
  asked for last, and no older than that.
- `Preferences`: `SettingsStay` (`SettingsHold`). The invariant adds that what was set for all
  stripes is the shared entry, with no stripe's own left behind it (`SharedAlone`), and that an
  idle setting made for all is what every present stripe shows (`IdleReaches`).
- `AudioCalibration`: `ProfilesAreMeasured` (`ProfileIsMeasured`). The frames counted so far rise, are
  of the session's device, and those of the quiet room come before those of the music
  (`Measured`).
- `PlayerName`: `NamesStayTogether` (`NamesAgree`), from what each place of a rename has written.
- `IpcServer`: `LegacyKeepsItsOutput` (`LegacyDrawsOnItsOwn`).
- `PcmPipeline`: `StreamsAreApart` (`StreamsStayApart`), for any capacity of the queue and any
  number of generations. `PcmInv` says that the reader's
  packet and the worker's batch are of some generation (`OnItsWay`), that a session
  begins with nothing, has an origin from its first batch on and keeps events of the stream
  it reads only (`SessionOK`), and that the analysis has been fed each batch of one stream
  once, in order, and its clock stands there (`ClockIsTheStreams`).

### Assumptions

The named `ASSUME` of each module, and nothing else: sequence numbers are positive naturals,
each topology has outputs, the defaults are among the values, no topology, profile, commit,
caller or device is called "none", the owner of the engine is not one of its clients, the
bounds are naturals and the timeouts fewer ticks than the oldest age. `StructureAssumption`
says that a phase is desired for less long than ages are told apart, which the constants of
`AUDIO/structure.rs` satisfy. `BeatClockAssumption` says that every interval the clock takes
has a multiple or a fraction that is a tempo: the slowest tempo is at most half the fastest
(60 and 200 beats a minute), a beat of the fastest takes at most two shortest intervals (0.3 s and
0.18 s), and the longest interval at most two beats of the slowest (2 s and 1 s). `MotionAssumption`
has strips of two pixels at least and patterns shorter than the strip, and says nothing of the
gap between silent beats. `StageAssumption` says
that no geometry is called "none"; those of the Spotify modules that a call, a reply and
the request for the state are told apart. TLC evaluates every one of them.

### Only model-checked

- everything about liveness and fairness: the prover does not reason about `ENABLED`. That is
  `WorkersServe`, `NobodyWaitsForEver`, `EventsReachOutputs`, `SourceSettles`, `Recovers`,
  `AutoFollows`, `RouteFollows`, `SocketsFollow`, `ServeReturns`, `LightComesAndGoes` and
  `BurstsComeAndGo` with the invariants inside them, and `KeepsGoing` but for the two
  invariants in `PairingIsNeeded`;
- `ChangesOnTime`. `StepKeepsItsBars` compares the bars a step has had with those it `owed`, as
  its sequence gives them: all of them, or, from where the clock came back, fell back or
  skipped bars, those still owed then and one at least. That the count in the session is never below
  it depends on the times at which bars of a moving grid start. `BeatStrikesOnce`, that no
  beat sets an effect off twice though it is predicted, reported and perhaps counted again,
  depends on how many grids are remembered while a beat waits, which the run fixes;
- `StaleRunningHeals`, the part of `StatusIsTrue` about what happens in the end; the others are
  `SuccessesAreServed` and `LocksAndTypesHold`.

## 5. What is not modelled, and why

- Pixels, samples, DSP and floating point. Animations that compute each frame from
  the clock (rainbow, wave, plasma, aurora, police, dance_floor, sinelon), fire and
  comet_storm.
- Encoding, validation and migration of messages and settings, wording of errors,
  logging, telemetry counters other than the frame accounting.
- The beat history, which takes the same path as the structure events; the interval
  and the order of single animations of a cycle.
- `RT/lib.rs:4823` `remove_stale_socket` and the guard of the socket path: two servers
  that start on one path can race there. The engine client.
- Scene updates that another IPC client sends: with them `EngineAgrees` cannot be
  expected of the dashboard.
- The wait in the bounded queue of the control plane, and the text of `engine_error`
  (a rollback's error is wiped by the next health tick).
- The clients of BlueZ and PipeWire, device pairing, and the reading of asset lists:
  only what they decide.
- Archives of the Spotify player, the first installation, the frontend.
- Crashes of the engine process: it persists nothing. External daemons: librespot,
  BlueZ, PipeWire, NetworkManager, systemd; their part is a free choice.

## 6. The plan

The modules and runs above complete the plan for the model. Every safety property that a
run checks is proved for all constants, except `ChangesOnTime`. What is left:

1. `ChangesOnTime`: for `StepKeepsItsBars` an invariant that relates `owed` to the bars a session
   has left; for `BeatStrikesOnce` the assumption that more grids are remembered than pass
   while a beat waits.
2. The liveness of the output worker and the control plane, when the prover can reason
   about `ENABLED`; the invariants such proofs need are there.

To be modelled if the code grows there: the ownership of the socket path, and the interval
and order of single animations in a cycle.
