----------------------------- MODULE ControlPlane -----------------------------
(***************************************************************************)
(* The control plane of the dashboard, apps/lumistripe-web/src/control.rs: *)
(* one task owns the control model and the settings file, takes commands   *)
(* one at a time, and keeps both in step with the engine through requests  *)
(* it awaits.  A command's future may be dropped at any await: because its *)
(* HTTP caller left, unless it is a transaction that finishes without it,  *)
(* or because its deadline passed.  A request that was sent is executed by *)
(* the engine all the same.                                                *)
(*                                                                         *)
(* A scene is what it shows: the outputs it is made for, the playback look *)
(* (mode, colour, animation, brightness, blackout), the colour corrections *)
(* and the output under calibration.  The settings file holds the topology,*)
(* the corrections and the remembered look; every other command that       *)
(* persists a category goes the way of a remembered look.  Commands wait   *)
(* in a bounded queue for their turn, and one whose caller has left before *)
(* is skipped: only the command at work is modelled.  AudioRouting has the *)
(* audio commands, AudioCalibration the microphone's, and PlayerName the   *)
(* renaming; the text of engine_error is left out.                         *)
(***************************************************************************)
EXTENDS Integers, Sequences

CONSTANTS
  Topologies,    \* stripe topologies a user may apply
  Outputs,       \* how many outputs each of them has
  Initial,       \* the topology of the settings file at startup
  Looks,         \* playback states a user may choose
  Colors,        \* colour corrections
  Default,       \* in Looks and Colors: their initial value
  MaxCommands,   \* bound: commands issued
  MaxFaults,     \* bound: engine requests that fail for a reason of their own
  MaxLate,       \* bound: commands overtaken by their deadline
  MaxLead        \* bound: how far ticks run ahead of the engine's revision

ASSUME ControlPlaneAssumption ==
  /\ Outputs \in [Topologies -> Nat \ {0}]
  /\ Initial \in Topologies /\ Default \in Looks \intersect Colors
  /\ "test" \notin Looks /\ "none" \notin Topologies
  /\ MaxCommands \in Nat /\ MaxFaults \in Nat /\ MaxLate \in Nat
  /\ MaxLead \in Nat \ {0}

VARIABLES
  model,     \* ControlModel: revision, look, settings, calibration session
  store,     \* SettingsStore: the file and its copy in memory
  engine,    \* what the engine runs: topology, scene, last revision
  requests,  \* requests sent to the engine and not yet executed
  answer,    \* its answer to the request the worker awaits
  stage,     \* the await at which the worker is
  work,      \* the command at work, its candidate and whether it reconfigures
  torn,      \* history: how far the engine may have left the model
  commands, faults, late, lastSave

vars == <<model, store, engine, requests, answer, stage, work, torn,
          commands, faults, late, lastSave>>

Settings == [topology : Topologies, colors : Colors, playback : Looks]
None == "none"
NoSession == [output |-> 0, original |-> Default, stale |-> FALSE]
InSession == model.session # NoSession

SceneOf(m) == [topology |-> m.settings.topology, look |-> m.look,
               colors |-> m.settings.colors, shown |-> m.session.output]
NoScene == [topology |-> Initial, look |-> "dark", colors |-> Default, shown |-> 0]

NoWork == [kind |-> None, candidate |-> None, reconfigure |-> FALSE]

InitialSettings == [topology |-> Initial, colors |-> Default, playback |-> Default]

\* AppState::start: the engine is configured and runs the initial scene.
Init ==
  /\ model = [revision |-> 1, look |-> Default, settings |-> InitialSettings,
              session |-> NoSession]
  /\ store = [file |-> InitialSettings, memory |-> InitialSettings]
  /\ engine = [topology |-> Initial, scene |-> SceneOf(model), revision |-> 1]
  /\ requests = <<>> /\ answer = None
  /\ stage = "idle" /\ work = NoWork /\ torn = {}
  /\ commands = 0 /\ faults = 0 /\ late = 0 /\ lastSave = "ok"

-----------------------------------------------------------------------------
(* The engine executes requests in the order they were sent.               *)

Configure(t) == [kind |-> "configure", topology |-> t, revision |-> 0,
                 scene |-> NoScene]
Update(m, r) == [kind |-> "scene", topology |-> None, revision |-> r,
                 scene |-> SceneOf(m)]

Awaiting == stage \notin {"idle", "showing", "dead"}

\* The worker awaits the request it sent last; earlier ones were abandoned.
Reply(a) ==
  /\ requests' = Tail(requests)
  /\ answer' = IF Awaiting /\ Len(requests) = 1 THEN a ELSE answer

Unconfigured(t) == [topology |-> t, scene |-> NoScene, revision |-> 0]

ExecuteConfigure ==
  /\ requests # <<>> /\ Head(requests).kind = "configure"
  /\ engine' = Unconfigured(Head(requests).topology)
  /\ Reply("accepted")
  /\ UNCHANGED <<model, store, stage, work, torn, commands, faults, late, lastSave>>

\* A device cannot be opened, or the configuration outlasts CONFIGURE_TIMEOUT
\* and takes effect after its error was reported.
ConfigureFails ==
  /\ requests # <<>> /\ Head(requests).kind = "configure"
  /\ faults < MaxFaults /\ faults' = faults + 1
  /\ \E t \in {None, Head(requests).topology} : engine' = Unconfigured(t)
  /\ Reply("refused")
  /\ UNCHANGED <<model, store, stage, work, torn, commands, late, lastSave>>

Accepts(u) ==
  /\ u.revision > engine.revision
  /\ engine.topology # None
  /\ Outputs[u.scene.topology] = Outputs[engine.topology]

ExecuteScene ==
  /\ requests # <<>> /\ Head(requests).kind = "scene"
  /\ LET u == Head(requests) IN
       IF Accepts(u)
         THEN /\ engine' = [engine EXCEPT !.scene = u.scene, !.revision = u.revision]
              /\ Reply("accepted")
         ELSE UNCHANGED engine /\ Reply("refused")
  /\ UNCHANGED <<model, store, stage, work, torn, commands, faults, late, lastSave>>

\* The engine's command queue is full, or its dispatcher refuses the request.
Busy ==
  /\ requests # <<>>
  /\ faults < MaxFaults /\ faults' = faults + 1
  /\ Reply("refused")
  /\ UNCHANGED <<model, store, engine, stage, work, torn, commands, late, lastSave>>

Engine == ExecuteConfigure \/ ConfigureFails \/ ExecuteScene \/ Busy

-----------------------------------------------------------------------------
(* apply_command: a command becomes a candidate and a first request.       *)

Send(r) == requests' = Append(requests, r) /\ answer' = None

NextRevision == model.revision + 1

\* A command that renders its candidate as the next scene.
Render(kind, candidate) ==
  LET c == [candidate EXCEPT !.revision = NextRevision] IN
  /\ work' = [kind |-> kind, candidate |-> c, reconfigure |-> FALSE]
  /\ stage' = "scene"
  /\ Send(Update(c, NextRevision))

Take ==
  /\ stage = "idle" /\ commands < MaxCommands
  /\ commands' = commands + 1
  /\ UNCHANGED <<model, store, engine, torn, faults, late, lastSave>>

\* SetMode, SetBrightness, SelectAnimation and SetBlackout, with a shared
\* target remembered in the settings or not.
SetLook(l, remember) ==
  /\ Take
  /\ ~InSession
  /\ Render(IF remember THEN "remembered" ELSE "look",
            [model EXCEPT !.look = l,
                          !.settings.playback = IF remember THEN l ELSE @])

StartCalibration(output) ==
  /\ Take
  /\ ~InSession /\ output \in 1..Outputs[model.settings.topology]
  /\ Render("calibration",
            [model EXCEPT !.session = [output |-> output, stale |-> FALSE,
                                       original |-> model.settings.colors]])

\* candidate.outputs[session.output_index] is evaluated unchecked.
UpdateCalibration(c) ==
  /\ Take
  /\ InSession /\ ~model.session.stale
  /\ IF model.session.output \in 1..Outputs[model.settings.topology]
       THEN Render("calibration", [model EXCEPT !.settings.colors = c])
       ELSE stage' = "dead" /\ UNCHANGED <<requests, answer, work>>

Kept(m)     == [m EXCEPT !.session = NoSession]
Restored(m) == [m EXCEPT !.session = NoSession,
                         !.settings.colors = m.session.original]

FinishKeeps(save) ==
  /\ Take
  /\ InSession /\ ~model.session.stale
  /\ Render(IF save THEN "corrected" ELSE "calibration", Kept(model))
FinishCalibration(save) ==
  /\ Take
  /\ InSession /\ ~model.session.stale
  /\ IF save THEN Render("corrected", Kept(model))
             ELSE Render("calibration", Restored(model))

\* A topology change, or a test of an output under the topology proposed.
Reconfigure(kind, t, candidate) ==
  LET c == [candidate EXCEPT !.revision = NextRevision, !.settings.topology = t]
      changed == t # model.settings.topology
  IN /\ work' = [kind |-> kind, candidate |-> c, reconfigure |-> changed]
     /\ stage' = IF changed THEN "configure" ELSE "scene"
     /\ Send(IF changed THEN Configure(t) ELSE Update(c, NextRevision))

\* apply_command lets both pass a colour calibration session.
SetStripeTopology(t) == Take /\ Reconfigure("topology", t, model)
TestStripe(t) ==
  Take /\ Reconfigure("test", t, [model EXCEPT !.look = "test", !.settings.colors = Default])

Command ==
  \/ \E l \in Looks, remember \in BOOLEAN : SetLook(l, remember)
  \/ \E t \in Topologies : SetStripeTopology(t) \/ TestStripe(t)
  \/ \E output \in 1..2 : StartCalibration(output)
  \/ \E c \in Colors : UpdateCalibration(c)
  \/ \E save \in BOOLEAN : FinishCalibration(save)

-----------------------------------------------------------------------------
(* The worker: answers, saves, rollbacks and dropped futures.              *)

Rest == stage' = "idle" /\ work' = NoWork /\ answer' = None

Persisted(m, kind) ==
  CASE kind = "topology"   -> [store.memory EXCEPT !.topology = m.settings.topology]
    [] kind = "corrected"  -> [store.memory EXCEPT !.colors = m.settings.colors]
    [] kind = "remembered" -> [store.memory EXCEPT !.playback = m.settings.playback]

Transactions == {"topology", "test"}
Saves == {"topology", "corrected", "remembered"}
Finishes == {"topology", "test", "calibration", "corrected"}

\* What the engine has acknowledged settles what was in doubt.
Settled == {"scene"} \union (IF work.reconfigure THEN {"topology"} ELSE {})

Commit ==
  /\ model' = work.candidate
  /\ torn' = torn \ Settled
  /\ Rest /\ UNCHANGED requests

\* rollback_topology and the end of a test go back to the model, one
\* revision on.
GoBackSceneOnly ==
  stage' = "restore" /\ Send(Update(model, work.candidate.revision + 1))
GoBack ==
  IF work.reconfigure
    THEN stage' = "restoreConfigure" /\ Send(Configure(model.settings.topology))
    ELSE stage' = "restore" /\ Send(Update(model, work.candidate.revision + 1))

Undo == stage' = "undo" /\ Send(Update(model, work.candidate.revision + 1))

Unchanged == UNCHANGED <<engine, commands, faults, late>>

\* replace_categories: the file is renamed into place and then the copy in
\* memory is replaced; writing may fail, and so may the sync of the directory
\* after the rename.
SaveSucceeds ==
  /\ store' = [file |-> Persisted(work.candidate, work.kind),
               memory |-> Persisted(work.candidate, work.kind)]
  /\ lastSave' = "ok"
SaveFails ==
  /\ store' \in {store, [store EXCEPT !.file = Persisted(work.candidate, work.kind)]}
  /\ lastSave' = "failed"

SceneAccepted ==
  /\ stage = "scene" /\ answer = "accepted"
  /\ \/ /\ work.kind = "test"
        /\ stage' = "showing" /\ answer' = None
        /\ UNCHANGED <<model, store, requests, work, torn, lastSave>>
     \/ /\ work.kind \in Saves
        /\ SaveSucceeds /\ Commit
     \/ /\ work.kind \in Saves
        /\ SaveFails
        /\ IF work.kind = "topology" THEN GoBack ELSE Undo
        /\ UNCHANGED <<model, work, torn>>
     \/ /\ work.kind \notin Saves \union {"test"}
        /\ Commit /\ UNCHANGED <<store, lastSave>>
  /\ Unchanged

SceneRefused ==
  /\ stage = "scene" /\ answer = "refused"
  /\ IF work.kind \in Transactions
       THEN GoBack /\ UNCHANGED work
       ELSE Rest /\ UNCHANGED requests
  /\ Unchanged /\ UNCHANGED <<model, store, torn, lastSave>>

\* The rollback revision is kept whether it was acknowledged or not.
RollbackRevision == model' = [model EXCEPT !.revision = work.candidate.revision + 1]

Undone ==
  /\ stage = "undo" /\ answer # None
  /\ RollbackRevision
  /\ torn' = IF answer = "accepted" THEN torn \ {"scene"} ELSE torn \union {"scene"}
  /\ Rest
  /\ Unchanged /\ UNCHANGED <<store, requests, lastSave>>

Configured ==
  /\ stage = "configure" /\ answer # None
  /\ IF answer = "accepted"
       THEN stage' = "scene" /\ Send(Update(work.candidate, work.candidate.revision))
       ELSE GoBack
  /\ Unchanged /\ UNCHANGED <<model, store, work, torn, lastSave>>

\* After 3 s.
TestEnds ==
  /\ stage = "showing"
  /\ GoBack
  /\ Unchanged /\ UNCHANGED <<model, store, work, torn, lastSave>>

RestoreConfigured ==
  /\ stage = "restoreConfigure" /\ answer # None
  /\ IF answer = "accepted"
       THEN /\ stage' = "restore"
            /\ Send(Update(model, work.candidate.revision + 1))
            /\ UNCHANGED <<work, torn>>
       ELSE torn' = torn \union Settled /\ Rest /\ UNCHANGED requests
  /\ Unchanged /\ UNCHANGED <<model, store, lastSave>>

RestoredScene ==
  /\ stage = "restore" /\ answer # None
  /\ IF answer = "accepted"
       THEN RollbackRevision /\ torn' = torn \ Settled
       ELSE torn' = (torn \ Settled) \union {"scene"} /\ UNCHANGED model
  /\ Rest
  /\ Unchanged /\ UNCHANGED <<store, requests, lastSave>>

\* The future of apply_command is dropped where it waits.
Abandon(doubt) ==
  /\ stage \notin {"idle", "expire", "dead"}
  /\ torn' = torn \union doubt
  /\ Rest
  /\ UNCHANGED <<model, store, engine, requests, commands, faults, lastSave>>

\* reply.closed() in the worker's select.
AnyCallerLeaves == Abandon(Settled) /\ UNCHANGED late
CallerLeaves ==
  /\ work.kind \notin Finishes
  /\ Abandon(Settled)
  /\ UNCHANGED late

\* timeout_at: the deadline counts from the moment the caller sent the command.
DeadlinePasses ==
  /\ answer = None
  /\ late < MaxLate /\ late' = late + 1
  /\ Abandon(Settled)

-----------------------------------------------------------------------------
(* The state tick, once a second while no command is at work.              *)

\* The engine compares revisions: how far the model is ahead does not matter.
Unbumped(m) == m
Bumped(m) ==
  [m EXCEPT !.revision = IF @ < engine.revision + MaxLead THEN @ + 1 ELSE @]

\* COLOR_CALIBRATION_TIMEOUT since the last activity; only looked at when a
\* command or a tick begins.
SessionGoesStale ==
  /\ stage = "idle" /\ InSession /\ ~model.session.stale
  /\ model' = [model EXCEPT !.session.stale = TRUE]
  /\ UNCHANGED <<store, engine, requests, answer, stage, work, torn, commands,
                 faults, late, lastSave>>

TickBumps ==
  /\ stage = "idle" /\ ~(InSession /\ model.session.stale)
  /\ Bumped(model) # model
  /\ model' = Bumped(model)
  /\ UNCHANGED <<store, engine, requests, answer, stage, work, torn, commands,
                 faults, late, lastSave>>

TickExpires ==
  /\ stage = "idle" /\ InSession /\ model.session.stale
  /\ LET c == [Restored(model) EXCEPT !.revision = NextRevision] IN
       /\ work' = [kind |-> "expire", candidate |-> c, reconfigure |-> FALSE]
       /\ Send(Update(c, NextRevision))
  /\ stage' = "expire"
  /\ UNCHANGED <<model, store, engine, torn, commands, faults, late, lastSave>>

ExpiryAnswered ==
  /\ stage = "expire" /\ answer # None
  /\ IF answer = "accepted"
       THEN model' = Bumped(work.candidate) /\ torn' = torn \ {"scene"}
       ELSE model' = Bumped(model) /\ UNCHANGED torn
  /\ Rest
  /\ Unchanged /\ UNCHANGED <<store, requests, lastSave>>

Tick == TickBumps \/ TickExpires
Worker ==
  \/ SceneAccepted \/ SceneRefused \/ Undone \/ Configured \/ TestEnds
  \/ RestoreConfigured \/ RestoredScene \/ ExpiryAnswered

\* No command is left to issue, or the worker's task has panicked.
Quiet ==
  /\ requests = <<>>
  /\ stage = "dead" \/ (stage = "idle" /\ commands = MaxCommands)
  /\ UNCHANGED vars

Next ==
  \/ Command \/ Worker \/ Engine \/ Tick
  \/ CallerLeaves \/ DeadlinePasses \/ SessionGoesStale
  \/ Quiet

\* The engine answers what it was sent, the worker takes the answers, and the
\* interval ticks while the worker is idle.
Fairness == WF_vars(Engine) /\ WF_vars(Worker) /\ WF_vars(Tick)

Spec == Init /\ [][Next]_vars /\ Fairness

-----------------------------------------------------------------------------
(* Properties.                                                             *)

Sessions == [output : 1..2, original : Colors, stale : BOOLEAN] \union {NoSession}
Models == [revision : Nat, look : Looks \union {"test"}, settings : Settings,
           session : Sessions]
Scenes == [topology : Topologies, look : Looks \union {"test", "dark"},
           colors : Colors, shown : 0..2]

Requests == [kind : {"configure", "scene"}, topology : Topologies \union {None},
             revision : Nat, scene : Scenes]
Works == [kind : Finishes \union {"look", "remembered", "expire"},
          candidate : Models, reconfigure : BOOLEAN]

TypeOK ==
  /\ model \in Models
  /\ store \in [file : Settings, memory : Settings]
  /\ engine \in [topology : Topologies \union {None}, scene : Scenes, revision : Nat]
  /\ requests \in Seq(Requests)
  /\ answer \in {None, "accepted", "refused"}
  /\ stage \in {"idle", "scene", "undo", "configure", "showing", "restoreConfigure",
                "restore", "expire", "dead"}
  /\ stage \notin {"idle", "dead"} => work \in Works
  /\ stage = "idle" => work = NoWork
  /\ torn \subseteq {"scene", "topology"}
  /\ commands \in 0..MaxCommands /\ faults \in 0..MaxFaults /\ late \in 0..MaxLate
  /\ lastSave \in {"ok", "failed"}

\* Between commands the engine runs what the model says, unless a command
\* dropped in mid-flight or a rollback that failed left it in doubt: every
\* other way out of a command has committed all of it or restored all of it.
EngineAgrees ==
  stage = "idle" =>
    /\ "scene" \notin torn => engine.scene = SceneOf(model)
    /\ "topology" \notin torn => engine.topology = model.settings.topology

\* A caller that leaves never strands the engine on another topology: only a
\* deadline, or an engine that fails twice, can.
TopologySurvivesCallers == "topology" \in torn => late > 0 \/ faults > 0

\* While nothing is in doubt the engine refuses no scene: the revision of the
\* model never falls behind the engine's.
RefusedForCause == answer = "refused" => faults > 0 \/ torn # {}

\* Outside a calibration session the model holds exactly the saved settings,
\* whatever the session tried, and the file differs from them only when the
\* last save failed.
SettingsKept ==
  /\ stage = "idle" /\ ~InSession => model.settings = store.memory
  /\ store.file # store.memory => lastSave = "failed"

\* A forgotten session ends and gives the lights back, and the revisions a
\* dropped command has used up are passed, so that commands are accepted again.
Recovers ==
  /\ (InSession /\ model.session.stale) ~>
       (~InSession \/ "topology" \in torn \/ stage = "dead")
  /\ <>[](model.revision >= engine.revision \/ stage = "dead")

=============================================================================
