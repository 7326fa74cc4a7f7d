------------------------ MODULE AnimationCoordination ------------------------
(* What one output shows from frame to frame (crates/lumistripe-engine-      *)
(* runtime/src/lib.rs: advance_cycle_after_render): the beat clock is read,  *)
(* the music gate heard, a sequence followed, a Dynamic choice made and held *)
(* back to the grid, a fixed cycle turned and the overlay effects scheduled. *)
(* A new scene (submit_render_ordered) keeps what its configuration shares   *)
(* with the scene before.  Scores, seeds and colours are left out: a frame   *)
(* says which animation scores best and by how much.                         *)
EXTENDS SequenceCoordinator, QuantizedSwitch, EffectSchedule

CONSTANTS
    Order,              \* the choices of the cycling configuration
    Scenes, Later,      \* the scenes, and those that may follow each
    Sounds,             \* [Scenes -> what a frame may hear]
    Gaps,               \* ticks between two frames
    ActivationDelay, IdleFrames,            \* RenderMusicActivityConfig
    MinShow, MaxShow, SwitchCooldown,       \* RenderDynamicSelector durations
    CycleInterval, Fade,                    \* interval_ns, transition_duration_ns
    MaxTime, MaxSubmits                     \* bounds

(* owed is not in the code: the bars the step on show still has to last, as  *)
(* its sequence gives them and the beat clock counts them.                   *)
VARIABLES scene, now, output, clock, selector, seq, effects, turned, submits, owed

vars == <<scene, now, output, clock, selector, seq, effects, turned, submits, owed>>

Animations == ToSet(Order)
SceneType ==
    [base : Animations, mode : {"dynamic", "cycle"}, shuffle : BOOLEAN,
     quantization : Quantizations, offset : Int, gate : BOOLEAN,
     idle : {"none", "off", "solid", "animation"}, repeat : BOOLEAN,
     effects : BOOLEAN, bars : Seq(Nat) \cup {None}, steps : Seq(Animations)]
SoundType ==
    [new : BOOLEAN, music : BOOLEAN, best : Animations, lead : {"none", "half", "full"},
     section : BOOLEAN, drop : BOOLEAN, beat : BOOLEAN, lag : Nat,
     hint : Periods \cup {None}, strong : BOOLEAN, impact : BOOLEAN,
     onset : BOOLEAN, doubt : BOOLEAN]

ASSUME CoordinationAssumption ==
    /\ Order \in Seq(Animations) /\ Scenes \subseteq SceneType
    /\ \A s \in Scenes : Sounds[s] \subseteq SoundType /\ Later[s] \subseteq Scenes
    /\ \A s \in Scenes : s.bars # None => s.bars # <<>> /\ Len(s.bars) = Len(s.steps)
    /\ IdleFrames \in Nat \ {0} /\ Gaps \subseteq Nat
    /\ {ActivationDelay, MinShow, MaxShow, SwitchCooldown, CycleInterval,
        Fade, MaxTime, MaxSubmits} \subseteq Nat

(* -- the music gate -------------------------------------------------------- *)

NewGate(gated) ==
    [state |-> IF gated THEN "idle" ELSE "music", heard |-> FALSE, quiet |-> 0, since |-> None]

(* MusicActivityTracker::update: music starts after the delay and ends after *)
(* IdleFrames quiet updates in a row.                                        *)
HearMusic(gate, heard, at) ==
    LET since == IF gate.since = None THEN at ELSE gate.since
        quiet == IF heard THEN 0 ELSE gate.quiet + 1
    IN  CASE gate.state = "music" ->
                [gate EXCEPT !.heard = TRUE, !.quiet = quiet,
                             !.state = IF quiet >= IdleFrames THEN "idle" ELSE @]
          [] gate.state # "music" /\ ~heard ->
                [NewGate(TRUE) EXCEPT !.heard = TRUE]
          [] gate.state # "music" /\ heard ->
                IF at - since >= ActivationDelay
                THEN [NewGate(FALSE) EXCEPT !.heard = TRUE]
                ELSE [state |-> "candidate", heard |-> TRUE, quiet |-> 0, since |-> since]

(* -- the Dynamic selector ---------------------------------------------------*)

(* The output of a request: until is the end of its transition. *)
Template(s) ==
    [animation |-> s.base, look |-> "playing", overlay |-> {}, until |-> None,
     structure |-> None]

(* unread: the latest features have not been evaluated yet; shown: the gate  *)
(* state last displayed; changed: base_scene_changed.                        *)
NewSelector(s, template, at) ==
    [initialized |-> FALSE, switchAt |-> at, unread |-> TRUE, pending |-> None,
     gate |-> NewGate(s.mode = "dynamic" /\ s.gate), shown |-> None,
     choice |-> s.base, template |-> template, changed |-> FALSE]

(* select_dynamic_choice: the animation to switch to, or None to stay. *)
SelectChoice(l, current, sound, at) ==
    LET elapsed == at - l.switchAt
        cooled == elapsed >= SwitchCooldown
        ripe == cooled /\ elapsed >= MinShow
        switches ==
            /\ sound.best # current /\ ~sound.drop
            /\ \/ sound.section /\ ripe /\ sound.lead # "none"
               \/ cooled /\ elapsed >= MaxShow
               \/ ripe /\ sound.lead = "full"
    IN  IF ~l.initialized \/ switches THEN sound.best ELSE None

(* When the beat, or the section change, that a frame hears of happened.     *)
EventTime(sound, at) == Monus(at, sound.lag)

InTransition(o, at) == o.until # None /\ at < o.until

(* The output dressed for the gate: what is idle may show something else. *)
Dressed(s, gate, animation, template) ==
    IF gate # "music" /\ s.idle # "none"
    THEN [template EXCEPT !.animation = IF s.idle = "animation" THEN "idle" ELSE animation,
                          !.look = s.idle, !.overlay = {}]
    ELSE [template EXCEPT !.animation = animation]

(* display_changed also compares the overlay the effect scheduler wrote.     *)
DisplayChanged(o, d, l) ==
    \/ o.animation # d.animation \/ o.look # d.look \/ o.overlay # d.overlay
    \/ l.shown # l.gate.state
    \/ l.changed

Show(o, d, l, at) ==
    [d EXCEPT !.until = IF ~DisplayChanged(o, d, l) THEN o.until
                        ELSE IF Fade > 0 THEN at + Fade ELSE None]

(* The gate hears each update of the features once. *)
HearGate(sound, at) ==
    IF scene.gate /\ (sound.new \/ ~selector.gate.heard)
    THEN HearMusic(selector.gate, sound.music, at) ELSE selector.gate

StepSequence(gate, sound, read, at) ==
    UpdateSequence(seq, scene.bars, scene.repeat, read, at, scene.offset,
                   gate.state = "music",
                   IF sound.section THEN EventTime(sound, at) ELSE None)

(* The selector under the gate and the step of this frame: a step that       *)
(* begins is the choice, and nothing pending survives it.                    *)
Under(gate, q, sound, at) ==
    LET activated == selector.gate.state # "music" /\ gate.state = "music"
        begun == [selector EXCEPT !.choice = scene.steps[q.step], !.switchAt = at,
                                  !.pending = None]
        l == IF q.started THEN begun ELSE selector
    IN  [l EXCEPT !.gate = gate, !.initialized = @ /\ ~activated,
                  !.unread = @ \/ sound.new]

(* The choice of an evaluated frame: the first one is taken at once, others  *)
(* wait for the grid.                                                        *)
Settled(l, candidate, fresh, read, at) ==
    IF ~l.initialized /\ candidate # None THEN [pending |-> None, due |-> candidate]
    ELSE UpdateSwitch(l.pending, IF fresh THEN candidate ELSE "keep", scene.quantization,
                      read, at, scene.offset, InTransition(output, at))

Take(l, settled, fresh, at) ==
    LET due == settled.due
    IN  [l EXCEPT !.initialized = @ \/ fresh, !.unread = @ /\ ~fresh,
                  !.pending = settled.pending,
                  !.choice = IF due = None THEN @ ELSE due,
                  !.switchAt = IF due \in {None, l.choice} THEN @ ELSE at]

Choose(l, sound, read, at) ==
    LET fresh == l.unread \/ sound.section \/ sound.drop
        candidate == IF fresh THEN SelectChoice(l, l.choice, sound, at) ELSE None
    IN  Take(l, Settled(l, candidate, fresh, read, at), fresh, at)

Decide(l, q, sound, read, at) ==
    IF l.gate.state = "music" /\ ~ControlsPlayback(q)
    THEN Choose(l, sound, read, at)
    ELSE [l EXCEPT !.pending = None]

(* -- the fixed cycle -------------------------------------------------------- *)

NextChoices(current) ==
    LET place == CHOOSE i \in DOMAIN Order : Order[i] = current
    IN  IF scene.shuffle THEN Animations \ {current}
        ELSE {Order[(place % Len(Order)) + 1]}

(* -- the effects ------------------------------------------------------------ *)

(* The structure of the frame, noted on the output. *)
NoteStructure(o, sound) ==
    IF sound.drop THEN [o EXCEPT !.structure = "drop"]
    ELSE IF sound.section THEN [o EXCEPT !.structure = "section"] ELSE o

(* What the scheduler hears, with the structure that is on the output now.   *)
Heard(sound, o, at) ==
    LET drops == o.structure = "drop" \/ (o.structure # None /\ sound.drop)
    IN  [strong |-> sound.strong, impact |-> sound.impact, onset |-> sound.onset,
         beatAt |-> IF sound.beat THEN EventTime(sound, at) ELSE None, known |-> o.structure # None,
         drop |-> drops, dropPhase |-> drops]

ScheduleEffects(o, sound, read, at, music) ==
    IF scene.effects
    THEN UpdateEffects(effects, Heard(sound, o, at), read, at, scene.offset, music,
                       InTransition(o, at))
    ELSE NoEffects

WithEffects(o, e) == IF scene.effects THEN [o EXCEPT !.overlay = Overlay(e)] ELSE o

(* -- one frame ------------------------------------------------------------- *)

(* A bar is over when the clock reads the next one; where bars are counted   *)
(* anew, one at least is to come.                                            *)
Owed(q) ==
    LET passed == q.lastBar - seq.lastBar
    IN  CASE q.started -> scene.bars[q.step]
          [] ~q.started /\ (q.step = None \/ seq.step = None) -> 0
          [] ~q.started /\ q.step # None /\ seq.step # None ->
                IF seq.valid /\ passed \in {0, 1} THEN Monus(owed, passed)
                ELSE Larger(owed, 1)

(* The rest of a frame, once the output is known. *)
Finish(o, sound, read, at, music) ==
    /\ effects' = ScheduleEffects(o, sound, read, at, music)
    /\ output' = WithEffects(o, effects')

(* update_dynamic_output: the template replaces the output, and with it the  *)
(* structure noted on it.                                                    *)
UpdateDynamic(sound, read, at) ==
    \E gate \in {HearGate(sound, at)} :
    \E q \in {StepSequence(gate, sound, read, at)} :
    \E l \in {Decide(Under(gate, q, sound, at), q, sound, read, at)} :
        /\ seq' = q /\ owed' = Owed(q)
        /\ selector' = [l EXCEPT !.shown = gate.state, !.changed = FALSE]
        /\ Finish(Show(NoteStructure(output, sound),
                       Dressed(scene, gate.state, l.choice, l.template), l, at),
                  sound, read, at, gate.state = "music")
        /\ UNCHANGED turned

TurnCycle(sound, read, at) ==
    LET noted == NoteStructure(output, sound)
    IN  /\ IF at - turned >= CycleInterval
           THEN /\ turned' = at
                /\ \E next \in NextChoices(output.animation) :
                     Finish([noted EXCEPT !.animation = next,
                                          !.until = IF Fade > 0 THEN at + Fade ELSE None],
                            sound, read, at, FALSE)
           ELSE turned' = turned /\ Finish(noted, sound, read, at, FALSE)
        /\ UNCHANGED <<seq, selector, owed>>

(* advance_cycle_after_render *)
Frame(gap, sound) ==
    LET at == now + gap
    IN  /\ at <= MaxTime
        /\ now' = at
        /\ clock' \in (IF sound.beat THEN Observe(clock, EventTime(sound, at), sound.hint)
                      ELSE {clock})
        /\ \E read \in {Reading(clock', at, sound.doubt)} :
              IF scene.mode = "dynamic" THEN UpdateDynamic(sound, read, at)
              ELSE TurnCycle(sound, read, at)
        /\ UNCHANGED <<scene, submits>>

(* -- a scene is submitted -------------------------------------------------- *)

Same(s, fields) == \A field \in fields : s[field] = scene[field]
SameSelector(s) == s.mode = "dynamic" /\ Same(s, {"mode", "quantization", "offset", "gate"})
SameSequence(s) == Same(s, {"bars", "steps", "repeat"})
SameEffects(s) == s.effects /\ Same(s, {"effects", "offset"})

Incoming(s) ==
    [Template(s) EXCEPT !.overlay = IF SameEffects(s) THEN output.overlay ELSE {}]

(* The selector goes on under the new template; another sequence or another  *)
(* base animation starts it again.                                           *)
KeepSelector(s, bumped) ==
    LET other == selector.template.animation # s.base
        fresh == IF SameSequence(s) THEN selector
                 ELSE [selector EXCEPT !.initialized = FALSE, !.unread = TRUE,
                                       !.switchAt = now, !.pending = None]
    IN  [fresh EXCEPT !.initialized = @ /\ ~other, !.pending = IF other THEN None ELSE @,
                      !.choice = IF other \/ bumped THEN s.base ELSE @,
                      !.changed = @ \/ other \/ bumped,
                      !.template = Incoming(s)]

(* submit_render_ordered; bumped: the request carries a new scene revision.  *)
SubmitScene(s, bumped) ==
    /\ submits < MaxSubmits
    /\ submits' = submits + 1
    /\ scene' = s
    /\ output' = Incoming(s)
    /\ selector' = IF SameSelector(s) THEN KeepSelector(s, bumped)
                   ELSE NewSelector(s, Incoming(s), now)
    /\ IF SameSequence(s) THEN UNCHANGED <<seq, owed>> ELSE seq' = NoSession /\ owed' = 0
    /\ effects' = IF SameEffects(s) THEN effects ELSE NoEffects
    /\ turned' = IF output.animation = s.base /\ Same(s, DOMAIN s \ {"base"})
                 THEN turned ELSE now
    /\ UNCHANGED <<now, clock>>

Init ==
    /\ scene \in Scenes
    /\ now = 0 /\ turned = 0 /\ submits = 0
    /\ output = Template(scene)
    /\ selector = NewSelector(scene, output, 0)
    /\ clock = NoClock /\ seq = NoSession /\ effects = NoEffects /\ owed = 0

Next ==
    \/ \E gap \in Gaps, sound \in Sounds[scene] : Frame(gap, sound)
    \/ \E s \in Later[scene], bumped \in BOOLEAN : SubmitScene(s, bumped)

Spec == Init /\ [][Next]_vars

(* -- properties ------------------------------------------------------------ *)

TypeOK ==
    /\ scene \in Scenes /\ clock \in Clocks
    /\ output.animation \in Animations \cup {"idle"} /\ output.overlay \subseteq Categories
    /\ selector.choice \in Animations /\ selector.gate.quiet <= IdleFrames

(* A step in progress ends at the bar where the bars it has left are over,   *)
(* however often the clock was lost, fell back or skipped bars.              *)
StepEndsWhereItCounts ==
    seq.step # None /\ ~seq.done => seq.lastBar + seq.left = seq.target

(* A step goes on for all of its bars, by the count of the beat clock; where *)
(* bars were counted anew (the clock came back, fell back or skipped some),  *)
(* for those it still owed, and one at least.                                *)
StepKeepsItsBars ==
    [][seq' # seq /\ seq'.started /\ seq.step # None =>
         seq'.lastBar - seq.lastBar >= owed]_vars

(* When a clock has a cell of the scene's grid start, and the cell it reads. *)
CellStart(c, cell) ==
    c.last + ((cell - 1) * Stride(scene.quantization) + 1 - c.index) * c.period
CellAt(c, at) == (Reading(c, at, FALSE).index - 1) \div Stride(scene.quantization) + 1

(* A switch that waits keeps up with the clock: its boundary is where the    *)
(* clock has its cell start now, until that cell is over.                    *)
SwitchFollowsClock ==
    LET p == selector.pending
    IN  p # None /\ p.cell <= p.target => p.boundary = CellStart(clock, p.target)

(* It waits for a boundary that comes: ahead of the present, and that of the *)
(* next cell or, where the offset puts that in the past, the first ahead.    *)
SwitchComes ==
    LET p == selector.pending
    IN  p # None =>
          /\ p.boundary + scene.offset > now
          /\ (p.target - p.cell - 2) * Stride(scene.quantization) * MinPeriod
               < Monus(0, scene.offset)

(* Once the selector is running, a switch happens where its cell starts by   *)
(* the clock of that moment, moved by the offset, and no later than its      *)
(* lateness allows.  But one that is delayed beyond the cell keeps the time  *)
(* that the cell started by the clock then.                                  *)
Running == selector.initialized /\ (selector'.gate = selector.gate \/ selector.gate.state = "music")
OnGrid(p, c, at) ==
    LET boundary == IF CellAt(c, at) <= p.target THEN CellStart(c, p.target) ELSE p.boundary
    IN  at - Larger(boundary + scene.offset, 0) \in 0 .. LatenessOf(c.period)
SwitchOnGrid ==
    [][scene.quantization # "off" /\ now' # now /\ Running /\ ~seq'.started
         /\ selector'.choice # selector.choice =>
           selector.pending # None /\ OnGrid(selector.pending, clock', now')]_vars

(* No beat sets an effect off twice, though it is predicted and reported and *)
(* the clock may count it again.                                             *)
BeatStrikesOnce ==
    \A i, j \in DOMAIN effects.struck :
        i < j /\ effects.struck[i] = effects.struck[j] => effects.struck[i] = None

\* Steps and switches agree with the clock: a step ends where its bars are counted, a
\* switch waits for a boundary of the clock's grid that comes, and none happens off it.
TimesAgree ==
    /\ [](TypeOK /\ StepEndsWhereItCounts /\ SwitchFollowsClock /\ SwitchComes)
    /\ SwitchOnGrid

\* What is shown changes on time: no step is cut short, and no beat sets an effect off
\* twice.
ChangesOnTime == StepKeepsItsBars /\ []BeatStrikesOnce
=============================================================================
