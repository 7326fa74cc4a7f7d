------------------------------ MODULE RenderStage ------------------------------
\* One output's renderer in the engine: which animation instance and which effect
\* layers a frame request keeps or replaces, the transition between two scenes,
\* and the power limit over all outputs. A rendered frame is the set of scenes
\* that shine in it. Left out: pixels, zones and the slice of the scene an output
\* shows; colour correction; the preview.
EXTENDS Integers, Sequences, FiniteSets, FiniteSetsExt

CONSTANTS Animations,  \* animation names
          Revisions,   \* scene revisions
          Overlays,    \* overlay effects: a name with its settings
          Geometries,  \* pixel counts, zones and slices an output may have
          Duration,    \* frames the longest transition takes
          Outputs,     \* outputs that share the power budget
          Watts,       \* what an output's frame may draw
          Unlimited    \* no limit

ASSUME StageAssumption ==
  /\ Duration \in Nat /\ IsFiniteSet(Outputs) /\ Watts \subseteq Nat /\ Watts # {}
  /\ Unlimited \notin Watts /\ "none" \notin Geometries

VARIABLES renderer,    \* RenderOutputState, or None
          since,       \* ghost: frames since the last change of scene that blends
          watts,       \* what each output's frame was estimated to draw
          limits,      \* the request's limit of each output, and the budget
          applied      \* applied_scale, as a fraction

stageVars == <<renderer, since, watts, limits, applied>>

None == [geometry |-> "none", layers |-> <<>>, last |-> {}]
NoTransition == [source |-> {}, left |-> -1]
Stacks == UNION {[1 .. n -> Overlays] : n \in 0 .. 2}

Fresh(geometry) ==
  [geometry |-> geometry, animation |-> "none", revision |-> 0, layers |-> <<>>,
   transition |-> NoTransition, last |-> {}]

\* The renderer the request finds: a new one when the geometry differs.
Found(geometry) ==
  IF renderer.geometry = geometry THEN renderer ELSE Fresh(geometry)

\* configure_animation: whether the scene is another one than the last frame's.
SceneChanged(r, animation, revision) ==
  /\ r.revision # 0
  /\ r.animation # animation \/ r.revision # revision

\* reconfigure: each requested layer in turn takes over the first layer not yet
\* taken that has its name and settings, with its state, or is a new one.
FirstSame(layers, overlay, taken) ==
  LET free == {i \in DOMAIN layers \ taken : layers[i].overlay = overlay}
  IN  IF free = {} THEN {} ELSE {Min(free)}

Reconfigure(layers, overlays) ==
  LET first == IF overlays = <<>> THEN {} ELSE FirstSame(layers, overlays[1], {})
  IN  [i \in DOMAIN overlays |->
         [overlay |-> overlays[i],
          new |-> (IF i = 1 THEN first ELSE FirstSame(layers, overlays[i], first)) = {}]]

\* The start of render: a solid colour or a change of scene ends the transition;
\* a change of scene may begin another one, from the last frame.
BlendKeepsOld(r, changed, solid, frames) ==
  IF changed /\ ~solid /\ frames # Unlimited THEN [source |-> r.last, left |-> frames]
  ELSE r.transition

Blend(r, changed, solid, frames) ==
  CASE solid -> NoTransition
    [] ~solid /\ changed -> IF frames = Unlimited THEN NoTransition
                             ELSE [source |-> r.last, left |-> frames]
    [] OTHER -> r.transition

\* The frame: the scene, and the transition's source until its time is over.
Mixed(blend, scene) == IF blend.left > 0 THEN blend.source \cup {scene} ELSE {scene}
Passed(blend) == IF blend.left > 0 THEN [blend EXCEPT !.left = @ - 1] ELSE NoTransition

-----------------------------------------------------------------------------
\* finalize_render_frames: one scale for all outputs, the smallest that the budget
\* and the outputs' own limits ask for, and never more than 1.
Total(w) == MapThenSumSet(LAMBDA o : w[o], Outputs)
Candidates(w, lim, budget) ==
  (IF Total(w) > 0 THEN {<<budget, Total(w)>>} ELSE {})
    \cup {<<lim[o], w[o]>> : o \in {p \in Outputs : lim[p] # Unlimited /\ w[p] > 0}}
Smaller(a, b) == a[1] * b[2] <= b[1] * a[2]

Scale(w, lim, budget) ==
  LET all == IF budget = Unlimited THEN {} ELSE Candidates(w, lim, budget)
  IN  CHOOSE s \in all \cup {<<1, 1>>} : \A t \in all \cup {<<1, 1>>} : Smaller(s, t)

StageInit ==
  /\ renderer = None /\ since = Duration + 1
  /\ watts = [o \in Outputs |-> 0] /\ applied = <<1, 1>>
  /\ limits = [budget |-> Unlimited, output |-> [o \in Outputs |-> Unlimited]]

\* render_frame_request_at for an output, with an accepted request: a solid colour
\* replaces animation and effects, frames is the request's transition, if any.
RenderScene(geometry, animation, revision, overlays, solid, frames) ==
  LET r == Found(geometry)
      changed == SceneChanged(r, animation, revision)
      blend == Blend(r, changed, solid, frames)
      scene == IF solid THEN <<"solid", 0>> ELSE <<animation, revision>>
      frame == Mixed(blend, scene)
  IN  /\ renderer' = [geometry |-> geometry, animation |-> animation, revision |-> revision,
                      layers |-> Reconfigure(r.layers, overlays),
                      transition |-> Passed(blend), last |-> frame]
      /\ since' = IF changed \/ solid \/ r # renderer
                  THEN IF solid \/ frames = Unlimited \/ r # renderer THEN Duration + 1 ELSE 0
                  ELSE IF since > Duration THEN since ELSE since + 1

\* The end of a request: what the outputs' frames draw, against the limits.
Finalize(w, lim, budget) ==
  /\ watts' = w
  /\ limits' = [budget |-> budget, output |-> lim]
  /\ applied' = Scale(w, lim, budget)

\* A request is refused as a whole before it touches a renderer, so that only the
\* accepted ones are steps. The power's part does not look at the scene: it varies
\* before the first one only.
RenderRequest ==
  \/ /\ \E geometry \in Geometries, animation \in Animations, revision \in Revisions,
           overlays \in Stacks, solid \in BOOLEAN, frames \in 0 .. Duration \cup {Unlimited} :
          RenderScene(geometry, animation, revision, overlays, solid, frames)
     /\ Finalize([o \in Outputs |-> 0], [o \in Outputs |-> Unlimited], Unlimited)
  \/ /\ renderer = None
     /\ \E w \in [Outputs -> Watts], lim \in [Outputs -> Watts \cup {Unlimited}],
           budget \in Watts \cup {Unlimited} : Finalize(w, lim, budget)
     /\ UNCHANGED <<renderer, since>>

StageSpec == StageInit /\ [][RenderRequest]_stageVars

-----------------------------------------------------------------------------
\* The old scene goes: after a cut, a solid colour or a new geometry at once, and
\* after a blend when its duration is over, the frame shows one scene alone,
\* however scene changes, blends and solid colours followed each other.
OldSceneGoes == since > Duration => Cardinality(renderer.last) <= 1

\* Adding, removing or swapping overlays never restarts an effect that stays:
\* each name with its settings goes on in as many layers as it has before and after.
EffectsKept ==
  LET Old(d) == Cardinality({i \in DOMAIN renderer.layers : renderer.layers[i].overlay = d})
      New(d) == Cardinality({i \in DOMAIN renderer'.layers : renderer'.layers[i].overlay = d})
      Same(d) == Cardinality({i \in DOMAIN renderer'.layers :
                                renderer'.layers[i].overlay = d /\ ~renderer'.layers[i].new})
  IN  renderer.geometry = renderer'.geometry =>
        \A d \in Overlays : Same(d) = Min({Old(d), New(d)})

EffectsGoOn == [][EffectsKept]_stageVars

\* With a budget, the scaled outputs together stay within it, and each of them
\* within its own limit.
PowerWithinLimits ==
  limits.budget # Unlimited =>
    /\ Total(watts) * applied[1] <= limits.budget * applied[2]
    /\ \A o \in Outputs : limits.output[o] # Unlimited =>
         watts[o] * applied[1] <= limits.output[o] * applied[2]

\* What an output shows is its present scene: the old one goes, effects that are on go
\* on through other changes, and the power stays within the limits.
SceneIsShown == [](OldSceneGoes /\ PowerWithinLimits) /\ EffectsGoOn
==============================================================================
