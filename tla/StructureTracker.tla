--------------------------- MODULE StructureTracker ---------------------------
(***************************************************************************)
(* MusicStructureTracker of crates/lumistripe-engine-audio/src/structure.rs*)
(* tells breakdown, groove, buildup and drop from the features of the      *)
(* music.  Timestamps are kept as ages; loudness is one of four levels, cut*)
(* where the code compares it (0.06, 0.12, 0.16), and what the history says*)
(* of a rise or a jump is true or not wherever it is long enough.          *)
(***************************************************************************)
EXTENDS Naturals

CONSTANTS
  Confirm,      \* how long each phase is desired before it is entered
  Hold,         \* how long a drop is held, with rolling loudness and without
  Span,         \* how much history shows a rise, with rolling loudness and without
  Arm,          \* how long a groove lasts before rolling loudness shows a buildup
  MinBuildup,   \* how long a buildup lasts before rolling loudness shows a drop
  DropCooldown,     \* how long after a drop no other is seen
  Gap           \* a longer silence of the caller forgets the signal

\* Ages are told apart as far as anything is compared with them.
Patience == Confirm.breakdown + Confirm.buildup[TRUE]
Longest == IF Arm > MinBuildup THEN Arm ELSE MinBuildup
ASSUME StructureAssumption ==
  /\ Confirm \in [breakdown : Nat, groove : Nat, buildup : [BOOLEAN -> Nat]]
  /\ Confirm.groove <= Patience /\ Confirm.buildup[FALSE] <= Patience
  /\ {Arm, MinBuildup, DropCooldown, Gap} \subseteq Nat
  /\ Hold \in [BOOLEAN -> 0..Longest]
  /\ Span \in [BOOLEAN -> 0..Longest] /\ Span[FALSE] <= Span[TRUE]

VARIABLES
  phase, phaseAge,    \* the phase, and how long it has lasted
  wanted, wantedAge,  \* candidate_phase, and since when
  dropAge,            \* since last_drop_at, or never
  level,              \* smoothed_energy
  grooved,            \* whether groove_reference_energy is known
  span,               \* how much of the signal the history covers
  evidence            \* of the sound, for the property: the phase it asked for last, for
                      \* how long it asked for no other, and if loudness was rolling
structureVars ==
  <<phase, phaseAge, wanted, wantedAge, dropAge, level, grooved, span, evidence>>

Never == DropCooldown
Capped(n, most) == IF n < most THEN n ELSE most
Levels == 0..3

NoEvidence == [for |-> "none", age |-> 0, rolling |-> FALSE]

\* The first sample gives the level as it is.
StructureInit ==
  /\ phase = "idle" /\ phaseAge = 0 /\ wanted = "none" /\ wantedAge = 0
  /\ dropAge = Never /\ level \in Levels /\ grooved = FALSE /\ span = 0
  /\ evidence = NoEvidence

\* update: every age is taken at the new timestamp.
Ages(elapsed) ==
  [phase  |-> Capped(phaseAge + elapsed, Longest),
   wanted |-> Capped(wantedAge + elapsed, Patience),
   evidence |-> Capped(evidence.age + elapsed, Patience),
   drop   |-> Capped(dropAge + elapsed, Never)]

\* feature_values finds silence: everything is forgotten, and a gap before it too.
HearSilence(elapsed) ==
  /\ phase' = "idle" /\ phaseAge' = 0 /\ wanted' = "none" /\ wantedAge' = 0
  /\ dropAge' = Never /\ level' = 0 /\ grooved' = FALSE /\ span' = 0
  /\ evidence' = NoEvidence

\* clear_signal_state, and then the sample as the first of a new signal.
ForgetSignal(energy) ==
  /\ phase' = "idle" /\ phaseAge' = Gap /\ dropAge' = Never
  /\ level' = energy /\ grooved' = FALSE /\ span' = 0

\* smoothed_energy goes towards the energy of the sample.
Smoothed(elapsed, energy) ==
  IF elapsed = 0 THEN {level}
  ELSE {l \in Levels : (level <= l /\ l <= energy) \/ (energy <= l /\ l <= level)}

KeepingCandidate(to) ==
  phase' = to /\ phaseAge' = 0 /\ UNCHANGED <<wanted, wantedAge>>
Transition(to) ==
  phase' = to /\ phaseAge' = 0 /\ wanted' = "none" /\ wantedAge' = 0

\* A sample at which no phase is looked for.
NothingSought(elapsed) ==
  /\ phaseAge' = Ages(elapsed).phase /\ wantedAge' = Ages(elapsed).wanted
  /\ evidence' = [evidence EXCEPT !.age = Ages(elapsed).evidence]
  /\ UNCHANGED <<phase, wanted>>

\* Energy of at most 0.008: idle, and where it was idle nothing else.
Faint(elapsed) ==
  /\ IF phase = "idle" THEN NothingSought(elapsed) ELSE Transition("idle") /\ evidence' = NoEvidence
  /\ level' \in Smoothed(elapsed, 0)
  /\ dropAge' = Ages(elapsed).drop
  /\ span' = Capped(span + elapsed, Span[TRUE])
  /\ UNCHANGED grooved

\* drop_confirmed, where the samples of the last moment show a jump.
DropConfirmed(elapsed, rolling) ==
  /\ phase = "buildup"
  /\ rolling => Ages(elapsed).phase >= MinBuildup
  /\ Ages(elapsed).drop >= DropCooldown
  /\ span + elapsed > 0

\* A rise needs history; with rolling loudness, of this phase only.
RiseSeen(elapsed, rolling) ==
  /\ span + elapsed >= Span[rolling]
  /\ rolling => Ages(elapsed).phase >= Span[TRUE]

\* desired_phase, for a smoothed level and evidence of a rise.
Desired(elapsed, rolling, l, rises) ==
  IF rolling /\ l > 0 /\ \/ phase = "buildup"
                         \/ rises /\ phase = "breakdown"
                         \/ rises /\ phase = "groove" /\ Ages(elapsed).phase >= Arm
    THEN {"buildup"}
  ELSE IF l < 2 THEN {"breakdown"}
  ELSE IF ~rolling /\ rises THEN {"buildup"}
  ELSE IF rolling /\ grooved' /\ l = 2 THEN {"breakdown", "groove"}
  ELSE {"groove"}

ConfirmOf(desired, rolling) ==
  IF desired = "buildup" THEN Confirm[desired][rolling] ELSE Confirm[desired]

\* update_candidate: a phase is entered once it has been desired long enough.
FollowCandidate(elapsed, rolling, desired) ==
  IF desired = phase
    THEN /\ wanted' = "none" /\ phaseAge' = Ages(elapsed).phase
         /\ UNCHANGED <<phase, wantedAge>>
  ELSE IF desired # wanted
    THEN /\ wanted' = desired /\ wantedAge' = 0 /\ phaseAge' = Ages(elapsed).phase
         /\ UNCHANGED phase
  ELSE IF Ages(elapsed).wanted >= ConfirmOf(desired, rolling)
    THEN Transition(desired)
  ELSE /\ phaseAge' = Ages(elapsed).phase /\ wantedAge' = Ages(elapsed).wanted
       /\ UNCHANGED <<phase, wanted>>

EvidenceOf(elapsed, rolling, desired) ==
  [for |-> desired, rolling |-> rolling,
   age |-> IF evidence.for = desired THEN Ages(elapsed).evidence ELSE 0]

\* A sample after a short time: a drop, a drop that is held, or the desired phase.
Sound(elapsed, energy, rolling) ==
  /\ level' \in Smoothed(elapsed, energy)
  /\ span' = Capped(span + elapsed, Span[TRUE])
  /\ grooved' = (grooved \/ (phase = "groove" /\ elapsed > 0))
  /\ \/ /\ DropConfirmed(elapsed, rolling)
        /\ Transition("drop") /\ dropAge' = 0 /\ evidence' = NoEvidence
     \/ /\ dropAge' = Ages(elapsed).drop
        /\ IF phase = "drop" /\ Ages(elapsed).phase < Hold[rolling]
             THEN NothingSought(elapsed)
             ELSE \E rises \in {FALSE, RiseSeen(elapsed, rolling)} :
                    \E desired \in Desired(elapsed, rolling, level', rises) :
                      /\ FollowCandidate(elapsed, rolling, desired)
                      /\ evidence' = EvidenceOf(elapsed, rolling, desired)

SoundAfterGap(energy) ==
  /\ ForgetSignal(energy)
  /\ wanted' = (IF energy < 2 THEN "breakdown" ELSE "groove") /\ wantedAge' = 0
  /\ evidence' = [NoEvidence EXCEPT !.for = wanted']
FaintAfterGap ==
  ForgetSignal(0) /\ wanted' = "none" /\ wantedAge' = 0 /\ evidence' = NoEvidence

\* One call of update; a timestamp that goes back is refused.
StructureNext ==
  \/ \E elapsed \in {0, 1, Gap + 1} : HearSilence(elapsed)
  \/ \E elapsed \in {0, 1} : Faint(elapsed)
  \/ \E elapsed \in {0, 1}, energy \in Levels, rolling \in BOOLEAN :
       Sound(elapsed, energy, rolling)
  \/ \E energy \in Levels : SoundAfterGap(energy)
  \/ FaintAfterGap

-----------------------------------------------------------------------------
\* No flicker: breakdown, groove and buildup are entered only once the sound has asked
\* for them, and for no other phase, as long as each must be desired, a buildup of rolling
\* loudness longer: no silence, gap or drop and no phase that came and went lies between.
\* Only samples at which no phase is looked for, those of a drop that is held and faint
\* ones while idle, interrupt nothing.
PhasesAreConfirmed ==
  [][phase' # phase /\ phase' \in {"breakdown", "groove", "buildup"}
       => /\ evidence'.for = phase'
          /\ evidence'.age >= ConfirmOf(phase', evidence'.rolling)]_structureVars
==============================================================================
