----------------------------- MODULE Preferences -----------------------------
(***************************************************************************)
(* What the commands of the dashboard's control plane keep: settings of an *)
(* animation and of the idle light for all stripes or for one, saved       *)
(* sequences, and the playback that a restart restores.  A command is here *)
(* one step: ControlPlane shows that it is saved and shown as a whole or   *)
(* not at all, so the settings file holds what the model holds.            *)
(***************************************************************************)
EXTENDS Naturals, Sequences, FiniteSets

CONSTANTS
  Stripes,       \* names of stripes
  Values,        \* settings of the animation, and of the idle light
  Sequence,      \* ids of sequences
  MaxSequences,  \* MAX_SAVED_ANIMATION_SEQUENCES
  Aspects        \* a look's mode and its brightness: two values of each

ASSUME PreferencesAssumption == MaxSequences \in Nat /\ Aspects # {}

VARIABLES
  topic,        \* bound: the kind of command a behaviour is about
  layout, shown,  \* the topology: its layout and its stripes, in order
  animation,    \* animation_settings: by scope, where there is one
  idle,         \* music_idle: likewise
  library, active,   \* animation_sequences and active_sequence_id
  restore, remembered,  \* restore_last_state and remembered_playback
  looks,        \* the outputs' playback, not saved as such
  tuned,        \* ghost: what the animation was last set to for all stripes
  idled,        \* ghost: what the idle light was last set to for all stripes
  apart         \* ghost: a look of one stripe, since one was remembered
prefVars == <<topic, layout, shown, animation, idle, library, active, restore,
              remembered, looks, tuned, idled, apart>>

Unset == "unset"
Scopes == Stripes \cup {"shared"}
Nothing == [scope \in Scopes |-> Unset]
Present == {shown[i] : i \in 1..Len(shown)}
Orders == {<<s>> : s \in Stripes}
            \cup {o \in Stripes \X Stripes : o[1] # o[2]}
Look == [mode : Aspects, brightness : Aspects]
DefaultLook == CHOOSE l \in Look : l.mode = l.brightness

\* animation_settings_for and music_idle_for.
For(settings, stripe) ==
  IF settings[stripe] # Unset THEN settings[stripe] ELSE settings["shared"]

PrefInit ==
  /\ topic \in {"animation", "idle", "library", "playback"}
  /\ layout \in {"independent", "mirrored"}
  /\ shown \in {<<s>> : s \in Stripes}
  /\ animation = Nothing /\ idle = Nothing
  /\ library = {} /\ active = Unset
  /\ restore = FALSE /\ remembered = DefaultLook
  /\ looks = [s \in Stripes |-> DefaultLook]
  /\ tuned = Unset /\ idled = Unset /\ apart = FALSE

About(t) == topic = t /\ UNCHANGED topic
SameLights == UNCHANGED <<layout, shown, looks, apart>>
SamePlayback == UNCHANGED <<restore, remembered>>
SameSettings == UNCHANGED <<animation, idle, tuned, idled>>
SameLibrary == UNCHANGED <<library, active>>

-----------------------------------------------------------------------------
\* A stripe may be named in independent layout only (targets_mut).
Targets == IF layout = "independent" THEN Present ELSE {}

\* SetAnimationSettings of one stripe, or of all: then no scope keeps its own.
SetShownAnimation(scope, v) ==
  /\ About("animation") /\ scope \in Targets \cup {"shared"}
  /\ animation' = [s \in Scopes |->
       IF s = scope THEN v ELSE IF scope = "shared" /\ s \in Present THEN Unset
       ELSE animation[s]]
  /\ tuned' = IF scope = "shared" THEN v ELSE Unset
  /\ SameLights /\ SamePlayback /\ SameLibrary /\ UNCHANGED <<idle, idled>>
SetAnimation(scope, v) ==
  /\ About("animation") /\ scope \in Targets \cup {"shared"}
  /\ animation' = [s \in Scopes |->
       IF s = scope THEN v ELSE IF scope = "shared" THEN Unset ELSE animation[s]]
  /\ tuned' = IF scope = "shared" THEN v ELSE Unset
  /\ SameLights /\ SamePlayback /\ SameLibrary /\ UNCHANGED <<idle, idled>>

\* SetMusicIdle of one stripe, or of all: of each one there is in independent
\* layout, and else of the scope they share, behind what each has of its own.
IdleScopes(scope) ==
  IF scope = "shared" /\ layout = "independent" THEN Present ELSE {scope}
SetMusicIdle(scope, v) ==
  /\ About("idle") /\ scope \in Targets \cup {"shared"}
  /\ idle' = [s \in Scopes |-> IF s \in IdleScopes(scope) THEN v ELSE idle[s]]
  /\ idled' = IF scope = "shared" /\ (layout = "independent"
                                      \/ \A s \in Present : idle[s] = Unset)
                THEN v ELSE Unset
  /\ SameLights /\ SamePlayback /\ SameLibrary /\ UNCHANGED <<animation, tuned>>

\* CreateSequence, DeleteSequence and ActivateSequence; UpdateSequence keeps the id.
Library(ids, id) ==
  /\ About("library") /\ library' = ids /\ active' = id
  /\ SameLights /\ SamePlayback /\ SameSettings
CreateSequence(id) ==
  id \notin library /\ Cardinality(library) < MaxSequences
    /\ Library(library \cup {id}, active)
DeleteSequence(id) ==
  /\ id \in library
  /\ Library(library \ {id}, IF active = id THEN Unset ELSE active)
ActivateSequence(id) == id \in library \cup {Unset} /\ Library(library, id)

\* remember_playback_from_current_output: the first output's.
RememberFirst(now) == now[shown[1]]
Alike(now) == \A s \in Present : now[s] = now[shown[1]]

\* SetMode, SetBrightness, SelectAnimation and SetBlackout.
SetLook(scope, aspect, v) ==
  /\ About("playback") /\ scope \in Targets \cup {"shared"}
  /\ looks' = [s \in Stripes |->
       IF s = scope \/ (scope = "shared" /\ s \in Present)
         THEN [looks[s] EXCEPT ![aspect] = v] ELSE looks[s]]
  /\ IF scope = "shared" /\ restore
       THEN remembered' = RememberFirst(looks') /\ apart' = ~Alike(looks')
       ELSE apart' = (apart \/ scope # "shared") /\ UNCHANGED remembered
  /\ UNCHANGED <<layout, shown, restore>> /\ SameSettings /\ SameLibrary

SetStartupRestore(enabled) ==
  /\ About("playback") /\ restore' = enabled
  /\ IF enabled THEN remembered' = RememberFirst(looks) /\ apart' = ~Alike(looks)
                ELSE UNCHANGED <<remembered, apart>>
  /\ UNCHANGED <<layout, shown, looks>> /\ SameSettings /\ SameLibrary

\* SetStripeTopology: the outputs that stay keep their playback, a new one has that
\* of the first (remap_output_controls); the settings of stripes that go are kept.
SetStripeTopology(l, stripes) ==
  /\ layout' = l /\ shown' = stripes
  /\ looks' = [s \in Stripes |-> IF s \in Present THEN looks[s] ELSE looks[shown[1]]]
  /\ idled' = Unset
  /\ UNCHANGED <<topic, animation, idle, tuned, apart>> /\ SamePlayback /\ SameLibrary

\* The dashboard starts again from its file, which it takes if DashboardSettings's
\* validate does.
Valid == (active # Unset => active \in library) /\ Cardinality(library) <= MaxSequences
Restart ==
  /\ Valid
  /\ looks' = [s \in Stripes |-> IF restore THEN remembered ELSE DefaultLook]
  /\ apart' = (apart /\ ~restore)
  /\ UNCHANGED <<topic, layout, shown>> /\ SameSettings /\ SameLibrary /\ SamePlayback

PrefNext ==
  \/ \E scope \in Scopes, v \in Values : SetAnimation(scope, v) \/ SetMusicIdle(scope, v)
  \/ \E id \in Sequence : CreateSequence(id) \/ DeleteSequence(id)
  \/ \E id \in Sequence \cup {Unset} : ActivateSequence(id)
  \/ \E scope \in Scopes, v \in Aspects, aspect \in {"mode", "brightness"} :
       SetLook(scope, aspect, v)
  \/ \E enabled \in BOOLEAN : SetStartupRestore(enabled)
  \/ \E l \in {"independent", "mirrored"}, stripes \in Orders :
       SetStripeTopology(l, stripes)
  \/ Restart

-----------------------------------------------------------------------------
\* What was set for all stripes is what every stripe shows, those included that
\* come back with settings of their own from before; for the idle light as long
\* as the topology stays, and where no stripe has one of its own behind a shared
\* layout.
SharedReaches ==
  /\ tuned # Unset => \A s \in Present : For(animation, s) = tuned
  /\ idled # Unset => \A s \in Present : For(idle, s) = idled

\* A restart shows what was shown: with the restoration on, unless a stripe had a
\* look of its own, the remembered playback is that of every output, whatever
\* stripes came and went; and the file is always one that a start accepts.
RestartShowsTheSame ==
  /\ restore /\ ~apart => \A s \in Present : looks[s] = remembered
  /\ Valid

\* What was set holds: for all stripes where it was set for all, and after a restart.
SettingsHold == SharedReaches /\ RestartShowsTheSame
==============================================================================
