---------------------------- MODULE ServicesProofs ----------------------------
(***************************************************************************)
(* The parts that share no state (joining a network, following the phases  *)
(* of the music, the dashboard's settings, calibration of the microphone,  *)
(* the player's name, the choice of a source, the engine's socket, the     *)
(* samples on their way) keep what they promise for all values of their    *)
(* constants.                                                              *)
(***************************************************************************)
EXTENDS WifiConnect, StructureTracker, Preferences, AudioCalibration, PlayerName,
        AudioRouting, IpcServer, PcmPipeline, FiniteSetTheorems, TLAPS

-----------------------------------------------------------------------------
(* WifiConnect: for any number of attempts, failures and power cuts.       *)

Places == {"idle", "check", "load", "up", "auto", "reload", "remove", "again",
           "delete", "unlink", "answer"}

WifiTypeOK ==
  /\ helper \in [Helpers -> [at : Places, profile : Profiles \cup {"none"}]]
  /\ files \subseteq [id : Profiles, auto : BOOLEAN]
  /\ known \subseteq [id : Profiles, auto : BOOLEAN]
  /\ used \subseteq Profiles
  /\ excused \in BOOLEAN

\* A profile is written by one helper, which has drawn it.
OneWriter ==
  \A h \in Helpers :
    helper[h].profile # "none" =>
      /\ helper[h].profile \in used
      /\ \A other \in Helpers \ {h} : helper[other].profile # helper[h].profile

\* A helper at work has a profile.
WritesOne ==
  \A h \in Helpers : helper[h].at \in Places \ {"idle", "check", "answer"} => helper[h].profile # "none"

\* A helper past its connection has proven its profile.
ProvenBefore ==
  \A h \in Helpers : helper[h].at \in {"auto", "reload", "remove", "again"}
                       => helper[h].profile \in proven

\* What replaces the old profiles is there when they are removed, unless another
\* helper has removed it.
ReplacementIsThere ==
  \A h \in Helpers : helper[h].at \in {"reload", "remove"}
                       => excused \/ Profile(helper[h].profile, TRUE) \in files

WifiInv == WifiTypeOK /\ OneWriter /\ WritesOne /\ ProvenBefore /\ ReplacementIsThere
           /\ OnlyProvenConnect

USE DEF wifiVars, Places, Nobody, Profile, Goes, Without

\* No helper is at work and there is no profile yet.
LEMMA WifiInitOK == WifiInit => WifiInv
<1> SUFFICES ASSUME WifiInit PROVE WifiInv
  OBVIOUS
<1>1. WifiTypeOK
  BY DEF WifiInit, WifiTypeOK
<1>2. OneWriter /\ WritesOne /\ ProvenBefore /\ ReplacementIsThere /\ OnlyProvenConnect
  BY DEF WifiInit, OneWriter, WritesOne, ProvenBefore, ReplacementIsThere, OnlyProvenConnect
<1> QED
  BY <1>1, <1>2 DEF WifiInv

\* Every step keeps the invariant.
LEMMA WifiStepOK == WifiInv /\ [WifiNext]_wifiVars => WifiInv'
<1> SUFFICES ASSUME WifiInv, [WifiNext]_wifiVars PROVE WifiInv'
  OBVIOUS
<1> USE ProfilesAssumption DEF WifiInv, WifiTypeOK, OneWriter, WritesOne, ProvenBefore, ReplacementIsThere,
   OnlyProvenConnect
<1>1. ASSUME NEW h \in Helpers, Request(h) PROVE WifiInv'
  BY <1>1 DEF Request
<1>2. ASSUME NEW h \in Helpers, Check(h) PROVE WifiInv'
  <2>1. CASE Goes(h, "answer") /\ UNCHANGED <<files, used>>
    BY <1>2, <2>1 DEF Check
  <2>2. CASE ~(Goes(h, "answer") /\ UNCHANGED <<files, used>>)
    <3>1. PICK id \in Profiles \ used :
            /\ helper' = [helper EXCEPT ![h] = [at |-> "load", profile |-> id]]
            /\ files' = files \cup {Profile(id, FALSE)}
            /\ used' = used \cup {id}
      <4>1. \E fresh \in Profiles \ used : TRUE
        BY <1>2, <2>2 DEF Check
      <4> QED
        BY <1>2, <2>2, <4>1 DEF Check
    <3>2. UNCHANGED <<permit, known, proven, excused>>
      BY <1>2 DEF Check
    <3>3. WifiTypeOK'
      <4>1. Profile(id, FALSE) \in [id : Profiles, auto : BOOLEAN]
        OBVIOUS
      <4>2. [at |-> "load", profile |-> id] \in [at : Places, profile : Profiles \cup {"none"}]
        OBVIOUS
      <4> QED
        BY <3>1, <3>2, <4>1, <4>2
    <3>4. OneWriter' /\ WritesOne'
      BY <3>1, <3>2
    <3>5. ProvenBefore' /\ ReplacementIsThere' /\ OnlyProvenConnect'
      BY <3>1, <3>2
    <3> QED
      BY <3>3, <3>4, <3>5
  <2> QED
    BY <2>1, <2>2
<1>3. ASSUME NEW h \in Helpers, Load(h) PROVE WifiInv'
  BY <1>3 DEF Load, Nmcli
<1>4. ASSUME NEW h \in Helpers, Up(h) PROVE WifiInv'
  BY <1>4 DEF Up, Nmcli
<1>5. ASSUME NEW h \in Helpers, AutoConnect(h) PROVE WifiInv'
  <2>1. /\ helper[h].at = "auto" /\ helper[h].profile \in Profiles \cap proven
        /\ UNCHANGED <<permit, used, excused, known, proven>>
    BY <1>5 DEF AutoConnect, Nmcli
  <2>2. CASE Goes(h, "delete") /\ UNCHANGED files
    BY <1>5, <2>1, <2>2
  <2>3. CASE /\ Goes(h, "reload")
             /\ files' = Without(helper[h].profile) \cup {Profile(helper[h].profile, TRUE)}
    <3>1. WifiTypeOK'
      <4>1. Profile(helper[h].profile, TRUE) \in [id : Profiles, auto : BOOLEAN]
        BY <2>1
      <4>2. files' \subseteq [id : Profiles, auto : BOOLEAN]
        BY <2>3, <4>1
      <4> QED
        BY <2>1, <2>3, <4>2
    <3>2. OneWriter' /\ WritesOne' /\ ProvenBefore'
      BY <2>1, <2>3
    <3>3. ReplacementIsThere'
      BY <2>1, <2>3
    <3>4. OnlyProvenConnect'
      BY <2>1, <2>3
    <3> QED
      BY <3>1, <3>2, <3>3, <3>4
  <2> QED
    BY <1>5, <2>2, <2>3 DEF AutoConnect, Nmcli
<1>6. ASSUME NEW h \in Helpers, Reload(h) PROVE WifiInv'
  BY SMTT(30), <1>6 DEF Reload, Nmcli
<1>7. ASSUME NEW h \in Helpers, RemoveOld(h) PROVE WifiInv'
  BY <1>7 DEF RemoveOld
<1>8. ASSUME NEW h \in Helpers, ReloadAgain(h) PROVE WifiInv'
  BY <1>8 DEF ReloadAgain, Nmcli
<1>9. ASSUME NEW h \in Helpers, Delete(h) PROVE WifiInv'
  BY <1>9 DEF Delete
<1>10. ASSUME NEW h \in Helpers, Unlink(h) PROVE WifiInv'
  BY <1>10 DEF Unlink
<1>11. ASSUME NEW h \in Helpers, Answer(h) PROVE WifiInv'
  BY <1>11 DEF Answer
<1>12. CASE DropRequest
  BY <1>12 DEF DropRequest
<1>13. CASE PowerFails
  BY <1>13 DEF PowerFails
<1>14. CASE UNCHANGED wifiVars
  BY <1>14
<1> QED
  BY <1>1, <1>2, <1>3, <1>4, <1>5, <1>6, <1>7, <1>8, <1>9, <1>10, <1>11, <1>12, <1>13, <1>14
  DEF WifiNext, Helps

\* Every reachable state satisfies the invariant.
THEOREM WifiInvariant == WifiSpec => []WifiInv
BY WifiInitOK, WifiStepOK, PTL DEF WifiSpec

\* What connects by itself has been connected with, for any helpers and profiles.
THEOREM OnlyProvenProfilesConnect == WifiSpec => []OnlyProvenConnect
<1>1. WifiInv => OnlyProvenConnect
  BY DEF WifiInv
<1> QED
  BY <1>1, WifiInvariant, PTL

\* A step that takes away the last profile that connects by itself is excused.
LEMMA NetworkStepOK ==
  ASSUME WifiInv, [WifiNext]_wifiVars, NEW p \in files, p.auto,
         \A h \in Helpers : helper[h].profile # p.id
  PROVE  excused' \/ \E q \in files' : q.auto
<1> USE DEF WifiInv, WifiTypeOK
<1>1. ASSUME NEW h \in Helpers, RemoveOld(h) PROVE excused' \/ \E q \in files' : q.auto
  <2>1. CASE excused
    BY <1>1, <2>1 DEF RemoveOld
  <2>2. CASE Profile(helper[h].profile, TRUE) \in files
    <3>1. Profile(helper[h].profile, TRUE) \in files'
      BY <1>1, <2>2 DEF RemoveOld
    <3> QED
      BY <3>1
  <2> QED
    BY <1>1, <2>1, <2>2 DEF RemoveOld, ReplacementIsThere
<1>2. ASSUME NEW h \in Helpers, AutoConnect(h) PROVE p \in files'
  BY <1>2 DEF AutoConnect, Nmcli
<1>3. ASSUME NEW h \in Helpers, Delete(h) \/ Unlink(h) PROVE p \in files'
  BY <1>3 DEF Delete, Unlink
<1>4. ASSUME NEW h \in Helpers,
             Request(h) \/ Check(h) \/ Load(h) \/ Up(h) \/ Reload(h) \/ ReloadAgain(h) \/ Answer(h)
      PROVE  p \in files'
  <2>1. Check(h) => p \in files'
    BY DEF Check
  <2> QED
    BY <1>4, <2>1 DEF Request, Load, Up, Reload, ReloadAgain, Answer, Nmcli
<1>5. CASE DropRequest \/ PowerFails \/ UNCHANGED wifiVars
  BY <1>5 DEF DropRequest, PowerFails
<1> QED
  BY <1>1, <1>2, <1>3, <1>4, <1>5 DEF WifiNext, Helps

\* A network that could be joined can be joined again, for any helpers and profiles.
THEOREM NetworkIsKept == WifiSpec => NetworkKept
<1>1. WifiInv /\ [WifiNext]_wifiVars
        => [(\E p \in files : p.auto /\ \A h \in Helpers : helper[h].profile # p.id)
              => excused' \/ \E p \in files' : p.auto]_wifiVars
  BY NetworkStepOK
<1> QED
  BY <1>1, WifiInvariant, PTL DEF WifiSpec, NetworkKept

-----------------------------------------------------------------------------
(* PlayerName.                                                             *)

\* A name in the file that is not the saved one is on its way there, or a command was torn;
\* and whoever took one there has the player restarted.
NameInv ==
  /\ at \in {"idle", "helper", "restart", "save"}
  /\ torn => file # saved
  /\ at \in {"idle", "helper"} /\ ~torn => file = saved
  /\ at \in {"helper", "restart"} => newName # saved
  /\ at = "restart" => file = newName
  /\ at = "save" => newName = saved \/ file = newName
  /\ at = "save" /\ ~torn => file = newName
  /\ at \in {"idle", "helper"} /\ file = saved /\ ~restarting => player = saved
  /\ at = "save" /\ file = newName /\ ~restarting => player = newName
  /\ torn \in BOOLEAN /\ restarting \in BOOLEAN

\* Every step keeps it.
LEMMA NameStepOK == NameInv /\ [NameNext]_nameVars => NameInv'
<1> SUFFICES ASSUME NameInv, [NameNext]_nameVars PROVE NameInv'
  OBVIOUS
<1> USE DEF NameInv
<1>1. ASSUME NEW name \in Names, SetIdentity(name) PROVE NameInv'
  BY <1>1 DEF SetIdentity
<1>2. CASE WriteName \/ RequestRestart \/ PlayerStarts
  <2>1. CASE WriteName
    BY <2>1 DEF WriteName
  <2>2. CASE RequestRestart
    BY <2>2 DEF RequestRestart
  <2>3. CASE PlayerStarts
    BY <2>3 DEF PlayerStarts
  <2> QED
    BY <1>2, <2>1, <2>2, <2>3
<1>3. CASE Save
  <2>1. torn' <=> torn /\ file # newName
    BY <1>3 DEF Save
  <2> QED
    BY <1>3, <2>1 DEF Save
<1>4. CASE EndEarly
  <2>1. torn' <=> torn \/ (at # "helper" /\ file # saved)
    BY <1>4 DEF EndEarly
  <2> QED
    BY <1>4, <2>1 DEF EndEarly
<1>5. CASE UNCHANGED nameVars
  BY <1>5 DEF nameVars
<1> QED
  BY <1>1, <1>2, <1>3, <1>4, <1>5 DEF NameNext

\* The name that is shown as saved is the one the player is given, and runs under once it
\* has started again, for any names: unless a command ended between the two.
THEOREM NamesStayTogether == NameInit /\ [][NameNext]_nameVars => []NamesAgree
<1>1. NameInit => NameInv
  BY DEF NameInit, NameInv
<1>2. NameInv => NamesAgree
  BY DEF NameInv, NamesAgree
<1> QED
  BY <1>1, <1>2, NameStepOK, PTL

-----------------------------------------------------------------------------
(* StructureTracker.                                                       *)

\* The candidate is what the sound has asked for last, and no longer than that.
StructureInv ==
  /\ wantedAge \in Nat /\ evidence.age \in Nat
  /\ evidence = [for |-> evidence.for, age |-> evidence.age, rolling |-> evidence.rolling]
  /\ wanted # "none" => evidence.for = wanted /\ wantedAge <= evidence.age

\* Ages go on together.
LEMMA AgesGoOn ==
  ASSUME StructureInv, NEW elapsed \in {0, 1}
  PROVE  /\ Ages(elapsed).wanted \in Nat /\ Ages(elapsed).evidence \in Nat
         /\ wantedAge <= evidence.age => Ages(elapsed).wanted <= Ages(elapsed).evidence
<1>0. Patience \in Nat
  <2>1. Confirm.breakdown \in Nat /\ Confirm.buildup[TRUE] \in Nat
    BY StructureAssumption
  <2>2. \A m, n \in Nat : m + n \in Nat
    OBVIOUS
  <2> QED
    BY <2>1, <2>2, Zenon DEF Patience
<1>1. wantedAge \in Nat /\ evidence.age \in Nat /\ elapsed \in Nat
  BY DEF StructureInv
<1>2. /\ Ages(elapsed).wanted = (IF wantedAge + elapsed < Patience THEN wantedAge + elapsed ELSE Patience)
      /\ Ages(elapsed).evidence = (IF evidence.age + elapsed < Patience THEN evidence.age + elapsed ELSE Patience)
  BY DEF Ages, Capped
<1> QED
  BY <1>0, <1>1, <1>2

\* A sample at which no phase is looked for.
LEMMA NothingSoughtOK ==
  ASSUME StructureInv, NEW elapsed \in {0, 1}, NothingSought(elapsed)
  PROVE  StructureInv' /\ UNCHANGED phase
<1>1. evidence' = [evidence EXCEPT !.age = Ages(elapsed).evidence]
  BY DEF NothingSought
<1>2. evidence'.for = evidence.for /\ evidence'.age = Ages(elapsed).evidence
      /\ evidence' = [for |-> evidence'.for, age |-> evidence'.age, rolling |-> evidence'.rolling]
  BY <1>1 DEF StructureInv
<1> QED
  BY <1>2, AgesGoOn DEF NothingSought, StructureInv

\* A phase that is entered because it was desired has been desired long enough.
LEMMA CandidateOK ==
  ASSUME StructureInv, NEW elapsed \in {0, 1}, NEW rolling \in BOOLEAN,
         NEW desired \in {"breakdown", "groove", "buildup"},
         FollowCandidate(elapsed, rolling, desired), evidence' = EvidenceOf(elapsed, rolling, desired)
  PROVE  /\ StructureInv'
         /\ phase' # phase => /\ evidence'.for = phase'
                              /\ evidence'.age >= ConfirmOf(phase', evidence'.rolling)
<1>1. /\ evidence'.for = desired /\ evidence'.rolling = rolling
      /\ evidence'.age = IF evidence.for = desired THEN Ages(elapsed).evidence ELSE 0
      /\ evidence' = [for |-> evidence'.for, age |-> evidence'.age, rolling |-> evidence'.rolling]
  BY DEF EvidenceOf
<1>2. evidence'.age \in Nat
  BY <1>1, AgesGoOn
<1>3. CASE desired = phase
  BY <1>1, <1>2, <1>3 DEF FollowCandidate, StructureInv
<1>4. CASE desired # phase /\ desired # wanted
  BY <1>1, <1>2, <1>4 DEF FollowCandidate, StructureInv
<1>5. CASE desired # phase /\ desired = wanted
  <2>1. evidence.for = wanted /\ wantedAge <= evidence.age
    BY <1>5 DEF StructureInv
  <2>2. evidence'.age = Ages(elapsed).evidence /\ Ages(elapsed).wanted <= evidence'.age
        /\ Ages(elapsed).wanted \in Nat
    BY <1>1, <1>5, <2>1, AgesGoOn
  <2>3. CASE Ages(elapsed).wanted >= ConfirmOf(desired, rolling)
    <3>1. phase' = desired /\ wanted' = "none" /\ wantedAge' = 0
      BY <1>5, <2>3 DEF FollowCandidate, Transition
    <3>2. ConfirmOf(desired, rolling) \in Nat
      BY StructureAssumption DEF ConfirmOf
    <3> QED
      BY <1>1, <1>2, <2>2, <2>3, <3>1, <3>2 DEF StructureInv
  <2>4. CASE ~(Ages(elapsed).wanted >= ConfirmOf(desired, rolling))
    <3>1. wantedAge' = Ages(elapsed).wanted /\ UNCHANGED <<phase, wanted>>
      BY <1>5, <2>4 DEF FollowCandidate
    <3> QED
      BY <1>1, <1>2, <1>5, <2>2, <3>1 DEF StructureInv
  <2> QED
    BY <2>3, <2>4
<1> QED
  BY <1>3, <1>4, <1>5

\* A sample: the invariant holds again, and a phase that was entered was confirmed.
LEMMA StructureStepOK ==
  ASSUME StructureInv, [StructureNext]_structureVars
  PROVE  /\ StructureInv'
         /\ phase' # phase /\ phase' \in {"breakdown", "groove", "buildup"}
              => evidence'.for = phase' /\ evidence'.age >= ConfirmOf(phase', evidence'.rolling)
<1> DEFINE Anew(p) == wantedAge' = 0 /\ evidence' = [NoEvidence EXCEPT !.for = p]
<1>0. ASSUME NEW p, Anew(p), wanted' \in {"none", p} PROVE StructureInv'
  <2>1. evidence' = [for |-> p, age |-> 0, rolling |-> FALSE] /\ wantedAge' = 0
    BY <1>0 DEF NoEvidence
  <2>2. evidence'.for = p /\ evidence'.age = 0 /\ evidence'.rolling = FALSE
    BY <2>1
  <2>3. evidence' = [for |-> evidence'.for, age |-> evidence'.age, rolling |-> evidence'.rolling]
    BY <2>1, <2>2
  <2>4. wanted' # "none" => evidence'.for = wanted'
    BY <1>0, <2>2
  <2>5. wantedAge' = 0 /\ evidence'.age = 0
    BY <2>1, <2>2
  <2> HIDE DEF Anew
  <2> QED
    BY <2>3, <2>4, <2>5 DEF StructureInv
<1>1. ASSUME NEW elapsed \in {0, 1, Gap + 1}, HearSilence(elapsed)
      PROVE  StructureInv' /\ phase' = "idle"
  BY <1>1 DEF HearSilence, NoEvidence, StructureInv
<1>2. ASSUME NEW elapsed \in {0, 1}, Faint(elapsed)
      PROVE  StructureInv' /\ phase' = "idle"
  <2>1. CASE phase = "idle"
    BY <1>2, <2>1, NothingSoughtOK DEF Faint
  <2>2. CASE phase # "idle"
    BY <1>2, <2>2 DEF Faint, Transition, NoEvidence, StructureInv
  <2> QED
    BY <2>1, <2>2
<1>3. ASSUME NEW elapsed \in {0, 1}, NEW energy \in Levels, NEW rolling \in BOOLEAN,
             Sound(elapsed, energy, rolling)
      PROVE  /\ StructureInv'
             /\ phase' # phase /\ phase' \in {"breakdown", "groove", "buildup"}
                  => evidence'.for = phase' /\ evidence'.age >= ConfirmOf(phase', evidence'.rolling)
  <2>1. CASE Transition("drop") /\ evidence' = NoEvidence
    BY <2>1 DEF Transition, NoEvidence, StructureInv
  <2>2. CASE NothingSought(elapsed)
    BY <2>2, NothingSoughtOK
  <2>3. ASSUME NEW desired \in {"breakdown", "groove", "buildup"},
               FollowCandidate(elapsed, rolling, desired),
               evidence' = EvidenceOf(elapsed, rolling, desired)
        PROVE  /\ StructureInv'
               /\ phase' # phase => /\ evidence'.for = phase'
                                    /\ evidence'.age >= ConfirmOf(phase', evidence'.rolling)
    BY <2>3, CandidateOK
  <2>4. \A rises \in BOOLEAN : Desired(elapsed, rolling, level', rises) \subseteq {"breakdown", "groove", "buildup"}
    BY DEF Desired
  <2>5. RiseSeen(elapsed, rolling) \in BOOLEAN
    BY DEF RiseSeen
  <2> QED
    BY <1>3, <2>1, <2>2, <2>3, <2>4, <2>5 DEF Sound
<1>4. CASE FaintAfterGap \/ \E energy \in Levels : SoundAfterGap(energy)
  <2>1. phase' = "idle"
    BY <1>4 DEF FaintAfterGap, SoundAfterGap, ForgetSignal
  <2>2. \E p : Anew(p) /\ wanted' \in {"none", p}
    <3>1. CASE FaintAfterGap
      <4>1. Anew("none") /\ wanted' = "none"
        BY <3>1 DEF FaintAfterGap, NoEvidence
      <4> QED
        BY <4>1
    <3>2. CASE \E energy \in Levels : SoundAfterGap(energy)
      <4>1. Anew(wanted')
        BY <3>2 DEF SoundAfterGap
      <4> QED
        BY <4>1
    <3> QED
      BY <1>4, <3>1, <3>2
  <2> HIDE DEF Anew
  <2> QED
    BY <1>0, <2>1, <2>2
<1>5. CASE UNCHANGED structureVars
  BY <1>5 DEF structureVars, StructureInv
<1> QED
  BY <1>1, <1>2, <1>3, <1>4, <1>5 DEF StructureNext

\* No flicker: for every choice of times, breakdown, groove and buildup are entered only
\* once the sound has asked for them alone as long as they must be desired.
THEOREM PhasesDoNotFlicker == StructureInit /\ [][StructureNext]_structureVars => PhasesAreConfirmed
<1>1. StructureInit => StructureInv
  BY DEF StructureInit, NoEvidence, StructureInv
<1>2. StructureInv /\ [StructureNext]_structureVars => StructureInv'
  BY StructureStepOK
<1>3. StructureInv /\ [StructureNext]_structureVars
        => [phase' # phase /\ phase' \in {"breakdown", "groove", "buildup"}
              => /\ evidence'.for = phase'
                 /\ evidence'.age >= ConfirmOf(phase', evidence'.rolling)]_structureVars
  BY StructureStepOK
<1> QED
  BY <1>1, <1>2, <1>3, PTL DEF PhasesAreConfirmed

-----------------------------------------------------------------------------
(* Preferences.                                                            *)

PrefTypeOK ==
  /\ layout \in {"independent", "mirrored"} /\ shown \in Orders
  /\ looks \in [Stripes -> Look] /\ remembered \in Look
  /\ restore \in BOOLEAN /\ apart \in BOOLEAN
  /\ animation \in [Scopes -> Values \cup {Unset}] /\ idle \in [Scopes -> Values \cup {Unset}]
  /\ IsFiniteSet(library)

\* What was set for all is the shared setting, with none of a stripe's own left behind it
\* that might come back with the stripe.
SharedAlone == tuned # Unset => /\ animation["shared"] = tuned
                                /\ \A s \in Stripes : s # "shared" => animation[s] = Unset
IdleReaches == idled # Unset => \A s \in Present : For(idle, s) = idled

PrefInv == PrefTypeOK /\ SharedAlone /\ IdleReaches /\ RestartShowsTheSame

\* The topology names one or two stripes.
LEMMA OrdersName ==
  ASSUME NEW o \in Orders
  PROVE  /\ {o[i] : i \in 1..Len(o)} \subseteq Stripes
         /\ o[1] \in {o[i] : i \in 1..Len(o)}
<1>1. CASE o \in {<<s>> : s \in Stripes}
  BY <1>1
<1>2. CASE o \in {p \in Stripes \X Stripes : p[1] # p[2]}
  <2>1. PICK a \in Stripes, b \in Stripes : o = <<a, b>>
    BY <1>2
  <2>2. Len(o) = 2 /\ o[1] = a /\ o[2] = b
    BY <2>1
  <2>3. \A i \in 1..Len(o) : i = 1 \/ i = 2
    BY <2>2
  <2> QED
    BY <2>2, <2>3
<1> QED
  BY <1>1, <1>2 DEF Orders

\* A look may have the first of each.
LEMMA DefaultIsLook == DefaultLook \in Look
<1>1. PICK a \in Aspects : TRUE
  BY PreferencesAssumption
<1>2. [mode |-> a, brightness |-> a] \in Look
  BY DEF Look
<1>3. [mode |-> a, brightness |-> a].mode = [mode |-> a, brightness |-> a].brightness
  OBVIOUS
<1> QED
  BY <1>2, <1>3, Zenon DEF DefaultLook

\* The file's sequences are within their limit, and the active one is one of them.
LEMMA LibraryOK ==
  ASSUME IsFiniteSet(library), Valid,
         \/ \E id \in Sequence : CreateSequence(id) \/ DeleteSequence(id)
         \/ \E id \in Sequence \cup {Unset} : ActivateSequence(id)
  PROVE  IsFiniteSet(library)' /\ Valid'
<1>0. Cardinality(library) \in Nat
  BY FS_CardinalityType
<1>1. ASSUME NEW id \in Sequence, CreateSequence(id) PROVE IsFiniteSet(library)' /\ Valid'
  <2>1. /\ id \notin library /\ Cardinality(library) < MaxSequences
        /\ library' = library \cup {id} /\ active' = active
    BY <1>1 DEF CreateSequence, Library
  <2>2. IsFiniteSet(library') /\ Cardinality(library') = Cardinality(library) + 1
    BY <2>1, FS_AddElement
  <2> QED
    BY <1>0, <2>1, <2>2, PreferencesAssumption DEF Valid
<1>2. ASSUME NEW id \in Sequence, DeleteSequence(id) PROVE IsFiniteSet(library)' /\ Valid'
  <2>1. /\ id \in library /\ library' = library \ {id}
        /\ active' = IF active = id THEN Unset ELSE active
    BY <1>2 DEF DeleteSequence, Library
  <2>2. IsFiniteSet(library') /\ Cardinality(library') = Cardinality(library) - 1
    BY <2>1, FS_RemoveElement
  <2> QED
    BY <1>0, <2>1, <2>2, PreferencesAssumption DEF Valid
<1>3. ASSUME NEW id \in Sequence \cup {Unset}, ActivateSequence(id) PROVE IsFiniteSet(library)' /\ Valid'
  BY <1>3 DEF ActivateSequence, Library, Valid
<1> QED
  BY <1>1, <1>2, <1>3

\* Commands about settings.
LEMMA SettingsOK ==
  ASSUME PrefInv, NEW scope \in Scopes, NEW v \in Values, SetAnimation(scope, v) \/ SetMusicIdle(scope, v)
  PROVE  PrefInv'
<1>0. PrefTypeOK /\ Present \subseteq Stripes /\ Stripes \subseteq Scopes /\ "shared" \in Scopes
  BY OrdersName DEF PrefInv, PrefTypeOK, Present, Scopes
<1>1. UNCHANGED <<layout, shown, looks, apart, restore, remembered, library, active>>
  BY DEF SetAnimation, SetMusicIdle, SameLights, SamePlayback, SameLibrary
<1>2. RestartShowsTheSame' /\ Present' = Present
  BY <1>1 DEF PrefInv, RestartShowsTheSame, Present, Valid
<1>3. CASE SetAnimation(scope, v)
  <2>1. /\ animation' = [s \in Scopes |-> IF s = scope THEN v ELSE IF scope = "shared" THEN Unset ELSE animation[s]]
        /\ tuned' = IF scope = "shared" THEN v ELSE Unset
        /\ UNCHANGED <<idle, idled>>
    BY <1>3 DEF SetAnimation
  <2>2. PrefTypeOK'
    BY <1>0, <1>1, <2>1 DEF PrefTypeOK
  <2>3. SharedAlone'
    BY <1>0, <2>1 DEF SharedAlone
  <2>4. IdleReaches'
    BY <1>2, <2>1 DEF PrefInv, IdleReaches, For
  <2> QED
    BY <1>2, <2>2, <2>3, <2>4 DEF PrefInv
<1>4. CASE SetMusicIdle(scope, v)
  <2>1. /\ idle' = [s \in Scopes |-> IF s \in IdleScopes(scope) THEN v ELSE idle[s]]
        /\ idled' = IF scope = "shared" /\ (layout = "independent" \/ \A s \in Present : idle[s] = Unset)
                      THEN v ELSE Unset
        /\ UNCHANGED <<animation, tuned>>
    BY <1>4 DEF SetMusicIdle
  <2>2. PrefTypeOK'
    BY <1>0, <1>1, <2>1 DEF PrefTypeOK
  <2>3. SharedAlone'
    BY <2>1 DEF PrefInv, SharedAlone
  <2>4. IdleReaches'
    <3> SUFFICES ASSUME idled' # Unset, NEW s \in Present PROVE For(idle', s) = idled'
      BY <1>2 DEF IdleReaches, For
    <3>1. scope = "shared" /\ idled' = v /\ v # Unset
          /\ (layout = "independent" \/ \A t \in Present : idle[t] = Unset)
      BY <2>1
    <3>2. CASE layout = "independent"
      BY <1>0, <2>1, <3>1, <3>2 DEF IdleScopes, For
    <3>3. CASE layout # "independent"
      BY <1>0, <2>1, <3>1, <3>3 DEF IdleScopes, For
    <3> QED
      BY <3>2, <3>3
  <2> QED
    BY <1>2, <2>2, <2>3, <2>4 DEF PrefInv
<1> QED
  BY <1>3, <1>4

\* Commands about what the outputs show, the topology and a restart.
LEMMA PlaybackOK ==
  ASSUME PrefInv,
         \/ \E scope \in Scopes, v \in Aspects, aspect \in {"mode", "brightness"} : SetLook(scope, aspect, v)
         \/ \E on \in BOOLEAN : SetStartupRestore(on)
         \/ \E l \in {"independent", "mirrored"}, stripes \in Orders : SetStripeTopology(l, stripes)
         \/ Restart
  PROVE  PrefInv'
<1>0. /\ PrefTypeOK /\ Present \subseteq Stripes /\ shown[1] \in Present
      /\ looks \in [Stripes -> Look] /\ remembered \in Look /\ restore \in BOOLEAN /\ apart \in BOOLEAN
      /\ restore /\ ~apart => \A s \in Present : looks[s] = remembered
      /\ Valid
  BY OrdersName DEF PrefInv, PrefTypeOK, Present, RestartShowsTheSame
<1>1. UNCHANGED <<animation, idle, tuned, library, active>>
  BY DEF SetLook, SetStartupRestore, SetStripeTopology, Restart, SameSettings, SameLibrary
<1>2. SharedAlone' /\ Valid' /\ IsFiniteSet(library)' /\ animation' = animation /\ idle' = idle
  <2>1. animation' = animation /\ idle' = idle /\ tuned' = tuned /\ library' = library /\ active' = active
    BY <1>1
  <2>2. SharedAlone'
    BY <2>1 DEF PrefInv, SharedAlone
  <2>3. Valid' /\ IsFiniteSet(library)'
    BY <1>0, <2>1 DEF PrefTypeOK, Valid
  <2> QED
    BY <2>1, <2>2, <2>3
<1>3. ASSUME NEW scope \in Scopes, NEW v \in Aspects, NEW aspect \in {"mode", "brightness"},
             SetLook(scope, aspect, v)
      PROVE  PrefInv'
  <2>1. UNCHANGED <<layout, shown, restore, idled>> /\ Present' = Present
    BY <1>3 DEF SetLook, SameSettings, Present
  <2>2. looks' \in [Stripes -> Look]
    <3>1. \A s \in Stripes : [looks[s] EXCEPT ![aspect] = v] \in Look
      BY <1>0 DEF Look
    <3> QED
      BY <1>0, <1>3, <3>1 DEF SetLook
  <2>3. CASE scope = "shared" /\ restore
    <3>1. remembered' = looks'[shown[1]] /\ (apart' <=> ~\A s \in Present : looks'[s] = looks'[shown[1]])
          /\ apart' \in BOOLEAN
      BY <1>3, <2>3 DEF SetLook, RememberFirst, Alike
    <3>2. RestartShowsTheSame'
      BY <1>2, <2>1, <3>1 DEF RestartShowsTheSame
    <3>3. remembered' \in Look
      BY <1>0, <2>2, <3>1
    <3> QED
      BY <1>0, <1>2, <2>1, <2>2, <3>1, <3>2, <3>3 DEF PrefInv, PrefTypeOK, IdleReaches, For
  <2>4. CASE ~(scope = "shared" /\ restore)
    <3>1. remembered' = remembered /\ (apart' <=> apart \/ scope # "shared") /\ apart' \in BOOLEAN
      BY <1>3, <2>4 DEF SetLook
    <3>2. RestartShowsTheSame'
      BY <1>2, <2>1, <2>4, <3>1 DEF RestartShowsTheSame
    <3> QED
      BY <1>0, <1>2, <2>1, <2>2, <3>1, <3>2 DEF PrefInv, PrefTypeOK, IdleReaches, For
  <2> QED
    BY <2>3, <2>4
<1>4. ASSUME NEW on \in BOOLEAN, SetStartupRestore(on) PROVE PrefInv'
  <2>1. UNCHANGED <<layout, shown, looks, idled>> /\ Present' = Present /\ restore' = on
    BY <1>4 DEF SetStartupRestore, SameSettings, Present
  <2>2. CASE on
    <3>1. remembered' = looks[shown[1]] /\ (apart' <=> ~\A s \in Present : looks[s] = looks[shown[1]])
          /\ apart' \in BOOLEAN
      BY <1>4, <2>2 DEF SetStartupRestore, RememberFirst, Alike
    <3>2. RestartShowsTheSame' /\ remembered' \in Look
      BY <1>0, <1>2, <2>1, <3>1 DEF RestartShowsTheSame
    <3> QED
      BY <1>0, <1>2, <2>1, <3>1, <3>2 DEF PrefInv, PrefTypeOK, IdleReaches, For
  <2>3. CASE ~on
    <3>1. remembered' = remembered /\ apart' = apart
      BY <1>4, <2>3 DEF SetStartupRestore
    <3>2. RestartShowsTheSame'
      BY <1>2, <2>1, <2>3 DEF RestartShowsTheSame
    <3> QED
      BY <1>0, <1>2, <2>1, <3>1, <3>2 DEF PrefInv, PrefTypeOK, IdleReaches, For
  <2> QED
    BY <2>2, <2>3
<1>5. ASSUME NEW l \in {"independent", "mirrored"}, NEW stripes \in Orders, SetStripeTopology(l, stripes)
      PROVE  PrefInv'
  <2>1. /\ layout' = l /\ shown' = stripes /\ idled' = Unset
        /\ looks' = [s \in Stripes |-> IF s \in Present THEN looks[s] ELSE looks[shown[1]]]
        /\ UNCHANGED <<restore, remembered, apart>>
    BY <1>5 DEF SetStripeTopology, SamePlayback
  <2>2. Present' \subseteq Stripes
    BY <2>1, OrdersName DEF Present
  <2>3. RestartShowsTheSame' /\ IdleReaches'
    BY <1>0, <1>2, <2>1, <2>2 DEF RestartShowsTheSame, IdleReaches
  <2>4. PrefTypeOK'
    BY <1>0, <1>2, <2>1 DEF PrefTypeOK
  <2> QED
    BY <1>2, <2>3, <2>4 DEF PrefInv
<1>6. CASE Restart
  <2>1. /\ looks' = [s \in Stripes |-> IF restore THEN remembered ELSE DefaultLook]
        /\ (apart' <=> apart /\ ~restore) /\ apart' \in BOOLEAN
        /\ UNCHANGED <<layout, shown, restore, remembered, idled>> /\ Present' = Present
    BY <1>6 DEF Restart, SameSettings, SamePlayback, Present
  <2>2. RestartShowsTheSame'
    BY <1>0, <1>2, <2>1 DEF RestartShowsTheSame
  <2>3. PrefTypeOK'
    BY <1>0, <1>2, <2>1, DefaultIsLook DEF PrefTypeOK
  <2> QED
    BY <1>2, <2>1, <2>2, <2>3 DEF PrefInv, IdleReaches, For
<1> QED
  BY <1>3, <1>4, <1>5, <1>6

\* A command, or a restart, keeps the invariant.
LEMMA PrefStepOK == PrefInv /\ [PrefNext]_prefVars => PrefInv'
<1> SUFFICES ASSUME PrefInv, [PrefNext]_prefVars PROVE PrefInv'
  OBVIOUS
<1>1. CASE \/ \E id \in Sequence : CreateSequence(id) \/ DeleteSequence(id)
           \/ \E id \in Sequence \cup {Unset} : ActivateSequence(id)
  <2>1. UNCHANGED <<layout, shown, looks, apart, restore, remembered, animation, idle, tuned, idled>>
    BY <1>1 DEF CreateSequence, DeleteSequence, ActivateSequence, Library, SameLights, SamePlayback, SameSettings
  <2>2. IsFiniteSet(library)' /\ Valid'
    BY <1>1, LibraryOK DEF PrefInv, PrefTypeOK, RestartShowsTheSame
  <2>3. Present' = Present
    BY <2>1 DEF Present
  <2> QED
    BY <2>1, <2>2, <2>3 DEF PrefInv, PrefTypeOK, SharedAlone, IdleReaches, For, RestartShowsTheSame
<1>2. CASE UNCHANGED prefVars
  <2>1. Present' = Present
    BY <1>2 DEF prefVars, Present
  <2> QED
    BY <1>2, <2>1 DEF prefVars, PrefInv, PrefTypeOK, SharedAlone, IdleReaches, For, RestartShowsTheSame, Valid
<1> QED
  BY <1>1, <1>2, SettingsOK, PlaybackOK DEF PrefNext

\* What was set holds, for any stripes and settings: for all stripes where it was set for
\* all, those included that come back, and after a restart; and the file is always one
\* that a start accepts.
THEOREM SettingsStay == PrefInit /\ [][PrefNext]_prefVars => []SettingsHold
<1>1. PrefInit => PrefInv
  <2> SUFFICES ASSUME PrefInit PROVE PrefInv
    OBVIOUS
  <2>1. PrefTypeOK
    <3>1. shown \in Orders /\ IsFiniteSet(library)
      BY FS_EmptySet DEF PrefInit, Orders
    <3> QED
      BY <3>1, DefaultIsLook DEF PrefInit, PrefTypeOK, Nothing
  <2>2. SharedAlone /\ IdleReaches
    BY DEF PrefInit, SharedAlone, IdleReaches
  <2>3. RestartShowsTheSame
    <3>1. Valid
      BY FS_EmptySet, PreferencesAssumption DEF PrefInit, Valid
    <3> QED
      BY <3>1 DEF PrefInit, RestartShowsTheSame
  <2> QED
    BY <2>1, <2>2, <2>3 DEF PrefInv
<1>2. PrefInv => SettingsHold
  <2> SUFFICES ASSUME PrefInv PROVE SharedReaches
    BY DEF PrefInv, SettingsHold
  <2>1. Present \subseteq Stripes
    BY OrdersName DEF PrefInv, PrefTypeOK, Present
  <2> QED
    BY <2>1 DEF PrefInv, SharedAlone, IdleReaches, SharedReaches, For
<1> QED
  BY <1>1, <1>2, PrefStepOK, PTL

-----------------------------------------------------------------------------
(* AudioCalibration.                                                       *)

\* A measurement with d in the frames f: frames of d up to the last one looked at, each
\* later than those before it, all of the quiet room before all of the music.
Rising(q) == \A i, j \in 1..Len(q) : j < i => q[j] < q[i]
Measured(f, d, q, m, last) ==
  /\ q \in Seq(Nat) /\ m \in Seq(Nat) /\ last \in Nat /\ last <= Len(f)
  /\ \A i \in 1..Len(q) : q[i] \in 1..last /\ f[q[i]] = d
  /\ \A i \in 1..Len(m) : m[i] \in 1..last /\ f[m[i]] = d
  /\ Rising(q) /\ Rising(m)
  /\ \A i \in 1..Len(q), j \in 1..Len(m) : q[i] < m[j]

Sessions == [device : Devices \cup {"none"}, phase : {"none", "quiet", "waiting", "music"}, twoStep : BOOLEAN,
             last : Nat, quiet : Seq(Nat), music : Seq(Nat), result : BOOLEAN, error : BOOLEAN]
Measurements == [quiet : Seq(Nat), music : Seq(Nat)]

\* A session is in one of its phases, with enough measured for the phases it has been through.
Session(f, s) ==
  /\ s \in Sessions /\ s.device \in Devices
  /\ Measured(f, s.device, s.quiet, s.music, s.last)
  /\ s.phase \in {"quiet", "waiting", "music"}
  /\ s.phase # "music" => s.music = <<>>
  /\ s.phase # "quiet" => s.twoStep /\ Len(s.quiet) >= Enough
  /\ s.result => IF s.twoStep THEN s.phase = "music" /\ Len(s.music) >= Enough ELSE s.quiet # <<>>

\* A profile is what was measured, and enough of it.
Measurement(f, d, p) ==
  p # NotMeasured => /\ Measured(f, d, p.quiet, p.music, Len(f))
                     /\ p.quiet # <<>>
                     /\ p.music # <<>> => Len(p.quiet) >= Enough /\ Len(p.music) >= Enough

CalInv ==
  /\ input \in Devices \cup {"none"} /\ heard \in Seq(Devices)
  /\ latest \in {0, Len(heard)} /\ (latest # 0 => heard[latest] = input)
  /\ seen \in [device : Devices \cup {"none"}, frame : Nat] /\ seen.frame <= Len(heard)
  /\ session = NoCalibration \/ (Session(heard, session) /\ (seen.frame = 0 \/ session.last <= seen.frame))
  /\ profile \in [Devices -> Measurements] /\ \A d \in Devices : Measurement(heard, d, profile[d])

\* A rising sequence still rises with something later at its end.
LEMMA RisingGrows ==
  ASSUME NEW q \in Seq(Nat), Rising(q), NEW n \in Nat, \A i \in 1..Len(q) : q[i] < n
  PROVE  Rising(Append(q, n))
<1>1. /\ Len(q) \in Nat /\ Len(Append(q, n)) = Len(q) + 1 /\ Append(q, n)[Len(q) + 1] = n
      /\ \A i \in 1..Len(q) : Append(q, n)[i] = q[i]
  OBVIOUS
<1> SUFFICES ASSUME NEW i \in 1..Len(q) + 1, NEW j \in 1..Len(q) + 1, j < i
             PROVE  Append(q, n)[j] < Append(q, n)[i]
  BY <1>1 DEF Rising
<1>2. j \in 1..Len(q) /\ Append(q, n)[j] = q[j]
  BY <1>1
<1>3. CASE i = Len(q) + 1
  BY <1>1, <1>2, <1>3
<1>4. CASE i \in 1..Len(q)
  BY <1>1, <1>2, <1>4 DEF Rising
<1> QED
  BY <1>1, <1>3, <1>4

\* What a measurement says of the places of its frames.
LEMMA MeasuredFacts ==
  ASSUME NEW f, NEW d, NEW q, NEW m, NEW last, Measured(f, d, q, m, last)
  PROVE  /\ q \in Seq(Nat) /\ m \in Seq(Nat) /\ Len(q) \in Nat /\ Len(m) \in Nat
         /\ last \in Nat /\ last <= Len(f) /\ Rising(q) /\ Rising(m)
         /\ \A i \in 1..Len(q) : q[i] \in Nat /\ q[i] >= 1 /\ q[i] <= last /\ f[q[i]] = d
         /\ \A i \in 1..Len(m) : m[i] \in Nat /\ m[i] >= 1 /\ m[i] <= last /\ f[m[i]] = d
         /\ \A i \in 1..Len(q), j \in 1..Len(m) : q[i] < m[j]
BY DEF Measured

\* A new frame is later than all the others.
LEMMA QuietGrows ==
  ASSUME NEW f, NEW d, NEW q, NEW last, Measured(f, d, q, <<>>, last),
         NEW n \in Nat, last < n, n <= Len(f), f[n] = d
  PROVE  Measured(f, d, Append(q, n), <<>>, n)
<1>1. /\ q \in Seq(Nat) /\ <<>> \in Seq(Nat) /\ Len(q) \in Nat /\ Len(<<>>) = 0 /\ last \in Nat /\ Rising(q)
      /\ \A i \in 1..Len(q) : q[i] \in Nat /\ q[i] >= 1 /\ q[i] <= last /\ f[q[i]] = d
  BY MeasuredFacts
<1>2. /\ Append(q, n) \in Seq(Nat) /\ Len(Append(q, n)) = Len(q) + 1 /\ Append(q, n)[Len(q) + 1] = n
      /\ \A i \in 1..Len(q) : Append(q, n)[i] = q[i]
  BY <1>1
<1>3. Rising(Append(q, n))
  <2>1. q \in Seq(Nat) /\ Rising(q) /\ \A i \in 1..Len(q) : q[i] < n
    BY <1>1
  <2> QED
    BY <2>1, RisingGrows
<1>4. \A i \in 1..Len(Append(q, n)) : Append(q, n)[i] \in 1..n /\ f[Append(q, n)[i]] = d
  <2> SUFFICES ASSUME NEW i \in 1..Len(q) + 1 PROVE Append(q, n)[i] \in 1..n /\ f[Append(q, n)[i]] = d
    BY <1>2
  <2>1. CASE i = Len(q) + 1
    BY <1>2, <2>1, last < n, <1>1
  <2>2. CASE i \in 1..Len(q)
    <3>1. Append(q, n)[i] = q[i] /\ q[i] \in Nat /\ q[i] >= 1 /\ q[i] <= last /\ f[q[i]] = d
      BY <1>1, <1>2, <2>2
    <3> QED
      BY <3>1, <1>1
  <2> QED
    BY <1>1, <2>1, <2>2
<1>5. Rising(<<>>)
  BY <1>1 DEF Rising
<1> QED
  BY <1>1, <1>2, <1>3, <1>4, <1>5 DEF Measured

\* A new frame is later than all the others, those of the quiet room too.
LEMMA MusicGrows ==
  ASSUME NEW f, NEW d, NEW q, NEW m, NEW last, Measured(f, d, q, m, last),
         NEW n \in Nat, last < n, n <= Len(f), f[n] = d
  PROVE  Measured(f, d, q, Append(m, n), n)
<1>1. /\ q \in Seq(Nat) /\ m \in Seq(Nat) /\ Len(q) \in Nat /\ Len(m) \in Nat /\ last \in Nat /\ Rising(q) /\ Rising(m)
      /\ \A i \in 1..Len(q) : q[i] \in Nat /\ q[i] >= 1 /\ q[i] <= last /\ f[q[i]] = d
      /\ \A i \in 1..Len(m) : m[i] \in Nat /\ m[i] >= 1 /\ m[i] <= last /\ f[m[i]] = d
      /\ \A i \in 1..Len(q), j \in 1..Len(m) : q[i] < m[j]
  BY MeasuredFacts
<1>2. /\ Append(m, n) \in Seq(Nat) /\ Len(Append(m, n)) = Len(m) + 1 /\ Append(m, n)[Len(m) + 1] = n
      /\ \A i \in 1..Len(m) : Append(m, n)[i] = m[i]
  BY <1>1
<1>3. Rising(Append(m, n))
  <2>1. m \in Seq(Nat) /\ Rising(m) /\ \A i \in 1..Len(m) : m[i] < n
    BY <1>1
  <2> QED
    BY <2>1, RisingGrows
<1>4. \A i \in 1..Len(Append(m, n)) : Append(m, n)[i] \in 1..n /\ f[Append(m, n)[i]] = d
  <2> SUFFICES ASSUME NEW i \in 1..Len(m) + 1 PROVE Append(m, n)[i] \in 1..n /\ f[Append(m, n)[i]] = d
    BY <1>2
  <2>1. CASE i = Len(m) + 1
    BY <1>2, <2>1, last < n, <1>1
  <2>2. CASE i \in 1..Len(m)
    <3>1. Append(m, n)[i] = m[i] /\ m[i] \in Nat /\ m[i] >= 1 /\ m[i] <= last /\ f[m[i]] = d
      BY <1>1, <1>2, <2>2
    <3> QED
      BY <3>1, <1>1
  <2> QED
    BY <1>1, <2>1, <2>2
<1>5. \A i \in 1..Len(q), j \in 1..Len(Append(m, n)) : q[i] < Append(m, n)[j]
  <2> SUFFICES ASSUME NEW i \in 1..Len(q), NEW j \in 1..Len(m) + 1 PROVE q[i] < Append(m, n)[j]
    BY <1>2
  <2>1. q[i] \in Nat /\ q[i] <= last
    BY <1>1
  <2>2. CASE j = Len(m) + 1
    BY <1>1, <1>2, <2>1, <2>2
  <2>3. CASE j \in 1..Len(m)
    <3>1. Append(m, n)[j] = m[j] /\ q[i] < m[j]
      BY <1>1, <1>2, <2>3
    <3> QED
      BY <3>1
  <2> QED
    BY <1>1, <2>2, <2>3
<1>6. \A i \in 1..Len(q) : q[i] \in 1..n /\ f[q[i]] = d
  BY <1>1
<1> QED
  BY <1>1, <1>2, <1>3, <1>4, <1>5, <1>6 DEF Measured

\* More frames change nothing about those that were measured, nor does a later look.
LEMMA MeasuredStays ==
  ASSUME NEW f, NEW d, NEW q, NEW m, NEW last, Measured(f, d, q, m, last), Len(f) \in Nat,
         NEW g, Len(g) \in Nat, \A i \in 1..Len(f) : g[i] = f[i], NEW n \in Nat, last <= n, n <= Len(g)
  PROVE  Measured(g, d, q, m, n)
<1>1. /\ q \in Seq(Nat) /\ m \in Seq(Nat) /\ last \in Nat /\ last <= Len(f) /\ Rising(q) /\ Rising(m)
      /\ \A i \in 1..Len(q) : q[i] \in Nat /\ q[i] >= 1 /\ q[i] <= last /\ f[q[i]] = d
      /\ \A i \in 1..Len(m) : m[i] \in Nat /\ m[i] >= 1 /\ m[i] <= last /\ f[m[i]] = d
      /\ \A i \in 1..Len(q), j \in 1..Len(m) : q[i] < m[j]
  BY MeasuredFacts
<1>2. \A k \in Nat : k >= 1 /\ k <= last => k \in 1..n /\ g[k] = f[k]
  BY SMTT(30), <1>1
<1>3. \A i \in 1..Len(q) : q[i] \in 1..n /\ g[q[i]] = d
  BY <1>1, <1>2
<1>4. \A i \in 1..Len(m) : m[i] \in 1..n /\ g[m[i]] = d
  BY <1>1, <1>2
<1> QED
  BY <1>1, <1>3, <1>4 DEF Measured

\* A session's fields, for the steps that change one of them.
LEMMA SessionFields ==
  ASSUME NEW s \in Sessions
  PROVE  /\ s.device \in Devices \cup {"none"} /\ s.phase \in {"none", "quiet", "waiting", "music"}
         /\ s.twoStep \in BOOLEAN /\ s.last \in Nat /\ s.quiet \in Seq(Nat) /\ s.music \in Seq(Nat)
         /\ s.result \in BOOLEAN /\ s.error \in BOOLEAN
BY DEF Sessions

\* A session that fails stays what it was, without a result.
LEMMA SessionFails ==
  ASSUME NEW f, NEW s, Session(f, s)
  PROVE  Session(f, Failed(s))
<1>1. Failed(s) \in Sessions
  BY DEF Failed, Session, Sessions
<1>2. /\ Failed(s).device = s.device /\ Failed(s).phase = s.phase /\ Failed(s).twoStep = s.twoStep
      /\ Failed(s).last = s.last /\ Failed(s).quiet = s.quiet /\ Failed(s).music = s.music /\ ~Failed(s).result
  BY DEF Failed, Session, Sessions
<1> QED
  BY <1>1, <1>2 DEF Session

\* The levels of a status go to the phase that the session is in.
LEMMA SessionSamples ==
  ASSUME NEW f, Len(f) \in Nat, NEW s, Session(f, s), ~s.result, s.phase # "waiting",
         NEW t, t.frame \in Nat, t.frame <= Len(f), t.frame # 0 => f[t.frame] = s.device
  PROVE  Session(f, Sampled(s, t)) /\ ~Sampled(s, t).result /\ Sampled(s, t).phase = s.phase
<1> DEFINE n == t.frame
<1>1. s \in Sessions /\ s.device \in Devices /\ Measured(f, s.device, s.quiet, s.music, s.last)
      /\ s.phase \in {"quiet", "music"} /\ (s.phase # "music" => s.music = <<>>)
      /\ (s.phase # "quiet" => s.twoStep /\ Len(s.quiet) >= Enough)
  BY DEF Session
<1>2. /\ s.last \in Nat /\ s.quiet \in Seq(Nat) /\ s.music \in Seq(Nat)
  BY <1>1, SessionFields
<1>3. CASE n <= s.last
  BY <1>3 DEF Sampled
<1>4. CASE ~(n <= s.last) /\ s.phase = "quiet"
  <2> DEFINE a == Append(s.quiet, n)
         r == [s EXCEPT !.last = n, !.quiet = a]
  <2>0. n \in Nat /\ a \in Seq(Nat)
    BY <1>2
  <2> HIDE DEF n, a
  <2>1. Sampled(s, t) = r
    BY <1>4 DEF Sampled, a, n
  <2>2. /\ r \in Sessions /\ r.device = s.device /\ r.phase = s.phase /\ r.twoStep = s.twoStep /\ r.last = n
        /\ r.quiet = a /\ r.music = s.music /\ r.result = s.result
    BY <1>1, <1>2, <2>0 DEF Sessions
  <2>3. Measured(f, s.device, Append(s.quiet, n), <<>>, n)
    BY <1>1, <1>2, <1>4, QuietGrows DEF n
  <2> HIDE DEF r
  <2> QED
    BY <1>1, <1>4, <2>1, <2>2, <2>3 DEF Session, a
<1>5. CASE ~(n <= s.last) /\ s.phase = "music"
  <2> DEFINE a == Append(s.music, n)
         r == [s EXCEPT !.last = n, !.music = a]
  <2>0. n \in Nat /\ a \in Seq(Nat)
    BY <1>2
  <2> HIDE DEF n, a
  <2>1. Sampled(s, t) = r
    BY <1>5 DEF Sampled, a, n
  <2>2. /\ r \in Sessions /\ r.device = s.device /\ r.phase = s.phase /\ r.twoStep = s.twoStep /\ r.last = n
        /\ r.quiet = s.quiet /\ r.music = a /\ r.result = s.result
    BY <1>1, <1>2, <2>0 DEF Sessions
  <2>3. Measured(f, s.device, s.quiet, Append(s.music, n), n)
    BY <1>1, <1>2, <1>5, MusicGrows DEF n
  <2> HIDE DEF r
  <2> QED
    BY <1>1, <1>5, <2>1, <2>2, <2>3 DEF Session, a
<1> QED
  BY <1>1, <1>3, <1>4, <1>5

\* At the end of its time a session waits for the music, has a result, or has failed.
LEMMA SessionEnds ==
  ASSUME NEW f, NEW s, Session(f, s), ~s.result, s.phase # "waiting", NEW fresh, NEW r \in Ended(s, fresh)
  PROVE  Session(f, r)
<1>1. s \in Sessions /\ s.device \in Devices /\ Measured(f, s.device, s.quiet, s.music, s.last)
      /\ s.phase \in {"quiet", "music"} /\ (s.phase # "music" => s.music = <<>>)
      /\ (s.phase # "quiet" => s.twoStep /\ Len(s.quiet) >= Enough)
  BY DEF Session
<1>2. /\ s.quiet \in Seq(Nat) /\ Len(s.quiet) \in Nat /\ Enough \in Nat
  BY <1>1, SessionFields, CalibrationAssumption
<1>3. CASE r = [s EXCEPT !.error = TRUE]
  <2>1. /\ r \in Sessions /\ r.device = s.device /\ r.phase = s.phase /\ r.twoStep = s.twoStep /\ r.last = s.last
        /\ r.quiet = s.quiet /\ r.music = s.music /\ r.result = s.result
    BY <1>1, <1>3 DEF Sessions
  <2> QED
    BY <1>1, <2>1 DEF Session
<1>4. CASE s.twoStep /\ s.phase = "quiet" /\ ~(Len(s.quiet) < Enough) /\ r = [s EXCEPT !.phase = "waiting"]
  <2>1. /\ r \in Sessions /\ r.device = s.device /\ r.phase = "waiting" /\ r.twoStep = s.twoStep /\ r.last = s.last
        /\ r.quiet = s.quiet /\ r.music = s.music /\ r.result = s.result
    BY <1>1, <1>4 DEF Sessions
  <2> QED
    BY <1>1, <1>2, <1>4, <2>1 DEF Session
<1>5. CASE /\ ~(s.twoStep /\ s.phase = "quiet") /\ r = [s EXCEPT !.result = TRUE]
           /\ IF s.twoStep THEN Len(s.music) >= Enough ELSE s.quiet # <<>>
  <2>1. /\ r \in Sessions /\ r.device = s.device /\ r.phase = s.phase /\ r.twoStep = s.twoStep /\ r.last = s.last
        /\ r.quiet = s.quiet /\ r.music = s.music
    BY <1>1, <1>5 DEF Sessions
  <2> QED
    BY <1>1, <1>5, <2>1 DEF Session
<1> QED
  BY <1>3, <1>4, <1>5 DEF Ended

\* A status of the session's device, or any other, leaves a session as it should be.
LEMMA SessionAdvances ==
  ASSUME NEW f, Len(f) \in Nat, NEW s, Session(f, s), NEW t, t.frame \in Nat, t.frame <= Len(f),
         t.frame # 0 => f[t.frame] = t.device, NEW r \in Advanced(s, t)
  PROVE  Session(f, r)
<1>1. CASE r = Failed(s) \/ r = s
  BY <1>1, SessionFails
<1>2. CASE /\ ~(t.device # s.device) /\ ~(s.error \/ s.result \/ s.phase = "waiting")
           /\ r \in {Sampled(s, t)} \cup Ended(Sampled(s, t), t.frame # 0)
  <2>1. Session(f, Sampled(s, t)) /\ ~Sampled(s, t).result /\ Sampled(s, t).phase # "waiting"
    BY <1>2, SessionSamples
  <2> QED
    BY <1>2, <2>1, SessionEnds
<1> QED
  BY <1>1, <1>2 DEF Advanced

\* More frames leave a session, and a profile, as they are.
LEMMA SessionStays ==
  ASSUME NEW f, NEW g, Len(f) \in Nat, Len(g) \in Nat, Len(f) <= Len(g), \A i \in 1..Len(f) : g[i] = f[i]
  PROVE  /\ \A s : Session(f, s) => Session(g, s)
         /\ \A d, p : Measurement(f, d, p) => Measurement(g, d, p)
<1>1. ASSUME NEW s, Session(f, s) PROVE Session(g, s)
  <2>1. Measured(f, s.device, s.quiet, s.music, s.last) /\ s.last \in Nat /\ s.last <= Len(f)
    BY <1>1, MeasuredFacts DEF Session
  <2>2. Measured(g, s.device, s.quiet, s.music, s.last)
    BY <2>1, MeasuredStays
  <2> QED
    BY <1>1, <2>2 DEF Session
<1>2. ASSUME NEW d, NEW p, Measurement(f, d, p) PROVE Measurement(g, d, p)
  <2>1. ASSUME p # NotMeasured PROVE Measured(g, d, p.quiet, p.music, Len(g))
    <3>1. Measured(f, d, p.quiet, p.music, Len(f))
      BY <1>2, <2>1 DEF Measurement
    <3> QED
      BY <3>1, MeasuredStays
  <2> QED
    BY <1>2, <2>1 DEF Measurement
<1> QED
  BY <1>1, <1>2

\* A frame of the input is the next one, and the only change to those heard.
LEMMA FramesGrow ==
  ASSUME NEW h \in Seq(Devices), NEW d \in Devices
  PROVE  /\ Append(h, d) \in Seq(Devices) /\ Len(h) \in Nat /\ Len(Append(h, d)) \in Nat
         /\ Len(h) <= Len(Append(h, d)) /\ Append(h, d)[Len(Append(h, d))] = d
         /\ Len(Append(h, d)) # 0 /\ \A i \in 1..Len(h) : Append(h, d)[i] = h[i]
OBVIOUS

\* What the control model does with a status keeps its session and its profiles right.
LEMMA CalStepOK == CalInv /\ [CalNext]_calVars => CalInv'
<1> SUFFICES ASSUME CalInv, [CalNext]_calVars PROVE CalInv'
  OBVIOUS
<1> DEFINE Later(f, s, n) == s = NoCalibration \/ (Session(f, s) /\ (n = 0 \/ s.last <= n))
<1>0. /\ input \in Devices \cup {"none"} /\ heard \in Seq(Devices) /\ Len(heard) \in Nat
      /\ latest \in Nat /\ latest <= Len(heard) /\ latest \in {0, Len(heard)} /\ (latest # 0 => heard[latest] = input)
      /\ seen \in [device : Devices \cup {"none"}, frame : Nat]
      /\ seen.device \in Devices \cup {"none"} /\ seen.frame \in Nat /\ seen.frame <= Len(heard)
      /\ Later(heard, session, seen.frame)
      /\ profile \in [Devices -> Measurements] /\ \A d \in Devices : Measurement(heard, d, profile[d])
  BY DEF CalInv
<1>a. ASSUME NEW s, Session(heard, s) PROVE s.last \in Nat /\ s.last <= Len(heard) /\ s # NoCalibration /\ s.device \in Devices
  BY <1>a, MeasuredFacts, CalibrationAssumption DEF Session, NoCalibration
<1>1. CASE EngineFrame
  <2> DEFINE g == Append(heard, input)
  <2>1. /\ g \in Seq(Devices) /\ Len(g) \in Nat /\ Len(heard) <= Len(g) /\ g[Len(g)] = input /\ Len(g) # 0
        /\ \A i \in 1..Len(heard) : g[i] = heard[i]
    BY <1>0, <1>1, FramesGrow DEF EngineFrame
  <2>2. heard' = g /\ latest' = Len(g) /\ UNCHANGED <<input, seen, session, profile>>
    BY <1>1 DEF EngineFrame
  <2> HIDE DEF g
  <2>3. Later(g, session, seen.frame)
    BY <1>0, <2>1, SessionStays
  <2>4. \A d \in Devices : Measurement(g, d, profile[d])
    BY <1>0, <2>1, SessionStays
  <2> QED
    BY <1>0, <2>1, <2>2, <2>3, <2>4 DEF CalInv
<1>2. CASE InputChanges
  BY <1>0, <1>2 DEF InputChanges, CalInv
<1>3. CASE StatusArrives
  <2>1. Status.frame = latest /\ Status.device = input /\ Status \in [device : Devices \cup {"none"}, frame : Nat]
    BY <1>0 DEF Status
  <2>2. seen' = Status /\ UNCHANGED <<input, heard, latest, profile>>
        /\ session' \in IF Active THEN Advanced(session, Status) ELSE {session}
    BY <1>3 DEF StatusArrives
  <2>3. session' = NoCalibration \/ Session(heard, session')
    <3>1. CASE Active
      <4>1. Session(heard, session)
        BY <1>0, <3>1 DEF Active
      <4> QED
        BY <1>0, <2>1, <2>2, <3>1, <4>1, SessionAdvances
    <3>2. CASE ~Active
      BY <2>2, <3>2 DEF Active
    <3> QED
      BY <3>1, <3>2
  <2>4. Later(heard, session', latest)
    BY <1>0, <1>a, <2>3
  <2> QED
    BY <1>0, <2>1, <2>2, <2>4 DEF CalInv
<1>4. CASE StatusFails
  <2>1. seen' \in [device : Devices \cup {"none"}, frame : Nat] /\ seen'.frame = seen.frame
    BY <1>0, <1>4 DEF StatusFails
  <2>2. Later(heard, session', seen.frame)
    <3>1. CASE session' = session
      BY <1>0, <3>1
    <3>2. CASE Active /\ session' = Failed(session)
      <4>1. Session(heard, session) /\ session.last \in Nat /\ (seen.frame = 0 \/ session.last <= seen.frame)
        BY <1>0, <1>a, <3>2 DEF Active
      <4>2. Session(heard, Failed(session)) /\ Failed(session).last = session.last
        BY <4>1, SessionFails DEF Failed, Session, Sessions
      <4> QED
        BY <3>2, <4>1, <4>2
    <3> QED
      BY <1>4, <3>1, <3>2 DEF StatusFails
  <2> QED
    BY <1>0, <1>4, <2>1, <2>2 DEF StatusFails, CalInv
<1>5. ASSUME NEW twoStep \in BOOLEAN, Start(twoStep) PROVE CalInv'
  <2> DEFINE r == [NoCalibration EXCEPT !.device = seen.device, !.phase = "quiet", !.twoStep = twoStep, !.last = seen.frame]
  <2>1. session' = r /\ UNCHANGED <<input, heard, latest, seen, profile>> /\ seen.device \in Devices
    BY <1>0, <1>5 DEF Start, Client
  <2>2. /\ r \in Sessions /\ r.device = seen.device /\ r.phase = "quiet" /\ r.last = seen.frame /\ r.quiet = <<>>
        /\ r.music = <<>> /\ r.result = FALSE
    <3>1. <<>> \in Seq(Nat)
      OBVIOUS
    <3> QED
      BY <1>0, <3>1 DEF Sessions, NoCalibration
  <2> HIDE DEF r
  <2>3. Measured(heard, seen.device, <<>>, <<>>, seen.frame)
    <3>1. <<>> \in Seq(Nat) /\ Len(<<>>) = 0
      OBVIOUS
    <3> QED
      BY <1>0, <3>1 DEF Measured, Rising
  <2>4. Session(heard, r)
    BY <2>1, <2>2, <2>3 DEF Session
  <2>5. Later(heard, r, seen.frame)
    BY <1>0, <2>2, <2>4
  <2> QED
    BY <1>0, <2>1, <2>5 DEF CalInv
<1>6. CASE BeginMusic
  <2> DEFINE r == [session EXCEPT !.phase = "music", !.last = seen.frame]
  <2>1. session' = r /\ UNCHANGED <<input, heard, latest, seen, profile>> /\ session.phase = "waiting"
        /\ seen.device = session.device /\ seen.frame # 0
    BY <1>6 DEF BeginMusic, Client
  <2>2. Session(heard, session) /\ session.last <= seen.frame
    BY <1>0, <2>1 DEF NoCalibration
  <2>3. session \in Sessions
    BY <2>2 DEF Session
  <2>4. /\ r \in Sessions /\ r.device = session.device /\ r.phase = "music" /\ r.twoStep = session.twoStep
        /\ r.last = seen.frame /\ r.quiet = session.quiet /\ r.music = session.music /\ r.result = session.result
    BY <1>0, <2>3 DEF Sessions
  <2> HIDE DEF r
  <2>5. Measured(heard, session.device, session.quiet, session.music, seen.frame)
    BY <1>0, <2>2, MeasuredStays DEF Session
  <2>6. Session(heard, r)
    BY <2>1, <2>2, <2>4, <2>5 DEF Session
  <2>7. Later(heard, r, seen.frame)
    BY <1>0, <2>4, <2>6
  <2> QED
    BY <1>0, <2>1, <2>7 DEF CalInv
<1>7. CASE Discard
  BY <1>0, <1>7 DEF Discard, Client, CalInv
<1>8. CASE Apply
  <2> DEFINE p == [quiet |-> session.quiet, music |-> session.music]
             d == session.device
  <2>1. session' = NoCalibration /\ profile' = [profile EXCEPT ![d] = p] /\ session.result
        /\ UNCHANGED <<input, heard, latest, seen>>
    BY <1>8 DEF Apply, Client
  <2>2. Session(heard, session)
    BY <1>0, <2>1 DEF NoCalibration
  <2>3. session \in Sessions /\ Measured(heard, d, session.quiet, session.music, session.last) /\ d \in Devices
        /\ session.last \in Nat /\ session.last <= Len(heard) /\ session.music \in Seq(Nat) /\ session.quiet \in Seq(Nat)
        /\ Len(session.quiet) \in Nat
    BY <1>a, <2>2, SessionFields DEF Session
  <2>4. p \in Measurements /\ p.quiet = session.quiet /\ p.music = session.music
    BY <2>3 DEF Measurements
  <2> HIDE DEF p
  <2>5. Measured(heard, d, p.quiet, p.music, Len(heard))
    BY <1>0, <2>3, <2>4, MeasuredStays
  <2>6. p.quiet # <<>> /\ (p.music # <<>> => Len(p.quiet) >= Enough /\ Len(p.music) >= Enough)
    <3>1. Len(session.quiet) >= Enough => session.quiet # <<>>
      BY CalibrationAssumption
    <3>2. CASE session.twoStep
      BY <2>1, <2>2, <2>4, <3>1, <3>2 DEF Session
    <3>3. CASE ~session.twoStep
      BY <2>1, <2>2, <2>4, <3>3 DEF Session
    <3> QED
      BY <3>2, <3>3
  <2>7. Measurement(heard, d, p)
    BY <2>5, <2>6 DEF Measurement
  <2>8. profile' \in [Devices -> Measurements] /\ \A e \in Devices : Measurement(heard, e, profile'[e])
    BY <1>0, <2>1, <2>3, <2>4, <2>7
  <2> QED
    BY <1>0, <2>1, <2>8 DEF CalInv
<1>9. CASE UNCHANGED calVars
  BY <1>0, <1>9 DEF calVars, CalInv
<1> QED
  BY <1>1, <1>2, <1>3, <1>4, <1>5, <1>6, <1>7, <1>8, <1>9 DEF CalNext

\* Frames of the quiet room followed by frames of the music rise all the way through.
LEMMA MeasuredInOrder ==
  ASSUME NEW f, NEW d, NEW q, NEW m, NEW last, Measured(f, d, q, m, last),
         NEW i \in 1..Len(q \o m)
  PROVE  f[(q \o m)[i]] = d /\ \A j \in 1..(i - 1) : (q \o m)[j] < (q \o m)[i]
<1>1. /\ q \in Seq(Nat) /\ m \in Seq(Nat) /\ Len(q) \in Nat /\ Len(m) \in Nat /\ Rising(q) /\ Rising(m)
      /\ \A k \in 1..Len(q) : q[k] \in Nat /\ f[q[k]] = d
      /\ \A k \in 1..Len(m) : m[k] \in Nat /\ f[m[k]] = d
      /\ \A k \in 1..Len(q), j \in 1..Len(m) : q[k] < m[j]
  BY MeasuredFacts
<1>2. /\ Len(q \o m) = Len(q) + Len(m)
      /\ \A k \in 1..Len(q) : (q \o m)[k] = q[k]
      /\ \A k \in 1..Len(m) : (q \o m)[Len(q) + k] = m[k]
  BY <1>1
<1> DEFINE n == i - Len(q)
<1>3. CASE i \in 1..Len(q)
  <2>1. \A j \in 1..(i - 1) : j \in 1..Len(q) /\ j < i
    BY <1>1, <1>3
  <2> QED
    BY <1>1, <1>2, <1>3, <2>1 DEF Rising
<1>4. CASE i \notin 1..Len(q)
  <2>1. n \in 1..Len(m) /\ i = Len(q) + n
    BY <1>1, <1>2, <1>4
  <2> HIDE DEF n
  <2>2. (q \o m)[i] = m[n]
    BY <1>2, <2>1
  <2>3. ASSUME NEW j \in 1..(i - 1) PROVE (q \o m)[j] < m[n]
    <3>1. CASE j \in 1..Len(q)
      BY <1>1, <1>2, <2>1, <3>1
    <3>2. CASE j \notin 1..Len(q)
      <4> DEFINE k == j - Len(q)
      <4>1. k \in 1..Len(m) /\ j = Len(q) + k /\ k < n
        BY <1>1, <2>1, <3>2
      <4> HIDE DEF k
      <4> QED
        BY <1>1, <1>2, <2>1, <4>1 DEF Rising
    <3> QED
      BY <3>1, <3>2
  <2> QED
    BY <1>1, <2>1, <2>2, <2>3
<1> QED
  BY <1>3, <1>4

\* An audio profile follows enough frames of its own device, each counted once, the quiet
\* room before the music, however often the input changes and statuses are lost.
THEOREM ProfilesAreMeasured == CalInit /\ [][CalNext]_calVars => []ProfileIsMeasured
<1>1. CalInit => CalInv
  <2> SUFFICES ASSUME CalInit PROVE CalInv
    OBVIOUS
  <2>1. <<>> \in Seq(Nat) /\ <<>> \in Seq(Devices) /\ Len(<<>>) = 0
    OBVIOUS
  <2>2. NotMeasured \in Measurements
    BY <2>1 DEF NotMeasured, Measurements
  <2>3. profile \in [Devices -> Measurements] /\ \A d \in Devices : Measurement(heard, d, profile[d])
    BY <2>2 DEF CalInit, Measurement
  <2> QED
    BY <2>1, <2>3 DEF CalInit, CalInv
<1>2. CalInv => ProfileIsMeasured
  <2> SUFFICES ASSUME CalInv, NEW d \in Devices, profile[d] # NotMeasured
               PROVE  /\ LET all == profile[d].quiet \o profile[d].music IN
                          \A i \in 1..Len(all) : heard[all[i]] = d /\ \A j \in 1..(i - 1) : all[j] < all[i]
                      /\ profile[d].quiet # <<>>
                      /\ profile[d].music # <<>> => Len(profile[d].quiet) >= Enough /\ Len(profile[d].music) >= Enough
    BY DEF ProfileIsMeasured
  <2>1. /\ Measured(heard, d, profile[d].quiet, profile[d].music, Len(heard)) /\ profile[d].quiet # <<>>
        /\ profile[d].music # <<>> => Len(profile[d].quiet) >= Enough /\ Len(profile[d].music) >= Enough
    BY DEF CalInv, Measurement
  <2> QED
    BY <2>1, MeasuredInOrder
<1> QED
  BY <1>1, <1>2, CalStepOK, PTL

-----------------------------------------------------------------------------
(* AudioRouting: for any phones, backends and number of failing calls.     *)

\* ChoicesKept of a record that a handler may leave behind, in its two parts.
Keeps(a) ==
  /\ DOMAIN a = DOMAIN Fresh
  /\ a.lost \/ IF a.original = None THEN a.default = User ELSE a.original \in {User, "unknown"}
Tunes(a) == a.tuned \/ a.halfway
Good(a) == Keeps(a) /\ Tunes(a)
AllGood(outcomes) == \A o \in outcomes : Good(o.a)

\* While a new profile is tried out, only a handler that was cut has excused it.
AllKeep(outcomes) == \A o \in outcomes : Keeps(o.a) /\ (Tunes(o.a) \/ o.end \in {"ok", "error"})

\* The fields that handlers write.
LEMMA RoutingFields ==
  DOMAIN Fresh = {"configured", "active", "started", "status", "chosen", "original", "phone", "was",
     "wait", "default", "wants", "open", "tuned", "hurry", "faults", "lost", "halfway"}
BY DEF Fresh

\* One outcome.
LEMMA OneOutcome ==
  ASSUME NEW a, Good(a) PROVE AllGood(Ok(a)) /\ AllGood(Error(a))
BY DEF Ok, Error, Outcome, AllGood

\* An error is as good as what it is made of.
LEMMA ErrorsAreGood ==
  ASSUME NEW outcomes, AllGood(outcomes) PROVE AllGood(AsError(outcomes))
BY DEF AsError, Outcome, AllGood

\* A call that is not answered, if its possible effects keep the user's source.
LEMMA LostIsGood ==
  ASSUME NEW a, NEW effects, \A x \in effects : Keeps(x)
  PROVE  AllGood(Lost(a, effects))
<1> SUFFICES ASSUME NEW o \in Lost(a, effects) PROVE Good(o.a)
  BY DEF AllGood
<1>1. PICK end \in Ends(a), x \in effects : o = Outcome(end, [Spend(x) EXCEPT !.halfway = TRUE])
  BY DEF Lost
<1>2. o.a = [Spend(x) EXCEPT !.halfway = TRUE]
  BY <1>1 DEF Outcome
<1>3. Keeps(x)
  OBVIOUS
<1> QED
  BY <1>2, <1>3, RoutingFields DEF Spend, Good, Keeps, Tunes

\* A call that only asks.
LEMMA AskKeeps ==
  ASSUME NEW a, Keeps(a) PROVE AllKeep(Ask(a)) /\ (Tunes(a) => AllGood(Ask(a)))
<1> SUFFICES ASSUME NEW o \in Ask(a)
             PROVE  Keeps(o.a) /\ (Tunes(o.a) \/ o.end \in {"ok", "error"}) /\ (Tunes(a) => Tunes(o.a))
  BY DEF AllKeep, AllGood, Good
<1>1. CASE o = Outcome("ok", a)
  BY <1>1 DEF Outcome
<1>2. CASE \E end \in Ends(a) : o = Outcome(end, [Spend(a) EXCEPT !.halfway = @ \/ end = "cut"])
  <2>1. PICK end \in Ends(a) : o = Outcome(end, [Spend(a) EXCEPT !.halfway = @ \/ end = "cut"])
    BY <1>2
  <2>2. o.end = end /\ o.a = [Spend(a) EXCEPT !.halfway = @ \/ end = "cut"]
    BY <2>1 DEF Outcome
  <2>3. /\ DOMAIN o.a = DOMAIN a /\ o.a.lost = a.lost /\ o.a.original = a.original
        /\ o.a.default = a.default /\ o.a.tuned = a.tuned
    BY <2>2, RoutingFields DEF Spend, Keeps
  <2>4. o.a.halfway = (Spend(a).halfway \/ end = "cut")
    BY <2>2, RoutingFields DEF Spend, Keeps
  <2>5. Spend(a).halfway = a.halfway
    BY RoutingFields DEF Spend, Keeps
  <2>6. Keeps(o.a)
    BY <2>3 DEF Keeps
  <2>7. Tunes(a) => Tunes(o.a)
    BY <2>3, <2>4, <2>5 DEF Tunes
  <2>8. end = "cut" => Tunes(o.a)
    BY <2>4 DEF Tunes
  <2> QED
    BY <2>2, <2>6, <2>7, <2>8 DEF Ends
<1> QED
  BY <1>1, <1>2 DEF Ask, Ok

\* The same of a good record.
LEMMA AskIsGood == ASSUME NEW a, Good(a) PROVE AllGood(Ask(a))
BY AskKeeps DEF Good

-----------------------------------------------------------------------------
\* Starting the engine's device, which runs the profile that is stored.
LEMMA ListeningIsGood == ASSUME NEW a, Good(a), NEW dev PROVE Good(Listening(a, dev))
BY RoutingFields DEF Listening, Good, Keeps, Tunes

\* Starting it, answered or not.
LEMMA StartIsGood == ASSUME NEW a, Good(a), NEW dev PROVE AllGood(AudioStart(a, dev))
<1>1. Good(Listening(a, dev))
  BY ListeningIsGood
<1>2. AllGood(Lost(a, {a, Listening(a, dev)}))
  BY <1>1, LostIsGood DEF Good
<1>3. Good([Spend(Listening(a, dev)) EXCEPT !.open = FALSE])
  BY <1>1, RoutingFields DEF Spend, Good, Keeps, Tunes
<1>4. \A end : Good(Outcome(end, Listening(a, dev)).a)
  BY <1>1 DEF Outcome
<1>5. AllGood(Error([Spend(Listening(a, dev)) EXCEPT !.open = FALSE]))
  BY <1>3, OneOutcome
<1> QED
  BY <1>2, <1>4, <1>5 DEF AudioStart, AllGood

\* The device that was started is there.
LEMMA ConfirmIsGood == ASSUME NEW a, Good(a) PROVE AllGood(ConfirmInput(a))
<1>1. AllGood(Ask(a))
  BY AskIsGood
<1>2. \A x : Good(x) => AllGood(Ok(x)) /\ AllGood(Error(x))
  BY OneOutcome
<1> QED
  BY <1>1, <1>2 DEF ConfirmInput, Then, AllGood

\* Both, as they are called.
LEMMA StartConfirmed ==
  ASSUME NEW a, Good(a), NEW dev PROVE AllGood(Then(AudioStart(a, dev), ConfirmInput))
<1>1. AllGood(AudioStart(a, dev))
  BY StartIsGood
<1>2. \A x : Good(x) => AllGood(ConfirmInput(x))
  BY ConfirmIsGood
<1> QED
  BY <1>1, <1>2 DEF Then, AllGood

\* Stopping it.
LEMMA StopIsGood == ASSUME NEW a, Good(a) PROVE AllGood(StopEngine(a))
<1> DEFINE done == [a EXCEPT !.wants = None, !.open = FALSE, !.tuned = TRUE, !.halfway = FALSE]
           stopped(x) == [x EXCEPT !.started = FALSE, !.status = None]
<1>1. Good(done)
  BY RoutingFields DEF Good, Keeps, Tunes
<1>2. AllGood(Lost(a, {a, done}))
  BY <1>1, LostIsGood DEF Good
<1>3. AllGood(AudioStop(a))
  BY <1>1, <1>2, OneOutcome DEF AudioStop, AllGood
<1>4. \A x : Good(x) => AllGood(Ok(stopped(x)))
  <2>1. ASSUME NEW x, Good(x) PROVE Good(stopped(x))
    BY <2>1, RoutingFields DEF Good, Keeps, Tunes
  <2> QED
    BY <2>1, OneOutcome
<1> QED
  BY <1>3, <1>4 DEF StopEngine, Then, AllGood

-----------------------------------------------------------------------------
\* Back to the device of before.
LEMMA TakesIsGood == ASSUME NEW a, Good(a), NEW source PROVE Good(Takes(a, source))
BY RoutingFields DEF Takes, Good, Keeps, Tunes

\* The input of before is started, or none when there was none.
LEMMA RestoreCaptureIsGood == ASSUME NEW a, Good(a) PROVE AllGood(RestoreCapture(a))
<1>1. AllGood(StopEngine(a))
  BY StopIsGood
<1>2. \A dev : AllGood(Then(AudioStart(a, dev), ConfirmInput))
  BY StartConfirmed
<1>3. \A x : Good(x) => AllGood(Ok(Takes(x, a.active)))
  BY TakesIsGood, OneOutcome
<1> QED
  BY <1>1, <1>2, <1>3 DEF RestoreCapture, Then, AllGood

\* The user's source is noted, or has not come back.
Noted(a) == Good(a) /\ (a.lost \/ a.original \in {User, "unknown"})

\* What a call for a new default source leaves behind: the new one or, when it fails, one
\* of the two, and nothing else of account.
LEMMA SetDefaultGives ==
  ASSUME NEW a, DOMAIN a = DOMAIN Fresh, NEW source, NEW o \in SetDefault(a, source)
  PROVE  /\ DOMAIN o.a = DOMAIN Fresh /\ (Tunes(a) => Tunes(o.a))
         /\ o.a.default \in {a.default, source}
         /\ o.a.lost = a.lost /\ o.a.original = a.original
<1> DEFINE done == [a EXCEPT !.default = source]
           Fits(x) == /\ DOMAIN x = DOMAIN Fresh /\ (Tunes(a) => Tunes(x))
                      /\ x.default \in {a.default, source}
                      /\ x.lost = a.lost /\ x.original = a.original
<1>1. Fits(a) /\ Fits(done)
  BY RoutingFields DEF Tunes
<1>2. \A x \in {a, done} : Fits(Spend(x)) /\ Fits([Spend(x) EXCEPT !.halfway = TRUE])
  BY <1>1, RoutingFields DEF Spend, Tunes
<1>3. \/ o = Outcome("ok", done)
      \/ \E x \in {a, done} : o = Outcome("error", Spend(x))
      \/ \E x \in {a, done} : o = Outcome("cut", [Spend(x) EXCEPT !.halfway = TRUE])
  BY DEF SetDefault, Ok
<1>4. \A end, y : Outcome(end, y).a = y
  BY DEF Outcome
<1>5. Fits(o.a)
  <2> HIDE DEF Fits, done
  <2> QED
    BY <1>1, <1>2, <1>3, <1>4
<1> QED
  BY <1>5

\* The note is made of the default source, while it is the user's.
LEMMA RecordIsGood ==
  ASSUME NEW a, Good(a), NEW o \in RecordOriginal(a)
  PROVE  /\ Good(o.a) /\ o.end \in {"ok", "cut"}
         /\ o.end = "ok" => Noted(o.a) /\ o.a.default = a.default /\ o.a.lost = a.lost
<1> DEFINE noted == [a EXCEPT !.original = a.default]
           unknown == [Spend(a) EXCEPT !.original = "unknown"]
           cut == [Spend(a) EXCEPT !.halfway = TRUE]
           Fits(x) == Noted(x) /\ x.default = a.default /\ x.lost = a.lost
<1>1. CASE a.original # None
  <2>1. o = Outcome("ok", a)
    BY <1>1 DEF RecordOriginal, Ok
  <2> QED
    BY <1>1, <2>1 DEF Outcome, Noted, Good, Keeps
<1>2. CASE a.original = None
  <2>1. Fits(noted) /\ Fits(unknown) /\ Good(cut)
    BY <1>2, RoutingFields DEF Spend, Noted, Good, Keeps, Tunes, None, User
  <2>2. o = Outcome("ok", noted) \/ o = Outcome("ok", unknown) \/ o = Outcome("cut", cut)
    BY <1>2 DEF RecordOriginal, Ok
  <2>3. \A end, y : Outcome(end, y).a = y /\ Outcome(end, y).end = end
    BY DEF Outcome
  <2> HIDE DEF noted, unknown, cut
  <2> QED
    BY <2>1, <2>2, <2>3 DEF Noted
<1> QED
  BY <1>1, <1>2

\* Another default source: when the call fails the note is forgotten again, and with it the
\* user's source if the call has replaced it.
LEMMA OverrideIsGood == ASSUME NEW a, Good(a), NEW source PROVE AllGood(Override(a, source))
<1> DEFINE kept(y) == [y EXCEPT !.halfway = TRUE]
           undone(y) == [y EXCEPT !.original = None, !.halfway = TRUE,
                                  !.lost = @ \/ y.default # a.default]
           failed(y) == IF a.original # None THEN Error(kept(y)) ELSE Error(undone(y))
           tried(x) == OrElse(SetDefault(x, source), LAMBDA y : failed(y))
<1>1. ASSUME NEW x, Noted(x), x.default = a.default, x.lost = a.lost PROVE AllGood(tried(x))
  <2>1. ASSUME NEW o \in SetDefault(x, source) PROVE Good(o.a)
    BY <1>1, <2>1, SetDefaultGives DEF Noted, Good, Keeps, None, User
  <2>2. ASSUME NEW o \in SetDefault(x, source) PROVE AllGood(failed(o.a))
    <3>1. DOMAIN o.a = DOMAIN Fresh
      BY <2>1, <2>2 DEF Good, Keeps
    <3>2. Good(kept(o.a))
      BY <2>1, <2>2, RoutingFields DEF Good, Keeps, Tunes
    <3>3. CASE a.original = None
      <4>1. a.lost \/ a.default = User
        BY <3>3 DEF Good, Keeps
      <4>2. o.a.lost = a.lost
        BY <1>1, <2>2, SetDefaultGives DEF Noted, Good, Keeps
      <4>3. /\ DOMAIN undone(o.a) = DOMAIN Fresh /\ undone(o.a).halfway = TRUE
            /\ undone(o.a).original = None /\ undone(o.a).default = o.a.default
            /\ undone(o.a).lost = (o.a.lost \/ o.a.default # a.default)
        BY <3>1, RoutingFields
      <4>4. Good(undone(o.a))
        BY <4>1, <4>2, <4>3 DEF Good, Keeps, Tunes
      <4> QED
        BY <3>3, <4>4, OneOutcome
    <3>4. CASE a.original # None
      BY <3>2, <3>4, OneOutcome
    <3> QED
      BY <3>3, <3>4
  <2> HIDE DEF failed
  <2> QED
    BY <2>1, <2>2 DEF OrElse, AllGood
<1>2. \A o \in RecordOriginal(a) :
        /\ Good(o.a)
        /\ o.end = "ok" => Noted(o.a) /\ o.a.default = a.default /\ o.a.lost = a.lost
  BY RecordIsGood
<1>3. Override(a, source) = Then(RecordOriginal(a), LAMBDA x : tried(x))
  BY DEF Override
<1> HIDE DEF tried
<1> QED
  BY <1>1, <1>2, <1>3 DEF Then, AllGood

\* Giving the default source back: it is the user's again, or lost.
LEMMA RestoreIsGood == ASSUME NEW a, Good(a) PROVE AllGood(Restore(a))
<1> DEFINE taken == [a EXCEPT !.original = None]
           left(x) == [x EXCEPT !.lost = @ \/ x.default # a.original]
           cleared(x) == [x EXCEPT !.phone = None]
<1>1. \A x : Good(x) => Good(cleared(x))
  BY RoutingFields DEF Good, Keeps, Tunes
<1>2. CASE a.original = None
  BY <1>1, <1>2, OneOutcome DEF Restore
<1>3. CASE a.original # None
  <2>1. /\ DOMAIN taken = DOMAIN Fresh /\ Tunes(taken) /\ taken.original = None
        /\ taken.lost = a.lost /\ taken.default = a.default
    BY RoutingFields DEF Good, Keeps, Tunes
  <2>2. CASE a.original = "unknown"
    <3>1. Good([cleared(taken) EXCEPT !.lost = TRUE])
      BY <2>1, RoutingFields DEF Good, Keeps, Tunes
    <3> QED
      BY <1>3, <2>2, <3>1, OneOutcome DEF Restore
  <2>3. CASE a.original # "unknown"
    <3>1. ASSUME NEW o \in SetDefault(taken, a.original) PROVE Good(left(o.a))
      <4>1. /\ DOMAIN o.a = DOMAIN Fresh /\ Tunes(o.a)
            /\ o.a.lost = a.lost /\ o.a.original = None
        <5> HIDE DEF taken
        <5> QED
          BY <2>1, <3>1, SetDefaultGives
      <4>2. /\ DOMAIN left(o.a) = DOMAIN Fresh /\ Tunes(left(o.a)) /\ left(o.a).original = None
            /\ left(o.a).default = o.a.default
            /\ left(o.a).lost = (o.a.lost \/ o.a.default # a.original)
        BY <4>1, RoutingFields DEF Tunes
      <4>3. a.lost \/ a.original = User
        BY <1>3, <2>3 DEF Good, Keeps
      <4> QED
        BY <4>1, <4>2, <4>3 DEF Good, Keeps
    <3>2. Restore(a) =
            {IF o.end = "cut" THEN Outcome("cut", left(o.a)) ELSE Outcome("ok", cleared(left(o.a))) :
               o \in SetDefault(taken, a.original)}
      BY <1>3, <2>3 DEF Restore
    <3>3. \A end, y : Outcome(end, y).a = y
      BY DEF Outcome
    <3> HIDE DEF taken, left, cleared
    <3> QED
      BY <1>1, <3>1, <3>2, <3>3 DEF AllGood
  <2> QED
    BY <2>2, <2>3
<1> QED
  BY <1>2, <1>3

-----------------------------------------------------------------------------
\* The phone's source, or the route's.
LEMMA RouteBluetoothIsGood == ASSUME NEW a, Good(a) PROVE AllGood(RouteBluetooth(a))
<1>1. Good([a EXCEPT !.phone = phone])
  BY RoutingFields DEF Good, Keeps, Tunes
<1> QED
  BY <1>1, OverrideIsGood, OneOutcome DEF RouteBluetooth

\* The player's sound is routed to its own capture device, or its monitor is the default.
LEMMA RouteSpotifyIsGood == ASSUME NEW a, Good(a) PROVE AllGood(RouteSpotify(a))
<1> DEFINE route(x) == LET y == [x EXCEPT !.was = spotify]
                        IN  IF backend = "direct" THEN OrElse(Ask(y), Ok) ELSE Ask(y)
           default(z) == IF backend = "dedicated" THEN Restore(z) ELSE Override(z, Monitor)
<1>1. ASSUME NEW x, Good(x) PROVE AllGood(route(x))
  <2>1. Good([x EXCEPT !.was = spotify])
    BY <1>1, RoutingFields DEF Good, Keeps, Tunes
  <2>2. AllGood(Ask([x EXCEPT !.was = spotify]))
    BY <2>1, AskIsGood
  <2>3. \A y : Good(y) => AllGood(Ok(y))
    BY OneOutcome
  <2> QED
    BY <2>2, <2>3 DEF OrElse, AllGood
<1>2. \A z : Good(z) => AllGood(default(z))
  BY RestoreIsGood, OverrideIsGood
<1>3. \A x : Good(x) => AllGood(Then(route(x), LAMBDA z : default(z)))
  BY <1>1, <1>2 DEF Then, AllGood
<1> QED
  BY <1>3, AskIsGood, OneOutcome DEF RouteSpotify, Then, AllGood

\* An device that starts is taken; one that does not brings the one of before back.
LEMMA ActivateIsGood ==
  ASSUME NEW a, Good(a), NEW source, NEW configured PROVE AllGood(Activate(a, source, configured))
<1> DEFINE takes(y) == [Takes(y, source) EXCEPT !.configured = configured]
           started(x) == Then(Then(AudioStart(x, Source(source)), ConfirmInput), LAMBDA y : Ok(takes(y)))
           backs(y) == AsError(Then(Restore(y), RestoreCapture))
           whole(x) == OrElse(started(x), LAMBDA y : backs(y))
<1>1. \A y : Good(y) => AllGood(Ok(takes(y)))
  <2>1. ASSUME NEW y, Good(y) PROVE Good(takes(y))
    BY <2>1, RoutingFields DEF Takes, Good, Keeps, Tunes
  <2> QED
    BY <2>1, OneOutcome
<1>2. \A x : Good(x) => AllGood(started(x))
  BY <1>1, StartConfirmed DEF Then, AllGood
<1>3. \A y : Good(y) => AllGood(backs(y))
  <2>1. \A y : Good(y) => AllGood(Then(Restore(y), RestoreCapture))
    BY RestoreIsGood, RestoreCaptureIsGood DEF Then, AllGood
  <2> QED
    BY <2>1, ErrorsAreGood
<1>4. \A x : Good(x) => AllGood(whole(x))
  BY <1>2, <1>3 DEF OrElse, AllGood
<1>5. AllGood(RouteBluetooth(a)) /\ AllGood(RouteSpotify(a)) /\ AllGood(Ok(a))
  BY RouteBluetoothIsGood, RouteSpotifyIsGood, OneOutcome
<1> HIDE DEF started
<1> QED
  BY <1>4, <1>5 DEF Activate, Then, AllGood, started

\* The microphone, and what the automatic mode tries one after another.
LEMMA MicrophoneIsGood == ASSUME NEW a, Good(a) PROVE AllGood(ActivateMicrophone(a))
<1> DEFINE takes(z) == [Takes(z, "mic") EXCEPT !.configured = "auto"]
           started(y) == Then(Then(AudioStart(y, "usb"), ConfirmInput), LAMBDA z : Ok(takes(z)))
           backs(z) == AsError(RestoreCapture(z))
           tried(y) == IF ~plugged THEN Error(y) ELSE OrElse(started(y), LAMBDA z : backs(z))
           whole(x) == IF x.active = "mic" /\ x.status # None THEN Ok(x)
                       ELSE Then(Ask(x), LAMBDA y : tried(y))
<1>1. \A y : Good(y) => AllGood(Ok(takes(y)))
  <2>1. ASSUME NEW y, Good(y) PROVE Good(takes(y))
    BY <2>1, RoutingFields DEF Takes, Good, Keeps, Tunes
  <2> QED
    BY <2>1, OneOutcome
<1>2. \A y : Good(y) => AllGood(started(y))
  BY <1>1, StartConfirmed DEF Then, AllGood
<1>3. \A z : Good(z) => AllGood(backs(z))
  BY RestoreCaptureIsGood, ErrorsAreGood
<1>4. \A y : Good(y) => AllGood(tried(y))
  <2> HIDE DEF started, backs
  <2> QED
    BY <1>2, <1>3, OneOutcome DEF OrElse, AllGood
<1>5. \A x : Good(x) => AllGood(whole(x))
  <2> HIDE DEF tried
  <2> QED
    BY <1>4, AskIsGood, OneOutcome DEF Then, AllGood
<1> HIDE DEF whole
<1> QED
  BY <1>5, RestoreIsGood DEF ActivateMicrophone, Then, AllGood, whole

\* Spotify first, unless it just failed.
LEMMA TrySpotifyIsGood == ASSUME NEW a, Good(a) PROVE AllGood(TrySpotify(a))
<1>1. \A x, wait : Good(x) => Good([x EXCEPT !.wait = wait])
  BY RoutingFields DEF Good, Keeps, Tunes
<1>2. \A x, wait : Good(x) => AllGood(Ok([x EXCEPT !.wait = wait])) /\ AllGood(Error([x EXCEPT !.wait = wait]))
  BY <1>1, OneOutcome
<1>3. AllGood(Activate(a, "spotify", "auto")) /\ AllGood(Error(a))
  BY ActivateIsGood, OneOutcome
<1>4. AllGood(Then(Activate(a, "spotify", "auto"), LAMBDA x : Ok([x EXCEPT !.wait = FALSE])))
  BY <1>2, <1>3 DEF Then, AllGood
<1> QED
  BY ZenonT(60), <1>2, <1>3, <1>4 DEF TrySpotify, OrElse, AllGood

\* Spotify, then the phone, then the microphone; and the default back if none starts.
LEMMA AutomaticIsGood == ASSUME NEW a, Good(a) PROVE AllGood(Automatic(a))
<1> DEFINE ready == [a EXCEPT !.wait = @ /\ spotify = "active"]
<1>1. Good(ready)
  BY RoutingFields DEF Good, Keeps, Tunes
<1>2. AllGood(TrySpotify(ready))
  BY <1>1, TrySpotifyIsGood
<1>3. \A x : Good(x) => AllGood(TryBluetooth(x))
  BY ActivateIsGood, OneOutcome DEF TryBluetooth
<1>4. \A x : Good(x) => AllGood(ActivateMicrophone(x))
  BY MicrophoneIsGood
<1>5. \A x : Good(x) => AllGood(AsError(Restore(x)))
  BY RestoreIsGood, ErrorsAreGood
<1> HIDE DEF ready
<1>6. AllGood(OrElse(TrySpotify(ready), TryBluetooth))
  BY <1>2, <1>3 DEF OrElse, AllGood
<1>7. AllGood(OrElse(OrElse(TrySpotify(ready), TryBluetooth), ActivateMicrophone))
  BY <1>4, <1>6 DEF OrElse, AllGood
<1> QED
  BY <1>5, <1>7 DEF Automatic, OrElse, AllGood, ready

\* What a tick does for the source that is configured.
LEMMA MaintainIsGood == ASSUME NEW a, Good(a) PROVE AllGood(Maintain(a))
<1>1. ASSUME NEW source PROVE AllGood(Deactivate(a, source))
  <2> DEFINE done(y) == [y EXCEPT !.active = source, !.started = FALSE, !.status = None]
  <2>1. \A y : Good(y) => Good(done(y))
    BY RoutingFields DEF Good, Keeps, Tunes
  <2>2. \A y : Good(y) => AllGood(Ok(done(y)))
    BY <2>1, OneOutcome
  <2>3. \A x : Good(x) => AllGood(Then(Restore(x), LAMBDA y : Ok(done(y))))
    BY <2>2, RestoreIsGood DEF Then, AllGood
  <2> QED
    BY <2>3, StopIsGood, OneOutcome DEF Deactivate, Then, AllGood
<1> QED
  BY <1>1, AutomaticIsGood, ActivateIsGood, OneOutcome DEF Maintain

-----------------------------------------------------------------------------
(* The commands.                                                           *)
\* select_audio_device.
LEMMA SelectIsGood == ASSUME NEW a, Good(a) PROVE AllGood(SelectDevice(a))
<1> DEFINE takes(w) == [Takes(w, "mic") EXCEPT !.chosen = "usb"]
           stored(z) == Then(Then(Then(ConfirmInput(z), Ask), Ask), LAMBDA w : Ok(takes(w)))
           backs(w) == AsError(RestoreCapture(w))
           kept(z) == OrElse(stored(z), LAMBDA w : backs(w))
           started(y) == Then(AudioStart(y, "usb"), LAMBDA z : kept(z))
           tried(x) == IF ~plugged THEN Error(x) ELSE Then(Restore(x), LAMBDA y : started(y))
<1>1. \A y : Good(y) => AllGood(Ok(takes(y)))
  <2>1. ASSUME NEW y, Good(y) PROVE Good(takes(y))
    BY <2>1, RoutingFields DEF Takes, Good, Keeps, Tunes
  <2> QED
    BY <2>1, OneOutcome
<1>2. \A z : Good(z) => AllGood(stored(z))
  <2>1. \A z : Good(z) => AllGood(Then(ConfirmInput(z), Ask))
    BY ConfirmIsGood, AskIsGood DEF Then, AllGood
  <2>2. \A z : Good(z) => AllGood(Then(Then(ConfirmInput(z), Ask), Ask))
    BY <2>1, AskIsGood DEF Then, AllGood
  <2> QED
    BY <1>1, <2>2 DEF Then, AllGood
<1>3. \A z : Good(z) => AllGood(backs(z))
  BY RestoreCaptureIsGood, ErrorsAreGood
<1>4. \A z : Good(z) => AllGood(kept(z))
  BY <1>2, <1>3 DEF OrElse, AllGood
<1>5. \A y : Good(y) => AllGood(started(y))
  <2> HIDE DEF kept
  <2> QED
    BY <1>4, StartIsGood DEF Then, AllGood
<1>6. \A x : Good(x) => AllGood(tried(x))
  BY <1>5, RestoreIsGood, OneOutcome DEF Then, AllGood
<1> HIDE DEF tried
<1> QED
  BY <1>6, AskIsGood DEF SelectDevice, Then, AllGood, tried

\* set_audio_source, for each source.
LEMMA SetSourceIsGood == ASSUME NEW a, Good(a), NEW source PROVE AllGood(SetSource(a, source))
<1>1. \A x, s : Good(x) => Good(Configured(x, s))
  BY RoutingFields DEF Configured, Good, Keeps, Tunes
<1>2. \A x, s : Good(x) => AllGood(Ok(Configured(x, s)))
  BY <1>1, OneOutcome
<1>3. AllGood(Automatic([a EXCEPT !.configured = "auto", !.wait = FALSE]))
  <2>1. Good([a EXCEPT !.configured = "auto", !.wait = FALSE])
    BY RoutingFields DEF Good, Keeps, Tunes
  <2> QED
    BY <2>1, AutomaticIsGood
<1>4. AllGood(Then(Then(Restore(a), StopEngine), LAMBDA x : Ok(Configured(x, "off"))))
  <2>1. AllGood(Then(Restore(a), StopEngine))
    BY RestoreIsGood, StopIsGood DEF Then, AllGood
  <2> QED
    BY <1>2, <2>1 DEF Then, AllGood
<1>5. AllGood(Then(Then(Restore(a), SelectDevice), LAMBDA x : Ok(Configured(x, "mic"))))
  <2>1. AllGood(Then(Restore(a), SelectDevice))
    BY RestoreIsGood, SelectIsGood DEF Then, AllGood
  <2> QED
    BY <1>2, <2>1 DEF Then, AllGood
<1> DEFINE takes(y) == [Takes(y, "demo") EXCEPT !.configured = "demo"]
           started(x) == Then(Then(AudioStart(x, "demo"), ConfirmInput), LAMBDA y : Ok(takes(y)))
           backs(y) == AsError(RestoreCapture(y))
           demo(x) == OrElse(started(x), LAMBDA y : backs(y))
<1>6. AllGood(Then(Restore(a), LAMBDA x : demo(x)))
  <2>1. \A y : Good(y) => AllGood(Ok(takes(y)))
    <3>1. ASSUME NEW y, Good(y) PROVE Good(takes(y))
      BY <3>1, RoutingFields DEF Takes, Good, Keeps, Tunes
    <3> QED
      BY <3>1, OneOutcome
  <2>2. \A x : Good(x) => AllGood(started(x))
    BY <2>1, StartConfirmed DEF Then, AllGood
  <2>3. \A z : Good(z) => AllGood(backs(z))
    BY RestoreCaptureIsGood, ErrorsAreGood
  <2>4. \A x : Good(x) => AllGood(demo(x))
    BY <2>2, <2>3 DEF OrElse, AllGood
  <2> HIDE DEF demo
  <2> QED
    BY <2>4, RestoreIsGood DEF Then, AllGood
<1>7. AllGood(OrElse(Activate(a, source, source), LAMBDA x : AsError(Restore(x))))
  <2>1. \A x : Good(x) => AllGood(AsError(Restore(x)))
    BY RestoreIsGood, ErrorsAreGood
  <2> QED
    BY <2>1, ActivateIsGood DEF OrElse, AllGood
<1> QED
  BY <1>3, <1>4, <1>5, <1>6, <1>7 DEF SetSource

\* A mode that follows the music makes sure that there is an input.
LEMMA DynamicIsGood == ASSUME NEW a, Good(a) PROVE AllGood(SetDynamic(a))
<1> DEFINE first(x) == Ok(Takes(x, IF a.configured = "demo" THEN "demo" ELSE "mic"))
           again(x) == Then(Then(AudioStart(x, x.chosen), ConfirmInput), LAMBDA y : Ok(Takes(y, "mic")))
<1>1. \A x, s : Good(x) => AllGood(Ok(Takes(x, s)))
  BY TakesIsGood, OneOutcome
<1>2. AllGood(Then(ConfirmInput(a), LAMBDA x : first(x)))
  BY <1>1, ConfirmIsGood DEF Then, AllGood
<1>3. \A x : Good(x) => AllGood(again(x))
  BY <1>1, StartConfirmed DEF Then, AllGood
<1>4. AllGood(OrElse(Then(ConfirmInput(a), LAMBDA x : first(x)), LAMBDA x : again(x)))
  <2> HIDE DEF first, again
  <2> QED
    BY <1>2, <1>3 DEF OrElse, AllGood
<1>5. AllGood(EnsureActive(a))
  BY <1>4, OneOutcome DEF EnsureActive
<1> DEFINE way == IF a.configured \in Maintained THEN Maintain(a)
                  ELSE IF a.configured = "demo" THEN SetSource(a, "demo") ELSE EnsureActive(a)
<1>6. AllGood(way)
  BY <1>5, MaintainIsGood, SetSourceIsGood
<1> HIDE DEF way
<1>7. AllGood(Then(way, LAMBDA x : IF x.status = None THEN Error(x) ELSE Ok(x)))
  BY <1>6, OneOutcome DEF Then, AllGood
<1> QED
  BY <1>7, OneOutcome DEF SetDynamic, way

\* A profile that is given to the engine is either stored, or the stored one follows it.
LEMMA ConfigureKeeps ==
  ASSUME NEW a, Keeps(a), NEW stored \in BOOLEAN
  PROVE  AllKeep(Configure(a, stored)) /\ (stored => AllGood(Configure(a, stored)))
<1> DEFINE done == [a EXCEPT !.tuned = stored, !.open = @ /\ Opens(a.wants)]
           fails == [Spend(done) EXCEPT !.open = FALSE]
<1>1. Keeps(done) /\ Keeps(fails) /\ (stored => Tunes(done) /\ Tunes(fails))
  BY RoutingFields DEF Spend, Keeps, Tunes
<1>2. AllGood(Lost(a, {a, done}))
  BY <1>1, LostIsGood
<1>3. ASSUME NEW o \in Configure(a, stored)
      PROVE  Keeps(o.a) /\ (Tunes(o.a) \/ o.end \in {"ok", "error"}) /\ (stored => Tunes(o.a))
  <2>1. CASE o \in Lost(a, {a, done})
    BY <1>2, <2>1 DEF AllGood, Good
  <2>2. CASE o = Outcome(IF done.open THEN "ok" ELSE "error", done) \/ o = Outcome("error", fails)
    <3>1. \A end, y : Outcome(end, y).a = y /\ Outcome(end, y).end = end
      BY DEF Outcome
    <3>2. o.end \in {"ok", "error"} /\ (o.a = done \/ o.a = fails)
      BY <2>2, <3>1
    <3> HIDE DEF done, fails
    <3> QED
      BY <1>1, <3>2
  <2> QED
    BY <2>1, <2>2 DEF Configure, Error
<1> QED
  BY <1>3 DEF AllKeep, AllGood, Good

\* apply_audio_settings: a profile that is not saved in the end is taken back.
LEMMA ApplyIsGood == ASSUME NEW a, Good(a) PROVE AllGood(ApplySettings(a))
<1> DEFINE saves(y) == [y EXCEPT !.chosen = "usb"]
           tunes(y) == [y EXCEPT !.chosen = "usb", !.tuned = TRUE]
           other(x) == Then(Then(Ask(x), Ask), LAMBDA y : Ok(saves(y)))
           tried(x) == Then(Then(Then(Configure(x, FALSE), Ask), Ask), LAMBDA y : Ok(tunes(y)))
           whole(x) == IF x.status \notin Microphones THEN other(x) ELSE OrElse(tried(x), RollbackProfile)
<1>1. ASSUME NEW x, Good(x) PROVE AllGood(other(x))
  <2>1. \A y : Good(y) => AllGood(Ok(saves(y)))
    <3>1. ASSUME NEW y, Good(y) PROVE Good(saves(y))
      BY <3>1, RoutingFields DEF Good, Keeps, Tunes
    <3> QED
      BY <3>1, OneOutcome
  <2>2. AllGood(Then(Ask(x), Ask))
    BY <1>1, AskIsGood DEF Then, AllGood
  <2> QED
    BY <2>1, <2>2 DEF Then, AllGood
<1>2. ASSUME NEW x, Keeps(x) PROVE AllKeep(tried(x))
  <2>1. \A y : Keeps(y) => AllKeep(Ask(y))
    BY AskKeeps
  <2>2. AllKeep(Then(Configure(x, FALSE), Ask))
    BY <1>2, <2>1, ConfigureKeeps DEF Then, AllKeep
  <2>3. AllKeep(Then(Then(Configure(x, FALSE), Ask), Ask))
    BY <2>1, <2>2 DEF Then, AllKeep
  <2>4. ASSUME NEW y, Keeps(y) PROVE AllKeep(Ok(tunes(y)))
    <3>1. Keeps(tunes(y)) /\ Tunes(tunes(y))
      BY <2>4, RoutingFields DEF Keeps, Tunes
    <3>2. AllGood(Ok(tunes(y)))
      BY <3>1, OneOutcome DEF Good
    <3> QED
      BY <3>2 DEF AllGood, AllKeep, Good
  <2> QED
    BY <2>3, <2>4 DEF Then, AllKeep
<1>3. ASSUME NEW x, Keeps(x), NEW o \in tried(x), o.end = "ok" PROVE Tunes(o.a)
  <2> DEFINE before == Then(Then(Configure(x, FALSE), Ask), Ask)
  <2>1. AllKeep(before)
    <3>1. \A y : Keeps(y) => AllKeep(Ask(y))
      BY AskKeeps
    <3>2. AllKeep(Then(Configure(x, FALSE), Ask))
      BY ZenonT(60), <1>3, <3>1, ConfigureKeeps DEF Then, AllKeep
    <3> QED
      BY <3>1, <3>2 DEF Then, AllKeep
  <2> HIDE DEF before
  <2>2. tried(x) = Then(before, LAMBDA y : Ok(tunes(y)))
    BY DEF before
  <2>3. PICK p \in before : o \in Ok(tunes(p.a))
    <3>1. PICK p \in before : o \in (IF p.end = "ok" THEN Ok(tunes(p.a)) ELSE {p})
      BY <1>3, <2>2 DEF Then
    <3> QED
      BY <1>3, <3>1
  <2>4. o.a = tunes(p.a)
    <3>1. o = Outcome("ok", tunes(p.a))
      BY <2>3 DEF Ok
    <3>2. \A end, y : Outcome(end, y).a = y
      BY DEF Outcome
    <3> HIDE DEF tunes
    <3> QED
      BY <3>1, <3>2
  <2>5. Keeps(p.a)
    BY <2>1, <2>3 DEF AllKeep
  <2> QED
    BY <2>4, <2>5, RoutingFields DEF Keeps, Tunes
<1>4. ASSUME NEW y, Keeps(y) PROVE AllGood(RollbackProfile(y))
  <2>1. AllGood(Configure(y, TRUE))
    BY <1>4, ConfigureKeeps
  <2>2. AllGood(OrElse(Configure(y, TRUE), Ok))
    BY <2>1, OneOutcome DEF OrElse, AllGood
  <2> QED
    BY <2>2, ErrorsAreGood DEF RollbackProfile
<1>5. \A x : Good(x) => AllGood(whole(x))
  <2>1. ASSUME NEW x, Good(x) PROVE AllGood(OrElse(tried(x), RollbackProfile))
    <3>1. AllKeep(tried(x)) /\ \A o \in tried(x) : o.end = "ok" => Tunes(o.a)
      BY <1>2, <1>3, <2>1 DEF Good
    <3> HIDE DEF tried
    <3> QED
      BY <1>4, <3>1 DEF OrElse, AllGood, AllKeep, Good
  <2> HIDE DEF other, tried
  <2> QED
    BY <1>1, <2>1
<1> HIDE DEF whole
<1>6. AllGood(OrElse(Ask(a), Ok))
  BY AskIsGood, OneOutcome DEF OrElse, AllGood
<1> QED
  BY <1>5, <1>6 DEF ApplySettings, Then, AllGood, whole

-----------------------------------------------------------------------------
\* Between two handlers.
LEMMA InitRouting == Init => Good(audio)
BY DEF Init, Fresh, Good, Keeps, Tunes, None, User

\* Handlers keep it, and neither the tick nor the world breaks it.
LEMMA NextRouting == Good(audio) /\ [Next]_vars => Good(audio)'
<1> SUFFICES ASSUME Good(audio), [Next]_vars PROVE Good(audio')
  OBVIOUS
<1>1. ASSUME NEW outcomes, AllGood(outcomes), Handle(outcomes) PROVE Good(audio')
  BY <1>1, RoutingFields DEF Handle, AllGood, Good, Keeps, Tunes
<1>2. CASE Command
  <2>1. Good(Hurried)
    BY RoutingFields DEF Hurried, Good, Keeps, Tunes
  <2>2. /\ \A source : AllGood(SetSource(Hurried, source))
        /\ AllGood(SelectDevice(Hurried)) /\ AllGood(ApplySettings(Hurried)) /\ AllGood(SetDynamic(Hurried))
    BY <2>1, SetSourceIsGood, SelectIsGood, ApplyIsGood, DynamicIsGood
  <2> QED
    BY <1>1, <1>2, <2>2 DEF Command
<1>3. CASE Tick
  <2>1. AllGood(Maintain(audio))
    BY MaintainIsGood
  <2> QED
    BY <1>3, <2>1, RoutingFields DEF Tick, Reads, AllGood, Good, Keeps, Tunes
<1>4. CASE ReadStatus \/ RetryDue \/ Recover
  BY <1>4, RoutingFields DEF ReadStatus, Reads, RetryDue, Recover, Good, Keeps, Tunes
<1>5. CASE World
  <2>1. CASE Plug
    BY <2>1, RoutingFields DEF Plug, Good, Keeps, Tunes
  <2> QED
    BY <1>5, <2>1 DEF World, Phone, Player
<1>6. CASE Publish \/ Calm \/ UNCHANGED vars
  BY <1>6 DEF Publish, Calm, vars
<1> QED
  BY <1>2, <1>3, <1>4, <1>5, <1>6 DEF Next

\* The user's default source is the default or noted, and what is tuned is stored, for
\* any phones and players and however many calls fail or are cut (ChoicesKept).
THEOREM ChoicesSurvive == Spec => []ChoicesKept
<1>1. Good(audio) => ChoicesKept
  BY DEF Good, Keeps, Tunes, ChoicesKept, UserDefaultKept, TunedAsSaved
<1>2. Spec => Init /\ [][Next]_vars
  BY DEF Spec
<1> QED
  BY <1>1, <1>2, InitRouting, NextRouting, PTL

-----------------------------------------------------------------------------
(* IpcServer: for any clients and sizes of outputs.                        *)

\* A configuration on its way is by one protocol and of one size.
IpcInv ==
  /\ LegacyDrawsOnItsOwn
  /\ \A asked \in toApply : asked = [by |-> asked.by, size |-> asked.size]

\* The legacy side forgets its size before any configuration is on its way, and
\* remembers one only when it is applied.
LEMMA IpcStepOK == IpcInv /\ [IpcNext]_ipcVars => IpcInv'
<1> SUFFICES ASSUME IpcInv, [IpcNext]_ipcVars PROVE IpcInv'
  OBVIOUS
<1> DEFINE Same == UNCHANGED <<toApply, display, legacyCount>>
<1>1. CASE Same
  BY <1>1 DEF IpcInv, LegacyDrawsOnItsOwn
<1>2. ASSUME NEW client \in Clients, ConfigureOutput(client) PROVE IpcInv'
  <2>1. \A asked \in Layout(connection[client].asks) : asked = [by |-> asked.by, size |-> asked.size]
    BY DEF Layout
  <2>2. legacyCount' = 0
    BY <1>2 DEF ConfigureOutput
  <2>3. UNCHANGED toApply \/ \E asked \in Layout(connection[client].asks) : toApply' = {asked}
    BY <1>2 DEF ConfigureOutput, AskOutput
  <2> QED
    BY <2>1, <2>2, <2>3 DEF IpcInv, LegacyDrawsOnItsOwn
<1>3. CASE Applies
  <2>1. toApply # {} /\ toApply' = {} /\ display' \in toApply \cup {NoOutput}
    BY <1>3 DEF Applies
  <2>2. legacyCount = 0
    BY <2>1 DEF IpcInv, LegacyDrawsOnItsOwn
  <2>3. legacyCount' = legacyCount \/ (display'.by = "legacy" /\ legacyCount' = display'.size)
    BY <1>3 DEF Applies
  <2>4. display' = [by |-> display'.by, size |-> display'.size]
    BY <2>1 DEF IpcInv, NoOutput
  <2> QED
    BY <2>1, <2>2, <2>3, <2>4 DEF IpcInv, LegacyDrawsOnItsOwn
<1>4. CASE OwnerExits \/ LoopEnds \/ Joined \/ Returns \/ WorkerFails \/ TimesOut
  <2> Same
    BY <1>4 DEF OwnerExits, LoopEnds, Joined, Returns, WorkerFails, TimesOut, Engine
  <2> QED
    BY <1>1
<1>5. ASSUME NEW client \in Clients,
             \/ AcceptClient(client) \/ SendsRequest(client) \/ StartsFrames(client)
             \/ SendsHeader(client) \/ SendsPayload(client) \/ SendsMagic(client)
             \/ Closes(client) \/ Thread(client) \/ Serves(client) \/ ShutsDown(client)
      PROVE  IpcInv'
  <2>1. CASE AcceptClient(client) \/ SendsRequest(client) \/ StartsFrames(client)
             \/ SendsHeader(client) \/ SendsPayload(client) \/ SendsMagic(client)
             \/ Closes(client) \/ Serves(client) \/ ShutsDown(client)
    <3> Same
      BY <2>1 DEF AcceptClient, SendsRequest, StartsFrames, SendsHeader, SendsPayload, SendsMagic,
                  Closes, Serves, ShutsDown, Engine
    <3> QED
      BY <1>1
  <2>2. CASE Thread(client)
    <3> Same
      BY <2>2 DEF Thread, TakesAck, Looks, NothingYet, Deadline, Answered, Stopped, Engine
    <3> QED
      BY <1>1
  <2> QED
    BY <1>5, <2>1, <2>2
<1>6. CASE UNCHANGED ipcVars
  BY <1>1, <1>6 DEF ipcVars
<1> QED
  BY <1>2, <1>3, <1>4, <1>5, <1>6 DEF IpcNext

\* A legacy client draws on the output it configured, for any clients and sizes and
\* whatever times out (LegacyDrawsOnItsOwn).
THEOREM LegacyKeepsItsOutput == IpcSpec => []LegacyDrawsOnItsOwn
<1>1. IpcInit => IpcInv
  BY DEF IpcInit, IpcInv, LegacyDrawsOnItsOwn
<1>2. IpcInv => LegacyDrawsOnItsOwn
  BY DEF IpcInv
<1>3. IpcSpec => IpcInit /\ [][IpcNext]_ipcVars
  BY DEF IpcSpec
<1> QED
  BY <1>1, <1>2, <1>3, IpcStepOK, PTL

-----------------------------------------------------------------------------
(* PcmPipeline: wherever a seek, a new sink or a session falls.            *)

HIDE DEF wifiVars, Places, Nobody, Profile, Goes, Without

Generations == 0 .. MaxGeneration
Positions == 0 .. MaxPosition
Batches == [gen : Generations, pos : Positions, drops : Nat]

PcmTypeOK ==
  /\ enabled \in BOOLEAN /\ generation \in Generations /\ pendingDrops \in Nat
  /\ queue \in Seq(Batches)
  /\ sink \in [gen : Generations, pos : Positions]
  /\ packet \in [gen : Generations \cup {Unknown}, next : Positions, end : Positions]
  /\ device \in [pos : Positions, drops : Nat, queue : Seq(Batches)]
  /\ worker \in [at : {"wait", "enable", "disable", "discard", "discardAll", "begin", "build",
                       "capture", "process"}, batch : Batches \cup {NoBatch}]
  /\ reader \in [input : {"none", "direct", "device"}, gen : Generations \cup {Unknown},
                 origin : 0 .. MaxPosition + 1, seen : Nat]
  /\ fed \in Seq(Batches)

\* What is on its way is of some generation.
OnItsWay ==
  /\ packet # NoPacket => packet.gen \in Generations /\ packet.next <= packet.end
  /\ worker.at = "process" => worker.batch \in Batches

\* A session begins with nothing, and has an origin from its first batch on; events
\* wait for the stream it reads and for no other.
SessionOK ==
  /\ worker.at \notin {"wait", "process"} => fed = <<>> /\ pending = {}
  /\ fed # <<>> => reader.gen # Unknown /\ reader.origin <= MaxPosition
  /\ reader.origin > MaxPosition => reader.seen = 0
  /\ \A gen \in pending : gen = reader.gen /\ gen # Unknown

PcmInv == PcmTypeOK /\ OnItsWay /\ SessionOK /\ ClockIsTheStreams

\* What the bounds say of generations, positions and batches.
LEMMA PcmRanges ==
  /\ Capacity \in Nat /\ MaxPosition \in Nat /\ MaxGeneration \in Nat
  /\ Unknown \in Nat /\ Unknown \notin Generations /\ 0 \in Generations /\ 0 \in Positions
  /\ Generations \subseteq Nat /\ Positions \subseteq Nat
  /\ \A pos \in Positions : pos < MaxPosition => pos + 1 \in Positions
  /\ \A gen \in Generations, pos \in Positions, drops \in Nat : Batch(gen, pos, drops) \in Batches
<1>1. Capacity \in Nat /\ MaxPosition \in Nat /\ MaxGeneration \in Nat
  BY PcmAssumption
<1> QED
  BY <1>1 DEF Unknown, Generations, Positions, Batch, Batches

USE PcmRanges

\* The parts of the state have their types.
LEMMA PcmParts ==
  ASSUME PcmInv
  PROVE  /\ enabled \in BOOLEAN /\ generation \in Generations /\ pendingDrops \in Nat
         /\ queue \in Seq(Batches) /\ fed \in Seq(Batches)
         /\ packet.next \in Positions /\ packet.end \in Positions
         /\ device.pos \in Positions /\ device.drops \in Nat /\ device.queue \in Seq(Batches)
  BY DEF PcmInv, PcmTypeOK

\* Nothing is on its way yet.
LEMMA PcmInitOK == PcmInit => PcmInv
<1> SUFFICES ASSUME PcmInit PROVE PcmInv
  OBVIOUS
<1>3. queue \in Seq(Batches) /\ fed \in Seq(Batches) /\ Silent \in [pos : Positions, drops : Nat, queue : Seq(Batches)]
  BY DEF PcmInit, Silent
<1>4. NoPacket \in [gen : Generations \cup {Unknown}, next : Positions, end : Positions]
      /\ reader \in [input : {"none", "direct", "device"}, gen : Generations \cup {Unknown},
                     origin : 0 .. MaxPosition + 1, seen : Nat]
  BY DEF PcmInit, NoPacket, NewReader
<1>1. PcmTypeOK
  BY <1>3, <1>4 DEF PcmInit, PcmTypeOK
<1>2. OnItsWay /\ SessionOK /\ ClockIsTheStreams
  BY DEF PcmInit, OnItsWay, SessionOK, ClockIsTheStreams, NewReader
<1> QED
  BY <1>1, <1>2 DEF PcmInv

\* What the session has, and what is on its way, does not change.
SameReading == UNCHANGED <<worker, reader, pending, fed>>

\* A step on the way to the worker leaves the session as it is.
LEMMA OnTheWay ==
  ASSUME PcmInv, SameReading, PcmTypeOK',
         packet' # NoPacket => packet'.gen \in Generations /\ packet'.next <= packet'.end
  PROVE  PcmInv'
<1>1. OnItsWay' /\ SessionOK'
  BY DEF PcmInv, SameReading, OnItsWay, SessionOK
<1>2. ClockIsTheStreams'
  BY DEF PcmInv, SameReading, ClockIsTheStreams
<1> QED
  BY <1>1, <1>2 DEF PcmInv

\* A generation begins, for a player event or for a new sink.
LEMMA PcmBegins == ASSUME PcmInv, BeginGeneration \/ NewSink PROVE PcmInv'
<1>1. SameReading /\ packet' = packet
  BY DEF BeginGeneration, NewSink, SameReading, SameWorker, SameSink
<1>2. generation' \in Generations /\ pendingDrops' \in Nat
  BY DEF PcmInv, PcmTypeOK, BeginGeneration, NewSink, Advance, Generations
<1>3. sink' \in [gen : Generations, pos : Positions]
  BY <1>2 DEF PcmInv, PcmTypeOK, BeginGeneration, NewSink, SameSink
<1>4. PcmTypeOK'
  BY <1>1, <1>2, <1>3 DEF PcmInv, PcmTypeOK, BeginGeneration, NewSink, SameReading
<1> QED
  BY <1>1, <1>4, OnTheWay DEF PcmInv, OnItsWay

\* The sink writes a packet.
LEMMA PcmWrites == ASSUME PcmInv, NEW length \in 1 .. 2, Write(length) PROVE PcmInv'
<1> DEFINE start == IF generation = sink.gen THEN sink.pos ELSE 0
<1>1. start \in Positions /\ start + length \in Positions
  BY SMTT(60) DEF PcmInv, PcmTypeOK, Write, Positions
<1>2. packet' = [gen |-> generation, next |-> start, end |-> start + length]
      /\ sink' = [gen |-> generation, pos |-> start + length]
  BY DEF Write
<1> HIDE DEF start
<1>3. PcmTypeOK'
  BY <1>1, <1>2 DEF PcmInv, PcmTypeOK, Write, SameIngress, SameWorker
<1>4. SameReading /\ packet'.gen \in Generations /\ packet'.next <= packet'.end
  BY SMTT(60), <1>1, <1>2 DEF PcmInv, PcmTypeOK, Write, SameReading, SameWorker, Positions
<1> QED
  BY <1>3, <1>4, OnTheWay

\* A batch of the packet is queued, or what is left of it is dropped.
LEMMA PcmSubmits == ASSUME PcmInv, Submit PROVE PcmInv'
<1>1. CASE packet' = NoPacket /\ queue' = queue /\ pendingDrops' \in Nat
  <2>1. PcmTypeOK'
    BY <1>1 DEF PcmInv, PcmTypeOK, Submit, SameWorker, NoPacket, Unknown, Positions
  <2> QED
    BY <1>1, <2>1, OnTheWay DEF Submit, SameReading, SameWorker
<1>2. CASE /\ packet.next # packet.end
           /\ queue' = Append(queue, Batch(packet.gen, packet.next, pendingDrops))
           /\ pendingDrops' = 0
           /\ packet' = [packet EXCEPT !.next = @ + 1]
  <2>1. packet.gen \in Generations /\ packet.next \in Positions /\ packet.next + 1 \in Positions
        /\ packet.next + 1 <= packet.end
    <3>1. packet.gen \in Generations /\ packet.next <= packet.end
      BY DEF PcmInv, OnItsWay, Submit
    <3> QED
      <4>1. packet.next \in Nat /\ packet.end \in Nat /\ packet.end <= MaxPosition
        BY PcmParts DEF Positions
      <4>2. packet.next < packet.end /\ packet.next + 1 <= packet.end /\ packet.next < MaxPosition
        BY <1>2, <3>1, <4>1
      <4> QED
        BY <3>1, <4>2, PcmParts
  <2>2. Batch(packet.gen, packet.next, pendingDrops) \in Batches
    BY <2>1 DEF PcmInv, PcmTypeOK, Batch, Batches
  <2>3. packet' \in [gen : Generations \cup {Unknown}, next : Positions, end : Positions]
    BY <1>2, <2>1 DEF PcmInv, PcmTypeOK
  <2>5. queue' \in Seq(Batches)
    BY <1>2, <2>2 DEF PcmInv, PcmTypeOK
  <2>6. PcmTypeOK'
    BY <1>2, <2>3, <2>5 DEF PcmInv, PcmTypeOK, Submit, SameWorker
  <2>4. packet'.gen \in Generations /\ packet'.next <= packet'.end
    BY <1>2, <2>1 DEF PcmInv, PcmTypeOK
  <2> QED
    BY <2>6, <2>4, OnTheWay DEF Submit, SameReading, SameWorker
<1>3. pendingDrops + Left \in Nat
  <2>1. packet.next <= packet.end
    BY DEF PcmInv, OnItsWay, Submit
  <2> QED
    BY <2>1, PcmParts DEF Left, Positions
<1> QED
  BY <1>1, <1>2, <1>3 DEF Submit, PcmInv, PcmTypeOK

\* The device's callback.
LEMMA PcmCalls == ASSUME PcmInv, Callback PROVE PcmInv'
<1>1. Batch(0, device.pos, device.drops) \in Batches
  BY DEF PcmInv, PcmTypeOK
<1>2. device.pos + 1 \in Positions /\ device.drops + 1 \in Nat
  <2>1. device.pos \in Positions /\ device.drops \in Nat /\ device.pos < MaxPosition
    BY PcmParts DEF Callback
  <2>2. device.pos + 1 \in Positions
    BY <2>1, PcmRanges
  <2>3. device.drops + 1 \in Nat
    BY <2>1
  <2> QED BY <2>2, <2>3
<1>5. Append(device.queue, Batch(0, device.pos, device.drops)) \in Seq(Batches)
  BY <1>1 DEF PcmInv, PcmTypeOK
<1>3. device' \in [pos : Positions, drops : Nat, queue : Seq(Batches)]
  BY <1>2, <1>5 DEF PcmInv, PcmTypeOK, Callback
<1>4. PcmTypeOK'
  BY <1>3 DEF PcmInv, PcmTypeOK, Callback, SameIngress, SameSink, SameWorker
<1> QED
  BY <1>4, OnTheWay DEF Callback, SameReading, SameSink, SameWorker, PcmInv, OnItsWay

\* While a session is opened nothing has been read and nothing waits.
LEMMA PcmOpens ==
  ASSUME PcmInv, Reopen("direct") \/ Reopen("device") \/ SetEnabled \/ DiscardQueued \/ Begin \/ Build
  PROVE  PcmInv'
<1>1. packet' = packet /\ fed' = <<>> /\ pending' = {} /\ worker'.at # "process"
  BY SMTT(60) DEF PcmInv, SessionOK, PcmTypeOK, Reopen, SetEnabled, DiscardQueued, Begin, Build,
         SameIngress, SameSink, Worker
<1>8. queue' \in Seq(Batches)
  <2>1. queue' = queue \/ queue' = <<>>
    BY DEF Reopen, SetEnabled, DiscardQueued, Begin, Build, SameIngress
  <2>2. <<>> \in Seq(Batches)
    OBVIOUS
  <2> QED
    BY <2>1, <2>2, PcmParts
<1>2. enabled' \in BOOLEAN /\ generation' \in Generations /\ pendingDrops' \in Nat
  <2>1. Advance => generation' \in Generations /\ pendingDrops' \in Nat
    BY DEF PcmInv, PcmTypeOK, Advance, Generations
  <2> QED
    BY <2>1 DEF PcmInv, PcmTypeOK, Reopen, SetEnabled, DiscardQueued, Begin, Build, SameIngress
<1>3. worker' \in [at : {"wait", "enable", "disable", "discard", "discardAll", "begin",
                         "build", "capture", "process"}, batch : Batches \cup {NoBatch}]
  BY DEF Reopen, SetEnabled, DiscardQueued, Begin, Build, Worker
<1>4. device' \in [pos : Positions, drops : Nat, queue : Seq(Batches)]
  <2>1. Silent \in [pos : Positions, drops : Nat, queue : Seq(Batches)]
    BY DEF Silent
  <2> QED
    BY <2>1 DEF PcmInv, PcmTypeOK, Reopen, SetEnabled, DiscardQueued, Begin, Build
<1>5. reader' \in [input : {"none", "direct", "device"}, gen : Generations \cup {Unknown},
                   origin : 0 .. MaxPosition + 1, seen : Nat]
      /\ (reader'.origin > MaxPosition => reader'.seen = 0)
  BY SMTT(60) DEF PcmInv, PcmTypeOK, SessionOK, Reopen, SetEnabled, DiscardQueued, Begin, Build, NewReader
<1>6. PcmTypeOK'
  BY SMTT(60), <1>1, <1>2, <1>3, <1>4, <1>5, <1>8 DEF PcmInv, PcmTypeOK, Reopen, SetEnabled, DiscardQueued,
     Begin, Build, SameSink
<1>7. OnItsWay' /\ SessionOK' /\ ClockIsTheStreams'
  BY <1>1, <1>5 DEF PcmInv, OnItsWay, SessionOK, ClockIsTheStreams
<1> QED
  BY <1>6, <1>7 DEF PcmInv

\* The worker takes a batch from a queue.
LEMMA PcmPops == ASSUME PcmInv, Pop PROVE PcmInv'
<1>1. packet' = packet /\ reader' = reader /\ pending' = pending /\ fed' = fed
  BY DEF Pop, SameSink
<1>2. /\ queue' \in Seq(Batches) /\ device' \in [pos : Positions, drops : Nat, queue : Seq(Batches)]
      /\ worker' = worker \/ (\E batch \in Batches : worker' = [at |-> "process", batch |-> batch])
  <2>1. CASE reader.input = "direct" /\ queue # <<>> /\ queue' = Tail(queue) /\ device' = device
    <3>1. queue[1] \in Batches /\ Tail(queue) \in Seq(Batches)
      BY <2>1 DEF PcmInv, PcmTypeOK
    <3> QED
      BY <2>1, <3>1 DEF PcmInv, PcmTypeOK, Pop, Worker
  <2>2. CASE reader.input = "device" /\ device.queue # <<>> /\ queue' = queue
             /\ device' = [device EXCEPT !.queue = Tail(@)]
    <3>1. device.queue[1] \in Batches /\ Tail(device.queue) \in Seq(Batches)
      BY SMTT(60), <2>2, PcmParts
    <3>2. device' \in [pos : Positions, drops : Nat, queue : Seq(Batches)]
      BY <2>2, <3>1 DEF PcmInv, PcmTypeOK
    <3> QED
      BY <2>2, <3>1, <3>2 DEF PcmInv, PcmTypeOK, Pop, Worker
  <2> QED
    BY <2>1, <2>2 DEF Pop
<1>6. worker' \in [at : {"wait", "enable", "disable", "discard", "discardAll", "begin", "build",
                       "capture", "process"}, batch : Batches \cup {NoBatch}]
  BY <1>2 DEF PcmInv, PcmTypeOK
<1>3. PcmTypeOK'
  BY <1>1, <1>2, <1>6 DEF PcmInv, PcmTypeOK, Pop, SameSink
<1>4. OnItsWay' /\ SessionOK'
  BY <1>1, <1>2 DEF PcmInv, OnItsWay, SessionOK, Pop
<1>5. ClockIsTheStreams'
  BY <1>1 DEF PcmInv, ClockIsTheStreams
<1> QED
  BY <1>3, <1>4, <1>5 DEF PcmInv

\* The processor is fed a batch, or the batch is behind it and dropped.
LEMMA FeedKeeps ==
  ASSUME PcmInv, NEW batch \in Batches, Feed(batch)
  PROVE  /\ reader' \in [input : {"none", "direct", "device"}, gen : Generations \cup {Unknown},
                         origin : 0 .. MaxPosition + 1, seen : Nat]
         /\ reader'.input = reader.input /\ reader'.gen = batch.gen
         /\ reader'.origin <= MaxPosition
         /\ pendingDrops' \in Nat /\ fed' \in Seq(Batches)
         /\ pending' \subseteq {batch.gen}
         /\ ClockIsTheStreams'
<1>1. /\ batch.gen \in Generations /\ batch.pos \in Positions /\ batch.gen # Unknown
      /\ reader.origin \in 0 .. MaxPosition + 1 /\ reader.seen \in Nat /\ fed \in Seq(Batches)
  BY DEF PcmInv, PcmTypeOK, Batches
<1>2. Origin(batch) \in Positions /\ Seen(batch) \in Nat
  BY <1>1 DEF Origin, Seen, Positions
<1>3. CASE batch.pos < Origin(batch) \/ Relative(batch) < Seen(batch)
  <2>1. ~NewStream(batch) /\ reader.origin <= MaxPosition /\ Origin(batch) = reader.origin
    BY <1>1, <1>2, <1>3 DEF Relative, Seen, Origin, Positions, PcmInv, SessionOK
  <2>2. /\ reader' = [reader EXCEPT !.gen = batch.gen, !.origin = reader.origin]
        /\ pendingDrops' = pendingDrops + 1 /\ pending' = pending /\ fed' = fed
    BY <1>3, <2>1 DEF Feed
  <2>3. pending' \subseteq {batch.gen}
    BY <2>1, <2>2 DEF NewStream, PcmInv, SessionOK
  <2>4. ClockIsTheStreams'
    BY <1>1, <2>1, <2>2 DEF NewStream, PcmInv, PcmTypeOK, SessionOK, ClockIsTheStreams
  <2>5. reader' \in [input : {"none", "direct", "device"}, gen : Generations \cup {Unknown},
                     origin : 0 .. MaxPosition + 1, seen : Nat]
        /\ reader'.input = reader.input /\ reader'.gen = batch.gen
        /\ reader'.origin <= MaxPosition
    BY <1>1, <2>1, <2>2 DEF PcmInv, PcmTypeOK
  <2>6. pendingDrops' \in Nat /\ fed' \in Seq(Batches)
    BY <2>2, PcmParts
  <2> QED
    BY <2>3, <2>4, <2>5, <2>6
<1>4. CASE ~(batch.pos < Origin(batch) \/ Relative(batch) < Seen(batch))
  <2> DEFINE old == IF NewStream(batch) THEN <<>> ELSE fed
  <2>1. /\ reader' = [reader EXCEPT !.gen = batch.gen, !.origin = Origin(batch),
                                     !.seen = Relative(batch) + 1]
        /\ fed' = Append(old, batch)
    BY <1>4 DEF Feed
  <2>2. Relative(batch) \in Nat /\ Relative(batch) >= Seen(batch)
        /\ Relative(batch) = batch.pos - Origin(batch)
    BY <1>1, <1>2, <1>4 DEF Relative, Positions
  <2>3. pendingDrops' \in Nat
    <3>1. pendingDrops' = pendingDrops
            + IF reader.input = "direct" /\ batch.drops = 0 THEN Relative(batch) - Seen(batch) ELSE 0
      BY <1>4 DEF Feed
    <3> QED
      BY <1>2, <2>2, <3>1, PcmParts
  <2>4. pending' \subseteq {batch.gen}
    BY <1>4 DEF Feed, NewStream, PcmInv, SessionOK
  <2>5. /\ old \in Seq(Batches)
        /\ \A i \in 1 .. Len(old) : old[i].gen = batch.gen /\ old[i].pos < batch.pos
                                    /\ \A j \in 1 .. (i - 1) : old[j].pos < old[i].pos
    <3>1. CASE NewStream(batch) \/ fed = <<>>
      <4>1. old = <<>>
        BY <3>1
      <4>2. <<>> \in Seq(Batches) /\ Len(<<>>) = 0
        OBVIOUS
      <4> HIDE DEF old
      <4> QED
        BY <4>1, <4>2
    <3>2. CASE ~NewStream(batch) /\ fed # <<>>
      <4>1. /\ reader.gen = batch.gen /\ reader.origin <= MaxPosition
            /\ Origin(batch) = reader.origin /\ Seen(batch) = reader.seen
        BY <1>1, <3>2 DEF NewStream, PcmInv, SessionOK, Origin, Seen, Positions
      <4>2. /\ \A i \in 1 .. Len(fed) :
                 fed[i].gen = reader.gen /\ \A j \in 1 .. (i - 1) : fed[j].pos < fed[i].pos
            /\ reader.origin + reader.seen = fed[Len(fed)].pos + 1
        BY <3>2 DEF PcmInv, ClockIsTheStreams
      <4>3. Len(fed) \in Nat \ {0} /\ \A i \in 1 .. Len(fed) : fed[i] \in Batches /\ fed[i].pos \in Nat
        <5>1. Len(fed) \in Nat \ {0} /\ \A i \in 1 .. Len(fed) : fed[i] \in Batches
          BY <1>1, <3>2
        <5> QED
          BY <5>1 DEF Batches
      <4>4. fed[Len(fed)].pos < batch.pos
        BY SMTT(60), <1>1, <2>2, <4>1, <4>2, <4>3 DEF Positions
      <4>5. ASSUME NEW i \in 1 .. Len(fed) PROVE fed[i].pos < batch.pos
        <5>1. CASE i = Len(fed)
          BY <4>4, <5>1
        <5>2. CASE i # Len(fed)
          <6>1. i \in 1 .. (Len(fed) - 1) /\ Len(fed) \in 1 .. Len(fed)
            BY <4>3, <5>2
          <6>2. fed[i].pos < fed[Len(fed)].pos
            BY <4>2, <6>1
          <6> QED
            BY SMTT(60), <1>1, <4>3, <4>4, <6>1, <6>2 DEF Positions
        <5> QED
          BY <5>1, <5>2
      <4> QED
        BY <1>1, <3>2, <4>1, <4>2, <4>5
    <3> QED
      BY <1>1, <3>1, <3>2
  <2> HIDE DEF old
  <2>6. /\ Len(fed') = Len(old) + 1 /\ Len(old) \in Nat /\ fed'[Len(old) + 1] = batch
        /\ \A i \in 1 .. Len(old) : fed'[i] = old[i]
        /\ fed' \in Seq(Batches)
    BY <2>1, <2>5
  <2>7. reader'.gen = batch.gen /\ reader'.origin = Origin(batch) /\ reader'.seen = Relative(batch) + 1
        /\ reader'.input = reader.input
    BY <2>1 DEF PcmInv, PcmTypeOK
  <2>8. ClockIsTheStreams'
    <3>1. ASSUME NEW i \in 1 .. Len(fed')
          PROVE  fed'[i].gen = reader'.gen /\ \A j \in 1 .. (i - 1) : fed'[j].pos < fed'[i].pos
      <4>1. CASE i = Len(old) + 1
        BY <2>5, <2>6, <2>7, <4>1
      <4>2. CASE i # Len(old) + 1
        <5>1. i \in 1 .. Len(old) /\ \A j \in 1 .. (i - 1) : j \in 1 .. Len(old)
          BY <2>6, <4>2
        <5> QED
          BY <2>5, <2>6, <2>7, <5>1
      <4> QED
        BY <4>1, <4>2
    <3>2. reader'.origin + reader'.seen = fed'[Len(fed')].pos + 1
      BY SMTT(60), <1>1, <1>2, <2>2, <2>6, <2>7 DEF Positions
    <3> QED
      BY <3>1, <3>2 DEF ClockIsTheStreams
  <2>9. reader' \in [input : {"none", "direct", "device"}, gen : Generations \cup {Unknown},
                     origin : 0 .. MaxPosition + 1, seen : Nat]
    <3>1. Origin(batch) \in 0 .. MaxPosition + 1 /\ Relative(batch) + 1 \in Nat
      BY <1>2, <2>2 DEF Positions
    <3> QED
      BY <1>1, <2>1, <3>1 DEF PcmInv, PcmTypeOK
  <2> QED
    BY <1>2, <2>3, <2>4, <2>6, <2>7, <2>8, <2>9 DEF Positions
<1> QED
  BY <1>3, <1>4

\* The worker processes a batch, if it is of the present generation.
LEMMA PcmProcesses == ASSUME PcmInv, Process PROVE PcmInv'
<1>1. worker.batch \in Batches /\ packet' = packet /\ worker' = [at |-> "wait", batch |-> NoBatch]
  BY DEF PcmInv, OnItsWay, Process, SameSink, Worker
<1>2. CASE Feed(worker.batch)
  <2>1. worker.batch.gen # Unknown /\ worker.batch.gen \in Generations
    BY <1>1 DEF Batches, Generations, Unknown
  <2>2. PcmTypeOK'
    BY <1>1, <1>2, FeedKeeps DEF PcmInv, PcmTypeOK, Process, SameSink
  <2>3. SessionOK' /\ ClockIsTheStreams'
    <3>1. /\ reader'.gen = worker.batch.gen /\ reader'.origin <= MaxPosition
          /\ reader'.origin \in 0 .. MaxPosition + 1
          /\ pending' \subseteq {worker.batch.gen} /\ ClockIsTheStreams'
      BY <1>1, <1>2, FeedKeeps
    <3> QED
      BY <1>1, <2>1, <3>1 DEF SessionOK
  <2>4. OnItsWay'
    BY <1>1 DEF PcmInv, OnItsWay
  <2> QED
    BY <2>2, <2>3, <2>4 DEF PcmInv
<1>3. CASE pending' = {} /\ UNCHANGED <<pendingDrops, reader, fed>>
  <2>1. PcmTypeOK' /\ OnItsWay' /\ SessionOK'
    BY <1>1, <1>3 DEF PcmInv, PcmTypeOK, OnItsWay, SessionOK, Process, SameSink
  <2>2. ClockIsTheStreams'
    BY <1>3 DEF PcmInv, ClockIsTheStreams
  <2> QED
    BY <2>1, <2>2 DEF PcmInv
<1> QED
  BY <1>2, <1>3 DEF Process

\* Every step keeps the invariant.
LEMMA PcmStepOK == PcmInv /\ [PcmNext]_pcmVars => PcmInv'
<1> SUFFICES ASSUME PcmInv, [PcmNext]_pcmVars PROVE PcmInv'
  OBVIOUS
<1>1. CASE UNCHANGED pcmVars
  <2>1. PcmTypeOK' /\ OnItsWay' /\ SessionOK'
    BY <1>1 DEF PcmInv, PcmTypeOK, OnItsWay, SessionOK, pcmVars
  <2>2. ClockIsTheStreams'
    BY <1>1 DEF PcmInv, ClockIsTheStreams, pcmVars
  <2> QED
    BY <2>1, <2>2 DEF PcmInv
<1>2. CASE BeginGeneration \/ NewSink
  BY <1>2, PcmBegins
<1>3. CASE \E length \in 1 .. 2 : Write(length)
  BY <1>3, PcmWrites
<1>4. CASE Submit
  BY <1>4, PcmSubmits
<1>5. CASE Callback
  BY <1>5, PcmCalls
<1>6. CASE (\E kind \in {"direct", "device"} : Reopen(kind)) \/ SetEnabled \/ DiscardQueued
           \/ Begin \/ Build
  BY <1>6, PcmOpens
<1>7. CASE Pop
  BY <1>7, PcmPops
<1>8. CASE Process
  BY <1>8, PcmProcesses
<1> QED
  BY <1>1, <1>2, <1>3, <1>4, <1>5, <1>6, <1>7, <1>8 DEF PcmNext

\* What is shown of the direct input is of the generation of that moment.
LEMMA ShownIsPresent ==
  ASSUME PcmInv, [PcmNext]_pcmVars, reader.input = "direct", fed' # fed, fed' # <<>>
  PROVE  reader'.gen = generation' /\ pending' \subseteq {generation'}
<1>1. Process
  BY DEF PcmNext, pcmVars, PcmInv, SessionOK, BeginGeneration, NewSink, Write, Submit, Callback,
         Reopen, SetEnabled, DiscardQueued, Begin, Build, Pop, SameWorker
<1>2. Feed(worker.batch) /\ worker.batch.gen = generation /\ generation' = generation
  BY <1>1 DEF Process
<1>3. worker.batch \in Batches
  BY <1>1 DEF PcmInv, OnItsWay, Process
<1> QED
  BY <1>2, <1>3, FeedKeeps

\* At any moment the processor's clock is the stream's, the types included.
THEOREM PcmInvariant == PcmSpec => []PcmInv
  BY PcmInitOK, PcmStepOK, PTL DEF PcmSpec

\* Streams stay apart, for any capacity, positions and generations: each is measured by
\* its own clock, and what is shown of the direct input is the present stream's alone.
THEOREM StreamsAreApart == PcmSpec => StreamsStayApart
<1>1. PcmInv => ClockIsTheStreams
  BY DEF PcmInv
<1>2. PcmInv /\ [PcmNext]_pcmVars
        => [reader.input = "direct" /\ fed' # fed /\ fed' # <<>>
              => reader'.gen = generation' /\ pending' \subseteq {generation'}]_pcmVars
  BY ShownIsPresent
<1> QED
  BY <1>1, <1>2, PcmInvariant, PTL DEF PcmSpec, StreamsStayApart, OldStreamIsOver
=============================================================================
