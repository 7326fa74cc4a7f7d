--------------------------- MODULE DeploymentProofs ---------------------------
(***************************************************************************)
(* The updater keeps its promise for every set of commits, of releases and *)
(* of modes, for any number of runs and whatever faults happen: Deployment *)
(* implements ReleasePromise.                                              *)
(***************************************************************************)
EXTENDS Deployment, TLAPS

Releases == Contents \cup {"source", "partial"}
PlacesAfterFetch == {"stage", "packages", "switch", "switched", "build", "activate", "activated",
                     "configure", "restart", "health", "prune", "succeed"}
PlacesAfterSwitch == {"build", "activate", "activated", "configure", "restart", "health", "prune", "succeed"}
PlacesAfterActivation == {"activated", "configure", "restart", "health", "prune", "succeed"}

\* What the argument needs of the types.
DiskTypeOK ==
  /\ published \in [Commit -> Contents] /\ upstream \in Commit
  /\ release \in [Commit -> Releases] /\ cache \in [Commit -> Releases]
  /\ checkout \in Commit /\ current \in Commit

RunTypeOK ==
  /\ up \in [pc : UpdaterAt, mode : Modes \cup {"binary", "source"}, target : Commit \cup {None},
             previous : Commit \cup {None}, switched : BOOLEAN, activated : BOOLEAN, changed : BOOLEAN]
  /\ up.pc # "idle" => up.previous \in Commit
  /\ up.pc \in PlacesAfterFetch => up.target \in Commit

\* What the script has noted agrees with where it is.
NotesOK ==
  /\ up.pc \in PlacesAfterSwitch => up.switched
  /\ up.pc \in UpdaterAt \ (PlacesAfterSwitch \cup Rollback) => ~up.switched
  /\ up.activated => up.switched
  /\ up.pc \in {"back", "reactivate", "recover"} => up.switched

\* Where the pointer and the checkout are while a run goes forward.
PointerOK ==
  /\ up.pc \in {"fetch", "stage", "packages", "switch", "switched", "build", "activate"}
       => current = up.previous
  /\ up.pc \in PlacesAfterSwitch \cup {"switched"} => checkout = up.target
  /\ up.pc \in PlacesAfterActivation => current = checkout

WholeOK == Whole(current) /\ \A c \in Fallback : Whole(c)

DeploymentInv == DiskTypeOK /\ RunTypeOK /\ NotesOK /\ PointerOK /\ WholeOK

USE CommitAssumption
USE DEF vars, repo, disk, control, NoRun, Releases, PlacesAfterFetch, PlacesAfterSwitch,
        PlacesAfterActivation, UpdaterAt, Rollback, Then, Fail, Leave

\* The installed release is whole, and no update runs.
LEMMA DeploymentInitOK == Init => DeploymentInv
<1> SUFFICES ASSUME Init PROVE DeploymentInv
  OBVIOUS
<1>1. DiskTypeOK
  BY DEF Init, DiskTypeOK, Contents
<1>2. up = NoRun /\ RunTypeOK /\ NotesOK /\ PointerOK
  BY DEF Init, RunTypeOK, NotesOK, PointerOK
<1>3. WholeOK
  BY <1>2 DEF Init, WholeOK, Whole, ValidateReleaseDir, Fallback
<1> QED
  BY <1>1, <1>2, <1>3 DEF DeploymentInv

\* A step that leaves the run and the disk alone keeps the invariant.
LEMMA ElsewhereOK ==
  ASSUME DeploymentInv, UNCHANGED <<disk, up>>,
         published' \in [Commit -> Contents], upstream' \in Commit
  PROVE  DeploymentInv'
BY DEF DeploymentInv, DiskTypeOK, RunTypeOK, NotesOK, PointerOK, WholeOK, Whole, Fallback

\* So does one that leaves the disk alone and ends the run,
LEMMA LeaveOK ==
  ASSUME DeploymentInv, UNCHANGED <<repo, disk>>, up' = NoRun
  PROVE  DeploymentInv'
BY DEF DeploymentInv, DiskTypeOK, RunTypeOK, NotesOK, PointerOK, WholeOK, Whole, Fallback

\* or lets the trap take over.
LEMMA FailOK ==
  ASSUME DeploymentInv, UNCHANGED <<repo, disk>>, up.pc # "idle",
         up' = [up EXCEPT !.pc = "failed"]
  PROVE  DeploymentInv'
<1>1. DiskTypeOK' /\ RunTypeOK' /\ NotesOK' /\ PointerOK'
  BY DEF DeploymentInv, DiskTypeOK, RunTypeOK, NotesOK, PointerOK
<1>2. Fallback' \subseteq Fallback
  BY DEF DeploymentInv, RunTypeOK, NotesOK, Fallback
<1> QED
  BY <1>1, <1>2 DEF DeploymentInv, WholeOK, Whole

\* So does a step of the run that only goes on, where what holds there holds before.
LEMMA GoOnOK ==
  ASSUME DeploymentInv, UNCHANGED <<repo, disk>>, up' = [up EXCEPT !.pc = up'.pc],
         <<up.pc, up'.pc>> \in
           {<<"begin", "preflight">>, <<"packages", "switch">>, <<"restart", "health">>,
            <<"health", "prune">>, <<"prune", "succeed">>, <<"failed", "record">>,
            <<"failed", "reactivate">>, <<"failed", "back">>, <<"back", "record">>,
            <<"recover", "record">>},
         up'.pc = "back" => up.switched, up'.pc = "reactivate" => up.switched
  PROVE  DeploymentInv'
<1>1. up'.pc \in UpdaterAt /\ up' = [up EXCEPT !.pc = up'.pc]
  OBVIOUS
<1>2. DiskTypeOK'
  BY DEF DeploymentInv, DiskTypeOK
<1>3. RunTypeOK'
  BY <1>1 DEF DeploymentInv, RunTypeOK
<1>4. NotesOK' /\ PointerOK'
  BY <1>1 DEF DeploymentInv, RunTypeOK, NotesOK, PointerOK
<1>5. Fallback' \subseteq Fallback
  BY <1>1 DEF DeploymentInv, RunTypeOK, NotesOK, Fallback
<1> QED
  BY <1>2, <1>3, <1>4, <1>5 DEF DeploymentInv, WholeOK, Whole

\* The commands of the updater that find, fetch and unpack a release.
LEMMA FetchingOK ==
  ASSUME DeploymentInv,
         Preflight \/ Fetch \/ Download \/ StageFails \/ InstallRelease \/ Packages
  PROVE  DeploymentInv'
<1>1. CASE Preflight
  <2>1. CASE Fail
    BY <1>1, <2>1, FailOK DEF Preflight
  <2>2. CASE Leave
    BY <1>1, <2>2, LeaveOK DEF Preflight
  <2>3. CASE Then("fetch") /\ Whole(up.previous) /\ current = up.previous
    BY <1>1, <2>3 DEF Preflight, DeploymentInv, DiskTypeOK, RunTypeOK, NotesOK, PointerOK, WholeOK, Whole, Fallback
  <2> QED
    BY <1>1, <2>1, <2>2, <2>3 DEF Preflight
<1>2. CASE Fetch
  <2>1. CASE Fail
    BY <1>2, <2>1, FailOK DEF Fetch
  <2>2. ASSUME NEW c \in Commit, UNCHANGED <<repo, disk>>, up.pc = "fetch",
               up' = [up EXCEPT !.target = c, !.pc = IF up.mode = "source" THEN "packages" ELSE "stage"]
        PROVE  DeploymentInv'
    BY <2>2 DEF DeploymentInv, DiskTypeOK, RunTypeOK, NotesOK, PointerOK, WholeOK, Whole, Fallback
  <2> QED
    BY <1>2, <2>1, <2>2 DEF Fetch
<1>3. CASE Download
  <2>1. DiskTypeOK' /\ UNCHANGED <<release, checkout, current>>
    BY <1>3 DEF Download, DeploymentInv, DiskTypeOK, RunTypeOK
  <2>2. up' = NoRun \/ up' = up \/ up' = [up EXCEPT !.mode = "source", !.pc = "packages"]
    BY <1>3 DEF Download, ToSource, DeploymentInv, RunTypeOK
  <2>3. DeploymentInv'
    <3>0. up.pc = "stage"
      BY <1>3 DEF Download
    <3>1. RunTypeOK' /\ NotesOK' /\ PointerOK'
      <4>1. CASE up' = NoRun
        BY <4>1 DEF RunTypeOK, NotesOK, PointerOK
      <4>2. CASE up' = up
        BY <2>1, <4>2 DEF DeploymentInv, RunTypeOK, NotesOK, PointerOK
      <4>3. CASE up' = [up EXCEPT !.mode = "source", !.pc = "packages"]
        BY <2>1, <3>0, <4>3 DEF DeploymentInv, RunTypeOK, NotesOK, PointerOK
      <4> QED
        BY <2>2, <4>1, <4>2, <4>3
    <3>2. Fallback' \subseteq Fallback
      <4>1. CASE up' = NoRun
        BY <4>1 DEF Fallback
      <4>2. CASE up' = up
        BY <4>2 DEF Fallback
      <4>3. CASE up' = [up EXCEPT !.mode = "source", !.pc = "packages"]
        BY <3>0, <4>3 DEF DeploymentInv, RunTypeOK, Fallback
      <4> QED
        BY <2>2, <4>1, <4>2, <4>3
    <3> QED
      BY <2>1, <3>1, <3>2 DEF DeploymentInv, WholeOK, Whole
  <2> QED
    BY <2>3
<1>4. CASE StageFails
  BY <1>4, LeaveOK DEF StageFails
<1>5. CASE InstallRelease
  <2>1. CASE release' = release /\ Leave
    BY <1>5, <2>1, LeaveOK DEF InstallRelease
  <2>2. CASE /\ release[up.target] \in {"none", cache[up.target]}
             /\ release' = [release EXCEPT ![up.target] = cache[up.target]]
             /\ Then("packages")
    <3>1. DiskTypeOK'
      BY <1>5, <2>2 DEF InstallRelease, DeploymentInv, DiskTypeOK, RunTypeOK
    <3>2. \A c \in Commit : Whole(c) => Whole(c)'
      BY <2>2 DEF DeploymentInv, DiskTypeOK, Whole, ValidateReleaseDir
    <3>3. RunTypeOK' /\ NotesOK' /\ PointerOK' /\ Fallback' = Fallback
      BY <1>5, <2>2 DEF InstallRelease, DeploymentInv, DiskTypeOK, RunTypeOK, NotesOK, PointerOK, Fallback
    <3>4. current \in Commit /\ current' = current /\ Fallback \subseteq Commit
      BY <1>5 DEF InstallRelease, DeploymentInv, DiskTypeOK, RunTypeOK, Fallback
    <3> QED
      BY <3>1, <3>2, <3>3, <3>4 DEF DeploymentInv, WholeOK
  <2> QED
    BY <1>5, <2>1, <2>2 DEF InstallRelease
<1>6. CASE Packages
  BY <1>6, FailOK, GoOnOK DEF Packages, DeploymentInv, RunTypeOK
<1> QED
  BY <1>1, <1>2, <1>3, <1>4, <1>5, <1>6

\* The commands that switch, build and activate.
LEMMA SwitchingOK ==
  ASSUME DeploymentInv, Switch \/ NoteSwitched \/ Build \/ Activate \/ NoteActivated
  PROVE  DeploymentInv'
<1> USE DEF DeploymentInv, DiskTypeOK, RunTypeOK, NotesOK, PointerOK, WholeOK, Fallback
<1>1. CASE Switch
  <2>1. CASE checkout' = checkout /\ Fail
    BY <1>1, <2>1, FailOK DEF Switch
  <2>2. CASE checkout' = up.target /\ Then("switched")
    BY <1>1, <2>2 DEF Switch, Whole
  <2> QED
    BY <1>1, <2>1, <2>2 DEF Switch
<1>2. CASE NoteSwitched
  BY <1>2 DEF NoteSwitched, Whole
<1>3. CASE Build
  <2>1. CASE release' = release /\ Fail
    BY <1>3, <2>1, FailOK DEF Build
  <2>2. CASE /\ release[up.target] \in {"none", "source"}
             /\ release' = [release EXCEPT ![up.target] = "source"]
             /\ Then("activate")
    <3>1. \A c \in Commit : Whole(c) => Whole(c)'
      BY <2>2 DEF Whole, ValidateReleaseDir
    <3> QED
      BY <1>3, <2>2, <3>1 DEF Build
  <2> QED
    BY <1>3, <2>1, <2>2 DEF Build
<1>4. CASE Activate
  BY <1>4, FailOK DEF Activate, Whole
<1>5. CASE NoteActivated
  BY <1>5 DEF NoteActivated, Whole
<1> QED
  BY <1>1, <1>2, <1>3, <1>4, <1>5

\* The commands after the activation.
LEMMA FinishingOK ==
  ASSUME DeploymentInv,
         RecordStart \/ RefreshDeployment \/ RestartWeb \/ Health \/ Prune \/ RecordSuccess
  PROVE  DeploymentInv'
<1>1. CASE RecordStart
  BY <1>1, GoOnOK DEF RecordStart, Record, DeploymentInv, RunTypeOK
<1>2. CASE RefreshDeployment
  <2>1. CASE Fail
    BY <1>2, <2>1, FailOK DEF RefreshDeployment
  <2>2. ASSUME NEW changed \in BOOLEAN, UNCHANGED <<repo, disk>>, up.pc = "configure",
               up' = [up EXCEPT !.pc = "restart", !.changed = changed]
        PROVE  DeploymentInv'
    BY <2>2 DEF DeploymentInv, DiskTypeOK, RunTypeOK, NotesOK, PointerOK, WholeOK, Whole, Fallback
  <2>3. \A unit \in BOOLEAN : RestartNeeded(unit) \in BOOLEAN
    BY DEF RestartNeeded, DeploymentInv, RunTypeOK
  <2> QED
    BY <1>2, <2>1, <2>2, <2>3 DEF RefreshDeployment
<1>3. CASE RestartWeb
  BY <1>3, FailOK, GoOnOK DEF RestartWeb, DeploymentInv, RunTypeOK
<1>4. CASE Health
  BY <1>4, FailOK, GoOnOK DEF Health, DeploymentInv, RunTypeOK
<1>5. CASE Prune
  <2>1. CASE up' = [up EXCEPT !.pc = "succeed"] /\ UNCHANGED <<release, cache>>
    BY <1>5, <2>1, GoOnOK DEF Prune, DeploymentInv, RunTypeOK
  <2>2. ASSUME NEW c \in Commit \ Kept,
               \/ release' = [release EXCEPT ![c] = Removed(@)] /\ UNCHANGED <<cache, up>>
               \/ cache' = [cache EXCEPT ![c] = Removed(@)] /\ UNCHANGED <<release, up>>
        PROVE  DeploymentInv'
    <3>1. UNCHANGED <<repo, checkout, current, up>>
      BY <1>5, <2>2 DEF Prune
    <3>2. DiskTypeOK'
      <4>1. \A content : Removed(content) \in Releases
        BY DEF Removed, Contents
      <4>2. release' \in [Commit -> Releases] /\ cache' \in [Commit -> Releases]
        BY <2>2, <4>1 DEF DeploymentInv, DiskTypeOK
      <4> QED
        BY <3>1, <4>2 DEF DeploymentInv, DiskTypeOK
    <3>3. Fallback' = Fallback /\ current # c /\ Fallback \subseteq Commit \ {c}
      BY <1>5, <2>2, <3>1 DEF Prune, DeploymentInv, RunTypeOK, PointerOK, Kept, Fallback
    <3>4. \A d \in Commit \ {c} : Whole(d)' = Whole(d)
      BY <2>2 DEF DeploymentInv, DiskTypeOK, Whole
    <3> QED
      BY <3>1, <3>2, <3>3, <3>4 DEF DeploymentInv, DiskTypeOK, RunTypeOK, NotesOK, PointerOK, WholeOK
  <2> QED
    BY <1>5, <2>1, <2>2 DEF Prune
<1>6. CASE RecordSuccess
  BY <1>6, LeaveOK DEF RecordSuccess, Record
<1> QED
  BY <1>1, <1>2, <1>3, <1>4, <1>5, <1>6

\* The error trap.
LEMMA RollbackOK ==
  ASSUME DeploymentInv,
         HandleError \/ RollbackCheckout \/ RollbackActivate \/ RollbackRestart \/ RecordFailed
  PROVE  DeploymentInv'
<1>1. CASE HandleError
  BY <1>1, GoOnOK DEF HandleError, DeploymentInv, RunTypeOK, NotesOK
<1>2. CASE RollbackCheckout
  <2>1. CASE Then("record") /\ checkout' = checkout
    BY <1>2, <2>1, GoOnOK DEF RollbackCheckout, DeploymentInv, RunTypeOK
  <2>2. CASE Then("reactivate") /\ checkout' = up.previous
    BY <1>2, <2>2 DEF RollbackCheckout, DeploymentInv, DiskTypeOK, RunTypeOK, NotesOK, PointerOK, WholeOK, Whole, Fallback
  <2> QED
    BY <1>2, <2>1, <2>2 DEF RollbackCheckout
<1>3. CASE RollbackActivate
  BY <1>3 DEF RollbackActivate, DeploymentInv, DiskTypeOK, RunTypeOK, NotesOK, PointerOK, WholeOK, Whole, Fallback
<1>4. CASE RollbackRestart
  BY <1>4, GoOnOK DEF RollbackRestart, DeploymentInv, RunTypeOK
<1>5. CASE RecordFailed
  BY <1>5, LeaveOK DEF RecordFailed, Record
<1> QED
  BY <1>1, <1>2, <1>3, <1>4, <1>5

\* What happens beside the updater, and what ends it from outside.
LEMMA OthersOK ==
  ASSUME DeploymentInv,
         \/ Push \/ Publish \/ Install \/ UnitStarts \/ AdminStarts \/ WebRestarts \/ Fault \/ Check
         \/ \E by \in {"timer", "web"} : CheckStarts(by)
  PROVE  DeploymentInv'
<1>1. CASE Push
  BY <1>1, ElsewhereOK DEF Push, DeploymentInv, DiskTypeOK
<1>2. CASE Publish
  BY <1>2, ElsewhereOK DEF Publish, DeploymentInv, DiskTypeOK, Contents
<1>3. CASE Install \/ WebRestarts \/ Check \/ \E by \in {"timer", "web"} : CheckStarts(by)
  BY <1>3, ElsewhereOK
     DEF Install, WebRestarts, Check, CheckProbes, CheckIsAnswered, CheckFindsStale, CheckReadsHead,
         CheckWrites, CheckStarts, DeploymentInv, DiskTypeOK
<1>4. ASSUME NEW mode \in Modes \cup {"binary"}, Start(mode)
      PROVE  DeploymentInv'
  <2>1. CASE UNCHANGED up
    BY <1>4, <2>1, ElsewhereOK DEF Start, DeploymentInv, DiskTypeOK
  <2>2. CASE up' = [NoRun EXCEPT !.pc = "begin", !.mode = mode, !.previous = checkout]
    BY <1>4, <2>2
       DEF Start, DeploymentInv, DiskTypeOK, RunTypeOK, NotesOK, PointerOK, WholeOK, Whole, Fallback
  <2> QED
    BY <1>4, <2>1, <2>2 DEF Start
<1>5. CASE Fault
  <2>1. CASE Signal
    BY <2>1, LeaveOK, FailOK DEF Signal
  <2>2. CASE Kill \/ PowerLoss
    BY <2>2, LeaveOK DEF Kill, PowerLoss
  <2> QED
    BY <1>5, <2>1, <2>2 DEF Fault
<1> QED
  BY <1>1, <1>2, <1>3, <1>4, <1>5 DEF UnitStarts, AdminStarts

\* Every reachable state satisfies the invariant.
THEOREM DeploymentInvariant == Spec => []DeploymentInv
<1>1. DeploymentInv /\ [Next]_vars => DeploymentInv'
  <2>1. CASE Next
    BY <2>1, FetchingOK, SwitchingOK, FinishingOK, RollbackOK, OthersOK DEF Next, Updater
  <2>2. CASE UNCHANGED vars
    BY <2>2, ElsewhereOK DEF DeploymentInv, DiskTypeOK
  <2> QED
    BY <2>1, <2>2
<1> QED
  BY <1>1, DeploymentInitOK, PTL DEF Spec

-----------------------------------------------------------------------------
(* The refinement.                                                         *)

\* The initial states are initial states of the promise.
LEMMA PromiseInitOK == Init => Promise!Init
<1> SUFFICES ASSUME Init PROVE Promise!Init
  OBVIOUS
<1>1. \A c \in Commit : Whole(c) <=> c = First
  BY DEF Init, Whole, ValidateReleaseDir
<1>2. Fallback = {}
  BY DEF Init, Fallback
<1> QED
  BY <1>1, <1>2 DEF Init, Promise!Init

\* A step that changes neither releases nor the pointer maps to a stutter, or to
\* the end of the update.
LEMMA QuietOK ==
  ASSUME UNCHANGED <<release, current>>, Fallback' \in {Fallback, {}}
  PROVE  [Promise!Next]_(Promise!promised)
<1>1. {c \in Commit : Whole(c)}' = {c \in Commit : Whole(c)}
  BY DEF Whole
<1> QED
  BY <1>1 DEF Promise!Next, Promise!End, Promise!promised

\* The steps that are something to the promise.
LEMMA NoisyOK ==
  ASSUME DeploymentInv, DeploymentInv',
         Preflight \/ InstallRelease \/ Build \/ Activate \/ RollbackActivate \/ Prune
  PROVE  [Promise!Next]_(Promise!promised)
<1> DEFINE whole == {c \in Commit : Whole(c)}
<1>1. CASE Preflight
  <2>1. CASE Then("fetch") /\ Whole(up.previous)
    <3>1. Fallback = {} /\ Fallback' = {up.previous} /\ up.previous \in whole
      BY <1>1, <2>1 DEF Preflight, DeploymentInv, RunTypeOK, Fallback
    <3>2. UNCHANGED current /\ whole' = whole
      BY <1>1 DEF Preflight, Whole
    <3> QED
      BY <3>1, <3>2 DEF Promise!Next, Promise!Begin, Promise!promised
  <2>2. CASE Fail \/ Leave
    <3>1. Fallback' = {}
      BY <1>1, <2>2 DEF Preflight, DeploymentInv, RunTypeOK, NotesOK, Fallback
    <3> QED
      BY <1>1, <3>1, QuietOK DEF Preflight
  <2> QED
    BY <1>1, <2>1, <2>2 DEF Preflight
<1>2. CASE InstallRelease \/ Build
  <2>1. CASE UNCHANGED release /\ (Fail \/ Leave)
    <3>1. Fallback' = {}  \/ Fallback' = Fallback
      BY SMTT(30), <1>2, <2>1 DEF InstallRelease, Build, DeploymentInv, RunTypeOK, Fallback
    <3> QED
      BY <1>2, <2>1, <3>1, QuietOK DEF InstallRelease, Build
  <2>2. CASE /\ release[up.target] \in {"none", release'[up.target]}
             /\ release' = [release EXCEPT ![up.target] = release'[up.target]]
             /\ up.target \in Commit /\ Fallback' = Fallback
    <3>1. whole' = whole \/ (up.target \notin whole /\ whole' = whole \cup {up.target})
      BY <2>2 DEF DeploymentInv, DiskTypeOK, Whole, ValidateReleaseDir
    <3>2. UNCHANGED current
      BY <1>2 DEF InstallRelease, Build
    <3>3. CASE whole' = whole
      BY <2>2, <3>2, <3>3 DEF Promise!promised
    <3>4. CASE up.target \notin whole /\ whole' = whole \cup {up.target}
      BY <2>2, <3>2, <3>4 DEF Promise!Next, Promise!Add, Promise!promised
    <3> QED
      BY <3>1, <3>3, <3>4
  <2>3. InstallRelease => (UNCHANGED release /\ Leave)
                          \/ (/\ release[up.target] \in {"none", release'[up.target]}
                              /\ release' = [release EXCEPT ![up.target] = release'[up.target]]
                              /\ up.target \in Commit /\ Fallback' = Fallback)
    BY DEF InstallRelease, DeploymentInv, DiskTypeOK, RunTypeOK, Fallback
  <2>4. Build => (UNCHANGED release /\ Fail)
                 \/ (/\ release[up.target] \in {"none", release'[up.target]}
                     /\ release' = [release EXCEPT ![up.target] = release'[up.target]]
                     /\ up.target \in Commit /\ Fallback' = Fallback)
    BY DEF Build, DeploymentInv, DiskTypeOK, RunTypeOK, Fallback
  <2> QED
    BY <1>2, <2>1, <2>2, <2>3, <2>4
<1>3. CASE Activate \/ RollbackActivate
  <2>1. UNCHANGED release /\ whole' = whole
    BY <1>3 DEF Activate, RollbackActivate, Whole
  <2>2. Fallback # {} /\ Fallback' = Fallback
    BY ZenonT(60), <1>3 DEF Activate, RollbackActivate, DeploymentInv, RunTypeOK, NotesOK, Fallback
  <2>3. current' \in whole
    BY <1>3, <2>1 DEF DeploymentInv, DiskTypeOK, WholeOK
  <2> QED
    BY <2>1, <2>2, <2>3 DEF Promise!Next, Promise!Activate, Promise!promised
<1>4. CASE Prune
  <2>1. CASE UNCHANGED release
    <3>1. Fallback' = Fallback
      BY <1>4 DEF Prune, DeploymentInv, RunTypeOK, Fallback
    <3> QED
      BY <1>4, <2>1, <3>1, QuietOK DEF Prune
  <2>2. ASSUME NEW c \in Commit \ Kept, release' = [release EXCEPT ![c] = Removed(@)], UNCHANGED up
        PROVE  [Promise!Next]_(Promise!promised)
    <3>1. UNCHANGED current /\ Fallback' = Fallback /\ c \notin {current} \cup Fallback
      BY <1>4, <2>2 DEF Prune, DeploymentInv, RunTypeOK, PointerOK, Kept, Fallback
    <3>2. whole' = whole \ {c}
      <4>1. ~Whole(c)'
        BY <2>2 DEF DeploymentInv, DiskTypeOK, Whole, ValidateReleaseDir, Removed
      <4>2. \A d \in Commit \ {c} : Whole(d)' = Whole(d)
        BY <2>2 DEF DeploymentInv, DiskTypeOK, Whole
      <4> QED
        BY <4>1, <4>2
    <3>3. CASE c \in whole
      BY <3>1, <3>2, <3>3 DEF Promise!Next, Promise!Discard, Promise!promised
    <3>4. CASE c \notin whole
      BY <3>1, <3>2, <3>4 DEF Promise!promised
    <3> QED
      BY <3>3, <3>4
  <2> QED
    BY <1>4, <2>1, <2>2 DEF Prune
<1> QED
  BY <1>1, <1>2, <1>3, <1>4

\* Every other step leaves releases and pointer alone, and the release to go back
\* to is the same, or no longer needed.
LEMMA OtherStepsAreQuiet ==
  ASSUME DeploymentInv, [Next]_vars,
         ~(Preflight \/ InstallRelease \/ Build \/ Activate \/ RollbackActivate \/ Prune)
  PROVE  UNCHANGED <<release, current>> /\ Fallback' \in {Fallback, {}}
<1> USE DEF DeploymentInv, RunTypeOK, NotesOK
<1>1. CASE UNCHANGED up /\ UNCHANGED <<release, current>>
  BY <1>1 DEF Fallback
<1>2. CASE Push \/ Publish \/ Install \/ WebRestarts \/ Check \/ (\E by \in {"timer", "web"} : CheckStarts(by))
           \/ UNCHANGED vars
  BY <1>1, <1>2
     DEF Push, Publish, Install, WebRestarts, Check, CheckProbes, CheckIsAnswered, CheckFindsStale,
         CheckReadsHead, CheckWrites, CheckStarts
<1>3. CASE UnitStarts \/ AdminStarts
  BY ZenonT(60), <1>3 DEF UnitStarts, AdminStarts, Start, Fallback
<1>4. CASE Fault
  <2>1. CASE Signal
    BY <2>1 DEF Signal, Fallback
  <2>2. CASE Kill
    BY <2>2 DEF Kill, Fallback
  <2>3. CASE PowerLoss
    BY <2>3 DEF PowerLoss, Fallback
  <2> QED
    BY <1>4, <2>1, <2>2, <2>3 DEF Fault
<1>5. CASE RecordStart \/ RecordSuccess \/ RecordFailed
  BY <1>5 DEF RecordStart, RecordSuccess, RecordFailed, Record, Fallback
<1>6. CASE Fetch
  <2>1. /\ UNCHANGED <<release, current>> /\ up.pc = "fetch"
        /\ up'.previous = up.previous /\ up'.switched = up.switched
        /\ up'.pc \in {"packages", "stage", "failed"}
    BY <1>6 DEF Fetch
  <2> QED
    BY <2>1 DEF Fallback
<1>7. CASE Download
  <2>1. UNCHANGED <<release, current>> /\ up.pc = "stage"
    BY <1>7 DEF Download
  <2>2. up' = NoRun \/ (up'.pc \in {"packages", "stage"} /\ up'.previous = up.previous)
    BY <1>7 DEF Download, ToSource
  <2> QED
    BY <2>1, <2>2 DEF Fallback
<1>8. CASE StageFails \/ Packages \/ Switch \/ NoteSwitched
  <2>1. CASE StageFails
    BY <2>1 DEF StageFails, Fallback
  <2>2. CASE Packages \/ Switch
    BY <2>2 DEF Packages, Switch, Fallback
  <2>3. CASE NoteSwitched
    <3>1. /\ UNCHANGED <<release, current>> /\ up.pc = "switched" /\ up'.previous = up.previous
          /\ up'.pc \in {"activate", "configure", "build"}
      BY <2>3 DEF NoteSwitched
    <3> QED
      BY <3>1 DEF Fallback
  <2> QED
    BY <1>8, <2>1, <2>2, <2>3
<1>9. CASE NoteActivated \/ RefreshDeployment \/ RestartWeb \/ Health
  BY ZenonT(60), <1>9 DEF NoteActivated, RefreshDeployment, RestartWeb, Health, Fallback
<1>10. CASE HandleError \/ RollbackCheckout \/ RollbackRestart
  BY <1>10 DEF HandleError, RollbackCheckout, RollbackRestart, Fallback
<1> QED
  BY <1>2, <1>3, <1>4, <1>5, <1>6, <1>7, <1>8, <1>9, <1>10 DEF Next, Updater

\* The pointer always names a whole release, and the release to go back to is there
\* until the update is over, for any commits, modes and qualities and any faults.
THEOREM DeploymentImplementsPromise == Spec => ImplementsPromise
<1>1. DeploymentInv /\ DeploymentInv' /\ [Next]_vars => [Promise!Next]_(Promise!promised)
  BY NoisyOK, OtherStepsAreQuiet, QuietOK
<1> QED
  BY <1>1, PromiseInitOK, DeploymentInvariant, PTL DEF Spec, ImplementsPromise, Promise!Spec

-----------------------------------------------------------------------------
(* What the dashboard runs.                                                *)

\* Where the dashboard runs the active release, or is down; whether the update has got far
\* enough to have noted what it changed.
Quiet == {"idle", "begin", "preflight", "fetch", "stage", "packages", "switch"}
Midway == {"switched", "build", "activate", "activated", "configure", "restart"}
Rests == up.pc \in Quiet \cup {"record"} \/ (up.pc = "failed" /\ ~up.switched)

\* What the dashboard runs, as long as no updater was killed and no rollback failed: what is
\* left over from before the activation is never taken for the new release.
ServedOK ==
  seen \cap {"kill", "rollback"} = {} =>
    /\ Rests => serving \in {current, None}
    /\ up.pc \in Midway => serving \in {up.previous, current, None}
    /\ up.pc \in {"configure", "restart"} /\ ~up.changed => up.target = up.previous
    /\ up.pc \in {"health", "prune", "succeed"} => serving = current
    /\ up.pc \in {"reactivate", "recover"} => checkout = up.previous
    /\ up.pc = "recover" => current = up.previous

\* And where nothing was interrupted, the three are the same whenever the run is over or
\* has not changed anything yet.
TogetherOK ==
  seen \cap {"kill", "power", "rollback", "window"} = {} /\ Rests
    => checkout = current /\ serving = current

ServingInv == DeploymentInv /\ ServedOK /\ TogetherOK

\* The launcher starts the active release or nothing, and does start it when the checkout
\* agrees: the pointer names a whole release.
LEMMA LaunchedIs ==
  ASSUME DeploymentInv
  PROVE  Launched \in {current, None} /\ (checkout = current => Launched = current)
BY DEF Launched, DeploymentInv, WholeOK

\* The run only goes on or is trapped, before it has changed anything or after it has made
\* sure of the dashboard.
LEMMA RunsOnOK ==
  ASSUME ServingInv, DeploymentInv', UNCHANGED <<checkout, current, serving>>, seen \subseteq seen',
         \/ Rests /\ Rests'
         \/ up.pc \in Midway \cup {"health", "prune", "succeed"} /\ up'.pc = "failed"
            /\ up'.switched = up.switched /\ (up.pc = "switched" => "window" \in seen')
         \/ up.pc \in {"health", "prune", "succeed"} /\ up'.pc \in {"health", "prune", "succeed"}
         \/ up.pc = "succeed" /\ up'.pc = "idle"
  PROVE  ServedOK' /\ TogetherOK'
<1> USE DEF ServingInv, DeploymentInv, ServedOK, TogetherOK, Rests, Quiet, Midway
<1>1. CASE Rests /\ Rests'
  BY <1>1
<1>2. CASE up.pc \in Midway \cup {"health", "prune", "succeed"} /\ up'.pc = "failed"
           /\ up'.switched = up.switched /\ (up.pc = "switched" => "window" \in seen')
  <2>1. up.pc # "switched" => up'.switched
    BY <1>2 DEF NotesOK
  <2>2. up.pc = "switched" => current = up.previous
    BY DEF PointerOK
  <2> QED
    BY <1>2, <2>1, <2>2
<1>3. CASE up.pc \in {"health", "prune", "succeed"} /\ up'.pc \in {"health", "prune", "succeed"}
  BY <1>3
<1>4. CASE up.pc = "succeed" /\ up'.pc = "idle"
  <2>1. checkout = current
    BY <1>4 DEF PointerOK
  <2> QED
    BY <1>4, <2>1
<1> QED
  BY <1>1, <1>2, <1>3, <1>4

\* The updater's commands up to the switch, and those after the restart.
LEMMA PlainCommandsServe ==
  ASSUME ServingInv, DeploymentInv',
         \/ RecordStart \/ Preflight \/ Fetch \/ Download \/ StageFails \/ InstallRelease \/ Packages
         \/ Health \/ Prune \/ RecordSuccess \/ RecordFailed
  PROVE  ServedOK' /\ TogetherOK'
<1> USE DEF Rests, Quiet, Midway
<1>0. ~up.switched \/ up.pc \notin Quiet
  BY DEF ServingInv, DeploymentInv, NotesOK
<1>1. CASE RecordStart \/ RecordSuccess \/ RecordFailed
  <2>1. UNCHANGED <<checkout, current, serving>> /\ seen \subseteq seen'
    BY <1>1 DEF RecordStart, RecordSuccess, RecordFailed, Record
  <2>2. \/ up.pc = "begin" /\ up'.pc = "preflight"
        \/ up.pc \in {"succeed", "record"} /\ up'.pc = "idle"
    BY <1>1 DEF RecordStart, RecordSuccess, RecordFailed, Record, ServingInv, DeploymentInv, RunTypeOK
  <2> QED
    BY <2>1, <2>2, RunsOnOK
<1>2. CASE Preflight \/ Fetch \/ Download \/ StageFails \/ InstallRelease \/ Packages
  <2>1. UNCHANGED <<checkout, current, serving, seen>>
    BY <1>2 DEF Preflight, Fetch, Download, StageFails, InstallRelease, Packages
  <2>2. up.pc \in {"preflight", "fetch", "stage", "packages"}
    BY <1>2 DEF Preflight, Fetch, Download, StageFails, InstallRelease, Packages
  <2>3. \/ up'.pc \in Quiet
        \/ up'.pc = "failed" /\ up'.switched = up.switched
    <3>1. CASE Preflight \/ Packages
      BY <3>1 DEF Preflight, Packages, ServingInv, DeploymentInv, RunTypeOK
    <3>2. CASE Fetch
      BY <3>2 DEF Fetch, ServingInv, DeploymentInv, RunTypeOK
    <3>3. CASE Download
      <4>1. up' = NoRun \/ up' = [up EXCEPT !.pc = "stage"] \/ up' = [up EXCEPT !.mode = "source", !.pc = "packages"]
        BY <3>3 DEF Download, ToSource
      <4>2. CASE up' = NoRun
        BY <4>2
      <4>3. CASE up' # NoRun
        BY <4>1, <4>3 DEF ServingInv, DeploymentInv, RunTypeOK
      <4> QED
        BY <4>2, <4>3
    <3>4. CASE StageFails \/ InstallRelease
      BY <3>4 DEF StageFails, InstallRelease, ServingInv, DeploymentInv, RunTypeOK
    <3> QED
      BY <1>2, <3>1, <3>2, <3>3, <3>4
  <2> QED
    BY <1>0, <2>1, <2>2, <2>3, RunsOnOK
<1>3. CASE Health \/ Prune
  <2>1. UNCHANGED <<checkout, current, serving, seen>> /\ up.pc \in {"health", "prune"}
    BY <1>3 DEF Health, Prune
  <2>2. \/ up'.pc \in {"prune", "succeed"}
        \/ up'.pc = "failed" /\ up'.switched = up.switched
    BY <1>3 DEF Health, Prune, ServingInv, DeploymentInv, RunTypeOK
  <2> QED
    BY <2>1, <2>2, RunsOnOK
<1> QED
  BY <1>1, <1>2, <1>3

\* From the switch to the restart: what the dashboard runs is the old release or the new
\* one, and it is restarted unless the two are the same.
LEMMA SwitchServes ==
  ASSUME ServingInv, DeploymentInv', Switch \/ NoteSwitched \/ Build \/ Activate \/ NoteActivated
                                    \/ RefreshDeployment \/ RestartWeb
  PROVE  ServedOK' /\ TogetherOK'
<1> USE DEF Rests, Quiet, Midway
<1>0. /\ up \in [pc : UpdaterAt, mode : Modes \cup {"binary", "source"}, target : Commit \cup {None},
                 previous : Commit \cup {None}, switched : BOOLEAN, activated : BOOLEAN, changed : BOOLEAN]
      /\ DeploymentInv /\ ServedOK /\ TogetherOK
  BY DEF ServingInv, DeploymentInv, RunTypeOK
<1>1. CASE Switch
  <2>1. CASE checkout' = checkout /\ Fail
    <3>1. ~up.switched /\ up.pc = "switch" /\ up'.pc = "failed" /\ ~up'.switched
      BY <1>0, <1>1, <2>1 DEF Switch, DeploymentInv, NotesOK
    <3> QED
      BY <1>1, <2>1, <3>1, RunsOnOK DEF Switch
  <2>2. CASE checkout' = up.target /\ Then("switched")
    <3>1. UNCHANGED <<current, serving, seen>> /\ up.pc = "switch" /\ up'.pc = "switched"
      BY <1>0, <1>1, <2>2 DEF Switch
    <3> QED
      BY <1>0, <3>1 DEF ServedOK, TogetherOK
  <2> QED
    BY <1>1, <2>1, <2>2 DEF Switch
<1>2. CASE NoteSwitched
  <2>1. /\ UNCHANGED <<checkout, current, serving, seen>> /\ up.pc = "switched"
        /\ up'.previous = up.previous /\ up'.target = up.target
        /\ up'.pc \in {"activate", "configure", "build"}
        /\ up'.pc = "configure" => up.target = up.previous
    BY <1>0, <1>2 DEF NoteSwitched
  <2> QED
    BY <1>0, <2>1 DEF ServedOK, TogetherOK
<1>3. CASE Build
  <2>1. UNCHANGED <<checkout, current, serving, seen>> /\ up.pc = "build"
    BY <1>3 DEF Build
  <2>2. \/ up'.pc = "activate" /\ up'.previous = up.previous
        \/ up'.pc = "failed" /\ up'.switched = up.switched
    BY <1>0, <1>3 DEF Build
  <2>3. CASE up'.pc = "activate" /\ up'.previous = up.previous
    BY <1>0, <2>1, <2>3 DEF ServedOK, TogetherOK
  <2> QED
    BY <2>1, <2>2, <2>3, RunsOnOK
<1>4. CASE Activate
  <2>1. UNCHANGED <<checkout, serving, seen>> /\ up.pc = "activate" /\ current = up.previous
    BY <1>0, <1>4 DEF Activate, DeploymentInv, PointerOK
  <2>2. CASE current' = up.target /\ Then("activated")
    BY <1>0, <2>1, <2>2 DEF ServedOK, TogetherOK
  <2>3. CASE current' = current /\ Fail
    <3>1. up'.pc = "failed" /\ up'.switched = up.switched
      BY <1>0, <2>3
    <3> QED
      BY <2>1, <2>3, <3>1, RunsOnOK
  <2> QED
    BY <1>4, <2>2, <2>3 DEF Activate
<1>5. CASE NoteActivated
  <2>1. /\ UNCHANGED <<checkout, current, serving, seen>> /\ up.pc = "activated"
        /\ up'.previous = up.previous /\ up'.target = up.target /\ up'.pc = "configure"
        /\ ~up'.changed => up.target = up.previous
    BY <1>0, <1>5 DEF NoteActivated
  <2> QED
    BY <1>0, <2>1 DEF ServedOK, TogetherOK
<1>6. CASE RefreshDeployment
  <2>1. UNCHANGED <<checkout, current, serving, seen>> /\ up.pc = "configure"
    BY <1>6 DEF RefreshDeployment
  <2>2. CASE Fail
    <3>1. up'.pc = "failed" /\ up'.switched = up.switched
      BY <1>0, <2>2
    <3> QED
      BY <2>1, <3>1, RunsOnOK
  <2>3. CASE ~Fail
    <3>1. /\ up'.previous = up.previous /\ up'.target = up.target /\ up'.pc = "restart"
          /\ ~up'.changed => ~up.changed
      BY <1>0, <1>6, <2>3 DEF RefreshDeployment, RestartNeeded
    <3> QED
      BY <1>0, <2>1, <3>1 DEF ServedOK, TogetherOK
  <2> QED
    BY <2>2, <2>3
<1>7. CASE RestartWeb
  <2>1. UNCHANGED <<checkout, current, seen>> /\ up.pc = "restart" /\ checkout = current
        /\ checkout = up.target /\ up.switched
    BY <1>0, <1>7 DEF RestartWeb, DeploymentInv, PointerOK, NotesOK
  <2>2. /\ serving' \in {current, serving} /\ (up.changed => serving' = current)
        /\ serving = None => serving' = current
    BY <1>0, <1>7, <2>1, LaunchedIs DEF RestartWeb
  <2>3. up'.pc \in {"health", "failed"} /\ up'.switched = up.switched
    BY <1>0, <1>7 DEF RestartWeb
  <2>4. seen \cap {"kill", "rollback"} = {} => serving' = current
    BY <1>0, <2>1, <2>2 DEF ServedOK
  <2> QED
    BY <2>1, <2>3, <2>4 DEF ServedOK, TogetherOK
<1> QED
  BY <1>1, <1>2, <1>3, <1>4, <1>5, <1>6, <1>7

\* The trap puts all three back, or says that it could not.
LEMMA RollbackServes ==
  ASSUME ServingInv, DeploymentInv', HandleError \/ RollbackCheckout \/ RollbackActivate \/ RollbackRestart
  PROVE  ServedOK' /\ TogetherOK'
<1> USE DEF Rests, Quiet, Midway
<1>0. /\ up \in [pc : UpdaterAt, mode : Modes \cup {"binary", "source"}, target : Commit \cup {None},
                 previous : Commit \cup {None}, switched : BOOLEAN, activated : BOOLEAN, changed : BOOLEAN]
      /\ DeploymentInv /\ ServedOK /\ TogetherOK
  BY DEF ServingInv, DeploymentInv, RunTypeOK
<1>1. CASE HandleError
  <2>1. /\ UNCHANGED <<checkout, current, serving, seen>> /\ up.pc = "failed"
        /\ up.activated => up.switched
        /\ up'.pc = (IF up.switched THEN "back" ELSE "record")
    BY <1>0, <1>1 DEF HandleError, DeploymentInv, NotesOK
  <2> QED
    BY <1>0, <2>1 DEF ServedOK, TogetherOK
<1>2. CASE RollbackCheckout
  <2>1. CASE MayFail
    BY <2>1 DEF MayFail, ServedOK, TogetherOK
  <2>2. CASE checkout' = up.previous /\ Then("reactivate") /\ seen' = seen
    <3>1. up'.pc = "reactivate" /\ up'.previous = up.previous
      BY <1>0, <2>2
    <3> QED
      BY <2>2, <3>1 DEF ServedOK, TogetherOK
  <2> QED
    BY <1>2, <2>1, <2>2 DEF RollbackCheckout
<1>3. CASE RollbackActivate
  <2>1. CASE MayFail
    BY <2>1 DEF MayFail, ServedOK, TogetherOK
  <2>2. CASE ~MayFail
    <3>1. /\ UNCHANGED <<checkout, seen>> /\ up.pc = "reactivate" /\ up'.pc = "recover"
          /\ up'.previous = up.previous
          /\ current' = up.previous
      BY <1>0, <1>3, <2>2 DEF RollbackActivate, DeploymentInv, NotesOK, WholeOK, Fallback
    <3> QED
      BY <1>0, <3>1 DEF ServedOK, TogetherOK
  <2> QED
    BY <2>1, <2>2
<1>4. CASE RollbackRestart
  <2>1. CASE MayFail
    BY <2>1 DEF MayFail, ServedOK, TogetherOK
  <2>2. CASE ~MayFail
    <3>1. /\ UNCHANGED <<checkout, current, seen>> /\ up.pc = "recover" /\ up'.pc = "record"
          /\ serving' = Launched
      BY <1>0, <1>4, <2>2 DEF RollbackRestart
    <3> QED
      BY <1>0, <3>1, LaunchedIs DEF ServedOK, TogetherOK
  <2> QED
    BY <2>1, <2>2
<1> QED
  BY <1>1, <1>2, <1>3, <1>4

\* What happens beside the updater: the dashboard may start again at any moment, and a
\* fault may end the run at any.
LEMMA OthersServe ==
  ASSUME ServingInv, DeploymentInv',
         \/ Push \/ Publish \/ Install \/ UnitStarts \/ AdminStarts \/ WebRestarts \/ Fault \/ Check
         \/ (\E by \in {"timer", "web"} : CheckStarts(by)) \/ UNCHANGED vars
  PROVE  ServedOK' /\ TogetherOK'
<1> USE DEF Rests, Quiet, Midway
<1>0. /\ up \in [pc : UpdaterAt, mode : Modes \cup {"binary", "source"}, target : Commit \cup {None},
                 previous : Commit \cup {None}, switched : BOOLEAN, activated : BOOLEAN, changed : BOOLEAN]
      /\ DeploymentInv /\ ServedOK /\ TogetherOK
  BY DEF ServingInv, DeploymentInv, RunTypeOK
<1>1. CASE UNCHANGED <<checkout, current, serving, seen, up>>
  BY <1>0, <1>1 DEF ServedOK, TogetherOK
<1>2. CASE Push \/ Publish \/ Install \/ Check \/ (\E by \in {"timer", "web"} : CheckStarts(by)) \/ UNCHANGED vars
  BY <1>1, <1>2
     DEF Push, Publish, Install, Check, CheckProbes, CheckIsAnswered, CheckFindsStale, CheckReadsHead,
         CheckWrites, CheckStarts
<1>3. CASE UnitStarts \/ AdminStarts
  <2>1. /\ UNCHANGED <<checkout, current, serving, seen>> /\ up.pc = "idle"
        /\ up'.pc = "begin" \/ UNCHANGED up
    BY <1>3 DEF UnitStarts, AdminStarts, Start
  <2> QED
    BY <1>1, <2>1, RunsOnOK
<1>4. CASE WebRestarts
  <2>1. UNCHANGED <<checkout, current, seen, up>> /\ serving' = Launched
    BY <1>4 DEF WebRestarts
  <2>2. up.pc \in {"health", "prune", "succeed"} => checkout = current
    BY <1>0 DEF DeploymentInv, PointerOK
  <2> QED
    BY <1>0, <2>1, <2>2, LaunchedIs DEF ServedOK, TogetherOK
<1>5. CASE Signal \/ Kill
  <2>1. CASE "kill" \in seen'
    BY <2>1 DEF ServedOK, TogetherOK
  <2>2. CASE "kill" \notin seen'
    <3>1. /\ up.pc \notin Rollback \cup {"idle"} /\ Fail /\ UNCHANGED <<checkout, current, serving>>
          /\ seen' = IF up.pc = "switched" THEN seen \cup {"window"} ELSE seen
      BY <1>5, <2>2 DEF Signal, Kill
    <3>2. /\ up'.pc = "failed" /\ up'.switched = up.switched
          /\ up.pc \in Quiet => ~up.switched
          /\ up.pc \in Quiet \cup Midway \cup {"health", "prune", "succeed"}
      BY <1>0, <3>1 DEF DeploymentInv, NotesOK
    <3> QED
      BY <3>1, <3>2, RunsOnOK
  <2> QED
    BY <2>1, <2>2
<1>6. CASE PowerLoss
  <2>1. "power" \in seen' /\ UNCHANGED current /\ serving' = Launched /\ up'.pc = "idle"
    BY <1>6 DEF PowerLoss
  <2> QED
    BY <1>0, <2>1, LaunchedIs DEF ServedOK, TogetherOK
<1> QED
  BY <1>2, <1>3, <1>4, <1>5, <1>6 DEF Fault

\* What the dashboard runs is accounted for in every reachable state.
THEOREM ServingInvariant == Spec => []ServingInv
<1>1. Init => ServingInv
  <2> SUFFICES ASSUME Init PROVE ServingInv
    OBVIOUS
  <2>1. ServedOK /\ TogetherOK
    BY DEF Init, ServedOK, TogetherOK, Rests, Quiet, Midway
  <2> QED
    BY <2>1, DeploymentInitOK DEF ServingInv
<1>2. ServingInv /\ DeploymentInv' /\ [Next]_vars => ServingInv'
  BY PlainCommandsServe, SwitchServes, RollbackServes, OthersServe DEF ServingInv, Next, Updater
<1> QED
  BY <1>1, <1>2, DeploymentInvariant, PTL DEF Spec

\* However an update ends by itself, the checkout, the release pointer and the release the
\* dashboard runs are the same again: for every set of commits, every mode, and any number
\* of updates, failures, restarts and signals.
THEOREM UpdatesEndTogether == Spec => []EndsTogether
<1>1. ServingInv => EndsTogether
  BY DEF ServingInv, TogetherOK, Rests, Quiet, EndsTogether
<1> QED
  BY <1>1, ServingInvariant, PTL

\* An update that is recorded as successful has left the dashboard running the release that
\* is installed, power losses and interrupted updates before it included.
THEOREM SuccessesAreServed == Spec => SuccessIsServed
<1>1. ServingInv /\ [Next]_vars =>
        (up.pc = "succeed" /\ up'.pc = "idle" /\ status'.install = "success" /\ seen \cap {"kill", "rollback"} = {}
          => serving' = current' /\ checkout' = current')
  <2> SUFFICES ASSUME ServingInv, [Next]_vars, up.pc = "succeed", up'.pc = "idle",
                      status'.install = "success", seen \cap {"kill", "rollback"} = {}
               PROVE  serving' = current' /\ checkout' = current'
    OBVIOUS
  <2>1. serving = current /\ checkout = current
    BY DEF ServingInv, DeploymentInv, PointerOK, ServedOK
  <2>2. UNCHANGED <<checkout, current>> /\ serving' \in {serving, Launched}
    BY DEF Next, Push, Publish, Install, UnitStarts, AdminStarts, Start, WebRestarts, Fault, Signal, Kill,
           PowerLoss, Check, CheckProbes, CheckIsAnswered, CheckFindsStale, CheckReadsHead, CheckWrites,
           CheckStarts, Updater, RecordStart, Record, Preflight, Fetch, Download, StageFails,
           InstallRelease, Packages, Switch, NoteSwitched, Build, Activate, NoteActivated,
           RefreshDeployment, RestartWeb, Health, Prune, RecordSuccess, HandleError, RollbackCheckout,
           RollbackActivate, RollbackRestart, RecordFailed
  <2>3. Launched = current
    BY <2>1, LaunchedIs DEF ServingInv
  <2> QED
    BY <2>1, <2>2, <2>3
<1> QED
  BY <1>1, ServingInvariant, PTL DEF Spec, SuccessIsServed

-----------------------------------------------------------------------------
(* The status file and the locks.                                          *)

Statuses == [install : {"idle", "running", "success", "failed"}, installed : Commit,
             available : Commit \cup {None}, ready : BOOLEAN]
Checks == [pc : {"idle", "probe", "stale", "mend", "read", "write"}, by : {"timer", "web"},
           installed : Commit \cup {None}]

\* What the invariant leaves open of the types.
StatusTypeOK ==
  /\ cache \in [Commit -> Contents \cup {"partial"}] /\ serving \in Commit \cup {None}
  /\ status \in Statuses /\ request \in BOOLEAN /\ chk \in Checks
  /\ chk.pc = "write" => chk.installed \in Commit

\* The update lock is held by the run that is under way, or by the check that asks for it.
LockOK ==
  /\ lock \in {"free", "updater", "probe"}
  /\ (lock = "updater") <=> (up.pc # "idle")
  /\ (lock = "probe") <=> (chk.pc = "stale")

StatusInv == DeploymentInv /\ StatusTypeOK /\ LockOK

\* The checks take the update lock for a moment, where nobody holds it.
LEMMA ChecksKeepTypes ==
  ASSUME StatusInv, DeploymentInv',
         \/ Push \/ Publish \/ Install \/ WebRestarts \/ Check
         \/ (\E by \in {"timer", "web"} : CheckStarts(by)) \/ UNCHANGED vars
  PROVE  StatusTypeOK' /\ LockOK'
<1>0. status \in Statuses /\ chk \in Checks /\ checkout \in Commit /\ upstream \in Commit
  BY DEF StatusInv, StatusTypeOK, DeploymentInv, DiskTypeOK
<1>1. CASE Push \/ Publish \/ Install \/ WebRestarts \/ UNCHANGED vars
  BY <1>1 DEF Push, Publish, Install, WebRestarts, Launched, StatusInv, StatusTypeOK, LockOK,
              DeploymentInv, DiskTypeOK
<1>2. ASSUME NEW by \in {"timer", "web"}, CheckStarts(by) PROVE StatusTypeOK' /\ LockOK'
  BY <1>0, <1>2 DEF CheckStarts, UpdateIsRunning, NoCheck, Checks, StatusInv, StatusTypeOK, LockOK
<1>3. CASE CheckProbes \/ CheckIsAnswered
  BY <1>0, <1>3 DEF CheckProbes, CheckIsAnswered, ProbeDropped, NoCheck, Checks, StatusInv, StatusTypeOK, LockOK
<1>4. CASE CheckFindsStale \/ CheckReadsHead
  BY ZenonT(60), <1>0, <1>4 DEF CheckFindsStale, CheckReadsHead, Checks, Statuses, StatusInv, StatusTypeOK, LockOK
<1>5. CASE CheckWrites
  <2>1. /\ chk' = NoCheck /\ chk.pc = "write" /\ chk.installed \in Commit
        /\ UNCHANGED <<repo, disk, serving, request, lock, up>>
    BY <1>5 DEF CheckWrites, StatusInv, StatusTypeOK
  <2>2. \A c \in Commit : ReadReleaseStatus(c) \in BOOLEAN
    BY DEF ReadReleaseStatus
  <2>3. status' \in Statuses
    BY <1>0, <1>5, <2>1, <2>2 DEF CheckWrites, Statuses
  <2> QED
    BY <2>1, <2>3 DEF NoCheck, Checks, StatusInv, StatusTypeOK, LockOK
<1> QED
  BY <1>1, <1>2, <1>3, <1>4, <1>5 DEF Check

\* A command of the run keeps the lock, or gives it back when the run is over.
LEMMA RunKeepsTypes ==
  ASSUME StatusInv, DeploymentInv', up.pc # "idle",
         (lock' = "free" /\ up'.pc = "idle") \/ (UNCHANGED lock /\ up'.pc # "idle"),
         UNCHANGED <<request, chk>>,
         status' \in Statuses, serving' \in {serving, Launched},
         cache' \in [Commit -> Contents \cup {"partial"}]
  PROVE  StatusTypeOK' /\ LockOK'
<1>1. LockOK'
  BY DEF StatusInv, LockOK
<1>2. serving' \in Commit \cup {None}
  BY DEF Launched, StatusInv, StatusTypeOK, DeploymentInv, DiskTypeOK
<1> QED
  BY <1>1, <1>2 DEF StatusInv, StatusTypeOK

\* The updater's commands keep the types and the lock.
LEMMA UpdaterKeepsTypes == ASSUME StatusInv, DeploymentInv', Updater PROVE StatusTypeOK' /\ LockOK'
<1>0. /\ up \in [pc : UpdaterAt, mode : Modes \cup {"binary", "source"}, target : Commit \cup {None},
                 previous : Commit \cup {None}, switched : BOOLEAN, activated : BOOLEAN, changed : BOOLEAN]
      /\ status \in Statuses /\ cache \in [Commit -> Contents \cup {"partial"}] /\ checkout \in Commit
      /\ published \in [Commit -> Contents]
  BY DEF StatusInv, StatusTypeOK, DeploymentInv, RunTypeOK, DiskTypeOK
<1>1. CASE RecordStart \/ RecordSuccess \/ RecordFailed
  <2>1. /\ up.pc # "idle" /\ UNCHANGED <<cache, serving, request, chk>>
        /\ (lock' = "free" /\ up'.pc = "idle") \/ (UNCHANGED lock /\ up'.pc # "idle")
    BY <1>0, <1>1 DEF RecordStart, RecordSuccess, RecordFailed, Record
  <2>2. status' \in Statuses
    BY ZenonT(60), <1>0, <1>1 DEF RecordStart, RecordSuccess, RecordFailed, Record, Statuses
  <2> QED
    BY <1>0, <2>1, <2>2, RunKeepsTypes
<1>2. CASE Preflight \/ Fetch \/ StageFails \/ InstallRelease \/ Packages \/ Switch \/ NoteSwitched \/ Build
  <2>1. /\ up.pc # "idle" /\ UNCHANGED <<cache, serving, status, request, chk>>
        /\ (lock' = "free" /\ up'.pc = "idle") \/ (UNCHANGED lock /\ up'.pc # "idle")
    <3>1. CASE Preflight \/ StageFails \/ InstallRelease
      BY <1>0, <3>1 DEF Preflight, StageFails, InstallRelease
    <3>2. CASE Fetch
      BY <1>0, <3>2 DEF Fetch
    <3>3. CASE Packages \/ Switch \/ Build
      BY <1>0, <3>3 DEF Packages, Switch, Build
    <3>4. CASE NoteSwitched
      BY <1>0, <3>4 DEF NoteSwitched
    <3> QED
      BY <1>2, <3>1, <3>2, <3>3, <3>4
  <2> QED
    BY <1>0, <2>1, RunKeepsTypes
<1>3. CASE Download
  <2>1. /\ up.pc = "stage" /\ UNCHANGED <<serving, status, request, chk>>
    BY <1>3 DEF Download
  <2>2. \/ lock' = "free" /\ up' = NoRun
        \/ UNCHANGED lock /\ up' = [up EXCEPT !.pc = "stage"]
        \/ UNCHANGED lock /\ up' = [up EXCEPT !.mode = "source", !.pc = "packages"]
    BY <1>3 DEF Download, ToSource
  <2>3. (lock' = "free" /\ up'.pc = "idle") \/ (UNCHANGED lock /\ up'.pc # "idle")
    <3>1. CASE lock' = "free" /\ up' = NoRun
      BY <3>1
    <3>2. CASE ~(lock' = "free" /\ up' = NoRun)
      BY <1>0, <2>2, <3>2
    <3> QED
      BY <3>1, <3>2
  <2>4. up.target \in Commit
    BY <2>1 DEF StatusInv, DeploymentInv, RunTypeOK
  <2>5. cache' \in [Commit -> Contents \cup {"partial"}]
    BY <1>0, <1>3, <2>4 DEF Download
  <2> QED
    BY <1>0, <2>1, <2>3, <2>5, RunKeepsTypes
<1>4. CASE Activate \/ NoteActivated \/ RefreshDeployment \/ RestartWeb \/ Health
  <2>1. /\ up.pc # "idle" /\ UNCHANGED <<cache, status, request, chk>> /\ serving' \in {serving, Launched}
        /\ UNCHANGED lock /\ up'.pc # "idle"
    BY <1>0, <1>4 DEF Activate, NoteActivated, RefreshDeployment, RestartWeb, Health
  <2> QED
    BY <1>0, <2>1, RunKeepsTypes
<1>5. CASE Prune
  <2>1. /\ up.pc = "prune" /\ UNCHANGED <<serving, status, request, chk, lock>> /\ up'.pc # "idle"
    BY <1>0, <1>5 DEF Prune
  <2>2. \A content : Removed(content) \in Contents \cup {"partial"}
    BY DEF Removed, Contents
  <2>3. cache' \in [Commit -> Contents \cup {"partial"}]
    BY <1>0, <1>5, <2>2 DEF Prune
  <2> QED
    BY <1>0, <2>1, <2>3, RunKeepsTypes
<1>6. CASE HandleError \/ RollbackCheckout \/ RollbackActivate \/ RollbackRestart
  <2>1. /\ up.pc # "idle" /\ UNCHANGED <<cache, status, request, chk>> /\ serving' \in {serving, Launched}
        /\ UNCHANGED lock /\ up'.pc # "idle"
    BY <1>0, <1>6 DEF HandleError, RollbackCheckout, RollbackActivate, RollbackRestart
  <2> QED
    BY <1>0, <2>1, RunKeepsTypes
<1> QED
  BY <1>1, <1>2, <1>3, <1>4, <1>5, <1>6 DEF Updater

\* An update takes the lock when it starts; a fault gives it back.
LEMMA StartsKeepTypes ==
  ASSUME StatusInv, DeploymentInv', UnitStarts \/ AdminStarts \/ Fault
  PROVE  StatusTypeOK' /\ LockOK'
<1>1. CASE UnitStarts \/ AdminStarts
  <2>1. /\ up.pc = "idle" /\ UNCHANGED <<cache, serving, status, chk, checkout>> /\ request' \in BOOLEAN
        /\ \/ lock = "probe" /\ UNCHANGED <<up, lock>>
           \/ lock # "probe" /\ lock' = "updater" /\ up'.pc = "begin"
    BY <1>1 DEF UnitStarts, AdminStarts, Start, StatusInv, StatusTypeOK
  <2> QED
    BY <2>1 DEF StatusInv, StatusTypeOK, LockOK
<1>2. CASE Kill \/ Signal
  <2>1. /\ up.pc # "idle" /\ UNCHANGED <<cache, serving, status, request, chk>>
        /\ (lock' = "free" /\ up'.pc = "idle") \/ (UNCHANGED lock /\ up'.pc # "idle")
    BY <1>2 DEF Kill, Signal, StatusInv, DeploymentInv, RunTypeOK
  <2> QED
    BY <2>1, RunKeepsTypes DEF StatusInv, StatusTypeOK
<1>3. CASE PowerLoss
  <2>1. /\ UNCHANGED <<cache, status, checkout, current>> /\ serving' = Launched /\ request' = FALSE
        /\ chk' = NoCheck /\ lock' = "free" /\ up' = NoRun
    BY <1>3 DEF PowerLoss
  <2>2. NoCheck \in Checks /\ NoCheck.pc = "idle"
    BY DEF NoCheck, Checks
  <2> QED
    BY <2>1, <2>2 DEF Launched, StatusInv, StatusTypeOK, LockOK, DeploymentInv, DiskTypeOK
<1> QED
  BY <1>1, <1>2, <1>3 DEF Fault

\* Every variable has its type, and the update lock and the run agree on who holds it: no
\* check takes it from a run, and none keeps it when it is over.
THEOREM LocksAndTypesHold == Spec => []TypeOK
<1>1. Init => StatusInv
  <2> SUFFICES ASSUME Init PROVE StatusInv
    OBVIOUS
  <2>1. StatusTypeOK /\ LockOK
    BY DEF Init, StatusTypeOK, LockOK, Statuses, Checks, NoCheck, Contents
  <2> QED
    BY <2>1, DeploymentInitOK DEF StatusInv
<1>2. StatusInv /\ DeploymentInv' /\ [Next]_vars => StatusInv'
  BY ChecksKeepTypes, UpdaterKeepsTypes, StartsKeepTypes DEF StatusInv, Next
<1>3. StatusInv => TypeOK
  <2> SUFFICES ASSUME StatusInv PROVE TypeOK
    OBVIOUS
  <2>1. (lock = "updater") = (up.pc # "idle") /\ (lock = "probe") = (chk.pc = "stale")
    BY DEF StatusInv, LockOK
  <2> QED
    BY <2>1 DEF StatusInv, StatusTypeOK, LockOK, DeploymentInv, DiskTypeOK, RunTypeOK, Statuses, Checks, TypeOK
<1> QED
  BY <1>1, <1>2, <1>3, DeploymentInvariant, PTL DEF Spec
=============================================================================
