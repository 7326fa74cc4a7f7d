----------------------------- MODULE Deployment -----------------------------
(***************************************************************************)
(* Updates of an appliance: the updater script (deploy/update.sh), which   *)
(* fetches a release through the deploy helper (release_artifact.rs),      *)
(* switches the checkout and the release pointer, restarts the dashboard   *)
(* and rolls back when something fails; the status file the updater, the   *)
(* six-hourly check (update_state.rs) and the dashboard (updates.rs)       *)
(* share; and the launcher, which starts the dashboard from the pointer.   *)
(*                                                                         *)
(* A commit has at most one published release; what can be wrong with it   *)
(* is its quality, "good" or the one check it does not pass.               *)
(***************************************************************************)
EXTENDS Naturals, FiniteSets

CONSTANTS
  Commit,    \* the commits main has had, or will have
  None,      \* no commit
  First,     \* the one installed when the model starts
  Later,     \* [Commit -> SUBSET Commit]: what main may move to
  Qualities, \* what CI may publish for a commit
  Modes,     \* LUMI_DEPLOY_MODE: binary, source, auto; offline: a cached commit
  Faults,    \* what may happen besides a command failing
  MaxRuns,   \* bound on the updater's runs
  MaxFaults  \* bound on the kinds of faults in one behaviour

ASSUME CommitAssumption == First \in Commit /\ None \notin Commit /\ Later \in [Commit -> SUBSET Commit]

VARIABLES
  published, \* [Commit -> what GitHub has of it]
  upstream,  \* the head of main
  release,   \* [Commit -> what releases/<commit> holds]
  cache,     \* [Commit -> what the verified download cache holds]
  checkout,  \* HEAD of the project directory
  current,   \* the commit the release pointer names
  serving,   \* the commit whose binary the dashboard runs, or None
  status,    \* the status file
  request,   \* the update unit has been asked for and has not started
  lock,      \* the update lock: free, held by the updater or by a check's probe
  up,        \* the updater's run
  chk,       \* the check that holds the check lock
  runs, seen \* runs so far; the kinds of faults that have happened

repo == <<published, upstream>>
disk == <<release, cache, checkout, current>>
control == <<status, request, chk>>
vars == <<repo, disk, serving, control, lock, up, runs, seen>>

NoRun == [pc |-> "idle", mode |-> "binary", target |-> None, previous |-> None,
          switched |-> FALSE, activated |-> FALSE, changed |-> FALSE]
NoCheck == [pc |-> "idle", by |-> "timer", installed |-> None]

-----------------------------------------------------------------------------
(* The deploy helper's checks, each refusing the release that fails it.    *)

ReleaseAssets(q) == q # "draft"
DownloadAsset(q) == q # "digest"
VerifyAttestation(q) == q # "provenance"
FirstPass(q) == q # "layout"
ExtractArchive(q) == FirstPass(q) /\ q # "truncated"
ValidateReleaseDir(q) == q \in {"good", "source", "runtime", "sidecar"}
CheckRuntime(q) == q # "runtime"

\* What a download and its verification end with.
DownloadVerifiedCache(q) ==
  CASE q = "none" -> "missing"
    [] q # "none" /\ ~( /\ ReleaseAssets(q) /\ DownloadAsset(q) /\ VerifyAttestation(q)
                        /\ ExtractArchive(q) /\ ValidateReleaseDir(q) /\ q # "sidecar")
         -> "verification"
    [] q = "runtime" /\ ~CheckRuntime(q) -> "unsupported"
    [] OTHER -> "verified"

\* A cache entry is used only when all of it is there.
VerifyCacheDir(c) == cache[c] \notin {"none", "partial"}
Whole(c) == ValidateReleaseDir(release[c])

\* The launcher starts the release the pointer names, if it is that of the checkout.
Launched == IF checkout = current /\ Whole(current) THEN current ELSE None

-----------------------------------------------------------------------------
Init ==
  /\ published = [c \in Commit |-> IF c = First THEN "good" ELSE "none"]
  /\ upstream = First
  /\ release = [c \in Commit |-> IF c = First THEN "good" ELSE "none"]
  /\ cache = release
  /\ checkout = First
  /\ current = First
  /\ serving = First
  /\ status = [install |-> "idle", installed |-> First, available |-> None, ready |-> TRUE]
  /\ request = FALSE
  /\ lock = "free"
  /\ up = NoRun
  /\ chk = NoCheck
  /\ runs = 0
  /\ seen = {}

\* main moves on, and CI publishes what it built for a commit, once.
Push == /\ upstream' \in Later[upstream]
        /\ UNCHANGED <<published, disk, serving, control, lock, up, runs, seen>>

Publish == /\ published[upstream] = "none"
           /\ \E q \in Qualities : published' = [published EXCEPT ![upstream] = q]
           /\ UNCHANGED <<upstream, disk, serving, control, lock, up, runs, seen>>

-----------------------------------------------------------------------------
(* The check for updates: the timer's (by the deploy helper) and the       *)
(* dashboard's. Both hold the check lock from the first read of the status *)
(* file to the last write; a second one finds the lock taken and leaves.   *)

UpdateIsRunning == IF status.install = "running" THEN "probe" ELSE "read"

CheckStarts(by) ==
  /\ chk.pc = "idle"
  /\ chk' = [NoCheck EXCEPT !.by = by, !.pc = UpdateIsRunning]
  /\ UNCHANGED <<repo, disk, serving, status, request, lock, up, runs, seen>>

\* An update seems to run: whether it does is asked of the update lock, which
\* the question itself takes for a moment.
CheckProbes ==
  /\ chk.pc = "probe"
  /\ IF lock = "free" THEN lock' = "probe" /\ chk' = [chk EXCEPT !.pc = "stale"]
                      ELSE lock' = lock /\ chk' = NoCheck
  /\ UNCHANGED <<repo, disk, serving, status, request, up, runs, seen>>

ProbeDropped == lock' = "free" /\ chk' = [chk EXCEPT !.pc = "mend"]

CheckIsAnswered ==
  /\ chk.pc = "stale"
  /\ ProbeDropped
  /\ UNCHANGED <<repo, disk, serving, status, request, up, runs, seen>>

CheckFindsStale ==
  /\ chk.pc = "mend"
  /\ status' = [status EXCEPT !.install = "failed"]
  /\ chk' = [chk EXCEPT !.pc = "read"]
  /\ UNCHANGED <<repo, disk, serving, request, lock, up, runs, seen>>

CheckReadsHead ==
  /\ chk.pc = "read"
  /\ chk' = [chk EXCEPT !.pc = "write", !.installed = checkout]
  /\ UNCHANGED <<repo, disk, serving, status, request, lock, up, runs, seen>>

\* The dashboard's check looks whether the release can be installed.
ReadReleaseStatus(c) == published[c] \notin {"none", "draft"}

\* The check's result, or nothing when GitHub could not be reached; only the
\* dashboard's check writes whether the release is ready.
CheckWrites ==
  /\ chk.pc = "write"
  /\ chk' = NoCheck
  /\ \/ LET available == IF upstream = chk.installed THEN None ELSE upstream
            ready == IF chk.by = "timer" THEN status.ready
                     ELSE available = None \/ ReadReleaseStatus(available)
        IN status' = [status EXCEPT !.installed = chk.installed, !.available = available, !.ready = ready]
     \/ status' = [status EXCEPT !.ready = @ /\ chk.by = "timer"]
  /\ UNCHANGED <<repo, disk, serving, request, lock, up, runs, seen>>

\* The dashboard's install request, answered from the status file alone.
Install ==
  /\ status.install # "running"
  /\ status.available # None
  /\ status.ready
  /\ request' = TRUE
  /\ UNCHANGED <<repo, disk, serving, status, chk, lock, up, runs, seen>>
-----------------------------------------------------------------------------
(* The updater. Each action is one command of the script: it succeeds and  *)
(* the script goes on (Then), it fails and the ERR trap takes over (Fail), *)
(* or the script says no and leaves without the trap (Leave).              *)

Then(pc) == up' = [up EXCEPT !.pc = pc] /\ lock' = lock
Fail == up' = [up EXCEPT !.pc = "failed"] /\ lock' = lock
Leave == up' = NoRun /\ lock' = "free"

\* The update unit starts, or an administrator's run; a check's probe that
\* holds the lock at that moment sends it away.
Start(mode) ==
  /\ up.pc = "idle"
  /\ runs < MaxRuns
  /\ runs' = runs + 1
  /\ IF lock = "probe" THEN UNCHANGED <<up, lock>>
     ELSE /\ lock' = "updater"
          /\ up' = [NoRun EXCEPT !.pc = "begin", !.mode = mode, !.previous = checkout]
  /\ UNCHANGED <<repo, disk, serving, status, chk, seen>>

UnitStarts == request /\ request' = FALSE /\ Start("binary")
AdminStarts == request' = request /\ \E mode \in Modes : Start(mode)

\* The status is recorded by the deploy helper under the check lock; that it
\* could not be is ignored.
Record(pc, s) ==
  /\ up.pc = pc
  /\ chk.pc = "idle"
  /\ \/ status' = s /\ seen' = seen
     \/ /\ "record" \in Faults /\ Cardinality(seen \cup {"record"}) <= MaxFaults
        /\ seen' = seen \cup {"record"}
        /\ status' = status
  /\ UNCHANGED <<repo, disk, serving, request, chk, runs>>

RecordStart == Record("begin", [status EXCEPT !.install = "running"]) /\ Then("preflight")

\* The release to go back to must be whole and the one that is active.
Preflight ==
  /\ up.pc = "preflight"
  /\ IF ~Whole(up.previous) THEN Fail
     ELSE IF current # up.previous THEN Leave ELSE Then("fetch")
  /\ UNCHANGED <<repo, disk, serving, control, runs, seen>>

Fetch ==
  /\ up.pc = "fetch"
  /\ \/ \E c \in Commit :
          /\ c = upstream \/ (up.mode = "offline" /\ cache[c] # "none")
          /\ up' = [up EXCEPT !.target = c, !.pc = IF up.mode = "source" THEN "packages" ELSE "stage"]
          /\ lock' = lock
     \/ Fail
  /\ UNCHANGED <<repo, disk, serving, control, runs, seen>>

MayFallBack(outcome) == up.mode = "auto" /\ outcome \in {"missing", "unsupported"}
ToSource == up' = [up EXCEPT !.mode = "source", !.pc = "packages"] /\ lock' = lock

\* The helper puts the download into the cache in one rename, when every check
\* has passed; a temporary directory that is left behind is never looked at.
Download ==
  /\ up.pc = "stage" /\ cache[up.target] = "none"
  /\ LET outcome == IF up.mode = "offline" THEN "missing" ELSE DownloadVerifiedCache(published[up.target])
     IN /\ IF outcome = "verified" THEN Then("stage") ELSE IF MayFallBack(outcome) THEN ToSource ELSE Leave
        /\ cache' = IF outcome = "verified" THEN [cache EXCEPT ![up.target] = published[up.target]] ELSE cache
  /\ UNCHANGED <<repo, release, checkout, current, serving, control, runs, seen>>

\* The network fails halfway, the unpacking runs out of space: the script leaves.
StageFails ==
  /\ up.pc = "stage"
  /\ Leave
  /\ UNCHANGED <<repo, disk, serving, control, runs, seen>>

\* The cached archive is unpacked beside the releases, checked again and
\* renamed into place; a release that is there already must be the same one.
InstallRelease ==
  /\ up.pc = "stage" /\ cache[up.target] # "none"
  /\ IF /\ VerifyCacheDir(up.target)
        /\ release[up.target] \in {"none", cache[up.target]}
     THEN release' = [release EXCEPT ![up.target] = cache[up.target]] /\ Then("packages")
     ELSE release' = release /\ Leave
  /\ UNCHANGED <<repo, cache, checkout, current, serving, control, runs, seen>>

Packages ==
  /\ up.pc = "packages"
  /\ Then("switch") \/ Fail
  /\ UNCHANGED <<repo, disk, serving, control, runs, seen>>

\* The checkout is switched, and then the script notes that it was.
Switch ==
  /\ up.pc = "switch"
  /\ \/ checkout' = up.target /\ Then("switched")
     \/ checkout' = checkout /\ Fail
  /\ UNCHANGED <<repo, release, cache, current, serving, control, runs, seen>>

NoteSwitched ==
  /\ up.pc = "switched"
  /\ up' = [up EXCEPT !.switched = TRUE,
              !.pc = IF up.mode # "source" THEN "activate"
                     ELSE IF up.target = up.previous THEN "configure" ELSE "build"]
  /\ UNCHANGED <<repo, disk, serving, control, lock, runs, seen>>

\* A source build is sealed in a stage and renamed into place; a release that
\* is there already is reused if it was built from source too.
Build ==
  /\ up.pc = "build"
  /\ \/ /\ release[up.target] \in {"none", "source"}
        /\ release' = [release EXCEPT ![up.target] = "source"]
        /\ Then("activate")
     \/ release' = release /\ Fail
  /\ UNCHANGED <<repo, cache, checkout, current, serving, control, runs, seen>>

\* The pointer is replaced in one rename.
Activate ==
  /\ up.pc = "activate"
  /\ IF Whole(up.target) THEN current' = up.target /\ Then("activated")
                         ELSE current' = current /\ Fail
  /\ UNCHANGED <<repo, release, cache, checkout, serving, control, runs, seen>>

NoteActivated ==
  /\ up.pc = "activated"
  /\ up' = [up EXCEPT !.activated = TRUE, !.changed = up.target # up.previous, !.pc = "configure"]
  /\ UNCHANGED <<repo, disk, serving, control, lock, runs, seen>>

\* The dashboard is restarted for a new release or a changed unit.
UnitOnly(unit) == unit
RestartNeeded(unit) == up.changed \/ unit

\* Soloist, units, Nginx and PipeWire configuration; a unit may have changed.
RefreshDeployment ==
  /\ up.pc = "configure"
  /\ \/ \E unit \in BOOLEAN : up' = [up EXCEPT !.pc = "restart", !.changed = RestartNeeded(unit)] /\ lock' = lock
     \/ Fail
  /\ UNCHANGED <<repo, disk, serving, control, runs, seen>>

\* The dashboard is restarted when it changed or is down, and must then be up.
RestartWeb ==
  /\ up.pc = "restart"
  /\ serving' = IF up.changed \/ serving = None THEN Launched ELSE serving
  /\ IF serving' = None THEN Fail ELSE Then("health") \/ Fail
  /\ UNCHANGED <<repo, disk, control, runs, seen>>

Health ==
  /\ up.pc = "health"
  /\ (serving # None /\ Then("prune")) \/ Fail
  /\ UNCHANGED <<repo, disk, serving, control, runs, seen>>

\* Releases, then cached downloads, of neither the active nor the previous
\* commit are removed, file by file; what cannot be removed stays.
ActiveOnly == {checkout}
Kept == {checkout, up.previous}

Removed(content) == IF content = "partial" THEN "none" ELSE "partial"

Prune ==
  /\ up.pc = "prune"
  /\ \/ \E c \in Commit \ Kept :
          \/ /\ release[c] # "none"
             /\ release' = [release EXCEPT ![c] = Removed(@)]
             /\ UNCHANGED <<cache, up>>
          \/ /\ cache[c] # "none"
             /\ cache' = [cache EXCEPT ![c] = Removed(@)]
             /\ UNCHANGED <<release, up>>
     \/ up' = [up EXCEPT !.pc = "succeed"] /\ UNCHANGED <<release, cache>>
  /\ UNCHANGED <<repo, checkout, current, serving, control, lock, runs, seen>>

RecordSuccess ==
  /\ Record("succeed", [status EXCEPT !.install = "success", !.installed = checkout, !.available = None])
  /\ Leave
-----------------------------------------------------------------------------
(* The error trap: it resets the traps, rolls back what the script noted   *)
(* it had changed, and records the failure.                                *)

RollsBackActivated ==
  /\ up.pc = "failed"
  /\ Then(IF up.activated THEN "back" ELSE "record")
  /\ UNCHANGED <<repo, disk, serving, control, runs, seen>>

HandleError ==
  /\ up.pc = "failed"
  /\ Then(IF up.switched THEN "back" ELSE IF up.activated THEN "reactivate" ELSE "record")
  /\ UNCHANGED <<repo, disk, serving, control, runs, seen>>

\* A command of the rollback may fail; it asks for manual recovery then.
MayFail == /\ "rollback" \in Faults /\ Cardinality(seen \cup {"rollback"}) <= MaxFaults
           /\ seen' = seen \cup {"rollback"}

RollbackCheckout ==
  /\ up.pc = "back"
  /\ \/ checkout' = up.previous /\ Then("reactivate") /\ seen' = seen
     \/ MayFail /\ checkout' = checkout /\ Then("record")
  /\ UNCHANGED <<repo, release, cache, current, serving, control, runs>>

RollbackActivate ==
  /\ up.pc = "reactivate"
  /\ \/ /\ current' = IF Whole(up.previous) THEN up.previous ELSE current
        /\ seen' = seen
     \/ MayFail /\ current' = current
  /\ Then("recover")
  /\ UNCHANGED <<repo, release, cache, checkout, serving, control, runs>>

RollbackRestart ==
  /\ up.pc = "recover"
  /\ \/ serving' = Launched /\ seen' = seen
     \/ MayFail /\ serving' = serving
  /\ Then("record")
  /\ UNCHANGED <<repo, disk, control, runs>>

RecordFailed == Record("record", [status EXCEPT !.install = "failed"]) /\ Leave

-----------------------------------------------------------------------------
(* Signals, kills and power losses; the dashboard restarting by itself.    *)

Rollback == {"failed", "back", "reactivate", "recover", "record"}

\* INT, TERM or HUP: bash runs the trap after the command in progress; the
\* traps are reset once the handler runs, and the signal then ends the script.
Signal ==
  /\ up.pc # "idle"
  /\ IF up.pc \in Rollback \ {"failed"} THEN seen' = seen \cup {"kill"} /\ Leave
     ELSE /\ up.pc # "failed"
          /\ seen' = IF up.pc = "switched" THEN seen \cup {"window"} ELSE seen
          /\ Fail
  /\ UNCHANGED <<repo, disk, serving, control, runs>>

\* The updater is killed outright: nothing is trapped.
Kill ==
  /\ up.pc # "idle"
  /\ seen' = seen \cup {"kill"}
  /\ Leave
  /\ UNCHANGED <<repo, disk, serving, control, runs>>

\* The appliance loses power: what was renamed into place is on the disk, every
\* process is gone, and the launcher runs when it is back. Once, as a bound.
PowerLoss ==
  /\ "power" \notin seen
  /\ seen' = seen \cup {"power"}
  /\ Leave
  /\ chk' = NoCheck
  /\ request' = FALSE
  /\ serving' = Launched
  /\ UNCHANGED <<repo, disk, status, runs>>

\* The dashboard ends (an engine worker failed) and systemd starts it again.
WebRestarts ==
  /\ serving' = Launched
  /\ UNCHANGED <<repo, disk, control, lock, up, runs, seen>>

Fault == /\ \/ "signal" \in Faults /\ Signal
            \/ "kill" \in Faults /\ Kill
            \/ "power" \in Faults /\ PowerLoss
         /\ Cardinality(seen') <= MaxFaults

Check == CheckProbes \/ CheckIsAnswered \/ CheckFindsStale \/ CheckReadsHead \/ CheckWrites

Updater ==
  \/ RecordStart \/ Preflight \/ Fetch \/ Download \/ StageFails \/ InstallRelease \/ Packages
  \/ Switch \/ NoteSwitched \/ Build \/ Activate \/ NoteActivated \/ RefreshDeployment
  \/ RestartWeb \/ Health \/ Prune \/ RecordSuccess
  \/ HandleError \/ RollbackCheckout \/ RollbackActivate \/ RollbackRestart \/ RecordFailed

Next ==
  \/ Push \/ Publish \/ Install \/ UnitStarts \/ AdminStarts \/ WebRestarts \/ Fault
  \/ Updater \/ Check
  \/ \E by \in {"timer", "web"} : CheckStarts(by)

\* The timer starts a check again and again, and a check or a run that has
\* started goes on: its commands have deadlines.
Fairness == WF_vars(CheckStarts("timer")) /\ WF_vars(Check) /\ WF_vars(Updater)

Spec == Init /\ [][Next]_vars /\ Fairness
-----------------------------------------------------------------------------
(* Properties.                                                             *)

Contents == Qualities \cup {"none", "good"}
UpdaterAt == {"idle", "begin", "preflight", "fetch", "stage", "packages", "switch", "switched", "build",
              "activate", "activated", "configure", "restart", "health", "prune", "succeed"} \cup Rollback

\* Every variable has its type: releases and caches hold what was published,
\* built or partly removed, and the lock and the run agree on who holds it.
TypeOK ==
  /\ published \in [Commit -> Contents]
  /\ upstream \in Commit
  /\ release \in [Commit -> Contents \cup {"source", "partial"}]
  /\ cache \in [Commit -> Contents \cup {"partial"}]
  /\ checkout \in Commit /\ current \in Commit /\ serving \in Commit \cup {None}
  /\ status \in [install : {"idle", "running", "success", "failed"}, installed : Commit,
                 available : Commit \cup {None}, ready : BOOLEAN]
  /\ request \in BOOLEAN
  /\ lock \in {"free", "updater", "probe"}
  /\ (lock = "updater") = (up.pc # "idle")
  /\ (lock = "probe") = (chk.pc = "stale")
  /\ up \in [pc : UpdaterAt, mode : Modes \cup {"binary", "source"}, target : Commit \cup {None},
             previous : Commit \cup {None}, switched : BOOLEAN, activated : BOOLEAN, changed : BOOLEAN]
  /\ chk \in [pc : {"idle", "probe", "stale", "mend", "read", "write"}, by : {"timer", "web"},
              installed : Commit \cup {None}]

\* However an update ends by itself (done, refused, failed at any command, or
\* interrupted by a signal the trap handles), the checkout, the release pointer
\* and the release the dashboard runs are the same: update.sh's trap and
\* rollback, together with the launcher, which starts nothing else. Excepted
\* are an updater that was killed, a power loss, a rollback command that failed
\* and a signal in the moment before the switch is noted.
EndsTogether ==
  up.pc = "idle" /\ seen \cap {"kill", "power", "rollback", "window"} = {}
    => checkout = current /\ serving = current

\* An update that is recorded as successful left the dashboard running the
\* release that is installed, power losses and interrupted updates before it
\* included: what update.sh decides not to restart is what is active. Excepted is
\* an update after one that was killed, or whose rollback failed: it finds the
\* pointer where it should be and leaves the older binary running.
SuccessIsServed ==
  [][ up.pc = "succeed" /\ up'.pc = "idle" /\ status'.install = "success" /\ seen \cap {"kill", "rollback"} = {}
        => serving' = current' /\ checkout' = current' ]_vars

\* An update that stopped without a word (the script left without its trap,
\* was killed, lost power) does not stay "running" in the status file, where it
\* keeps the dashboard from installing anything: a check finds it out.
StaleRunningHeals ==
  (status.install = "running" /\ up.pc = "idle") ~> (status.install # "running" \/ up.pc # "idle")

Fallback == IF up.pc \in {"idle", "begin", "preflight"} \/ (up.pc \in Rollback /\ ~up.switched)
            THEN {} ELSE {up.previous}

Promise == INSTANCE ReleasePromise WITH active <- current, fallback <- Fallback, whole <- {c \in Commit : Whole(c)}

\* The updater keeps its promise: through downloads, builds, activations,
\* rollbacks, cleanups, kills and power losses the pointer names a whole
\* release, and the release to go back to is there until the update is over.
ImplementsPromise == Promise!Spec

\* What the status file says is true in the end: a recorded success is what is served,
\* and an update that runs no more is not shown as running for ever.
StatusIsTrue == []TypeOK /\ SuccessIsServed /\ StaleRunningHeals
=============================================================================
