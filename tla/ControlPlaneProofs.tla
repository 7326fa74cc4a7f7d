-------------------------- MODULE ControlPlaneProofs --------------------------
(***************************************************************************)
(* SettingsKept, TopologySurvivesCallers and EngineAgrees, for every set   *)
(* of topologies, looks and corrections and for every bound on commands,   *)
(* faults and deadlines.                                                   *)
(***************************************************************************)
EXTENDS ControlPlane, TLAPS

\* The settings a model goes back to when its session ends without saving.
Saved(m) == IF m.session = NoSession
              THEN m.settings
              ELSE [m.settings EXCEPT !.colors = m.session.original]

\* What a stage says of the command that is there.
PlacesOK ==
  /\ stage \notin {"idle", "dead"} => (stage = "expire" <=> work.kind = "expire")
  /\ stage \in {"configure", "restoreConfigure"} => work.reconfigure
  /\ stage \notin {"idle", "dead"} /\ work.reconfigure => work.kind \in Transactions

\* The awaited request is the last one sent; the engine has no reason of its
\* own to refuse a configuration.
ConfigureStages == {"configure", "restoreConfigure"}
AwaitOK ==
  /\ Awaiting /\ answer = None =>
       /\ requests # <<>>
       /\ stage \in ConfigureStages => requests[Len(requests)].kind = "configure"
  /\ Awaiting /\ answer # None => requests = <<>>
  /\ stage \in ConfigureStages /\ answer = "refused" => faults > 0

\* Sessions apart, the model holds what is saved, and a candidate holds what
\* will be saved when it is committed.
SavedOK ==
  /\ Saved(model) = store.memory
  /\ stage \notin {"idle", "dead"} =>
       /\ work.kind \in {"look", "calibration", "expire"} =>
            Saved(work.candidate) = store.memory
       /\ work.kind \in Saves =>
            Saved(work.candidate) = Persisted(work.candidate, work.kind)
  /\ store.file # store.memory => lastSave = "failed"

IInv == TypeOK /\ PlacesOK /\ AwaitOK /\ SavedOK /\ TopologySurvivesCallers

-----------------------------------------------------------------------------

USE DEF None, NoWork, Transactions, Saves, Finishes, Awaiting, ConfigureStages

\* The initial settings, the absent session and the dark scene are of their types.
LEMMA DefaultsOK ==
  /\ InitialSettings \in Settings /\ NoSession \in Sessions /\ NoScene \in Scenes
BY ControlPlaneAssumption
   DEF InitialSettings, Settings, NoSession, Sessions, NoScene, Scenes

\* What a model shows is a scene.
LEMMA SceneOK ==
  ASSUME NEW m \in Models
  PROVE  SceneOf(m) \in Scenes
BY ControlPlaneAssumption DEF SceneOf, Scenes, Models, Settings, Sessions, NoSession

\* A configuration of a topology and an update to a model are requests.
LEMMA RequestOK ==
  /\ \A t \in Topologies : Configure(t) \in Requests
  /\ \A m \in Models, r \in Nat : Update(m, r) \in Requests
<1>1. \A t \in Topologies : Configure(t) \in Requests
  BY DefaultsOK DEF Configure, Requests
<1>2. \A m \in Models, r \in Nat : Update(m, r) \in Requests
  BY SceneOK DEF Update, Requests
<1> QED BY <1>1, <1>2

\* The invariant holds when the dashboard has started.
LEMMA InitOK == Init => IInv
<1> SUFFICES ASSUME Init PROVE IInv
  OBVIOUS
<1>1. model \in Models /\ model.session = NoSession /\ model.settings = InitialSettings
  BY DefaultsOK, ControlPlaneAssumption DEF Init, Models
<1>2. engine.scene \in Scenes /\ engine \in [topology : Topologies \union {"none"},
                                            scene : Scenes, revision : Nat]
  BY <1>1, SceneOK, ControlPlaneAssumption DEF Init
<1>3. store \in [file : Settings, memory : Settings]
  BY DefaultsOK DEF Init
<1>4. TypeOK
  BY <1>1, <1>2, <1>3, ControlPlaneAssumption DEF TypeOK, Init
<1>5. SavedOK
  BY <1>1 DEF SavedOK, Saved, Init
<1> QED
  BY <1>4, <1>5 DEF IInv, PlacesOK, AwaitOK, TopologySurvivesCallers, Init

-----------------------------------------------------------------------------
(* The engine: it answers requests and changes nothing else that counts.   *)

\* The engine's answer reaches the worker only for the last request sent; the
\* answer to an abandoned request reaches nobody.
LEMMA ReplyOK ==
  ASSUME TypeOK, requests # <<>>, NEW a \in {"accepted", "refused"}, Reply(a)
  PROVE  /\ requests' \in Seq(Requests) /\ answer' \in {"none", "accepted", "refused"}
         /\ Awaiting /\ answer' = "none" =>
              /\ answer = "none" /\ requests' # <<>>
              /\ requests'[Len(requests')] = requests[Len(requests)]
         /\ answer' # answer =>
              Len(requests) = 1 /\ requests' = <<>> /\ answer' = a /\ Awaiting
<1>1. requests \in Seq(Requests) /\ requests' = Tail(requests)
  BY DEF TypeOK, Reply
<1>2. requests' \in Seq(Requests)
  BY <1>1
<1>3. answer' = IF Awaiting /\ Len(requests) = 1 THEN a ELSE answer
  BY DEF Reply
<1>4. Len(requests) # 1 => requests' # <<>> /\ requests'[Len(requests')] = requests[Len(requests)]
  <2>1. /\ Len(requests) \in Nat \ {0} /\ Len(requests') = Len(requests) - 1
        /\ \A i \in 1..(Len(requests) - 1) : requests'[i] = requests[i + 1]
    BY <1>1
  <2> SUFFICES ASSUME Len(requests) # 1
               PROVE  /\ requests' # <<>>
                      /\ requests'[Len(requests')] = requests[Len(requests)]
    OBVIOUS
  <2>2. Len(requests) - 1 \in 1..(Len(requests) - 1) /\ Len(requests) - 1 + 1 = Len(requests)
    BY <2>1
  <2>3. requests'[Len(requests) - 1] = requests[Len(requests) - 1 + 1]
    BY <2>1, <2>2
  <2>4. Len(requests') # 0
    BY <2>1, <2>2
  <2> QED
    BY <2>1, <2>2, <2>3, <2>4
<1>5. Len(requests) = 1 => requests' = <<>>
  BY <1>1
<1> QED
  BY <1>2, <1>3, <1>4, <1>5 DEF TypeOK

\* The request the engine executes next is a request.
LEMMA HeadOK ==
  ASSUME TypeOK, requests # <<>>
  PROVE  Head(requests) \in Requests
BY DEF TypeOK

\* The engine keeps the invariant: what it refuses to configure costs a fault.
LEMMA EngineStep ==
  ASSUME IInv, Engine
  PROVE  IInv'
<1> USE DEF IInv
<1>1. requests # <<>>
  BY DEF Engine, ExecuteConfigure, ConfigureFails, ExecuteScene, Busy
<1>2. UNCHANGED <<model, store, stage, work, torn, commands, late, lastSave>>
  BY DEF Engine, ExecuteConfigure, ConfigureFails, ExecuteScene, Busy
<1>3. faults' \in 0..MaxFaults /\ faults' >= faults
  BY ControlPlaneAssumption
     DEF Engine, ExecuteConfigure, ConfigureFails, ExecuteScene, Busy, TypeOK
<1>4. PICK a \in {"accepted", "refused"} : Reply(a)
  BY DEF Engine, ExecuteConfigure, ConfigureFails, ExecuteScene, Busy
<1>5. Head(requests) \in Requests
  BY HeadOK, <1>1
<1>6. engine' \in [topology : Topologies \union {"none"}, scene : Scenes, revision : Nat]
  <2>1. \A t \in Topologies \union {"none"} :
          Unconfigured(t) \in [topology : Topologies \union {"none"},
                               scene : Scenes, revision : Nat]
    BY DefaultsOK DEF Unconfigured
  <2>2. CASE ExecuteConfigure
    BY <1>5, <2>1, <2>2 DEF ExecuteConfigure, Requests
  <2>3. CASE ConfigureFails
    BY <1>5, <2>1, <2>3 DEF ConfigureFails, Requests
  <2>4. CASE ExecuteScene
    BY <1>5, <2>4 DEF ExecuteScene, Requests, TypeOK
  <2>5. CASE Busy
    BY <2>5 DEF Busy, TypeOK
  <2> QED
    BY <2>2, <2>3, <2>4, <2>5 DEF Engine
<1>7. TypeOK'
  BY <1>1, <1>2, <1>3, <1>4, <1>6, ReplyOK DEF TypeOK, Works
<1>8. AwaitOK'
  <2>1. Awaiting' = Awaiting
    BY <1>2
  <2>2. (Awaiting /\ answer = "none" =>
           /\ requests # <<>>
           /\ stage \in ConfigureStages => requests[Len(requests)].kind = "configure")'
    BY <1>1, <1>2, <1>4, <2>1, ReplyOK DEF AwaitOK
  <2>3. (Awaiting /\ answer # "none" => requests = <<>>)'
    BY <1>1, <1>4, <2>1, ReplyOK DEF AwaitOK
  <2>4. (stage \in ConfigureStages /\ answer = "refused" => faults > 0)'
    <3> SUFFICES ASSUME stage \in ConfigureStages, answer' = "refused"
                 PROVE  faults' > 0
      BY <1>2
    <3>1. Awaiting /\ answer = "none"
      BY <1>1 DEF AwaitOK
    <3>2. Len(requests) = 1 /\ Head(requests).kind = "configure"
      <4>1. Len(requests) = 1 /\ requests[Len(requests)].kind = "configure"
        BY <1>1, <1>4, <3>1, ReplyOK DEF AwaitOK
      <4> QED
        BY <4>1 DEF TypeOK
    <3>3. ~ExecuteScene /\ ~ExecuteConfigure
      BY <3>2 DEF ExecuteScene, ExecuteConfigure, Reply
    <3>4. faults' = faults + 1
      BY <3>3 DEF Engine, ConfigureFails, Busy
    <3> QED
      BY <3>4 DEF TypeOK
  <2> QED
    BY <2>2, <2>3, <2>4 DEF AwaitOK
<1>9. PlacesOK' /\ SavedOK'
  BY <1>2 DEF PlacesOK, SavedOK, Persisted, Saved
<1>10. TopologySurvivesCallers'
  BY <1>2, <1>3 DEF TopologySurvivesCallers, TypeOK
<1> QED
  BY <1>7, <1>8, <1>9, <1>10

-----------------------------------------------------------------------------
(* Commands: the candidate already holds what committing it will save.     *)

\* A request that was sent is the last one, and its answer is still to come.
LEMMA SendOK ==
  ASSUME TypeOK, NEW r \in Requests, Send(r)
  PROVE  /\ requests' \in Seq(Requests) /\ requests' # <<>> /\ answer' = "none"
         /\ requests'[Len(requests')] = r
BY DEF TypeOK, Send

\* The revision of a model has no part in what is saved.
Revised(m, r) == [m EXCEPT !.revision = r]

\* A model with another revision is a model with the same settings and session.
LEMMA RevisedOK ==
  ASSUME NEW m \in Models, NEW r \in Nat
  PROVE  /\ Revised(m, r) \in Models /\ Revised(m, r).revision = r
         /\ Revised(m, r).settings = m.settings /\ Revised(m, r).session = m.session
         /\ Saved(Revised(m, r)) = Saved(m)
         /\ \A kind : Persisted(Revised(m, r), kind) = Persisted(m, kind)
<1>1. /\ Revised(m, r) \in Models /\ Revised(m, r).revision = r
      /\ Revised(m, r).settings = m.settings /\ Revised(m, r).session = m.session
  BY DEF Revised, Models
<1> QED
  BY <1>1 DEF Saved, Persisted

\* What a command leaves alone stays right.
LEMMA TakeOK ==
  ASSUME IInv, Take
  PROVE  /\ TopologySurvivesCallers' /\ Saved(model') = store'.memory
         /\ store'.file # store'.memory => lastSave' = "failed"
         /\ model' \in Models /\ NextRevision \in Nat
         /\ commands' \in 0..MaxCommands
BY SMTT(30), ControlPlaneAssumption
   DEF IInv, Take, TypeOK, TopologySurvivesCallers, SavedOK, Saved, NextRevision, Models

\* A command that renders its candidate keeps the invariant, if the candidate
\* holds what committing it will save.
LEMMA RenderOK ==
  ASSUME IInv, Take,
         NEW kind \in {"look", "remembered", "calibration", "corrected"},
         NEW c \in Models, Render(kind, c),
         kind \in {"look", "calibration"} => Saved(c) = store.memory,
         kind \in Saves => Saved(c) = Persisted(c, kind)
  PROVE  IInv'
<1> PICK d : d = Revised(c, NextRevision)
  OBVIOUS
<1>1. TypeOK /\ model \in Models /\ NextRevision \in Nat
  BY TakeOK DEF IInv, TypeOK
<1>2. d \in Models /\ Saved(d) = Saved(c) /\ Persisted(d, kind) = Persisted(c, kind)
  BY <1>1, RevisedOK
<1>3. /\ work' = [kind |-> kind, candidate |-> d, reconfigure |-> FALSE]
      /\ stage' = "scene" /\ Send(Update(d, NextRevision))
  BY DEF Render, Revised
<1>4. Update(d, NextRevision) \in Requests
  BY <1>1, <1>2, RequestOK
<1>5. /\ requests' \in Seq(Requests) /\ requests' # <<>> /\ answer' = "none"
  BY <1>1, <1>3, <1>4, SendOK
<1>6. work' \in Works
  BY <1>2, <1>3 DEF Works
<1>7. TypeOK'
  BY <1>1, <1>3, <1>5, <1>6, TakeOK DEF TypeOK, Take
<1>8. PlacesOK' /\ AwaitOK'
  BY <1>3, <1>5 DEF PlacesOK, AwaitOK
<1>9. SavedOK'
  <2>1. /\ kind \in {"look", "calibration"} => Saved(d) = store'.memory
        /\ kind \in Saves => Saved(d) = Persisted(d, kind)'
    BY <1>2 DEF Take, Persisted
  <2>2. work'.kind = kind /\ work'.candidate = d
    BY <1>3
  <2> QED
    BY <2>1, <2>2, TakeOK DEF SavedOK, Saved, Persisted
<1> QED
  BY <1>7, <1>8, <1>9, TakeOK DEF IInv

\* A topology change or a test keeps the invariant, whether it reconfigures the
\* engine or not.
LEMMA ReconfigureOK ==
  ASSUME IInv, Take, NEW kind \in {"topology", "test"}, NEW t \in Topologies,
         NEW c \in Models, Reconfigure(kind, t, c),
         kind = "topology" => c = model
  PROVE  IInv'
<1> PICK d : d = [c EXCEPT !.revision = NextRevision, !.settings.topology = t]
  OBVIOUS
<1> DEFINE changed == t # model.settings.topology
<1>1. TypeOK /\ model \in Models /\ NextRevision \in Nat
  BY TakeOK DEF IInv, TypeOK
<1>2. /\ d \in Models /\ d.session = c.session
      /\ d.settings = [c.settings EXCEPT !.topology = t]
  BY <1>1 DEF Models, Settings
<1>3. /\ work' = [kind |-> kind, candidate |-> d, reconfigure |-> changed]
      /\ stage' = IF changed THEN "configure" ELSE "scene"
      /\ Send(IF changed THEN Configure(t) ELSE Update(d, NextRevision))
  BY DEF Reconfigure
<1>4. /\ Configure(t) \in Requests /\ Configure(t).kind = "configure"
      /\ Update(d, NextRevision) \in Requests
  BY <1>1, <1>2, RequestOK DEF Configure
<1>5. /\ requests' \in Seq(Requests) /\ requests' # <<>> /\ answer' = "none"
      /\ changed => requests'[Len(requests')].kind = "configure"
  BY <1>1, <1>3, <1>4, SendOK
<1>6. work' \in Works
  BY <1>2, <1>3 DEF Works
<1>7. TypeOK'
  BY <1>1, <1>3, <1>5, <1>6, TakeOK DEF TypeOK, Take
<1>8. PlacesOK' /\ AwaitOK'
  BY <1>3, <1>5 DEF PlacesOK, AwaitOK
<1>9. SavedOK'
  <2>1. kind = "topology" => Saved(d) = [store.memory EXCEPT !.topology = t]
    <3> SUFFICES ASSUME kind = "topology"
                 PROVE  Saved(d) = [store.memory EXCEPT !.topology = t]
      OBVIOUS
    <3>1. Saved(model) = store.memory
      BY DEF IInv, SavedOK
    <3>2. /\ d.session = model.session /\ model.settings \in Settings
          /\ d.settings = [model.settings EXCEPT !.topology = t]
      BY <1>1, <1>2 DEF Models
    <3>3. CASE model.session = NoSession
      BY <3>1, <3>2, <3>3 DEF Saved
    <3>4. CASE model.session # NoSession
      <4>1. Saved(d) = [[model.settings EXCEPT !.topology = t]
                          EXCEPT !.colors = model.session.original]
        BY <3>2, <3>4 DEF Saved
      <4>2. store.memory = [model.settings EXCEPT !.colors = model.session.original]
        BY <3>1, <3>4 DEF Saved
      <4> QED
        BY <3>2, <4>1, <4>2 DEF Settings
    <3> QED
      BY <3>3, <3>4
  <2>2. d.settings.topology = t
    BY <1>2 DEF Models, Settings
  <2>3. kind = "topology" => Saved(d) = Persisted(d, kind)
    BY <2>1, <2>2 DEF Persisted
  <2>4. work'.kind = kind /\ work'.candidate = d
    BY <1>3
  <2> QED
    BY <2>3, <2>4, TakeOK DEF SavedOK, Saved, Persisted, Take
<1> QED
  BY <1>7, <1>8, <1>9, TakeOK DEF IInv

\* Every command keeps the invariant.
LEMMA CommandStep ==
  ASSUME IInv, Command
  PROVE  IInv'
<1>1. model \in Models /\ Saved(model) = store.memory /\ store.memory \in Settings
  BY DEF IInv, TypeOK, SavedOK
<1>2. ASSUME NEW l \in Looks, NEW remember \in BOOLEAN, SetLook(l, remember)
      PROVE  IInv'
  <2> DEFINE c == [model EXCEPT !.look = l,
                                !.settings.playback = IF remember THEN l ELSE @]
             kind == IF remember THEN "remembered" ELSE "look"
  <2>1. /\ Take /\ Render(kind, c) /\ model.session = NoSession
    BY <1>2 DEF SetLook, InSession
  <2>2. /\ c \in Models /\ c.session = NoSession
        /\ c.settings = [model.settings EXCEPT !.playback = IF remember THEN l ELSE @]
    BY <1>1, <2>1 DEF Models, Settings
  <2>3. model.settings = store.memory
    BY <1>1, <2>1 DEF Saved
  <2>4. ~remember => Saved(c) = store.memory
    BY <1>1, <2>2, <2>3 DEF Saved, Settings
  <2>5. remember => Saved(c) = Persisted(c, "remembered")
    BY <1>1, <2>2, <2>3 DEF Saved, Settings, Persisted
  <2> QED
    BY <2>1, <2>2, <2>4, <2>5, RenderOK
<1>3. ASSUME NEW t \in Topologies, SetStripeTopology(t)
      PROVE  IInv'
  BY <1>1, <1>3, ReconfigureOK DEF SetStripeTopology
<1>4. ASSUME NEW t \in Topologies, TestStripe(t)
      PROVE  IInv'
  <2>1. [model EXCEPT !.look = "test", !.settings.colors = Default] \in Models
    BY <1>1, ControlPlaneAssumption DEF Models, Settings
  <2> QED
    BY <1>4, <2>1, ReconfigureOK DEF TestStripe
<1>5. ASSUME NEW output \in 1..2, StartCalibration(output)
      PROVE  IInv'
  <2> DEFINE c == [model EXCEPT !.session = [output |-> output, stale |-> FALSE,
                                             original |-> model.settings.colors]]
  <2>1. Take /\ Render("calibration", c) /\ model.session = NoSession
    BY <1>5 DEF StartCalibration, InSession
  <2>2. /\ c \in Models /\ c.settings = model.settings
        /\ c.session # NoSession /\ c.session.original = model.settings.colors
    <3> DEFINE s == [output |-> output, stale |-> FALSE,
                     original |-> model.settings.colors]
    <3>1. model.settings.colors \in Colors
      BY <1>1 DEF Models, Settings
    <3>2. s \in Sessions /\ s.original = model.settings.colors
      BY <3>1 DEF Sessions
    <3>3. s # NoSession
      <4>1. s.output # NoSession.output
        BY DEF NoSession
      <4> QED
        BY <4>1
    <3> HIDE DEF s
    <3>4. [model EXCEPT !.session = s].session = s
      BY <1>1 DEF Models
    <3> QED
      BY <1>1, <3>2, <3>3, <3>4 DEF Models, s
  <2>3. Saved(c) = store.memory
    BY <1>1, <2>1, <2>2 DEF Saved, Settings
  <2> QED
    BY <2>1, <2>2, <2>3, RenderOK
<1>6. ASSUME NEW c \in Colors, UpdateCalibration(c)
      PROVE  IInv'
  <2> DEFINE d == [model EXCEPT !.settings.colors = c]
  <2>1. Take /\ model.session # NoSession
    BY <1>6 DEF UpdateCalibration, InSession
  <2>2. /\ d \in Models /\ d.session = model.session
        /\ d.settings = [model.settings EXCEPT !.colors = c]
    BY <1>1 DEF Models, Settings
  <2>3. Saved(d) = store.memory
    BY <1>1, <2>1, <2>2 DEF Saved, Models, Settings
  <2>4. CASE Render("calibration", d)
    BY <2>1, <2>2, <2>3, <2>4, RenderOK
  <2>5. CASE stage' = "dead" /\ UNCHANGED <<requests, answer, work>>
    BY <2>1, <2>5, TakeOK
       DEF IInv, TypeOK, PlacesOK, AwaitOK, SavedOK, Take
  <2> QED
    BY <1>6, <2>4, <2>5 DEF UpdateCalibration
<1>7. ASSUME NEW save \in BOOLEAN, FinishCalibration(save)
      PROVE  IInv'
  <2>1. Take /\ model.session # NoSession
    BY <1>7 DEF FinishCalibration, InSession
  <2>2. /\ Kept(model) \in Models /\ Kept(model).session = NoSession
        /\ Kept(model).settings = model.settings
    BY <1>1, DefaultsOK DEF Kept, Models
  <2>3. /\ Restored(model) \in Models /\ Restored(model).session = NoSession
        /\ Restored(model).settings =
             [model.settings EXCEPT !.colors = model.session.original]
    BY <1>1, <2>1, DefaultsOK DEF Restored, Models, Settings, Sessions
  <2>4. Saved(Restored(model)) = store.memory
    BY <1>1, <2>1, <2>3 DEF Saved
  <2>5. Saved(Kept(model)) = Persisted(Kept(model), "corrected")
    <3>1. store.memory = [model.settings EXCEPT !.colors = model.session.original]
      BY <1>1, <2>1 DEF Saved
    <3> QED
      BY <1>1, <2>2, <3>1 DEF Saved, Persisted, Models, Settings
  <2> QED
    BY <1>7, <2>1, <2>2, <2>3, <2>4, <2>5, RenderOK DEF FinishCalibration
<1> QED
  BY <1>2, <1>3, <1>4, <1>5, <1>6, <1>7 DEF Command
-----------------------------------------------------------------------------
(* The worker: either it sends the next request, or the command is over.   *)

\* A step that sends the command's next request keeps the invariant.
LEMMA SendOnOK ==
  ASSUME IInv, NEW r \in Requests, Send(r),
         stage \notin {"idle", "expire", "dead"},
         stage' \in {"scene", "undo", "restore", "restoreConfigure"},
         stage' = "restoreConfigure" => r.kind = "configure" /\ work.reconfigure,
         UNCHANGED <<model, work, engine, torn, commands, faults, late>>,
         store' \in [file : Settings, memory : Settings],
         store'.memory = store.memory, lastSave' \in {"ok", "failed"},
         store'.file # store'.memory => lastSave' = "failed"
  PROVE  IInv'
<1> USE DEF IInv
<1>1. /\ requests' \in Seq(Requests) /\ requests' # <<>> /\ answer' = "none"
      /\ requests'[Len(requests')] = r
  BY SendOK
<1>2. TypeOK'
  BY <1>1 DEF TypeOK
<1>3. PlacesOK' /\ AwaitOK'
  BY <1>1 DEF PlacesOK, AwaitOK
<1>4. SavedOK'
  BY DEF SavedOK, Saved, Persisted
<1>5. TopologySurvivesCallers'
  BY DEF TopologySurvivesCallers
<1> QED
  BY <1>2, <1>3, <1>4, <1>5

\* A step that ends the command keeps the invariant if it leaves the model and
\* the settings in step.
LEMMA RestOK ==
  ASSUME IInv, Rest, model' \in Models,
         store' \in [file : Settings, memory : Settings],
         Saved(model') = store'.memory, lastSave' \in {"ok", "failed"},
         store'.file # store'.memory => lastSave' = "failed",
         torn' \subseteq {"scene", "topology"}, TopologySurvivesCallers',
         UNCHANGED <<requests, engine, commands, faults>>, late' \in 0..MaxLate
  PROVE  IInv'
<1> USE DEF IInv, Rest
<1>1. TypeOK'
  BY DEF TypeOK
<1>2. PlacesOK' /\ AwaitOK'
  BY DEF PlacesOK, AwaitOK
<1>3. SavedOK'
  BY DEF SavedOK, Saved
<1> QED
  BY <1>1, <1>2, <1>3

\* What is persisted is a settings record.
LEMMA PersistedOK ==
  ASSUME TypeOK, NEW m \in Models, NEW kind \in Saves
  PROVE  Persisted(m, kind) \in Settings
<1>1. store.memory \in Settings /\ m.settings \in Settings
  BY DEF TypeOK, Models
<1> QED
  BY <1>1 DEF Persisted, Settings

\* Going back, with or without the topology, keeps the invariant.
LEMMA GoBackOK ==
  ASSUME IInv, GoBack, stage \notin {"idle", "expire", "dead"},
         UNCHANGED <<model, work, engine, torn, commands, faults, late>>,
         store' \in [file : Settings, memory : Settings],
         store'.memory = store.memory, lastSave' \in {"ok", "failed"},
         store'.file # store'.memory => lastSave' = "failed"
  PROVE  IInv'
<1>1. /\ model \in Models /\ model.settings.topology \in Topologies
      /\ work.candidate.revision + 1 \in Nat
  BY DEF IInv, TypeOK, Models, Settings, Works
<1>2. CASE work.reconfigure
  <2>1. /\ Configure(model.settings.topology) \in Requests
        /\ Configure(model.settings.topology).kind = "configure"
    BY <1>1, RequestOK DEF Configure
  <2> QED
    BY <1>2, <2>1, SendOnOK DEF GoBack
<1>3. CASE ~work.reconfigure
  <2>1. Update(model, work.candidate.revision + 1) \in Requests
    BY <1>1, RequestOK
  <2> QED
    BY <1>3, <2>1, SendOnOK DEF GoBack
<1> QED
  BY <1>2, <1>3

\* While a command is at work its candidate is a model, and committing it
\* keeps the model in step with the settings.
LEMMA WorkOK ==
  ASSUME IInv, stage \notin {"idle", "dead"}
  PROVE  /\ model \in Models /\ work \in Works /\ work.candidate \in Models
         /\ work.candidate.revision + 1 \in Nat
         /\ store \in [file : Settings, memory : Settings]
         /\ Saved(model) = store.memory
         /\ lastSave \in {"ok", "failed"}
         /\ store.file # store.memory => lastSave = "failed"
         /\ torn \subseteq {"scene", "topology"} /\ Settled \subseteq {"scene", "topology"}
         /\ late \in 0..MaxLate
BY DEF IInv, TypeOK, SavedOK, Works, Models, Settled

\* Settling what was in doubt cannot strand the topology.
LEMMA SettledOK ==
  ASSUME IInv, torn' \ {"scene"} \subseteq torn, UNCHANGED <<late, faults>>
  PROVE  TopologySurvivesCallers'
BY DEF IInv, TopologySurvivesCallers

\* A scene the engine accepted is committed, saved, shown or taken back.
LEMMA SceneAcceptedStep ==
  ASSUME IInv, SceneAccepted
  PROVE  IInv'
<1>1. /\ stage = "scene" /\ work.kind # "expire" /\ Unchanged
      /\ work.reconfigure => work.kind \in Transactions
  BY DEF SceneAccepted, IInv, PlacesOK
<1>2. CASE /\ work.kind = "test" /\ stage' = "showing" /\ answer' = "none"
           /\ UNCHANGED <<model, store, requests, work, torn, lastSave>>
  BY <1>1, <1>2
     DEF IInv, TypeOK, PlacesOK, AwaitOK, SavedOK, Saved, Persisted,
         TopologySurvivesCallers, Unchanged
<1>3. CASE work.kind \in Saves /\ SaveSucceeds /\ Commit
  <2>1. Persisted(work.candidate, work.kind) \in Settings
    BY <1>1, <1>3, WorkOK, PersistedOK DEF IInv
  <2>2. Saved(work.candidate) = Persisted(work.candidate, work.kind)
    BY <1>1, <1>3 DEF IInv, SavedOK
  <2>3. /\ store' \in [file : Settings, memory : Settings]
        /\ store'.memory = Persisted(work.candidate, work.kind)
        /\ store'.file = store'.memory /\ lastSave' = "ok"
    BY <1>3, <2>1 DEF SaveSucceeds
  <2>4. TopologySurvivesCallers'
    BY <1>1, <1>3, SettledOK DEF Commit, Unchanged
  <2>5. /\ model' = work.candidate /\ Rest /\ torn' \subseteq torn
        /\ UNCHANGED <<requests, engine, commands, faults, late>>
    BY <1>1, <1>3 DEF Commit, Unchanged
  <2>6. torn' \subseteq {"scene", "topology"} /\ late' \in 0..MaxLate /\ model' \in Models
    BY <1>1, <2>5, WorkOK
  <2>7. Saved(model') = store'.memory
    BY <2>2, <2>3, <2>5
  <2> QED
    BY <2>3, <2>4, <2>5, <2>6, <2>7, RestOK
<1>4. CASE /\ work.kind \in Saves /\ SaveFails
           /\ IF work.kind = "topology" THEN GoBack ELSE Undo
           /\ UNCHANGED <<model, work, torn>>
  <2>1. Persisted(work.candidate, work.kind) \in Settings
    BY <1>1, <1>4, WorkOK, PersistedOK DEF IInv
  <2>2. /\ store' \in [file : Settings, memory : Settings]
        /\ store'.memory = store.memory /\ lastSave' = "failed"
    BY <1>1, <1>4, <2>1, WorkOK DEF SaveFails
  <2>3. UNCHANGED <<model, work, engine, torn, commands, faults, late>>
    BY <1>1, <1>4 DEF Unchanged
  <2>4. CASE GoBack
    BY <1>1, <2>2, <2>3, <2>4, GoBackOK
  <2>5. CASE Undo
    <3>1. Update(model, work.candidate.revision + 1) \in Requests
      BY <1>1, WorkOK, RequestOK
    <3> QED
      BY <1>1, <2>2, <2>3, <2>5, <3>1, SendOnOK DEF Undo
  <2> QED
    BY <1>4, <2>4, <2>5
<1>5. CASE work.kind \notin Saves \union {"test"} /\ Commit /\ UNCHANGED <<store, lastSave>>
  <2>1. work.kind \in {"look", "calibration"}
    BY <1>1, <1>5, WorkOK DEF Works
  <2>2. Saved(work.candidate) = store.memory
    BY <1>1, <2>1 DEF IInv, SavedOK
  <2>3. TopologySurvivesCallers'
    BY <1>1, <1>5, SettledOK DEF Commit, Unchanged
  <2>4. /\ model' = work.candidate /\ Rest /\ torn' \subseteq torn
        /\ UNCHANGED <<requests, engine, commands, faults, late, store, lastSave>>
    BY <1>1, <1>5 DEF Commit, Unchanged
  <2> QED
    BY <1>1, <2>2, <2>3, <2>4, WorkOK, RestOK
<1> QED
  BY <1>2, <1>3, <1>4, <1>5 DEF SceneAccepted

\* A refused scene ends the command, a transaction after it has gone back.
LEMMA SceneRefusedStep ==
  ASSUME IInv, SceneRefused
  PROVE  IInv'
<1>1. /\ stage = "scene" /\ UNCHANGED <<model, store, torn, lastSave>>
      /\ UNCHANGED <<engine, commands, faults, late>>
  BY DEF SceneRefused, Unchanged
<1>2. CASE GoBack /\ UNCHANGED work
  BY <1>1, <1>2, WorkOK, GoBackOK
<1>3. CASE Rest /\ UNCHANGED requests
  BY <1>1, <1>3, WorkOK, SettledOK, RestOK
<1> QED
  BY <1>2, <1>3 DEF SceneRefused

\* Only the revision of the model moves when a rollback is done.
LEMMA RollbackOK ==
  ASSUME IInv, stage \notin {"idle", "dead"}, RollbackRevision
  PROVE  model' \in Models /\ Saved(model') = store.memory
<1>1. model' = Revised(model, work.candidate.revision + 1)
  BY DEF RollbackRevision, Revised
<1> QED
  BY <1>1, WorkOK, RevisedOK

\* A failed save has been taken back.
LEMMA UndoneStep ==
  ASSUME IInv, Undone
  PROVE  IInv'
<1>1. /\ stage = "undo" /\ RollbackRevision /\ Rest
      /\ UNCHANGED <<store, requests, lastSave, engine, commands, faults, late>>
  BY DEF Undone, Unchanged
<1>2. torn' \ {"scene"} \subseteq torn /\ torn' \subseteq torn \union {"scene"}
  BY DEF Undone
<1>3. torn' \subseteq {"scene", "topology"}
  BY <1>1, <1>2, WorkOK
<1> QED
  BY <1>1, <1>2, <1>3, WorkOK, SettledOK, RollbackOK, RestOK

\* Once the engine has answered the configuration, its scene follows or the
\* command goes back.
LEMMA ConfiguredStep ==
  ASSUME IInv, Configured
  PROVE  IInv'
<1>1. /\ stage = "configure" /\ UNCHANGED <<model, store, work, torn, lastSave>>
      /\ UNCHANGED <<engine, commands, faults, late>>
  BY DEF Configured, Unchanged
<1>2. CASE stage' = "scene" /\ Send(Update(work.candidate, work.candidate.revision))
  <2>1. Update(work.candidate, work.candidate.revision) \in Requests
    BY <1>1, WorkOK, RequestOK DEF Models
  <2> QED
    BY <1>1, <1>2, <2>1, WorkOK, SendOnOK
<1>3. CASE GoBack
  BY <1>1, <1>3, WorkOK, GoBackOK
<1> QED
  BY <1>2, <1>3 DEF Configured

\* A test goes back to the model when its time is over.
LEMMA TestEndsStep ==
  ASSUME IInv, TestEnds
  PROVE  IInv'
BY WorkOK, GoBackOK DEF TestEnds, Unchanged

\* Only an engine that has failed refuses to be configured back.
LEMMA RestoreConfiguredStep ==
  ASSUME IInv, RestoreConfigured
  PROVE  IInv'
<1>1. /\ stage = "restoreConfigure" /\ answer # "none"
      /\ UNCHANGED <<model, store, lastSave, engine, commands, faults, late>>
  BY DEF RestoreConfigured, Unchanged
<1>2. CASE /\ stage' = "restore" /\ Send(Update(model, work.candidate.revision + 1))
           /\ UNCHANGED <<work, torn>>
  <2>1. Update(model, work.candidate.revision + 1) \in Requests
    BY <1>1, WorkOK, RequestOK
  <2> QED
    BY <1>1, <1>2, <2>1, WorkOK, SendOnOK
<1>3. CASE /\ answer = "refused" /\ torn' = torn \union Settled
           /\ Rest /\ UNCHANGED requests
  <2>1. faults' > 0
    BY <1>1, <1>3 DEF IInv, AwaitOK
  <2>2. TopologySurvivesCallers'
    BY <2>1 DEF TopologySurvivesCallers
  <2>3. torn' \subseteq {"scene", "topology"}
    BY <1>1, <1>3, WorkOK
  <2> QED
    BY <1>1, <1>3, <2>2, <2>3, WorkOK, RestOK
<1> QED
  BY <1>1, <1>2, <1>3 DEF RestoreConfigured, IInv, TypeOK

\* The engine has answered the scene a command went back to.
LEMMA RestoredSceneStep ==
  ASSUME IInv, RestoredScene
  PROVE  IInv'
<1>1. /\ stage = "restore" /\ Rest
      /\ UNCHANGED <<store, requests, lastSave, engine, commands, faults, late>>
  BY DEF RestoredScene, Unchanged
<1>2. /\ torn' \ {"scene"} \subseteq torn /\ torn' \subseteq torn \union {"scene"}
      /\ RollbackRevision \/ UNCHANGED model
  BY DEF RestoredScene
<1>3. torn' \subseteq {"scene", "topology"}
  BY <1>1, <1>2, WorkOK
<1>4. model' \in Models /\ Saved(model') = store.memory
  BY <1>1, <1>2, WorkOK, RollbackOK
<1> QED
  BY <1>1, <1>2, <1>3, <1>4, WorkOK, SettledOK, RestOK

\* Passing a revision changes nothing that is saved.
LEMMA BumpedOK ==
  ASSUME IInv, NEW m \in Models
  PROVE  /\ Bumped(m) \in Models /\ Saved(Bumped(m)) = Saved(m)
         /\ Bumped(m).settings = m.settings /\ Bumped(m).session = m.session
<1>1. PICK r \in Nat : Bumped(m) = Revised(m, r)
  <2>1. m.revision \in Nat
    BY DEF Models
  <2>2. m.revision + 1 \in Nat
    BY <2>1
  <2>3. Bumped(m) = Revised(m, m.revision) \/ Bumped(m) = Revised(m, m.revision + 1)
    BY DEF Bumped, Revised
  <2> QED
    BY <2>1, <2>2, <2>3
<1> QED
  BY <1>1, RevisedOK

\* An expired session has given the lights back, or the model stays as it was.
LEMMA ExpiryAnsweredStep ==
  ASSUME IInv, ExpiryAnswered
  PROVE  IInv'
<1>1. /\ stage = "expire" /\ Rest /\ torn' \subseteq torn
      /\ UNCHANGED <<store, requests, lastSave, engine, commands, faults, late>>
      /\ model' = Bumped(work.candidate) \/ model' = Bumped(model)
  BY DEF ExpiryAnswered, Unchanged
<1>2. Saved(work.candidate) = store.memory
  BY <1>1 DEF IInv, PlacesOK, SavedOK
<1>3. model' \in Models /\ Saved(model') = store.memory
  BY <1>1, <1>2, WorkOK, BumpedOK
<1> QED
  BY <1>1, <1>3, WorkOK, SettledOK, RestOK

\* Every step of the worker keeps the invariant.
LEMMA WorkerStep ==
  ASSUME IInv, Worker
  PROVE  IInv'
BY SceneAcceptedStep, SceneRefusedStep, UndoneStep, ConfiguredStep, TestEndsStep,
   RestoreConfiguredStep, RestoredSceneStep, ExpiryAnsweredStep DEF Worker

-----------------------------------------------------------------------------
(* Dropped futures and the tick.                                           *)

\* A dropped command strands the topology only if its deadline dropped it.
LEMMA AbandonStep ==
  ASSUME IInv, CallerLeaves \/ DeadlinePasses
  PROVE  IInv'
<1>1. /\ stage \notin {"idle", "expire", "dead"} /\ Rest
      /\ UNCHANGED <<model, store, engine, requests, commands, faults, lastSave>>
      /\ torn' = torn \union Settled
  BY DEF CallerLeaves, DeadlinePasses, Abandon
<1>2. late' \in 0..MaxLate /\ late' >= late
  BY ControlPlaneAssumption DEF CallerLeaves, DeadlinePasses, IInv, TypeOK
<1>3. CASE CallerLeaves
  <2>1. ~work.reconfigure /\ Settled = {"scene"} /\ late' = late
    BY <1>1, <1>3, WorkOK DEF CallerLeaves, IInv, PlacesOK, Settled, Works
  <2>2. TopologySurvivesCallers'
    BY <1>1, <2>1, SettledOK
  <2> QED
    BY <1>1, <1>2, <2>2, WorkOK, RestOK
<1>4. CASE DeadlinePasses
  <2>1. late' > 0
    BY <1>4 DEF DeadlinePasses, IInv, TypeOK
  <2>2. TopologySurvivesCallers'
    BY <2>1 DEF TopologySurvivesCallers
  <2> QED
    BY <1>1, <1>2, <2>2, WorkOK, RestOK
<1> QED
  BY <1>3, <1>4

\* Between commands the model changes only in what is not saved.
LEMMA IdleStep ==
  ASSUME IInv, stage = "idle", model' \in Models, Saved(model') = Saved(model),
         UNCHANGED <<store, engine, requests, answer, stage, work, torn,
                     commands, faults, late, lastSave>>
  PROVE  IInv'
BY DEF IInv, TypeOK, PlacesOK, AwaitOK, SavedOK, Saved, TopologySurvivesCallers

\* The tick passes a revision or begins to end a forgotten session.
LEMMA TickStep ==
  ASSUME IInv, Tick \/ SessionGoesStale
  PROVE  IInv'
<1>1. model \in Models /\ stage = "idle" /\ Saved(model) = store.memory
  BY DEF IInv, TypeOK, SavedOK, Tick, TickBumps, TickExpires, SessionGoesStale
<1>2. CASE TickBumps
  BY <1>1, <1>2, BumpedOK, IdleStep DEF TickBumps
<1>3. CASE SessionGoesStale
  <2>1. model.session \in Sessions /\ model.session # NoSession
    BY <1>1, <1>3 DEF SessionGoesStale, InSession, Models
  <2>2. PICK s : s = [model.session EXCEPT !.stale = TRUE]
    OBVIOUS
  <2>3. /\ s \in Sessions /\ s # NoSession /\ s.original = model.session.original
    BY <2>1, <2>2 DEF Sessions, NoSession
  <2>4. model' = [model EXCEPT !.session = s]
    BY <1>3, <2>2 DEF SessionGoesStale
  <2>5. model' \in Models /\ model'.session = s /\ model'.settings = model.settings
    BY <1>1, <2>3, <2>4 DEF Models
  <2>6. Saved(model') = Saved(model)
    BY <2>1, <2>3, <2>5 DEF Saved
  <2> QED
    BY <1>1, <1>3, <2>5, <2>6, IdleStep DEF SessionGoesStale
<1>4. CASE TickExpires
  <2>1. model.session # NoSession /\ NextRevision \in Nat
    BY <1>1, <1>4 DEF TickExpires, InSession, NextRevision, Models
  <2>2. /\ Restored(model) \in Models /\ Restored(model).session = NoSession
        /\ Restored(model).settings =
             [model.settings EXCEPT !.colors = model.session.original]
    BY <1>1, <2>1, DefaultsOK DEF Restored, Models, Settings, Sessions
  <2>3. Saved(Restored(model)) = store.memory
    BY <1>1, <2>1, <2>2 DEF Saved
  <2>4. PICK d : d = Revised(Restored(model), NextRevision)
    OBVIOUS
  <2>5. d \in Models /\ Saved(d) = store.memory
    BY <2>1, <2>2, <2>3, <2>4, RevisedOK
  <2>6. /\ work' = [kind |-> "expire", candidate |-> d, reconfigure |-> FALSE]
        /\ Send(Update(d, NextRevision)) /\ stage' = "expire"
        /\ UNCHANGED <<model, store, engine, torn, commands, faults, late, lastSave>>
    BY <1>4, <2>4 DEF TickExpires, Revised
  <2>7. Update(d, NextRevision) \in Requests
    BY <2>1, <2>5, RequestOK
  <2>8. requests' \in Seq(Requests) /\ requests' # <<>> /\ answer' = "none"
    BY <2>6, <2>7, SendOK DEF IInv
  <2>9. work' \in Works /\ work'.kind = "expire" /\ work'.candidate = d
        /\ work'.reconfigure = FALSE
    BY <2>5, <2>6 DEF Works
  <2>10. TypeOK'
    BY <2>6, <2>8, <2>9 DEF IInv, TypeOK
  <2>11. PlacesOK' /\ AwaitOK'
    BY <2>6, <2>8, <2>9 DEF PlacesOK, AwaitOK
  <2>12. SavedOK'
    BY <2>5, <2>6, <2>9 DEF IInv, SavedOK, Saved
  <2> QED
    BY <2>6, <2>10, <2>11, <2>12 DEF IInv, TopologySurvivesCallers
<1> QED
  BY <1>2, <1>3, <1>4 DEF Tick

\* A step that changes nothing keeps the invariant.
LEMMA StutterStep ==
  ASSUME IInv, UNCHANGED vars
  PROVE  IInv'
BY DEF vars, IInv, TypeOK, PlacesOK, AwaitOK, SavedOK, Saved, Persisted,
       TopologySurvivesCallers

\* Every step of the specification keeps the invariant.
LEMMA NextOK == IInv /\ [Next]_vars => IInv'
BY CommandStep, WorkerStep, EngineStep, TickStep, AbandonStep, StutterStep
   DEF Next, Quiet

\* The invariant holds in every reachable state.
THEOREM Invariant == Spec => []IInv
<1>1. Init => IInv
  BY InitOK
<1>2. IInv /\ [Next]_vars => IInv'
  BY NextOK
<1> QED
  BY <1>1, <1>2, PTL DEF Spec

\* Every variable has its type: in particular every candidate, every request
\* on its way and every answer is one the control task or the engine can make.
THEOREM TypeCorrect == Spec => []TypeOK
<1>1. IInv => TypeOK
  BY DEF IInv
<1> QED
  BY <1>1, Invariant, PTL

\* However commands, deadlines, faults and ticks interleave, outside a
\* calibration session the model holds exactly the saved settings, and the file
\* differs from them only after a save that failed.
THEOREM SettingsAreKept == Spec => []SettingsKept
<1>1. IInv => SettingsKept
  BY DEF IInv, SavedOK, Saved, SettingsKept, InSession
<1> QED
  BY <1>1, Invariant, PTL

\* A caller that goes away never leaves the engine on a topology other than
\* the model's.
THEOREM CallersStrandNoTopology == Spec => []TopologySurvivesCallers
<1>1. IInv => TopologySurvivesCallers
  BY DEF IInv
<1> QED
  BY <1>1, Invariant, PTL

-----------------------------------------------------------------------------
(***************************************************************************)
(* EngineAgrees and RefusedForCause: both follow from what the requests on *)
(* their way to the engine will do, which the invariant EngineInv below    *)
(* says relative to IInv.                                                  *)
(***************************************************************************)

\* The request the worker awaits at its stage.
Expected ==
  CASE stage \in {"scene", "expire"} -> Update(work.candidate, work.candidate.revision)
    [] stage = "configure"           -> Configure(work.candidate.settings.topology)
    [] stage = "restoreConfigure"    -> Configure(model.settings.topology)
    [] OTHER                         -> Update(model, work.candidate.revision + 1)

\* What the engine is like once it has accepted a request.
Ran(r) ==
  IF r.kind = "configure"
    THEN engine.topology = r.topology /\ engine.revision = 0
    ELSE engine.scene = r.scene /\ engine.revision = r.revision

\* The awaited request is the last of the queue until it is answered.
LastOK ==
  /\ Awaiting /\ answer = None => requests # <<>> /\ requests[Len(requests)] = Expected
  /\ Awaiting /\ answer # None => requests = <<>>
  /\ Awaiting /\ answer = "accepted" => Ran(Expected)

\* Requests of earlier commands are on their way only while the scene is in
\* doubt, and none at all while a test is shown.
AloneOK ==
  /\ "scene" \notin torn => Len(requests) <= 1 /\ (~Awaiting => requests = <<>>)
  /\ stage = "showing" => requests = <<>>

AtWork == stage \notin {"idle", "dead"}
Reconfigures == AtWork /\ work.reconfigure

\* A command that does not reconfigure stays on the model's topology.
CandidateOK ==
  /\ AtWork => work.candidate.revision > 0
  /\ AtWork /\ ~work.reconfigure =>
       work.candidate.settings.topology = model.settings.topology
  /\ stage = "undo" => ~work.reconfigure

NoConfigure == \A i \in DOMAIN requests : requests[i].kind # "configure"

\* On which topology the engine is, and stays.
TopologyOK ==
  /\ ~Reconfigures /\ "topology" \notin torn =>
       NoConfigure /\ engine.topology = model.settings.topology
  /\ Reconfigures /\ stage = "scene" =>
       NoConfigure /\ engine.topology = work.candidate.settings.topology
  /\ Reconfigures /\ stage = "restore" =>
       NoConfigure /\ engine.topology = model.settings.topology

\* The engine shows the model's scene until it accepts the candidate's.
ShownOK ==
  "scene" \notin torn /\ (stage = "idle" \/ (/\ stage \in {"scene", "expire"}
                                            /\ ~work.reconfigure
                                            /\ answer # "accepted"))
    => engine.scene = SceneOf(model)

\* While nothing is in doubt, no revision on its way is too old.
RevisionOK ==
  faults = 0 /\ torn = {} =>
    /\ answer # "refused"
    /\ stage = "idle" => engine.revision <= model.revision
    /\ stage = "showing" => engine.revision <= work.candidate.revision
    /\ Awaiting /\ answer = None /\ Expected.kind = "scene" =>
         engine.revision < Expected.revision

EngineInv == LastOK /\ AloneOK /\ CandidateOK /\ TopologyOK /\ ShownOK /\ RevisionOK

-----------------------------------------------------------------------------

USE DEF None, NoWork, Transactions, Saves, Finishes, Awaiting, ConfigureStages, AtWork

\* Where the worker awaits what, as equalities.
LEMMA ExpectedIs ==
  /\ stage \in {"scene", "expire"} =>
       Expected = Update(work.candidate, work.candidate.revision)
  /\ stage = "configure" => Expected = Configure(work.candidate.settings.topology)
  /\ stage = "restoreConfigure" => Expected = Configure(model.settings.topology)
  /\ stage \in {"undo", "restore"} => Expected = Update(model, work.candidate.revision + 1)
BY DEF Expected

\* The fields of a request.
LEMMA RequestFields ==
  /\ \A t : Configure(t).kind = "configure" /\ Configure(t).topology = t
  /\ \A m, r : /\ Update(m, r).kind = "scene" /\ Update(m, r).revision = r
               /\ Update(m, r).scene = SceneOf(m)
               /\ Update(m, r).scene.topology = m.settings.topology
BY DEF Configure, Update, SceneOf

\* The invariant holds when the dashboard has started.
LEMMA EngineInit == Init => EngineInv
BY DEF Init, EngineInv, LastOK, AloneOK, CandidateOK, TopologyOK, ShownOK, RevisionOK,
       NoConfigure, Reconfigures, InitialSettings

-----------------------------------------------------------------------------
(* The worker.                                                             *)

\* A request sent when none is on its way is the only one.
LEMMA OnlyRequest ==
  ASSUME requests = <<>>, NEW r, Send(r)
  PROVE  /\ requests' = <<r>> /\ Len(requests') = 1 /\ answer' = "none"
         /\ requests'[Len(requests')] = r /\ DOMAIN requests' = {1}
BY DEF Send

\* A step that sends the command's next request keeps the invariant.
LEMMA SendOnEngine ==
  ASSUME EngineInv, requests = <<>>, NEW r, Send(r), r = Expected',
         stage \notin {"idle", "expire", "dead"},
         stage' \in {"scene", "undo", "restore", "restoreConfigure"},
         UNCHANGED <<model, work, engine, torn, faults>>,
         stage' = "scene" => work.reconfigure,
         stage' \in {"scene", "undo", "restore"} => r.kind = "scene",
         stage' = "restoreConfigure" => work.reconfigure /\ r.kind = "configure",
         stage' = "undo" => ~work.reconfigure,
         stage' = "scene" => engine.topology = work.candidate.settings.topology,
         stage' = "restore" /\ work.reconfigure => engine.topology = model.settings.topology,
         faults = 0 /\ torn = {} /\ r.kind = "scene" => engine.revision < r.revision
  PROVE  EngineInv'
<1> USE DEF EngineInv
<1>1. /\ requests' = <<r>> /\ Len(requests') = 1 /\ answer' = "none"
      /\ requests'[Len(requests')] = r /\ DOMAIN requests' = {1}
  BY OnlyRequest
<1>2. LastOK'
  BY <1>1 DEF LastOK
<1>3. AloneOK'
  BY <1>1 DEF AloneOK
<1>4. CandidateOK'
  BY DEF CandidateOK
<1>5. r.kind = "scene" => NoConfigure'
  BY <1>1 DEF NoConfigure
<1>6. TopologyOK'
  BY <1>5 DEF TopologyOK, Reconfigures
<1>7. ShownOK'
  BY DEF ShownOK
<1>8. RevisionOK'
  BY <1>1 DEF RevisionOK
<1> QED
  BY <1>2, <1>3, <1>4, <1>6, <1>7, <1>8

\* A step that ends the command keeps the invariant if engine and model agree
\* in all that is not in doubt.
LEMMA RestEngine ==
  ASSUME EngineInv, requests = <<>>, Rest, UNCHANGED <<requests, engine>>,
         "scene" \notin torn' => engine.scene = SceneOf(model'),
         "topology" \notin torn' => engine.topology = model'.settings.topology,
         faults' = 0 /\ torn' = {} => engine.revision <= model'.revision
  PROVE  EngineInv'
<1> USE DEF Rest
<1>1. LastOK' /\ AloneOK' /\ CandidateOK'
  BY DEF LastOK, AloneOK, CandidateOK
<1>2. SceneOf(model)' = SceneOf(model')
  BY DEF SceneOf
<1>3. TopologyOK' /\ ShownOK'
  BY <1>2 DEF TopologyOK, NoConfigure, Reconfigures, ShownOK
<1>4. RevisionOK'
  BY DEF RevisionOK
<1> QED
  BY <1>1, <1>3, <1>4 DEF EngineInv

\* Numbers the worker compares.
LEMMA RevisionsOK ==
  ASSUME IInv, stage \notin {"idle", "dead"}
  PROVE  /\ engine.revision \in Nat /\ model.revision \in Nat
         /\ work.candidate.revision \in Nat
BY WorkOK DEF IInv, TypeOK, Models

\* Going back keeps the invariant, whatever the engine has accepted of the
\* command so far.
LEMMA GoBackEngine ==
  ASSUME IInv, EngineInv, GoBack, requests = <<>>,
         stage \notin {"idle", "expire", "dead"},
         UNCHANGED <<model, work, engine, torn, faults>>,
         faults = 0 /\ torn = {} => engine.revision <= work.candidate.revision
  PROVE  EngineInv'
<1>1. engine.revision \in Nat /\ work.candidate.revision \in Nat
  BY RevisionsOK
<1>2. CASE work.reconfigure
  <2>1. stage' = "restoreConfigure" /\ Send(Configure(model.settings.topology))
    BY <1>2 DEF GoBack
  <2>2. Configure(model.settings.topology) = Expected'
    BY <2>1 DEF Expected, Configure
  <2> QED
    BY <1>2, <2>1, <2>2, RequestFields, SendOnEngine
<1>3. CASE ~work.reconfigure
  <2>1. stage' = "restore" /\ Send(Update(model, work.candidate.revision + 1))
    BY <1>3 DEF GoBack
  <2>2. Update(model, work.candidate.revision + 1) = Expected'
    BY <2>1 DEF Expected, Update, SceneOf
  <2>3. engine.revision <= work.candidate.revision =>
          engine.revision < work.candidate.revision + 1
    BY <1>1
  <2> QED
    BY <1>3, <2>1, <2>2, <2>3, RequestFields, SendOnEngine
<1> QED
  BY <1>2, <1>3

\* What the worker knows when the scene it sent has been accepted.
LEMMA SceneRan ==
  ASSUME IInv, EngineInv, stage \in {"scene", "expire"}, answer = "accepted"
  PROVE  /\ requests = <<>> /\ engine.scene = SceneOf(work.candidate)
         /\ engine.revision = work.candidate.revision
         /\ work.reconfigure => engine.topology = work.candidate.settings.topology
         /\ ~work.reconfigure /\ "topology" \notin torn =>
              engine.topology = work.candidate.settings.topology
<1>1. requests = <<>> /\ Ran(Expected)
  BY DEF EngineInv, LastOK
<1>2. engine.scene = SceneOf(work.candidate) /\ engine.revision = work.candidate.revision
  BY <1>1, ExpectedIs, RequestFields DEF Ran
<1>3. work.reconfigure => stage = "scene"
  BY DEF IInv, PlacesOK
<1> QED
  BY <1>1, <1>2, <1>3 DEF EngineInv, TopologyOK, CandidateOK, Reconfigures

\* Committing an accepted candidate keeps the invariant.
LEMMA CommitEngine ==
  ASSUME IInv, EngineInv, stage = "scene", answer = "accepted", Commit, UNCHANGED engine
  PROVE  EngineInv'
<1>1. /\ Rest /\ UNCHANGED <<requests, engine>> /\ model' = work.candidate
      /\ torn' = torn \ Settled
  BY DEF Commit
<1>2. "topology" \notin torn' => "topology" \notin torn \/ work.reconfigure
  BY <1>1 DEF Settled
<1>3. work.candidate.revision \in Nat
  BY RevisionsOK
<1> QED
  BY <1>1, <1>2, <1>3, SceneRan, RestEngine

\* An accepted scene is committed, shown, or taken back after a failed save.
LEMMA SceneAcceptedEngine ==
  ASSUME IInv, EngineInv, SceneAccepted
  PROVE  EngineInv'
<1>1. /\ stage = "scene" /\ answer = "accepted" /\ UNCHANGED <<engine, faults>>
      /\ requests = <<>> /\ engine.revision = work.candidate.revision
      /\ work.candidate.revision \in Nat
  BY SceneRan, RevisionsOK DEF SceneAccepted, Unchanged
<1>2. CASE /\ work.kind = "test" /\ stage' = "showing" /\ answer' = "none"
           /\ UNCHANGED <<model, store, requests, work, torn, lastSave>>
  BY <1>1, <1>2
     DEF EngineInv, LastOK, AloneOK, CandidateOK, TopologyOK, Reconfigures, NoConfigure,
         ShownOK, RevisionOK
<1>3. CASE Commit
  BY <1>1, <1>3, CommitEngine
<1>4. CASE GoBack /\ UNCHANGED <<model, work, torn>>
  BY <1>1, <1>4, GoBackEngine
<1>5. CASE work.kind \in Saves /\ work.kind # "topology" /\ Undo /\ UNCHANGED <<model, work, torn>>
  <2>1. stage' = "undo" /\ Send(Update(model, work.candidate.revision + 1))
    BY <1>5 DEF Undo
  <2>2. Update(model, work.candidate.revision + 1) = Expected'
    BY <1>5, <2>1 DEF Expected, Update, SceneOf
  <2>3. ~work.reconfigure
    BY <1>1, <1>5 DEF IInv, PlacesOK
  <2>4. engine.revision < work.candidate.revision + 1
    BY <1>1
  <2> QED
    BY <1>1, <1>5, <2>1, <2>2, <2>3, <2>4, RequestFields, SendOnEngine
<1> QED
  BY <1>2, <1>3, <1>4, <1>5 DEF SceneAccepted

\* A scene refused for a fault or a doubt ends the command or takes it back.
LEMMA SceneRefusedEngine ==
  ASSUME IInv, EngineInv, SceneRefused
  PROVE  EngineInv'
<1>1. /\ stage = "scene" /\ answer = "refused" /\ requests = <<>>
      /\ UNCHANGED <<engine, faults, model, torn>> /\ ~(faults = 0 /\ torn = {})
  BY DEF SceneRefused, Unchanged, EngineInv, LastOK, RevisionOK
<1>2. CASE GoBack /\ UNCHANGED work
  BY <1>1, <1>2, GoBackEngine
<1>3. CASE work.kind \notin Transactions /\ Rest /\ UNCHANGED requests
  <2>1. ~work.reconfigure
    BY <1>1, <1>3 DEF IInv, PlacesOK
  <2>2. "scene" \notin torn => engine.scene = SceneOf(model)
    BY <1>1, <2>1 DEF EngineInv, ShownOK
  <2>3. "topology" \notin torn => engine.topology = model.settings.topology
    BY <2>1 DEF EngineInv, TopologyOK, Reconfigures
  <2> QED
    BY <1>1, <1>3, <2>2, <2>3, RestEngine
<1> QED
  BY <1>2, <1>3 DEF SceneRefused

\* What the worker knows when the engine has gone back to the model's scene.
LEMMA WayBackRan ==
  ASSUME IInv, EngineInv, stage \in {"undo", "restore"}, answer # "none"
  PROVE  /\ requests = <<>>
         /\ answer = "accepted" => /\ engine.scene = SceneOf(model)
                                   /\ engine.revision = work.candidate.revision + 1
         /\ stage = "restore" /\ work.reconfigure =>
              engine.topology = model.settings.topology
         /\ ~work.reconfigure /\ "topology" \notin torn =>
              engine.topology = model.settings.topology
<1>1. requests = <<>> /\ (answer = "accepted" => Ran(Expected))
  BY DEF EngineInv, LastOK
<1>2. answer = "accepted" => /\ engine.scene = SceneOf(model)
                             /\ engine.revision = work.candidate.revision + 1
  BY <1>1, ExpectedIs, RequestFields DEF Ran
<1> QED
  BY <1>1, <1>2 DEF EngineInv, TopologyOK, Reconfigures

\* The rollback revision is the model's, and changes nothing it shows.
LEMMA RollbackShows ==
  ASSUME IInv, stage \notin {"idle", "dead"}, RollbackRevision
  PROVE  /\ SceneOf(model') = SceneOf(model)
         /\ model'.settings = model.settings
         /\ model'.revision = work.candidate.revision + 1
BY WorkOK DEF RollbackRevision, SceneOf, Models

\* A failed save has been taken back.
LEMMA UndoneEngine ==
  ASSUME IInv, EngineInv, Undone
  PROVE  EngineInv'
<1>1. /\ stage = "undo" /\ answer # "none" /\ RollbackRevision /\ Rest
      /\ UNCHANGED <<requests, engine, faults>>
      /\ torn' = IF answer = "accepted" THEN torn \ {"scene"} ELSE torn \union {"scene"}
  BY DEF Undone, Unchanged
<1>2. ~work.reconfigure
  BY <1>1 DEF EngineInv, CandidateOK
<1>3. /\ SceneOf(model') = SceneOf(model) /\ model'.settings = model.settings
      /\ model'.revision = work.candidate.revision + 1 /\ work.candidate.revision \in Nat
  BY <1>1, RollbackShows, RevisionsOK
<1>4. "scene" \notin torn' => answer = "accepted"
  BY <1>1
<1>5. "topology" \notin torn' => "topology" \notin torn
  BY <1>1
<1>6. torn' = {} => answer = "accepted"
  BY <1>4
<1> QED
  BY <1>1, <1>2, <1>3, <1>4, <1>5, <1>6, WayBackRan, RestEngine

\* The engine has been reconfigured, or has failed to be.
LEMMA ConfiguredEngine ==
  ASSUME IInv, EngineInv, Configured
  PROVE  EngineInv'
<1>1. /\ stage = "configure" /\ answer # "none" /\ work.reconfigure /\ requests = <<>>
      /\ UNCHANGED <<model, work, engine, torn, faults>>
  BY DEF Configured, Unchanged, IInv, PlacesOK, EngineInv, LastOK
<1>2. CASE /\ answer = "accepted" /\ stage' = "scene"
           /\ Send(Update(work.candidate, work.candidate.revision))
  <2>1. engine.topology = work.candidate.settings.topology /\ engine.revision = 0
    <3>1. Ran(Expected)
      BY <1>1, <1>2 DEF EngineInv, LastOK
    <3> QED
      BY <1>1, <3>1, ExpectedIs, RequestFields DEF Ran
  <2>2. Update(work.candidate, work.candidate.revision) = Expected'
    BY <1>1, <1>2 DEF Expected, Update, SceneOf
  <2>3. engine.revision < work.candidate.revision
    BY <1>1, <2>1 DEF EngineInv, CandidateOK
  <2> QED
    BY <1>1, <1>2, <2>1, <2>2, <2>3, RequestFields, SendOnEngine
<1>3. CASE answer = "refused" /\ GoBack
  <2>1. ~(faults = 0 /\ torn = {})
    BY <1>3 DEF EngineInv, RevisionOK
  <2> QED
    BY <1>1, <1>3, <2>1, GoBackEngine
<1> QED
  BY <1>1, <1>2, <1>3 DEF Configured, IInv, TypeOK

\* A test's time is over.
LEMMA TestEndsEngine ==
  ASSUME IInv, EngineInv, TestEnds
  PROVE  EngineInv'
<1>1. /\ stage = "showing" /\ GoBack /\ UNCHANGED <<model, work, engine, torn, faults>>
  BY DEF TestEnds, Unchanged
<1>2. faults = 0 /\ torn = {} => engine.revision <= work.candidate.revision
  BY <1>1 DEF EngineInv, RevisionOK
<1>3. requests = <<>>
  BY <1>1 DEF EngineInv, AloneOK
<1> QED
  BY <1>1, <1>2, <1>3, GoBackEngine

\* The engine is back on the model's topology, or the topology is in doubt.
LEMMA RestoreConfiguredEngine ==
  ASSUME IInv, EngineInv, RestoreConfigured
  PROVE  EngineInv'
<1>1. /\ stage = "restoreConfigure" /\ answer # "none" /\ work.reconfigure
      /\ requests = <<>> /\ UNCHANGED <<model, engine, faults>>
      /\ work.candidate.revision \in Nat
  BY RevisionsOK
     DEF RestoreConfigured, Unchanged, IInv, PlacesOK, EngineInv, LastOK
<1>2. CASE /\ answer = "accepted" /\ stage' = "restore"
           /\ Send(Update(model, work.candidate.revision + 1)) /\ UNCHANGED <<work, torn>>
  <2>1. engine.topology = model.settings.topology /\ engine.revision = 0
    <3>1. Ran(Expected)
      BY <1>1, <1>2 DEF EngineInv, LastOK
    <3> QED
      BY <1>1, <3>1, ExpectedIs, RequestFields DEF Ran
  <2>2. Update(model, work.candidate.revision + 1) = Expected'
    BY <1>1, <1>2 DEF Expected, Update, SceneOf
  <2>3. engine.revision < work.candidate.revision + 1
    BY <1>1, <2>1
  <2> QED
    BY <1>1, <1>2, <2>1, <2>2, <2>3, RequestFields, SendOnEngine
<1>3. CASE torn' = torn \union Settled /\ Rest /\ UNCHANGED requests
  <2>1. "scene" \in torn' /\ "topology" \in torn'
    BY <1>1, <1>3 DEF Settled
  <2> QED
    BY <1>1, <1>3, <2>1, RestEngine
<1> QED
  BY <1>1, <1>2, <1>3 DEF RestoreConfigured

\* The engine has answered the scene a transaction went back to.
LEMMA RestoredSceneEngine ==
  ASSUME IInv, EngineInv, RestoredScene
  PROVE  EngineInv'
<1>1. /\ stage = "restore" /\ answer # "none" /\ Rest
      /\ UNCHANGED <<requests, engine, faults>>
  BY DEF RestoredScene, Unchanged
<1>2. CASE answer = "accepted" /\ RollbackRevision /\ torn' = torn \ Settled
  <2>1. /\ SceneOf(model') = SceneOf(model) /\ model'.settings = model.settings
        /\ model'.revision = work.candidate.revision + 1 /\ work.candidate.revision \in Nat
    BY <1>1, <1>2, RollbackShows, RevisionsOK
  <2>2. "topology" \notin torn' => "topology" \notin torn \/ work.reconfigure
    BY <1>2 DEF Settled
  <2> QED
    BY <1>1, <1>2, <2>1, <2>2, WayBackRan, RestEngine
<1>3. CASE torn' = (torn \ Settled) \union {"scene"} /\ UNCHANGED model
  <2>1. "topology" \notin torn' => "topology" \notin torn \/ work.reconfigure
    BY <1>3 DEF Settled
  <2>2. "scene" \in torn'
    BY <1>3
  <2> QED
    BY <1>1, <1>3, <2>1, <2>2, WayBackRan, RestEngine
<1> QED
  BY <1>2, <1>3 DEF RestoredScene

\* Passing a revision changes nothing that is shown.
LEMMA BumpedShows ==
  ASSUME IInv, NEW m \in Models
  PROVE  /\ SceneOf(Bumped(m)) = SceneOf(m) /\ Bumped(m).settings = m.settings
         /\ Bumped(m).revision >= m.revision
<1>1. Bumped(m).settings = m.settings /\ Bumped(m).session = m.session
  BY BumpedOK
<1>2. Bumped(m).look = m.look
  BY DEF Bumped, Models
<1>3. Bumped(m).revision >= m.revision
  <2>1. m.revision \in Nat
    BY DEF Models
  <2>2. Bumped(m).revision = m.revision \/ Bumped(m).revision = m.revision + 1
    BY DEF Bumped, Models
  <2> QED
    BY <2>1, <2>2
<1> QED
  BY <1>1, <1>2, <1>3 DEF SceneOf

\* A forgotten session has ended, or the scene stays as it was.
LEMMA ExpiryAnsweredEngine ==
  ASSUME IInv, EngineInv, ExpiryAnswered
  PROVE  EngineInv'
<1>1. /\ stage = "expire" /\ answer # "none" /\ Rest
      /\ UNCHANGED <<requests, engine, faults>>
      /\ ~work.reconfigure /\ model \in Models /\ work.candidate \in Models
  BY WorkOK DEF ExpiryAnswered, Unchanged, IInv, PlacesOK
<1>2. requests = <<>>
  BY <1>1 DEF EngineInv, LastOK
<1>3. CASE answer = "accepted" /\ model' = Bumped(work.candidate) /\ torn' = torn \ {"scene"}
  <2>1. /\ SceneOf(model') = SceneOf(work.candidate)
        /\ model'.settings = work.candidate.settings
        /\ model'.revision >= work.candidate.revision
    BY <1>1, <1>3, BumpedShows
  <2> QED
    BY <1>1, <1>2, <1>3, <2>1, SceneRan, RestEngine
<1>4. CASE answer # "accepted" /\ model' = Bumped(model) /\ UNCHANGED torn
  <2>1. SceneOf(model') = SceneOf(model) /\ model'.settings = model.settings
    BY <1>1, <1>4, BumpedShows
  <2>2. "scene" \notin torn => engine.scene = SceneOf(model)
    BY <1>1, <1>4 DEF EngineInv, ShownOK
  <2>3. "topology" \notin torn => engine.topology = model.settings.topology
    BY <1>1 DEF EngineInv, TopologyOK, Reconfigures
  <2>4. ~(faults = 0 /\ torn = {})
    BY <1>1, <1>4 DEF EngineInv, RevisionOK, IInv, TypeOK
  <2> QED
    BY <1>1, <1>2, <1>4, <2>1, <2>2, <2>3, <2>4, RestEngine
<1> QED
  BY <1>3, <1>4 DEF ExpiryAnswered

\* Every step of the worker keeps the invariant.
LEMMA WorkerEngine ==
  ASSUME IInv, EngineInv, Worker
  PROVE  EngineInv'
BY SceneAcceptedEngine, SceneRefusedEngine, UndoneEngine, ConfiguredEngine,
   TestEndsEngine, RestoreConfiguredEngine, RestoredSceneEngine, ExpiryAnsweredEngine
   DEF Worker

-----------------------------------------------------------------------------
(* Commands, dropped futures and the tick.                                 *)

\* A command, or an expiry, begins from a model in step with the engine.
LEMMA BeginEngine ==
  ASSUME IInv, EngineInv, stage = "idle", stage' \in {"scene", "configure", "expire"},
         NEW r \in Requests, Send(r), r = Expected',
         UNCHANGED <<model, engine, torn, faults>>,
         stage' = "configure" <=> work'.reconfigure,
         stage' = "configure" \/ r.kind = "scene",
         r.kind = "scene" => r.revision = NextRevision,
         work'.candidate.revision = NextRevision,
         ~work'.reconfigure => work'.candidate.settings.topology = model.settings.topology
  PROVE  EngineInv'
<1> USE DEF EngineInv
<1>1. /\ engine.revision \in Nat /\ model.revision \in Nat
      /\ NextRevision = model.revision + 1 /\ requests \in Seq(Requests)
  BY DEF IInv, TypeOK, Models, NextRevision
<1>2. /\ requests' # <<>> /\ answer' = "none" /\ requests'[Len(requests')] = r
      /\ requests' = Append(requests, r)
  BY SendOK DEF IInv, Send
<1>3. LastOK'
  BY <1>2 DEF LastOK
<1>4. AloneOK'
  <2>1. requests = <<>> => Len(requests') <= 1
    BY <1>2
  <2>2. "scene" \notin torn => requests = <<>>
    BY DEF AloneOK
  <2>3. Awaiting' /\ stage' # "showing" /\ torn' = torn
    OBVIOUS
  <2> QED
    BY <2>1, <2>2, <2>3 DEF AloneOK
<1>5. CandidateOK'
  BY <1>1 DEF CandidateOK
<1>6. TopologyOK'
  <2>1. NoConfigure /\ r.kind = "scene" => NoConfigure'
    <3> SUFFICES ASSUME NoConfigure, r.kind = "scene", NEW i \in DOMAIN requests'
                 PROVE  requests'[i].kind # "configure"
      BY DEF NoConfigure
    <3>1. (i \in DOMAIN requests /\ requests'[i] = requests[i]) \/ requests'[i] = r
      BY <1>1, <1>2
    <3> QED
      BY <3>1 DEF NoConfigure
  <2>2. ~Reconfigures
    BY DEF Reconfigures
  <2> QED
    BY <2>1, <2>2 DEF TopologyOK, Reconfigures
<1>7. ShownOK'
  <2>1. SceneOf(model)' = SceneOf(model)
    BY DEF SceneOf
  <2> QED
    BY <2>1 DEF ShownOK
<1>8. RevisionOK'
  BY <1>1, <1>2 DEF RevisionOK
<1> QED
  BY <1>3, <1>4, <1>5, <1>6, <1>7, <1>8

\* Rendering a candidate on the model's topology keeps the invariant.
LEMMA RenderEngine ==
  ASSUME IInv, EngineInv, Take, NEW kind, NEW c \in Models, Render(kind, c),
         c.settings.topology = model.settings.topology
  PROVE  EngineInv'
<1> PICK d : d = Revised(c, NextRevision)
  OBVIOUS
<1>1. /\ d \in Models /\ d.revision = NextRevision
      /\ d.settings.topology = model.settings.topology
  BY TakeOK, RevisedOK
<1>2. /\ work' = [kind |-> kind, candidate |-> d, reconfigure |-> FALSE]
      /\ stage' = "scene" /\ Send(Update(d, NextRevision))
  BY DEF Render, Revised
<1>3. Update(d, NextRevision) \in Requests /\ Update(d, NextRevision) = Expected'
  <2>1. Expected' = Update(work'.candidate, work'.candidate.revision)
    BY <1>2 DEF Expected, Update, SceneOf
  <2> QED
    BY <1>1, <1>2, <2>1, TakeOK, RequestOK
<1> QED
  BY <1>1, <1>2, <1>3, RequestFields, BeginEngine DEF Take

\* A topology change or a test keeps the invariant.
LEMMA ReconfigureEngine ==
  ASSUME IInv, EngineInv, Take, NEW kind, NEW t \in Topologies, NEW c \in Models,
         Reconfigure(kind, t, c)
  PROVE  EngineInv'
<1> PICK d : d = [c EXCEPT !.revision = NextRevision, !.settings.topology = t]
  OBVIOUS
<1>1. d \in Models /\ d.revision = NextRevision /\ d.settings.topology = t
  BY TakeOK DEF Models, Settings
<1>2. work' = [kind |-> kind, candidate |-> d, reconfigure |-> t # model.settings.topology]
  BY DEF Reconfigure
<1>3. CASE t # model.settings.topology
  <2>1. stage' = "configure" /\ Send(Configure(t))
    BY <1>3 DEF Reconfigure
  <2>2. Configure(t) \in Requests /\ Configure(t) = Expected'
    <3>1. Expected' = Configure(work'.candidate.settings.topology)
      BY <2>1 DEF Expected, Configure
    <3> QED
      BY <1>1, <1>2, <3>1, RequestOK
  <2> QED
    BY <1>1, <1>2, <1>3, <2>1, <2>2, RequestFields, BeginEngine DEF Take
<1>4. CASE t = model.settings.topology
  <2>1. stage' = "scene" /\ Send(Update(d, NextRevision))
    BY <1>4 DEF Reconfigure
  <2>2. Update(d, NextRevision) \in Requests /\ Update(d, NextRevision) = Expected'
    <3>1. Expected' = Update(work'.candidate, work'.candidate.revision)
      BY <2>1 DEF Expected, Update, SceneOf
    <3> QED
      BY <1>1, <1>2, <3>1, TakeOK, RequestOK
  <2>3. work'.candidate = d /\ work'.reconfigure = FALSE
    BY <1>2, <1>4
  <2> QED
    BY <1>1, <1>4, <2>1, <2>2, <2>3, RequestFields, BeginEngine DEF Take
<1> QED
  BY <1>3, <1>4

\* Every command keeps the invariant.
LEMMA CommandEngine ==
  ASSUME IInv, EngineInv, Command
  PROVE  EngineInv'
<1>1. model \in Models /\ model.settings \in Settings
  BY DEF IInv, TypeOK, Models
<1>2. ASSUME NEW l \in Looks, NEW remember \in BOOLEAN, SetLook(l, remember)
      PROVE  EngineInv'
  <2> DEFINE c == [model EXCEPT !.look = l,
                                !.settings.playback = IF remember THEN l ELSE @]
  <2>1. c \in Models /\ c.settings.topology = model.settings.topology
    BY <1>1 DEF Models, Settings
  <2> QED
    BY <1>2, <2>1, RenderEngine DEF SetLook
<1>3. ASSUME NEW t \in Topologies, SetStripeTopology(t)
      PROVE  EngineInv'
  BY <1>1, <1>3, ReconfigureEngine DEF SetStripeTopology
<1>4. ASSUME NEW t \in Topologies, TestStripe(t)
      PROVE  EngineInv'
  <2>1. [model EXCEPT !.look = "test", !.settings.colors = Default] \in Models
    BY <1>1, ControlPlaneAssumption DEF Models, Settings
  <2> QED
    BY <1>4, <2>1, ReconfigureEngine DEF TestStripe
<1>5. ASSUME NEW output \in 1..2, StartCalibration(output)
      PROVE  EngineInv'
  <2> PICK s : s = [output |-> output, stale |-> FALSE, original |-> model.settings.colors]
    OBVIOUS
  <2>1. s \in Sessions
    BY <1>1 DEF Sessions, Settings
  <2>2. /\ [model EXCEPT !.session = s] \in Models
        /\ [model EXCEPT !.session = s].settings = model.settings
    BY <1>1, <2>1 DEF Models
  <2> QED
    BY <1>5, <2>2, RenderEngine DEF StartCalibration
<1>6. ASSUME NEW c \in Colors, UpdateCalibration(c)
      PROVE  EngineInv'
  <2>1. /\ [model EXCEPT !.settings.colors = c] \in Models
        /\ [model EXCEPT !.settings.colors = c].settings.topology = model.settings.topology
    BY <1>1 DEF Models, Settings
  <2>2. CASE Take /\ Render("calibration", [model EXCEPT !.settings.colors = c])
    BY <2>1, <2>2, RenderEngine
  <2>3. CASE Take /\ stage' = "dead" /\ UNCHANGED <<requests, answer, work>>
    BY <2>3
       DEF Take, EngineInv, LastOK, AloneOK, CandidateOK, TopologyOK, Reconfigures,
           NoConfigure, ShownOK, RevisionOK
  <2> QED
    BY <1>6, <2>2, <2>3 DEF UpdateCalibration
<1>7. ASSUME NEW save \in BOOLEAN, FinishCalibration(save)
      PROVE  EngineInv'
  <2>1. Kept(model) \in Models /\ Kept(model).settings = model.settings
    BY <1>1, DefaultsOK DEF Kept, Models
  <2>2. model.session.original \in Colors
    BY <1>1, DefaultsOK, ControlPlaneAssumption DEF Models, Sessions, NoSession
  <2>3. /\ Restored(model) \in Models
        /\ Restored(model).settings.topology = model.settings.topology
    BY <1>1, <2>2, DefaultsOK DEF Restored, Models, Settings
  <2> QED
    BY <1>7, <2>1, <2>3, RenderEngine DEF FinishCalibration
<1> QED
  BY <1>2, <1>3, <1>4, <1>5, <1>6, <1>7 DEF Command

\* A dropped command leaves in doubt what its request may still change.
LEMMA AbandonEngine ==
  ASSUME IInv, EngineInv, CallerLeaves \/ DeadlinePasses
  PROVE  EngineInv'
<1>1. /\ stage \notin {"idle", "expire", "dead"} /\ Rest
      /\ UNCHANGED <<model, engine, requests, faults>> /\ torn' = torn \union Settled
  BY DEF CallerLeaves, DeadlinePasses, Abandon
<1>2. "scene" \in torn' /\ (work.reconfigure => "topology" \in torn')
      /\ ("topology" \in torn => "topology" \in torn')
  BY <1>1 DEF Settled
<1> QED
  BY <1>1, <1>2
     DEF EngineInv, LastOK, AloneOK, CandidateOK, TopologyOK, Reconfigures, NoConfigure,
         ShownOK, RevisionOK, Rest

\* Between commands the model changes only its revision, upwards, and the age
\* of its session; an expiry begins like a command.
LEMMA TickEngine ==
  ASSUME IInv, EngineInv, Tick \/ SessionGoesStale
  PROVE  EngineInv'
<1>1. /\ stage = "idle" /\ model \in Models
      /\ engine.revision \in Nat /\ model.revision \in Nat
  BY DEF IInv, TypeOK, Models, Tick, TickBumps, TickExpires, SessionGoesStale
<1>2. ASSUME model'.settings = model.settings, SceneOf(model') = SceneOf(model),
             model'.revision \in Nat, model'.revision >= model.revision,
             UNCHANGED <<engine, requests, answer, stage, work, torn, faults>>
      PROVE  EngineInv'
  <2>1. SceneOf(model)' = SceneOf(model)
    BY <1>2 DEF SceneOf
  <2>2. engine.revision <= model.revision => engine.revision <= model'.revision
    BY <1>1, <1>2
  <2> QED
    BY <1>1, <1>2, <2>1, <2>2
       DEF EngineInv, LastOK, AloneOK, CandidateOK, TopologyOK, Reconfigures, NoConfigure,
           ShownOK, RevisionOK
<1>3. CASE TickBumps
  <2>1. Bumped(model) \in Models
    BY <1>1, BumpedOK
  <2>2. model'.revision \in Nat
    BY <1>3, <2>1 DEF TickBumps, Models
  <2> QED
    BY <1>1, <1>2, <1>3, <2>2, BumpedShows DEF TickBumps
<1>4. CASE SessionGoesStale
  <2>1. /\ model'.settings = model.settings /\ model'.revision = model.revision
        /\ model'.look = model.look
        /\ model'.session = [model.session EXCEPT !.stale = TRUE]
    BY <1>1, <1>4 DEF SessionGoesStale, Models
  <2>2. model'.session.output = model.session.output
    BY <1>1, <2>1 DEF Models, Sessions, NoSession
  <2>3. SceneOf(model') = SceneOf(model)
    BY <2>1, <2>2 DEF SceneOf
  <2> QED
    BY <1>1, <1>2, <1>4, <2>1, <2>3 DEF SessionGoesStale
<1>5. CASE TickExpires
  <2> PICK d : d = Revised(Restored(model), NextRevision)
    OBVIOUS
  <2>1. NextRevision \in Nat
    BY <1>1 DEF NextRevision
  <2>2. model.settings \in Settings /\ model.session.original \in Colors
    BY <1>1, DefaultsOK, ControlPlaneAssumption DEF Models, Sessions, NoSession
  <2>3. /\ Restored(model) \in Models
        /\ Restored(model).settings.topology = model.settings.topology
    BY <1>1, <2>2, DefaultsOK DEF Restored, Models, Settings
  <2>4. /\ d \in Models /\ d.revision = NextRevision
        /\ d.settings.topology = model.settings.topology
    BY <2>1, <2>3, RevisedOK
  <2>5. /\ work' = [kind |-> "expire", candidate |-> d, reconfigure |-> FALSE]
        /\ Send(Update(d, NextRevision)) /\ stage' = "expire"
        /\ UNCHANGED <<model, engine, torn, faults>>
    BY <1>5 DEF TickExpires, Revised
  <2>6. Update(d, NextRevision) \in Requests /\ Update(d, NextRevision) = Expected'
    <3>1. Expected' = Update(work'.candidate, work'.candidate.revision)
      BY <2>5 DEF Expected, Update, SceneOf
    <3> QED
      BY <2>1, <2>4, <2>5, <3>1, RequestOK
  <2> QED
    BY <1>1, <2>4, <2>5, <2>6, RequestFields, BeginEngine
<1> QED
  BY <1>3, <1>4, <1>5 DEF Tick

-----------------------------------------------------------------------------
(* The engine.                                                             *)

\* It executes the awaited request as the only one there is, or an abandoned
\* one, which leaves the answer and the last request alone.
Own       == Awaiting /\ answer = None /\ Len(requests) = 1
Abandoned == /\ "scene" \in torn /\ answer' = answer
             /\ Awaiting => /\ answer = None /\ requests' # <<>>
                            /\ requests'[Len(requests')] = requests[Len(requests)]

\* Which of the two it is depends on whether the request is the last.
LEMMA WhoseRequest ==
  ASSUME IInv, EngineInv, requests # <<>>, NEW a \in {"accepted", "refused"}, Reply(a)
  PROVE  \/ /\ Own /\ Head(requests) = Expected /\ requests' = <<>> /\ answer' = a
         \/ Abandoned
<1>1. requests \in Seq(Requests) /\ TypeOK /\ Len(requests) \in Nat \ {0}
  BY DEF IInv, TypeOK
<1>2. requests' = Tail(requests) /\ answer' = IF Awaiting /\ Len(requests) = 1 THEN a ELSE answer
  BY DEF Reply
<1>3. Awaiting => answer = "none"
  BY DEF EngineInv, LastOK
<1>4. CASE Awaiting /\ Len(requests) = 1
  <2>1. Head(requests) = requests[Len(requests)] /\ Tail(requests) = <<>>
    BY SMTT(30), <1>1, <1>4
  <2>2. requests[Len(requests)] = Expected
    BY <1>3, <1>4 DEF EngineInv, LastOK
  <2> QED
    BY <1>2, <1>3, <1>4, <2>1, <2>2 DEF Own
<1>5. CASE ~(Awaiting /\ Len(requests) = 1)
  <2>1. "scene" \in torn
    <3>1. \A n \in Nat \ {0} : n # 1 => ~(n <= 1)
      OBVIOUS
    <3>2. Awaiting => ~(Len(requests) <= 1)
      BY <1>1, <1>5, <3>1
    <3> QED
      BY <3>2 DEF EngineInv, AloneOK
  <2>2. answer' = answer
    BY <1>2, <1>5
  <2>3. Awaiting => requests' # <<>> /\ requests'[Len(requests')] = requests[Len(requests)]
    <3>1. Awaiting /\ answer' = "none" =>
            requests' # <<>> /\ requests'[Len(requests')] = requests[Len(requests)]
      BY <1>1, ReplyOK
    <3> QED
      BY <1>3, <2>2, <3>1
  <2> QED
    BY <1>3, <2>1, <2>2, <2>3 DEF Abandoned
<1> QED
  BY <1>4, <1>5

\* No configuration is left to execute once there was none.
LEMMA NoConfigureTail ==
  ASSUME IInv, NoConfigure, requests # <<>>, requests' = Tail(requests)
  PROVE  NoConfigure' /\ Head(requests).kind # "configure"
<1>1. requests \in Seq(Requests) /\ Len(requests) \in Nat \ {0}
  BY DEF IInv, TypeOK
<1>2. Head(requests) = requests[1] /\ 1 \in DOMAIN requests
  BY <1>1
<1>3. \A i \in DOMAIN requests' : requests'[i] = requests[i + 1] /\ i + 1 \in DOMAIN requests
  BY <1>1
<1> QED
  BY <1>2, <1>3 DEF NoConfigure

\* A scene leaves the engine on its topology, and a refused one leaves all.
LEMMA SceneExecuted ==
  ASSUME IInv, Engine, Head(requests).kind # "configure"
  PROVE  /\ engine'.topology = engine.topology
         /\ UNCHANGED engine
              \/ (ExecuteScene /\ Accepts(Head(requests)) /\ Reply("accepted"))
<1>1. ExecuteScene \/ Busy
  BY DEF Engine, ExecuteConfigure, ConfigureFails
<1>2. engine \in [topology : Topologies \union {"none"}, scene : Scenes, revision : Nat]
  BY DEF IInv, TypeOK
<1> QED
  BY <1>1, <1>2 DEF ExecuteScene, Busy

\* Executing a request keeps the invariant.
LEMMA EngineEngine ==
  ASSUME IInv, EngineInv, Engine
  PROVE  EngineInv'
<1>1. /\ requests # <<>> /\ requests' = Tail(requests)
      /\ UNCHANGED <<model, store, stage, work, torn, commands, late, lastSave>>
  BY DEF Engine, ExecuteConfigure, ConfigureFails, ExecuteScene, Busy, Reply
<1>2. PICK a \in {"accepted", "refused"} : Reply(a)
  BY DEF Engine, ExecuteConfigure, ConfigureFails, ExecuteScene, Busy
<1>3. /\ Expected' = Expected /\ Awaiting' = Awaiting /\ Reconfigures' = Reconfigures
      /\ SceneOf(model)' = SceneOf(model)
  BY <1>1 DEF Expected, Reconfigures, Configure, Update, SceneOf
<1>4. stage # "showing"
  BY <1>1 DEF EngineInv, AloneOK
<1>5. CandidateOK'
  BY <1>1 DEF EngineInv, CandidateOK
<1>6. TopologyOK'
  <2>1. NoConfigure => NoConfigure' /\ engine'.topology = engine.topology
    BY <1>1, NoConfigureTail, SceneExecuted
  <2> QED
    BY <1>1, <1>3, <2>1 DEF EngineInv, TopologyOK
<1>7. CASE Abandoned
  <2>1. LastOK'
    BY <1>1, <1>3, <1>7 DEF EngineInv, LastOK, Abandoned
  <2>2. AloneOK' /\ ShownOK' /\ RevisionOK'
    BY <1>1, <1>4, <1>7 DEF AloneOK, ShownOK, RevisionOK, Abandoned
  <2> QED
    BY <1>5, <1>6, <2>1, <2>2 DEF EngineInv
<1>8. CASE Own /\ Head(requests) = Expected /\ requests' = <<>> /\ answer' = a
  <2>1. LastOK'
    <3>1. a = "accepted" => Ran(Expected)'
      <4> SUFFICES ASSUME a = "accepted"
                   PROVE  Ran(Expected)'
        OBVIOUS
      <4>1. ExecuteConfigure \/ (ExecuteScene /\ Accepts(Head(requests)))
        BY <1>8 DEF Engine, ConfigureFails, ExecuteScene, Busy, Reply, Own
      <4>2. CASE ExecuteConfigure
        BY <1>3, <1>8, <4>2 DEF ExecuteConfigure, Unconfigured, Ran
      <4>3. CASE ExecuteScene /\ Accepts(Head(requests))
        <5>1. engine' = [engine EXCEPT !.scene = Expected.scene, !.revision = Expected.revision]
          BY <1>8, <4>3 DEF ExecuteScene
        <5>2. Expected.kind = "scene"
          BY <1>8, <4>3 DEF ExecuteScene
        <5>3. engine'.scene = Expected.scene /\ engine'.revision = Expected.revision
          BY <5>1 DEF IInv, TypeOK
        <5> QED
          BY <1>3, <5>2, <5>3 DEF Ran
      <4> QED
        BY <4>1, <4>2, <4>3
    <3> QED
      BY <1>3, <1>8, <3>1 DEF LastOK
  <2>2. AloneOK'
    BY <1>1, <1>8 DEF AloneOK
  <2>3. ShownOK'
    <3> SUFFICES ASSUME "scene" \notin torn, stage \in {"scene", "expire"},
                        ~work.reconfigure, answer' # "accepted"
                 PROVE  engine'.scene = SceneOf(model)
      BY <1>1, <1>3, <1>8 DEF ShownOK, Own
    <3>1. Head(requests).kind = "scene"
      BY <1>8, ExpectedIs, RequestFields
    <3>2. UNCHANGED engine
      BY <1>8, <3>1, SceneExecuted DEF Reply, Own
    <3> QED
      BY <1>8, <3>2 DEF EngineInv, ShownOK, Own
  <2>4. RevisionOK'
    <3> SUFFICES ASSUME faults' = 0, torn = {}
                 PROVE  answer' # "refused"
      BY <1>1, <1>4, <1>8 DEF RevisionOK, Own
    <3>1. ExecuteConfigure \/ (ExecuteScene /\ faults = 0)
      BY DEF Engine, ConfigureFails, ExecuteScene, Busy, IInv, TypeOK
    <3>2. CASE ExecuteConfigure
      BY <1>8, <3>2 DEF ExecuteConfigure, Reply, Own
    <3>3. CASE ExecuteScene /\ faults = 0
      <4>1. Expected.kind = "scene" /\ Head(requests) = Expected
        BY <1>8, <3>3 DEF ExecuteScene
      <4>2. Expected.revision > engine.revision
        <5>1. engine.revision < Expected.revision
          BY <1>8, <3>3, <4>1 DEF EngineInv, RevisionOK, Own
        <5>2. Expected.revision \in Nat /\ engine.revision \in Nat
          BY <1>1, <4>1, HeadOK DEF IInv, TypeOK, Requests
        <5> QED
          BY <5>1, <5>2
      <4>3. Expected.scene.topology = engine.topology /\ engine.topology \in Topologies
        <5>1. stage \in {"scene", "expire", "undo", "restore"}
          <6>1. stage \notin ConfigureStages
            BY <4>1, ExpectedIs, RequestFields
          <6> QED
            BY <1>8, <6>1 DEF IInv, TypeOK, Own
        <5>2. /\ work.candidate.settings.topology \in Topologies
              /\ model.settings.topology \in Topologies
          BY <5>1, WorkOK DEF Models, Settings
        <5>3. stage = "expire" \/ stage = "undo" => ~work.reconfigure
          BY DEF IInv, PlacesOK, EngineInv, CandidateOK
        <5>4. CASE stage \in {"scene", "expire"}
          <6>1. Expected.scene.topology = work.candidate.settings.topology
            BY <5>4, ExpectedIs, RequestFields
          <6>2. engine.topology = work.candidate.settings.topology
            BY <5>3, <5>4 DEF EngineInv, TopologyOK, CandidateOK, Reconfigures
          <6> QED
            BY <5>2, <6>1, <6>2
        <5>5. CASE stage \in {"undo", "restore"}
          <6>1. Expected.scene.topology = model.settings.topology
            BY <5>5, ExpectedIs, RequestFields
          <6>2. engine.topology = model.settings.topology
            BY <5>3, <5>5 DEF EngineInv, TopologyOK, Reconfigures
          <6> QED
            BY <5>2, <6>1, <6>2
        <5> QED
          BY <5>1, <5>4, <5>5
      <4>4. engine.topology # "none" => Accepts(Head(requests))
        BY <4>1, <4>2, <4>3 DEF Accepts
      <4>5. engine.topology # "none"
        BY <4>3, ControlPlaneAssumption
      <4> QED
        BY <1>8, <3>3, <4>4, <4>5 DEF ExecuteScene, Reply, Own
    <3> QED
      BY <3>1, <3>2, <3>3
  <2> QED
    BY <1>5, <1>6, <2>1, <2>2, <2>3, <2>4 DEF EngineInv
<1> QED
  BY <1>1, <1>2, <1>7, <1>8, WhoseRequest

-----------------------------------------------------------------------------
(* The theorems.                                                           *)

\* Every step keeps the invariant.
LEMMA EngineNext == IInv /\ EngineInv /\ [Next]_vars => EngineInv'
<1> SUFFICES ASSUME IInv, EngineInv, [Next]_vars
             PROVE  EngineInv'
  OBVIOUS
<1>1. CASE UNCHANGED vars
  BY <1>1
     DEF vars, EngineInv, LastOK, Expected, Ran, AloneOK, CandidateOK, TopologyOK,
         Reconfigures, NoConfigure, ShownOK, RevisionOK, SceneOf, Update, Configure
<1> QED
  BY <1>1, CommandEngine, WorkerEngine, EngineEngine, TickEngine, AbandonEngine
     DEF Next, Quiet

\* What is on its way to the engine is always known.
THEOREM EngineInvariant == Spec => []EngineInv
<1>1. Init => EngineInv
  BY EngineInit
<1>2. IInv /\ EngineInv /\ [Next]_vars => EngineInv'
  BY EngineNext
<1> QED
  BY <1>1, <1>2, Invariant, PTL DEF Spec

\* Between commands the engine runs the model's scene on the model's topology,
\* unless a dropped command or a failed rollback has left it in doubt: commit,
\* rollback_topology, restore_engine_topology and the tick lose nothing.
THEOREM EngineStaysInStep == Spec => []EngineAgrees
<1>1. EngineInv => EngineAgrees
  BY DEF EngineInv, ShownOK, TopologyOK, Reconfigures, EngineAgrees
<1> QED
  BY <1>1, EngineInvariant, PTL

\* The engine never refuses a scene of a dashboard that has nothing in doubt:
\* the revision of ControlModel has passed every one the engine has seen.
THEOREM RefusalsHaveACause == Spec => []RefusedForCause
<1>1. IInv /\ EngineInv => RefusedForCause
  BY DEF IInv, TypeOK, EngineInv, RevisionOK, RefusedForCause
<1> QED
  BY <1>1, Invariant, EngineInvariant, PTL
===============================================================================
