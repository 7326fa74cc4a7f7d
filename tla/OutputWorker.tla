----------------------------- MODULE OutputWorker -----------------------------
(***************************************************************************)
(* The LED output worker of crates/lumistripe-engine-runtime/src/lib.rs:   *)
(* the latest-wins work queue, the output thread that owns the devices,    *)
(* the frame-scheduler thread, and the threads that call configure,        *)
(* submit_frame, submit_render, submit_scene_update, submit_audio_update   *)
(* and shutdown.  One action is one critical section of the queue mutex    *)
(* (with the health mutex nested in it), or one device call together with  *)
(* the critical section that publishes its result: nobody else reads or    *)
(* writes the devices, so the two cannot be told apart.                    *)
(*                                                                         *)
(* The engine dispatcher is the only thread that configures, submits       *)
(* renders and scenes, and shuts the worker down; frame streams and the    *)
(* audio worker run beside it.  dispatcher.step # "free" also stands for   *)
(* the command_order mutex, which the dispatcher holds across those calls  *)
(* and which submit_audio_update takes.                                    *)
(***************************************************************************)
EXTENDS Integers, Sequences, FiniteSets

CONSTANTS
  Devices,      \* physical outputs a configuration can name
  Seqs,         \* frame, render and scene sequence numbers
  AudioSeqs,    \* audio update sequence numbers
  MaxAccepted   \* bound: submissions accepted in one behaviour

ASSUME OutputWorkerAssumption ==
  /\ Seqs \subseteq Nat \ {0}
  /\ AudioSeqs \subseteq Nat \ {0}
  /\ MaxAccepted \in Nat

VARIABLES
  \* WorkQueue
  commands,        \* configure and shutdown requests, oldest first
  commandPending,  \* a reserved configuration has not finished
  closed,          \* shutdown has begun
  slots,           \* indices of frame_buffers that hold a buffer
  pendingFrame,    \* latest raw frame not yet taken
  pendingRender,   \* latest render request not yet taken
  schedule,        \* the scene the frame scheduler repeats
  lastRequest,     \* last_render_request_sequence
  \* RuntimeHealth
  configured,
  lastSequence,
  sceneRevision,
  unaccounted,     \* work queued minus work counted rendered, dropped or failed
  \* output thread
  workerPc,
  active,          \* the item it works on
  opened,          \* there is an OutputSet
  open,            \* its devices
  lit,             \* devices that may show a non-black frame
  abandoned,       \* devices dropped after a blackout of them failed
  \* frame scheduler thread
  schedulerPc,
  \* callers
  dispatcher,      \* [step, arg]: where the dispatcher is in its call
  reply,           \* what the worker answered to the waiting dispatcher
  shutdownResult,
  \* history
  accepted,        \* number of accepted submissions, the newest one's stamp
  started          \* stamp of the newest item the output thread has taken

gateVars    == <<commands, commandPending, closed>>
queueVars   == <<gateVars, slots, pendingFrame, pendingRender, schedule,
                 lastRequest>>
statusVars  == <<configured, lastSequence, sceneRevision>>
healthVars  == <<statusVars, unaccounted>>
deviceVars  == <<opened, open, lit, abandoned>>
workerVars  == <<workerPc, active>>
answerVars  == <<reply, shutdownResult>>
callerVars  == <<dispatcher, answerVars>>
historyVars == <<accepted, started>>
vars == <<queueVars, healthVars, deviceVars, workerVars, schedulerPc,
          callerVars, historyVars>>

-----------------------------------------------------------------------------
(* Data.  Sequence 0 and stamp 0 stand for None.                           *)

Slots  == {1, 2}
Stamps == 1..MaxAccepted
SeqsOrNone   == {0} \union Seqs
StampsOrNone == {0} \union Stamps

Frame  == [slot : Slots, seq : Seqs, stamp : Stamps]
NoFrame == [slot |-> 0, seq |-> 0, stamp |-> 0]

\* shared: the render holds the very Arc the schedule holds.
\* fresh:  it shows what the schedule shows.
Render == [seq : Seqs, stamp : Stamps, shared : BOOLEAN, fresh : BOOLEAN]
NoRender == [seq |-> 0, stamp |-> 0, shared |-> FALSE, fresh |-> FALSE]

\* audio: last_audio_update_sequence.
Schedule == [seq : Seqs, stamp : Stamps, audio : {0} \union AudioSeqs]
NoSchedule == [seq |-> 0, stamp |-> 0, audio |-> 0]

Command == [kind : {"configure"}, config : SUBSET Devices]
             \union {[kind |-> "shutdown", config |-> {}]}

\* What the output thread works on: a frame, a render or a command.
Item == [kind : {"none", "frame", "render", "configure", "shutdown"},
         slot : {0} \union Slots, seq : SeqsOrNone, stamp : StampsOrNone,
         shared : BOOLEAN, config : SUBSET Devices]
CommandItem(c) == [kind |-> c.kind, slot |-> 0, seq |-> 0, stamp |-> 0,
                   shared |-> FALSE, config |-> c.config]
NoItem == CommandItem([kind |-> "none", config |-> {}])

One(present) == IF present THEN 1 ELSE 0
HasFrame    == pendingFrame # NoFrame
HasRender   == pendingRender # NoRender
HasSchedule == schedule # NoSchedule
FirstSlot   == CHOOSE i \in slots : \A j \in slots : i <= j

Wake(pc) == IF pc = "parked" THEN "idle" ELSE pc

\* Faulty variants of definitions stand before them; each names the mistake.
NotifySchedulerOnly == schedulerPc' = Wake(schedulerPc) /\ UNCHANGED workerPc

\* notify_queue_changed: both condition variables are signalled.
NotifyQueueChanged ==
  /\ workerPc' = Wake(workerPc)
  /\ schedulerPc' = Wake(schedulerPc)

\* The schedule's Arc was replaced or dropped: the render being worked on no
\* longer shares it.
DetachActive == active' = [active EXCEPT !.shared = FALSE]

KeepSchedule == DetachActive /\ UNCHANGED schedule
EndSchedule == schedule' = NoSchedule /\ DetachActive

\* configure and shutdown drop what is queued, and count it dropped.
ClearWork ==
  /\ EndSchedule
  /\ pendingFrame' = NoFrame
  /\ pendingRender' = NoRender
  /\ unaccounted' = unaccounted - One(HasFrame) - One(HasRender)

Accepting == ~closed /\ configured
Accept == accepted' = accepted + 1

Init ==
  /\ commands = <<>> /\ commandPending = FALSE /\ closed = FALSE
  /\ slots = {} /\ pendingFrame = NoFrame /\ pendingRender = NoRender
  /\ schedule = NoSchedule /\ lastRequest = 0
  /\ configured = FALSE /\ lastSequence = 0 /\ sceneRevision = 0
  /\ unaccounted = 0
  /\ workerPc = "idle" /\ active = NoItem
  /\ opened = FALSE /\ open = {} /\ lit = {} /\ abandoned = {}
  /\ schedulerPc = "idle"
  /\ dispatcher = [step |-> "free", arg |-> 0] /\ reply = "none"
  /\ shutdownResult = "none"
  /\ accepted = 0 /\ started = 0

-----------------------------------------------------------------------------
(* Callers of the worker.  A call that fails before it changes anything (not
   configured, closed, an invalid or out-of-order request) is a stuttering
   step and has no action.  Whether a request's contents are valid, its
   timestamps included, is the caller's choice to make a valid one.        *)

Enter(step, arg) == dispatcher' = [step |-> step, arg |-> arg]
Leave == Enter("free", 0)
DispatcherAt(step) == dispatcher.step = step

\* A raw frame of the configured size: it ends the schedule, takes the place
\* of a pending render, and overwrites the pending frame in its buffer or
\* fills the first free one.
SubmitFrame(seq) ==
  /\ accepted < MaxAccepted
  /\ Accepting
  /\ HasFrame \/ slots # {}
  /\ EndSchedule
  /\ pendingRender' = NoRender
  /\ pendingFrame' = [slot |-> IF HasFrame THEN pendingFrame.slot ELSE FirstSlot,
                      seq |-> seq, stamp |-> accepted + 1]
  /\ unaccounted' = unaccounted + 1 - One(HasRender) - One(HasFrame)
  /\ Accept
  /\ NotifyQueueChanged
  /\ UNCHANGED <<gateVars, slots, lastRequest, statusVars, deviceVars,
                 callerVars, started>>

\* A frame of the wrong size, or one no buffer is free for, is answered with
\* InvalidFrame after the schedule and the pending render are gone; nobody is
\* notified.
RejectFrame ==
  /\ Accepting
  /\ EndSchedule
  /\ pendingRender' = NoRender
  /\ unaccounted' = unaccounted - One(HasRender)
  /\ UNCHANGED <<gateVars, slots, pendingFrame, lastRequest, statusVars,
                 deviceVars, workerPc, schedulerPc, callerVars, historyVars>>

LatestSequence == IF lastRequest > lastSequence THEN lastRequest ELSE lastSequence

MayRender(seq) == Accepting /\ seq > LatestSequence

\* submit_render without a scheduler: one frame, and the schedule ends.
SubmitDirectRender(seq) ==
  /\ accepted < MaxAccepted
  /\ DispatcherAt("free") /\ MayRender(seq)
  /\ pendingRender.seq < seq
  /\ lastRequest' = seq
  /\ EndSchedule
  /\ pendingRender' = [seq |-> seq, stamp |-> accepted + 1,
                       shared |-> FALSE, fresh |-> TRUE]
  /\ unaccounted' = unaccounted + 1 - One(HasRender)
  /\ Accept
  /\ NotifyQueueChanged
  /\ UNCHANGED <<gateVars, slots, pendingFrame, statusVars, deviceVars,
                 callerVars, started>>

\* enqueue_latest_render refuses a direct render that is not newer than the
\* pending one; by then its sequence is recorded and the schedule is gone.
RejectDirectRender(seq) ==
  /\ DispatcherAt("free") /\ MayRender(seq)
  /\ pendingRender.seq >= seq
  /\ lastRequest' = seq
  /\ EndSchedule
  /\ pendingRender' = [pendingRender EXCEPT !.shared = FALSE]
  /\ UNCHANGED <<gateVars, slots, pendingFrame, healthVars, deviceVars,
                 workerPc, schedulerPc, callerVars, historyVars>>

\* The schedule a render request with a scheduler installs: it replaces the
\* old one, keeps its audio position, and drops the pending render.
InstallSchedule(seq) ==
  /\ schedule' = [seq |-> seq, stamp |-> accepted + 1, audio |-> schedule.audio]
  /\ pendingRender' = NoRender
  /\ unaccounted' = unaccounted - One(HasRender)
  /\ Accept
  /\ DetachActive
  /\ NotifyQueueChanged
  /\ UNCHANGED <<gateVars, slots, pendingFrame, configured, lastSequence,
                 deviceVars, answerVars, started>>

SubmitScheduledRender(seq) ==
  /\ accepted < MaxAccepted
  /\ DispatcherAt("free") /\ MayRender(seq)
  /\ lastRequest' = seq
  /\ InstallSchedule(seq)
  /\ UNCHANGED <<sceneRevision, dispatcher>>

\* submit_scene_update checks the revision, then lets go of the locks ...
BeginScene(revision) ==
  /\ DispatcherAt("free")
  /\ revision > sceneRevision
  /\ Enter("scene", revision)
  /\ UNCHANGED <<queueVars, healthVars, deviceVars, workerVars, schedulerPc,
                 answerVars, historyVars>>

\* ... installs the scene as a scheduled render whose order is not checked
\* again ...
InstallScene ==
  /\ accepted < MaxAccepted
  /\ DispatcherAt("scene")
  /\ Accepting
  /\ InstallSchedule(dispatcher.arg)
  /\ Enter("commit", dispatcher.arg)
  /\ UNCHANGED <<lastRequest, sceneRevision>>

FailScene ==
  /\ DispatcherAt("scene")
  /\ ~Accepting
  /\ Leave
  /\ UNCHANGED <<queueVars, healthVars, deviceVars, workerVars, schedulerPc,
                 answerVars, historyVars>>

\* ... and records the revision last.
CommitScene ==
  /\ DispatcherAt("commit")
  /\ sceneRevision' = dispatcher.arg
  /\ Leave
  /\ UNCHANGED <<queueVars, configured, lastSequence, unaccounted, deviceVars,
                 workerVars, schedulerPc, answerVars, historyVars>>

\* submit_audio_update: the schedule and the pending render get the new audio
\* (Arc::make_mut leaves the render being worked on with the old Arc).  An
\* update that is not newer than the last one is ignored.
SubmitAudioUpdate(seq) ==
  /\ DispatcherAt("free")
  /\ Accepting /\ HasSchedule
  /\ seq > schedule.audio
  /\ schedule' = [schedule EXCEPT !.audio = seq]
  /\ pendingRender' = IF HasRender
                        THEN [pendingRender EXCEPT !.shared = TRUE, !.fresh = TRUE]
                        ELSE NoRender
  /\ DetachActive
  /\ NotifyQueueChanged
  /\ UNCHANGED <<gateVars, slots, pendingFrame, lastRequest, healthVars,
                 deviceVars, callerVars, historyVars>>

-----------------------------------------------------------------------------
(* configure: reserve, wait for the output thread, at most CONFIGURE_TIMEOUT. *)

ReserveConfigure(config) ==
  /\ DispatcherAt("free")
  /\ ~closed /\ ~commandPending
  /\ commandPending' = TRUE
  /\ commands' = Append(commands, [kind |-> "configure", config |-> config])
  /\ ClearWork
  /\ lastRequest' = 0
  /\ configured' = FALSE
  /\ lastSequence' = 0
  /\ sceneRevision' = 0
  /\ NotifyQueueChanged
  /\ Enter("configuring", 0)
  /\ UNCHANGED <<closed, slots, deviceVars, answerVars, historyVars>>

ConfigureReturns ==
  /\ DispatcherAt("configuring")
  /\ reply # "none"
  /\ reply' = "none"
  /\ Leave
  /\ UNCHANGED <<queueVars, healthVars, deviceVars, workerVars, schedulerPc,
                 shutdownResult, historyVars>>

\* The caller gives up and drops its receiver; the command stays queued.
ConfigureTimesOut ==
  /\ DispatcherAt("configuring")
  /\ reply = "none"
  /\ Leave
  /\ UNCHANGED <<queueVars, healthVars, deviceVars, workerVars, schedulerPc,
                 answerVars, historyVars>>

-----------------------------------------------------------------------------
(* shutdown: close the queue, join the scheduler, and wait five seconds for
   the output thread's answer.                                             *)

BeginShutdown ==
  /\ DispatcherAt("free")
  /\ ~closed
  /\ closed' = TRUE
  /\ ClearWork
  /\ commands' = Append(commands, [kind |-> "shutdown", config |-> {}])
  /\ NotifyQueueChanged
  /\ Enter("joining", 0)
  /\ UNCHANGED <<commandPending, slots, lastRequest, statusVars, deviceVars,
                 answerVars, historyVars>>

JoinScheduler ==
  /\ DispatcherAt("joining")
  /\ schedulerPc = "stopped"
  /\ Enter("awaiting", 0)
  /\ UNCHANGED <<queueVars, healthVars, deviceVars, workerVars, schedulerPc,
                 answerVars, historyVars>>

ShutdownReturns ==
  /\ DispatcherAt("awaiting")
  /\ reply # "none" /\ workerPc = "stopped"
  /\ shutdownResult' = reply
  /\ reply' = "none"
  /\ Enter("down", 0)
  /\ UNCHANGED <<queueVars, healthVars, deviceVars, workerVars, schedulerPc,
                 historyVars>>

\* The stalled output thread is detached; it may still finish later.
ShutdownTimesOut ==
  /\ DispatcherAt("awaiting")
  /\ reply = "none"
  /\ shutdownResult' = "timeout"
  /\ Enter("down", 0)
  /\ UNCHANGED <<queueVars, healthVars, deviceVars, workerVars, schedulerPc,
                 reply, historyVars>>

Dispatcher ==
  \/ \E seq \in Seqs : \/ SubmitDirectRender(seq) \/ RejectDirectRender(seq)
                       \/ SubmitScheduledRender(seq) \/ BeginScene(seq)
  \/ InstallScene \/ FailScene \/ CommitScene
  \/ \E config \in SUBSET Devices : ReserveConfigure(config)
  \/ ConfigureReturns \/ ConfigureTimesOut
  \/ BeginShutdown \/ JoinScheduler
  \/ ShutdownReturns \/ ShutdownTimesOut

-----------------------------------------------------------------------------
(* frame_scheduler_loop.  The deadline is abstracted: a schedule comes due
   some time after it is installed and again after every tick.             *)

SchedulerPark ==
  /\ schedulerPc = "idle"
  /\ ~closed /\ ~HasSchedule
  /\ schedulerPc' = "parked"
  /\ UNCHANGED <<queueVars, healthVars, deviceVars, workerVars, callerVars,
                 historyVars>>

ScheduleFrame ==
  /\ schedulerPc = "idle"
  /\ ~closed /\ HasSchedule
  /\ pendingRender' = [seq |-> schedule.seq, stamp |-> schedule.stamp,
                       shared |-> TRUE, fresh |-> TRUE]
  /\ unaccounted' = unaccounted + 1 - One(HasRender)
  /\ workerPc' = Wake(workerPc)
  /\ UNCHANGED <<gateVars, slots, pendingFrame, schedule, lastRequest,
                 statusVars, deviceVars, active, schedulerPc, callerVars,
                 historyVars>>

SchedulerStop ==
  /\ schedulerPc = "idle"
  /\ closed
  /\ schedulerPc' = "stopped"
  /\ UNCHANGED <<queueVars, healthVars, deviceVars, workerVars, callerVars,
                 historyVars>>

FrameScheduler == SchedulerPark \/ ScheduleFrame \/ SchedulerStop

-----------------------------------------------------------------------------
(* output_worker_loop: choose the next item ...                            *)

WorkerPark ==
  /\ workerPc = "idle"
  /\ commands = <<>> /\ ~HasFrame /\ ~HasRender /\ ~closed
  /\ workerPc' = "parked"
  /\ UNCHANGED <<queueVars, healthVars, deviceVars, active, schedulerPc,
                 callerVars, historyVars>>

TakeCommand ==
  /\ workerPc = "idle"
  /\ commands # <<>>
  /\ active' = CommandItem(Head(commands))
  /\ commands' = Tail(commands)
  /\ workerPc' = Head(commands).kind
  /\ UNCHANGED <<commandPending, closed, slots, pendingFrame, pendingRender,
                 schedule, lastRequest, healthVars, deviceVars, schedulerPc,
                 callerVars, historyVars>>

\* A render wins over a pending frame that is not newer by sequence, and uses
\* that frame's buffer; otherwise it uses the first free one.
RenderGoesFirst == HasRender /\ (HasFrame => pendingRender.seq >= pendingFrame.seq)

TakeRender ==
  /\ workerPc = "idle"
  /\ commands = <<>> /\ RenderGoesFirst /\ slots # {}
  /\ LET slot == IF HasFrame THEN pendingFrame.slot ELSE FirstSlot
     IN /\ slots' = slots \ {slot}
        /\ active' = [kind |-> "render", slot |-> slot,
                      seq |-> pendingRender.seq, stamp |-> pendingRender.stamp,
                      shared |-> pendingRender.shared, config |-> {}]
  /\ started' = pendingRender.stamp
  /\ pendingRender' = NoRender
  /\ pendingFrame' = NoFrame
  /\ unaccounted' = unaccounted - One(HasFrame)
  /\ workerPc' = "write"
  /\ UNCHANGED <<gateVars, schedule, lastRequest, statusVars, deviceVars,
                 schedulerPc, callerVars, accepted>>

TakeFrame ==
  /\ workerPc = "idle"
  /\ commands = <<>> /\ HasFrame /\ ~RenderGoesFirst
  /\ slots' = slots \ {pendingFrame.slot}
  /\ active' = [kind |-> "frame", slot |-> pendingFrame.slot,
                seq |-> pendingFrame.seq, stamp |-> pendingFrame.stamp,
                shared |-> FALSE, config |-> {}]
  /\ started' = pendingFrame.stamp
  /\ pendingFrame' = NoFrame
  /\ workerPc' = "write"
  /\ UNCHANGED <<gateVars, pendingRender, schedule, lastRequest, healthVars,
                 deviceVars, schedulerPc, callerVars, accepted>>

-----------------------------------------------------------------------------
(* ... write it to the devices ...                                         *)

\* A write that fails on one device may have reached the others.
WriteToDevices == lit' = lit \union open /\ UNCHANGED <<opened, open,
                                                        abandoned>>

RecordUncounted ==
  /\ lastSequence' = active.seq
  /\ UNCHANGED <<configured, sceneRevision, unaccounted>>

\* record_frame and record_error count the item exactly once.
RecordFrame ==
  /\ lastSequence' = active.seq
  /\ unaccounted' = unaccounted - 1
  /\ UNCHANGED <<configured, sceneRevision>>

WriteFails ==
  /\ workerPc = "write"
  /\ WriteToDevices
  /\ unaccounted' = unaccounted - 1
  /\ workerPc' = "return"
  /\ UNCHANGED <<queueVars, statusVars, active, schedulerPc, callerVars,
                 historyVars>>

WriteFrame ==
  /\ workerPc = "write" /\ active.kind = "frame"
  /\ opened
  /\ WriteToDevices
  /\ RecordFrame
  /\ workerPc' = "return"
  /\ UNCHANGED <<queueVars, active, schedulerPc, callerVars, historyVars>>

\* advance_cycle_after_render: only a render whose Arc is still the schedule's
\* advances it.  Arc::make_mut copies the request (copied); when its contents
\* changed, a pending render of the old contents is dropped.
StalePending(changed) == changed /\ HasRender /\ pendingRender.shared

AdvanceCycle(copied, changed) ==
  /\ changed => copied
  /\ copied => HasSchedule /\ active.shared
  /\ pendingRender' = IF StalePending(changed) \/ ~HasRender THEN NoRender
                      ELSE [pendingRender EXCEPT !.shared = @ /\ ~copied,
                                                 !.fresh = @ /\ ~changed]
  /\ unaccounted' = unaccounted - One(StalePending(changed))
  /\ active' = [active EXCEPT !.shared = @ /\ ~copied]
  /\ schedulerPc' = IF changed THEN Wake(schedulerPc) ELSE schedulerPc

WriteRender ==
  /\ workerPc = "write" /\ active.kind = "render"
  /\ opened
  /\ WriteToDevices
  /\ \E copied, changed \in BOOLEAN : AdvanceCycle(copied, changed)
  /\ workerPc' = "record"
  /\ UNCHANGED <<gateVars, slots, pendingFrame, schedule, lastRequest,
                 statusVars, callerVars, historyVars>>

RecordRender ==
  /\ workerPc = "record"
  /\ RecordFrame
  /\ workerPc' = "return"
  /\ UNCHANGED <<queueVars, deviceVars, active, schedulerPc, callerVars,
                 historyVars>>

ReturnBuffer ==
  /\ workerPc = "return"
  /\ slots' = slots \union {active.slot}
  /\ active' = NoItem
  /\ workerPc' = "idle"
  /\ UNCHANGED <<gateVars, pendingFrame, pendingRender, schedule, lastRequest,
                 healthVars, deviceVars, schedulerPc, callerVars, historyVars>>

-----------------------------------------------------------------------------
(* ... or run a command.  A blackout writes black to every device of the
   set, past devices that fail; failed is the set of those.                 *)

BlackoutOneDevice(failed) == lit \ {d \in open \ failed : \A e \in open : e = d}
Blackout(failed) == lit \ (open \ failed)

\* The answer reaches the caller if it still waits.
AnswerSuccessOnly(result) ==
  reply' = IF DispatcherAt("configuring") /\ result = "ok" THEN result ELSE reply
AnswerConfigure(result) ==
  reply' = IF DispatcherAt("configuring") THEN result ELSE reply

FinishConfigure(ok, config) ==
  /\ slots' = IF ok THEN Slots ELSE {}
  /\ commandPending' = FALSE
  /\ configured' = ok
  /\ opened' = ok
  /\ open' = IF ok THEN config ELSE {}
  /\ AnswerConfigure(IF ok THEN "ok" ELSE "err")
  /\ active' = NoItem
  /\ workerPc' = "idle"
  /\ UNCHANGED <<commands, closed, pendingFrame, pendingRender, schedule,
                 lastRequest, sceneRevision, unaccounted, schedulerPc,
                 dispatcher, shutdownResult, historyVars>>

\* OutputSet::open writes black to each new device before it succeeds.
OpenOutputs ==
  /\ workerPc = "configure"
  /\ lit' = Blackout({}) \ active.config
  /\ lastSequence' = 0
  /\ FinishConfigure(TRUE, active.config)
  /\ UNCHANGED abandoned

\* Devices opened before the one that fails are black.
OpenOutputsFails ==
  /\ workerPc = "configure"
  /\ active.config # {}
  /\ \E black \in SUBSET active.config :
       /\ black # active.config
       /\ lit' = Blackout({}) \ black
  /\ FinishConfigure(FALSE, {})
  /\ UNCHANGED <<lastSequence, abandoned>>

\* The old OutputSet has been taken and is dropped with its lit devices.
ConfigureBlackoutFails ==
  /\ workerPc = "configure"
  /\ \E failed \in SUBSET open :
       /\ failed # {}
       /\ lit' = Blackout(failed)
       /\ abandoned' = abandoned \union (failed \intersect lit)
  /\ FinishConfigure(FALSE, {})
  /\ UNCHANGED lastSequence

ShutDownOutputs ==
  /\ workerPc = "shutdown"
  /\ \E failed \in SUBSET open :
       /\ lit' = Blackout(failed)
       /\ reply' = IF DispatcherAt("down") THEN reply
                   ELSE IF failed = {} THEN "ok" ELSE "err"
  /\ configured' = FALSE
  /\ opened' = FALSE /\ open' = {}
  /\ active' = NoItem
  /\ workerPc' = "stopped"
  /\ UNCHANGED <<queueVars, lastSequence, sceneRevision, unaccounted,
                 abandoned, schedulerPc, dispatcher, shutdownResult,
                 historyVars>>

OutputThread ==
  \/ WorkerPark \/ TakeCommand \/ TakeRender \/ TakeFrame
  \/ WriteFails \/ WriteFrame \/ WriteRender \/ RecordRender \/ ReturnBuffer
  \/ OpenOutputs \/ OpenOutputsFails \/ ConfigureBlackoutFails
  \/ ShutDownOutputs

-----------------------------------------------------------------------------

\* Every thread has returned from what it was started for.
Finished ==
  /\ DispatcherAt("down")
  /\ workerPc = "stopped" /\ schedulerPc = "stopped"
  /\ UNCHANGED vars

FrameStream == RejectFrame \/ \E seq \in Seqs : SubmitFrame(seq)
AudioWorker == \E seq \in AudioSeqs : SubmitAudioUpdate(seq)

Next == Dispatcher \/ FrameStream \/ AudioWorker
          \/ FrameScheduler \/ OutputThread \/ Finished

\* The operating system keeps running the two threads, device calls return,
\* a due deadline passes, and a call in progress goes on; nobody is obliged to
\* start a call, and no call is obliged to time out.
Fairness ==
  /\ WF_vars(OutputThread)
  /\ WF_vars(FrameScheduler)
  /\ WF_vars(InstallScene) /\ WF_vars(FailScene) /\ WF_vars(CommitScene)
  /\ WF_vars(ConfigureReturns)
  /\ WF_vars(JoinScheduler)
  /\ WF_vars(ShutdownReturns)

Spec == Init /\ [][Next]_vars /\ Fairness

-----------------------------------------------------------------------------
(* What makes the worker correct.                                          *)

TypeOK ==
  /\ commands \in Seq(Command)
  /\ commandPending \in BOOLEAN /\ closed \in BOOLEAN
  /\ slots \subseteq Slots
  /\ pendingFrame \in Frame \union {NoFrame}
  /\ pendingRender \in Render \union {NoRender}
  /\ schedule \in Schedule \union {NoSchedule}
  /\ lastRequest \in SeqsOrNone
  /\ configured \in BOOLEAN
  /\ lastSequence \in SeqsOrNone /\ sceneRevision \in SeqsOrNone
  /\ unaccounted \in Int
  /\ workerPc \in {"idle", "parked", "configure", "shutdown", "write",
                   "record", "return", "stopped"}
  /\ active \in Item
  /\ opened \in BOOLEAN
  /\ open \subseteq Devices /\ lit \subseteq Devices /\ abandoned \subseteq Devices
  /\ schedulerPc \in {"idle", "parked", "stopped"}
  /\ dispatcher \in [step : {"free", "scene", "commit", "configuring",
                             "joining", "awaiting", "down"}, arg : SeqsOrNone]
  /\ reply \in {"none", "ok", "err"}
  /\ shutdownResult \in {"none", "ok", "err", "timeout"}
  /\ accepted \in StampsOrNone /\ started \in StampsOrNone

\* Every frame and render that was queued is counted rendered, dropped or
\* failed exactly once, however it was displaced: what is not yet counted is
\* exactly what is still pending or on its way to the devices.
FrameAccounting ==
  unaccounted = One(HasFrame) + One(HasRender) + One(workerPc \in {"write", "record"})

\* The two preallocated buffers: the output thread's buffer is out of the
\* queue until it is returned, a pending frame's buffer is in the queue, and
\* whenever the thread looks for work a configured worker owns them all, so
\* the `expect`s of output_worker_loop cannot fail.
BufferOwnership ==
  /\ workerPc \in {"write", "record", "return"} => active.slot \notin slots
  /\ HasFrame => pendingFrame.slot \in slots
  /\ configured => slots # {}
  /\ HasRender => slots # {}

\* A thread sleeps on its condition variable only while it has nothing to do:
\* no submission, configuration or shutdown is ever missed by a sleeper.
NoLostWakeup ==
  /\ workerPc = "parked" => commands = <<>> /\ ~HasFrame /\ ~HasRender /\ ~closed
  /\ schedulerPc = "parked" => ~HasSchedule /\ ~closed

\* A render waiting for the output thread shows what the schedule shows now,
\* also after audio updates, new scenes and selector or cycle steps that
\* changed the schedule while it waited.
PendingRenderIsCurrent ==
  HasSchedule /\ HasRender =>
    /\ pendingRender.seq = schedule.seq /\ pendingRender.stamp = schedule.stamp
    /\ pendingRender.fresh

\* Latest wins: the LEDs never go back to a submission older than one the
\* output thread has already taken.
LatestWins == [][started' >= started]_vars

\* While nothing is configured nothing is queued for the devices, and work is
\* only done on an open output set.
WorkNeedsOutputs ==
  /\ ~configured => ~HasFrame /\ ~HasRender /\ ~HasSchedule
  /\ workerPc = "write" => opened
  /\ configured => opened /\ ~commandPending

\* After shutdown has begun the queue stays empty, and until the output thread
\* has stopped the command that blacks out its devices is on its way to it.
CloseLeadsToBlackout ==
  closed =>
    /\ ~HasFrame /\ ~HasRender /\ ~HasSchedule
    /\ workerPc # "stopped" =>
         \/ workerPc = "shutdown"
         \/ \E i \in DOMAIN commands : commands[i].kind = "shutdown"

\* When shutdown reports success every LED is dark, except on devices that a
\* configuration dropped after it had failed to black them out.
DarkAfterShutdown == shutdownResult = "ok" => lit \subseteq abandoned

\* A shutdown once begun ends, with both threads stopped.
ShutdownCompletes ==
  closed ~> DispatcherAt("down") /\ workerPc = "stopped" /\ schedulerPc = "stopped"

\* A configure call returns without its timeout.
ConfigureAnswered == DispatcherAt("configuring") ~> DispatcherAt("free")

\* An accepted scene reaches the output thread unless something newer, a
\* configuration or a shutdown replaces it.
SceneReachesOutput ==
  \A s \in Stamps : (schedule.stamp = s) ~> (started >= s \/ schedule.stamp # s)

\* A pending frame is not starved by the scheduler's stream of renders.
FrameNotStarved == HasFrame ~> ~HasFrame

\* The two worker threads serve everyone: a shutdown completes, a configuration is
\* answered, a scene reaches the output, and so does a frame, whatever else comes.
WorkersServe ==
  ShutdownCompletes /\ ConfigureAnswered /\ SceneReachesOutput /\ FrameNotStarved
=============================================================================
