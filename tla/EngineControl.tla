----------------------------- MODULE EngineControl -----------------------------
(***************************************************************************)
(* The control plane of crates/lumistripe-engine-runtime/src/lib.rs:       *)
(* EngineRuntime, the cloneable EngineHandle with its bounded command      *)
(* queue, the dispatcher thread of engine_command_loop, and the health     *)
(* checks that turn a dead worker into a terminal failure.  The workers    *)
(* are reduced to what the control plane sees of them: a thread that runs, *)
(* finishes when told to, or panics, and a join handle that is still       *)
(* stored or not.  OutputWorker models what the output worker does inside. *)
(*                                                                         *)
(* A caller is an in-process client (try_send), an IPC connection or the   *)
(* runtime's owner in EngineRuntime::shutdown (blocking send).  Requests   *)
(* of the legacy protocol take the same path and are not told apart.       *)
(***************************************************************************)
EXTENDS Integers, Sequences, FiniteSets

CONSTANTS
  Direct,     \* in-process clients
  Ipc,        \* IPC connections; who is in both calls either way
  Owner,      \* the thread that owns the EngineRuntime
  Capacity,   \* ENGINE_COMMAND_CAPACITY
  MaxCrashes  \* bound: worker threads that panic

Callers == Direct \union Ipc \union {Owner}
Workers == {"audio", "output", "scheduler"}

ASSUME EngineControlAssumption ==
  /\ Capacity \in Nat \ {0} /\ MaxCrashes \in Nat
  /\ Owner \notin Direct \union Ipc /\ "none" \notin Callers

VARIABLES
  accepting, shutdownRequested,
  terminalFailure,  \* "none", the worker it names, or "panic"
  queue,            \* commands sent and not yet received
  pc,               \* where the dispatcher thread is
  current,          \* the command it has received
  replyDue,         \* shutdown_workers was called for a Shutdown command
  thread,           \* state of each worker thread
  stored,           \* workers whose join handle is still stored
  closed,           \* OutputWorker::shutdown has closed the work queue
  poisoned,         \* a thread panicked while it held the work queue
  caller,           \* [step, command, seen] of each caller
  answer,           \* what a caller's request was answered with
  owner, wasAccepting, result   \* EngineRuntime::shutdown

dispatcherVars == <<pc, current, replyDue>>
workerVars == <<thread, stored, closed, poisoned>>
callerVars == <<caller, answer>>
ownerVars  == <<owner, wasAccepting, result>>
vars == <<accepting, shutdownRequested, terminalFailure, queue, dispatcherVars,
          workerVars, callerVars, ownerVars>>

None == "none"
Commands == {"health", "work", "shutdown"}
Steps == {"idle", "enter", "check", "refuse", "report", "send", "wait"}
Failures == Workers \union {"panic"}
Idle == [step |-> "idle", command |-> "health", seen |-> None]
NoCommand == [caller |-> None, command |-> None]

Running(w)  == thread[w] = "running"
Crashed == {w \in Workers : thread[w] = "crashed"}

\* EngineServer::worker_failure: a stored handle of a thread that has ended.
FailedWorkersEver == {w \in Workers : ~Running(w)}
FailedWorkers == {w \in stored : ~Running(w)}

Init ==
  /\ accepting = TRUE /\ shutdownRequested = FALSE /\ terminalFailure = None
  /\ queue = <<>>
  /\ pc = "top" /\ current = NoCommand /\ replyDue = FALSE
  /\ thread = [w \in Workers |-> "running"] /\ stored = Workers
  /\ closed = FALSE /\ poisoned = FALSE
  /\ caller = [c \in Callers |-> Idle] /\ answer = [c \in Callers |-> None]
  /\ owner = "holding" /\ wasAccepting = FALSE /\ result = None

-----------------------------------------------------------------------------
(* EngineHandle: ensure_accepting and check_workers, then the bounded queue. *)

Move(c, step) == caller' = [caller EXCEPT ![c].step = step]
Answer(c, a)  == answer' = [answer EXCEPT ![c] = a]

\* The call is over; only the owner goes by what it returned.
Return(c, a) ==
  /\ caller' = [caller EXCEPT ![c] = Idle]
  /\ Answer(c, IF c = Owner THEN a ELSE None)

Call(c, command) ==
  /\ caller[c].step = "idle"
  /\ caller' = [caller EXCEPT ![c] = [step |-> "enter", command |-> command,
                                      seen |-> None]]
  /\ Answer(c, None)

\* The serve loop's poll is a health call of a direct client; an IPC
\* connection sends its health request to the dispatcher like any other.
Begin(c, command) ==
  /\ command = "health" => c \in Direct
  /\ Call(c, command)
  /\ UNCHANGED <<accepting, shutdownRequested, terminalFailure, queue,
                 dispatcherVars, workerVars, ownerVars>>

EnterAccepted(c) ==
  /\ caller[c].step = "enter"
  /\ accepting
  /\ Move(c, "check")
  /\ UNCHANGED <<accepting, shutdownRequested, terminalFailure, queue, answer,
                 dispatcherVars, workerVars, ownerVars>>

EnterStopped(c) ==
  /\ caller[c].step = "enter"
  /\ ~accepting
  /\ Return(c, "stopped")
  /\ UNCHANGED <<accepting, shutdownRequested, terminalFailure, queue,
                 dispatcherVars, workerVars, ownerVars>>

\* check_workers finds nothing: health returns its snapshot, others go on.
CheckPasses(c) ==
  /\ caller[c].step = "check"
  /\ FailedWorkers = {}
  /\ IF caller[c].command = "health" THEN Return(c, "ok")
                                     ELSE Move(c, "send") /\ UNCHANGED answer
  /\ UNCHANGED <<accepting, shutdownRequested, terminalFailure, queue,
                 dispatcherVars, workerVars, ownerVars>>

\* It finds a dead worker, ...
CheckFails(c) ==
  /\ caller[c].step = "check"
  /\ \E w \in FailedWorkers :
       caller' = [caller EXCEPT ![c].step = "refuse", ![c].seen = w]
  /\ UNCHANGED <<accepting, shutdownRequested, terminalFailure, queue, answer,
                 dispatcherVars, workerVars, ownerVars>>

\* ... stops accepting, ...
Refuse(c) ==
  /\ caller[c].step = "refuse"
  /\ accepting' = FALSE
  /\ Move(c, "report")
  /\ UNCHANGED <<shutdownRequested, terminalFailure, queue, answer,
                 dispatcherVars, workerVars, ownerVars>>

\* ... and records why.
Report(c) ==
  /\ caller[c].step = "report"
  /\ terminalFailure' = caller[c].seen
  /\ Return(c, "failed")
  /\ UNCHANGED <<accepting, shutdownRequested, queue, dispatcherVars,
                 workerVars, ownerVars>>

Room == Len(queue) < Capacity

Send(c) ==
  /\ caller[c].step = "send"
  /\ pc # "ended" /\ Room
  /\ queue' = Append(queue, [caller |-> c, command |-> caller[c].command])
  /\ Move(c, "wait")
  /\ UNCHANGED <<accepting, shutdownRequested, terminalFailure, answer,
                 dispatcherVars, workerVars, ownerVars>>

\* CommandQueueFull; an IPC connection and the owner block instead.
SendFull(c) ==
  /\ c \in Direct
  /\ caller[c].step = "send"
  /\ pc # "ended" /\ ~Room
  /\ Return(c, "full")
  /\ UNCHANGED <<accepting, shutdownRequested, terminalFailure, queue,
                 dispatcherVars, workerVars, ownerVars>>

\* The receiver is gone: Stopped for a sender; a sent command was dropped
\* with its reply, "command dispatcher stopped before replying".
Disconnected(c) ==
  /\ pc = "ended"
  /\ \/ caller[c].step = "send" /\ Return(c, "stopped")
     \/ caller[c].step = "wait" /\ answer[c] = None /\ Return(c, "failed")
  /\ UNCHANGED <<accepting, shutdownRequested, terminalFailure, queue,
                 dispatcherVars, workerVars, ownerVars>>

Receive(c) ==
  /\ caller[c].step = "wait"
  /\ answer[c] # None
  /\ Return(c, answer[c])
  /\ UNCHANGED <<accepting, shutdownRequested, terminalFailure, queue,
                 dispatcherVars, workerVars, ownerVars>>

Proceed(c) ==
  \/ EnterAccepted(c) \/ EnterStopped(c)
  \/ CheckPasses(c) \/ CheckFails(c) \/ Refuse(c) \/ Report(c)
  \/ Send(c) \/ SendFull(c) \/ Disconnected(c) \/ Receive(c)

-----------------------------------------------------------------------------
(* engine_command_loop.                                                    *)

\* shutdown_workers begins with the audio worker.
KeepLooping(due) == pc' = "top" /\ replyDue' = due
ShutDownWorkers(due) == pc' = "audio" /\ replyDue' = due

LoopTop ==
  /\ pc = "top"
  /\ ~shutdownRequested
  /\ pc' = "receive"
  /\ UNCHANGED <<accepting, shutdownRequested, terminalFailure, queue, current,
                 replyDue, workerVars, callerVars, ownerVars>>

LoopShutDown ==
  /\ pc = "top"
  /\ shutdownRequested
  /\ accepting' = FALSE
  /\ ShutDownWorkers(FALSE)
  /\ UNCHANGED <<shutdownRequested, terminalFailure, queue, current,
                 workerVars, callerVars, ownerVars>>

Fail(failure) ==
  /\ accepting' = FALSE
  /\ terminalFailure' = failure
  /\ ShutDownWorkers(FALSE)

\* 25 ms without a command.
ReceiveTimesOut ==
  /\ pc = "receive"
  /\ queue = <<>>
  /\ IF FailedWorkers = {}
       THEN pc' = "top" /\ UNCHANGED <<accepting, terminalFailure, replyDue>>
       ELSE \E w \in FailedWorkers : Fail(w)
  /\ UNCHANGED <<shutdownRequested, queue, current, workerVars, callerVars,
                 ownerVars>>

ReceiveCommand ==
  /\ pc = "receive"
  /\ queue # <<>>
  /\ current' = Head(queue)
  /\ queue' = Tail(queue)
  /\ pc' = "gate"
  /\ UNCHANGED <<accepting, shutdownRequested, terminalFailure, replyDue,
                 workerVars, callerVars, ownerVars>>

\* A command that arrives after the engine stopped accepting.
RefuseCurrent == Answer(current.caller, "stopped")

GateRefuses ==
  /\ pc = "gate"
  /\ ~accepting
  /\ RefuseCurrent /\ current' = NoCommand
  /\ pc' = "top"
  /\ UNCHANGED <<accepting, shutdownRequested, terminalFailure, queue,
                 replyDue, workerVars, caller, ownerVars>>

GateOpens ==
  /\ pc = "gate"
  /\ accepting
  /\ pc' = "verify"
  /\ UNCHANGED <<accepting, shutdownRequested, terminalFailure, queue, current,
                 replyDue, workerVars, callerVars, ownerVars>>

VerifyFails ==
  /\ pc = "verify"
  /\ \E w \in FailedWorkers : Fail(w)
  /\ Answer(current.caller, "failed") /\ current' = NoCommand
  /\ UNCHANGED <<shutdownRequested, queue, workerVars, caller,
                 ownerVars>>

VerifyPasses ==
  /\ pc = "verify"
  /\ FailedWorkers = {}
  /\ pc' = "dispatch"
  /\ UNCHANGED <<accepting, shutdownRequested, terminalFailure, queue, current,
                 replyDue, workerVars, callerVars, ownerVars>>

DispatchWork ==
  /\ pc = "dispatch" /\ current.command = "work"
  /\ Answer(current.caller, "ok") /\ current' = NoCommand
  /\ pc' = "top"
  /\ UNCHANGED <<accepting, shutdownRequested, terminalFailure, queue,
                 replyDue, workerVars, caller, ownerVars>>

\* A command that needs the poisoned queue panics; the panic is caught.
DispatchPanics ==
  /\ pc = "dispatch" /\ current.command = "work"
  /\ poisoned
  /\ Fail("panic")
  /\ Answer(current.caller, "failed") /\ current' = NoCommand
  /\ UNCHANGED <<shutdownRequested, queue, workerVars, caller,
                 ownerVars>>

DispatchShutdown ==
  /\ pc = "dispatch" /\ current.command = "shutdown"
  /\ ShutDownWorkers(TRUE)
  /\ UNCHANGED <<accepting, shutdownRequested, terminalFailure, queue, current,
                 workerVars, callerVars, ownerVars>>

-----------------------------------------------------------------------------
(* EngineServer::shutdown_workers: NativeAudioWorker::shutdown takes the
   handle before it tells the thread; OutputWorker::shutdown closes the queue
   first, then takes and joins the scheduler, and takes the output thread's
   handle last.                                                            *)

TakeHandle(w, from, to) ==
  /\ pc = from
  /\ stored' = stored \ {w}
  /\ pc' = to
  /\ UNCHANGED <<accepting, shutdownRequested, terminalFailure, queue, current,
                 replyDue, thread, closed, poisoned, callerVars, ownerVars>>

Join(w, from, to) ==
  /\ pc = from
  /\ ~Running(w) /\ (w = "scheduler" => thread[w] = "finished")
  /\ pc' = to
  /\ UNCHANGED <<accepting, shutdownRequested, terminalFailure, queue, current,
                 replyDue, workerVars, callerVars, ownerVars>>

CloseOutput ==
  /\ pc = "close"
  /\ ~poisoned
  /\ closed' = TRUE
  /\ pc' = "scheduler"
  /\ UNCHANGED <<accepting, shutdownRequested, terminalFailure, queue, current,
                 replyDue, thread, stored, poisoned, callerVars, ownerVars>>

\* The poisoned queue panics again; a Shutdown command is answered with it.
ClosePanics ==
  /\ pc = "close"
  /\ poisoned
  /\ pc' = "ended"
  /\ accepting' = FALSE
  /\ IF replyDue THEN terminalFailure' = "panic" /\ Answer(current.caller, "failed")
                 ELSE UNCHANGED <<terminalFailure, answer>>
  /\ UNCHANGED <<shutdownRequested, queue, current, replyDue, workerVars,
                 caller, ownerVars>>

\* The end of shutdown_workers, and of the dispatcher.
EndWith(outcome) ==
  /\ IF replyDue THEN Answer(current.caller, outcome) ELSE UNCHANGED answer
  /\ accepting' = FALSE
  /\ pc' = "ended"
  /\ UNCHANGED <<shutdownRequested, terminalFailure, queue, current, replyDue,
                 workerVars, caller, ownerVars>>

\* A scheduler that panicked: the error is returned before the output thread's
\* handle is taken.
SchedulerPanicked ==
  /\ pc = "joinScheduler"
  /\ thread["scheduler"] = "crashed"
  /\ EndWith("error")

\* Either the output thread answers, with or without a blackout error, or its
\* five seconds pass.
OutputToldToStop == closed
OutputStopped == thread["output"] = "finished"

OutputAnswers ==
  /\ pc = "await"
  /\ \/ OutputStopped /\ EndWith("ok")
     \/ EndWith("error")

Closing ==
  \/ TakeHandle("audio", "audio", "joinAudio") \/ Join("audio", "joinAudio", "close")
  \/ CloseOutput \/ ClosePanics
  \/ TakeHandle("scheduler", "scheduler", "joinScheduler")
  \/ Join("scheduler", "joinScheduler", "output") \/ SchedulerPanicked
  \/ TakeHandle("output", "output", "await")
  \/ OutputAnswers

Dispatcher ==
  \/ LoopTop \/ LoopShutDown \/ ReceiveTimesOut \/ ReceiveCommand
  \/ GateRefuses \/ GateOpens \/ VerifyFails \/ VerifyPasses
  \/ DispatchWork \/ DispatchPanics \/ DispatchShutdown \/ Closing

-----------------------------------------------------------------------------
(* Worker threads.                                                         *)

\* The audio worker stops for the command that follows the taking of its
\* handle; the other two stop once the queue is closed.
ToldToStop(w) == IF w = "audio" THEN w \notin stored ELSE closed

Finish(w) ==
  /\ Running(w)
  /\ ToldToStop(w)
  /\ thread' = [thread EXCEPT ![w] = "finished"]
  /\ UNCHANGED <<accepting, shutdownRequested, terminalFailure, queue,
                 dispatcherVars, stored, closed, poisoned, callerVars,
                 ownerVars>>

\* A panic.  The scheduler runs with the queue locked, the output thread holds
\* it part of the time, the audio worker while it submits an update.
Crash(w) ==
  /\ Running(w) /\ (poisoned \/ Cardinality(Crashed) < MaxCrashes)
  /\ thread' = [thread EXCEPT ![w] = "crashed"]
  /\ poisoned' \in IF w = "scheduler" THEN {TRUE} ELSE {poisoned, TRUE}
  /\ UNCHANGED <<accepting, shutdownRequested, terminalFailure, queue,
                 dispatcherVars, stored, closed, callerVars, ownerVars>>

\* What a worker does for certain; a poisoned queue makes it panic instead.
Stop(w) ==
  Finish(w) \/ (closed /\ poisoned /\ w # "audio" /\ Crash(w))

-----------------------------------------------------------------------------
(* EngineRuntime::shutdown and its Drop.                                   *)

\* was_accepting is one load of the flag, the choice of the way another.
BeginShutdown ==
  /\ owner = "holding"
  /\ wasAccepting' = accepting
  /\ owner' = "deciding"
  /\ UNCHANGED <<accepting, shutdownRequested, terminalFailure, queue,
                 dispatcherVars, workerVars, callerVars, result>>

ShutdownByRequest ==
  /\ owner = "deciding"
  /\ accepting
  /\ Call(Owner, "shutdown")
  /\ owner' = "requesting"
  /\ UNCHANGED <<accepting, shutdownRequested, terminalFailure, queue,
                 dispatcherVars, workerVars, wasAccepting, result>>

ShutdownByFlag ==
  /\ owner = "deciding"
  /\ ~accepting
  /\ shutdownRequested' = TRUE
  /\ Answer(Owner, "ok")
  /\ owner' = "joining"
  /\ UNCHANGED <<accepting, terminalFailure, queue, dispatcherVars, workerVars,
                 caller, wasAccepting, result>>

OwnerAnswered ==
  /\ owner = "requesting"
  /\ caller[Owner].step = "idle"
  /\ shutdownRequested' = (shutdownRequested \/ answer[Owner] # "ok")
  /\ owner' = "joining"
  /\ UNCHANGED <<accepting, terminalFailure, queue, dispatcherVars, workerVars,
                 callerVars, wasAccepting, result>>

OwnerReturns ==
  /\ owner = "joining"
  /\ pc = "ended"
  /\ result' = IF ~wasAccepting /\ terminalFailure # None THEN "failed"
               ELSE answer[Owner]
  /\ owner' = "returned"
  /\ UNCHANGED <<accepting, shutdownRequested, terminalFailure, queue,
                 dispatcherVars, workerVars, callerVars, wasAccepting>>

Drop ==
  /\ owner = "holding"
  /\ accepting' = FALSE
  /\ owner' = "dropping"
  /\ UNCHANGED <<shutdownRequested, terminalFailure, queue, dispatcherVars,
                 workerVars, callerVars, wasAccepting, result>>

DropRequests ==
  /\ owner = "dropping"
  /\ shutdownRequested' = TRUE
  /\ owner' = "dropped"
  /\ UNCHANGED <<accepting, terminalFailure, queue, dispatcherVars, workerVars,
                 callerVars, wasAccepting, result>>

OwnerGoesOn ==
  ShutdownByRequest \/ ShutdownByFlag \/ OwnerAnswered \/ OwnerReturns \/ DropRequests

-----------------------------------------------------------------------------

Finished ==
  /\ pc = "ended" /\ owner \in {"returned", "dropped"}
  /\ \A c \in Callers : caller[c].step = "idle"
  /\ UNCHANGED vars

Next ==
  \/ \E c \in Direct \union Ipc, command \in Commands : Begin(c, command)
  \/ \E c \in Callers : Proceed(c)
  \/ Dispatcher
  \/ \E w \in Workers : Finish(w) \/ Crash(w)
  \/ BeginShutdown \/ Drop \/ OwnerGoesOn
  \/ Finished

\* Threads that can run do run.  Nobody is obliged to call or to shut down,
\* and a blocked send is not promised a place others may take.
Fairness ==
  /\ WF_vars(Dispatcher)
  /\ \A c \in Callers : WF_vars(Proceed(c))
  /\ \A w \in Workers : WF_vars(Stop(w))
  /\ WF_vars(OwnerGoesOn)

Spec == Init /\ [][Next]_vars /\ Fairness

-----------------------------------------------------------------------------
(* Properties.                                                             *)

TypeOK ==
  /\ accepting \in BOOLEAN /\ shutdownRequested \in BOOLEAN
  /\ terminalFailure \in {None} \union Failures
  /\ queue \in Seq([caller : Callers, command : Commands])
  /\ Len(queue) <= Capacity
  /\ pc \in {"top", "receive", "gate", "verify", "dispatch", "audio",
             "joinAudio", "close", "scheduler", "joinScheduler", "output",
             "await", "ended"}
  /\ current \in [caller : Callers, command : Commands] \union {NoCommand}
  /\ replyDue \in BOOLEAN
  /\ thread \in [Workers -> {"running", "finished", "crashed"}]
  /\ stored \subseteq Workers
  /\ closed \in BOOLEAN /\ poisoned \in BOOLEAN
  /\ caller \in [Callers -> [step : Steps, command : Commands,
                             seen : {None} \union Workers]]
  /\ answer \in [Callers -> {None, "ok", "error", "full", "stopped", "failed"}]
  /\ owner \in {"holding", "deciding", "requesting", "joining", "returned", "dropping",
                "dropped"}
  /\ wasAccepting \in BOOLEAN
  /\ result \in {None, "ok", "error", "full", "stopped", "failed"}

\* Every way out of the command loop has shut the workers down, as far as the
\* queue can be locked, and left the engine not accepting.
EndsWithWorkersDown ==
  pc = "ended" =>
    ~accepting /\ "audio" \notin stored /\ (closed \/ poisoned)

\* A request that was sent and not answered is in exactly one place: in the
\* queue, in the dispatcher's hands, or lost with a dispatcher that has ended.
InHand(c) == current.caller = c
Queued(c) == {i \in DOMAIN queue : queue[i].caller = c}
AnswerOwed ==
  \A c \in Callers : caller[c].step = "wait" /\ answer[c] = None /\ pc # "ended" =>
    Cardinality(Queued(c)) + (IF InHand(c) THEN 1 ELSE 0) = 1

\* Only a panic, or the closing of the output queue, makes the engine report
\* that a worker "terminated unexpectedly".
FailureHasACause ==
  terminalFailure \in Workers => thread[terminalFailure] = "crashed" \/ closed

\* Whoever is told that its Shutdown command succeeded can rely on every
\* worker thread being gone.
OkMeansStopped ==
  \A c \in Callers : caller[c].command = "shutdown" /\ answer[c] = "ok" =>
    \A w \in Workers : ~Running(w)

\* A sent request is answered, if only by the end of the dispatcher.
RequestsAnswered ==
  \A c \in Callers : (caller[c].step = "wait") ~> (caller[c].step = "idle")

\* A worker's panic ends the dispatcher, which shuts the others down.
FailureStopsEngine == (Crashed # {}) ~> (pc = "ended")

\* EngineRuntime::shutdown returns once its request is in the queue, or its
\* flag is set.
ShutdownReturns ==
  (owner = "joining" \/ caller[Owner].step = "wait") ~> (owner = "returned")

\* Nobody is told, or left to believe, that a worker is gone which is not: neither by
\* the end of the dispatcher nor by an answer to Shutdown.
NoWorkerLeft == EndsWithWorkersDown /\ OkMeansStopped

\* Nothing in the control plane waits for ever, whoever panics and whoever shuts down,
\* and no request gets lost on its way.
NobodyWaitsForEver ==
  [](TypeOK /\ AnswerOwed) /\ RequestsAnswered /\ FailureStopsEngine /\ ShutdownReturns
=============================================================================
