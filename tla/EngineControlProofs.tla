------------------------- MODULE EngineControlProofs -------------------------
(***************************************************************************)
(* The engine answers for its workers: whatever clients, the owner and     *)
(* panics do, whoever learns that the engine has shut down can rely on it, *)
(* a failure is reported only for a cause, and no request gets lost.       *)
(***************************************************************************)
EXTENDS EngineControl, FiniteSetTheorems, TLAPS

\* shutdown_workers: each stage knows what the stages before it have done.
AudioTaken == {"joinAudio", "close", "scheduler", "joinScheduler", "output", "await", "ended"}
AudioJoined == {"close", "scheduler", "joinScheduler", "output", "await"}
OutputClosed == {"scheduler", "joinScheduler", "output", "await"}
SchedulerJoined == {"output", "await"}

HandlesOK ==
  /\ pc \in AudioTaken => "audio" \notin stored
  /\ pc \in AudioJoined => ~Running("audio")
  /\ pc \in OutputClosed => closed
  /\ pc \in SchedulerJoined => ~Running("scheduler")
  /\ \A w \in Workers : thread[w] = "finished" => ToldToStop(w)

\* A worker that is reported as failed has panicked, or was told to stop.
Caused(w) == thread[w] = "crashed" \/ closed
CausesOK ==
  /\ FailureHasACause
  /\ \A c \in Callers : caller[c].step \in {"refuse", "report"}
                          => caller[c].seen \in Workers /\ Caused(caller[c].seen)

\* The command in the dispatcher's hands fits its place.
InHandOK ==
  /\ pc \in {"gate", "verify", "dispatch"} => current # NoCommand
  /\ pc \in {"top", "receive"} => current = NoCommand
  /\ replyDue => pc \notin {"top", "receive", "gate", "verify", "dispatch"}
  /\ replyDue => current # NoCommand /\ current.command = "shutdown"

\* While the dispatcher runs, each command it holds or finds in the queue has a caller
\* of its own that waits for the answer, and each caller that waits has its command there.
Owed(c) == caller[c].step = "wait" /\ answer[c] = None
Outstanding(r) == Owed(r.caller) /\ caller[r.caller].command = r.command
RequestsOK ==
  pc # "ended" =>
    /\ \A i \in DOMAIN queue : Outstanding(queue[i])
    /\ \A i, j \in DOMAIN queue : queue[i].caller = queue[j].caller => i = j
    /\ current # NoCommand =>
         Outstanding(current) /\ \A i \in DOMAIN queue : queue[i].caller # current.caller
    /\ \A c \in Callers : Owed(c) => \/ \E i \in DOMAIN queue : queue[i].caller = c
                                     \/ current # NoCommand /\ current.caller = c

\* The owner calls when it shuts down, and before that nobody calls in its name.
OwnerOK == owner \in {"holding", "deciding", "dropping", "dropped"} => caller[Owner].step = "idle"

\* Who does not call asks for nothing, and who has not sent its command has no answer yet.
CallsFresh ==
  \A c \in Callers : /\ caller[c].step = "idle" => caller[c] = Idle
                     /\ caller[c].step \notin {"idle", "wait"} => answer[c] = None

Step == [step : Steps, command : Commands, seen : {None} \union Workers]
Command == [caller : Callers, command : Commands]
Replies == {None, "ok", "error", "full", "stopped", "failed"}
Places == {"top", "receive", "gate", "verify", "dispatch", "audio", "joinAudio", "close", "scheduler",
           "joinScheduler", "output", "await", "ended"}
OwnerPlaces == {"holding", "deciding", "requesting", "joining", "returned", "dropping", "dropped"}

\* TypeOK, with names for its sets.
EngineTypeOK ==
  /\ accepting \in BOOLEAN /\ shutdownRequested \in BOOLEAN
  /\ terminalFailure \in {None} \union Failures
  /\ queue \in Seq(Command) /\ Len(queue) <= Capacity
  /\ pc \in Places /\ current \in Command \union {NoCommand} /\ replyDue \in BOOLEAN
  /\ thread \in [Workers -> {"running", "finished", "crashed"}] /\ stored \subseteq Workers
  /\ closed \in BOOLEAN /\ poisoned \in BOOLEAN
  /\ caller \in [Callers -> Step] /\ answer \in [Callers -> Replies]
  /\ owner \in OwnerPlaces /\ wasAccepting \in BOOLEAN /\ result \in Replies

EngineInv == /\ EngineTypeOK /\ HandlesOK /\ CausesOK /\ InHandOK /\ RequestsOK /\ OwnerOK
             /\ EndsWithWorkersDown /\ OkMeansStopped
             /\ CallsFresh

USE EngineControlAssumption
USE DEF dispatcherVars, workerVars, callerVars, ownerVars, vars, Move, Answer, Return, Call, Running,
        AudioTaken, AudioJoined, OutputClosed, SchedulerJoined

\* The types of the model.
LEMMA TypesMean == EngineTypeOK <=> TypeOK
BY DEF EngineTypeOK, TypeOK, Step, Command, Replies, Places, OwnerPlaces

\* The fields of what a caller does and sends.
LEMMA FieldsOK ==
  /\ \A r \in Step : r.step \in Steps /\ r.command \in Commands /\ r.seen \in {None} \union Workers
  /\ \A r \in Command : r.caller \in Callers /\ r.command \in Commands
  /\ NoCommand \notin Command
  /\ \A step \in Steps, command \in Commands, seen \in {None} \union Workers :
       [step |-> step, command |-> command, seen |-> seen] \in Step
  /\ \A c \in Callers, command \in Commands : [caller |-> c, command |-> command] \in Command
  /\ Idle \in Step /\ Idle.step = "idle" /\ Idle.command = "health"
<1>1. \A r \in Step : r.step \in Steps /\ r.command \in Commands /\ r.seen \in {None} \union Workers
  BY DEF Step
<1>2. \A r \in Command : r.caller \in Callers /\ r.command \in Commands
  BY DEF Command
<1>3. NoCommand \notin Command
  BY DEF Command, NoCommand, Commands, None
<1>4. \A step \in Steps, command \in Commands, seen \in {None} \union Workers :
        [step |-> step, command |-> command, seen |-> seen] \in Step
  BY DEF Step
<1>5. \A c \in Callers, command \in Commands : [caller |-> c, command |-> command] \in Command
  BY DEF Command
<1>6. Idle \in Step /\ Idle.step = "idle" /\ Idle.command = "health"
  BY <1>4 DEF Idle, Steps, Commands
<1> QED
  BY <1>1, <1>2, <1>3, <1>4, <1>5, <1>6

\* A caller's record, changed in one field or two.
LEMMA StepRecord ==
  ASSUME NEW r \in Step, NEW step, NEW w
  PROVE  /\ [r EXCEPT !.step = step] = [step |-> step, command |-> r.command, seen |-> r.seen]
         /\ [[r EXCEPT !.step = step] EXCEPT !.seen = w] = [step |-> step, command |-> r.command, seen |-> w]
<1>1. [r EXCEPT !.step = step] = [step |-> step, command |-> r.command, seen |-> r.seen]
  BY DEF Step
<1>2. [[step |-> step, command |-> r.command, seen |-> r.seen] EXCEPT !.seen = w]
        = [step |-> step, command |-> r.command, seen |-> w]
  OBVIOUS
<1> QED
  BY <1>1, <1>2

\* The engine starts with its workers running and nobody waiting.
LEMMA EngineInitOK == Init => EngineInv
<1> SUFFICES ASSUME Init PROVE EngineInv
  OBVIOUS
<1>1. EngineTypeOK
  <2>1. caller \in [Callers -> Step] /\ answer \in [Callers -> Replies]
    BY FieldsOK DEF Init, Replies
  <2>2. queue \in Seq(Command) /\ Len(queue) <= Capacity
    BY DEF Init
  <2>3. thread \in [Workers -> {"running", "finished", "crashed"}]
    BY DEF Init
  <2> QED
    BY <2>1, <2>2, <2>3 DEF Init, EngineTypeOK, Places, OwnerPlaces, Replies
<1>2. HandlesOK /\ CausesOK /\ InHandOK
  BY FieldsOK DEF Init, HandlesOK, CausesOK, FailureHasACause, InHandOK, Workers, None
<1>3. RequestsOK /\ OwnerOK /\ EndsWithWorkersDown /\ OkMeansStopped
  BY FieldsOK DEF Init, RequestsOK, Owed, OwnerOK, EndsWithWorkersDown, OkMeansStopped, Callers
<1> QED
  BY <1>1, <1>2, <1>3, FieldsOK DEF EngineInv, CallsFresh, Init

\* Each command in the queue, or in the dispatcher's hands, is some caller's.
LEMMA CommandsHaveCallers ==
  ASSUME EngineTypeOK
  PROVE  /\ \A i \in DOMAIN queue : /\ queue[i] \in Command
                                   /\ queue[i].caller \in Callers /\ queue[i].command \in Commands
         /\ current # NoCommand => /\ current \in Command
                                   /\ current.caller \in Callers /\ current.command \in Commands
<1>1. queue \in Seq(Command) /\ current \in Command \union {NoCommand}
  BY DEF EngineTypeOK
<1>2. \A i \in DOMAIN queue : queue[i] \in Command
  BY <1>1
<1> QED
  BY <1>1, <1>2, FieldsOK

\* What the types say of a step of a caller.
LEMMA CallerMoves ==
  ASSUME EngineTypeOK, NEW c \in Callers, NEW r \in Step, caller' = [caller EXCEPT ![c] = r],
         answer' \in [Callers -> Replies],
         UNCHANGED <<shutdownRequested, queue, dispatcherVars, workerVars, wasAccepting, result>>,
         accepting' \in {accepting, FALSE},
         terminalFailure' \in {None} \union Failures,
         owner' \in OwnerPlaces
  PROVE  EngineTypeOK'
<1>1. caller' \in [Callers -> Step]
  BY DEF EngineTypeOK
<1>2. accepting' \in BOOLEAN
  BY DEF EngineTypeOK
<1> QED
  BY <1>1, <1>2 DEF EngineTypeOK

\* A step of a caller that leaves what it sent alone: it was not waiting, and does not wait
\* after it; the command it makes is answered with nothing yet.
LEMMA CallerStepOK ==
  ASSUME EngineInv, EngineTypeOK', NEW c \in Callers, NEW r \in Step,
         caller' = [caller EXCEPT ![c] = r],
         caller[c].step # "wait" \/ answer[c] # None \/ pc = "ended", r.step # "wait",
         r.step = "idle" => r = Idle,
         r.step \in {"refuse", "report"} => r.seen \in Workers /\ Caused(r.seen),
         \A d \in Callers \ {c} : answer'[d] = answer[d],
         r.step # "idle" => answer'[c] = None,
         owner' \in {"holding", "deciding", "dropping", "dropped"} /\ c = Owner => r.step = "idle",
         owner' \in {"holding", "deciding", "dropping", "dropped"}
           => owner \in {"holding", "deciding", "dropping", "dropped"},
         accepting' \in {accepting, FALSE},
         terminalFailure' = terminalFailure \/ Caused(terminalFailure'),
         UNCHANGED <<queue, dispatcherVars, workerVars>>
  PROVE  EngineInv'
<1>1. HandlesOK' /\ InHandOK' /\ EndsWithWorkersDown'
  <2>1. HandlesOK' /\ InHandOK'
    BY DEF EngineInv, HandlesOK, InHandOK, ToldToStop
  <2>2. pc = "ended" => ~accepting /\ "audio" \notin stored /\ (closed \/ poisoned)
    BY DEF EngineInv, EndsWithWorkersDown
  <2>3. ~accepting => ~accepting'
    <3>1. CASE accepting' = accepting
      BY <3>1
    <3>2. CASE accepting' = FALSE
      BY <3>2
    <3> QED
      BY <3>1, <3>2
  <2> QED
    BY <2>1, <2>2, <2>3 DEF EndsWithWorkersDown
<1>2. CausesOK'
  BY DEF EngineInv, CausesOK, FailureHasACause, Caused, EngineTypeOK
<1>3. RequestsOK'
  <2> SUFFICES ASSUME pc # "ended" PROVE RequestsOK'
    BY DEF RequestsOK
  <2>1. /\ \A i \in DOMAIN queue : queue[i].caller \in Callers
        /\ current # NoCommand => current.caller \in Callers
    BY CommandsHaveCallers DEF EngineInv
  <2>2. ~Owed(c) /\ ~Owed(c)' /\ \A d \in Callers \ {c} : Owed(d)' = Owed(d) /\ caller'[d] = caller[d]
    BY DEF Owed, EngineInv, EngineTypeOK
  <2>3. /\ \A i \in DOMAIN queue : queue[i].caller # c
        /\ current # NoCommand => current.caller # c
    BY <2>2 DEF EngineInv, RequestsOK, Outstanding
  <2> QED
    BY <2>1, <2>2, <2>3 DEF EngineInv, RequestsOK, Outstanding
<1>4. OwnerOK' /\ OkMeansStopped' /\ CallsFresh'
  BY FieldsOK DEF EngineInv, OwnerOK, OkMeansStopped, CallsFresh, EngineTypeOK, Callers, None
<1> QED
  BY <1>1, <1>2, <1>3, <1>4 DEF EngineInv

\* A call that is over leaves its caller idle.
LEMMA ReturnOK ==
  ASSUME EngineInv, NEW c \in Callers, caller[c].step # "idle",
         NEW a \in Replies, Return(c, a),
         caller[c].step # "wait" \/ answer[c] # None \/ pc = "ended",
         terminalFailure' = terminalFailure \/ (terminalFailure' \in Workers /\ Caused(terminalFailure')),
         UNCHANGED <<accepting, shutdownRequested, queue, dispatcherVars, workerVars, ownerVars>>
  PROVE  EngineInv'
<1>1. Idle \in Step /\ Idle.step = "idle" /\ Idle.command = "health" /\ None \in Replies
  BY FieldsOK DEF Replies
<1>2. PICK b \in Replies : answer' = [answer EXCEPT ![c] = b] /\ caller' = [caller EXCEPT ![c] = Idle]
  BY <1>1
<1>3. answer \in [Callers -> Replies] /\ answer' \in [Callers -> Replies]
      /\ \A d \in Callers \ {c} : answer'[d] = answer[d]
  BY <1>2 DEF EngineInv, EngineTypeOK
<1>4. EngineTypeOK /\ owner \in OwnerPlaces /\ terminalFailure' \in {None} \union Failures
  BY DEF EngineInv, EngineTypeOK, Failures
<1>5. EngineTypeOK'
  BY <1>1, <1>2, <1>3, <1>4, CallerMoves
<1> QED
  BY <1>1, <1>2, <1>3, <1>5, CallerStepOK

\* A call that goes on to its next step, with its command.
LEMMA MoveOK ==
  ASSUME EngineInv, NEW c \in Callers, NEW step \in Steps \ {"idle", "wait"},
         NEW seen \in {None} \union Workers,
         caller' = [caller EXCEPT ![c] = [step |-> step, command |-> caller[c].command, seen |-> seen]],
         caller[c].step \notin {"idle", "wait"},
         step \in {"refuse", "report"} => seen \in Workers /\ Caused(seen),
         accepting' \in {accepting, FALSE},
         UNCHANGED <<shutdownRequested, terminalFailure, queue, answer, dispatcherVars, workerVars,
                     ownerVars>>
  PROVE  EngineInv'
<1> DEFINE r == [step |-> step, command |-> caller[c].command, seen |-> seen]
<1>1. caller[c] \in Step /\ EngineTypeOK /\ owner \in OwnerPlaces
      /\ answer \in [Callers -> Replies] /\ terminalFailure \in {None} \union Failures
  BY DEF EngineInv, EngineTypeOK
<1>2. r \in Step /\ r.step = step /\ r.command = caller[c].command /\ r.seen = seen
  BY <1>1, FieldsOK
<1>3. caller' = [caller EXCEPT ![c] = r]
  OBVIOUS
<1> HIDE DEF r
<1>4. EngineTypeOK'
  BY <1>1, <1>2, <1>3, CallerMoves
<1>5. /\ owner \in {"holding", "deciding", "dropping", "dropped"} => c # Owner
      /\ answer[c] = None
  BY DEF EngineInv, OwnerOK, CallsFresh
<1> QED
  BY <1>2, <1>3, <1>4, <1>5, CallerStepOK

\* A worker that has ended and whose handle is stored has panicked, or its queue is closed.
LEMMA FailedIsCaused == ASSUME EngineInv, NEW w \in FailedWorkers PROVE w \in Workers /\ Caused(w)
BY DEF EngineInv, HandlesOK, FailedWorkers, Caused, ToldToStop, EngineTypeOK

\* A step of a caller that sends nothing.
LEMMA CallsOK ==
  ASSUME EngineInv, NEW c \in Callers,
         \/ EnterAccepted(c) \/ EnterStopped(c) \/ CheckPasses(c) \/ CheckFails(c) \/ Refuse(c)
         \/ Report(c) \/ SendFull(c) \/ Disconnected(c) \/ Receive(c)
  PROVE  EngineInv'
<1>0. caller[c] \in Step /\ caller \in [Callers -> Step] /\ answer[c] \in Replies
      /\ caller[c].seen \in {None} \union Workers /\ {"ok", "full", "stopped", "failed"} \subseteq Replies
      /\ {"check", "send", "refuse", "report"} \subseteq Steps \ {"idle", "wait"}
  BY FieldsOK DEF EngineInv, EngineTypeOK, Replies, Steps
<1>10. ASSUME NEW step, Move(c, step)
       PROVE  caller' = [caller EXCEPT ![c] = [step |-> step, command |-> caller[c].command,
                                               seen |-> caller[c].seen]]
  BY <1>0, <1>10, StepRecord
<1>1. CASE EnterAccepted(c)
  <2>1. Move(c, "check") /\ caller[c].step = "enter"
    BY <1>1 DEF EnterAccepted
  <2> QED
    BY ZenonT(60), <1>0, <1>1, <1>10, <2>1, MoveOK DEF EnterAccepted
<1>2. CASE EnterStopped(c)
  BY <1>0, <1>2, ReturnOK DEF EnterStopped
<1>3. CASE CheckPasses(c)
  <2>1. CASE caller[c].command = "health"
    BY <1>0, <1>3, <2>1, ReturnOK DEF CheckPasses
  <2>2. CASE caller[c].command # "health"
    <3>1. Move(c, "send") /\ UNCHANGED answer /\ caller[c].step = "check"
      BY <1>3, <2>2 DEF CheckPasses
    <3> QED
      BY <1>0, <1>3, <1>10, <3>1, MoveOK DEF CheckPasses
  <2> QED
    BY <2>1, <2>2
<1>4. CASE CheckFails(c)
  <2>1. PICK w \in FailedWorkers : caller' = [caller EXCEPT ![c].step = "refuse", ![c].seen = w]
    BY <1>4 DEF CheckFails
  <2>2. w \in Workers /\ Caused(w)
    BY FailedIsCaused
  <2>3. caller' = [caller EXCEPT ![c] = [[caller[c] EXCEPT !.step = "refuse"] EXCEPT !.seen = w]]
    BY <1>0, <2>1
  <2>5. [[caller[c] EXCEPT !.step = "refuse"] EXCEPT !.seen = w]
          = [step |-> "refuse", command |-> caller[c].command, seen |-> w]
    BY <1>0, StepRecord, Zenon
  <2>4. caller' = [caller EXCEPT ![c] = [step |-> "refuse", command |-> caller[c].command, seen |-> w]]
    BY <2>3, <2>5
  <2> QED
    BY <1>0, <1>4, <2>2, <2>4, MoveOK DEF CheckFails
<1>5. CASE Refuse(c)
  <2>1. Move(c, "report") /\ caller[c].step = "refuse"
    BY <1>5 DEF Refuse
  <2>2. caller[c].seen \in Workers /\ Caused(caller[c].seen)
    BY <2>1 DEF EngineInv, CausesOK
  <2> QED
    BY <1>0, <1>5, <1>10, <2>1, <2>2, MoveOK DEF Refuse
<1>6. CASE Report(c)
  <2>1. caller[c].seen \in Workers /\ Caused(caller[c].seen)
    BY <1>6 DEF Report, EngineInv, CausesOK
  <2>2. terminalFailure' \in Workers /\ Caused(terminalFailure')
    BY <1>6, <2>1 DEF Report
  <2> QED
    BY <1>0, <1>6, <2>2, ReturnOK DEF Report
<1>7. CASE SendFull(c)
  BY <1>0, <1>7, ReturnOK DEF SendFull
<1>8. CASE Disconnected(c)
  BY <1>0, <1>8, ReturnOK DEF Disconnected
<1>9. CASE Receive(c)
  BY <1>0, <1>9, ReturnOK DEF Receive
<1> QED
  BY <1>1, <1>2, <1>3, <1>4, <1>5, <1>6, <1>7, <1>8, <1>9

\* Who calls has asked for nothing before.
LEMMA CallOK ==
  ASSUME EngineInv, NEW c \in Callers, NEW command \in Commands, Call(c, command),
         owner' \in OwnerPlaces,
         owner' \in {"holding", "deciding", "dropping", "dropped"}
           => c # Owner /\ owner \in {"holding", "deciding", "dropping", "dropped"},
         UNCHANGED <<accepting, shutdownRequested, terminalFailure, queue, dispatcherVars, workerVars,
                     wasAccepting, result>>
  PROVE  EngineInv'
<1> DEFINE r == [step |-> "enter", command |-> command, seen |-> None]
<1>1. r \in Step /\ r.step = "enter" /\ None \in Replies
  BY FieldsOK DEF Steps, Replies
<1>2. caller' = [caller EXCEPT ![c] = r] /\ answer' = [answer EXCEPT ![c] = None]
  OBVIOUS
<1> HIDE DEF r
<1>3. /\ answer \in [Callers -> Replies] /\ terminalFailure \in {None} \union Failures /\ EngineTypeOK
      /\ answer' \in [Callers -> Replies] /\ answer'[c] = None
      /\ \A d \in Callers \ {c} : answer'[d] = answer[d]
  BY <1>1, <1>2 DEF EngineInv, EngineTypeOK
<1>4. EngineTypeOK'
  BY ZenonT(60), <1>1, <1>2, <1>3, CallerMoves
<1> QED
  BY <1>1, <1>2, <1>3, <1>4, CallerStepOK

\* A command that is sent joins the queue, behind those of others.
LEMMA SendOK == ASSUME EngineInv, NEW c \in Callers, Send(c) PROVE EngineInv'
<1> DEFINE r == [caller |-> c, command |-> caller[c].command]
           w == [caller[c] EXCEPT !.step = "wait"]
<1>1. /\ EngineTypeOK /\ caller[c] \in Step /\ caller[c].step = "send" /\ answer[c] = None /\ pc # "ended"
      /\ queue' = Append(queue, r) /\ Len(queue) < Capacity /\ queue \in Seq(Command)
      /\ caller' = [caller EXCEPT ![c] = w] /\ caller \in [Callers -> Step]
      /\ UNCHANGED <<accepting, shutdownRequested, terminalFailure, answer, dispatcherVars, workerVars,
                     ownerVars>>
  BY DEF Send, Room, EngineInv, EngineTypeOK, CallsFresh
<1>2. /\ r \in Command /\ r.caller = c /\ r.command = caller[c].command
      /\ w \in Step /\ w.step = "wait" /\ w.command = caller[c].command /\ w.seen = caller[c].seen
  <2>1. w = [step |-> "wait", command |-> caller[c].command, seen |-> caller[c].seen]
    BY <1>1, StepRecord
  <2>2. caller[c].command \in Commands /\ caller[c].seen \in {None} \union Workers /\ "wait" \in Steps
    BY <1>1, FieldsOK DEF Steps
  <2>3. w \in Step
    BY <2>1, <2>2, FieldsOK
  <2>4. r \in Command /\ r.caller = c /\ r.command = caller[c].command
    BY <2>2, FieldsOK
  <2> QED
    BY <2>1, <2>3, <2>4
<1> HIDE DEF r, w
<1>3. /\ caller'[c] = w /\ \A d \in Callers \ {c} : caller'[d] = caller[d]
      /\ caller' \in [Callers -> Step]
  BY <1>1, <1>2
<1>4. /\ queue' \in Seq(Command) /\ Len(queue') = Len(queue) + 1 /\ Len(queue) \in Nat
      /\ DOMAIN queue = 1..Len(queue) /\ DOMAIN queue' = 1..(Len(queue) + 1)
      /\ queue'[Len(queue) + 1] = r
      /\ \A i \in 1..Len(queue) : queue'[i] = queue[i]
  BY <1>1, <1>2
<1>5. EngineTypeOK'
  BY <1>1, <1>3, <1>4 DEF EngineTypeOK
<1>6. RequestsOK'
  <2>1. /\ caller[c].step # "wait" /\ caller'[c].step = "wait" /\ caller'[c].command = r.command
        /\ answer' = answer /\ answer[c] = None /\ r.caller = c /\ current' = current /\ pc' = pc
    BY <1>1, <1>2, <1>3
  <2>2. /\ \A i \in 1..Len(queue) :
             /\ queue[i].caller \in Callers \ {c}
             /\ caller[queue[i].caller].step = "wait" /\ answer[queue[i].caller] = None
             /\ caller[queue[i].caller].command = queue[i].command
        /\ current # NoCommand =>
             /\ current.caller \in Callers \ {c}
             /\ caller[current.caller].step = "wait" /\ answer[current.caller] = None
             /\ caller[current.caller].command = current.command
    BY <1>1, <1>4, <2>1, CommandsHaveCallers DEF EngineInv, RequestsOK, Outstanding, Owed
  <2>3. \A i \in DOMAIN queue' :
          /\ caller'[queue'[i].caller].step = "wait" /\ answer'[queue'[i].caller] = None
          /\ caller'[queue'[i].caller].command = queue'[i].command
    <3>1. ASSUME NEW i \in 1..Len(queue)
          PROVE  /\ caller'[queue'[i].caller].step = "wait" /\ answer'[queue'[i].caller] = None
                 /\ caller'[queue'[i].caller].command = queue'[i].command
      BY <1>3, <1>4, <2>1, <2>2
    <3> QED
      BY <1>4, <2>1, <3>1
  <2>4. \A i, j \in DOMAIN queue' : queue'[i].caller = queue'[j].caller => i = j
    <3>1. \A i, j \in 1..Len(queue) : queue[i].caller = queue[j].caller => i = j
      BY <1>1, <1>4 DEF EngineInv, RequestsOK
    <3> QED
      BY <1>4, <2>1, <2>2, <3>1
  <2>5. current # NoCommand =>
          /\ caller'[current.caller].step = "wait" /\ answer'[current.caller] = None
          /\ caller'[current.caller].command = current.command
          /\ \A i \in DOMAIN queue' : queue'[i].caller # current.caller
    <3>1. current # NoCommand => \A i \in 1..Len(queue) : queue[i].caller # current.caller
      BY <1>1, <1>4 DEF EngineInv, RequestsOK
    <3> QED
      BY <1>3, <1>4, <2>1, <2>2, <3>1
  <2>6. \A d \in Callers : caller'[d].step = "wait" /\ answer'[d] = None
           => \/ \E i \in DOMAIN queue' : queue'[i].caller = d
              \/ current # NoCommand /\ current.caller = d
    <3>1. \E i \in DOMAIN queue' : queue'[i].caller = c
      BY <1>4, <2>1
    <3>2. ASSUME NEW d \in Callers \ {c}, caller'[d].step = "wait" /\ answer'[d] = None
          PROVE  \/ \E i \in DOMAIN queue' : queue'[i].caller = d
                 \/ current # NoCommand /\ current.caller = d
      <4>1. Owed(d)
        BY <1>3, <2>1, <3>2 DEF Owed
      <4>2. CASE \E i \in DOMAIN queue : queue[i].caller = d
        BY <1>4, <4>2
      <4>3. CASE current # NoCommand /\ current.caller = d
        BY <4>3
      <4> QED
        BY <1>1, <4>1, <4>2, <4>3 DEF EngineInv, RequestsOK
    <3> QED
      BY <3>1, <3>2
  <2> QED
    BY <2>1, <2>3, <2>4, <2>5, <2>6 DEF RequestsOK, Outstanding, Owed
<1>7. HandlesOK' /\ InHandOK' /\ EndsWithWorkersDown'
  BY <1>1 DEF EngineInv, HandlesOK, InHandOK, EndsWithWorkersDown, ToldToStop
<1>8. CausesOK'
  BY <1>1, <1>2, <1>3 DEF EngineInv, CausesOK, FailureHasACause, Caused
<1>9. OwnerOK' /\ OkMeansStopped' /\ CallsFresh'
  <2>1. OwnerOK'
    BY <1>1, <1>3 DEF EngineInv, OwnerOK, Callers
  <2>2. OkMeansStopped' /\ CallsFresh'
    BY <1>1, <1>2, <1>3 DEF EngineInv, OkMeansStopped, CallsFresh, None
  <2> QED
    BY <2>1, <2>2
<1> QED
  BY <1>5, <1>6, <1>7, <1>8, <1>9 DEF EngineInv

\* Workers stop and stay down, handles are taken for good, and the queue stays closed.
WorkersGoOn ==
  /\ thread' \in [Workers -> {"running", "finished", "crashed"}]
  /\ \A w \in Workers : thread'[w] = thread[w] \/ Running(w)
  /\ \A w \in Workers : thread'[w] = "finished" /\ Running(w) => ToldToStop(w)'
  /\ stored' \subseteq stored /\ closed' \in BOOLEAN /\ (closed => closed')
  /\ poisoned' \in BOOLEAN /\ (poisoned => poisoned')

\* What holds of the workers whatever is done with commands.
LEMMA WorkersOK ==
  ASSUME EngineInv, WorkersGoOn,
         pc' \in AudioTaken => pc \in AudioTaken \/ "audio" \notin stored',
         pc' \in AudioJoined => pc \in AudioJoined \/ ~Running("audio"),
         pc' \in OutputClosed => pc \in OutputClosed \/ closed',
         pc' \in SchedulerJoined => pc \in SchedulerJoined \/ ~Running("scheduler")
  PROVE  HandlesOK'
<1>1. /\ pc' \in AudioTaken => "audio" \notin stored'
      /\ pc' \in OutputClosed => closed'
  BY DEF EngineInv, HandlesOK, WorkersGoOn
<1>2. /\ pc' \in AudioJoined => ~Running("audio")'
      /\ pc' \in SchedulerJoined => ~Running("scheduler")'
  BY DEF EngineInv, HandlesOK, WorkersGoOn, Workers
<1>3. \A w \in Workers : thread'[w] = "finished" => ToldToStop(w)'
  BY DEF EngineInv, HandlesOK, WorkersGoOn, ToldToStop
<1> QED
  BY <1>1, <1>2, <1>3 DEF HandlesOK

\* Who is told why, or that all is well, can still rely on it.
LEMMA CausesKept ==
  ASSUME EngineInv, WorkersGoOn,
         UNCHANGED caller, terminalFailure' = terminalFailure
           \/ terminalFailure' = "panic" \/ (terminalFailure' \in Workers /\ Caused(terminalFailure'))
  PROVE  CausesOK'
<1>1. \A w \in Workers : Caused(w) => Caused(w)'
  BY DEF WorkersGoOn, Caused
<1>2. FailureHasACause'
  BY <1>1 DEF EngineInv, CausesOK, FailureHasACause, Caused, Workers
<1> QED
  BY <1>1, <1>2 DEF EngineInv, CausesOK

\* A step that leaves the commands, their callers and the owner alone.
LEMMA StageOK ==
  ASSUME EngineInv, WorkersGoOn, EngineTypeOK', HandlesOK', InHandOK', EndsWithWorkersDown',
         UNCHANGED <<queue, current, callerVars, ownerVars>>,
         pc = "ended" => pc' = "ended",
         terminalFailure' = terminalFailure
           \/ terminalFailure' = "panic" \/ (terminalFailure' \in Workers /\ Caused(terminalFailure'))
  PROVE  EngineInv'
<1>1. CausesOK'
  BY CausesKept
<1>2. RequestsOK'
  BY DEF EngineInv, RequestsOK, Outstanding, Owed
<1>3. OwnerOK' /\ OkMeansStopped' /\ CallsFresh'
  BY DEF EngineInv, OwnerOK, OkMeansStopped, CallsFresh, WorkersGoOn
<1> QED
  BY <1>1, <1>2, <1>3 DEF EngineInv

\* The command in hand is answered, and leaves the dispatcher's hands or ends with it.
LEMMA AnswerOK ==
  ASSUME EngineInv, WorkersGoOn, EngineTypeOK', HandlesOK', InHandOK', EndsWithWorkersDown',
         UNCHANGED <<queue, caller, ownerVars>>,
         pc # "ended", current # NoCommand, pc' = "ended" \/ current' = NoCommand,
         NEW a \in Replies \ {None}, Answer(current.caller, a),
         a = "ok" => current.command # "shutdown" \/ \A w \in Workers : ~Running(w),
         terminalFailure' = terminalFailure
           \/ terminalFailure' = "panic" \/ (terminalFailure' \in Workers /\ Caused(terminalFailure'))
  PROVE  EngineInv'
<1> DEFINE c == current.caller
<1>1. /\ c \in Callers /\ caller[c].step = "wait" /\ answer[c] = None
      /\ caller[c].command = current.command
      /\ answer \in [Callers -> Replies] /\ answer' = [answer EXCEPT ![c] = a]
      /\ \A i \in DOMAIN queue : queue[i].caller \in Callers
  BY CommandsHaveCallers DEF EngineInv, RequestsOK, Outstanding, Owed, EngineTypeOK
<1>2. /\ \A i \in DOMAIN queue : queue[i].caller # c
      /\ \A i \in DOMAIN queue :
           /\ caller[queue[i].caller].step = "wait" /\ answer[queue[i].caller] = None
           /\ caller[queue[i].caller].command = queue[i].command
      /\ \A i, j \in DOMAIN queue : queue[i].caller = queue[j].caller => i = j
      /\ \A d \in Callers : caller[d].step = "wait" /\ answer[d] = None
           => d = c \/ \E i \in DOMAIN queue : queue[i].caller = d
  BY DEF EngineInv, RequestsOK, Outstanding, Owed
<1> HIDE DEF c
<1>3. answer'[c] = a /\ a # None /\ \A d \in Callers \ {c} : answer'[d] = answer[d]
  BY <1>1
<1>4. RequestsOK'
  <2> SUFFICES ASSUME pc' # "ended" PROVE RequestsOK'
    BY DEF RequestsOK
  <2> QED
    BY <1>1, <1>2, <1>3 DEF RequestsOK, Outstanding, Owed
<1>5. CausesOK'
  BY CausesKept
<1>6. OkMeansStopped'
  <2>1. ASSUME NEW d \in Callers, caller[d].command = "shutdown", answer'[d] = "ok"
        PROVE  \A w \in Workers : ~Running(w)
    BY <1>1, <1>3, <2>1 DEF EngineInv, OkMeansStopped
  <2>2. \A w \in Workers : ~Running(w) => ~Running(w)'
    BY DEF WorkersGoOn
  <2> QED
    BY <2>1, <2>2 DEF OkMeansStopped
<1>7. OwnerOK' /\ CallsFresh'
  BY <1>1, <1>3 DEF EngineInv, OwnerOK, CallsFresh
<1> QED
  BY <1>4, <1>5, <1>6, <1>7 DEF EngineInv

\* The command that is received passes from the queue into the dispatcher's hands.
LEMMA ReceiveOK == ASSUME EngineInv, ReceiveCommand PROVE EngineInv'
<1>1. /\ queue \in Seq(Command) /\ queue # <<>> /\ current' = queue[1] /\ queue' = Tail(queue)
      /\ pc = "receive" /\ pc' = "gate" /\ current = NoCommand /\ ~replyDue
      /\ UNCHANGED <<accepting, shutdownRequested, terminalFailure, replyDue, workerVars, callerVars,
                     ownerVars>>
  BY DEF ReceiveCommand, EngineInv, EngineTypeOK, InHandOK
<1>2. /\ Len(queue) \in Nat \ {0} /\ DOMAIN queue = 1..Len(queue) /\ queue[1] \in Command
      /\ queue' \in Seq(Command) /\ Len(queue') = Len(queue) - 1 /\ DOMAIN queue' = 1..(Len(queue) - 1)
      /\ \A i \in DOMAIN queue' : i + 1 \in DOMAIN queue /\ queue'[i] = queue[i + 1]
      /\ current' # NoCommand
  <2>1. /\ Len(queue) \in Nat \ {0} /\ DOMAIN queue = 1..Len(queue) /\ queue[1] \in Command
        /\ queue' \in Seq(Command) /\ Len(queue') = Len(queue) - 1 /\ DOMAIN queue' = 1..(Len(queue) - 1)
        /\ \A i \in 1..(Len(queue) - 1) : i + 1 \in 1..Len(queue) /\ queue'[i] = queue[i + 1]
    BY <1>1
  <2> QED
    BY <1>1, <2>1, FieldsOK
<1>3. EngineTypeOK'
  BY <1>1, <1>2 DEF EngineInv, EngineTypeOK, Places
<1>4. RequestsOK'
  <2>1. /\ \A i \in DOMAIN queue :
             /\ caller[queue[i].caller].step = "wait" /\ answer[queue[i].caller] = None
             /\ caller[queue[i].caller].command = queue[i].command
        /\ \A i, j \in DOMAIN queue : queue[i].caller = queue[j].caller => i = j
        /\ \A d \in Callers : caller[d].step = "wait" /\ answer[d] = None
             => \E i \in DOMAIN queue : queue[i].caller = d
    BY <1>1 DEF EngineInv, RequestsOK, Outstanding, Owed
  <2>2. \A i \in DOMAIN queue' :
          /\ caller'[queue'[i].caller].step = "wait" /\ answer'[queue'[i].caller] = None
          /\ caller'[queue'[i].caller].command = queue'[i].command
          /\ queue'[i].caller # current'.caller
    BY <1>1, <1>2, <2>1
  <2>3. \A i, j \in DOMAIN queue' : queue'[i].caller = queue'[j].caller => i = j
    <3>1. ASSUME NEW i \in DOMAIN queue', NEW j \in DOMAIN queue', queue'[i].caller = queue'[j].caller
          PROVE  i = j
      <4>1. i + 1 = j + 1
        BY <1>2, <2>1, <3>1
      <4> QED
        BY <1>2, <4>1
    <3> QED
      BY <3>1
  <2>4. /\ caller'[current'.caller].step = "wait" /\ answer'[current'.caller] = None
        /\ caller'[current'.caller].command = current'.command
    BY <1>1, <1>2, <2>1
  <2>5. \A d \in Callers : caller'[d].step = "wait" /\ answer'[d] = None
          => (\E i \in DOMAIN queue' : queue'[i].caller = d) \/ current'.caller = d
    <3>1. ASSUME NEW d \in Callers, caller'[d].step = "wait" /\ answer'[d] = None, current'.caller # d
          PROVE  \E i \in DOMAIN queue' : queue'[i].caller = d
      <4>1. PICK i \in DOMAIN queue : queue[i].caller = d
        BY <1>1, <2>1, <3>1
      <4>2. i \in 1..Len(queue) /\ i # 1
        BY <1>1, <1>2, <3>1, <4>1
      <4>3. i - 1 \in DOMAIN queue' /\ queue'[i - 1] = queue[i]
        BY <1>2, <4>2
      <4> QED
        BY <4>1, <4>3
    <3> QED
      BY <3>1
  <2> QED
    BY <1>2, <2>2, <2>3, <2>4, <2>5 DEF RequestsOK, Outstanding, Owed
<1>5. HandlesOK' /\ CausesOK' /\ InHandOK' /\ EndsWithWorkersDown'
  BY <1>1, <1>2 DEF EngineInv, HandlesOK, CausesOK, FailureHasACause, Caused, InHandOK, EndsWithWorkersDown, ToldToStop
<1>6. OwnerOK' /\ OkMeansStopped' /\ CallsFresh'
  BY <1>1 DEF EngineInv, OwnerOK, OkMeansStopped, CallsFresh
<1> QED
  BY <1>3, <1>4, <1>5, <1>6 DEF EngineInv

\* A step that leaves the workers alone lets them go on.
LEMMA WorkersRest == ASSUME EngineInv, UNCHANGED workerVars PROVE WorkersGoOn
BY DEF EngineInv, EngineTypeOK, WorkersGoOn

\* The command loop, between two commands: it looks at its flags, waits, and opens the gate.
LEMMA LoopOK ==
  ASSUME EngineInv,
         LoopTop \/ LoopShutDown \/ ReceiveTimesOut \/ GateOpens \/ VerifyPasses \/ DispatchShutdown
  PROVE  EngineInv'
<1>1. WorkersGoOn
  BY WorkersRest DEF LoopTop, LoopShutDown, ReceiveTimesOut, GateOpens, VerifyPasses, DispatchShutdown
<1>2. /\ pc \in {"top", "receive", "gate", "verify", "dispatch"}
      /\ pc' \in {"top", "receive", "verify", "dispatch", "audio"}
      /\ UNCHANGED <<queue, current, shutdownRequested, workerVars, callerVars, ownerVars>>
      /\ accepting' \in {accepting, FALSE}
  BY DEF LoopTop, LoopShutDown, ReceiveTimesOut, Fail, GateOpens, VerifyPasses, DispatchShutdown,
         ShutDownWorkers
<1>3. /\ pc' \in {"top", "receive", "verify", "dispatch"} => ~replyDue'
      /\ replyDue' => current # NoCommand /\ current.command = "shutdown"
      /\ replyDue' \in BOOLEAN
      /\ pc' \in {"verify", "dispatch"} => current # NoCommand
      /\ pc' \in {"top", "receive"} => current = NoCommand
  <2>1. CASE DispatchShutdown
    <3>1. pc = "dispatch" /\ pc' = "audio" /\ replyDue' = TRUE /\ current.command = "shutdown"
      BY <2>1 DEF DispatchShutdown, ShutDownWorkers
    <3> QED
      BY <3>1 DEF EngineInv, InHandOK
  <2>2. CASE ~DispatchShutdown
    <3>1. replyDue' = FALSE \/ replyDue' = replyDue
      BY <2>2 DEF LoopTop, LoopShutDown, ReceiveTimesOut, Fail, GateOpens, VerifyPasses, ShutDownWorkers
    <3>2. ~replyDue
      BY <1>2 DEF EngineInv, InHandOK
    <3>3. replyDue' = FALSE
      BY <3>1, <3>2 DEF EngineInv, EngineTypeOK
    <3>4. /\ pc' \in {"verify", "dispatch"} => pc \in {"gate", "verify"}
          /\ pc' \in {"top", "receive"} => pc \in {"top", "receive"}
      BY <2>2 DEF LoopTop, LoopShutDown, ReceiveTimesOut, Fail, GateOpens, VerifyPasses, ShutDownWorkers
    <3> QED
      BY <3>3, <3>4 DEF EngineInv, InHandOK
  <2> QED
    BY <2>1, <2>2
<1>4. terminalFailure' = terminalFailure \/ (terminalFailure' \in Workers /\ Caused(terminalFailure'))
  BY FailedIsCaused DEF LoopTop, LoopShutDown, ReceiveTimesOut, Fail, GateOpens, VerifyPasses,
         DispatchShutdown
<1>5. EngineTypeOK'
  <2>1. accepting' \in BOOLEAN
    BY <1>2 DEF EngineInv, EngineTypeOK
  <2>2. pc' \in Places /\ terminalFailure' \in {None} \union Failures
    BY <1>2, <1>4 DEF EngineInv, EngineTypeOK, Places, Failures
  <2> QED
    BY <1>2, <1>3, <2>1, <2>2 DEF EngineInv, EngineTypeOK
<1>6. HandlesOK'
  BY <1>1, <1>2, WorkersOK
<1>7. InHandOK' /\ EndsWithWorkersDown'
  BY <1>2, <1>3 DEF InHandOK, EndsWithWorkersDown
<1> QED
  BY <1>1, <1>2, <1>4, <1>5, <1>6, <1>7, StageOK

\* A command that is answered out of the dispatcher's hands.
LEMMA DispatchOK ==
  ASSUME EngineInv, GateRefuses \/ VerifyFails \/ DispatchWork \/ DispatchPanics
  PROVE  EngineInv'
<1>1. WorkersGoOn
  BY WorkersRest DEF GateRefuses, VerifyFails, DispatchWork, DispatchPanics
<1>2. /\ pc \in {"gate", "verify", "dispatch"} /\ pc' \in {"top", "audio"}
      /\ current # NoCommand /\ current' = NoCommand /\ ~replyDue /\ ~replyDue'
      /\ UNCHANGED <<queue, shutdownRequested, workerVars, caller, ownerVars>>
      /\ accepting' \in {accepting, FALSE}
  <2>1. CASE GateRefuses
    BY <2>1 DEF GateRefuses, EngineInv, InHandOK
  <2>2. CASE VerifyFails
    BY <2>2 DEF VerifyFails, Fail, ShutDownWorkers, EngineInv, InHandOK
  <2>3. CASE DispatchWork
    BY <2>3 DEF DispatchWork, EngineInv, InHandOK
  <2>4. CASE DispatchPanics
    BY <2>4 DEF DispatchPanics, Fail, ShutDownWorkers, EngineInv, InHandOK
  <2> QED
    BY <2>1, <2>2, <2>3, <2>4
<1>3. terminalFailure' = terminalFailure \/ terminalFailure' = "panic"
      \/ (terminalFailure' \in Workers /\ Caused(terminalFailure'))
  BY FailedIsCaused DEF GateRefuses, VerifyFails, DispatchWork, DispatchPanics, Fail
<1>4. PICK a \in Replies \ {None} : /\ answer' = [answer EXCEPT ![current.caller] = a]
                                    /\ a = "ok" => current.command # "shutdown"
  <2>1. {"ok", "stopped", "failed"} \subseteq Replies \ {None}
    BY DEF Replies, None
  <2> QED
    BY <2>1 DEF GateRefuses, RefuseCurrent, VerifyFails, DispatchWork, DispatchPanics
<1>5. EngineTypeOK'
  <2>1. accepting' \in BOOLEAN
    BY <1>2 DEF EngineInv, EngineTypeOK
  <2>2. pc' \in Places /\ terminalFailure' \in {None} \union Failures /\ answer' \in [Callers -> Replies]
    BY <1>2, <1>3, <1>4 DEF EngineInv, EngineTypeOK, Places, Failures
  <2>3. replyDue' \in BOOLEAN
    <3>1. replyDue' = FALSE \/ replyDue' = replyDue
      BY DEF GateRefuses, VerifyFails, DispatchWork, DispatchPanics, Fail, ShutDownWorkers
    <3> QED
      BY <3>1 DEF EngineInv, EngineTypeOK
  <2> QED
    BY <1>2, <2>1, <2>2, <2>3 DEF EngineInv, EngineTypeOK
<1>6. HandlesOK'
  BY <1>1, <1>2, WorkersOK
<1>7. InHandOK' /\ EndsWithWorkersDown'
  BY <1>2 DEF InHandOK, EndsWithWorkersDown
<1> QED
  BY <1>1, <1>2, <1>3, <1>4, <1>5, <1>6, <1>7, AnswerOK

\* The stages of shutdown_workers that answer nobody.
LEMMA CloseDownOK ==
  ASSUME EngineInv,
         \/ TakeHandle("audio", "audio", "joinAudio") \/ Join("audio", "joinAudio", "close")
         \/ CloseOutput
         \/ TakeHandle("scheduler", "scheduler", "joinScheduler")
         \/ Join("scheduler", "joinScheduler", "output")
         \/ TakeHandle("output", "output", "await")
  PROVE  EngineInv'
<1>1. /\ pc \in {"audio", "joinAudio", "close", "scheduler", "joinScheduler", "output"}
      /\ pc' \in {"joinAudio", "close", "scheduler", "joinScheduler", "output", "await"}
      /\ stored' \subseteq stored
      /\ UNCHANGED <<accepting, shutdownRequested, terminalFailure, queue, current, replyDue, thread,
                     poisoned, callerVars, ownerVars>>
  BY DEF TakeHandle, Join, CloseOutput
<1>2. /\ pc' \in AudioTaken => pc \in AudioTaken \/ "audio" \notin stored'
      /\ pc' \in AudioJoined => pc \in AudioJoined \/ ~Running("audio")
      /\ pc' \in OutputClosed => pc \in OutputClosed \/ closed'
      /\ pc' \in SchedulerJoined => pc \in SchedulerJoined \/ ~Running("scheduler")
  BY DEF TakeHandle, Join, CloseOutput
<1>3. closed' \in BOOLEAN /\ (closed => closed')
  BY DEF TakeHandle, Join, CloseOutput, EngineInv, EngineTypeOK
<1>4. WorkersGoOn
  BY <1>1, <1>3 DEF WorkersGoOn, EngineInv, EngineTypeOK
<1>5. HandlesOK'
  BY <1>2, <1>4, WorkersOK
<1>6. EngineTypeOK'
  BY <1>1, <1>3 DEF EngineInv, EngineTypeOK, Places
<1>7. InHandOK' /\ EndsWithWorkersDown'
  BY <1>1 DEF EngineInv, InHandOK, EndsWithWorkersDown
<1> QED
  BY <1>1, <1>4, <1>5, <1>6, <1>7, StageOK

\* The ends of the dispatcher: whoever asked for it is answered.
LEMMA EndOK ==
  ASSUME EngineInv, ClosePanics \/ SchedulerPanicked \/ OutputAnswers
  PROVE  EngineInv'
<1>1. /\ pc \in {"close", "joinScheduler", "await"} /\ pc' = "ended" /\ accepting' = FALSE
      /\ UNCHANGED <<shutdownRequested, queue, current, replyDue, workerVars, caller, ownerVars>>
      /\ terminalFailure' = terminalFailure \/ terminalFailure' = "panic"
      /\ pc = "close" => poisoned
  BY DEF ClosePanics, SchedulerPanicked, OutputAnswers, EndWith
<1>2. WorkersGoOn
  BY <1>1, WorkersRest
<1>3. IF replyDue
        THEN \E a \in Replies \ {None} : /\ answer' = [answer EXCEPT ![current.caller] = a]
                                         /\ a = "ok" => \A w \in Workers : ~Running(w)
        ELSE UNCHANGED answer
  <2>0. {"ok", "error", "failed"} \subseteq Replies \ {None}
    BY DEF Replies, None
  <2>1. CASE ClosePanics
    BY <2>0, <2>1 DEF ClosePanics
  <2>2. CASE SchedulerPanicked
    BY <2>0, <2>2 DEF SchedulerPanicked, EndWith
  <2>3. CASE OutputAnswers
    <3>1. pc = "await"
      BY <2>3 DEF OutputAnswers
    <3>2. OutputStopped => \A w \in Workers : ~Running(w)
      BY <3>1 DEF EngineInv, HandlesOK, OutputStopped, Workers
    <3> QED
      BY <2>0, <2>3, <3>2 DEF OutputAnswers, EndWith
  <2> QED
    BY <2>1, <2>2, <2>3
<1>4. EngineTypeOK'
  <2>1. answer' \in [Callers -> Replies]
    BY <1>3 DEF EngineInv, EngineTypeOK
  <2> QED
    BY <1>1, <2>1 DEF EngineInv, EngineTypeOK, Places, Failures
<1>5. HandlesOK'
  BY <1>1, <1>2, WorkersOK
<1>6. InHandOK'
  BY <1>1 DEF EngineInv, InHandOK
<1>7. EndsWithWorkersDown'
  BY <1>1 DEF EngineInv, HandlesOK, EndsWithWorkersDown
<1>8. CASE replyDue
  <2>1. PICK a \in Replies \ {None} : /\ answer' = [answer EXCEPT ![current.caller] = a]
                                      /\ a = "ok" => \A w \in Workers : ~Running(w)
    BY <1>3, <1>8
  <2>2. current # NoCommand
    BY <1>8 DEF EngineInv, InHandOK
  <2> QED
    BY <1>1, <1>2, <1>4, <1>5, <1>6, <1>7, <2>1, <2>2, AnswerOK
<1>9. CASE ~replyDue
  BY <1>1, <1>2, <1>3, <1>4, <1>5, <1>6, <1>7, <1>9, StageOK
<1> QED
  BY <1>8, <1>9

\* A worker ends: when it is told to, or by a panic.
LEMMA WorkerOK == ASSUME EngineInv, NEW w \in Workers, Finish(w) \/ Crash(w) PROVE EngineInv'
<1>1. /\ Running(w)
      /\ UNCHANGED <<accepting, shutdownRequested, terminalFailure, queue, dispatcherVars, stored,
                     closed, callerVars, ownerVars>>
  BY DEF Finish, Crash
<1>2. /\ thread' \in [Workers -> {"running", "finished", "crashed"}]
      /\ \A v \in Workers : thread'[v] = thread[v] \/ Running(v)
      /\ \A v \in Workers : thread'[v] = "finished" /\ Running(v) => ToldToStop(v)'
  <2>1. CASE Finish(w)
    BY <2>1 DEF Finish, EngineInv, EngineTypeOK, ToldToStop
  <2>2. CASE Crash(w)
    BY <2>2 DEF Crash, EngineInv, EngineTypeOK
  <2> QED
    BY <2>1, <2>2
<1>3. poisoned' \in BOOLEAN /\ (poisoned => poisoned')
  <2>1. CASE Finish(w)
    BY <2>1 DEF Finish, EngineInv, EngineTypeOK
  <2>2. CASE Crash(w)
    <3>1. poisoned' = TRUE \/ poisoned' = poisoned
      BY <2>2 DEF Crash
    <3> QED
      BY <3>1 DEF EngineInv, EngineTypeOK
  <2> QED
    BY <2>1, <2>2
<1>4. WorkersGoOn
  BY <1>1, <1>2, <1>3 DEF WorkersGoOn, EngineInv, EngineTypeOK
<1>5. HandlesOK'
  BY <1>1, <1>4, WorkersOK
<1>6. EngineTypeOK'
  BY <1>1, <1>2, <1>3 DEF EngineInv, EngineTypeOK
<1>7. InHandOK' /\ EndsWithWorkersDown'
  BY <1>1, <1>3 DEF EngineInv, InHandOK, EndsWithWorkersDown
<1> QED
  BY <1>1, <1>4, <1>5, <1>6, <1>7, StageOK

\* The owner's steps other than its call.
LEMMA OwnerStepsOK ==
  ASSUME EngineInv,
         \/ BeginShutdown \/ ShutdownByFlag \/ OwnerAnswered \/ OwnerReturns \/ Drop \/ DropRequests
  PROVE  EngineInv'
<1>1. /\ UNCHANGED <<terminalFailure, queue, dispatcherVars, workerVars, caller>>
      /\ accepting' = accepting \/ accepting' = FALSE
  BY DEF BeginShutdown, ShutdownByFlag, OwnerAnswered, OwnerReturns, Drop, DropRequests
<1>2. /\ answer' = answer \/ (answer' = [answer EXCEPT ![Owner] = "ok"] /\ owner = "deciding")
      /\ owner' \in OwnerPlaces
      /\ owner' \in {"holding", "deciding", "dropping", "dropped"}
           => owner \in {"holding", "deciding", "dropping", "dropped"}
  BY DEF BeginShutdown, ShutdownByFlag, OwnerAnswered, OwnerReturns, Drop, DropRequests, OwnerPlaces
<1>3. accepting' \in BOOLEAN /\ (~accepting => ~accepting')
  <2>1. CASE accepting' = accepting
    BY <2>1 DEF EngineInv, EngineTypeOK
  <2>2. CASE accepting' = FALSE
    BY <2>2
  <2> QED
    BY <1>1, <2>1, <2>2
<1>4. /\ caller[Owner].step = "idle" \/ answer' = answer
      /\ answer' \in [Callers -> Replies] /\ \A c \in Callers \ {Owner} : answer'[c] = answer[c]
  BY <1>2 DEF EngineInv, EngineTypeOK, OwnerOK, Replies
<1>5. EngineTypeOK'
  <2>1. shutdownRequested' \in BOOLEAN
    <3>1. CASE OwnerAnswered
      BY <3>1 DEF OwnerAnswered
    <3>2. CASE ~OwnerAnswered
      <4>1. shutdownRequested' = shutdownRequested \/ shutdownRequested' = TRUE
        BY <3>2 DEF BeginShutdown, ShutdownByFlag, OwnerReturns, Drop, DropRequests
      <4> QED
        BY <4>1 DEF EngineInv, EngineTypeOK
    <3> QED
      BY <3>1, <3>2
  <2>2. wasAccepting' \in BOOLEAN
    <3>1. wasAccepting' = accepting \/ wasAccepting' = wasAccepting
      BY DEF BeginShutdown, ShutdownByFlag, OwnerAnswered, OwnerReturns, Drop, DropRequests
    <3> QED
      BY <3>1 DEF EngineInv, EngineTypeOK
  <2>3. result' \in Replies
    <3>1. result' = result \/ result' = "failed" \/ result' = answer[Owner]
      BY DEF BeginShutdown, ShutdownByFlag, OwnerAnswered, OwnerReturns, Drop, DropRequests
    <3> QED
      BY <3>1 DEF EngineInv, EngineTypeOK, Callers, Replies
  <2> QED
    BY <1>1, <1>2, <1>3, <1>4, <2>1, <2>2, <2>3 DEF EngineInv, EngineTypeOK
<1>6. HandlesOK' /\ CausesOK' /\ InHandOK'
  BY <1>1 DEF EngineInv, HandlesOK, CausesOK, FailureHasACause, Caused, InHandOK, ToldToStop
<1>7. EndsWithWorkersDown'
  BY <1>1, <1>3 DEF EngineInv, EndsWithWorkersDown
<1>8. OwnerOK' /\ CallsFresh'
  BY <1>1, <1>2, <1>4 DEF EngineInv, OwnerOK, CallsFresh
<1>9. OkMeansStopped'
  <2>0. Owner \in Callers
    BY DEF Callers
  <2>1. caller[Owner].step = "idle" => caller[Owner] = Idle
    BY <2>0 DEF EngineInv, CallsFresh
  <2>2. caller[Owner].step = "idle" => caller[Owner].command = "health"
    BY <2>1, FieldsOK
  <2> QED
    BY <1>1, <1>4, <2>2 DEF EngineInv, OkMeansStopped
<1>10. RequestsOK'
  <2>1. ASSUME NEW c \in Callers PROVE Owed(c)' <=> Owed(c)
    <3>1. caller[c].step = "wait" => answer'[c] = answer[c]
      BY <1>4
    <3> QED
      BY <1>1, <3>1 DEF Owed
  <2>2. /\ \A i \in DOMAIN queue : queue[i].caller \in Callers
        /\ current # NoCommand => current.caller \in Callers
    BY CommandsHaveCallers DEF EngineInv
  <2> QED
    BY <1>1, <2>1, <2>2 DEF EngineInv, RequestsOK, Outstanding
<1> QED
  BY <1>5, <1>6, <1>7, <1>8, <1>9, <1>10 DEF EngineInv

\* A step of anyone, or of nobody, keeps the invariant.
LEMMA EngineStepOK == EngineInv /\ [Next]_vars => EngineInv'
<1> SUFFICES ASSUME EngineInv, [Next]_vars PROVE EngineInv'
  OBVIOUS
<1>1. ASSUME NEW c \in Direct \union Ipc, NEW command \in Commands, Begin(c, command) PROVE EngineInv'
  <2>1. c \in Callers /\ c # Owner /\ owner \in OwnerPlaces
    BY DEF Callers, EngineInv, EngineTypeOK
  <2> QED
    BY <1>1, <2>1, CallOK DEF Begin
<1>2. ASSUME NEW c \in Callers, Proceed(c) PROVE EngineInv'
  BY <1>2, CallsOK, SendOK DEF Proceed
<1>3. CASE Dispatcher
  BY <1>3, LoopOK, ReceiveOK, DispatchOK, CloseDownOK, EndOK DEF Dispatcher, Closing
<1>4. ASSUME NEW w \in Workers, Finish(w) \/ Crash(w) PROVE EngineInv'
  BY <1>4, WorkerOK
<1>5. CASE ShutdownByRequest
  <2>1. /\ Owner \in Callers /\ "shutdown" \in Commands /\ "requesting" \in OwnerPlaces
        /\ owner' = "requesting"
    BY <1>5 DEF Callers, Commands, OwnerPlaces, ShutdownByRequest
  <2> QED
    BY <1>5, <2>1, CallOK DEF ShutdownByRequest
<1>6. CASE BeginShutdown \/ ShutdownByFlag \/ OwnerAnswered \/ OwnerReturns \/ Drop \/ DropRequests
  BY <1>6, OwnerStepsOK
<1>7. CASE UNCHANGED vars
  <2>1. WorkersGoOn
    BY <1>7, WorkersRest
  <2>2. EngineTypeOK' /\ HandlesOK' /\ InHandOK' /\ EndsWithWorkersDown'
    BY <1>7 DEF EngineInv, EngineTypeOK, HandlesOK, ToldToStop, InHandOK, EndsWithWorkersDown
  <2> QED
    BY <1>7, <2>1, <2>2, StageOK
<1> QED
  BY <1>1, <1>2, <1>3, <1>4, <1>5, <1>6, <1>7 DEF Next, OwnerGoesOn, Finished

\* The engine answers for its workers, whoever calls, shuts it down or panics: the workers
\* and their handles, the causes of a failure and the commands that are owed an answer
\* agree, as shutdown_workers and engine_command_loop keep them.
THEOREM EngineInvariant == Spec => []EngineInv
BY EngineInitOK, EngineStepOK, PTL DEF Spec

\* The control plane's state is well formed, and its queue stays within ENGINE_COMMAND_CAPACITY.
THEOREM EngineTypes == Spec => []TypeOK
<1>1. EngineInv => TypeOK
  BY TypesMean DEF EngineInv
<1> QED
  BY <1>1, EngineInvariant, PTL

\* Every way out of engine_command_loop has taken the audio worker's handle and closed the
\* output queue as far as it can be locked, and whoever is told that its Shutdown
\* succeeded can rely on every worker thread being gone.
THEOREM NoWorkerIsLeft == Spec => []NoWorkerLeft
<1>1. EngineInv => NoWorkerLeft
  BY DEF EngineInv, NoWorkerLeft
<1> QED
  BY <1>1, EngineInvariant, PTL

\* check_workers and worker_failure name a worker only if it panicked or the queue was
\* closed: a worker that is still running is never what a client is told has died.
THEOREM FailuresAreCaused == Spec => []FailureHasACause
<1>1. EngineInv => FailureHasACause
  BY DEF EngineInv, CausesOK
<1> QED
  BY <1>1, EngineInvariant, PTL

\* A request that is in the queue or in hand is there once.
LEMMA OneOf == ASSUME NEW S, NEW i \in S, \A j \in S : j = i PROVE Cardinality(S) = 1
<1>1. S = {i}
  OBVIOUS
<1> QED
  BY <1>1, FS_Singleton

\* A request that was sent and not answered is in exactly one place: in the bounded queue or
\* in the dispatcher's hands.  No command is lost, and none is answered twice.
THEOREM RequestsAreKept == Spec => []AnswerOwed
<1>1. ASSUME EngineInv, NEW c \in Callers, Owed(c), pc # "ended"
      PROVE  Cardinality(Queued(c)) + (IF InHand(c) THEN 1 ELSE 0) = 1
  <2>0. c # "none"
    BY <1>1
  <2>1. CASE current # NoCommand /\ current.caller = c
    <3>1. Queued(c) = {}
      BY <1>1, <2>1 DEF EngineInv, RequestsOK, Queued
    <3> QED
      BY <2>1, <3>1, FS_EmptySet DEF InHand
  <2>2. CASE ~(current # NoCommand /\ current.caller = c)
    <3>1. ~InHand(c)
      BY <2>0, <2>2 DEF InHand, NoCommand, None
    <3>2. PICK i \in DOMAIN queue : queue[i].caller = c
      BY <1>1, <2>2 DEF EngineInv, RequestsOK
    <3>3. i \in Queued(c) /\ \A j \in Queued(c) : j = i
      BY <1>1, <3>2 DEF EngineInv, RequestsOK, Queued
    <3> QED
      BY <3>1, <3>3, OneOf
  <2> QED
    BY <2>1, <2>2
<1>2. EngineInv => AnswerOwed
  BY <1>1 DEF AnswerOwed, Owed
<1> QED
  BY <1>2, EngineInvariant, PTL
=============================================================================
