----------------------------- MODULE EventDelivery -----------------------------
(***************************************************************************)
(* The delivery of music structure events (section changes, drops, phase   *)
(* changes) from the audio worker to the renderers of the output worker:   *)
(* WorkerState::process_batch_inner and submit_audio_frame in              *)
(* crates/lumistripe-engine-runtime/src/audio_worker.rs, the audio         *)
(* snapshot of the scheduled request, advance_cycle_after_render, and the  *)
(* acknowledgements that return through RuntimeHealth in lib.rs.           *)
(*                                                                         *)
(* Events are numbered by structure_event_sequence.  pending_structure is  *)
(* always a range of them, from Oldest to structureSequence.  An audio     *)
(* snapshot is kept as the events it holds for each output.  The outputs   *)
(* stay configured; OutputWorker models what else happens to the schedule. *)
(***************************************************************************)
EXTENDS Integers, FiniteSets, FiniteSetsExt, Sequences

CONSTANTS
  OutputCount,  \* configured outputs
  History,      \* AUDIO_EVENT_HISTORY_CAPACITY
  Budget,       \* MAX_RENDER_STRUCTURE_EVENTS
  MaxEvents     \* bound: structure events in a behaviour

ASSUME EventDeliveryAssumption ==
  /\ OutputCount \in Nat \ {0} /\ History \in Nat \ {0}
  /\ Budget \in Nat /\ MaxEvents \in Nat

Outputs == 1..OutputCount
Events  == 1..MaxEvents

VARIABLES
  pc,                 \* "idle", "frame" or "submit": the audio worker
  structureSequence,  \* number of the newest structure event
  trimmed,            \* events up to this one have left pending_structure
  acknowledged,       \* the acknowledgements submit_audio_frame has read
  scheduled,          \* there is a scheduled scene
  snapshot,           \* structure events of its audio, per output
  processed,          \* its structure_event_sequences, per output
  rendering,          \* "no", "current" or "stale": the render in flight
  published,          \* health.structure_event_sequences, <<>> when cleared
  \* What the properties talk about:
  seen,               \* events each output has acted on
  given               \* events given up: pushed out of the history, or cleared

worker == <<pc, structureSequence, trimmed, acknowledged, given>>
output == <<scheduled, snapshot, processed, rendering, published, seen>>
vars == <<worker, output>>

Nothing == [o \in Outputs |-> {}]
Pending == (trimmed + 1)..structureSequence

Init ==
  /\ pc = "idle" /\ structureSequence = 0 /\ trimmed = 0 /\ acknowledged = <<>>
  /\ scheduled = FALSE /\ snapshot = Nothing /\ processed = [o \in Outputs |-> 0]
  /\ rendering = "no" /\ published = <<>>
  /\ seen = Nothing /\ given = {}

-----------------------------------------------------------------------------
(* The audio worker.                                                       *)

\* A feature frame without a structure edge, ...
Frame ==
  /\ pc = "idle"
  /\ pc' = "frame"
  /\ UNCHANGED <<structureSequence, trimmed, acknowledged, given, output>>

Full == Cardinality(Pending) = History

\* ... or with one, which pushes the oldest out of a full history.
StructureEdge ==
  /\ pc = "idle" /\ structureSequence < MaxEvents
  /\ pc' = "frame"
  /\ structureSequence' = structureSequence + 1
  /\ IF Full
       THEN trimmed' = trimmed + 1 /\ given' = given \union {trimmed + 1}
       ELSE UNCHANGED <<trimmed, given>>
  /\ UNCHANGED <<acknowledged, output>>

ReadAcknowledgments ==
  /\ pc = "frame"
  /\ acknowledged' = published
  /\ pc' = "submit"
  /\ UNCHANGED <<structureSequence, trimmed, given, output>>

\* What every output has acknowledged leaves the history.
TrimByAllOutputs ==
  IF acknowledged = <<>> THEN trimmed
  ELSE Max({trimmed, Min({acknowledged[o] : o \in Outputs})})

ServeFirst(from) ==
  [o \in Outputs |-> IF o = 1 THEN (from + 1)..structureSequence ELSE {}]

\* Event e of the n pending ones is the (e - from)th that output o is given;
\* the outputs are served one after the other until the budget is spent.
Limit == (Budget \div OutputCount) * OutputCount
Serve(from) ==
  LET n == structureSequence - from
  IN  [o \in Outputs |->
        {e \in (from + 1)..structureSequence : (o - 1) * n + (e - from) <= Limit}]

\* submit_audio_update replaces the audio of the scheduled request, which
\* detaches a render in flight from it; without a schedule it is refused.
Submit ==
  /\ pc = "submit"
  /\ pc' = "idle"
  /\ trimmed' = TrimByAllOutputs
  /\ IF scheduled
       THEN /\ snapshot' = Serve(trimmed')
            /\ rendering' = IF rendering = "current" THEN "stale" ELSE rendering
       ELSE UNCHANGED <<snapshot, rendering>>
  /\ UNCHANGED <<structureSequence, acknowledged, given, scheduled, processed,
                 published, seen>>

\* Start, stop, reconfiguration, loss of the input: pending events are
\* cleared and an update without audio is submitted.
ClearAudio ==
  /\ pc = "idle"
  /\ trimmed' = structureSequence
  /\ given' = given \union Pending
  /\ IF scheduled
       THEN /\ snapshot' = Nothing
            /\ rendering' = IF rendering = "current" THEN "stale" ELSE rendering
       ELSE UNCHANGED <<snapshot, rendering>>
  /\ UNCHANGED <<pc, structureSequence, acknowledged, scheduled, processed,
                 published, seen>>

AudioWorker == Frame \/ StructureEdge \/ ReadAcknowledgments \/ Submit \/ ClearAudio

-----------------------------------------------------------------------------
(* The output worker.                                                      *)

\* A scene keeps the audio and the progress of the scene it replaces.
InstallScene ==
  /\ scheduled' = TRUE
  /\ IF scheduled THEN UNCHANGED <<snapshot, processed>>
     ELSE snapshot' = Nothing /\ processed' = [o \in Outputs |-> 0]
  /\ rendering' = IF rendering = "current" THEN "stale" ELSE rendering
  /\ UNCHANGED <<worker, published, seen>>

\* A raw frame or a direct render ends the schedule.
EndSchedule ==
  /\ scheduled
  /\ scheduled' = FALSE
  /\ published' = <<>>
  /\ rendering' = IF rendering = "current" THEN "stale" ELSE rendering
  /\ UNCHANGED <<worker, snapshot, processed, seen>>

StartRender ==
  /\ scheduled /\ rendering = "no"
  /\ rendering' = "current"
  /\ UNCHANGED <<worker, scheduled, snapshot, processed, published, seen>>

\* advance_cycle_after_render leaves a request alone that was replaced.
RenderedStale ==
  /\ rendering = "stale"
  /\ rendering' = "no"
  /\ UNCHANGED <<worker, scheduled, snapshot, processed, published, seen>>

\* The events of the snapshot that output o has not processed and that are
\* not later than the rendered instant; due is the newest of those.
Fresh(o, due) == {e \in snapshot[o] : e > processed[o] /\ e <= due}

RenderedAll(due) ==
  /\ rendering = "current"
  /\ rendering' = "no"
  /\ processed' = [o \in Outputs |-> Max({processed[o]} \union snapshot[o])]
  /\ seen' = [o \in Outputs |-> seen[o] \union Fresh(o, due)]
  /\ published' = processed'
  /\ UNCHANGED <<worker, scheduled, snapshot>>

Rendered(due) ==
  /\ rendering = "current"
  /\ rendering' = "no"
  /\ processed' = [o \in Outputs |-> Max({processed[o]} \union Fresh(o, due))]
  /\ seen' = [o \in Outputs |-> seen[o] \union Fresh(o, due)]
  /\ published' = processed'
  /\ UNCHANGED <<worker, scheduled, snapshot>>

OutputWorker ==
  \/ InstallScene \/ EndSchedule \/ StartRender \/ RenderedStale
  \/ \E due \in 0..MaxEvents : Rendered(due)

Next == AudioWorker \/ OutputWorker

\* Both threads run, the rendered instant passes every event's, and the
\* submissions leave a render undisturbed again and again.
Fairness ==
  /\ WF_vars(ReadAcknowledgments) /\ WF_vars(Submit) /\ WF_vars(Frame \/ StructureEdge)
  /\ WF_vars(StartRender) /\ WF_vars(RenderedStale) /\ SF_vars(Rendered(MaxEvents))

Spec == Init /\ [][Next]_vars /\ Fairness

-----------------------------------------------------------------------------
(* Properties.                                                             *)

TypeOK ==
  /\ pc \in {"idle", "frame", "submit"}
  /\ structureSequence \in 0..MaxEvents /\ trimmed \in 0..structureSequence
  /\ Cardinality(Pending) <= History
  /\ acknowledged \in {<<>>} \union [Outputs -> 0..MaxEvents]
  /\ scheduled \in BOOLEAN /\ rendering \in {"no", "current", "stale"}
  /\ snapshot \in [Outputs -> SUBSET Events] /\ seen \in [Outputs -> SUBSET Events]
  /\ processed \in [Outputs -> 0..MaxEvents]
  /\ published \in {<<>>} \union [Outputs -> 0..MaxEvents]
  /\ given \subseteq Events

\* An acknowledgement covers nothing its output has not acted on, unless the
\* worker had given that event up, so no event is skipped by a later one; and an
\* event leaves the history when each output acted on it, or given up.
NothingSkipped ==
  \A o \in Outputs :
    /\ 1..processed[o] \subseteq seen[o] \union given \union 1..trimmed
    /\ 1..trimmed \subseteq seen[o] \union given

\* The budget does not reach to the event of this output, nor to any of the last output:
\* that one acknowledges nothing, so nothing is trimmed and the shares stay as they are.
Starved(e, o) ==
  LET n == Cardinality(Pending)
  IN  (OutputCount - 1) * n >= Limit /\ (o - 1) * n + (e - trimmed) > Limit

\* Each event reaches each output, if the schedule lasts and the worker does not give
\* the event up; unless the history is so full that outputs are starved, for good.
EventsReachOutputs ==
  \A e \in Events, o \in Outputs :
    (e \in Pending) ~> (e \in seen[o] \union given \/ ~scheduled \/ []Starved(e, o))

\* Events are delivered in order and each at most once per schedule.
InOrder == TypeOK /\ NothingSkipped
=============================================================================
