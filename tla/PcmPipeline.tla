----------------------------- MODULE PcmPipeline -----------------------------
(***************************************************************************)
(* The way of the samples: from Spotify's sink through the bounded ingress,*)
(* or from a device's callback through its queue, to the processor of the  *)
(* audio worker's session.  Producers never wait: a batch that finds no    *)
(* room is dropped, and the positions tell how much is missing.  A seek, a *)
(* track or a session of the worker begins a generation at any moment.     *)
(*                                                                         *)
(* A batch is one unit of position.  What the processor makes of samples is*)
(* not modelled, but that each batch may leave a beat pending.             *)
(***************************************************************************)
EXTENDS Naturals, Sequences

CONSTANTS
  Capacity,        \* PCM_INGRESS_QUEUE_CAPACITY, and the device's
  MaxPosition,     \* bound: positions of a stream
  MaxGeneration    \* bound: generations

ASSUME PcmAssumption == {Capacity, MaxPosition, MaxGeneration} \subseteq Nat

VARIABLES
  enabled, generation, pendingDrops, queue,  \* the ingress
  sink,      \* DecodedPcmSink: its generation and position
  packet,    \* the packet it submits: generation, next position, end; or NoPacket
  device,    \* the device's callback: its position, drops and queue
  worker,    \* where the worker is, and the batch it popped
  reader,   \* AudioSession: its input, generation, origin, and samples_seen
  pending,   \* pending_beats and pending_structure: the streams they are from
  fed        \* ghost: the batches the session's processor was fed
pcmVars == <<enabled, generation, pendingDrops, queue, sink, packet, device, worker,
             reader, pending, fed>>

Unknown == MaxGeneration + 1
Batch(gen, pos, drops) == [gen |-> gen, pos |-> pos, drops |-> drops]
NoBatch == Batch(Unknown, 0, 0)
NoPacket == [gen |-> Unknown, next |-> 0, end |-> 0]
NewReader(input, gen) == [input |-> input, gen |-> gen, origin |-> MaxPosition + 1, seen |-> 0]
Silent == [pos |-> 0, drops |-> 0, queue |-> <<>>]

PcmInit ==
  /\ enabled = FALSE /\ generation = 0 /\ pendingDrops = 0 /\ queue = <<>>
  /\ sink = [gen |-> 0, pos |-> 0] /\ packet = NoPacket
  /\ device = Silent
  /\ worker = [at |-> "wait", batch |-> NoBatch]
  /\ reader = NewReader("none", Unknown) /\ pending = {} /\ fed = <<>>

SameIngress == UNCHANGED <<enabled, generation, pendingDrops, queue>>
SameWorker == UNCHANGED <<worker, reader, pending, fed>>
SameSink == UNCHANGED <<sink, packet>>

-----------------------------------------------------------------------------
(* Spotify.                                                                *)
\* advance_generation.
Advance == generation < MaxGeneration /\ generation' = generation + 1 /\ pendingDrops' = 0

\* begin_generation for a player event, on another thread than the sink's.
BeginGeneration ==
  /\ Advance
  /\ UNCHANGED <<enabled, queue, device>> /\ SameSink /\ SameWorker

\* A new sink begins a generation of its own.
NewSink ==
  /\ packet = NoPacket /\ Advance
  /\ sink' = [gen |-> generation', pos |-> 0]
  /\ UNCHANGED <<enabled, queue, packet, device>> /\ SameWorker

\* write: the generation is read, and a new one starts at position 0. The position
\* moves on by the whole packet, whatever the tap does with it.
Write(length) ==
  /\ packet = NoPacket
  /\ LET start == IF generation = sink.gen THEN sink.pos ELSE 0 IN
       /\ start + length <= MaxPosition
       /\ packet' = [gen |-> generation, next |-> start, end |-> start + length]
       /\ sink' = [gen |-> generation, pos |-> start + length]
  /\ SameIngress /\ UNCHANGED device /\ SameWorker

\* submit_interleaved_f64_at, batch by batch: none of a generation that is over or
\* with the ingress disabled; malformed packets and timestamps that go back are
\* drops, and so is all that is left when the queue is full.
Left == packet.end - packet.next
Submit ==
  /\ packet # NoPacket
  /\ IF packet.next = packet.end \/ ~enabled \/ packet.gen # generation
       THEN packet' = NoPacket /\ UNCHANGED <<pendingDrops, queue>>
     ELSE \/ /\ Len(queue) < Capacity
             /\ queue' = Append(queue, Batch(packet.gen, packet.next, pendingDrops))
             /\ pendingDrops' = 0
             /\ packet' = [packet EXCEPT !.next = @ + 1]
          \/ /\ pendingDrops' = pendingDrops + Left
             /\ packet' = NoPacket /\ UNCHANGED queue
  /\ UNCHANGED <<enabled, generation, sink, device>> /\ SameWorker

\* capture_callback: the position moves on, and what finds no room is dropped.
Callback ==
  /\ reader.input = "device" /\ device.pos < MaxPosition
  /\ device' = IF Len(device.queue) < Capacity
       THEN [pos |-> device.pos + 1, drops |-> 0,
             queue |-> Append(device.queue, Batch(0, device.pos, device.drops))]
       ELSE [device EXCEPT !.pos = @ + 1, !.drops = @ + 1]
  /\ SameIngress /\ SameSink /\ SameWorker

-----------------------------------------------------------------------------
(* The audio worker.                                                       *)
Worker(at, batch) == worker' = [at |-> at, batch |-> batch]

\* A command, or a failed input: events go, and open_session begins.
Reopen(input) ==
  /\ worker.at = "wait"
  /\ Worker(IF input = "direct" THEN "enable" ELSE "disable", NoBatch)
  /\ reader' = NewReader("none", Unknown) /\ pending' = {} /\ fed' = <<>>
  /\ device' = Silent
  /\ SameIngress /\ SameSink

\* set_enabled; a change is a new generation.
SetEnabled ==
  /\ worker.at \in {"enable", "disable"}
  /\ enabled' = (worker.at = "enable")
  /\ IF enabled' # enabled THEN Advance ELSE UNCHANGED <<generation, pendingDrops>>
  /\ Worker(IF enabled' THEN "discard" ELSE "discardAll", NoBatch)
  /\ UNCHANGED <<queue, reader, pending, fed, device>> /\ SameSink

\* discard_queued, and for the direct input begin_generation.
DiscardQueued ==
  /\ worker.at \in {"discard", "discardAll"}
  /\ queue' = <<>>
  /\ Worker(IF worker.at = "discard" THEN "begin" ELSE "capture", NoBatch)
  /\ UNCHANGED <<enabled, generation, pendingDrops, reader, pending, fed, device>> /\ SameSink
Begin ==
  /\ worker.at = "begin" /\ Advance
  /\ Worker("build", NoBatch)
  /\ UNCHANGED <<enabled, queue, reader, pending, fed, device>> /\ SameSink

\* build_direct_session and build_capture_session.
Build ==
  /\ worker.at \in {"build", "capture"}
  /\ reader' = IF worker.at = "build" THEN NewReader("direct", generation)
                                       ELSE NewReader("device", Unknown)
  /\ Worker("wait", NoBatch)
  /\ SameIngress /\ UNCHANGED <<pending, fed, device>> /\ SameSink

\* try_pop: the batches of generations that are over are left out.
Pop ==
  /\ worker.at = "wait"
  /\ \/ /\ reader.input = "direct" /\ queue # <<>>
        /\ queue' = Tail(queue) /\ UNCHANGED device
        /\ IF enabled /\ queue[1].gen = generation
             THEN Worker("process", queue[1]) ELSE UNCHANGED worker
     \/ /\ reader.input = "device" /\ device.queue # <<>>
        /\ device' = [device EXCEPT !.queue = Tail(@)] /\ UNCHANGED queue
        /\ Worker("process", device.queue[1])
  /\ UNCHANGED <<enabled, generation, pendingDrops, reader, pending, fed>> /\ SameSink

\* process_batch_inner: a stream that changed has a fresh processor and no events
\* of the other one.
NewStream(batch) == reader.gen # Unknown /\ reader.gen # batch.gen
Origin(batch) ==
  IF NewStream(batch) \/ reader.origin > MaxPosition THEN batch.pos ELSE reader.origin
Seen(batch) == IF NewStream(batch) THEN 0 ELSE reader.seen
Relative(batch) == batch.pos - Origin(batch)

Feed(batch) ==
  IF batch.pos < Origin(batch) \/ Relative(batch) < Seen(batch)
    THEN /\ pendingDrops' = pendingDrops + 1
         /\ reader' = [reader EXCEPT !.gen = batch.gen, !.origin = Origin(batch)]
         /\ UNCHANGED <<pending, fed>>
    ELSE /\ reader' = [reader EXCEPT !.gen = batch.gen, !.origin = Origin(batch),
                                       !.seen = Relative(batch) + 1]
         /\ fed' = Append(IF NewStream(batch) THEN <<>> ELSE fed, batch)
         /\ \E beats \in SUBSET {batch.gen} :
              pending' = beats \cup IF NewStream(batch) \/ Relative(batch) > Seen(batch)
                                      THEN {} ELSE pending
         /\ pendingDrops' = pendingDrops
              + IF reader.input = "direct" /\ batch.drops = 0
                  THEN Relative(batch) - Seen(batch) ELSE 0

\* process_batch: under the lock of the generations where the input is direct, and
\* then only while the batch's is the current one.
ProcessPopped ==
  /\ worker.at = "process" /\ Feed(worker.batch)
  /\ Worker("wait", NoBatch)
  /\ UNCHANGED <<enabled, generation, queue, device>> /\ SameSink
Process ==
  /\ worker.at = "process"
  /\ IF reader.input = "device" \/ (enabled /\ worker.batch.gen = generation)
       THEN Feed(worker.batch)
       ELSE pending' = {} /\ UNCHANGED <<pendingDrops, reader, fed>>
  /\ Worker("wait", NoBatch)
  /\ UNCHANGED <<enabled, generation, queue, device>> /\ SameSink

PcmNext ==
  \/ BeginGeneration \/ NewSink \/ (\E length \in 1..2 : Write(length)) \/ Submit
  \/ Callback
  \/ (\E input \in {"direct", "device"} : Reopen(input))
  \/ SetEnabled \/ DiscardQueued \/ Begin \/ Build \/ Pop \/ Process
PcmSpec == PcmInit /\ [][PcmNext]_pcmVars

-----------------------------------------------------------------------------
\* The processor's clock is the stream's: it was fed batches of one stream only, each
\* once and in order, and what it counts as seen is where the stream is, the drops
\* on either queue, the packets cut short and a lost beginning included.
ClockIsTheStreams ==
  fed # <<>> =>
    /\ \A i \in 1..Len(fed) :
         fed[i].gen = reader.gen /\ \A j \in 1..(i - 1) : fed[j].pos < fed[i].pos
    /\ reader.origin + reader.seen = fed[Len(fed)].pos + 1

\* Nothing of a stream that is over is shown: what the outputs are sent after a
\* batch is of the generation that is current at that very moment, the events that
\* wait along with it too, even when a seek overtakes the batch on its way.
OldStreamIsOver ==
  [][reader.input = "direct" /\ fed' # fed /\ fed' # <<>>
       => reader'.gen = generation' /\ pending' \subseteq {generation'}]_pcmVars

\* Streams stay apart: each is measured by its own clock, and ends with itself.
StreamsStayApart == []ClockIsTheStreams /\ OldStreamIsOver
==============================================================================
