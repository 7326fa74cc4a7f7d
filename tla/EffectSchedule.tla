---------------------------- MODULE EffectSchedule ---------------------------
(* The overlay effects of one output (crates/lumistripe-engine-runtime/src/  *)
(* effect_scheduler.rs): beats reported by the DSP and beats predicted by    *)
(* the clock are matched on one grid, the due one may start a rhythmic       *)
(* effect, an onset or an announced drop an accent.  Clients without a beat  *)
(* event stream (the single beat flag of a frame) are left out.              *)
EXTENDS BeatClock, SequencesExt

CONSTANTS
    RhythmicCooldown, AccentCooldown,
    Catalog,          \* which of "rhythmic", "accent", "drop" the catalog offers
    Duration,         \* [Catalog -> ticks], definition_duration_ns
    MaxActive,        \* max_active_effects
    MaxBeats,         \* MAX_PENDING_BEATS
    MaxGrids          \* MAX_RECENT_GRID_INDICES

ASSUME EffectAssumption ==
    /\ Catalog \subseteq {"rhythmic", "accent", "drop"}
    /\ Duration \in [Catalog -> Nat]
    /\ {RhythmicCooldown, AccentCooldown, MaxActive} \subseteq Nat
    /\ {MaxBeats, MaxGrids} \subseteq Nat \ {0}

Categories == {"rhythmic", "accent"}
Cooldown == [c \in Categories |-> IF c = "rhythmic" THEN RhythmicCooldown ELSE AccentCooldown]

(* active: when the effect of a category ends; last: when one was last       *)
(* tried; beats: the pending beats by due time; grids: the grid indices      *)
(* already queued; scheduled: the last predicted one; drop: when the drop    *)
(* accent is due; dropSeen: the drop flag of the last frame; verdict: what   *)
(* became of the last drop announced.  struck is not in the code: the grid   *)
(* indices of the beats that set off a rhythmic effect, in order.            *)
NoEffects ==
    [active |-> [c \in Categories |-> None], last |-> [c \in Categories |-> None],
     beats |-> <<>>, grids |-> <<>>, scheduled |-> None, drop |-> None,
     dropSeen |-> FALSE, verdict |-> "idle", struck |-> <<>>]

(* enqueue_beat: the earliest gives way when the queue is full. *)
Enqueue(queue, beat) ==
    LET room == IF Len(queue) = MaxBeats THEN Tail(queue) ELSE queue
    IN  SelectSeq(room, LAMBDA b : b.due <= beat.due) \o <<beat>>
          \o SelectSeq(room, LAMBDA b : b.due > beat.due)

Remember(grids, grid) ==
    Append(IF Len(grids) = MaxGrids THEN Tail(grids) ELSE grids, grid)

Knows(e, grid) == grid \in ToSet(e.grids)

QueueNew(e, beat) ==
    IF beat.grid # None /\ Knows(e, beat.grid) THEN e
    ELSE [e EXCEPT !.beats = Enqueue(@, beat),
                   !.grids = IF beat.grid = None THEN @ ELSE Remember(@, beat.grid)]

(* event_grid_index: the subdivision within 0.35 of the onset, if any. *)
EventGrid(read, at) ==
    LET place == (at - read.last) * Subdivisions
        nearest == (2 * place + read.period) \div (2 * read.period)
        error == place - nearest * read.period
    IN  IF ~read.sure \/ 100 * Larger(error, -error) > 35 * read.period
        THEN None ELSE read.index * Subdivisions + nearest

(* clock_grid_time *)
GridTime(read, grid) ==
    read.last + (grid \div Subdivisions - read.index) * read.period
        + ((grid % Subdivisions) * read.period) \div Subdivisions

(* A reported beat of a grid index already queued takes over its prediction  *)
(* if that is still pending, and else is forgotten; of a new one it is queued. *)
IngestEvent(e, read, offset, at) ==
    LET grid == EventGrid(read, at)
        Matches(b) == grid # None /\ b.grid = grid /\ ~b.reported
        beat == [due |-> Larger(at + offset, 0), grid |-> grid, reported |-> TRUE]
    IN  IF Knows(e, grid) /\ \E i \in DOMAIN e.beats : Matches(e.beats[i])
        THEN [e EXCEPT !.beats = Enqueue(SelectSeq(@, LAMBDA b : ~Matches(b)), beat)]
        ELSE QueueNew(e, beat)

(* The beats up to the next subdivision are predicted, at most 64 at once. *)
Predict(e, read, now, offset) ==
    LET place == ((now - read.last) * Subdivisions) \div read.period
        next == read.index * Subdivisions + Smaller(Larger(place, 0), Subdivisions - 1) + 1
        after == IF e.scheduled = None THEN next ELSE e.scheduled + 1
        first == IF next - after >= 64 THEN next - 63 ELSE after
        Queue(f, grid) ==
            QueueNew(f, [due |-> Larger(GridTime(read, grid) + offset, 0),
                         grid |-> grid, reported |-> FALSE])
    IN  IF ~read.sure THEN e
        ELSE [FoldLeft(Queue, e, [i \in 1 .. Monus(next + 1, first) |-> first + i - 1])
                EXCEPT !.scheduled = IF @ = None THEN next ELSE Larger(@, next)]

IngestBeats(e, onset, read, now, offset) ==
    Predict(IF onset = None THEN e ELSE IngestEvent(e, read, offset, onset),
            read, now, offset)

(* schedule_drop_accent: the next beat, moved by the offset. *)
DropTime(read, now, offset) ==
    LET due == Larger(read.next + offset, 0)
    IN  IF due > now THEN due ELSE due + ((now - due) \div read.period + 1) * read.period

AnnounceDrop(e, drop, known, read, now, offset) ==
    LET seen == [e EXCEPT !.dropSeen = drop]
    IN  IF ~drop \/ e.dropSeen \/ e.drop # None THEN seen
        ELSE IF ~known \/ ~read.sure THEN [seen EXCEPT !.verdict = "skipped"]
        ELSE [seen EXCEPT !.drop = DropTime(read, now, offset), !.verdict = "pending"]

Due(e, now) == SelectSeq(e.beats, LAMBDA b : b.due <= now)
Fresh(e, read, now) ==
    SelectSeq(Due(e, now), LAMBDA b : now - b.due <= LatenessOf(read.period))

(* trigger_result *)
MayStart(e, category, now, inTransition) ==
    /\ ~inTransition
    /\ e.active[category] = None
    /\ Cardinality({c \in Categories : e.active[c] # None}) < MaxActive
    /\ e.last[category] = None \/ now - e.last[category] >= Cooldown[category]

(* activate: the attempt counts for the cooldown even without a candidate. *)
Activate(e, category, choice, now) ==
    [e EXCEPT !.last[category] = now,
              !.active[category] = IF choice \in Catalog THEN now + Duration[choice] ELSE None]

(* The rhythmic trigger: a due beat, strong, with impact or predicted. *)
Rhythmic(e, sound, read, now, inTransition) ==
    LET fresh == Fresh(e, read, now)
        rest == [e EXCEPT !.beats = SelectSeq(@, LAMBDA b : b.due > now)]
        predicted == ~fresh[Len(fresh)].reported
    IN  IF /\ fresh # <<>>
           /\ sound.strong
           /\ sound.impact \/ (predicted /\ read.sure)
           /\ MayStart(e, "rhythmic", now, inTransition)
        THEN [Activate(rest, "rhythmic", "rhythmic", now) EXCEPT
                !.struck = Append(@, fresh[Len(fresh)].grid)]
        ELSE rest

(* The accent: a due drop, or an onset while no drop is in progress. *)
Accent(e, sound, read, now, inTransition) ==
    LET reached == e.drop # None /\ e.drop <= now
        late == reached /\ now - e.drop > LatenessOf(read.period)
        settled == IF reached THEN [e EXCEPT !.drop = None] ELSE e
        free == MayStart(e, "accent", now, inTransition)
    IN  CASE reached /\ ~late ->
                IF free
                THEN [Activate(settled, "accent", "drop", now) EXCEPT
                        !.verdict = IF "drop" \in Catalog THEN "activated" ELSE "skipped"]
                ELSE [settled EXCEPT !.verdict = "skipped"]
          [] ~reached \/ late ->
                LET f == IF late THEN [settled EXCEPT !.verdict = "skipped"] ELSE settled
                IN  IF /\ ~sound.dropPhase /\ f.drop = None
                       /\ sound.impact /\ sound.onset
                       /\ free
                    THEN Activate(f, "accent", "accent", now) ELSE f

Expire(e, now) ==
    [e EXCEPT !.active = [c \in Categories |->
        IF e.active[c] # None /\ now < e.active[c] THEN e.active[c] ELSE None]]

Silence(e) == [e EXCEPT !.active = [c \in Categories |-> None]]

(* update.  Without music everything pending is dropped; a transition stops  *)
(* what is active and starts nothing.                                        *)
UpdateEffects(e, sound, read, now, offset, music, inTransition) ==
    LET kept == IF inTransition THEN Silence(Expire(e, now)) ELSE Expire(e, now)
        heard == AnnounceDrop(IngestBeats(kept, sound.beatAt, read, now, offset),
                              sound.drop, sound.known, read, now, offset)
    IN  IF ~music
        THEN [Silence(e) EXCEPT !.beats = <<>>, !.drop = None, !.dropSeen = FALSE]
        ELSE Accent(Rhythmic(heard, sound, read, now, inTransition),
                    sound, read, now, inTransition)

Overlay(e) == {c \in Categories : e.active[c] # None}
=============================================================================
