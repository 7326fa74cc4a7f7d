------------------------ MODULE SequenceCoordinator --------------------------
(* The saved Dynamic sequence of one output (crates/lumistripe-engine-       *)
(* runtime/src/sequence.rs): steps of whole bars, started and changed on bar *)
(* boundaries of the beat clock, moved by the sync offset and allowed to be  *)
(* a little late.                                                            *)
EXTENDS BeatClock

(* anchor: the beat bars are counted from, kept when the session is reset;   *)
(* step, left, lastBar, target, boundary: the step shown, the bars it has    *)
(* left, the bar last seen, the bar it ends at and the time it began;        *)
(* section: a section change waiting for its (offset) time; started: the last *)
(* update began a step, which is what the code returns.                      *)
NoSession ==
    [on |-> FALSE, done |-> FALSE, valid |-> FALSE, anchor |-> None, step |-> None,
     left |-> None, lastBar |-> None, target |-> None, boundary |-> None,
     section |-> None, lastNow |-> None, waiting |-> FALSE, started |-> FALSE]

ResetSession(s) == [NoSession EXCEPT !.anchor = s.anchor]

(* timeline: the bar of the beat read, when the next one starts, how long    *)
(* bars are, and how late a step may begin (maximum_lateness_s).             *)
Timeline(anchor, read) ==
    LET beat == Monus(read.index, anchor)
    IN  [bar |-> beat \div BeatsPerBar + 1,
         nextBar |-> read.next + (BeatsPerBar - (beat % BeatsPerBar) - 1) * read.period,
         length |-> BeatsPerBar * read.period,
         late |-> LatenessOf(read.period)]

BoundaryAtBar(line, target) ==
    line.nextBar - line.length + Monus(target, line.bar) * line.length

(* next_future_bar_boundary: the first boundary from target on not yet due. *)
NextFutureBar(line, target, now, offset) ==
    LET due == BoundaryAtBar(line, target) + offset
    IN  IF due > now THEN target ELSE target + (now - due) \div line.length + 1

ScheduleStart(s, line, now, offset) ==
    [s EXCEPT !.lastBar = line.bar,
              !.target = NextFutureBar(line, line.bar + 1, now, offset)]

Reanchor(s, line, now, offset) ==
    LET t == [s EXCEPT !.section = None, !.lastBar = line.bar,
                       !.boundary = BoundaryAtBar(line, line.bar)]
        target == NextFutureBar(line, line.bar + Larger(s.left, 1), now, offset)
    IN  IF s.step = None THEN ScheduleStart(t, line, now, offset)
        ELSE [t EXCEPT !.target = target, !.left = Monus(target, line.bar), !.valid = TRUE]

(* BeginStep with one bar too few, as if its first bar were already over. *)
BeginStepShort(s, bars, i, bar, at) ==
    [s EXCEPT !.section = None, !.step = i, !.left = bars[i] - 1, !.lastBar = bar,
              !.target = bar + bars[i] - 1, !.boundary = at, !.started = TRUE]

(* start_step and advance_step: step i of the bars begins at a boundary. *)
BeginStep(s, bars, i, bar, at) ==
    [s EXCEPT !.section = None, !.step = i, !.left = bars[i], !.lastBar = bar,
              !.target = bar + bars[i], !.boundary = at, !.started = TRUE]

AdvanceStep(s, bars, repeat, bar, at) ==
    LET next == IF s.step < Len(bars) THEN s.step + 1 ELSE 1
    IN  IF s.step = Len(bars) /\ ~repeat
        THEN [s EXCEPT !.section = None, !.done = TRUE, !.left = 0, !.target = bar]
        ELSE BeginStep(s, bars, next, bar, at)

(* The bars passed since the last frame.  One bar counts down; a jump keeps  *)
(* what was left; a clock that fell back re-anchors, except before the bar   *)
(* an early (negative offset) step was started for.                          *)
CountBars(s, line, now, offset) ==
    LET passed == line.bar - s.lastBar
        early  == line.bar = Monus(s.lastBar, 1) /\ now < s.boundary
        kept   == Larger(s.left, 1)
    IN  CASE passed = 0 -> s
          [] passed < 0 -> IF early THEN s ELSE Reanchor(s, line, now, offset)
          [] passed = 1 -> [s EXCEPT !.left = Monus(@, 1), !.lastBar = line.bar,
                                     !.target = IF s.left <= 1 THEN line.bar ELSE @]
          [] passed > 1 -> [s EXCEPT !.left = kept, !.lastBar = line.bar,
                                     !.target = line.bar + kept,
                                     !.boundary = BoundaryAtBar(line, line.bar)]

(* A frame too late for the boundary gives the step until the next one. *)
Overdue(s, line, now, offset) ==
    LET target == NextFutureBar(line, line.bar + 1, now, offset)
    IN  [s EXCEPT !.lastBar = line.bar, !.target = target, !.left = target - line.bar]

OnTime(line, now, due) == now >= due /\ now - due <= line.late

(* Before the first step: wait for the next bar. *)
AwaitStart(s, bars, line, now, offset) ==
    LET t == IF s.target = None \/ line.bar > s.target
             THEN ScheduleStart(s, line, now, offset) ELSE s
        boundary == BoundaryAtBar(line, t.target)
        due == boundary + offset
    IN  CASE OnTime(line, now, due) -> BeginStep(t, bars, 1, t.target, boundary)
          [] now > due + line.late -> ScheduleStart(t, line, now, offset)
          [] now < due -> t

(* A section change arms once the step's bars are over. *)
ArmSection(s, line, sectionAt) ==
    IF sectionAt # None /\ s.left = 0 /\ line.bar >= s.target
    THEN [s EXCEPT !.section = sectionAt] ELSE s

Play(s, bars, repeat, line, now, offset, sectionAt) ==
    LET t == ArmSection(CountBars(s, line, now, offset), line, sectionAt)
        boundary == BoundaryAtBar(line, t.target)
        due == boundary + offset
        sectionDue == t.section # None /\ now >= t.section + offset
        u == IF sectionDue THEN [t EXCEPT !.section = None] ELSE t
    IN  IF sectionDue /\ OnTime(line, now, t.section + offset)
        THEN AdvanceStep(t, bars, repeat, line.bar, t.section)
        ELSE CASE OnTime(line, now, due) -> AdvanceStep(u, bars, repeat, t.target, boundary)
               [] now > due + line.late -> Overdue(u, line, now, offset)
               [] now < due -> u

(* The frame's clock cannot be used: nothing is scheduled until it can.  *)
(* Only a clock that is set but not trusted also drops a section change. *)
LoseClock(s, read, now) ==
    [s EXCEPT !.valid = FALSE, !.lastNow = now, !.waiting = TRUE,
              !.section = IF read.index = 0 THEN @ ELSE None]

(* update: bars is the sequence (None without one), music the activity gate. *)
Follow(s, bars, repeat, read, now, offset, sectionAt) ==
    LET t == [s EXCEPT !.anchor = IF @ = None /\ read.index # 0 THEN read.index ELSE @]
        line == Timeline(t.anchor, read)
        u == [t EXCEPT !.valid = TRUE, !.lastNow = now, !.waiting = FALSE]
    IN  CASE ~read.sure -> LoseClock(t, read, now)
          [] read.sure /\ ~s.valid -> Reanchor(u, line, now, offset)
          [] read.sure /\ s.valid /\ s.step = None -> AwaitStart(u, bars, line, now, offset)
          [] read.sure /\ s.valid /\ s.step # None ->
                Play(u, bars, repeat, line, now, offset, sectionAt)

UpdateSequence(s, bars, repeat, read, now, offset, music, sectionAt) ==
    LET on == [s EXCEPT !.on = TRUE, !.started = FALSE]
    IN  IF bars = None \/ ~music THEN ResetSession(s)
        ELSE IF s.done THEN [on EXCEPT !.waiting = FALSE]
        ELSE Follow(on, bars, repeat, read, now, offset, sectionAt)

ControlsPlayback(s) == s.on /\ ~s.done
=============================================================================
