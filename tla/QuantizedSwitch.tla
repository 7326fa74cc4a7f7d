--------------------------- MODULE QuantizedSwitch ---------------------------
(* Dynamic switches held back to the beat grid (crates/lumistripe-engine-    *)
(* runtime/src/quantized_switch.rs).  A chosen animation waits for the next  *)
(* boundary of its grid: the next beat, bar or phrase.                       *)
EXTENDS BeatClock

CONSTANT BarsPerPhrase

ASSUME QuantizedAssumption == BarsPerPhrase \in Nat \ {0}

Quantizations == {"off", "beat", "bar", "phrase"}

Stride(quantization) ==
    CASE quantization = "beat" -> 1
      [] quantization = "bar" -> BeatsPerBar
      [] quantization = "phrase" -> BeatsPerBar * BarsPerPhrase

(* position_data: the grid cell the beat lies in, when the next one starts,  *)
(* how long cells are, and how late a switch may be.                         *)
Position(quantization, read) ==
    LET stride == Stride(quantization)
        toBoundary == stride - ((read.index - 1) % stride)
    IN  [cell |-> (read.index - 1) \div stride + 1, index |-> read.index,
         next |-> read.next + (toBoundary - 1) * read.period,
         length |-> stride * read.period, late |-> LatenessOf(read.period)]

(* ScheduleNext that takes the next boundary even if it is already due. *)
ScheduleNearest(choice, position, now, offset) ==
    [choice |-> choice, target |-> position.cell + 1, cell |-> position.cell,
     index |-> position.index, now |-> now, boundary |-> position.next]

(* schedule_next: the first boundary that is not yet due. *)
ScheduleNext(choice, position, now, offset) ==
    LET late == Monus(now + 1, position.next + offset)
        skipped == (late + position.length - 1) \div position.length
    IN  [choice |-> choice, target |-> position.cell + 1 + skipped,
         cell |-> position.cell, index |-> position.index, now |-> now,
         boundary |-> position.next + skipped * position.length]

(* The clock went back, or more than one beat ahead, since the last frame. *)
ClockJumped(pending, position, now) ==
    \/ now < pending.now
    \/ position.cell < pending.cell
    \/ position.index < pending.index
    \/ position.index - pending.index > 1

Tracked(pending, position, now) ==
    [pending EXCEPT !.cell = position.cell, !.index = position.index, !.now = now,
        !.boundary = IF position.cell > pending.target THEN @
                     ELSE position.next + (pending.target - position.cell - 1)
                                            * position.length]

Wanted(pending, intent, position, now, offset) ==
    CASE intent = "keep" -> pending
      [] intent = None -> None
      [] intent \notin {"keep", None} ->
            IF pending = None THEN ScheduleNext(intent, position, now, offset)
            ELSE [pending EXCEPT !.choice = intent]

(* The switch that is due: a boundary missed by too much, or one that falls  *)
(* into a transition, is put off to the next one.                            *)
Settle(current, position, now, offset, inTransition) ==
    LET due == Larger(current.boundary + offset, 0)
    IN  IF now < due THEN [pending |-> current, due |-> None]
        ELSE IF now - due > position.late \/ inTransition
        THEN [pending |-> ScheduleNext(current.choice, position, now, offset), due |-> None]
        ELSE [pending |-> None, due |-> current.choice]

(* update.  intent is "keep" when the frame brings no new features, None to  *)
(* withdraw the pending switch, or the animation to switch to.  The result   *)
(* is the pending switch that remains and the animation that is due.         *)
UpdateSwitch(pending, intent, quantization, read, now, offset, inTransition) ==
    LET position == Position(quantization, read)
        wanted == Wanted(pending, intent, position, now, offset)
        current == IF ClockJumped(wanted, position, now)
                   THEN ScheduleNext(wanted.choice, position, now, offset)
                   ELSE Tracked(wanted, position, now)
    IN  IF quantization = "off"
        THEN [pending |-> None, due |-> IF intent = "keep" THEN None ELSE intent]
        ELSE IF read.index = 0 \/ ~read.sure \/ wanted = None
        THEN [pending |-> None, due |-> None]
        ELSE Settle(current, position, now, offset, inTransition)
=============================================================================
