------------------------------ MODULE BeatClock ------------------------------
(* The beat clock of one output (crates/lumistripe-engine-runtime/src/       *)
(* beat_clock.rs): onsets found by the DSP, of any distance, move a beat     *)
(* grid and its tempo, and every frame reads the beat number, the last and   *)
(* the next beat and whether the grid can be trusted.                        *)
(*                                                                           *)
(* Time is counted in ticks.  What the code computes between two ticks is    *)
(* rounded to either of them, so an onset leaves one of several clocks.      *)
EXTENDS Integers, Sequences, FiniteSets

CONSTANTS
    Beat,                    \* the period of a new tracker, ticks per beat
    MinPeriod, MaxPeriod,    \* the periods of MAX_BPM and MIN_BPM
    BeatsPerBar,             \* BEATS_PER_BAR
    GapLimit,                \* MAX_CONTIGUOUS_BEAT_GAP_SECONDS
    MinInterval,             \* MIN_BEAT_INTERVAL_SECONDS
    LockCount,               \* errors the window needs to reach the threshold
    FreshFor,                \* beats without an onset after which the
                             \* confidence is below the threshold
    Subdivisions,            \* subdivisions_per_beat
    MaxLateness,             \* MAX_LATENESS_NS
    None                     \* the code's Option::None

\* Every interval has a multiple or a fraction that is a tempo.
ASSUME BeatClockAssumption ==
    /\ {MinPeriod, MaxPeriod, MinInterval, BeatsPerBar, LockCount, Subdivisions}
         \subseteq Nat \ {0}
    /\ {GapLimit, FreshFor, MaxLateness} \subseteq Nat
    /\ Beat \in MinPeriod .. MaxPeriod
    /\ 2 * MinPeriod <= MaxPeriod
    /\ MinPeriod <= 2 * MinInterval /\ GapLimit <= 2 * MaxPeriod
    /\ None \notin Int

Periods == MinPeriod .. MaxPeriod
Larger(a, b) == IF a >= b THEN a ELSE b
Smaller(a, b) == IF a <= b THEN a ELSE b
Monus(a, b) == Larger(a - b, 0)      \* saturating_sub

(* The ticks next to n / d. *)
Rounded(n, d) == {n \div d, -((-n) \div d)}

(* The tracker: its period, the grid's last beat and its number, the last    *)
(* onset seen, how many errors the window holds (beyond LockCount they no    *)
(* longer matter), whether every one of them is zero, and the other tempo    *)
(* lately heard with the times it was (candidate_period, candidate_count).   *)
NoClock == [period |-> Beat, last |-> None, event |-> None, index |-> 0, locks |-> 0,
            steady |-> TRUE, heard |-> None, times |-> 0]
Clocks == [period : Periods, last : Int \cup {None}, event : Int \cup {None},
           index : Nat, locks : 0 .. LockCount, steady : BOOLEAN,
           heard : Periods \cup {None}, times : 0 .. 2]

PushError(c, error) ==
    [c EXCEPT !.locks = Smaller(@ + 1, LockCount), !.steady = @ /\ error = 0]
ForgetTempo(c) == [c EXCEPT !.heard = None, !.times = 0]

(* round_positive of n / d: halves go to the even neighbour. *)
RoundPositive(n, d) ==
    LET floor == n \div d
        twice == 2 * (n % d)
    IN  IF twice > d \/ (twice = d /\ floor % 2 = 1) THEN floor + 1 ELSE floor

(* choose_candidate: the tempos, as fractions, that an interval is beats of, *)
(* and among them the nearest (by ratio) to the current period or, in the    *)
(* first beats, to the tempo the request hints at.                           *)
Tempos(interval) ==
    {q \in {<<k * interval, 1>> : k \in 1 .. 4} \cup {<<interval, k>> : k \in 2 .. 4} :
        MinPeriod * q[2] <= q[1] /\ q[1] <= MaxPeriod * q[2]}
Nearer(q, r, p) ==
    Larger(q[1], p * q[2]) * Smaller(r[1], p * r[2])
      <= Larger(r[1], p * r[2]) * Smaller(q[1], p * q[2])
ChooseCandidate(c, interval, hint) ==
    LET reference == IF c.index < 4 /\ hint # None THEN hint ELSE c.period
    IN  {q \in Tempos(interval) : \A r \in Tempos(interval) : Nearer(q, r, reference)}

(* observe: the interval is measured from the last onset, whether or not     *)
(* that onset moved the grid.                                                *)
FirstOnset(c, at, hint) ==
    [c EXCEPT !.period = IF hint = None THEN @ ELSE hint,
              !.event = at, !.last = at, !.index = @ + 1]

AfterGap(c, at) ==
    [ForgetTempo(c) EXCEPT !.event = at, !.last = at, !.locks = 0, !.steady = TRUE,
                           !.index = @ + Larger((at - c.last) \div c.period, 1)]

FirstInterval(c, at, q) ==
    LET interval == at - c.event
        Tuned(p) == [c EXCEPT !.period = p, !.event = at]
    IN  {PushError(IF 4 * q[1] > 5 * interval * q[2] THEN Tuned(p)
                   ELSE [Tuned(p) EXCEPT !.last = at,
                          !.index = @ + Larger(RoundPositive(interval * q[2], q[1]), 1)],
                   0) : p \in Rounded(q[1], q[2])}

Subdivision(c, at) == PushError([c EXCEPT !.event = at], 2 * (at - c.event) - c.period)

(* The period after an interval: another tempo takes over the third time it  *)
(* is heard in a row; one that is near draws it by TEMPO_GAIN (0.12).        *)
OtherTempo(c, p) ==
    LET times == IF c.heard # None /\ 100 * Larger(p - c.heard, c.heard - p) < 6 * p
                 THEN c.times + 1 ELSE 1
    IN  IF times >= 3 THEN ForgetTempo([c EXCEPT !.period = p])
        ELSE [c EXCEPT !.heard = IF times = 1 THEN p ELSE @, !.times = times]

Retuned(c, q) ==
    LET error == q[1] - c.period * q[2]
    IN  IF 100 * Larger(error, -error) > 15 * c.period * q[2]
        THEN {OtherTempo(c, p) : p \in Rounded(q[1], q[2])}
        ELSE {ForgetTempo([c EXCEPT !.period = p]) :
                 p \in Rounded(100 * c.period * q[2] + 12 * error, 100 * q[2])}

(* The phase moves by PHASE_GAIN (0.35) of its error, which may be negative. *)
Corrected(c, at, beats) ==
    LET predicted == c.last + beats * c.period
        error == at - predicted
    IN  {PushError([c EXCEPT !.event = at, !.index = @ + beats, !.last = predicted + step],
                   error) : step \in Rounded(35 * error, 100)}

Correction(c, at, q) ==
    LET beats == Smaller(Larger(RoundPositive(at - c.event, c.period), 1), 4)
    IN  UNION {Corrected(d, at, beats) : d \in Retuned(c, q)}

(* The clocks an onset at a time may leave. *)
Observe(c, at, hint) ==
    LET interval == at - c.event
    IN  CASE c.event = None -> {FirstOnset(c, at, hint)}
          [] c.event # None /\ at <= c.event -> {c}
          [] c.event # None /\ at > c.event ->
                CASE interval > GapLimit -> {AfterGap(c, at)}
                  [] interval < MinInterval -> {[c EXCEPT !.event = at]}
                  [] interval \in MinInterval .. GapLimit ->
                        LET candidates == ChooseCandidate(c, interval, hint)
                        IN  IF c.locks = 0
                            THEN UNION {FirstInterval(c, at, q) : q \in candidates}
                            ELSE IF 100 * interval < 68 * c.period THEN {Subdivision(c, at)}
                            ELSE UNION {Correction(c, at, q) : q \in candidates}

(* With errors in the window, or two beats without an onset, the confidence  *)
(* may be below the threshold.                                               *)
Unsure(c, now) == ~c.steady \/ now - c.event > 2 * c.period

(* state: what a frame at time now reads.  The grid may begin ahead of the   *)
(* frame; an unset clock reads 0.                                            *)
Reading(c, now, doubt) ==
    IF c.last = None
    THEN [index |-> 0, last |-> None, next |-> None, period |-> c.period, sure |-> FALSE]
    ELSE LET since == Larger(now - c.last, 0) \div c.period
         IN  [index |-> c.index + since, period |-> c.period,
              last  |-> c.last + since * c.period,
              next  |-> c.last + (since + 1) * c.period,
              sure  |-> /\ c.locks >= LockCount /\ now - c.event <= FreshFor * c.period
                        /\ ~(doubt /\ Unsure(c, now))]

(* maximum_lateness_ns: half a subdivision, or 50 ms. *)
LatenessOf(period) == Smaller(period \div (2 * Subdivisions), MaxLateness)
=============================================================================
