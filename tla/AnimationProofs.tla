--------------------------- MODULE AnimationProofs ---------------------------
(***************************************************************************)
(* AnimationCoordination, proved for every scene, tempo, grid, offset and  *)
(* length of a frame, and for onsets at any distance from one another:     *)
(* steps end at the bar they count to, switches wait for a boundary of the *)
(* clock's grid that is ahead and near, and happen there.                  *)
(*                                                                         *)
(* Both read the grid of the beat clock, which moves while they wait: an   *)
(* onset may draw it either way, past the present too, and change its      *)
(* tempo.  So the invariant says of the clock only that it is set or not   *)
(* (ClockInv); what it reads has the next beat ahead, on the line of its   *)
(* own beats (ReadOK, ReadsClock); a step has its last bar where the bars  *)
(* it has left lead to (SeqOK); and a pending switch has its boundary      *)
(* where the clock of this frame has its cell start, which is computed     *)
(* anew in every frame (PendingOK).                                        *)
(***************************************************************************)
EXTENDS AnimationCoordination, TLAPS

(* -- the beat clock -------------------------------------------------------- *)

\* The constants of the clock, as numbers.
LEMMA ClockRanges ==
    /\ MinPeriod \in Nat \ {0} /\ MaxPeriod \in Nat \ {0} /\ MinInterval \in Nat \ {0}
    /\ BeatsPerBar \in Nat \ {0} /\ LockCount \in Nat \ {0} /\ Subdivisions \in Nat \ {0}
    /\ GapLimit \in Nat /\ FreshFor \in Nat /\ MaxLateness \in Nat
    /\ Beat \in Periods /\ Periods \subseteq Nat \ {0} /\ Periods = MinPeriod .. MaxPeriod
    /\ None \notin Int
<1>1. /\ {MinPeriod, MaxPeriod, MinInterval, BeatsPerBar, LockCount, Subdivisions}
           \subseteq Nat \ {0}
      /\ {GapLimit, FreshFor, MaxLateness} \subseteq Nat
      /\ Beat \in MinPeriod .. MaxPeriod /\ None \notin Int
  BY BeatClockAssumption
<1>2. /\ MinPeriod \in Nat \ {0} /\ MaxPeriod \in Nat \ {0} /\ MinInterval \in Nat \ {0}
      /\ BeatsPerBar \in Nat \ {0} /\ LockCount \in Nat \ {0} /\ Subdivisions \in Nat \ {0}
      /\ GapLimit \in Nat /\ FreshFor \in Nat /\ MaxLateness \in Nat
  BY <1>1, Zenon
<1> QED BY <1>1, <1>2 DEF Periods

\* Division by a positive number leaves a remainder below it.
LEMMA Division ==
    ASSUME NEW a \in Int, NEW b \in Nat \ {0}
    PROVE  /\ a \div b \in Int /\ a % b \in 0 .. (b - 1)
           /\ a = (b * (a \div b)) + (a % b)
           /\ a >= 0 => a \div b \in Nat
  OBVIOUS

\* The same for a number that is not negative.
LEMMA DivisionOfNat ==
    ASSUME NEW a \in Nat, NEW b \in Nat \ {0}
    PROVE  /\ a \div b \in Nat /\ a % b \in 0 .. (b - 1)
           /\ a = (b * (a \div b)) + (a % b)
  OBVIOUS

\* A quotient lies between the bounds of what is divided.
LEMMA QuotientBetween ==
    ASSUME NEW a \in Int, NEW b \in Int, NEW n \in Int, NEW d \in Nat \ {0},
           a * d <= n, n <= b * d
    PROVE  n \div d \in a .. b
<1> DEFINE x == n \div d
           r == n % d
<1>1. x \in Int /\ r \in 0 .. (d - 1) /\ n = (d * x) + r
  BY Division
<1> HIDE DEF x, r
<1>2. x >= a
  <2> SUFFICES ASSUME x <= a - 1 PROVE FALSE
    BY <1>1
  <2>1. d * x <= d * (a - 1)
    BY <1>1
  <2>2. d * (a - 1) = a * d - d
    OBVIOUS
  <2> QED BY <1>1, <2>1, <2>2
<1>3. x <= b
  <2> SUFFICES ASSUME x >= b + 1 PROVE FALSE
    BY <1>1
  <2>1. d * x >= d * (b + 1)
    BY <1>1
  <2>2. d * (b + 1) = b * d + d
    OBVIOUS
  <2> QED BY <1>1, <2>1, <2>2
<1> QED BY <1>1, <1>2, <1>3 DEF x

\* Rounded either way, a quotient stays between them.
LEMMA RoundedBetween ==
    ASSUME NEW a \in Int, NEW b \in Int, NEW n \in Int, NEW d \in Nat \ {0},
           a * d <= n, n <= b * d
    PROVE  Rounded(n, d) \subseteq a .. b
<1>1. n \div d \in a .. b
  BY QuotientBetween
<1>2. (-n) \div d \in (-b) .. (-a)
  <2> DEFINE m == -n
             low == -b
             high == -a
  <2>1. m \in Int /\ low \in Int /\ high \in Int /\ low * d <= m /\ m <= high * d
    OBVIOUS
  <2> HIDE DEF m, low, high
  <2>2. m \div d \in low .. high
    BY <2>1, QuotientBetween
  <2> QED BY <2>2 DEF m, low, high
<1> DEFINE y == (-n) \div d
<1> HIDE DEF y
<1>3. -y \in a .. b
  BY <1>2 DEF y
<1> QED BY <1>1, <1>3 DEF Rounded, y

\* What a rounded quotient is.
LEMMA RoundedIsInt ==
    ASSUME NEW n \in Int, NEW d \in Nat \ {0}
    PROVE  Rounded(n, d) \subseteq Int /\ RoundPositive(n, d) \in Int
<1>1. n \div d \in Int /\ (-n) \div d \in Int
  OBVIOUS
<1> QED BY <1>1 DEF Rounded, RoundPositive

\* A clock has both a grid and a last onset, or neither; a grid counts its beats from 1.
ClockInv(c) ==
    /\ c \in Clocks
    /\ c.last = None <=> c.event = None
    /\ c.last # None => c.index >= 1

\* A clock whose grid is that of another.
SameGrid(d, c) ==
    d \in Clocks /\ d.last = c.last /\ d.event = c.event /\ d.index = c.index

\* The clock's fields, each with its type.
LEMMA ClockParts ==
    ASSUME NEW c \in Clocks
    PROVE  /\ c.period \in Periods /\ c.period \in Nat \ {0}
           /\ c.last \in Int \cup {None} /\ c.event \in Int \cup {None} /\ c.index \in Nat
           /\ c.locks \in 0 .. LockCount /\ c.steady \in BOOLEAN
           /\ c.heard \in Periods \cup {None} /\ c.times \in 0 .. 2
  BY ClockRanges DEF Clocks

\* A clock that is set.
LEMMA ClockIsSet ==
    ASSUME NEW d \in Clocks, d.last \in Int, d.event \in Int, d.index >= 1
    PROVE  ClockInv(d)
  BY ClockRanges DEF ClockInv

\* An unset clock reads no beat.
LEMMA ClockStarts == ClockInv(NoClock)
  BY ClockRanges DEF ClockInv, Clocks, NoClock

\* An error in the window leaves the grid, whatever it is.
LEMMA ClockPushes ==
    ASSUME NEW c \in Clocks, NEW error
    PROVE  SameGrid(PushError(c, error), c)
<1> DEFINE locks == Smaller(c.locks + 1, LockCount)
           steady == c.steady /\ error = 0
<1>1. locks \in 0 .. LockCount /\ steady \in BOOLEAN
  BY ClockParts, ClockRanges DEF Smaller
<1>2. PushError(c, error) = [c EXCEPT !.locks = locks, !.steady = steady]
  BY DEF PushError, Clocks
<1> HIDE DEF locks, steady
<1> QED BY <1>1, <1>2 DEF SameGrid, Clocks

\* So does forgetting another tempo.
LEMMA ClockForgets ==
    ASSUME NEW c \in Clocks
    PROVE  SameGrid(ForgetTempo(c), c)
<1> DEFINE none == None
           zero == 0
<1>1. none \in Periods \cup {None} /\ zero \in 0 .. 2
  OBVIOUS
<1>2. ForgetTempo(c) = [c EXCEPT !.heard = none, !.times = zero]
  BY DEF ForgetTempo
<1> HIDE DEF none, zero
<1> QED BY <1>1, <1>2 DEF SameGrid, Clocks

\* The tempo may change under the grid.
LEMMA ClockTunes ==
    ASSUME NEW c \in Clocks, NEW p \in Periods
    PROVE  SameGrid([c EXCEPT !.period = p], c)
  BY DEF SameGrid, Clocks

\* An onset is noted with a tempo.
LEMMA ClockNotes ==
    ASSUME NEW c \in Clocks, NEW p \in Periods, NEW at \in Int
    PROVE  LET d == [c EXCEPT !.period = p, !.event = at]
           IN  d \in Clocks /\ d.last = c.last /\ d.event = at /\ d.index = c.index
  BY DEF Clocks

\* The grid is anchored anew.
Anchored(c, at, i, last) == [c EXCEPT !.event = at, !.index = i, !.last = last]

\* A clock that is anchored is set.
LEMMA ClockAnchors ==
    ASSUME NEW c \in Clocks, NEW at \in Int, NEW last \in Int, NEW i \in Nat
    PROVE  LET d == Anchored(c, at, i, last)
           IN  d \in Clocks /\ d.last = last /\ d.event = at /\ d.index = i
  BY DEF Clocks, Anchored

\* The tempos of an interval are tempos the clock may have, however they are rounded.
LEMMA TempoIsPeriod ==
    ASSUME NEW interval \in Nat \ {0}, NEW q \in Tempos(interval)
    PROVE  /\ q[1] \in Nat \ {0} /\ q[2] \in Nat \ {0}
           /\ MinPeriod * q[2] <= q[1] /\ q[1] <= MaxPeriod * q[2]
           /\ Rounded(q[1], q[2]) \subseteq Periods
<1>1. /\ q \in {<<k * interval, 1>> : k \in 1 .. 4} \cup {<<interval, k>> : k \in 2 .. 4}
      /\ MinPeriod * q[2] <= q[1] /\ q[1] <= MaxPeriod * q[2]
  BY DEF Tempos
<1>2. q[1] \in Nat \ {0} /\ q[2] \in Nat \ {0}
  <2>1. ASSUME NEW k \in 1 .. 4, q = <<k * interval, 1>>
        PROVE  q[1] \in Nat \ {0} /\ q[2] \in Nat \ {0}
    BY <2>1
  <2>2. ASSUME NEW k \in 2 .. 4, q = <<interval, k>>
        PROVE  q[1] \in Nat \ {0} /\ q[2] \in Nat \ {0}
    BY <2>2
  <2> QED BY <1>1, <2>1, <2>2
<1> DEFINE n == q[1]
           d == q[2]
<1>3. /\ n \in Int /\ d \in Nat \ {0} /\ MinPeriod \in Int /\ MaxPeriod \in Int
      /\ MinPeriod * d <= n /\ n <= MaxPeriod * d
  BY <1>1, <1>2, ClockRanges
<1> HIDE DEF n, d
<1>4. Rounded(n, d) \subseteq Periods
  BY <1>3, RoundedBetween DEF Periods
<1> QED BY <1>1, <1>2, <1>4 DEF n, d

\* choose_candidate takes one of them.
LEMMA CandidateIsTempo ==
    ASSUME NEW c, NEW interval, NEW hint
    PROVE  ChooseCandidate(c, interval, hint) \subseteq Tempos(interval)
  BY DEF ChooseCandidate

\* Counting on from a grid, by a beat at least.
LEMMA CountsOn ==
    ASSUME NEW i \in Nat, NEW more \in Int
    PROVE  i + Larger(more, 1) \in Nat /\ i + Larger(more, 1) >= 1
  BY DEF Larger

\* The first onset sets the clock.
LEMMA FirstOnsetOK ==
    ASSUME NEW c \in Clocks, NEW at \in Int, NEW hint \in Periods \cup {None}
    PROVE  ClockInv(FirstOnset(c, at, hint))
<1> DEFINE p == IF hint = None THEN c.period ELSE hint
           i == c.index + 1
           t == [c EXCEPT !.period = p]
           d == Anchored(t, at, i, at)
<1>1. p \in Periods /\ i \in Nat /\ i >= 1
  BY ClockParts
<1>2. FirstOnset(c, at, hint) = d
  BY DEF FirstOnset, Clocks, Anchored
<1> HIDE DEF p, i
<1>3. t \in Clocks
  BY <1>1, ClockTunes DEF SameGrid
<1> HIDE DEF t
<1>0. i \in Nat
  BY <1>1
<1>4. d \in Clocks /\ d.last = at /\ d.event = at /\ d.index = i
  BY <1>0, <1>3, ClockAnchors
<1> HIDE DEF d
<1> QED BY <1>1, <1>2, <1>4, ClockIsSet

\* After a gap the grid starts again at the onset.
LEMMA AfterGapOK ==
    ASSUME NEW c \in Clocks, c.last \in Int, NEW at \in Int
    PROVE  ClockInv(AfterGap(c, at))
<1> DEFINE i == c.index + Larger((at - c.last) \div c.period, 1)
           f == ForgetTempo(c)
           g == [f EXCEPT !.locks = 0, !.steady = TRUE]
           d == Anchored(g, at, i, at)
<1>1. i \in Nat /\ i >= 1
  <2> DEFINE more == (at - c.last) \div c.period
  <2>1. more \in Int /\ c.index \in Nat
    BY ClockParts
  <2> HIDE DEF more
  <2>2. c.index + Larger(more, 1) \in Nat /\ c.index + Larger(more, 1) >= 1
    BY <2>1, CountsOn
  <2> QED BY <2>2 DEF more
<1>2. f \in Clocks /\ f.index = c.index
  BY ClockForgets DEF SameGrid
<1>3. AfterGap(c, at) = d
  BY DEF AfterGap, ForgetTempo, Clocks, Anchored
<1> HIDE DEF i, f
<1>4. g \in Clocks
  <2> DEFINE zero == 0
  <2>1. zero \in 0 .. LockCount /\ TRUE \in BOOLEAN
    BY ClockRanges
  <2> HIDE DEF zero
  <2>2. [f EXCEPT !.locks = zero, !.steady = TRUE] \in Clocks
    BY <2>1, <1>2 DEF Clocks
  <2> QED BY <2>2 DEF zero
<1> HIDE DEF g
<1>0. i \in Nat
  BY <1>1
<1>5. d \in Clocks /\ d.last = at /\ d.event = at /\ d.index = i
  BY <1>0, <1>4, ClockAnchors
<1> HIDE DEF d
<1> QED BY <1>1, <1>3, <1>5, ClockIsSet

\* The first interval tunes the clock, and anchors it at the onset if it is beats.
LEMMA FirstIntervalOK ==
    ASSUME NEW c \in Clocks, c.last \in Int, c.event \in Int, c.index >= 1,
           NEW at \in Int, at > c.event, NEW q \in Tempos(at - c.event),
           NEW d \in FirstInterval(c, at, q)
    PROVE  ClockInv(d)
<1> DEFINE interval == at - c.event
           i == c.index + Larger(RoundPositive(interval * q[2], q[1]), 1)
           Tuned(p) == [c EXCEPT !.period = p, !.event = at]
<1>1. q[1] \in Nat \ {0} /\ q[2] \in Nat \ {0} /\ Rounded(q[1], q[2]) \subseteq Periods
  BY TempoIsPeriod
<1>2. i \in Nat /\ i >= 1
  <2> DEFINE n == interval * q[2]
             m == q[1]
             more == RoundPositive(n, m)
  <2>1. n \in Int /\ m \in Nat \ {0} /\ c.index \in Nat
    BY <1>1, ClockParts
  <2> HIDE DEF n, m
  <2>2. more \in Int
    BY <2>1, RoundedIsInt
  <2> HIDE DEF more
  <2>3. c.index + Larger(more, 1) \in Nat /\ c.index + Larger(more, 1) >= 1
    BY <2>1, <2>2, CountsOn
  <2> QED BY <2>3 DEF more, n, m
<1>3. PICK p \in Periods :
        \/ d = PushError(Tuned(p), 0)
        \/ d = PushError([Tuned(p) EXCEPT !.last = at, !.index = i], 0)
  <2>1. PICK p \in Rounded(q[1], q[2]) :
          d = PushError(IF 4 * q[1] > 5 * interval * q[2] THEN Tuned(p)
                        ELSE [Tuned(p) EXCEPT !.last = at, !.index = i], 0)
    BY DEF FirstInterval, Clocks
  <2> QED BY <2>1, <1>1
<1> HIDE DEF i
<1>4. Tuned(p) \in Clocks /\ Tuned(p).last = c.last /\ Tuned(p).event = at
        /\ Tuned(p).index = c.index
  BY ClockNotes
<1>5. [Tuned(p) EXCEPT !.last = at, !.index = i] = Anchored(Tuned(p), at, i, at)
  BY DEF Clocks, Anchored
<1>6. CASE d = PushError(Tuned(p), 0)
  <2>1. SameGrid(d, Tuned(p))
    BY <1>4, <1>6, ClockPushes
  <2> HIDE DEF Tuned
  <2> QED BY <2>1, <1>4, ClockIsSet DEF SameGrid
<1>7. CASE d = PushError([Tuned(p) EXCEPT !.last = at, !.index = i], 0)
  <2> DEFINE t == Tuned(p)
             a == Anchored(t, at, i, at)
  <2>1. t \in Clocks
    BY <1>4
  <2>2. a \in Clocks /\ a.last = at /\ a.event = at /\ a.index = i
    <3> HIDE DEF t, Tuned
    <3>1. i \in Nat
      BY <1>2
    <3> QED BY <2>1, <3>1, ClockAnchors
  <2>3. d = PushError(a, 0)
    BY <1>5, <1>7
  <2> HIDE DEF a
  <2>4. SameGrid(d, a)
    BY <2>2, <2>3, ClockPushes
  <2> QED BY <2>2, <2>4, <1>2, ClockIsSet DEF SameGrid
<1> QED BY <1>3, <1>6, <1>7

\* A subdivision leaves the grid.
LEMMA SubdivisionOK ==
    ASSUME NEW c \in Clocks, c.last \in Int, c.index >= 1, NEW at \in Int
    PROVE  ClockInv(Subdivision(c, at))
<1> DEFINE t == [c EXCEPT !.event = at]
           d == Subdivision(c, at)
<1>1. t \in Clocks /\ t.last = c.last /\ t.event = at /\ t.index = c.index
  BY DEF Clocks
<1>2. d = PushError(t, 2 * (at - c.event) - c.period)
  BY DEF Subdivision
<1> HIDE DEF t, d
<1>3. SameGrid(d, t)
  BY <1>1, <1>2, ClockPushes
<1> QED BY <1>1, <1>3, ClockIsSet DEF SameGrid, d

\* Another tempo, or a nearer one, leaves the grid too.
LEMMA RetunedOK ==
    ASSUME NEW c \in Clocks, NEW interval \in Nat \ {0}, NEW q \in Tempos(interval),
           NEW d \in Retuned(c, q)
    PROVE  SameGrid(d, c)
<1> DEFINE n == q[1]
           m == q[2]
           period == c.period
           error == n - period * m
<1>1. n \in Nat \ {0} /\ m \in Nat \ {0} /\ MinPeriod * m <= n /\ n <= MaxPeriod * m
        /\ Rounded(n, m) \subseteq Periods
  BY TempoIsPeriod
<1>2. period \in Periods /\ period \in Nat \ {0} /\ MinPeriod <= period /\ period <= MaxPeriod
  BY ClockParts, ClockRanges
<1>3. \/ \E p \in Rounded(n, m) : d = OtherTempo(c, p)
      \/ \E p \in Rounded(100 * period * m + 12 * error, 100 * m) :
            d = ForgetTempo([c EXCEPT !.period = p])
  BY DEF Retuned
<1>4. Rounded(100 * period * m + 12 * error, 100 * m) \subseteq Periods
  <2> DEFINE x == 100 * period * m + 12 * error
             y == 100 * m
             pm == period * m
             low == MinPeriod * m
             high == MaxPeriod * m
  <2>1. pm \in Int /\ low \in Int /\ high \in Int /\ low <= pm /\ pm <= high
    <3> HIDE DEF n, m, period
    <3> QED BY <1>1, <1>2, ClockRanges
  <2>2. x = 88 * pm + 12 * n
    <3>1. 100 * period * m = 100 * pm
      <4> HIDE DEF period, m
      <4> QED BY <1>1, <1>2
    <3>2. pm \in Int /\ n \in Int
      BY <2>1, <1>1
    <3>3. x = 100 * pm + 12 * (n - pm)
      BY <3>1
    <3> HIDE DEF pm, n, x
    <3> QED BY <3>2, <3>3
  <2>3. x \in Int /\ 100 * low <= x /\ x <= 100 * high
    <3> HIDE DEF x, pm, low, high, n
    <3> QED BY <2>1, <2>2, <1>1 DEF low, high
  <2>4. y \in Nat \ {0} /\ MinPeriod * y = 100 * low /\ MaxPeriod * y = 100 * high
    <3> HIDE DEF m
    <3> QED BY <1>1, ClockRanges
  <2>5. MinPeriod \in Int /\ MaxPeriod \in Int /\ MinPeriod * y <= x /\ x <= MaxPeriod * y
    BY <2>3, <2>4, ClockRanges
  <2> HIDE DEF x, y
  <2>6. Rounded(x, y) \subseteq Periods
    BY <2>3, <2>4, <2>5, RoundedBetween DEF Periods
  <2> QED BY <2>6 DEF x, y
<1>5. ASSUME NEW p \in Periods
      PROVE  SameGrid(ForgetTempo([c EXCEPT !.period = p]), c)
  <2> DEFINE t == [c EXCEPT !.period = p]
  <2>1. SameGrid(t, c)
    BY ClockTunes
  <2> HIDE DEF t
  <2>2. SameGrid(ForgetTempo(t), t)
    BY <2>1, ClockForgets DEF SameGrid
  <2>3. SameGrid(ForgetTempo(t), c)
    BY <2>1, <2>2 DEF SameGrid
  <2> QED BY <2>3 DEF t
<1>6. ASSUME NEW p \in Periods
      PROVE  SameGrid(OtherTempo(c, p), c)
  <2> DEFINE near == c.heard # None /\ 100 * Larger(p - c.heard, c.heard - p) < 6 * p
             times == IF near THEN c.times + 1 ELSE 1
             heard == IF times = 1 THEN p ELSE c.heard
             e == [c EXCEPT !.heard = heard, !.times = times]
  <2>1. OtherTempo(c, p) = IF times >= 3 THEN ForgetTempo([c EXCEPT !.period = p]) ELSE e
    BY DEF OtherTempo, Clocks
  <2>2. times \in Nat /\ heard \in Periods \cup {None}
    BY ClockParts
  <2> HIDE DEF near
  <2>3. ~(times >= 3) => times \in 0 .. 2
    BY <2>2
  <2> HIDE DEF times, heard
  <2>4. ~(times >= 3) => SameGrid(e, c)
    BY <2>2, <2>3 DEF SameGrid, Clocks
  <2> QED BY <2>1, <2>4, <1>5
<1> HIDE DEF n, m, period, error
<1> QED BY <1>1, <1>3, <1>4, <1>5, <1>6

\* A correction moves the grid, to earlier times or to later ones.
LEMMA CorrectionOK ==
    ASSUME NEW c \in Clocks, c.last \in Int, c.event \in Int, NEW at \in Int,
           at > c.event, NEW q \in Tempos(at - c.event), NEW d \in Correction(c, at, q)
    PROVE  ClockInv(d)
<1> DEFINE interval == at - c.event
           beats == Smaller(Larger(RoundPositive(interval, c.period), 1), 4)
<1>1. interval \in Nat \ {0} /\ c.period \in Nat \ {0}
  BY ClockParts
<1>2. beats \in Nat /\ beats >= 1
  <2> DEFINE more == RoundPositive(interval, c.period)
  <2>1. more \in Int
    <3> HIDE DEF interval
    <3> QED BY <1>1, RoundedIsInt
  <2> HIDE DEF more
  <2>2. Smaller(Larger(more, 1), 4) \in Nat /\ Smaller(Larger(more, 1), 4) >= 1
    BY <2>1 DEF Smaller, Larger
  <2> QED BY <2>2 DEF more
<1>3. PICK t \in Retuned(c, q) : d \in Corrected(t, at, beats)
  BY DEF Correction
<1>4. SameGrid(t, c)
  <2> HIDE DEF beats
  <2> QED BY <1>1, RetunedOK
<1> HIDE DEF interval, beats
<1> DEFINE predicted == t.last + beats * t.period
           error == at - predicted
           i == t.index + beats
<1>5. t \in Clocks /\ t.last \in Int /\ t.period \in Nat \ {0} /\ t.index \in Nat
  BY <1>4, ClockParts DEF SameGrid
<1>6. predicted \in Int /\ error \in Int /\ i \in Nat /\ i >= 1
  <2>1. beats * t.period \in Int
    BY <1>2, <1>5
  <2> QED BY <2>1, <1>2, <1>5
<1>7. PICK step \in Rounded(35 * error, 100) :
        d = PushError(Anchored(t, at, i, predicted + step), error)
  BY <1>3 DEF Corrected, Clocks, Anchored
<1>8. step \in Int
  <2> DEFINE n == 35 * error
  <2>1. n \in Int /\ 100 \in Nat \ {0}
    BY <1>6
  <2> HIDE DEF n
  <2>2. Rounded(n, 100) \subseteq Int
    BY <2>1, RoundedIsInt
  <2> QED BY <2>2, <1>7 DEF n
<1> DEFINE last == predicted + step
           g == Anchored(t, at, i, last)
<1>9. last \in Int
  BY <1>6, <1>8
<1>10. d = PushError(g, error)
  BY <1>7
<1> HIDE DEF last, i, predicted, error
<1>11. g \in Clocks /\ g.last = last /\ g.event = at /\ g.index = i
  <2>1. i \in Nat
    BY <1>6
  <2> QED BY <2>1, <1>5, <1>9, ClockAnchors
<1> HIDE DEF g
<1>12. SameGrid(d, g)
  BY <1>10, <1>11, ClockPushes
<1> QED BY <1>6, <1>9, <1>11, <1>12, ClockIsSet DEF SameGrid

\* observe leaves a clock, whenever the onset comes and whatever tempo is hinted at.
LEMMA ClockObserves ==
    ASSUME NEW c, ClockInv(c), NEW at \in Int, NEW hint \in Periods \cup {None},
           NEW d \in Observe(c, at, hint)
    PROVE  ClockInv(d)
<1>0. c \in Clocks /\ c.last \in Int \cup {None} /\ c.event \in Int \cup {None}
  BY ClockParts DEF ClockInv
<1> DEFINE interval == at - c.event
           candidates == ChooseCandidate(c, interval, hint)
<1>1. CASE c.event = None
  <2>1. d = FirstOnset(c, at, hint)
    BY <1>1 DEF Observe
  <2> QED BY <2>1, <1>0, FirstOnsetOK
<1>2. CASE c.event # None /\ at <= c.event
  <2>1. d = c
    <3>1. ~(at > c.event)
      BY <1>0, <1>2
    <3> QED BY <1>2, <3>1 DEF Observe
  <2> QED BY <2>1
<1>3. CASE c.event # None /\ ~(at <= c.event)
  <2>0. c.event \in Int /\ c.last \in Int /\ c.index >= 1 /\ at > c.event
    BY <1>0, <1>3 DEF ClockInv
  <2>1. interval \in Nat \ {0}
    BY <2>0
  <2>2. Observe(c, at, hint) =
          CASE interval > GapLimit -> {AfterGap(c, at)}
            [] interval < MinInterval -> {[c EXCEPT !.event = at]}
            [] interval \in MinInterval .. GapLimit ->
                  IF c.locks = 0
                  THEN UNION {FirstInterval(c, at, q) : q \in candidates}
                  ELSE IF 100 * interval < 68 * c.period THEN {Subdivision(c, at)}
                  ELSE UNION {Correction(c, at, q) : q \in candidates}
    BY <1>3, <2>0, Zenon DEF Observe
  <2>3. candidates \subseteq Tempos(interval)
    BY CandidateIsTempo
  <2>4. ClockInv(AfterGap(c, at))
    BY <1>0, <2>0, AfterGapOK
  <2>5. ClockInv([c EXCEPT !.event = at])
    <3> DEFINE e == [c EXCEPT !.event = at]
    <3>1. e \in Clocks /\ e.last = c.last /\ e.event = at /\ e.index = c.index
      BY <1>0 DEF Clocks
    <3> HIDE DEF e
    <3>2. ClockInv(e)
      BY <3>1, <2>0, ClockIsSet
    <3> QED BY <3>2 DEF e
  <2>6. ClockInv(Subdivision(c, at))
    BY <1>0, <2>0, SubdivisionOK
  <2>7. ASSUME NEW q \in candidates, d \in FirstInterval(c, at, q)
        PROVE  ClockInv(d)
    BY <1>0, <2>0, <2>3, <2>7, FirstIntervalOK
  <2>8. ASSUME NEW q \in candidates, d \in Correction(c, at, q)
        PROVE  ClockInv(d)
    BY <1>0, <2>0, <2>3, <2>8, CorrectionOK
  <2>9. interval > GapLimit \/ interval < MinInterval \/ interval \in MinInterval .. GapLimit
    BY <2>1, ClockRanges
  <2> HIDE DEF interval, candidates
  <2> QED BY <2>2, <2>4, <2>5, <2>6, <2>7, <2>8, <2>9
<1> QED BY <1>0, <1>1, <1>2, <1>3

\* A reading: where the clock can be trusted, the next beat is ahead.
ReadOK(read, at) ==
    /\ read.index \in Nat /\ read.period \in Periods /\ read.sure \in BOOLEAN
    /\ read.sure => read.index >= 1 /\ read.next \in Int /\ read.next > at

\* And it is where the clock has it.
ReadsClock(read, c, at) ==
    /\ read.index = Reading(c, at, FALSE).index /\ read.period = c.period
    /\ read.sure =>
         /\ c.last \in Int /\ c.index \in Nat /\ c.period \in Nat \ {0}
         /\ read.next = c.last + (read.index + 1 - c.index) * c.period

\* state reads the clock so, also when its grid begins ahead of the frame.
LEMMA ClockReads ==
    ASSUME NEW c, NEW at \in Nat, ClockInv(c), NEW doubt \in BOOLEAN
    PROVE  LET read == Reading(c, at, doubt) IN ReadOK(read, at) /\ ReadsClock(read, c, at)
<1>0. c.last \in Int \cup {None} /\ c.event \in Int \cup {None}
        /\ c.index \in Nat /\ c.period \in Periods /\ c.period \in Nat \ {0}
  BY ClockParts DEF ClockInv
<1>1. CASE c.last = None
  BY <1>0, <1>1 DEF Reading, ReadOK, ReadsClock
<1>2. CASE c.last # None
  <2> DEFINE ago == Larger(at - c.last, 0)
             period == c.period
             since == ago \div period
             sure == /\ c.locks >= LockCount /\ at - c.event <= FreshFor * c.period
                     /\ ~(doubt /\ Unsure(c, at))
             read == Reading(c, at, doubt)
  <2>1. c.last \in Int /\ c.index >= 1 /\ period \in Nat \ {0}
    BY <1>0, <1>2 DEF ClockInv
  <2>2. ago \in Nat /\ ago >= at - c.last
    BY <2>1 DEF Larger
  <2>3. since \in Nat /\ ago < (since + 1) * period
    <3> HIDE DEF ago, period
    <3>1. since \in Nat /\ ago % period \in 0 .. (period - 1)
            /\ ago = (period * since) + (ago % period)
      BY <2>1, <2>2, DivisionOfNat
    <3> DEFINE r == ago % period
    <3>2. r \in 0 .. (period - 1) /\ ago = (period * since) + r
      BY <3>1
    <3> HIDE DEF since, r
    <3>3. (since + 1) * period = (period * since) + period /\ period * since \in Nat
      BY <3>1, <2>1
    <3> DEFINE m == period * since
               next == (since + 1) * period
    <3>4. m \in Nat /\ next = m + period /\ ago = m + r
      BY <3>2, <3>3
    <3> HIDE DEF m, next
    <3>5. ago < next
      BY <2>1, <3>2, <3>4
    <3> QED BY <3>1, <3>5 DEF next
  <2>4. /\ read.index = c.index + since /\ read.period = period
        /\ read.next = c.last + (since + 1) * period /\ read.sure = sure
    BY <1>2 DEF Reading
  <2>5. Reading(c, at, FALSE).index = c.index + since
    BY <1>2 DEF Reading
  <2>6. sure \in BOOLEAN
    OBVIOUS
  <2>7. (since + 1) * period \in Int
    <3> HIDE DEF since, period
    <3> QED BY <2>1, <2>3
  <2> HIDE DEF since, read, sure, ago
  <2>8. read.next \in Int /\ read.next > at /\ read.index \in Nat /\ read.index >= 1
    BY <2>1, <2>2, <2>3, <2>4, <2>7, <1>0
  <2>9. read.index + 1 - c.index = since + 1
    BY <2>3, <2>4, <1>0
  <2>10. ReadOK(read, at)
    BY <2>4, <2>6, <2>8, <1>0 DEF ReadOK
  <2>11. ReadsClock(read, c, at)
    BY <2>1, <2>4, <2>5, <2>9, <1>0 DEF ReadsClock
  <2> QED BY <2>10, <2>11 DEF read
<1> QED BY <1>1, <1>2

\* A frame may be late by some ticks, or by none.
LEMMA LatenessIsNat ==
    ASSUME NEW period \in Periods
    PROVE  LatenessOf(period) \in Nat
<1>1. period \in Nat /\ 2 * Subdivisions \in Nat \ {0} /\ MaxLateness \in Nat
  BY ClockRanges
<1> DEFINE d == 2 * Subdivisions
<1>2. period \div d \in Nat
  <2> HIDE DEF d
  <2>1. d \in Nat \ {0}
    BY <1>1 DEF d
  <2> QED BY <1>1, <2>1, DivisionOfNat
<1> QED BY <1>1, <1>2 DEF LatenessOf, Smaller

(* -- the sequence ---------------------------------------------------------- *)

MaybeInt == Int \cup {None}
MaybeNat == Nat \cup {None}
Sessions ==
    [on : BOOLEAN, done : BOOLEAN, valid : BOOLEAN, anchor : MaybeNat, step : MaybeNat,
     left : MaybeNat, lastBar : MaybeNat, target : MaybeNat, boundary : MaybeInt,
     section : MaybeInt, lastNow : MaybeInt, waiting : BOOLEAN, started : BOOLEAN]

\* What a sequence is: bars for every step, and at least one step.
BarsOK(bars) == bars # None => bars \in Seq(Nat) /\ bars # <<>>

\* A session between two updates: a step it is in is one of the sequence, and the bars
\* left to it lead to the bar it ends at.
SeqOK(s, bars) ==
    /\ s \in Sessions
    /\ s.step # None =>
         /\ bars # None /\ s.step \in DOMAIN bars
         /\ s.left \in Nat /\ s.lastBar \in Nat /\ s.target \in Nat /\ s.boundary \in Int
    /\ s.step # None /\ ~s.done => s.lastBar + s.left = s.target
    /\ s.started => s.step # None

LineOK(line) ==
    /\ line.bar \in Nat \ {0} /\ line.nextBar \in Int
    /\ line.length \in Nat \ {0} /\ line.late \in Nat

\* The bar of a beat that can be trusted is a bar.
LEMMA TimelineReads ==
    ASSUME NEW read, NEW at, ReadOK(read, at), read.sure, NEW anchor \in Nat
    PROVE  LineOK(Timeline(anchor, read))
<1>1. Monus(read.index, anchor) \in Nat
  BY DEF Monus, Larger, ReadOK
<1> DEFINE beat == Monus(read.index, anchor)
           bar == beat \div BeatsPerBar
           rest == beat % BeatsPerBar
<1>2. bar \in Nat /\ rest \in 0 .. (BeatsPerBar - 1)
  <2>1. beat \in Nat
    BY <1>1
  <2> HIDE DEF beat
  <2> QED BY <2>1, ClockRanges, DivisionOfNat
<1>3. read.next \in Int /\ read.period \in Nat \ {0} /\ LatenessOf(read.period) \in Nat
  BY ClockRanges, LatenessIsNat DEF ReadOK
<1>4. (BeatsPerBar - rest - 1) * read.period \in Int
  <2> HIDE DEF rest
  <2>1. BeatsPerBar - rest - 1 \in Int
    BY <1>2, ClockRanges
  <2> QED BY <2>1, <1>3
<1>5. BeatsPerBar * read.period \in Nat \ {0}
  BY <1>3, ClockRanges
<1>6. /\ Timeline(anchor, read).bar = bar + 1
      /\ Timeline(anchor, read).nextBar = read.next + (BeatsPerBar - rest - 1) * read.period
      /\ Timeline(anchor, read).length = BeatsPerBar * read.period
      /\ Timeline(anchor, read).late = LatenessOf(read.period)
  BY DEF Timeline
<1> HIDE DEF bar, rest
<1> QED BY <1>2, <1>3, <1>4, <1>5, <1>6 DEF LineOK

\* The boundary of a bar is a time.
LEMMA BoundaryIsTime ==
    ASSUME NEW line, LineOK(line), NEW target \in Nat
    PROVE  BoundaryAtBar(line, target) \in Int
<1>1. Monus(target, line.bar) \in Nat
  BY DEF Monus, Larger, LineOK
<1>2. Monus(target, line.bar) * line.length \in Int
  BY <1>1 DEF LineOK
<1> QED BY <1>2 DEF BoundaryAtBar, LineOK

\* next_future_bar_boundary never goes back behind the bar asked for.
LEMMA FutureBarIsAhead ==
    ASSUME NEW line, LineOK(line), NEW target \in Nat, NEW tick \in Int, NEW offset \in Int
    PROVE  /\ NextFutureBar(line, target, tick, offset) \in Nat
           /\ NextFutureBar(line, target, tick, offset) >= target
<1> DEFINE due == BoundaryAtBar(line, target) + offset
<1>1. BoundaryAtBar(line, target) \in Int
  BY BoundaryIsTime
<1>2. due \in Int
  BY <1>1
<1>3. ~(due > tick) => (tick - due) \div line.length \in Nat
  <2> DEFINE length == line.length
  <2>1. length \in Nat \ {0}
    BY DEF LineOK
  <2> HIDE DEF due, length
  <2>2. ~(due > tick) => tick - due \in Nat
    BY <1>2
  <2>3. ~(due > tick) => (tick - due) \div length \in Nat
    BY <2>1, <2>2, DivisionOfNat
  <2> QED BY <2>3 DEF length
<1>4. NextFutureBar(line, target, tick, offset) =
        IF due > tick THEN target ELSE target + (tick - due) \div line.length + 1
  BY DEF NextFutureBar
<1> HIDE DEF due
<1>5. CASE due > tick
  BY <1>4, <1>5
<1>6. CASE ~(due > tick)
  BY <1>3, <1>4, <1>6
<1> QED BY <1>5, <1>6

\* The updates of a session, each named.
Awaiting(s, b, t) == [s EXCEPT !.lastBar = b, !.target = t]
Recounted(s, b, l, t) == [s EXCEPT !.left = l, !.lastBar = b, !.target = t]
Postponed(s, b, l, t) == [s EXCEPT !.lastBar = b, !.target = t, !.left = l]
Displaced(s, x) == [s EXCEPT !.boundary = x]

\* A session that awaits its first step may be given any bar to await.
LEMMA SeqAwaits ==
    ASSUME NEW s, NEW bars, SeqOK(s, bars), s.step = None, NEW b \in Nat, NEW t \in Nat
    PROVE  LET d == Awaiting(s, b, t)
           IN  SeqOK(d, bars) /\ d.step = None /\ d.target = t
<1> DEFINE d == Awaiting(s, b, t)
<1>1. s \in Sessions
  BY DEF SeqOK
<1>2. d \in Sessions /\ d.step = s.step /\ d.started = s.started /\ d.target = t
  BY <1>1 DEF Sessions, MaybeNat, Awaiting
<1> HIDE DEF d
<1>3. SeqOK(d, bars) /\ d.step = None /\ d.target = t
  BY <1>2 DEF SeqOK
<1> QED BY <1>3 DEF d

\* A step goes on with another count of bars that leads to its end.
LEMMA SeqRecounts ==
    ASSUME NEW s, NEW bars, SeqOK(s, bars), s.step # None,
           NEW b \in Nat, NEW l \in Nat, NEW t \in Nat, b + l = t
    PROVE  LET d == Recounted(s, b, l, t)
           IN  SeqOK(d, bars) /\ d.step = s.step
<1> DEFINE d == Recounted(s, b, l, t)
<1>1. s \in Sessions
  BY DEF SeqOK
<1>2. /\ d \in Sessions /\ d.step = s.step /\ d.started = s.started /\ d.target = t
      /\ d.left = l /\ d.lastBar = b /\ d.boundary = s.boundary /\ d.done = s.done
  BY <1>1 DEF Sessions, MaybeNat, Recounted
<1> HIDE DEF d
<1>3. SeqOK(d, bars) /\ d.step = s.step
  BY <1>2 DEF SeqOK
<1> QED BY <1>3 DEF d

\* The same for a step that is given until another bar.
LEMMA SeqPostpones ==
    ASSUME NEW s, NEW bars, SeqOK(s, bars), s.step # None,
           NEW b \in Nat, NEW l \in Nat, NEW t \in Nat, b + l = t
    PROVE  LET d == Postponed(s, b, l, t)
           IN  SeqOK(d, bars) /\ d.step = s.step
<1> DEFINE d == Postponed(s, b, l, t)
<1>1. s \in Sessions
  BY DEF SeqOK
<1>2. /\ d \in Sessions /\ d.step = s.step /\ d.started = s.started /\ d.target = t
      /\ d.left = l /\ d.lastBar = b /\ d.boundary = s.boundary /\ d.done = s.done
  BY <1>1 DEF Sessions, MaybeNat, Postponed
<1> HIDE DEF d
<1>3. SeqOK(d, bars) /\ d.step = s.step
  BY <1>2 DEF SeqOK
<1> QED BY <1>3 DEF d

\* The beginning of a step may be moved.
LEMMA SeqMoves ==
    ASSUME NEW s, NEW bars, SeqOK(s, bars), s.step # None, NEW x \in Int
    PROVE  LET d == Displaced(s, x)
           IN  SeqOK(d, bars) /\ d.step = s.step
<1> DEFINE d == Displaced(s, x)
<1>1. s \in Sessions
  BY DEF SeqOK
<1>0. x \in MaybeInt
  BY DEF MaybeInt
<1>2. /\ d \in Sessions /\ d.step = s.step /\ d.started = s.started /\ d.target = s.target
      /\ d.left = s.left /\ d.lastBar = s.lastBar /\ d.boundary = x /\ d.done = s.done
  BY <1>0, <1>1 DEF Sessions, MaybeNat, Displaced
<1> HIDE DEF d
<1>3. SeqOK(d, bars) /\ d.step = s.step
  BY <1>2 DEF SeqOK
<1> QED BY <1>3 DEF d

\* schedule_start keeps the session.
LEMMA ScheduleStartKeeps ==
    ASSUME NEW s, NEW bars, SeqOK(s, bars), s.step = None, NEW line, LineOK(line),
           NEW tick \in Int, NEW offset \in Int
    PROVE  LET d == ScheduleStart(s, line, tick, offset)
           IN  SeqOK(d, bars) /\ d.step = None /\ d.target \in Nat
<1> DEFINE t == NextFutureBar(line, line.bar + 1, tick, offset)
           b == line.bar
<1>1. b \in Nat
  BY DEF LineOK
<1>2. t \in Nat
  <2>1. line.bar + 1 \in Nat
    BY DEF LineOK
  <2> QED BY <2>1, FutureBarIsAhead
<1>3. ScheduleStart(s, line, tick, offset) = Awaiting(s, b, t)
  BY DEF ScheduleStart, Awaiting
<1> HIDE DEF b, t
<1> DEFINE d == Awaiting(s, b, t)
<1>4. SeqOK(d, bars) /\ d.step = None /\ d.target = t
  BY <1>1, <1>2, SeqAwaits
<1> HIDE DEF d
<1> QED BY <1>2, <1>3, <1>4 DEF d

\* reanchor keeps what is left of a step, or a bar at least.
LEMMA ReanchorKeeps ==
    ASSUME NEW s, NEW bars, SeqOK(s, bars), NEW line, LineOK(line),
           NEW tick \in Int, NEW offset \in Int
    PROVE  SeqOK(Reanchor(s, line, tick, offset), bars)
<1> DEFINE x == BoundaryAtBar(line, line.bar)
           b == line.bar
           t == [s EXCEPT !.section = None, !.lastBar = b, !.boundary = x]
<1>1. b \in Nat /\ x \in Int
  BY BoundaryIsTime DEF LineOK
<1>0. x \in MaybeInt /\ b \in MaybeNat /\ None \in MaybeInt
  <2> HIDE DEF x, b
  <2> QED BY <1>1 DEF MaybeInt, MaybeNat
<1>s. s \in Sessions
  BY DEF SeqOK
<1>2. /\ t \in Sessions /\ t.step = s.step /\ t.done = s.done /\ t.started = s.started
      /\ t.left = s.left /\ t.boundary = x
  <2> HIDE DEF x, b
  <2> QED BY <1>0, <1>s DEF Sessions
<1>3. CASE s.step = None
  <2>1. Reanchor(s, line, tick, offset) = ScheduleStart(t, line, tick, offset)
    BY <1>3 DEF Reanchor
  <2> HIDE DEF t
  <2>2. SeqOK(t, bars) /\ t.step = None
    BY <1>2, <1>3 DEF SeqOK
  <2> QED BY <2>1, <2>2, ScheduleStartKeeps
<1>4. CASE s.step # None
  <2> DEFINE target == NextFutureBar(line, line.bar + Larger(s.left, 1), tick, offset)
             left == Monus(target, line.bar)
             d == [t EXCEPT !.target = target, !.left = left, !.valid = TRUE]
  <2>1. Reanchor(s, line, tick, offset) = d
    BY <1>4 DEF Reanchor
  <2>2. s.left \in Nat
    BY <1>4 DEF SeqOK
  <2>3. line.bar + Larger(s.left, 1) \in Nat /\ line.bar + Larger(s.left, 1) >= line.bar
    BY <2>2, <1>1 DEF Larger
  <2>4. target \in Nat /\ target >= line.bar + Larger(s.left, 1)
    BY <2>3, FutureBarIsAhead
  <2>5. target >= b
    <3> HIDE DEF target
    <3> QED BY <2>3, <2>4, <1>1
  <2> HIDE DEF target
  <2>6. left \in Nat /\ b + left = target
    BY <2>4, <2>5, <1>1 DEF Monus, Larger
  <2> HIDE DEF left, t, x, b
  <2>7. target \in MaybeNat /\ left \in MaybeNat
    BY <2>4, <2>6 DEF MaybeNat
  <2>8. t.lastBar = b
    BY <1>s, <1>0 DEF t, Sessions
  <2>9. /\ d \in Sessions /\ d.step = t.step /\ d.done = t.done /\ d.started = t.started
        /\ d.left = left /\ d.target = target /\ d.boundary = t.boundary
        /\ d.lastBar = t.lastBar
    BY <2>7, <1>2 DEF Sessions
  <2> HIDE DEF d
  <2>10. SeqOK(d, bars)
    BY <2>9, <2>8, <2>6, <2>4, <1>2, <1>1, <1>4 DEF SeqOK
  <2> QED BY <2>1, <2>10
<1> QED BY <1>3, <1>4

\* The bars passed are counted down, or counted anew.
LEMMA CountBarsKeeps ==
    ASSUME NEW s, NEW bars, SeqOK(s, bars), s.step # None, ~s.done, NEW line, LineOK(line),
           NEW tick \in Int, NEW offset \in Int
    PROVE  LET d == CountBars(s, line, tick, offset)
           IN  SeqOK(d, bars) /\ d.step = s.step
<1> DEFINE passed == line.bar - s.lastBar
           kept == Larger(s.left, 1)
           b == line.bar
           down == Monus(s.left, 1)
           end == IF s.left <= 1 THEN line.bar ELSE s.target
           x == BoundaryAtBar(line, line.bar)
           early == line.bar = Monus(s.lastBar, 1) /\ tick < s.boundary
           stepped == Recounted(s, b, down, end)
           counted == Recounted(s, b, kept, b + kept)
           jumped == Displaced(counted, x)
<1>1. s.left \in Nat /\ s.lastBar \in Nat /\ s.target \in Nat /\ s.lastBar + s.left = s.target
  BY DEF SeqOK
<1>2. b \in Nat /\ x \in Int
  BY BoundaryIsTime DEF LineOK
<1>3. kept \in Nat /\ b + kept \in Nat
  BY <1>1, <1>2 DEF Larger
<1>4. CountBars(s, line, tick, offset) =
        CASE passed = 0 -> s
          [] passed < 0 -> IF early THEN s ELSE Reanchor(s, line, tick, offset)
          [] passed = 1 -> stepped
          [] passed > 1 -> jumped
  BY DEF CountBars, Recounted, Displaced
<1>5. passed \in Int
  BY <1>1, <1>2
<1>6. passed = 1 => down \in Nat /\ end \in Nat /\ b + down = end
  BY <1>1, <1>2 DEF Monus, Larger
<1>7. passed = 1 => SeqOK(stepped, bars) /\ stepped.step = s.step
  <2> SUFFICES ASSUME passed = 1 PROVE SeqOK(stepped, bars) /\ stepped.step = s.step
    OBVIOUS
  <2>1. b \in Nat /\ down \in Nat /\ end \in Nat /\ b + down = end
    BY <1>2, <1>6
  <2> HIDE DEF passed, down, end, b
  <2>2. b \in Nat
    BY <2>1
  <2>3. down \in Nat
    BY <2>1
  <2>4. end \in Nat /\ b + down = end
    BY <2>1
  <2>5. SeqOK(Recounted(s, b, down, end), bars)
    BY <2>2, <2>3, <2>4, SeqRecounts
  <2>6. Recounted(s, b, down, end).step = s.step
    BY DEF Recounted, SeqOK, Sessions
  <2> QED BY <2>5, <2>6
<1>8. SeqOK(jumped, bars) /\ jumped.step = s.step
  <2> DEFINE sum == b + kept
             r == Recounted(s, b, kept, sum)
  <2>1. sum \in Nat /\ b + kept = sum
    BY <1>3
  <2> HIDE DEF kept, b, sum, x
  <2>2. SeqOK(r, bars) /\ r.step = s.step
    <3>1. b \in Nat
      BY <1>2
    <3>2. kept \in Nat
      BY <1>3
    <3>3. sum \in Nat /\ b + kept = sum
      BY <2>1
    <3>4. SeqOK(r, bars)
      BY <3>1, <3>2, <3>3, SeqRecounts
    <3>5. r.step = s.step
      BY DEF Recounted, SeqOK, Sessions
    <3> QED BY <3>4, <3>5
  <2> HIDE DEF r
  <2>3. LET d == Displaced(r, x) IN SeqOK(d, bars) /\ d.step = r.step
    BY <2>2, <1>2, SeqMoves
  <2> QED BY <2>2, <2>3 DEF r, sum
<1>9. SeqOK(Reanchor(s, line, tick, offset), bars)
  BY ReanchorKeeps
<1>10. Reanchor(s, line, tick, offset).step = s.step
  BY DEF Reanchor, SeqOK, Sessions
<1> HIDE DEF passed, stepped, jumped, early
<1>11. CASE passed = 0
  BY <1>4, <1>11
<1>12. CASE passed < 0
  BY <1>4, <1>5, <1>9, <1>10, <1>12
<1>13. CASE passed = 1
  BY <1>4, <1>7, <1>13
<1>14. CASE passed > 1
  BY <1>4, <1>5, <1>8, <1>14
<1> QED BY <1>5, <1>11, <1>12, <1>13, <1>14
\* What the count of bars does not depend on may change.
LEMMA SeqCarries ==
    ASSUME NEW s, NEW bars, SeqOK(s, bars), NEW d \in Sessions,
           d.step = s.step, d.left = s.left, d.lastBar = s.lastBar, d.target = s.target,
           d.boundary = s.boundary, d.done <=> s.done, d.started => s.started
    PROVE  SeqOK(d, bars)
  BY DEF SeqOK

Begun(s, i, l, b, t, x) ==
    [s EXCEPT !.section = None, !.step = i, !.left = l, !.lastBar = b, !.target = t,
              !.boundary = x, !.started = TRUE]

\* A step that begins has all its bars ahead.
LEMMA SeqBegins ==
    ASSUME NEW s \in Sessions, NEW bars, bars # None, NEW i \in Nat, i \in DOMAIN bars,
           NEW b \in Nat, NEW l \in Nat, NEW t \in Nat, b + l = t, NEW x \in Int
    PROVE  SeqOK(Begun(s, i, l, b, t, x), bars)
<1> DEFINE d == Begun(s, i, l, b, t, x)
<1>0. x \in MaybeInt /\ None \in MaybeInt
  BY DEF MaybeInt
<1>1. /\ d \in Sessions /\ d.step = i /\ d.target = t /\ d.left = l /\ d.lastBar = b
      /\ d.boundary = x
  BY <1>0 DEF Sessions, MaybeNat, Begun
<1> HIDE DEF d
<1>2. SeqOK(d, bars)
  BY <1>1, ClockRanges DEF SeqOK
<1> QED BY <1>2 DEF d

\* start_step: the step is one of the sequence.
LEMMA BeginStepOK ==
    ASSUME NEW s \in Sessions, NEW bars \in Seq(Nat), bars # None, NEW i \in DOMAIN bars,
           NEW b \in Nat, NEW x \in Int
    PROVE  SeqOK(BeginStep(s, bars, i, b, x), bars)
<1> DEFINE l == bars[i]
           t == b + l
<1>1. i \in Nat /\ l \in Nat
  OBVIOUS
<1>2. t \in Nat /\ b + l = t
  BY <1>1
<1>3. BeginStep(s, bars, i, b, x) = Begun(s, i, l, b, t, x)
  BY DEF BeginStep, Begun
<1> HIDE DEF l, t
<1>4. SeqOK(Begun(s, i, l, b, t, x), bars)
  BY <1>1, <1>2, SeqBegins
<1> QED BY <1>3, <1>4

\* advance_step: the next one, the first again, or the end of the sequence.
LEMMA AdvanceStepOK ==
    ASSUME NEW s, NEW bars \in Seq(Nat), bars # None, bars # <<>>, SeqOK(s, bars),
           s.step # None, NEW repeat, NEW b \in Nat, NEW x \in Int
    PROVE  SeqOK(AdvanceStep(s, bars, repeat, b, x), bars)
<1>0. s \in Sessions
  BY DEF SeqOK
<1>1. CASE s.step = Len(bars) /\ ~repeat
  <2> DEFINE d == [s EXCEPT !.section = None, !.done = TRUE, !.left = 0, !.target = b]
  <2>0. None \in MaybeInt /\ 0 \in MaybeNat /\ b \in MaybeNat
    BY DEF MaybeInt, MaybeNat
  <2>1. /\ d \in Sessions /\ d.step = s.step /\ d.left = 0 /\ d.lastBar = s.lastBar
        /\ d.target = b /\ d.boundary = s.boundary /\ d.done
    BY <1>0, <2>0 DEF Sessions
  <2>2. AdvanceStep(s, bars, repeat, b, x) = d
    BY <1>1 DEF AdvanceStep
  <2> HIDE DEF d
  <2>3. SeqOK(d, bars)
    BY <2>1 DEF SeqOK
  <2> QED BY <2>2, <2>3
<1>2. CASE ~(s.step = Len(bars) /\ ~repeat)
  <2> DEFINE next == IF s.step < Len(bars) THEN s.step + 1 ELSE 1
  <2>1. s.step \in DOMAIN bars
    BY DEF SeqOK
  <2>2. next \in DOMAIN bars
    BY <2>1
  <2>3. AdvanceStep(s, bars, repeat, b, x) = BeginStep(s, bars, next, b, x)
    BY <1>2 DEF AdvanceStep
  <2> HIDE DEF next
  <2> QED BY <2>2, <2>3, <1>0, BeginStepOK
<1> QED BY <1>1, <1>2

\* A frame too late for the boundary waits for another.
LEMMA OverdueOK ==
    ASSUME NEW s, NEW bars, SeqOK(s, bars), s.step # None, NEW line, LineOK(line),
           NEW tick \in Int, NEW offset \in Int
    PROVE  SeqOK(Overdue(s, line, tick, offset), bars)
<1> DEFINE t == NextFutureBar(line, line.bar + 1, tick, offset)
           b == line.bar
           l == t - b
<1>1. b \in Nat /\ b + 1 \in Nat
  BY DEF LineOK
<1>2. t \in Nat /\ t >= b + 1
  BY <1>1, FutureBarIsAhead
<1>3. Overdue(s, line, tick, offset) = Postponed(s, b, l, t)
  BY DEF Overdue, Postponed
<1> HIDE DEF t, b
<1>4. l \in Nat /\ b + l = t
  BY <1>1, <1>2
<1> HIDE DEF l
<1>5. SeqOK(Postponed(s, b, l, t), bars)
  BY <1>1, <1>2, <1>4, SeqPostpones
<1> QED BY <1>3, <1>5

\* Before the first step, a session awaits a bar or begins.
LEMMA AwaitStartOK ==
    ASSUME NEW s, NEW bars \in Seq(Nat), bars # None, bars # <<>>, SeqOK(s, bars),
           s.step = None, NEW line, LineOK(line), NEW tick \in Int, NEW offset \in Int
    PROVE  SeqOK(AwaitStart(s, bars, line, tick, offset), bars)
<1> DEFINE t == IF s.target = None \/ line.bar > s.target
                THEN ScheduleStart(s, line, tick, offset) ELSE s
           boundary == BoundaryAtBar(line, t.target)
           due == boundary + offset
<1>1. SeqOK(t, bars) /\ t.step = None /\ t.target \in Nat
  <2>1. CASE s.target = None \/ line.bar > s.target
    BY <2>1, ScheduleStartKeeps
  <2>2. CASE ~(s.target = None \/ line.bar > s.target)
    <3>1. t = s
      BY <2>2
    <3>2. s.target \in Nat
      BY <2>2 DEF SeqOK, Sessions, MaybeNat
    <3> QED BY <3>1, <3>2
  <2> QED BY <2>1, <2>2
<1>2. boundary \in Int
  <2> HIDE DEF t
  <2> QED BY <1>1, BoundaryIsTime
<1>3. AwaitStart(s, bars, line, tick, offset) =
        CASE OnTime(line, tick, due) -> BeginStep(t, bars, 1, t.target, boundary)
          [] tick > due + line.late -> ScheduleStart(t, line, tick, offset)
          [] tick < due -> t
  BY DEF AwaitStart
<1> HIDE DEF t, boundary
<1>4. SeqOK(BeginStep(t, bars, 1, t.target, boundary), bars)
  <2>1. 1 \in DOMAIN bars
    OBVIOUS
  <2>2. t \in Sessions
    BY <1>1 DEF SeqOK
  <2> QED BY <2>1, <2>2, <1>1, <1>2, BeginStepOK
<1>5. SeqOK(ScheduleStart(t, line, tick, offset), bars)
  BY <1>1, ScheduleStartKeeps
<1>6. due \in Int /\ line.late \in Nat
  BY <1>2 DEF LineOK
<1>7. OnTime(line, tick, due) \/ tick > due + line.late \/ tick < due
  <2> HIDE DEF due
  <2> QED BY <1>6 DEF OnTime
<1> HIDE DEF due
<1> QED BY <1>1, <1>3, <1>4, <1>5, <1>7
\* Arming a section change, or taking it back, leaves the count of bars.
LEMMA SectionOK ==
    ASSUME NEW s, NEW bars, SeqOK(s, bars), NEW x \in MaybeInt
    PROVE  LET d == [s EXCEPT !.section = x] IN SeqOK(d, bars) /\ d.step = s.step
<1> DEFINE d == [s EXCEPT !.section = x]
<1>0. s \in Sessions
  BY DEF SeqOK
<1>1. /\ d \in Sessions /\ d.step = s.step /\ d.left = s.left /\ d.lastBar = s.lastBar
      /\ d.target = s.target /\ d.boundary = s.boundary /\ (d.done <=> s.done)
      /\ (d.started <=> s.started)
  BY <1>0 DEF Sessions
<1> HIDE DEF d
<1>2. SeqOK(d, bars) /\ d.step = s.step
  BY <1>1, SeqCarries
<1> QED BY <1>2 DEF d

\* A frame in the middle of the sequence.
LEMMA PlayOK ==
    ASSUME NEW s, NEW bars \in Seq(Nat), bars # None, bars # <<>>, SeqOK(s, bars),
           s.step # None, ~s.done, NEW repeat, NEW line, LineOK(line),
           NEW tick \in Int, NEW offset \in Int, NEW sectionAt \in MaybeInt
    PROVE  SeqOK(Play(s, bars, repeat, line, tick, offset, sectionAt), bars)
<1> DEFINE c == CountBars(s, line, tick, offset)
           t == ArmSection(c, line, sectionAt)
           boundary == BoundaryAtBar(line, t.target)
           due == boundary + offset
           sectionDue == t.section # None /\ tick >= t.section + offset
           u == IF sectionDue THEN [t EXCEPT !.section = None] ELSE t
<1>0. None \in MaybeInt
  BY DEF MaybeInt
<1>1. SeqOK(c, bars) /\ c.step = s.step
  BY CountBarsKeeps
<1> HIDE DEF c
<1>2. SeqOK(t, bars) /\ t.step = s.step
  <2>1. CASE sectionAt # None /\ c.left = 0 /\ line.bar >= c.target
    <3>1. t = [c EXCEPT !.section = sectionAt]
      BY <2>1 DEF ArmSection
    <3> QED BY <3>1, <1>1, SectionOK
  <2>2. CASE ~(sectionAt # None /\ c.left = 0 /\ line.bar >= c.target)
    <3>1. t = c
      BY <2>2 DEF ArmSection
    <3> QED BY <3>1, <1>1
  <2> QED BY <2>1, <2>2
<1>3. Play(s, bars, repeat, line, tick, offset, sectionAt) =
        IF sectionDue /\ OnTime(line, tick, t.section + offset)
        THEN AdvanceStep(t, bars, repeat, line.bar, t.section)
        ELSE CASE OnTime(line, tick, due) -> AdvanceStep(u, bars, repeat, t.target, boundary)
               [] tick > due + line.late -> Overdue(u, line, tick, offset)
               [] tick < due -> u
  BY DEF Play, c
<1> HIDE DEF t
<1>4. t.target \in Nat /\ t \in Sessions
  BY <1>2 DEF SeqOK
<1>5. boundary \in Int
  BY <1>4, BoundaryIsTime
<1>6. SeqOK(u, bars) /\ u.step = s.step
  <2>1. SeqOK([t EXCEPT !.section = None], bars) /\ [t EXCEPT !.section = None].step = t.step
    BY <1>0, <1>2, SectionOK
  <2> QED BY <1>2, <2>1
<1> HIDE DEF boundary, u
<1>7. sectionDue => t.section \in Int
  BY <1>4 DEF Sessions, MaybeInt
<1>8. sectionDue => SeqOK(AdvanceStep(t, bars, repeat, line.bar, t.section), bars)
  <2>1. line.bar \in Nat /\ t.step # None
    BY <1>2 DEF LineOK
  <2> HIDE DEF sectionDue
  <2> QED BY <2>1, <1>2, <1>7, AdvanceStepOK
<1>9. SeqOK(AdvanceStep(u, bars, repeat, t.target, boundary), bars)
  <2>1. u.step # None
    BY <1>6
  <2> QED BY <2>1, <1>4, <1>5, <1>6, AdvanceStepOK
<1>10. SeqOK(Overdue(u, line, tick, offset), bars)
  BY <1>6, OverdueOK
<1>11. due \in Int /\ line.late \in Nat
  BY <1>5 DEF LineOK
<1>12. OnTime(line, tick, due) \/ tick > due + line.late \/ tick < due
  <2> HIDE DEF due
  <2> QED BY <1>11 DEF OnTime
<1> HIDE DEF due, sectionDue
<1>13. CASE sectionDue /\ OnTime(line, tick, t.section + offset)
  BY <1>3, <1>8, <1>13
<1>14. CASE ~(sectionDue /\ OnTime(line, tick, t.section + offset))
  <2>1. Play(s, bars, repeat, line, tick, offset, sectionAt) =
          CASE OnTime(line, tick, due) -> AdvanceStep(u, bars, repeat, t.target, boundary)
            [] tick > due + line.late -> Overdue(u, line, tick, offset)
            [] tick < due -> u
    BY <1>3, <1>14
  <2> QED BY <2>1, <1>6, <1>9, <1>10, <1>12
<1> QED BY <1>13, <1>14

\* A frame whose clock cannot be used.
LEMMA LoseClockOK ==
    ASSUME NEW s, NEW bars, SeqOK(s, bars), NEW read, NEW tick \in Int
    PROVE  SeqOK(LoseClock(s, read, tick), bars)
<1> DEFINE x == IF read.index = 0 THEN s.section ELSE None
           d == [s EXCEPT !.valid = FALSE, !.lastNow = tick, !.waiting = TRUE, !.section = x]
<1>0. s \in Sessions
  BY DEF SeqOK
<1>1. x \in MaybeInt /\ tick \in MaybeInt
  BY <1>0 DEF Sessions, MaybeInt
<1>2. LoseClock(s, read, tick) = d
  BY <1>0 DEF LoseClock, Sessions
<1> HIDE DEF x
<1>3. /\ d \in Sessions /\ d.step = s.step /\ d.left = s.left /\ d.lastBar = s.lastBar
      /\ d.target = s.target /\ d.boundary = s.boundary /\ (d.done <=> s.done)
      /\ (d.started <=> s.started)
  BY <1>0, <1>1 DEF Sessions
<1> HIDE DEF d
<1> QED BY <1>2, <1>3, SeqCarries

\* A frame of a sequence that is not over.
LEMMA FollowOK ==
    ASSUME NEW s, NEW bars \in Seq(Nat), bars # None, bars # <<>>, SeqOK(s, bars),
           ~s.done, NEW repeat, NEW at \in Int, NEW read, ReadOK(read, at),
           NEW offset \in Int, NEW sectionAt \in MaybeInt
    PROVE  SeqOK(Follow(s, bars, repeat, read, at, offset, sectionAt), bars)
<1> DEFINE anchor == IF s.anchor = None /\ read.index # 0 THEN read.index ELSE s.anchor
           t == [s EXCEPT !.anchor = anchor]
           line == Timeline(t.anchor, read)
           u == [t EXCEPT !.valid = TRUE, !.lastNow = at, !.waiting = FALSE]
<1>0. s \in Sessions
  BY DEF SeqOK
<1>1. anchor \in MaybeNat /\ (read.sure => anchor \in Nat)
  BY <1>0 DEF Sessions, MaybeNat, ReadOK
<1>2. at \in MaybeInt
  BY DEF MaybeInt
<1>3. Follow(s, bars, repeat, read, at, offset, sectionAt) =
        CASE ~read.sure -> LoseClock(t, read, at)
          [] read.sure /\ ~s.valid -> Reanchor(u, line, at, offset)
          [] read.sure /\ s.valid /\ s.step = None -> AwaitStart(u, bars, line, at, offset)
          [] read.sure /\ s.valid /\ s.step # None ->
                Play(u, bars, repeat, line, at, offset, sectionAt)
  BY <1>0 DEF Follow, Sessions
<1> HIDE DEF anchor
<1>4. /\ t \in Sessions /\ t.step = s.step /\ t.left = s.left /\ t.lastBar = s.lastBar
      /\ t.target = s.target /\ t.boundary = s.boundary /\ (t.done <=> s.done)
      /\ (t.started <=> s.started) /\ t.anchor = anchor
  BY <1>0, <1>1 DEF Sessions
<1> HIDE DEF t
<1>5. /\ u \in Sessions /\ u.step = t.step /\ u.left = t.left /\ u.lastBar = t.lastBar
      /\ u.target = t.target /\ u.boundary = t.boundary /\ (u.done <=> t.done)
      /\ (u.started <=> t.started)
  BY <1>2, <1>4 DEF Sessions
<1> HIDE DEF u
<1>6. SeqOK(t, bars)
  BY <1>4, SeqCarries
<1>7. SeqOK(u, bars) /\ u.step = s.step /\ ~u.done
  BY <1>4, <1>5, <1>6, SeqCarries
<1>8. read.sure => LineOK(line)
  BY <1>1, <1>4, TimelineReads
<1> HIDE DEF line
<1>9. SeqOK(LoseClock(t, read, at), bars)
  BY <1>6, LoseClockOK
<1>10. LineOK(line) => SeqOK(Reanchor(u, line, at, offset), bars)
  BY <1>7, ReanchorKeeps
<1>11. LineOK(line) /\ s.step = None => SeqOK(AwaitStart(u, bars, line, at, offset), bars)
  BY <1>7, AwaitStartOK
<1>12. LineOK(line) /\ s.step # None
         => SeqOK(Play(u, bars, repeat, line, at, offset, sectionAt), bars)
  BY <1>7, PlayOK
<1>13. read.sure \in BOOLEAN /\ s.valid \in BOOLEAN
  BY <1>0 DEF ReadOK, Sessions
<1> QED BY <1>3, <1>8, <1>9, <1>10, <1>11, <1>12, <1>13

\* The coordinator starts without a step.
LEMMA SeqStarts == \A bars : SeqOK(NoSession, bars)
  BY DEF SeqOK, NoSession, Sessions, MaybeInt, MaybeNat

\* update keeps the session.
LEMMA SeqUpdates ==
    ASSUME NEW s, NEW bars, BarsOK(bars), SeqOK(s, bars), NEW repeat, NEW at \in Int,
           NEW read, ReadOK(read, at), NEW offset \in Int, NEW music,
           NEW sectionAt \in MaybeInt
    PROVE  SeqOK(UpdateSequence(s, bars, repeat, read, at, offset, music, sectionAt), bars)
<1>0. s \in Sessions
  BY DEF SeqOK
<1>1. CASE bars = None \/ ~music
  <2> DEFINE d == ResetSession(s)
  <2>1. d \in Sessions /\ d.step = None /\ ~d.started
    BY <1>0 DEF ResetSession, NoSession, Sessions, MaybeInt, MaybeNat
  <2>2. UpdateSequence(s, bars, repeat, read, at, offset, music, sectionAt) = d
    BY <1>1 DEF UpdateSequence
  <2> HIDE DEF d
  <2> QED BY <2>1, <2>2 DEF SeqOK
<1>2. CASE ~(bars = None \/ ~music)
  <2> DEFINE on == [s EXCEPT !.on = TRUE, !.started = FALSE]
             rests == [on EXCEPT !.waiting = FALSE]
  <2>1. /\ on \in Sessions /\ on.step = s.step /\ on.left = s.left /\ on.lastBar = s.lastBar
        /\ on.target = s.target /\ on.boundary = s.boundary /\ (on.done <=> s.done)
        /\ ~on.started
    BY <1>0 DEF Sessions
  <2>2. UpdateSequence(s, bars, repeat, read, at, offset, music, sectionAt) =
          IF s.done THEN rests ELSE Follow(on, bars, repeat, read, at, offset, sectionAt)
    BY <1>2 DEF UpdateSequence
  <2> HIDE DEF on
  <2>3. /\ rests \in Sessions /\ rests.step = on.step /\ rests.left = on.left
        /\ rests.lastBar = on.lastBar /\ rests.target = on.target
        /\ rests.boundary = on.boundary /\ (rests.done <=> on.done) /\ ~rests.started
    BY <2>1 DEF Sessions
  <2> HIDE DEF rests
  <2>4. SeqOK(on, bars)
    BY <2>1, SeqCarries
  <2>5. SeqOK(rests, bars)
    BY <2>3, <2>4, SeqCarries
  <2>6. ~s.done => SeqOK(Follow(on, bars, repeat, read, at, offset, sectionAt), bars)
    BY <1>2, <2>1, <2>4, FollowOK DEF BarsOK
  <2>7. s.done \in BOOLEAN
    BY <1>0 DEF Sessions
  <2>8. CASE s.done
    BY <2>2, <2>5, <2>8
  <2>9. CASE ~s.done
    BY <2>2, <2>6, <2>9
  <2> QED BY <2>8, <2>9
<1> QED BY <1>1, <1>2

(* -- the quantized switch -------------------------------------------------- *)

Grids == {"beat", "bar", "phrase"}

\* A cell of a grid is one beat at least.
LEMMA StrideIsNat ==
    ASSUME NEW q \in Grids
    PROVE  Stride(q) \in Nat \ {0}
<1>1. BarsPerPhrase \in Nat \ {0}
  BY QuantizedAssumption
<1>2. BeatsPerBar * BarsPerPhrase \in Nat \ {0}
  BY <1>1, ClockRanges
<1>3. CASE q = "beat"
  BY <1>3 DEF Stride
<1>4. CASE q = "bar"
  BY <1>4, ClockRanges DEF Stride
<1>5. CASE q = "phrase"
  BY <1>5, <1>2 DEF Stride
<1> QED BY <1>3, <1>4, <1>5 DEF Grids

\* The cells passed over by a boundary that is late are as many as it is late by.
LEMMA SkippedCells ==
    ASSUME NEW late \in Nat, NEW cell \in Nat \ {0}
    PROVE  LET skipped == (late + cell - 1) \div cell
           IN  /\ skipped \in Nat
               /\ skipped * cell >= late /\ skipped * cell <= late + cell - 1
<1> DEFINE a == late + cell - 1
           skipped == a \div cell
<1>1. a \in Nat
  OBVIOUS
<1>2. skipped \in Nat /\ a % cell \in 0 .. (cell - 1) /\ a = (cell * skipped) + (a % cell)
  <2> HIDE DEF a
  <2> QED BY <1>1, DivisionOfNat
<1> HIDE DEF skipped
<1>3. skipped * cell = cell * skipped /\ skipped * cell \in Nat
  BY <1>2
<1>4. skipped \in Nat /\ skipped * cell >= late /\ skipped * cell <= late + cell - 1
  <2> DEFINE r == a % cell
             m == skipped * cell
  <2>1. r \in 0 .. (cell - 1) /\ m \in Nat /\ a = m + r
    BY <1>2, <1>3
  <2> HIDE DEF r, m
  <2>2. m >= late /\ m <= late + cell - 1
    BY <2>1
  <2> QED BY <2>2, <1>2 DEF m
<1> QED BY <1>4 DEF skipped

\* When a clock has a cell start, and the cell it reads.
Start(c, q, cell) == c.last + ((cell - 1) * Stride(q) + 1 - c.index) * c.period
CellOf(c, q, at) == (Reading(c, at, FALSE).index - 1) \div Stride(q) + 1

\* Cells follow one another.
LEMMA StartsFollow ==
    ASSUME NEW q \in Grids, NEW c, c.last \in Int, c.index \in Nat, c.period \in Nat \ {0},
           NEW a \in Int, NEW k \in Int
    PROVE  /\ Start(c, q, a) \in Int
           /\ Start(c, q, a + k) = Start(c, q, a) + k * (Stride(q) * c.period)
<1> DEFINE n == Stride(q)
           p == c.period
           i == c.index
           x == (a - 1) * n + 1 - i
<1>1. n \in Nat \ {0} /\ p \in Nat \ {0} /\ i \in Nat
  BY StrideIsNat
<1>2. /\ Start(c, q, a) = c.last + x * p
      /\ Start(c, q, a + k) = c.last + ((a + k - 1) * n + 1 - i) * p
  BY DEF Start
<1> HIDE DEF n, p, i
<1>3. x \in Int /\ (a + k - 1) * n + 1 - i = x + k * n
  BY <1>1
<1> HIDE DEF x
<1>4. (x + k * n) * p = x * p + k * (n * p) /\ x * p \in Int /\ k * (n * p) \in Int
  BY <1>1, <1>3
<1> DEFINE y == x * p
           z == k * (n * p)
<1>5. /\ y \in Int /\ z \in Int
      /\ Start(c, q, a) = c.last + y /\ Start(c, q, a + k) = c.last + (y + z)
  BY <1>2, <1>3, <1>4
<1> HIDE DEF y, z
<1>6. Start(c, q, a) \in Int /\ Start(c, q, a + k) = Start(c, q, a) + z
  BY <1>5
<1> QED BY <1>6 DEF z, n, p

\* position_data: the next cell starts where the clock has it, and that is ahead.
LEMMA PositionReads ==
    ASSUME NEW q \in Grids, NEW read, NEW at \in Nat, ReadOK(read, at), read.sure,
           NEW c, ReadsClock(read, c, at)
    PROVE  LET p == Position(q, read)
           IN  /\ p.cell \in Nat \ {0} /\ p.cell = CellOf(c, q, at) /\ p.index = read.index
               /\ p.length = Stride(q) * c.period /\ p.length \in Nat \ {0}
               /\ p.length >= Stride(q) * MinPeriod
               /\ p.next \in Int /\ p.next > at /\ p.next = Start(c, q, p.cell + 1)
               /\ p.late = LatenessOf(c.period) /\ p.late \in Nat
<1> DEFINE n == Stride(q)
           i == read.index
           d == (i - 1) \div n
           r == (i - 1) % n
           p == Position(q, read)
           period == c.period
<1>1. n \in Nat \ {0} /\ i \in Nat \ {0}
  BY StrideIsNat DEF ReadOK
<1>2. /\ read.next \in Int /\ read.next > at
      /\ c.last \in Int /\ c.index \in Nat /\ period \in Nat \ {0} /\ period \in Periods
      /\ read.next = c.last + (i + 1 - c.index) * period
      /\ read.period = period /\ i = Reading(c, at, FALSE).index
  BY DEF ReadOK, ReadsClock
<1>3. d \in Nat /\ r \in 0 .. (n - 1) /\ i - 1 = (n * d) + r
  <2> DEFINE a == i - 1
  <2>1. a \in Nat
    BY <1>1
  <2> HIDE DEF n, i, a
  <2>2. a \div n \in Nat /\ a % n \in 0 .. (n - 1) /\ a = (n * (a \div n)) + (a % n)
    BY <2>1, <1>1, DivisionOfNat
  <2> QED BY <2>2 DEF a
<1>4. /\ p.cell = d + 1 /\ p.index = i /\ p.next = read.next + (n - r - 1) * period
      /\ p.length = n * period /\ p.late = LatenessOf(period)
  BY <1>2 DEF Position
<1>5. p.cell = CellOf(c, q, at)
  BY <1>2, <1>4 DEF CellOf
<1>6. Start(c, q, p.cell + 1) = c.last + ((d + 1) * n + 1 - c.index) * period
  <2> DEFINE a == d + 2
  <2>1. Start(c, q, a) = c.last + ((a - 1) * n + 1 - c.index) * period
    BY DEF Start
  <2>2. a - 1 = d + 1 /\ p.cell + 1 = a
    <3>1. d \in Nat /\ p.cell = d + 1
      BY <1>3, <1>4
    <3> DEFINE x == p.cell
    <3>2. d \in Nat /\ x = d + 1
      BY <3>1
    <3> HIDE DEF d, x
    <3>3. a - 1 = d + 1 /\ x + 1 = a
      BY <3>2
    <3> QED BY <3>3 DEF x
  <2> HIDE DEF a, n, d, period, p
  <2> QED BY <2>1, <2>2
<1>7. n * period \in Nat \ {0} /\ n * period >= n * MinPeriod
  <2>1. MinPeriod \in Nat /\ period \in Nat /\ period >= MinPeriod
    BY <1>2, ClockRanges
  <2> HIDE DEF n, period
  <2> QED BY <2>1, <1>1, <1>2
<1>8. p.late \in Nat
  BY <1>2, <1>4, LatenessIsNat
<1>9. p.next \in Int /\ p.next > at /\ p.next = Start(c, q, p.cell + 1)
  <2> DEFINE j == c.index
             x == (i + 1 - j) * period
             y == (n - r - 1) * period
             z == ((d + 1) * n + 1 - j) * period
  <2> HIDE DEF n, i, d, r, p, period, j
  <2>1. j \in Nat
    BY <1>2 DEF j
  <2>2. n - r - 1 \in Nat
    BY <1>1, <1>3
  <2>3. x \in Int /\ y \in Nat
    <3> DEFINE u == i + 1 - j
               v == n - r - 1
    <3>0. i \in Nat /\ period \in Nat
      BY <1>1, <1>2
    <3>1. u \in Int /\ v \in Nat /\ period \in Nat
      BY <2>1, <2>2, <3>0
    <3> HIDE DEF u, v
    <3>2. u * period \in Int /\ v * period \in Nat
      BY <3>1
    <3> QED BY <3>2 DEF u, v
  <2>4. (d + 1) * n + 1 - j = (i + 1 - j) + (n - r - 1)
    <3>1. (d + 1) * n = (n * d) + n /\ n * d \in Int
      BY <1>1, <1>3
    <3> DEFINE m == n * d
               k == (d + 1) * n
    <3>2. m \in Int /\ k = m + n /\ i - 1 = m + r
      BY <3>1, <1>3
    <3> HIDE DEF m, k
    <3>3. k + 1 - j = (i + 1 - j) + (n - r - 1)
      BY <3>2, <1>1, <1>3, <2>1
    <3> QED BY <3>3 DEF k
  <2>5. z = x + y
    <3> DEFINE u == i + 1 - j
               v == n - r - 1
    <3>1. u \in Int /\ v \in Nat
      BY <1>1, <2>1, <2>2
    <3> HIDE DEF u, v
    <3>2. (u + v) * period = u * period + v * period
      BY <3>1, <1>2
    <3> QED BY <3>2, <2>4 DEF u, v
  <2>6. /\ p.next = read.next + y /\ read.next = c.last + x
        /\ Start(c, q, p.cell + 1) = c.last + z
    BY <1>2, <1>4, <1>6 DEF j
  <2> HIDE DEF x, y, z
  <2> QED BY <2>3, <2>5, <2>6, <1>2
<1> QED BY <1>1, <1>3, <1>4, <1>5, <1>7, <1>8, <1>9

Pendings ==
    [choice : Animations, target : Nat, cell : Nat, index : Nat, now : Nat, boundary : Int]

\* A pending switch waits for the next cell, or for the first that its offset leaves ahead.
Near(p, q, offset) == (p.target - p.cell - 2) * Stride(q) * MinPeriod < Monus(0, offset)

\* Its boundary is where the clock has its cell start, until the cell is over.
Tracks(p, q, offset, c) ==
    /\ p \in Pendings /\ Near(p, q, offset)
    /\ p.cell <= p.target => p.boundary = Start(c, q, p.target)

\* And the boundary is ahead.
PendingOK(p, q, offset, c, at) ==
    q \in Grids /\ Tracks(p, q, offset, c) /\ p.boundary + offset > at

\* Nearer cells are near.
LEMMA NearerIsNear ==
    ASSUME NEW q \in Grids, NEW offset \in Int, NEW k \in Int, NEW m \in Int, m <= k,
           k * Stride(q) * MinPeriod < Monus(0, offset)
    PROVE  m * Stride(q) * MinPeriod < Monus(0, offset)
<1> DEFINE n == Stride(q)
<1>1. n \in Nat /\ MinPeriod \in Nat /\ Monus(0, offset) \in Int
  BY StrideIsNat, ClockRanges DEF Monus, Larger
<1> HIDE DEF n
<1>2. m * n <= k * n /\ m * n \in Int /\ k * n \in Int
  BY <1>1
<1> DEFINE x == m * n
           y == k * n
<1>3. x <= y /\ x \in Int /\ y \in Int
  BY <1>2
<1> HIDE DEF x, y
<1>4. x * MinPeriod <= y * MinPeriod /\ x * MinPeriod \in Int /\ y * MinPeriod \in Int
  BY <1>1, <1>3
<1>5. y * MinPeriod < Monus(0, offset)
  BY DEF y, n
<1> DEFINE u == x * MinPeriod
           v == y * MinPeriod
           w == Monus(0, offset)
<1>6. u <= v /\ v < w /\ u \in Int /\ v \in Int /\ w \in Int
  BY <1>1, <1>4, <1>5
<1> HIDE DEF u, v, w
<1>7. u < w
  BY <1>6
<1> QED BY <1>7 DEF u, w, x, n

\* schedule_next finds such a boundary.
LEMMA ScheduleNextOK ==
    ASSUME NEW choice \in Animations, NEW q \in Grids, NEW read, NEW at \in Nat,
           ReadOK(read, at), read.sure, NEW c, ReadsClock(read, c, at), NEW offset \in Int
    PROVE  LET p == ScheduleNext(choice, Position(q, read), at, offset)
           IN  PendingOK(p, q, offset, c, at) /\ p.cell <= p.target
<1> DEFINE pos == Position(q, read)
           L == pos.length
           S == Stride(q) * MinPeriod
           late == Monus(at + 1, pos.next + offset)
           skipped == (late + L - 1) \div L
           p == ScheduleNext(choice, pos, at, offset)
           k == pos.cell + 1 + skipped
           X == skipped * L
<1>1. /\ pos.cell \in Nat \ {0} /\ pos.index = read.index /\ L \in Nat \ {0} /\ L >= S
      /\ L = Stride(q) * c.period
      /\ pos.next \in Int /\ pos.next > at /\ pos.next = Start(c, q, pos.cell + 1)
  BY PositionReads
<1>2. read.index \in Nat /\ c.last \in Int /\ c.index \in Nat /\ c.period \in Nat \ {0}
  BY DEF ReadOK, ReadsClock
<1>3. S \in Nat \ {0} /\ Stride(q) \in Nat \ {0} /\ MinPeriod \in Nat \ {0}
  <2> DEFINE n == Stride(q)
  <2>1. n \in Nat \ {0} /\ MinPeriod \in Nat \ {0}
    BY StrideIsNat, ClockRanges
  <2> HIDE DEF n
  <2>2. n * MinPeriod \in Nat \ {0}
    BY <2>1
  <2> QED BY <2>1, <2>2 DEF n
<1>4. p = [choice |-> choice, target |-> k, cell |-> pos.cell,
           index |-> pos.index, now |-> at, boundary |-> pos.next + X]
  BY DEF ScheduleNext
<1> HIDE DEF pos, L, p
<1>5. late \in Nat /\ (late = 0 \/ late = at + 1 - pos.next - offset)
        /\ late >= at + 1 - pos.next - offset
  BY <1>1 DEF Monus, Larger
<1> HIDE DEF late
<1>6. skipped \in Nat /\ X >= late /\ X <= late + L - 1
  BY <1>1, <1>5, SkippedCells
<1> HIDE DEF skipped
<1>7. X \in Nat /\ k \in Nat /\ k >= pos.cell
  BY <1>1, <1>6
<1>8. /\ p \in Pendings /\ p.target = k /\ p.cell = pos.cell /\ p.boundary = pos.next + X
  <2> HIDE DEF X, k
  <2>1. pos.next + X \in Int
    BY <1>1, <1>7
  <2> QED BY <2>1, <1>1, <1>2, <1>4, <1>7 DEF Pendings
<1>9. p.boundary + offset > at
  <2> HIDE DEF X, k
  <2> QED BY <1>1, <1>5, <1>6, <1>7, <1>8
<1>10. p.boundary = Start(c, q, p.target)
  <2> DEFINE first == pos.cell + 1
  <2>1. first \in Int
    BY <1>1
  <2> HIDE DEF first
  <2>2. Start(c, q, first + skipped) = Start(c, q, first) + skipped * (Stride(q) * c.period)
    <3>1. skipped \in Int
      BY <1>6
    <3> QED BY <2>1, <3>1, <1>2, StartsFollow
  <2>3. k = first + skipped
    BY DEF first
  <2> QED BY <2>2, <2>3, <1>1, <1>8 DEF first
<1>11. Near(p, q, offset)
  <2> DEFINE m == skipped - 1
             w == Monus(0, offset)
  <2>1. w \in Nat /\ w >= -offset
    BY DEF Monus, Larger
  <2>2. p.target - p.cell - 2 = m
    BY <1>1, <1>6, <1>8
  <2>3. m * S < w
    <3>1. CASE skipped = 0
      <4>1. m * S = -S
        BY <3>1, <1>3
      <4> HIDE DEF m, S, w
      <4> QED BY <4>1, <2>1, <1>3
    <3>2. CASE skipped >= 1
      <4>1. m \in Nat
        BY <3>2, <1>6
      <4>2. m * L = X - L
        BY <1>1, <1>6
      <4>3. m * S <= m * L /\ m * S \in Int /\ m * L \in Int
        <5> HIDE DEF m, S
        <5> QED BY <4>1, <1>1, <1>3
      <4> DEFINE y == m * S
                 z == m * L
      <4>4. y <= z /\ y \in Int /\ z \in Int /\ z = X - L
        BY <4>2, <4>3
      <4>0. z >= 0
        <5> HIDE DEF m
        <5> QED BY <4>1, <1>1
      <4> HIDE DEF m, S, w, X, y, z
      <4>5. late # 0
        BY <4>0, <4>4, <1>1, <1>5, <1>6, <1>7
      <4>6. y < w
        BY <4>4, <4>5, <2>1, <1>1, <1>5, <1>6, <1>7
      <4> QED BY <4>6 DEF y
    <3> QED BY <3>1, <3>2, <1>6
  <2>4. m * S = m * Stride(q) * MinPeriod
    <3> DEFINE n == Stride(q)
    <3>1. m \in Int /\ n \in Int /\ MinPeriod \in Int
      BY <1>3, <1>6
    <3> HIDE DEF m, n
    <3>2. m * (n * MinPeriod) = m * n * MinPeriod
      BY <3>1
    <3> QED BY <3>2 DEF n
  <2> HIDE DEF m
  <2> QED BY <2>2, <2>3, <2>4 DEF Near
<1>12. PendingOK(p, q, offset, c, at) /\ p.cell <= p.target
  BY <1>7, <1>8, <1>9, <1>10, <1>11 DEF PendingOK, Tracks
<1> QED BY <1>12 DEF p, pos

\* A clock that is counted on takes a pending switch with it.
LEMMA TrackedOK ==
    ASSUME NEW q \in Grids, NEW read, NEW at \in Nat, ReadOK(read, at), read.sure,
           NEW c, ReadsClock(read, c, at), NEW offset \in Int,
           NEW p \in Pendings, Near(p, q, offset), ~ClockJumped(p, Position(q, read), at)
    PROVE  LET d == Tracked(p, Position(q, read), at)
           IN  /\ Tracks(d, q, offset, c) /\ d.choice = p.choice
               /\ d.boundary = IF CellOf(c, q, at) <= p.target THEN Start(c, q, p.target)
                               ELSE p.boundary
<1> DEFINE pos == Position(q, read)
           boundary == IF pos.cell > p.target THEN p.boundary
                       ELSE pos.next + (p.target - pos.cell - 1) * pos.length
           d == Tracked(p, pos, at)
<1>1. /\ pos.cell \in Nat /\ pos.cell = CellOf(c, q, at) /\ pos.index = read.index
      /\ pos.length = Stride(q) * c.period
      /\ pos.next \in Int /\ pos.next = Start(c, q, pos.cell + 1)
  BY PositionReads
<1>2. read.index \in Nat /\ c.last \in Int /\ c.index \in Nat /\ c.period \in Nat \ {0}
  BY DEF ReadOK, ReadsClock
<1>3. /\ p.choice \in Animations /\ p.target \in Nat /\ p.cell \in Nat /\ p.boundary \in Int
      /\ p.cell <= pos.cell
  <2>1. p.choice \in Animations /\ p.target \in Nat /\ p.cell \in Nat /\ p.boundary \in Int
    BY DEF Pendings
  <2>2. ~(pos.cell < p.cell)
    BY DEF ClockJumped
  <2> HIDE DEF pos
  <2> QED BY <2>1, <2>2, <1>1
<1>4. d = [p EXCEPT !.cell = pos.cell, !.index = pos.index, !.now = at,
                    !.boundary = boundary]
  BY DEF Tracked, Pendings
<1> HIDE DEF pos, d
<1>5. pos.cell <= p.target => boundary = Start(c, q, p.target)
  <2> DEFINE first == pos.cell + 1
             k == p.target - pos.cell - 1
  <2>1. first \in Int /\ k \in Int /\ first + k = p.target
    BY <1>1, <1>3
  <2> HIDE DEF first, k
  <2>2. Start(c, q, first + k) = Start(c, q, first) + k * (Stride(q) * c.period)
    BY <2>1, <1>2, StartsFollow
  <2>3. pos.cell <= p.target => boundary = pos.next + k * pos.length
    BY <1>1, <1>3 DEF k
  <2> HIDE DEF boundary
  <2> QED BY <2>1, <2>2, <2>3, <1>1 DEF first
<1>6. ~(pos.cell <= p.target) => boundary = p.boundary
  BY <1>1, <1>3
<1> HIDE DEF boundary
<1>7. boundary \in Int
  <2>1. p.target \in Int /\ 0 \in Int
    BY <1>3
  <2>2. Start(c, q, p.target) \in Int
    BY <2>1, <1>2, StartsFollow
  <2> QED BY <2>2, <1>3, <1>5, <1>6
<1>8. /\ d \in Pendings /\ d.choice = p.choice /\ d.target = p.target /\ d.cell = pos.cell
      /\ d.boundary = boundary
  BY <1>1, <1>2, <1>4, <1>7 DEF Pendings
<1>9. Near(d, q, offset)
  <2> DEFINE k == p.target - p.cell - 2
             m == p.target - pos.cell - 2
  <2>1. k \in Int /\ m \in Int /\ m <= k
    BY <1>1, <1>3
  <2>2. k * Stride(q) * MinPeriod < Monus(0, offset)
    BY DEF Near
  <2> HIDE DEF k, m
  <2>3. m * Stride(q) * MinPeriod < Monus(0, offset)
    BY <2>1, <2>2, NearerIsNear
  <2> QED BY <2>3, <1>8 DEF m, Near
<1>10. /\ Tracks(d, q, offset, c) /\ d.choice = p.choice
       /\ d.boundary = IF CellOf(c, q, at) <= p.target THEN Start(c, q, p.target)
                       ELSE p.boundary
  BY <1>1, <1>5, <1>6, <1>8, <1>9 DEF Tracks
<1> QED BY <1>10 DEF d, pos

\* A switch that is due is taken, no later than its lateness allows, or put off to a
\* boundary ahead.
LEMMA SettleOK ==
    ASSUME NEW q \in Grids, NEW read, NEW at \in Nat, ReadOK(read, at), read.sure,
           NEW c, ReadsClock(read, c, at), NEW offset \in Int, NEW p,
           Tracks(p, q, offset, c), NEW inTransition
    PROVE  LET r == Settle(p, Position(q, read), at, offset, inTransition)
           IN  /\ r.pending # None => PendingOK(r.pending, q, offset, c, at)
               /\ r.due \in Animations \cup {None}
               /\ r.due # None =>
                    at - Larger(p.boundary + offset, 0) \in 0 .. LatenessOf(c.period)
<1> DEFINE pos == Position(q, read)
           due == Larger(p.boundary + offset, 0)
           again == ScheduleNext(p.choice, pos, at, offset)
           r == Settle(p, pos, at, offset, inTransition)
<1>1. p.choice \in Animations /\ p.boundary \in Int
  BY DEF Tracks, Pendings
<1>2. PendingOK(again, q, offset, c, at)
  BY <1>1, ScheduleNextOK
<1>3. due \in Int /\ (at < due => p.boundary + offset > at)
  BY <1>1 DEF Larger
<1>4. at < due => PendingOK(p, q, offset, c, at)
  <2> HIDE DEF due
  <2> QED BY <1>3 DEF PendingOK
<1>5. r = IF at < due THEN [pending |-> p, due |-> None]
          ELSE IF at - due > pos.late \/ inTransition
          THEN [pending |-> again, due |-> None]
          ELSE [pending |-> None, due |-> p.choice]
  BY DEF Settle
<1>6. pos.late = LatenessOf(c.period) /\ pos.late \in Nat
  BY PositionReads
<1> HIDE DEF due, again, pos, r
<1>7. CASE at < due
  <2>1. r = [pending |-> p, due |-> None]
    BY <1>5, <1>7
  <2>2. r.pending = p /\ r.due = None
    BY <2>1
  <2> QED BY <2>2, <1>4, <1>7 DEF r, pos
<1>8. CASE ~(at < due) /\ (at - due > pos.late \/ inTransition)
  <2>1. r = [pending |-> again, due |-> None]
    BY <1>5, <1>8
  <2>2. r.pending = again /\ r.due = None
    BY <2>1
  <2> QED BY <2>2, <1>2 DEF r, pos
<1>9. CASE ~(at < due) /\ ~(at - due > pos.late \/ inTransition)
  <2>1. r = [pending |-> None, due |-> p.choice]
    BY <1>5, <1>9
  <2>2. r.pending = None /\ r.due = p.choice
    BY <2>1
  <2>3. at - due \in 0 .. LatenessOf(c.period)
    BY <1>3, <1>6, <1>9
  <2> QED BY <2>2, <2>3, <1>1 DEF r, pos, due
<1> QED BY <1>7, <1>8, <1>9

\* What is wanted: the pending switch, for another animation perhaps, or a new one.
LEMMA WantedOK ==
    ASSUME NEW q \in Grids, NEW read, NEW at \in Nat, ReadOK(read, at), read.sure,
           NEW c, ReadsClock(read, c, at), NEW offset \in Int, NEW pending,
           pending # None => pending \in Pendings /\ Near(pending, q, offset),
           NEW intent \in Animations \cup {None, "keep"},
           Wanted(pending, intent, Position(q, read), at, offset) # None
    PROVE  LET w == Wanted(pending, intent, Position(q, read), at, offset)
           IN  /\ w \in Pendings /\ Near(w, q, offset)
               /\ pending # None => w.target = pending.target /\ w.boundary = pending.boundary
               /\ pending = None => PendingOK(w, q, offset, c, at) /\ w.cell <= w.target
                                    /\ w.cell = CellOf(c, q, at)
<1> DEFINE pos == Position(q, read)
           new == ScheduleNext(intent, pos, at, offset)
           other == [pending EXCEPT !.choice = intent]
           w == Wanted(pending, intent, pos, at, offset)
<1>1. CASE intent = "keep"
  <2>1. w = pending
    BY <1>1 DEF Wanted
  <2> HIDE DEF w, pos
  <2> QED BY <2>1 DEF w, pos
<1>2. CASE intent = None /\ intent # "keep"
  BY <1>2 DEF Wanted
<1>3. CASE intent \notin {"keep", None}
  <2>1. w = IF pending = None THEN new ELSE other
    BY <1>3 DEF Wanted
  <2>2. intent \in Animations
    BY <1>3
  <2>3. CASE pending = None
    <3>1. PendingOK(new, q, offset, c, at) /\ new.cell <= new.target
      BY <2>2, ScheduleNextOK
    <3>2. new.cell = CellOf(c, q, at)
      BY PositionReads DEF ScheduleNext
    <3> HIDE DEF new
    <3>3. new \in Pendings /\ Near(new, q, offset)
      BY <3>1 DEF PendingOK, Tracks
    <3>4. w = new
      BY <2>1, <2>3
    <3> HIDE DEF w, pos
    <3> QED BY <2>3, <3>1, <3>2, <3>3, <3>4 DEF w, pos
  <2>4. CASE pending # None
    <3>1. /\ other \in Pendings /\ other.boundary = pending.boundary
          /\ other.target = pending.target /\ other.cell = pending.cell
      BY <2>2, <2>4 DEF Pendings
    <3>2. w = other
      BY <2>1, <2>4
    <3> HIDE DEF other, w, pos
    <3>3. Near(other, q, offset)
      BY <2>4, <3>1 DEF Near
    <3> QED BY <2>4, <3>1, <3>2, <3>3 DEF w, pos
  <2> QED BY <2>3, <2>4
<1> QED BY <1>1, <1>2, <1>3

\* A switch happens where its cell starts by the clock, or started when it was over.
Happens(p, c, q, offset, at) ==
    LET boundary == IF CellOf(c, q, at) <= p.target THEN Start(c, q, p.target) ELSE p.boundary
    IN  at - Larger(boundary + offset, 0) \in 0 .. LatenessOf(c.period)

\* update: a switch that remains waits for a boundary that comes, and one that happens was
\* pending before.
LEMMA UpdateSwitchOK ==
    ASSUME NEW pending, NEW q \in Quantizations, NEW read, NEW at \in Nat, ReadOK(read, at),
           NEW c, ReadsClock(read, c, at), NEW offset \in Int,
           pending # None => pending \in Pendings /\ Near(pending, q, offset),
           NEW intent \in Animations \cup {None, "keep"}, NEW inTransition
    PROVE  LET r == UpdateSwitch(pending, intent, q, read, at, offset, inTransition)
           IN  /\ r.pending # None => PendingOK(r.pending, q, offset, c, at)
               /\ r.due \in Animations \cup {None}
               /\ r.due # None /\ q # "off" =>
                    pending # None /\ Happens(pending, c, q, offset, at)
<1> DEFINE pos == Position(q, read)
           wanted == Wanted(pending, intent, pos, at, offset)
           next == ScheduleNext(wanted.choice, pos, at, offset)
           current == IF ClockJumped(wanted, pos, at) THEN next ELSE Tracked(wanted, pos, at)
           r == UpdateSwitch(pending, intent, q, read, at, offset, inTransition)
<1>1. CASE q = "off"
  <2>1. r = [pending |-> None, due |-> IF intent = "keep" THEN None ELSE intent]
    BY <1>1 DEF UpdateSwitch
  <2> HIDE DEF r
  <2>2. r.pending = None /\ r.due \in Animations \cup {None}
    BY <2>1
  <2> QED BY <2>2, <1>1 DEF r
<1>2. CASE q # "off" /\ (read.index = 0 \/ ~read.sure \/ wanted = None)
  <2>1. r = [pending |-> None, due |-> None]
    BY <1>2 DEF UpdateSwitch
  <2> HIDE DEF r
  <2>2. r.pending = None /\ r.due = None
    BY <2>1
  <2> QED BY <2>2 DEF r
<1>3. CASE q # "off" /\ ~(read.index = 0 \/ ~read.sure \/ wanted = None)
  <2>0. q \in Grids /\ read.sure /\ wanted # None
    BY <1>3 DEF Quantizations, Grids
  <2>1. r = Settle(current, pos, at, offset, inTransition)
    BY <1>3 DEF UpdateSwitch
  <2>2. /\ wanted \in Pendings /\ Near(wanted, q, offset)
        /\ pending # None => wanted.target = pending.target
                             /\ wanted.boundary = pending.boundary
        /\ pending = None => PendingOK(wanted, q, offset, c, at)
                             /\ wanted.cell <= wanted.target
                             /\ wanted.cell = CellOf(c, q, at)
    BY <2>0, WantedOK
  <2> HIDE DEF wanted
  <2>3. wanted.choice \in Animations /\ wanted.boundary \in Int /\ wanted.target \in Nat
    BY <2>2 DEF Pendings
  <2>4. CASE ClockJumped(wanted, pos, at)
    <3>1. current = next
      BY <2>4
    <3>2. PendingOK(next, q, offset, c, at)
      BY <2>0, <2>3, ScheduleNextOK
    <3> HIDE DEF current, pos, next
    <3>3. Tracks(current, q, offset, c) /\ current.boundary + offset > at
      BY <3>1, <3>2 DEF PendingOK
    <3>4. current.boundary \in Int
      BY <3>3 DEF Tracks, Pendings
    <3>5. LET s == Settle(current, Position(q, read), at, offset, inTransition)
          IN  /\ s.pending # None => PendingOK(s.pending, q, offset, c, at)
              /\ s.due \in Animations \cup {None}
              /\ s.due # None =>
                   at - Larger(current.boundary + offset, 0) \in 0 .. LatenessOf(c.period)
      BY <2>0, <3>3, SettleOK
    <3>6. ~(at - Larger(current.boundary + offset, 0) \in 0 .. LatenessOf(c.period))
      BY <3>3, <3>4 DEF Larger
    <3> QED BY <2>1, <3>5, <3>6 DEF r, pos
  <2>5. CASE ~ClockJumped(wanted, pos, at)
    <3> DEFINE d == Tracked(wanted, pos, at)
    <3>1. current = d
      BY <2>5
    <3>2. /\ Tracks(d, q, offset, c)
          /\ d.boundary = IF CellOf(c, q, at) <= wanted.target
                          THEN Start(c, q, wanted.target) ELSE wanted.boundary
      BY <2>0, <2>2, <2>5, TrackedOK
    <3> HIDE DEF current, pos, d
    <3>3. d.boundary \in Int
      BY <3>2 DEF Tracks, Pendings
    <3>4. LET s == Settle(d, Position(q, read), at, offset, inTransition)
          IN  /\ s.pending # None => PendingOK(s.pending, q, offset, c, at)
              /\ s.due \in Animations \cup {None}
              /\ s.due # None =>
                   at - Larger(d.boundary + offset, 0) \in 0 .. LatenessOf(c.period)
      BY <2>0, <3>2, SettleOK
    <3>5. pending = None => ~(at - Larger(d.boundary + offset, 0) \in 0 .. LatenessOf(c.period))
      <4> SUFFICES ASSUME pending = None
                   PROVE  ~(at - Larger(d.boundary + offset, 0) \in 0 .. LatenessOf(c.period))
        OBVIOUS
      <4>1. d.boundary = wanted.boundary /\ wanted.boundary + offset > at
        BY <2>2, <3>2 DEF PendingOK, Tracks
      <4> QED BY <4>1, <2>3 DEF Larger
    <3>6. pending # None =>
            d.boundary = IF CellOf(c, q, at) <= pending.target
                         THEN Start(c, q, pending.target) ELSE pending.boundary
      BY <2>2, <3>2
    <3> QED BY <2>1, <3>1, <3>4, <3>5, <3>6 DEF r, pos, Happens
  <2> QED BY <2>4, <2>5
<1> QED BY <1>1, <1>2, <1>3

(* -- one output ------------------------------------------------------------ *)

Looks == {"playing", "none", "off", "solid", "animation"}
Outputs ==
    [animation : Animations \cup {"idle"}, look : Looks, overlay : SUBSET Categories,
     until : MaybeInt, structure : {None, "drop", "section"}]
GateStates == {"idle", "candidate", "music"}
Gates == [state : GateStates, heard : BOOLEAN, quiet : Nat, since : MaybeInt]
Selectors ==
    [initialized : BOOLEAN, switchAt : Int, unread : BOOLEAN, pending : Pendings \cup {None},
     gate : Gates, shown : GateStates \cup {None}, choice : Animations, template : Outputs,
     changed : BOOLEAN]

\* The music gate counts fewer quiet updates than end the music while it is on.
GateOK(gate) ==
    /\ gate \in Gates
    /\ gate.quiet <= IdleFrames
    /\ gate.state = "music" => gate.quiet < IdleFrames

\* The selector of a scene: a switch it has pending is one of that scene's grid, and
\* waits for a boundary ahead that the clock has; a fixed cycle has none.
SelectorOK(l, s, c, at) ==
    /\ l \in Selectors /\ GateOK(l.gate)
    /\ l.pending # None => PendingOK(l.pending, s.quantization, s.offset, c, at)
    /\ s.mode = "cycle" => l.pending = None

\* The inductive invariant of the coordination.
AnimationInv ==
    /\ scene \in Scenes /\ now \in Nat
    /\ ClockInv(clock)
    /\ output \in Outputs /\ (scene.mode = "cycle" => output.animation \in Animations)
    /\ SelectorOK(selector, scene, clock, now)
    /\ SeqOK(seq, scene.bars)

\* The constants, as numbers and sets.
LEMMA CoordinationRanges ==
    /\ Order \in Seq(Animations) /\ Scenes \subseteq SceneType
    /\ IdleFrames \in Nat \ {0} /\ Gaps \subseteq Nat /\ Fade \in Nat /\ ActivationDelay \in Nat
    /\ \A s \in Scenes : Sounds[s] \subseteq SoundType /\ Later[s] \subseteq Scenes
  BY CoordinationAssumption

\* The fields of a scene, and that a sequence has an animation for every step.
LEMMA SceneParts ==
    ASSUME NEW s \in Scenes
    PROVE  /\ s.base \in Animations /\ s.mode \in {"dynamic", "cycle"}
           /\ s.quantization \in Quantizations /\ s.offset \in Int
           /\ s.idle \in {"none", "off", "solid", "animation"}
           /\ BarsOK(s.bars) /\ s.steps \in Seq(Animations)
           /\ s.bars # None => DOMAIN s.steps = DOMAIN s.bars
<1>1. s \in SceneType
  BY CoordinationRanges
<1>2. /\ s.base \in Animations /\ s.mode \in {"dynamic", "cycle"}
      /\ s.quantization \in Quantizations /\ s.offset \in Int
      /\ s.idle \in {"none", "off", "solid", "animation"}
      /\ s.bars \in Seq(Nat) \cup {None} /\ s.steps \in Seq(Animations)
  BY <1>1 DEF SceneType
<1>3. s.bars # None => s.bars # <<>> /\ Len(s.bars) = Len(s.steps)
  BY CoordinationAssumption
<1>4. s.bars # None => s.bars \in Seq(Nat) /\ s.bars # <<>> /\ Len(s.bars) = Len(s.steps)
  BY <1>2, <1>3
<1> DEFINE bars == s.bars
           steps == s.steps
<1>5. steps \in Seq(Animations) /\ (bars # None => bars \in Seq(Nat) /\ Len(bars) = Len(steps))
  BY <1>2, <1>4
<1> HIDE DEF bars, steps
<1>6. bars # None => DOMAIN steps = DOMAIN bars
  BY <1>5
<1> QED BY <1>2, <1>4, <1>6 DEF BarsOK, bars, steps

\* The fields of what is heard.
LEMMA SoundParts ==
    ASSUME NEW s \in Scenes, NEW sound \in Sounds[s]
    PROVE  /\ sound.best \in Animations /\ sound.doubt \in BOOLEAN /\ sound.new \in BOOLEAN
           /\ sound.section \in BOOLEAN /\ sound.drop \in BOOLEAN
           /\ sound.hint \in Periods \cup {None}
           /\ \A at \in Nat : EventTime(sound, at) \in Nat
<1>1. sound \in SoundType
  BY CoordinationRanges
<1>2. /\ sound.best \in Animations /\ sound.doubt \in BOOLEAN /\ sound.new \in BOOLEAN
      /\ sound.section \in BOOLEAN /\ sound.drop \in BOOLEAN
      /\ sound.hint \in Periods \cup {None} /\ sound.lag \in Nat
  BY <1>1 DEF SoundType
<1>3. \A at \in Nat : EventTime(sound, at) \in Nat
  BY <1>2 DEF EventTime, Monus, Larger
<1> QED BY <1>2, <1>3

\* A new gate has heard nothing.
LEMMA NewGateOK ==
    ASSUME NEW gated
    PROVE  GateOK(NewGate(gated))
  BY CoordinationRanges DEF NewGate, GateOK, Gates, GateStates, MaybeInt

\* MusicActivityTracker::update ends the music after IdleFrames quiet updates.
LEMMA HearMusicOK ==
    ASSUME NEW gate, GateOK(gate), NEW heard \in BOOLEAN, NEW at \in Nat
    PROVE  GateOK(HearMusic(gate, heard, at))
<1> DEFINE since == IF gate.since = None THEN at ELSE gate.since
           quiet == IF heard THEN 0 ELSE gate.quiet + 1
           state == IF quiet >= IdleFrames THEN "idle" ELSE gate.state
           plays == [gate EXCEPT !.heard = TRUE, !.quiet = quiet, !.state = state]
           idles == [NewGate(TRUE) EXCEPT !.heard = TRUE]
           starts == [NewGate(FALSE) EXCEPT !.heard = TRUE]
           waits == [state |-> "candidate", heard |-> TRUE, quiet |-> 0, since |-> since]
           r == HearMusic(gate, heard, at)
<1>1. gate \in Gates /\ gate.quiet \in Nat /\ gate.since \in MaybeInt /\ gate.state \in GateStates
        /\ gate.quiet <= IdleFrames
        /\ (gate.state = "music" => gate.quiet < IdleFrames)
  BY DEF GateOK, Gates
<1>2. IdleFrames \in Nat \ {0}
  BY CoordinationRanges
<1>3. gate.state = "music" => GateOK(plays)
  <2> SUFFICES ASSUME gate.state = "music" PROVE GateOK(plays)
    OBVIOUS
  <2>1. quiet \in Nat /\ quiet <= IdleFrames /\ (quiet >= IdleFrames \/ quiet < IdleFrames)
    BY <1>1, <1>2
  <2>2. state \in GateStates /\ (quiet >= IdleFrames => state = "idle")
    BY <1>1 DEF GateStates
  <2> HIDE DEF quiet, state
  <2>3. plays \in Gates /\ plays.quiet = quiet /\ plays.state = state
    BY <1>1, <2>1, <2>2 DEF Gates
  <2> HIDE DEF plays
  <2> QED BY <2>1, <2>2, <2>3 DEF GateOK
<1>4. GateOK(idles) /\ GateOK(starts)
  <2>1. ASSUME NEW n \in {"idle", "music"}
        PROVE  LET g == [[state |-> n, heard |-> FALSE, quiet |-> 0, since |-> None]
                            EXCEPT !.heard = TRUE]
               IN  g \in Gates /\ g.quiet = 0
    BY DEF Gates, GateStates, MaybeInt
  <2>2. NewGate(TRUE) = [state |-> "idle", heard |-> FALSE, quiet |-> 0, since |-> None]
    BY DEF NewGate
  <2>3. NewGate(FALSE) = [state |-> "music", heard |-> FALSE, quiet |-> 0, since |-> None]
    BY DEF NewGate
  <2>4. idles \in Gates /\ idles.quiet = 0 /\ starts \in Gates /\ starts.quiet = 0
    BY <2>1, <2>2, <2>3
  <2> HIDE DEF idles, starts
  <2> QED BY <2>4, <1>2 DEF GateOK
<1>5. GateOK(waits)
  <2>1. since \in MaybeInt
    BY <1>1 DEF MaybeInt
  <2> HIDE DEF since
  <2> QED BY <2>1, <1>2 DEF GateOK, Gates, GateStates
<1>6. r = CASE gate.state = "music" -> plays
            [] gate.state # "music" /\ ~heard -> idles
            [] gate.state # "music" /\ heard ->
                 IF at - since >= ActivationDelay THEN starts ELSE waits
  BY <1>1 DEF HearMusic, Gates
<1> HIDE DEF plays, idles, starts, waits, since, r
<1>7. CASE gate.state = "music"
  BY <1>3, <1>6, <1>7 DEF r
<1>8. CASE gate.state # "music" /\ ~heard
  BY <1>4, <1>6, <1>8 DEF r
<1>9. CASE gate.state # "music" /\ heard
  BY <1>4, <1>5, <1>6, <1>9 DEF r
<1> QED BY <1>7, <1>8, <1>9
\* The gate of a frame.
LEMMA HearGateOK ==
    ASSUME AnimationInv, NEW sound \in Sounds[scene], NEW at \in Nat
    PROVE  GateOK(HearGate(sound, at))
<1>1. GateOK(selector.gate)
  BY DEF AnimationInv, SelectorOK
<1>2. sound.music \in BOOLEAN
  BY CoordinationRanges DEF AnimationInv, SoundType
<1>3. GateOK(HearMusic(selector.gate, sound.music, at))
  BY <1>1, <1>2, HearMusicOK
<1> QED BY <1>1, <1>3 DEF HearGate

\* The session of a frame.
LEMMA StepSequenceOK ==
    ASSUME AnimationInv, NEW sound \in Sounds[scene], NEW at \in Nat, NEW gate,
           NEW read, ReadOK(read, at)
    PROVE  SeqOK(StepSequence(gate, sound, read, at), scene.bars)
<1> DEFINE sectionAt == IF sound.section THEN EventTime(sound, at) ELSE None
           music == gate.state = "music"
<1>1. BarsOK(scene.bars) /\ scene.offset \in Int
  BY SceneParts DEF AnimationInv
<1>2. SeqOK(seq, scene.bars)
  BY DEF AnimationInv
<1>3. at \in Int /\ sectionAt \in MaybeInt
  <2>1. EventTime(sound, at) \in Int
    BY SoundParts DEF AnimationInv
  <2> QED BY <2>1 DEF MaybeInt
<1>4. StepSequence(gate, sound, read, at) =
        UpdateSequence(seq, scene.bars, scene.repeat, read, at, scene.offset, music, sectionAt)
  BY DEF StepSequence
<1> HIDE DEF sectionAt, music
<1> QED BY <1>1, <1>2, <1>3, <1>4, SeqUpdates

\* The selector's fields.
LEMMA SelectorParts ==
    ASSUME NEW l \in Selectors
    PROVE  /\ l.initialized \in BOOLEAN /\ l.switchAt \in Int /\ l.unread \in BOOLEAN
           /\ l.pending \in Pendings \cup {None} /\ l.gate \in Gates
           /\ l.shown \in GateStates \cup {None} /\ l.choice \in Animations
           /\ l.template \in Outputs /\ l.changed \in BOOLEAN
  BY DEF Selectors

\* Under the gate and the sequence the selector keeps its pending switch and its choice,
\* or gives both up for the step that begins.
LEMMA UnderOK ==
    ASSUME AnimationInv, NEW gate, GateOK(gate), NEW q, SeqOK(q, scene.bars),
           NEW sound \in Sounds[scene], NEW at \in Nat
    PROVE  LET l == Under(gate, q, sound, at)
           IN  /\ l \in Selectors /\ l.gate = gate
               /\ l.pending \in {None, selector.pending}
               /\ ~q.started => l.pending = selector.pending /\ l.choice = selector.choice
               /\ selector.initialized /\ (gate = selector.gate \/ selector.gate.state = "music")
                    => l.initialized
<1> DEFINE activated == selector.gate.state # "music" /\ gate.state = "music"
           step == scene.steps[q.step]
           begun == [selector EXCEPT !.choice = step, !.switchAt = at, !.pending = None]
           l == IF q.started THEN begun ELSE selector
           initialized == l.initialized /\ ~activated
           unread == l.unread \/ sound.new
           r == [l EXCEPT !.gate = gate, !.initialized = initialized, !.unread = unread]
<1>1. selector \in Selectors
  BY DEF AnimationInv, SelectorOK
<1>2. q.started => step \in Animations
  <2> SUFFICES ASSUME q.started PROVE step \in Animations
    OBVIOUS
  <2>1. scene.bars # None /\ q.step \in DOMAIN scene.bars
    BY DEF SeqOK
  <2>2. scene.steps \in Seq(Animations) /\ DOMAIN scene.steps = DOMAIN scene.bars
    BY <2>1, SceneParts DEF AnimationInv
  <2> DEFINE steps == scene.steps
             i == q.step
  <2>3. steps \in Seq(Animations) /\ i \in DOMAIN steps
    BY <2>1, <2>2
  <2> HIDE DEF steps, i
  <2>4. steps[i] \in Animations
    BY <2>3
  <2> QED BY <2>4 DEF steps, i
<1>3. at \in Int /\ None \in Pendings \cup {None}
  OBVIOUS
<1> HIDE DEF step
<1>4. q.started => begun \in Selectors /\ begun.pending = None
                   /\ begun.initialized = selector.initialized
  BY <1>1, <1>2, <1>3 DEF Selectors
<1> HIDE DEF begun
<1>5. /\ l \in Selectors /\ l.pending \in {None, selector.pending}
      /\ ~q.started => l.pending = selector.pending /\ l.choice = selector.choice
      /\ l.initialized = selector.initialized
  <2>1. CASE q.started
    BY <1>4, <2>1
  <2>2. CASE ~q.started
    BY <1>1, <2>2
  <2> QED BY <2>1, <2>2
<1>6. Under(gate, q, sound, at) = r
  BY <1>5 DEF Under, begun, step, Selectors
<1> HIDE DEF l
<1>7. initialized \in BOOLEAN /\ unread \in BOOLEAN /\ gate \in Gates
  BY DEF GateOK
<1>8. selector.initialized /\ (gate = selector.gate \/ selector.gate.state = "music")
        => initialized
  BY <1>5
<1> HIDE DEF initialized, unread, activated
<1>9. /\ r \in Selectors /\ r.gate = gate /\ r.pending = l.pending /\ r.choice = l.choice
      /\ r.initialized = initialized
  BY <1>5, <1>7 DEF Selectors
<1> HIDE DEF r
<1> QED BY <1>5, <1>6, <1>8, <1>9

\* What is pending may wait on, whatever becomes of the clock.
Held(pending) ==
    pending # None => pending \in Pendings /\ Near(pending, scene.quantization, scene.offset)

\* A switch of a running selector happens on the grid of the clock.
HappensOn(pending, c, at) ==
    pending # None /\ Happens(pending, c, scene.quantization, scene.offset, at)

\* What an evaluated frame settles.
LEMMA SettledOK ==
    ASSUME AnimationInv, NEW l \in Selectors, NEW at \in Nat, Held(l.pending),
           NEW candidate \in Animations \cup {None}, NEW fresh,
           NEW read, ReadOK(read, at), NEW c, ReadsClock(read, c, at)
    PROVE  LET r == Settled(l, candidate, fresh, read, at)
           IN  /\ r.pending # None =>
                    PendingOK(r.pending, scene.quantization, scene.offset, c, at)
               /\ r.due \in Animations \cup {None}
               /\ l.initialized /\ r.due # None /\ scene.quantization # "off"
                    => HappensOn(l.pending, c, at)
<1> DEFINE intent == IF fresh THEN candidate ELSE "keep"
           moving == InTransition(output, at)
           r == Settled(l, candidate, fresh, read, at)
<1>1. scene.quantization \in Quantizations /\ scene.offset \in Int
  BY SceneParts DEF AnimationInv
<1>2. intent \in Animations \cup {None, "keep"}
  OBVIOUS
<1>3. CASE ~l.initialized /\ candidate # None
  <2>1. r = [pending |-> None, due |-> candidate]
    BY <1>3 DEF Settled
  <2> HIDE DEF r
  <2>2. r.pending = None /\ r.due \in Animations \cup {None}
    BY <2>1
  <2> QED BY <2>2, <1>3 DEF r
<1>4. CASE ~(~l.initialized /\ candidate # None)
  <2>1. r = UpdateSwitch(l.pending, intent, scene.quantization, read, at, scene.offset, moving)
    BY <1>4 DEF Settled
  <2> HIDE DEF intent, moving
  <2> DEFINE quantization == scene.quantization
             offset == scene.offset
             pending == l.pending
  <2>2. /\ quantization \in Quantizations /\ offset \in Int
        /\ pending # None => pending \in Pendings /\ Near(pending, quantization, offset)
    BY <1>1 DEF Held
  <2> HIDE DEF quantization, offset, pending
  <2>3. LET u == UpdateSwitch(pending, intent, quantization, read, at, offset, moving)
        IN  /\ u.pending # None => PendingOK(u.pending, quantization, offset, c, at)
            /\ u.due \in Animations \cup {None}
            /\ u.due # None /\ quantization # "off" =>
                 pending # None /\ Happens(pending, c, quantization, offset, at)
    BY <2>2, <1>2, UpdateSwitchOK
  <2> QED BY <2>1, <2>3 DEF quantization, offset, pending, HappensOn
<1> QED BY <1>3, <1>4

\* The choice of a frame, and what is then pending.
LEMMA DecideOK ==
    ASSUME AnimationInv, NEW l \in Selectors, NEW at \in Nat, Held(l.pending),
           NEW q, NEW sound \in Sounds[scene],
           NEW read, ReadOK(read, at), NEW c, ReadsClock(read, c, at)
    PROVE  LET r == Decide(l, q, sound, read, at)
           IN  /\ r \in Selectors /\ r.gate = l.gate
               /\ r.pending # None =>
                    PendingOK(r.pending, scene.quantization, scene.offset, c, at)
               /\ scene.quantization # "off" /\ l.initialized /\ r.choice # l.choice
                    => HappensOn(l.pending, c, at)
<1> DEFINE fresh == l.unread \/ sound.section \/ sound.drop
           candidate == IF fresh THEN SelectChoice(l, l.choice, sound, at) ELSE None
           settled == Settled(l, candidate, fresh, read, at)
           initialized == l.initialized \/ fresh
           unread == l.unread /\ ~fresh
           choice == IF settled.due = None THEN l.choice ELSE settled.due
           switchAt == IF settled.due \in {None, l.choice} THEN l.switchAt ELSE at
           taken == [l EXCEPT !.initialized = initialized, !.unread = unread,
                              !.pending = settled.pending, !.choice = choice,
                              !.switchAt = switchAt]
           none == [l EXCEPT !.pending = None]
           r == Decide(l, q, sound, read, at)
<1>1. sound.best \in Animations /\ scene \in Scenes
  BY SoundParts DEF AnimationInv
<1>2. candidate \in Animations \cup {None}
  BY <1>1 DEF SelectChoice
<1> HIDE DEF candidate
<1>3. /\ settled.pending # None =>
           PendingOK(settled.pending, scene.quantization, scene.offset, c, at)
      /\ settled.due \in Animations \cup {None}
      /\ l.initialized /\ settled.due # None /\ scene.quantization # "off"
           => HappensOn(l.pending, c, at)
  <2> HIDE DEF fresh
  <2> QED BY <1>2, SettledOK
<1> HIDE DEF settled
<1>4. settled.pending \in Pendings \cup {None}
  BY <1>3 DEF PendingOK, Tracks
<1>5. l.choice \in Animations /\ l.switchAt \in Int
  BY SelectorParts
<1>6. choice \in Animations /\ switchAt \in Int /\ initialized \in BOOLEAN /\ unread \in BOOLEAN
  BY <1>3, <1>5
<1>7. r = IF l.gate.state = "music" /\ ~ControlsPlayback(q) THEN taken ELSE none
  BY DEF Decide, Choose, Take, settled, candidate, Selectors
<1>0. choice # l.choice => settled.due # None
  OBVIOUS
<1> HIDE DEF choice, switchAt, initialized, unread
<1>8. taken \in Selectors /\ taken.gate = l.gate /\ taken.pending = settled.pending
        /\ taken.choice = choice
  BY <1>4, <1>6 DEF Selectors
<1>9. none \in Selectors /\ none.gate = l.gate /\ none.pending = None
        /\ none.choice = l.choice
  BY DEF Selectors
<1> HIDE DEF taken, none, r
<1>10. /\ r \in Selectors /\ r.gate = l.gate
       /\ r.pending # None => PendingOK(r.pending, scene.quantization, scene.offset, c, at)
       /\ scene.quantization # "off" /\ l.initialized /\ r.choice # l.choice
            => HappensOn(l.pending, c, at)
  BY <1>0, <1>3, <1>7, <1>8, <1>9
<1> QED BY <1>10 DEF r

\* What the output shows under the gate.
LEMMA ShowOK ==
    ASSUME NEW s \in Scenes, NEW o \in Outputs, NEW template \in Outputs, NEW l,
           NEW animation \in Animations, NEW gate, NEW at \in Nat
    PROVE  Show(o, Dressed(s, gate, animation, template), l, at) \in Outputs
<1> DEFINE d == Dressed(s, gate, animation, template)
           a == IF s.idle = "animation" THEN "idle" ELSE animation
           look == s.idle
           idle == [template EXCEPT !.animation = a, !.look = look, !.overlay = {}]
           plays == [template EXCEPT !.animation = animation]
           until == IF ~DisplayChanged(o, d, l) THEN o.until
                    ELSE IF Fade > 0 THEN at + Fade ELSE None
<1>1. look \in Looks
  BY SceneParts DEF Looks
<1>2. a \in Animations \cup {"idle"} /\ {} \in SUBSET Categories
        /\ animation \in Animations \cup {"idle"}
  OBVIOUS
<1>3. d = idle \/ d = plays
  BY DEF Dressed
<1> HIDE DEF a, look, d
<1>4. idle \in Outputs /\ plays \in Outputs
  BY <1>1, <1>2 DEF Outputs
<1> HIDE DEF idle, plays
<1>5. d \in Outputs
  BY <1>3, <1>4
<1>6. until \in MaybeInt
  <2>1. o.until \in MaybeInt
    BY DEF Outputs
  <2>2. at + Fade \in MaybeInt /\ None \in MaybeInt
    BY CoordinationRanges DEF MaybeInt
  <2> QED BY <2>1, <2>2
<1>7. Show(o, d, l, at) = [d EXCEPT !.until = until]
  BY DEF Show
<1> HIDE DEF until
<1>8. Show(o, d, l, at) \in Outputs
  BY <1>5, <1>6, <1>7 DEF Outputs
<1> QED BY <1>8 DEF d

\* The structure of a frame is noted on the output.
LEMMA NoteStructureOK ==
    ASSUME NEW o \in Outputs, NEW sound
    PROVE  NoteStructure(o, sound) \in Outputs /\ NoteStructure(o, sound).animation = o.animation
  BY DEF NoteStructure, Outputs

\* The overlay of the effects completes the output.
LEMMA FinishOK ==
    ASSUME NEW o \in Outputs, NEW sound, NEW read, NEW at, NEW music,
           Finish(o, sound, read, at, music)
    PROVE  output' \in Outputs /\ output'.animation = o.animation
<1> DEFINE overlay == Overlay(effects')
<1>1. output' = IF scene.effects THEN [o EXCEPT !.overlay = overlay] ELSE o
  BY DEF Finish, WithEffects
<1>2. overlay \in SUBSET Categories
  BY DEF Overlay
<1> HIDE DEF overlay
<1>3. [o EXCEPT !.overlay = overlay] \in Outputs
        /\ [o EXCEPT !.overlay = overlay].animation = o.animation
  BY <1>2 DEF Outputs
<1> QED BY <1>1, <1>3

\* A Dynamic frame keeps the invariant, and a switch in it happens on the grid.
LEMMA UpdateDynamicOK ==
    ASSUME AnimationInv, NEW sound \in Sounds[scene], NEW at \in Nat,
           NEW read, ReadOK(read, at), NEW c, ReadsClock(read, c, at),
           UpdateDynamic(sound, read, at), scene' = scene, scene.mode = "dynamic"
    PROVE  /\ output' \in Outputs
           /\ SelectorOK(selector', scene, c, at) /\ SeqOK(seq', scene.bars)
           /\ scene.quantization # "off" /\ Running /\ ~seq'.started
                /\ selector'.choice # selector.choice => HappensOn(selector.pending, c, at)
<1> DEFINE gate == HearGate(sound, at)
           q == StepSequence(gate, sound, read, at)
           u == Under(gate, q, sound, at)
           l == Decide(u, q, sound, read, at)
           shown == gate.state
           o == NoteStructure(output, sound)
           d == Show(o, Dressed(scene, gate.state, l.choice, l.template), l, at)
           music == gate.state = "music"
<1>1. /\ seq' = q
      /\ selector' = [l EXCEPT !.shown = shown, !.changed = FALSE]
      /\ Finish(d, sound, read, at, music)
  BY DEF UpdateDynamic
<1>2. GateOK(gate)
  BY HearGateOK
<1> HIDE DEF gate
<1>3. SeqOK(q, scene.bars)
  BY StepSequenceOK
<1> HIDE DEF q
<1>4. /\ u \in Selectors /\ u.gate = gate
      /\ u.pending \in {None, selector.pending}
      /\ ~q.started => u.pending = selector.pending /\ u.choice = selector.choice
      /\ selector.initialized /\ (gate = selector.gate \/ selector.gate.state = "music")
           => u.initialized
  BY <1>2, <1>3, UnderOK
<1> HIDE DEF u
<1>0. Held(u.pending)
  <2>1. Held(selector.pending)
    BY DEF AnimationInv, SelectorOK, PendingOK, Tracks, Held
  <2> QED BY <2>1, <1>4 DEF Held
<1>5. /\ l \in Selectors /\ l.gate = u.gate
      /\ l.pending # None => PendingOK(l.pending, scene.quantization, scene.offset, c, at)
      /\ scene.quantization # "off" /\ u.initialized /\ l.choice # u.choice
           => HappensOn(u.pending, c, at)
  BY <1>0, <1>4, DecideOK
<1> HIDE DEF l
<1>6. scene \in Scenes /\ o \in Outputs
  BY NoteStructureOK DEF AnimationInv
<1> HIDE DEF o
<1>7. l.choice \in Animations /\ l.template \in Outputs
  BY <1>5, SelectorParts
<1>8. d \in Outputs
  BY <1>6, <1>7, ShowOK
<1> HIDE DEF d
<1>9. output' \in Outputs
  BY <1>1, <1>8, FinishOK
<1>10. shown \in GateStates \cup {None}
  BY <1>2 DEF GateOK, Gates
<1> HIDE DEF shown
<1>11. selector' \in Selectors /\ selector'.gate = gate /\ selector'.pending = l.pending
         /\ selector'.choice = l.choice
  BY <1>1, <1>4, <1>5, <1>10 DEF Selectors
<1>12. SelectorOK(selector', scene, c, at)
  BY <1>2, <1>5, <1>11 DEF SelectorOK
<1>13. Running /\ ~seq'.started /\ selector'.choice # selector.choice
         => u.initialized /\ l.choice # u.choice /\ u.pending = selector.pending
  BY <1>1, <1>4, <1>11 DEF Running
<1>14. scene.quantization # "off" /\ Running /\ ~seq'.started
         /\ selector'.choice # selector.choice => HappensOn(selector.pending, c, at)
  BY <1>5, <1>13
<1> QED BY <1>1, <1>3, <1>9, <1>12, <1>14

\* A frame of a fixed cycle keeps it, and shows one of the choices.
LEMMA TurnCycleOK ==
    ASSUME AnimationInv, NEW sound \in Sounds[scene], NEW at \in Nat, NEW c,
           NEW read, TurnCycle(sound, read, at), scene' = scene, scene.mode = "cycle"
    PROVE  /\ output' \in Outputs /\ output'.animation \in Animations
           /\ SelectorOK(selector', scene, c, at) /\ SeqOK(seq', scene.bars)
<1> DEFINE noted == NoteStructure(output, sound)
           until == IF Fade > 0 THEN at + Fade ELSE None
           turn(next) == [noted EXCEPT !.animation = next, !.until = until]
<1>1. noted \in Outputs /\ noted.animation \in Animations
  BY NoteStructureOK DEF AnimationInv
<1>2. until \in MaybeInt
  BY CoordinationRanges DEF MaybeInt
<1>3. \/ \E next \in NextChoices(output.animation) : Finish(turn(next), sound, read, at, FALSE)
      \/ Finish(noted, sound, read, at, FALSE)
  BY DEF TurnCycle
<1> HIDE DEF noted, until
<1>4. NextChoices(output.animation) \subseteq Animations
  <2> DEFINE current == output.animation
             place == CHOOSE i \in DOMAIN Order : Order[i] = current
             after == (place % Len(Order)) + 1
  <2>1. current \in Animations /\ Order \in Seq(Animations)
    BY CoordinationRanges DEF AnimationInv
  <2>2. \E i \in DOMAIN Order : Order[i] = current
    BY <2>1 DEF Animations, ToSet
  <2>3. place \in DOMAIN Order
    BY <2>2
  <2> HIDE DEF place
  <2>4. after \in DOMAIN Order
    <3>1. Len(Order) \in Nat \ {0} /\ place \in Nat /\ DOMAIN Order = 1 .. Len(Order)
      BY <2>1, <2>3
    <3> DEFINE n == Len(Order)
    <3>2. n \in Nat \ {0} /\ place \in Nat
      BY <3>1
    <3> HIDE DEF n
    <3>3. place % n \in 0 .. (n - 1)
      BY <3>2
    <3>4. (place % n) + 1 \in 1 .. n
      BY <3>2, <3>3
    <3> QED BY <3>1, <3>4 DEF n
  <2> HIDE DEF after
  <2>5. Order[after] \in Animations
    BY <2>1, <2>4
  <2>6. NextChoices(current) = IF scene.shuffle THEN Animations \ {current} ELSE {Order[after]}
    BY DEF NextChoices, after, place
  <2> QED BY <2>5, <2>6
<1>5. ASSUME NEW next \in Animations
      PROVE  turn(next) \in Outputs /\ turn(next).animation = next
  BY <1>1, <1>2 DEF Outputs
<1> HIDE DEF turn
<1>6. output' \in Outputs /\ output'.animation \in Animations
  <2>1. CASE Finish(noted, sound, read, at, FALSE)
    BY <2>1, <1>1, FinishOK
  <2>2. ASSUME NEW next \in NextChoices(output.animation),
               Finish(turn(next), sound, read, at, FALSE)
        PROVE  output' \in Outputs /\ output'.animation \in Animations
    <3>1. next \in Animations
      BY <1>4
    <3>2. turn(next) \in Outputs /\ turn(next).animation = next
      BY <3>1, <1>5
    <3>3. output' \in Outputs /\ output'.animation = turn(next).animation
      BY <2>2, <3>2, FinishOK
    <3> QED BY <3>1, <3>2, <3>3
  <2> QED BY <1>3, <2>1, <2>2
<1>7. selector' = selector /\ seq' = seq
  BY DEF TurnCycle
<1>8. SelectorOK(selector, scene, clock, now) /\ SeqOK(seq, scene.bars)
  BY DEF AnimationInv
<1>9. SelectorOK(selector, scene, c, at)
  BY <1>8 DEF SelectorOK
<1> QED BY <1>6, <1>7, <1>8, <1>9

\* What a step does to the grid of a switch.
SwitchesOnGrid ==
    scene.quantization # "off" /\ now' # now /\ Running /\ ~seq'.started
      /\ selector'.choice # selector.choice =>
        selector.pending # None /\ OnGrid(selector.pending, clock', now')

\* Every frame keeps the invariant, and switches on the grid.
LEMMA FrameOK ==
    ASSUME AnimationInv, NEW gap \in Gaps, NEW sound \in Sounds[scene], Frame(gap, sound)
    PROVE  AnimationInv' /\ SwitchesOnGrid
<1> DEFINE at == now + gap
           read == Reading(clock', at, sound.doubt)
<1>1. gap \in Nat /\ now \in Nat /\ scene \in Scenes
  BY CoordinationRanges DEF AnimationInv
<1>2. at \in Nat
  BY <1>1
<1>3. /\ now' = at /\ scene' = scene
      /\ clock' \in (IF sound.beat THEN Observe(clock, EventTime(sound, at), sound.hint)
                     ELSE {clock})
      /\ IF scene.mode = "dynamic" THEN UpdateDynamic(sound, read, at)
         ELSE TurnCycle(sound, read, at)
  BY DEF Frame
<1> HIDE DEF at
<1>4. ClockInv(clock')
  <2>1. ClockInv(clock)
    BY DEF AnimationInv
  <2>2. EventTime(sound, at) \in Int /\ sound.hint \in Periods \cup {None}
    BY <1>1, <1>2, SoundParts
  <2>3. CASE sound.beat
    BY <2>1, <2>2, <2>3, <1>3, ClockObserves
  <2>4. CASE ~sound.beat
    BY <2>1, <2>4, <1>3
  <2> QED BY <2>3, <2>4
<1>5. sound.doubt \in BOOLEAN
  BY <1>1, SoundParts
<1>6. ReadOK(read, at) /\ ReadsClock(read, clock', at)
  BY <1>2, <1>4, <1>5, ClockReads
<1> HIDE DEF read
<1>7. scene.mode \in {"dynamic", "cycle"}
  BY <1>1, SceneParts
<1>8. CASE scene.mode = "dynamic"
  <2> DEFINE c == clock'
  <2>0. ReadsClock(read, c, at)
    BY <1>6
  <2> HIDE DEF c
  <2>1. /\ output' \in Outputs
        /\ SelectorOK(selector', scene, c, at) /\ SeqOK(seq', scene.bars)
        /\ scene.quantization # "off" /\ Running /\ ~seq'.started
             /\ selector'.choice # selector.choice => HappensOn(selector.pending, c, at)
    BY <2>0, <1>2, <1>3, <1>6, <1>8, UpdateDynamicOK
  <2>2. AnimationInv'
    BY <2>1, <1>1, <1>2, <1>3, <1>4, <1>8 DEF AnimationInv, c
  <2>3. HappensOn(selector.pending, clock', now')
          => selector.pending # None /\ OnGrid(selector.pending, clock', now')
    BY DEF HappensOn, Happens, OnGrid, CellAt, CellOf, CellStart, Start
  <2>4. SwitchesOnGrid
    BY <2>1, <2>3, <1>3 DEF SwitchesOnGrid, c
  <2> QED BY <2>2, <2>4
<1>9. CASE scene.mode = "cycle"
  <2> DEFINE c == clock'
  <2> HIDE DEF c
  <2>1. /\ output' \in Outputs /\ output'.animation \in Animations
        /\ SelectorOK(selector', scene, c, at) /\ SeqOK(seq', scene.bars)
    BY <1>2, <1>3, <1>9, TurnCycleOK
  <2>2. AnimationInv'
    BY <2>1, <1>1, <1>2, <1>3, <1>4, <1>9 DEF AnimationInv, c
  <2>3. selector' = selector
    BY <1>3, <1>9 DEF TurnCycle
  <2> QED BY <2>2, <2>3 DEF SwitchesOnGrid
<1> QED BY <1>7, <1>8, <1>9

\* A scene that is submitted starts from its base animation.
LEMMA IncomingOK ==
    ASSUME AnimationInv, NEW s \in Scenes
    PROVE  Incoming(s) \in Outputs /\ Incoming(s).animation = s.base
<1> DEFINE overlay == IF SameEffects(s) THEN output.overlay ELSE {}
<1>1. s.base \in Animations
  BY SceneParts
<1>2. overlay \in SUBSET Categories
  <2>1. output.overlay \in SUBSET Categories
    BY DEF AnimationInv, Outputs
  <2> QED BY <2>1
<1>3. Template(s) \in Outputs /\ Template(s).animation = s.base
  BY <1>1 DEF Template, Outputs, Looks, MaybeInt
<1>4. Incoming(s) = [Template(s) EXCEPT !.overlay = overlay]
  BY DEF Incoming
<1> HIDE DEF overlay
<1> QED BY <1>2, <1>3, <1>4 DEF Outputs

\* A new selector has nothing pending.
LEMMA NewSelectorOK ==
    ASSUME NEW s \in Scenes, NEW template \in Outputs, NEW at \in Nat, NEW c
    PROVE  SelectorOK(NewSelector(s, template, at), s, c, at)
<1> DEFINE gated == s.mode = "dynamic" /\ s.gate
           gate == NewGate(gated)
           l == NewSelector(s, template, at)
<1>1. GateOK(gate)
  BY NewGateOK
<1>2. s.base \in Animations
  BY SceneParts
<1>3. l = [initialized |-> FALSE, switchAt |-> at, unread |-> TRUE, pending |-> None,
           gate |-> gate, shown |-> None, choice |-> s.base, template |-> template,
           changed |-> FALSE]
  BY DEF NewSelector
<1> HIDE DEF gate, l
<1>4. gate \in Gates
  BY <1>1 DEF GateOK
<1>5. l \in Selectors /\ l.gate = gate /\ l.pending = None
  BY <1>2, <1>3, <1>4 DEF Selectors
<1>6. SelectorOK(l, s, c, at)
  BY <1>1, <1>5 DEF SelectorOK
<1> QED BY <1>6 DEF l

\* A selector goes on only under a scene of the same grid.
LEMMA KeepSelectorOK ==
    ASSUME AnimationInv, NEW s \in Scenes, NEW bumped \in BOOLEAN, SameSelector(s)
    PROVE  SelectorOK(KeepSelector(s, bumped), s, clock, now)
<1> DEFINE other == selector.template.animation # s.base
           again == [selector EXCEPT !.initialized = FALSE, !.unread = TRUE,
                                     !.switchAt = now, !.pending = None]
           fresh == IF SameSequence(s) THEN selector ELSE again
           initialized == fresh.initialized /\ ~other
           pending == IF other THEN None ELSE fresh.pending
           choice == IF other \/ bumped THEN s.base ELSE fresh.choice
           changed == fresh.changed \/ other \/ bumped
           template == Incoming(s)
           l == KeepSelector(s, bumped)
<1>1. /\ selector \in Selectors /\ GateOK(selector.gate)
      /\ selector.pending # None =>
           PendingOK(selector.pending, scene.quantization, scene.offset, clock, now)
      /\ now \in Nat
  BY DEF AnimationInv, SelectorOK
<1>2. s.mode = "dynamic" /\ s.quantization = scene.quantization /\ s.offset = scene.offset
  BY DEF SameSelector, Same
<1>3. now \in Int /\ None \in Pendings \cup {None}
  BY <1>1
<1>4. again \in Selectors /\ again.gate = selector.gate /\ again.pending = None
  BY <1>1, <1>3 DEF Selectors
<1> HIDE DEF again
<1>5. /\ fresh \in Selectors /\ fresh.gate = selector.gate
      /\ fresh.pending # None =>
           PendingOK(fresh.pending, scene.quantization, scene.offset, clock, now)
  <2>1. CASE SameSequence(s)
    BY <2>1, <1>1
  <2>2. CASE ~SameSequence(s)
    BY <2>2, <1>4
  <2> QED BY <2>1, <2>2
<1>6. l = [fresh EXCEPT !.initialized = initialized, !.pending = pending, !.choice = choice,
                        !.changed = changed, !.template = template]
  BY <1>5 DEF KeepSelector, Selectors, again
<1> HIDE DEF fresh, other
<1>7. fresh.choice \in Animations /\ s.base \in Animations
        /\ fresh.pending \in Pendings \cup {None}
  BY <1>5, SelectorParts, SceneParts
<1>8. pending \in Pendings \cup {None} /\ choice \in Animations
        /\ initialized \in BOOLEAN /\ changed \in BOOLEAN
  BY <1>7
<1>9. template \in Outputs
  BY IncomingOK
<1>10. pending # None => PendingOK(pending, s.quantization, s.offset, clock, now)
  BY <1>2, <1>5
<1> HIDE DEF initialized, pending, choice, changed, template, l
<1>11. l \in Selectors /\ l.gate = fresh.gate /\ l.pending = pending
  BY <1>5, <1>6, <1>8, <1>9 DEF Selectors
<1>12. SelectorOK(l, s, clock, now)
  BY <1>1, <1>2, <1>5, <1>10, <1>11 DEF SelectorOK
<1> QED BY <1>12 DEF l

\* A new scene keeps the invariant, and makes no switch late: no time passes.
LEMMA SubmitSceneOK ==
    ASSUME AnimationInv, NEW s \in Later[scene], NEW bumped \in BOOLEAN,
           SubmitScene(s, bumped)
    PROVE  AnimationInv' /\ SwitchesOnGrid
<1>1. s \in Scenes /\ scene \in Scenes /\ now \in Nat
  BY CoordinationRanges DEF AnimationInv
<1>2. /\ scene' = s /\ output' = Incoming(s) /\ now' = now /\ clock' = clock
      /\ selector' = IF SameSelector(s) THEN KeepSelector(s, bumped)
                     ELSE NewSelector(s, Incoming(s), now)
      /\ seq' = IF SameSequence(s) THEN seq ELSE NoSession
  BY DEF SubmitScene
<1>3. output' \in Outputs /\ output'.animation \in Animations
  BY <1>1, <1>2, IncomingOK, SceneParts
<1>4. SelectorOK(selector', s, clock, now)
  <2>1. CASE SameSelector(s)
    BY <2>1, <1>1, <1>2, KeepSelectorOK
  <2>2. CASE ~SameSelector(s)
    <3>1. Incoming(s) \in Outputs
      BY <1>1, IncomingOK
    <3>2. SelectorOK(NewSelector(s, Incoming(s), now), s, clock, now)
      BY <3>1, <1>1, NewSelectorOK
    <3> QED BY <3>2, <2>2, <1>2
  <2> QED BY <2>1, <2>2
<1>5. SeqOK(seq', s.bars)
  <2>1. CASE SameSequence(s)
    <3>1. s.bars = scene.bars
      BY <2>1 DEF SameSequence, Same
    <3>2. SeqOK(seq, scene.bars)
      BY DEF AnimationInv
    <3> QED BY <3>1, <3>2, <2>1, <1>2
  <2>2. CASE ~SameSequence(s)
    BY <2>2, <1>2, SeqStarts
  <2> QED BY <2>1, <2>2
<1>6. ClockInv(clock)
  BY DEF AnimationInv
<1>7. AnimationInv'
  BY <1>1, <1>2, <1>3, <1>4, <1>5, <1>6 DEF AnimationInv
<1>8. SwitchesOnGrid
  BY <1>2 DEF SwitchesOnGrid
<1> QED BY <1>7, <1>8

\* What the inductive invariant gives.
LEMMA InvariantGives ==
    ASSUME AnimationInv
    PROVE  TypeOK /\ StepEndsWhereItCounts /\ SwitchFollowsClock /\ SwitchComes
<1>1. TypeOK
  <2>1. output.animation \in Animations \cup {"idle"} /\ output.overlay \subseteq Categories
    BY DEF AnimationInv, Outputs
  <2>2. selector.choice \in Animations /\ selector.gate.quiet <= IdleFrames
    BY SelectorParts DEF AnimationInv, SelectorOK, GateOK
  <2> QED BY <2>1, <2>2 DEF TypeOK, AnimationInv, ClockInv
<1>2. StepEndsWhereItCounts
  BY DEF StepEndsWhereItCounts, AnimationInv, SeqOK
<1>3. selector.pending # None =>
        PendingOK(selector.pending, scene.quantization, scene.offset, clock, now)
  BY DEF AnimationInv, SelectorOK
<1>4. SwitchFollowsClock
  BY <1>3 DEF SwitchFollowsClock, PendingOK, Tracks, Start, CellStart
<1>5. SwitchComes
  BY <1>3 DEF SwitchComes, PendingOK, Tracks, Near
<1> QED BY <1>1, <1>2, <1>4, <1>5

\* The inductive invariant holds of every behaviour: of clocks, sessions and selectors of
\* their kinds, with every pending switch where the clock of the moment has its cell start
\* (advance_cycle_after_render, submit_render_ordered).
THEOREM AnimationInvariant == Spec => []AnimationInv
<1>1. Init => AnimationInv
  <2> SUFFICES ASSUME Init PROVE AnimationInv
    OBVIOUS
  <2>1. scene \in Scenes /\ now = 0 /\ output = Template(scene)
          /\ selector = NewSelector(scene, output, 0)
          /\ clock = NoClock /\ seq = NoSession
    BY DEF Init
  <2>2. scene.base \in Animations
    BY <2>1, SceneParts
  <2>3. output \in Outputs /\ output.animation \in Animations
    BY <2>1, <2>2 DEF Template, Outputs, Looks, MaybeInt
  <2>4. SelectorOK(selector, scene, clock, now)
    BY <2>1, <2>3, NewSelectorOK
  <2>5. ClockInv(clock)
    BY <2>1, ClockStarts
  <2> QED BY <2>1, <2>3, <2>4, <2>5, SeqStarts DEF AnimationInv
<1>2. AnimationInv /\ [Next]_vars => AnimationInv'
  <2> SUFFICES ASSUME AnimationInv, [Next]_vars PROVE AnimationInv'
    OBVIOUS
  <2>1. ASSUME NEW gap \in Gaps, NEW sound \in Sounds[scene], Frame(gap, sound)
        PROVE  AnimationInv'
    BY <2>1, FrameOK
  <2>2. ASSUME NEW s \in Later[scene], NEW bumped \in BOOLEAN, SubmitScene(s, bumped)
        PROVE  AnimationInv'
    BY <2>2, SubmitSceneOK
  <2>3. CASE UNCHANGED vars
    BY <2>3 DEF vars, AnimationInv
  <2> QED BY <2>1, <2>2, <2>3 DEF Next
<1> QED BY <1>1, <1>2, PTL DEF Spec

\* Once the selector is running, a switch has been pending, and happens where the clock of
\* that frame has its cell start, moved by the offset, no later than its lateness allows,
\* whatever onsets moved or retuned the clock meanwhile; one delayed beyond its cell
\* happens where the cell started by the clock while it lasted (quantized_switch.rs:
\* update, schedule_next).
THEOREM SwitchesKeepTheGrid == Spec => SwitchOnGrid
<1>1. AnimationInv /\ [Next]_vars => [SwitchesOnGrid]_vars
  <2> SUFFICES ASSUME AnimationInv, [Next]_vars PROVE [SwitchesOnGrid]_vars
    OBVIOUS
  <2>1. ASSUME NEW gap \in Gaps, NEW sound \in Sounds[scene], Frame(gap, sound)
        PROVE  SwitchesOnGrid
    BY <2>1, FrameOK
  <2>2. ASSUME NEW s \in Later[scene], NEW bumped \in BOOLEAN, SubmitScene(s, bumped)
        PROVE  SwitchesOnGrid
    BY <2>2, SubmitSceneOK
  <2> QED BY <2>1, <2>2 DEF Next
<1>2. [SwitchesOnGrid]_vars <=>
        [scene.quantization # "off" /\ now' # now /\ Running /\ ~seq'.started
           /\ selector'.choice # selector.choice =>
             selector.pending # None /\ OnGrid(selector.pending, clock', now')]_vars
  BY DEF SwitchesOnGrid
<1> QED BY <1>1, <1>2, AnimationInvariant, PTL DEF Spec, SwitchOnGrid

\* Steps and switches agree with the clock for every scene, tempo, grid and offset, and
\* for onsets at any distance: a step ends at the bar where its bars run out, a pending
\* switch waits for a boundary of the clock's grid that is ahead and the first its offset
\* leaves there, and it happens on that grid (advance_cycle_after_render).
THEOREM BeatsAgree == Spec => TimesAgree
<1>1. AnimationInv => TypeOK /\ StepEndsWhereItCounts /\ SwitchFollowsClock /\ SwitchComes
  BY InvariantGives
<1> QED BY <1>1, AnimationInvariant, SwitchesKeepTheGrid, PTL DEF TimesAgree
=============================================================================
