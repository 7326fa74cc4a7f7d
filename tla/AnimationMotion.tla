--------------------------- MODULE AnimationMotion ---------------------------
\* The animations that carry a light along the strip, and the ones that flash
\* the whole of it: what one instance remembers from frame to frame, and the
\* pixels each frame lights. Positions are whole pixels. Left out: colours,
\* brightness, what music does beyond beat, speed and width, and the animations
\* that keep no position (rainbow, plasma, fire, twinkle, ...).
EXTENDS Integers, Sequences

CONSTANTS Kinds,      \* the animations, by their names in the source
          Counts,     \* values of the count setting
          Length,     \* pixels of the output
          Speeds,     \* pixels a head may travel in a frame
          Widths,     \* pixels the drawn block may be wide
          Gaps        \* frames between the beats some animations make in silence

ASSUME MotionAssumption ==
  /\ Length \in Nat \ {0, 1} /\ Gaps \subseteq Nat \ {0, 1} /\ Gaps # {}
  /\ Speeds \subseteq Nat \ {0} /\ Widths \subseteq 1 .. Length - 1
  /\ 1 \in Speeds \cap Widths /\ Counts \subseteq Nat \ {0, 1} /\ Counts # {}

VARIABLES kind,       \* which animation the instance is
          travel,     \* its direction setting: "forward", "reverse" or "bounce"
          count,      \* its count setting
          audio,      \* whether frames carry audio
          calm,       \* settings, music and audio have stopped changing
          gap,        \* of the animation's kind, one of Gaps
          frame,      \* frame_index, modulo gap
          heads,      \* what the state remembers: a sequence of [pos, dir]
          lit         \* the pixels the last frame lit

motionVars == <<kind, travel, count, audio, calm, gap, frame, heads, lit>>

Strip == 0 .. Length - 1
End == Length - 1
At(pos, dir) == [pos |-> pos, dir |-> dir]
Clamp(x) == IF x < 0 THEN 0 ELSE IF x > End THEN End ELSE x
Bouncing == travel = "bounce"
Course(dir) == CASE travel = "forward" -> 1 [] travel = "reverse" -> -1 [] OTHER -> dir
Beaten(dir, beat) == IF beat THEN -dir ELSE dir
Farther == Length \div 2                    \* the separation of a pair of heads

\* bouncing_ball, comet and color_wipe: turn at the ends, or wrap around. The
\* ball turns below pixel 0 (low = -1), the other two on it (low = 0).
BounceWithoutTurn(x, dir, low) == At(Clamp(x), dir)

Bounce(x, dir, low) ==
  CASE x >= End              -> At(End, -1)
    [] x < End /\ x <= low -> At(0, 1)
    [] OTHER                  -> At(x, dir)

Glide(h, v, turn, low) ==
  LET dir == IF Bouncing THEN Beaten(h.dir, turn) ELSE h.dir
  IN  IF Bouncing THEN Bounce(h.pos + v * dir, dir, low)
      ELSE At((h.pos + v * Course(h.dir)) % Length, h.dir)

BouncingBall(h, v, beat) == Glide(h, v, beat, -1)
Comet(h, v, beat) == Glide(h, v, beat, 0)
ColorWipe(h, v) == Glide(h, v, FALSE, 0)

\* juggle: every ball turns at both ends; a beat only changes its speed.
Juggle(h, v) == LET x == h.pos + v * h.dir
                IN  IF x >= End \/ x < 0 THEN At(Clamp(x), -h.dir) ELSE At(x, h.dir)

\* laser_sweep runs two pixels beyond both ends; a beat turns it when it bounces.
Laser(h, v, beat) ==
  LET dir == Beaten(h.dir, beat /\ Bouncing)
      x == h.pos + v * Course(dir)
  IN  CASE x > End + 2 -> IF Bouncing THEN At(End + 2, -1) ELSE At(-2, dir)
        [] x < -2       -> IF Bouncing THEN At(-2, 1) ELSE At(End + 2, dir)
        [] OTHER        -> At(x, dir)

\* dual_laser always wraps; its second head follows the first.
DualLaser(h, v, beat) ==
  LET dir == Beaten(h.dir, beat)
      x == h.pos + v * dir
  IN  At(CASE x > End + 2 -> -2 [] x < -2 -> End + 2 [] OTHER -> x, dir)

\* dual_comet turns on every beat and at the ends, whatever the direction setting.
AtEnd(x, dir) == IF x <= 0 \/ x >= End THEN At(Clamp(x), -dir) ELSE At(x, dir)

DualComet(h, v, beat) == LET dir == Beaten(h.dir, beat) IN AtEnd(h.pos + v * dir, dir)

\* disco_comet: a beat turns it in every direction setting, for one frame when
\* the setting names a direction.
DiscoComet(h, v, beat) ==
  LET dir == Beaten(h.dir, beat)
      x == h.pos + v * dir
  IN  IF Bouncing THEN AtEnd(x, dir) ELSE At(x % Length, Course(dir))

\* rave_scanner: only a bouncing one turns.
RaveScanner(h, v, beat) ==
  LET dir == Beaten(h.dir, beat /\ Bouncing)
      x == h.pos + v * Course(dir)
  IN  IF Bouncing THEN AtEnd(x, dir) ELSE At(x % Length, dir)

\* red_rave_sweep reflects a block w pixels wide at both ends.
RedSweep(h, v, w) ==
  LET limit == Length - w
      x == h.pos + v * h.dir
  IN  CASE x >= limit            -> At(IF x > 2 * limit THEN 0 ELSE 2 * limit - x, -1)
        [] x < limit /\ x <= 0 -> At(IF -x > limit THEN limit ELSE -x, 1)
        [] OTHER                 -> At(x, h.dir)

\* The ones that repeat a pattern: a phase modulo the pattern's period. The
\* strobe_chase also flashes the strip for some frames (dir) after a beat.
Period == IF Length \div count > 2 THEN Length \div count ELSE 2
RedChase(h, v, beat) == LET dir == Beaten(h.dir, beat) IN At((h.pos + v * dir) % Period, dir)
TheaterChase(h, v) == At((h.pos + v) % count, h.dir)
StrobeChase(h, v, beat) ==
  At((h.pos + v) % count, IF beat THEN 2 ELSE IF h.dir > 0 THEN h.dir - 1 ELSE 0)
GlowRush(h, v, w) == At((h.pos + v) % (End + 2 * w), h.dir)

\* neon_storm starts the streaks it misses spread over the strip, drops the ones
\* too many, and moves the rest.
NeonStorm(streaks, v) ==
  [i \in 1 .. count |->
     LET pos == IF i <= Len(streaks) THEN streaks[i].pos ELSE (i * Length) \div (count + 1)
     IN  At((pos + v) % Length, 1)]

\* juggle keeps the balls it ever had, and moves those it is asked for.
JuggleAll(balls, v) ==
  [i \in 1 .. (IF Len(balls) > count THEN Len(balls) ELSE count) |->
     LET ball == IF i <= Len(balls) THEN balls[i] ELSE At((37 * (i - 1) * End) \div 100, 1)
     IN  IF i <= count THEN Juggle(ball, v) ELSE ball]

\* red_blackout_strobe: dir is the frames before a beat may flash again, pos the
\* frames the flash still burns; silence uses neither.
Blackout(h, beat) ==
  LET flash == beat /\ h.dir = 0
  IN  At(IF ~audio THEN h.pos ELSE IF flash THEN 1 ELSE IF h.pos > 0 THEN h.pos - 1 ELSE 0,
           IF flash THEN gap - 1 ELSE IF h.dir > 0 THEN h.dir - 1 ELSE 0)
Burning(before, after) == IF audio THEN before.pos > 0 \/ after.pos > 0 ELSE frame = 0

\* The beat of a frame: the music's, or the one some make themselves in silence.
SilentBeats == {"rave_scanner", "disco_comet", "red_rave_chase", "strobe_chase"}
BeatOf(beat) == IF audio THEN beat ELSE kind \in SilentBeats /\ frame = 0

\* What render_next does to the state, with speed v and width w.
Moved(v, w, b) ==
  LET h == heads[1] IN
  CASE kind = "bouncing_ball"       -> <<BouncingBall(h, v, b)>>
    [] kind = "comet"               -> <<Comet(h, v, b)>>
    [] kind = "color_wipe"          -> <<ColorWipe(h, v)>>
    [] kind = "juggle"              -> JuggleAll(heads, v)
    [] kind = "laser_sweep"         -> <<Laser(h, v, b)>>
    [] kind = "dual_laser"          -> <<DualLaser(h, v, b)>>
    [] kind = "dual_comet"          -> <<DualComet(h, v, b)>>
    [] kind = "disco_comet"         -> <<DiscoComet(h, v, b)>>
    [] kind = "rave_scanner"        -> <<RaveScanner(h, v, b)>>
    [] kind = "red_rave_sweep"      -> <<RedSweep(h, v, w)>>
    [] kind = "red_rave_chase"      -> <<RedChase(h, v, b)>>
    [] kind = "theater_chase"       -> <<TheaterChase(h, v)>>
    [] kind = "strobe_chase"        -> <<StrobeChase(h, v, b)>>
    [] kind = "glow_rush"           -> <<GlowRush(h, v, w)>>
    [] kind = "neon_storm"          -> NeonStorm(heads, v)
    [] kind = "red_blackout_strobe" -> <<Blackout(h, b)>>
    [] kind \in {"strobe", "rainbow_strobe"} -> heads

\* The strobes remember nothing: they flash on the beat and in the first frame of
\* their period (here the only one, of the whole strip).
Strobe(b) == IF b \/ frame = 0 THEN Strip ELSE {}
RainbowStrobe(b) == Strobe(b)

\* The pixels the frame lights.
Around(pos, w) == {p \in Strip : p - pos < w /\ pos - p < w}
Lit(hs, w, b) ==
  LET pos == hs[1].pos IN
  CASE kind \in {"dual_laser", "dual_comet"} ->
         Around(pos, w) \cup Around((pos + Farther) % Length, w)
    [] kind = "juggle"         -> UNION {Around(hs[i].pos, w) : i \in 1 .. count}
    [] kind = "neon_storm"     -> UNION {Around(hs[i].pos, w) : i \in 1 .. Len(hs)}
    [] kind = "red_rave_sweep" -> Strip \cap (pos .. pos + w - 1)
    [] kind = "red_rave_chase" ->
         {p \in Strip : LET mirrored == IF 2 * p <= End THEN p ELSE End - p
                        IN  (mirrored + pos) % Period = 0}
    [] kind = "theater_chase"  -> {p \in Strip : p % count = pos}
    [] kind = "strobe_chase"   -> IF hs[1].dir > 0 THEN Strip ELSE {p \in Strip : p % count = pos}
    [] kind = "strobe"         -> Strobe(b)
    [] kind = "rainbow_strobe" -> RainbowStrobe(b)
    [] kind = "red_blackout_strobe" -> IF Burning(heads[1], hs[1]) THEN Strip ELSE {}
    [] OTHER -> Around(pos, w)

Start == CASE kind \in {"laser_sweep", "dual_laser"} -> <<At(-2, 1)>>
           [] kind \in {"strobe_chase", "red_blackout_strobe", "strobe", "rainbow_strobe"} -> <<At(0, 0)>>
           [] kind \in {"juggle", "neon_storm"} -> <<>>
           [] OTHER -> <<At(0, 1)>>

Directed == {"bouncing_ball", "comet", "color_wipe", "laser_sweep", "disco_comet", "rave_scanner"}
Counted == {"juggle", "neon_storm", "theater_chase", "strobe_chase", "red_rave_chase"}

\* A new instance, with any settings.
MotionInit ==
  /\ kind \in Kinds
  /\ travel \in (IF kind \in Directed THEN {"forward", "reverse", "bounce"} ELSE {"bounce"})
  /\ count \in (IF kind \in Counted THEN Counts ELSE {CHOOSE c \in Counts : TRUE})
  /\ audio \in BOOLEAN /\ calm = FALSE /\ gap \in Gaps /\ frame = 0 /\ heads = Start /\ lit = {}

\* render_next: the settings' and the music's speed and width, and a beat.
Render(v, w, beat) ==
  LET b == BeatOf(beat) IN
  /\ calm => v = 1 /\ w = 1 /\ ~beat
  /\ beat => audio
  /\ heads' = Moved(v, w, b)
  /\ lit' = Lit(heads', w, b)
  /\ frame' = (frame + 1) % gap
  /\ UNCHANGED <<kind, travel, count, audio, calm, gap>>

\* set_settings keeps the state; a new speed rescales the frame number.
SetSettings ==
  /\ ~calm
  /\ travel' \in (IF kind \in Directed THEN {"forward", "reverse", "bounce"} ELSE {travel})
  /\ count' \in (IF kind \in Counted THEN Counts ELSE {count})
  /\ frame' \in (IF kind \in SilentBeats THEN 0 .. gap - 1 ELSE {frame})
  /\ UNCHANGED <<kind, audio, calm, gap, heads, lit>>

\* The audio worker loses its source, or finds one.
AudioChanges == ~calm /\ audio' = ~audio /\ UNCHANGED <<kind, travel, count, calm, gap, frame, heads, lit>>
\* From here on nobody changes a setting and the music has no beats.
Calm == ~calm /\ calm' = TRUE /\ UNCHANGED <<kind, travel, count, audio, gap, frame, heads, lit>>

RenderSome == \E v \in Speeds, w \in Widths, beat \in BOOLEAN : Render(v, w, beat)
MotionNext == RenderSome \/ SetSettings \/ AudioChanges \/ Calm

\* The output worker renders at every frame interval.
MotionSpec == MotionInit /\ [][MotionNext]_motionVars /\ WF_motionVars(RenderSome)

-----------------------------------------------------------------------------
\* In silence some turn on beats of their own, and get as far as the gap between
\* them lets them: a head there and back, a pattern through its period.
TurnsEarly ==
  /\ ~audio
  /\ \/ kind \in {"rave_scanner", "disco_comet"} /\ Bouncing /\ gap < 2 * End
     \/ kind = "red_rave_chase" /\ gap < Period

\* In silence strobe_chase flashes on beats of its own, and may flash throughout.
FlashesOn == ~audio /\ kind = "strobe_chase"

\* A light that moves keeps moving over the whole strip: whatever the beats and
\* the settings were, at a pixel per frame every pixel is lit, and dark, again
\* and again. But red_blackout_strobe stays dark in music without beats;
\* rave_scanner, disco_comet and red_rave_chase may light a strip only in part
\* while there is no audio, when it is too long for their gap; and strobe_chase
\* may keep a pixel lit then. A renderer that left its head beyond
\* an end, or turned it there twice, would keep part of the strip dark for ever.
LightComesAndGoes ==
  kind = "red_blackout_strobe" \/
  \A p \in Strip : /\ []<>(~calm \/ TurnsEarly \/ p \in lit)
                   /\ []<>(~calm \/ FlashesOn \/ p \notin lit)
==============================================================================
