----------------------------- MODULE EffectMotion -----------------------------
\* The triggered effects, and the animations that flash or spread like them: what
\* one instance remembers from frame to frame.
\* A beat sets off a ring, a flash or one more burst; every frame moves the rings
\* and fades the rest. Levels (flashes, charges) are whole steps, and a burst is
\* its age and the age at which it has faded or left the strip. Left out: colours,
\* widths and where a burst stands.
EXTENDS Integers, Sequences, SequencesExt

CONSTANTS EffectKinds, \* the effects by their names in the source; an animation
                       \* of an effect's name has "animation." before it
          Half,        \* pixels from the centre of the strip to an end
          Top,         \* the highest level
          Slots,       \* bursts the list has room for: 6, 8 or 12 in the source
          Bursts,      \* values of the count setting
          Lives,       \* ages at which a burst may end
          Cycle        \* frames between the triggers in silence

ASSUME EffectAssumption ==
  /\ {Half, Top, Slots, Cycle} \subseteq Nat \ {0} /\ Cycle > 1
  /\ Bursts \subseteq 1 .. Slots /\ Lives \subseteq Nat \ {0}

VARIABLES effect,      \* which effect the instance is
          many,        \* its count setting
          heard,       \* whether frames carry audio
          still,       \* the music goes on without beats or accents
          tick,        \* frame_index, modulo Cycle
          e,           \* radius, dir, flash, charge and bursts of the state
          born         \* ghost: the youngest bursts set off, as many as may live

effectVars == <<effect, many, heard, still, tick, e, born>>

\* decay_step: up to the target at once, down to it step by step.
DecayStep(value, target) == IF target >= value THEN target ELSE value - 1
Down(level) == IF level > 0 THEN level - 1 ELSE 0
Up(level) == IF level < Top THEN level + 1 ELSE Top

\* A new burst in a list of at most n: a full list loses its oldest.
Push(list, life, n) ==
  Append(IF Len(list) >= n THEN SubSeq(list, Len(list) - n + 2, Len(list)) ELSE list,
         [age |-> 0, life |-> life])

\* Every burst a frame older, without the ones that ended.
Older(list) == [i \in DOMAIN list |-> [list[i] EXCEPT !.age = @ + 1]]
Alive(burst) == burst.age < burst.life
Aged(list) == SelectSeq(Older(list), Alive)
Youngest(list, n) == IF Len(list) > n THEN SubSeq(list, Len(list) - n + 1, Len(list)) ELSE list

-----------------------------------------------------------------------------
\* The renderers: s is the state, beat and loud (0 .. Top) the frame's music,
\* life the life of a burst it sets off. Without audio s changes by the frame
\* number alone.

Starts == tick = 0
Silent(s) == [s EXCEPT !.radius = tick % (Half + 6)]

BeatRing(s, beat, loud) ==                     \* beat_explosion
  IF ~heard THEN Silent(s)
  ELSE [s EXCEPT !.flash = DecayStep(@, loud),
                 !.radius = IF beat \/ @ + 1 > Half + 8 THEN 0 ELSE @ + 1]

Shockwave(s, beat, loud) == BeatRing(s, beat, loud)

BeatRipple(s, beat, loud) ==
  IF ~heard THEN Silent(s)
  ELSE [s EXCEPT !.flash = DecayStep(@, loud),
                 !.radius = IF beat THEN 0 ELSE (@ + 1) % (2 * Half + 1)]

BeatTunnelOneWay(s, beat, loud) ==
  IF ~heard THEN s ELSE [s EXCEPT !.radius = IF beat THEN 0
                                             ELSE IF @ > Half + 2 THEN @ ELSE @ + 1]

BeatTunnel(s, beat, loud) ==
  LET r == s.radius + s.dir IN
  IF heard
  THEN IF beat THEN [s EXCEPT !.radius = 0, !.dir = 1, !.flash = DecayStep(@, loud)]
       ELSE [s EXCEPT !.radius = r, !.flash = DecayStep(@, loud),
                      !.dir = IF r > Half + 2 THEN -1 ELSE IF r < -2 THEN 1 ELSE @]
  ELSE IF r > Half \/ r < 0
       THEN [s EXCEPT !.dir = -@, !.radius = IF r < 0 THEN 0 ELSE Half]
       ELSE [s EXCEPT !.radius = r]

\* The flash and the charge that builds up between drops; hit is drop_hit's
\* verdict. bass_drop lets the flash decay before a hit in music, all others after.
BassDrop(s, beat, hit, loud) ==
  IF heard
  THEN LET charge == Up(IF hit THEN 0 ELSE s.charge)
       IN  [s EXCEPT !.flash = IF hit THEN Top ELSE DecayStep(@, loud),
                     !.charge = IF beat /\ charge <= 1 THEN 0 ELSE charge]
  ELSE [s EXCEPT !.flash = DecayStep(IF Starts THEN Top ELSE @, 0),
                 !.charge = IF Starts THEN 0 ELSE Up(@)]

DropExplosion(s, hit) ==
  LET fires == IF heard THEN hit ELSE Starts
  IN  [s EXCEPT !.flash = DecayStep(IF fires THEN Top ELSE @, 0),
                !.charge = IF fires /\ ~heard THEN 0 ELSE Up(IF fires THEN 0 ELSE @)]

\* drop_wave stands still until its first drop or full charge (dir = 0). A full
\* charge flashes again, but leaves the ring where it ran to.
DropWave(s, hit) ==
  LET charge == Up(s.charge)
      full == charge = Top /\ Starts
      moving == IF full THEN 1 ELSE s.dir
  IN  IF hit THEN [s EXCEPT !.flash = Down(Top), !.radius = 1, !.dir = 1, !.charge = 0]
      ELSE [s EXCEPT !.charge = charge, !.dir = moving,
                     !.radius = IF @ > Half THEN @ ELSE @ + moving,
                     !.flash = Down(IF full /\ @ < Top - 1 THEN Top - 1 ELSE @)]

\* center_burst: the ring runs on with its own speed once its flash is over, and
\* is drawn as long as it is on the strip.
CenterBurst(s, hit) ==
  IF hit THEN [s EXCEPT !.radius = 1, !.flash = Down(Top)]
  ELSE [s EXCEPT !.radius = IF @ > Half THEN @ ELSE @ + 1, !.flash = Down(@)]

\* mirror_flash and spectrum_flash: a hit sets a flash, every frame lowers it. In
\* silence they, center_burst and drop_wave find their stand-in audio too low to
\* be hit; lightning_strike counts frames; hard_beat's state rests.
Flash(s, hit) == [s EXCEPT !.flash = Down(IF hit THEN Top ELSE @)]
SpectrumFlash(s, hit) == Flash(s, hit)
LightningStrike(s, beat) == Flash(s, IF heard THEN beat ELSE Starts)
HardBeat(s, beat) == IF heard THEN Flash(s, beat) ELSE s

\* club_flash and confetti may be set off by chance in any frame.
ClubFlash(s, hit, chance, loud) ==
  [s EXCEPT !.flash = DecayStep(@, IF hit \/ chance THEN loud ELSE 0)]
Confetti(s, loud, chance) == [s EXCEPT !.flash = IF loud = Top \/ chance THEN Up(Down(@)) ELSE Down(@)]

\* The lists of bursts.
BeatWave(s, beat, life) ==
  IF ~heard THEN s
  ELSE [s EXCEPT !.bursts = Aged(IF beat THEN Push(@, life, Slots) ELSE @)]

ColorBurst(s, hit, life) ==
  [s EXCEPT !.bursts = Aged(IF (IF heard THEN hit ELSE Starts) THEN Push(@, life, Slots) ELSE @)]

FireworkBurst(s, beat, life) ==
  IF ~heard THEN s
  ELSE [s EXCEPT !.bursts = Youngest(Aged(IF beat THEN Push(@, life, Slots) ELSE @), many)]

PixelExplosion(s, hit, life, two) ==
  LET fires == IF heard THEN hit ELSE Starts
      one == IF fires THEN Push(s.bursts, life, Slots) ELSE s.bursts
      all == IF fires /\ two /\ heard /\ many > 1 THEN Push(one, life, Slots) ELSE one
  IN  [s EXCEPT !.bursts = Aged(IF fires THEN Youngest(all, many) ELSE all)]

\* electric_storm turns a new streak away instead, and starts some by chance.
ElectricStorm(s, beat, chance, life, loud) ==
  LET starts == IF heard THEN loud > 0 \/ chance ELSE Starts
  IN  [s EXCEPT !.bursts = Aged(IF starts /\ Len(@) < many
                                THEN Append(@, [age |-> 0, life |-> life]) ELSE @),
                !.flash = Down(IF heard THEN IF beat THEN Top ELSE DecayStep(@, loud)
                               ELSE IF Starts THEN Top ELSE @)]

\* The animations. Their state outlives a frame without audio, in which they draw
\* by the frame number; peak_mirror's peaks and twinkle's, neon_confetti's and
\* disco_sparkle's pixels are levels of their own.
SpreadExplosion(s, beat, loud) == BeatRing(s, beat, loud)
SpreadShockwave(s, beat, loud) == BeatRing(s, beat, loud)
SpreadRipple(s, beat, loud) == BeatRipple(s, beat, loud)
SpreadTunnel(s, beat, loud) == BeatTunnel(s, beat, loud)
SpreadWave(s, beat, life) == BeatWave(s, beat, life)
SpreadBurst(s, hit) == CenterBurst(s, hit)
MirrorFlash(s, hit) == Flash(s, hit)
WarmFlash(s, hit) == Flash(s, hit)                   \* spectrum_flash
BassFlash(s, beat, hit, loud) == BassDrop(s, beat, hit, loud)
PeakMirror(s, beat) == IF heard THEN Flash(s, beat) ELSE s
Bpm(s, beat) == IF heard THEN Flash(s, beat) ELSE s
TwinkleBloom(s, beat) == IF heard THEN Flash(s, beat) ELSE s
RavePulse(s, beat, loud) ==
  IF heard THEN [s EXCEPT !.flash = IF beat THEN Up(DecayStep(@, loud)) ELSE DecayStep(@, loud)]
  ELSE s
Pulse(s, beat, loud) ==
  LET faded == Down(IF beat THEN Up(s.flash) ELSE s.flash)
      least == loud \div 2
  IN  IF heard THEN [s EXCEPT !.flash = IF faded > least THEN faded ELSE least] ELSE s
NeonConfetti(s, chance) == [s EXCEPT !.flash = IF chance THEN Up(Down(@)) ELSE Down(@)]
DiscoSparkle(s, loud, chance) ==
  [s EXCEPT !.flash = IF (heard /\ loud > 1) \/ chance THEN Up(Down(@)) ELSE Down(@)]

\* renderers::render and render_at: one frame with its beat, its level, and what
\* the random numbers give: the life of a burst, a second one, a chance hit.
Rendered(s, beat, loud, life, two, chance) ==
  LET hit == beat /\ loud > 0
      burst == beat \/ loud = Top
  IN  CASE effect = "beat_explosion"   -> BeatRing(s, beat, loud)
        [] effect = "shockwave"        -> Shockwave(s, beat, loud)
        [] effect = "beat_ripple"      -> BeatRipple(s, beat, loud)
        [] effect = "beat_tunnel"      -> BeatTunnel(s, beat, loud)
        [] effect = "bass_drop"        -> BassDrop(s, beat, hit, loud)
        [] effect = "drop_explosion"   -> DropExplosion(s, hit)
        [] effect = "drop_wave"        -> DropWave(s, hit)
        [] effect = "center_burst"     -> CenterBurst(s, hit)
        [] effect = "mirror_flash"     -> Flash(s, hit)
        [] effect = "spectrum_flash"   -> SpectrumFlash(s, hit)
        [] effect = "lightning_strike" -> LightningStrike(s, beat)
        [] effect = "hard_beat"        -> HardBeat(s, beat)
        [] effect = "club_flash"       -> ClubFlash(s, hit, chance, loud)
        [] effect = "confetti"         -> Confetti(s, loud, chance)
        [] effect = "beat_wave"        -> BeatWave(s, beat, life)
        [] effect = "color_burst"      -> ColorBurst(s, burst, life)
        [] effect = "firework_burst"   -> FireworkBurst(s, beat, life)
        [] effect = "pixel_explosion"  -> PixelExplosion(s, burst, life, two)
        [] effect = "electric_storm"   -> ElectricStorm(s, beat, chance, life, loud)
        [] effect = "animation.beat_explosion" -> SpreadExplosion(s, beat, loud)
        [] effect = "animation.shockwave"      -> SpreadShockwave(s, beat, loud)
        [] effect = "animation.beat_ripple"    -> SpreadRipple(s, beat, loud)
        [] effect = "animation.beat_tunnel"    -> SpreadTunnel(s, beat, loud)
        [] effect = "animation.beat_wave"      -> SpreadWave(s, beat, life)
        [] effect = "animation.center_burst"   -> SpreadBurst(s, hit)
        [] effect = "animation.mirror_flash"   -> MirrorFlash(s, hit)
        [] effect = "animation.spectrum_flash" -> WarmFlash(s, hit)
        [] effect = "animation.bass_drop"      -> BassFlash(s, beat, hit, loud)
        [] effect = "peak_mirror"      -> PeakMirror(s, beat)
        [] effect = "bpm"              -> Bpm(s, beat)
        [] effect = "twinkle"          -> TwinkleBloom(s, beat)
        [] effect = "rave_pulse"       -> RavePulse(s, beat, loud)
        [] effect = "pulse"            -> Pulse(s, beat, loud)
        [] effect = "neon_confetti"    -> NeonConfetti(s, chance)
        [] effect = "disco_sparkle"    -> DiscoSparkle(s, loud, chance)

Listed == {"beat_wave", "animation.beat_wave", "color_burst", "firework_burst", "pixel_explosion"}
Ringed == {"beat_explosion", "shockwave", "beat_ripple", "beat_tunnel",
           "animation.beat_explosion", "animation.shockwave", "animation.beat_ripple",
           "animation.beat_tunnel"}
Chancy == {"club_flash", "confetti", "electric_storm", "drop_wave", "neon_confetti",
           "disco_sparkle"}
Room == IF effect \in {"firework_burst", "pixel_explosion"} THEN many ELSE Slots

\* How many bursts the frame sets off.
Fired(beat, loud, two) ==
  CASE effect \in {"beat_wave", "animation.beat_wave", "firework_burst"} -> IF heard /\ beat THEN 1 ELSE 0
    [] effect = "color_burst" -> IF (IF heard THEN beat \/ loud = Top ELSE Starts) THEN 1 ELSE 0
    [] effect = "pixel_explosion" ->
         IF ~(IF heard THEN beat \/ loud = Top ELSE Starts) THEN 0
         ELSE IF two /\ heard /\ many > 1 THEN 2 ELSE 1
    [] OTHER -> 0
Runs == heard \/ effect \notin {"beat_wave", "animation.beat_wave", "firework_burst"}
Capped(burst) == [burst EXCEPT !.age = IF @ > burst.life THEN burst.life ELSE @]
Bear(n, life) ==
  LET new == [i \in 1 .. n |-> [age |-> 0, life |-> life]]
      older == Older(Youngest(born \o new, Room))
  IN  IF Runs THEN [i \in DOMAIN older |-> Capped(older[i])] ELSE born

\* EffectInstance::new.
EffectInit ==
  /\ effect \in EffectKinds
  /\ many \in (IF effect \in {"firework_burst", "pixel_explosion", "electric_storm"}
              THEN Bursts ELSE {Slots})
  /\ heard \in BOOLEAN /\ still = FALSE /\ tick = 0 /\ born = <<>>
  /\ e = [radius |-> 0, dir |-> IF effect = "drop_wave" THEN 0 ELSE 1,
          flash |-> 0, charge |-> 0, bursts |-> <<>>]

RenderEffect(beat, loud, life, two, chance) ==
  /\ still => ~beat /\ loud = 0
  /\ ~heard => ~beat /\ loud = 0
  /\ two => effect = "pixel_explosion"
  /\ chance => effect \in Chancy
  /\ e' = Rendered(e, beat, loud, life, two, chance)
  /\ born' = Bear(Fired(beat, loud, two), life)
  /\ tick' = (tick + 1) % Cycle
  /\ UNCHANGED <<effect, many, heard, still>>

\* The audio worker loses its source, or finds one.
HearingChanges ==
  /\ ~still
  /\ heard' = ~heard
  /\ UNCHANGED <<effect, many, still, tick, e, born>>

\* From here on the music has neither beats nor accents.
BecomesStill ==
  /\ heard /\ ~still
  /\ still' = TRUE
  /\ UNCHANGED <<effect, many, heard, tick, e, born>>

RenderAny ==
  \E beat, two, chance \in BOOLEAN, loud \in 0 .. Top,
     life \in (IF effect \in Listed \cup {"electric_storm"} THEN Lives
               ELSE {CHOOSE life \in Lives : TRUE}) :
    RenderEffect(beat, loud, life, two, chance)
EffectNext == RenderAny \/ HearingChanges \/ BecomesStill

\* The output worker renders at every frame interval.
EffectSpec == EffectInit /\ [][EffectNext]_effectVars /\ WF_effectVars(RenderAny)

-----------------------------------------------------------------------------
\* A list of bursts never holds more than its room, and a full one gives up its
\* oldest burst and no other, whatever ended in its middle and however long the
\* music was away: the youngest bursts that still burn are its end, in order.
YoungestBurstsStay ==
  effect \in Listed => /\ Len(e.bursts) <= Room
                      /\ IsSuffix(SelectSeq(born, Alive), e.bursts)
                      /\ \A i \in DOMAIN e.bursts : Alive(e.bursts[i])

\* Once the music has no beats and no accents, flashes burn down, bursts end, and
\* the rings that beats restart go on passing the centre and the ends by
\* themselves. (Those that are set off by chance or by their charge go on.)
EffectsSettle ==
  \/ effect \in Chancy
  \/ /\ <>[](still => e.flash = 0 /\ e.bursts = <<>>)
     /\ effect \in Ringed => /\ []<>(~still \/ e.radius <= 0)
                             /\ []<>(~still \/ e.radius >= Half)

\* Bursts come and go: the youngest have their place, and all light ends in silence.
BurstsComeAndGo == []YoungestBurstsStay /\ EffectsSettle
==============================================================================
