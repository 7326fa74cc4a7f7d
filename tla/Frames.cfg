SPECIFICATION FramesSpec
CONSTANTS
  Kinds = {"bouncing_ball", "comet", "color_wipe", "juggle", "laser_sweep", "dual_laser",
           "dual_comet", "disco_comet", "rave_scanner", "red_rave_sweep", "red_rave_chase",
           "theater_chase", "strobe_chase", "glow_rush", "neon_storm", "red_blackout_strobe",
           "strobe", "rainbow_strobe"}
  Length = 4
  Counts = {2, 3}
  Speeds = {1, 2}
  Widths = {1, 2}
  Gaps = {5, 6}
  EffectKinds = {"beat_explosion", "shockwave", "beat_ripple", "beat_tunnel", "bass_drop",
    "drop_explosion", "drop_wave", "center_burst", "mirror_flash", "spectrum_flash",
    "lightning_strike", "hard_beat", "club_flash", "confetti", "beat_wave", "color_burst",
    "firework_burst", "pixel_explosion", "electric_storm", "animation.beat_explosion",
    "animation.shockwave", "animation.beat_ripple", "animation.beat_tunnel",
    "animation.beat_wave", "animation.center_burst", "animation.mirror_flash",
    "animation.spectrum_flash", "animation.bass_drop", "peak_mirror", "bpm", "twinkle",
    "rave_pulse", "pulse", "neon_confetti", "disco_sparkle"}
  Half = 3
  Top = 3
  Slots = 3
  Bursts = {2, 3}
  Lives = {2, 3, 5}
  Cycle = 4
  Animations = {"rainbow", "comet"}
  Revisions = {1, 2}
  Overlays = {"hard_beat", "confetti"}
  Geometries = {"short"}
  Duration = 2
  Outputs = {"left", "right"}
  Watts = {0, 1, 3}
  Unlimited = 99
PROPERTIES LightComesAndGoes BurstsComeAndGo SceneIsShown
CHECK_DEADLOCK FALSE
