----------------------------- MODULE MCAnimation ------------------------------
EXTENDS AnimationCoordination
CONSTANTS a1, a2

MCOrder == <<a1, a2>>
MCDuration == [k \in Catalog |-> IF k = "rhythmic" THEN 1 ELSE 3]

Plain == [base |-> a1, mode |-> "dynamic", shuffle |-> FALSE, quantization |-> "off",
          offset |-> 0, gate |-> FALSE, idle |-> "none", repeat |-> FALSE,
          effects |-> FALSE, bars |-> None, steps |-> <<>>]
Sequenced == [Plain EXCEPT !.bars = <<1>>, !.steps = <<a2>>]
Early == [Sequenced EXCEPT !.repeat = TRUE, !.offset = -1, !.bars = <<2, 1>>,
                            !.steps = <<a2, a1>>]
Moved == [Early EXCEPT !.base = a2]
Gated == [Early EXCEPT !.bars = <<1, 2>>, !.repeat = FALSE, !.quantization = "beat",
                       !.offset = 1, !.gate = TRUE]
OnBeats == [Plain EXCEPT !.quantization = "beat", !.offset = 2]
OnBars == [Plain EXCEPT !.quantization = "bar", !.gate = TRUE, !.idle = "solid"]
OnPhrases == [Plain EXCEPT !.quantization = "phrase", !.offset = -3]
Overlaid == [Plain EXCEPT !.effects = TRUE]
Delayed == [Overlaid EXCEPT !.offset = 3]
Cycled == [Plain EXCEPT !.mode = "cycle"]
Shuffled == [Cycled EXCEPT !.shuffle = TRUE]
MCScenes == {Sequenced, Early, Moved, Gated, OnBeats,
             OnBars, OnPhrases, Overlaid, Delayed, Cycled, Shuffled}
MCLater ==
    [s \in MCScenes |->
        CASE s = Shuffled -> {Sequenced} [] s = Early -> {Moved}
          [] s = OnPhrases -> {OnPhrases} [] s = Delayed -> {Delayed}
          [] OTHER -> {}]

Steady == [new |-> TRUE, music |-> TRUE, best |-> a1, lead |-> "none", section |-> FALSE,
           drop |-> FALSE, beat |-> FALSE, lag |-> 0, hint |-> None, strong |-> FALSE,
           impact |-> TRUE, onset |-> FALSE, doubt |-> FALSE]
Onset == [Steady EXCEPT !.beat = TRUE, !.strong = TRUE]
LateOnset == [Onset EXCEPT !.lag = 1]
Doubtful == [Steady EXCEPT !.doubt = TRUE]
Leading == [Steady EXCEPT !.best = a2, !.lead = "full"]
Section == [Steady EXCEPT !.section = TRUE, !.lag = 1, !.best = a2, !.lead = "half"]
Hush == [Steady EXCEPT !.music = FALSE, !.impact = FALSE]
Onsets(s) == CASE s \in {Early, Moved, Overlaid} -> {LateOnset}
               [] s = OnBeats -> {Onset, LateOnset}
               [] s = Sequenced -> {Onset, [Onset EXCEPT !.hint = 2]}
               [] OTHER -> {Onset}
MCSounds ==
    [s \in MCScenes |->
        IF s.mode = "cycle" THEN {Steady, [Steady EXCEPT !.drop = TRUE]}
        ELSE {Steady} \cup Onsets(s)
          \cup (IF s.bars # None THEN {Doubtful, Section} ELSE {})
          \cup (IF s.quantization # "off" /\ s.bars = None
                THEN {Leading, [Steady EXCEPT !.new = FALSE]} ELSE {})
          \cup (IF s.gate THEN {Hush} ELSE {})
          \cup (IF s = Overlaid THEN {Hush, [Steady EXCEPT !.onset = TRUE]} ELSE {})
          \cup (IF s.effects THEN {[o EXCEPT !.drop = TRUE] : o \in Onsets(s)} ELSE {})]
=============================================================================
