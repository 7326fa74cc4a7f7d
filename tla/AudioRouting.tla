---------------------------- MODULE AudioRouting ----------------------------
(***************************************************************************)
(* Which sound the dashboard has the engine listen to: the audio commands  *)
(* and the one-second tick of the control worker of                        *)
(* apps/lumistripe-web/src/control.rs, with the PipeWire default source it *)
(* borrows for a Bluetooth phone or for Spotify and has to give back.      *)
(*                                                                         *)
(* A handler awaits many calls, each of which may fail, and a command is   *)
(* dropped at any of them when its deadline passes.  A handler is modelled *)
(* as the set of its outcomes: "ok", "error", or "cut" where it was        *)
(* dropped, each with the record it leaves behind.  Phones, players and    *)
(* microphones change between two handlers, not within one.  What the      *)
(* engine does with an input is module AudioSource; a calibration, which   *)
(* only watches the status and then applies settings, is not here.         *)
(***************************************************************************)
EXTENDS Naturals

CONSTANTS
  Phones,       \* addresses of Bluetooth devices that stream
  Backends,     \* how Spotify is heard: by its "monitor", by a "dedicated"
                \* capture device, or "direct" as decoded PCM
  Sources,      \* bound: the sources that are asked for
  MaxFaults     \* bound: calls that fail

ASSUME AudioRoutingAssumption ==
  /\ MaxFaults \in Nat
  /\ Backends \subseteq {"monitor", "dedicated", "direct"}
  /\ Sources \subseteq {"auto", "off", "mic", "demo", "bluetooth", "spotify"}

None == "none"
User == "user"              \* the default source the user has chosen
Monitor == "monitor"        \* SPOTIFY_MONITOR_SOURCE
Microphones == {"usb"}
Maintained == {"auto", "bluetooth", "spotify"}

VARIABLES
  audio,    \* the model and the routing of the worker, PipeWire, the engine
  polled,   \* the status last published: the input that is live, or None
  phone,    \* the device that streams over Bluetooth, or None
  spotify,  \* the player: "out", "idle" or "active"
  plugged,  \* the microphone is there
  backend,  \* one of Backends
  calm      \* from now on nobody commands, comes or goes
vars == <<audio, polled, phone, spotify, plugged, backend, calm>>

Fresh ==
  [configured |-> "auto", active |-> "off", started |-> FALSE, status |-> None,
   chosen |-> "default",        \* selected_audio_device, config.audio_device
   original |-> None, phone |-> None, was |-> None, wait |-> FALSE, \* routing
   default |-> User,            \* PipeWire: the default source
   wants |-> None, open |-> FALSE,   \* the engine: its input, and if it has it
   tuned |-> TRUE,              \* ... and it runs the profile that is saved
   hurry |-> FALSE,             \* the handler has a deadline
   faults |-> MaxFaults,
   lost |-> FALSE,              \* a call for the default source failed, and with it
                                \* the user's was forgotten
   halfway |-> FALSE]           \* since the last start the engine acknowledged a
                                \* call was not answered, a handler was cut or
                                \* the default source was not taken

Live(a) == IF a.open THEN a.wants ELSE None
Device(status) == IF status \in {"demo", "direct"} THEN None ELSE status
\* Whether a capture without a selector opens does not depend on plugs.
Opens(input) == input \in Microphones => plugged
Heard(a) ==
  CASE Live(a) = "default" -> a.default
    [] Live(a) \in {"dedicated", "direct"} -> Monitor
    [] OTHER -> Live(a)

-----------------------------------------------------------------------------
(* Outcomes, and how they follow one another.                              *)
Outcome(end, a) == [end |-> end, a |-> a]
Ok(a) == {Outcome("ok", a)}
Error(a) == {Outcome("error", a)}
Then(outcomes, F(_)) ==
  UNION {IF o.end = "ok" THEN F(o.a) ELSE {o} : o \in outcomes}
OrElse(outcomes, F(_)) ==
  UNION {IF o.end = "error" THEN F(o.a) ELSE {o} : o \in outcomes}
AsError(outcomes) ==
  {IF o.end = "ok" THEN Outcome("error", o.a) ELSE o : o \in outcomes}

Ends(a) == IF a.hurry THEN {"error", "cut"} ELSE {"error"}
Spend(a) == [a EXCEPT !.faults = @ - 1]
\* A call that is not answered, or not waited for, may have had its effect.
Lost(a, effects) ==
  IF a.faults = 0 THEN {}
  ELSE {Outcome(end, [Spend(x) EXCEPT !.halfway = TRUE]) :
          end \in Ends(a), x \in effects}
\* A call that only asks.
Ask(a) ==
  Ok(a) \union
    IF a.faults = 0 THEN {}
    ELSE {Outcome(end, [Spend(a) EXCEPT !.halfway = @ \/ end = "cut"]) : end \in Ends(a)}

-----------------------------------------------------------------------------
(* The engine.                                                             *)
Listening(a, input) ==
  [a EXCEPT !.wants = input, !.open = Opens(input), !.tuned = TRUE, !.halfway = FALSE]
AudioStart(a, input) ==
  {Outcome(IF Opens(input) THEN "ok" ELSE "error", Listening(a, input))}
    \union Lost(a, {a, Listening(a, input)})
    \union IF a.faults = 0 THEN {}
           ELSE Error([Spend(Listening(a, input)) EXCEPT !.open = FALSE])

AudioStop(a) ==
  LET done == [a EXCEPT !.wants = None, !.open = FALSE, !.tuned = TRUE, !.halfway = FALSE]
  IN  Ok(done) \union Lost(a, {a, done})

\* A new profile, with which the input is opened again.
Configure(a, saved) ==
  LET done == [a EXCEPT !.tuned = saved, !.open = @ /\ Opens(a.wants)]
  IN  {Outcome(IF done.open THEN "ok" ELSE "error", done)} \union Lost(a, {a, done})
        \union IF a.faults = 0 THEN {} ELSE Error([Spend(done) EXCEPT !.open = FALSE])

ConfirmInput(a) == Then(Ask(a), LAMBDA x : IF Live(x) = None THEN Error(x) ELSE Ok(x))
Takes(a, source) ==
  [a EXCEPT !.status = Live(a), !.active = source, !.started = TRUE]

StopEngine(a) ==
  Then(AudioStop(a), LAMBDA x : Ok([x EXCEPT !.started = FALSE, !.status = None]))

\* What is opened again is the device of the status, and neither the demo nor
\* decoded PCM has one.
RestoreCapture(a) ==
  IF a.active = "off" \/ (Device(a.status) = None /\ ~a.started) THEN StopEngine(a)
  ELSE LET input == IF a.active = "demo" THEN "demo"
                    ELSE IF Device(a.status) # None THEN a.status ELSE a.chosen
       IN  Then(Then(AudioStart(a, input), ConfirmInput), LAMBDA x : Ok(Takes(x, a.active)))

-----------------------------------------------------------------------------
(* The default source: pactl is killed when it takes too long, and may     *)
(* have set it by then.                                                    *)
SetDefault(a, source) ==
  LET done == [a EXCEPT !.default = source]
  IN  Ok(done) \union
        IF a.faults = 0 THEN {}
        ELSE {Outcome("error", Spend(x)) : x \in {a, done}} \union
               {Outcome("cut", [Spend(x) EXCEPT !.halfway = TRUE]) :
                  x \in IF a.hurry THEN {a, done} ELSE {}}

RecordAlways(a) ==
  Ok([a EXCEPT !.original = a.default]) \union
    IF a.faults = 0 THEN {} ELSE Ok([Spend(a) EXCEPT !.original = "unknown"])
RecordOriginal(a) ==
  IF a.original # None THEN Ok(a)
  ELSE Ok([a EXCEPT !.original = a.default]) \union
         IF a.faults = 0 THEN {}
         ELSE Ok([Spend(a) EXCEPT !.original = "unknown"]) \union
                IF a.hurry THEN {Outcome("cut", [Spend(a) EXCEPT !.halfway = TRUE])} ELSE {}

\* What was recorded here is dropped when the call fails, whatever it has done.
Override(a, source) ==
  Then(RecordOriginal(a), LAMBDA x :
    OrElse(SetDefault(x, source), LAMBDA y :
      IF a.original # None THEN Error([y EXCEPT !.halfway = TRUE])
      ELSE Error([y EXCEPT !.original = None, !.halfway = TRUE,
                           !.lost = @ \/ y.default # a.default])))

\* original_default_source is taken before the call that puts it back, and a
\* failure of that call is only logged.
Restore(a) ==
  LET taken == [a EXCEPT !.original = None]
      left(x) == [x EXCEPT !.lost = @ \/ x.default # a.original]
      cleared(x) == [x EXCEPT !.phone = None]
  IN  IF a.original = None THEN Ok(cleared(a))
      ELSE IF a.original = "unknown" THEN Ok([cleared(taken) EXCEPT !.lost = TRUE])
      ELSE {IF o.end = "cut" THEN Outcome("cut", left(o.a)) ELSE Outcome("ok", cleared(left(o.a))) :
              o \in SetDefault(taken, a.original)}

-----------------------------------------------------------------------------
(* Moving to a source.                                                     *)
AlreadyOnAnyPhone(a, source) ==
  a.active = source /\ a.status # None /\ (source = "spotify" => a.was = spotify)
AlreadyOn(a, source) ==
  /\ a.active = source /\ a.status # None
  /\ source = "bluetooth" => a.phone = phone
  /\ source = "spotify" => a.was = spotify

\* The phone's source becomes the default.
RouteBluetooth(a) ==
  IF phone = None THEN Error(a)
  ELSE Override([a EXCEPT !.phone = phone], phone)

\* The route of the player's sound to the speakers, then its own capture
\* device or its monitor as the default.
RouteSpotify(a) ==
  IF spotify = "out" THEN Error(a)
  ELSE Then(Ask(a), LAMBDA x :
         Then(LET y == [x EXCEPT !.was = spotify]
              IN  IF backend = "direct" THEN OrElse(Ask(y), Ok) ELSE Ask(y),
           LAMBDA z : IF backend = "dedicated" THEN Restore(z) ELSE Override(z, Monitor)))

Source(source) ==
  IF source = "spotify" /\ backend # "monitor" THEN backend ELSE "default"

\* A failed call on the way there leaves things where they are; a capture that
\* does not start brings the previous one back.
Activate(a, source, configured) ==
  IF AlreadyOn(a, source) THEN Ok(a)
  ELSE Then(IF source = "bluetooth" THEN RouteBluetooth(a) ELSE RouteSpotify(a),
         LAMBDA x :
           OrElse(Then(Then(AudioStart(x, Source(source)), ConfirmInput),
                       LAMBDA y : Ok([Takes(y, source) EXCEPT !.configured = configured])),
                  LAMBDA y : AsError(Then(Restore(y), RestoreCapture))))

\* The saved microphone, or the default one when none is saved.
ActivateMicrophone(a) ==
  Then(Restore(a), LAMBDA x :
    IF x.active = "mic" /\ x.status # None THEN Ok(x)
    ELSE Then(Ask(x), LAMBDA y :
           IF ~plugged THEN Error(y)
           ELSE OrElse(Then(Then(AudioStart(y, "usb"), ConfirmInput),
                            LAMBDA z : Ok([Takes(z, "mic") EXCEPT !.configured = "auto"])),
                       LAMBDA z : AsError(RestoreCapture(z)))))

TrySpotify(a) ==
  IF spotify # "active" \/ a.wait THEN Error(a)
  ELSE OrElse(Then(Activate(a, "spotify", "auto"), LAMBDA x : Ok([x EXCEPT !.wait = FALSE])),
              LAMBDA x : Error([x EXCEPT !.wait = TRUE]))
TryBluetooth(a) == IF phone = None THEN Error(a) ELSE Activate(a, "bluetooth", "auto")
Automatic(a) ==
  LET ready == [a EXCEPT !.wait = @ /\ spotify = "active"]
  IN  OrElse(OrElse(OrElse(TrySpotify(ready), TryBluetooth), ActivateMicrophone),
             LAMBDA x : AsError(Restore(x)))

Deactivate(a, source) ==
  Then(IF a.status = None THEN Ok(a) ELSE StopEngine(a), LAMBDA x :
    Then(Restore(x), LAMBDA y :
      Ok([y EXCEPT !.active = source, !.started = FALSE, !.status = None])))

Maintain(a) ==
  CASE a.configured = "auto" -> Automatic(a)
    [] a.configured = "bluetooth" ->
         IF phone # None THEN Activate(a, "bluetooth", "bluetooth") ELSE Deactivate(a, "bluetooth")
    [] a.configured = "spotify" ->
         IF spotify # "out" THEN Activate(a, "spotify", "spotify") ELSE Deactivate(a, "spotify")
    [] OTHER -> Ok(a)

-----------------------------------------------------------------------------
(* The commands.                                                           *)
Configured(a, source) == [a EXCEPT !.configured = source, !.active = source]

\* select_audio_device: nothing brings the previous capture back when the new
\* one does not start; what fails after that does.  The scene and the settings
\* are the two calls that follow the engine's.
SelectDevice(a) ==
  Then(Ask(a), LAMBDA x :
    IF ~plugged THEN Error(x)
    ELSE Then(Restore(x), LAMBDA y :
           Then(AudioStart(y, "usb"), LAMBDA z :
             OrElse(Then(Then(Then(ConfirmInput(z), Ask), Ask), LAMBDA w :
                         Ok([Takes(w, "mic") EXCEPT !.chosen = "usb"])),
                    LAMBDA w : AsError(RestoreCapture(w))))))

SetSource(a, source) ==
  CASE source = "auto" -> Automatic([a EXCEPT !.configured = "auto", !.wait = FALSE])
    [] source = "off" ->
         Then(Then(Restore(a), StopEngine), LAMBDA x : Ok(Configured(x, "off")))
    [] source = "mic" ->
         Then(Then(Restore(a), SelectDevice), LAMBDA x : Ok(Configured(x, "mic")))
    [] source = "demo" ->
         Then(Restore(a), LAMBDA x :
           OrElse(Then(Then(AudioStart(x, "demo"), ConfirmInput), LAMBDA y :
                       Ok([Takes(y, "demo") EXCEPT !.configured = "demo"])),
                  LAMBDA y : AsError(RestoreCapture(y))))
    [] OTHER ->
         OrElse(Activate(a, source, source), LAMBDA x : AsError(Restore(x)))

\* What a mode that follows the music needs; its scene is module ControlPlane.
EnsureActive(a) ==
  IF a.configured = "off" THEN Error(a)
  ELSE IF a.started \/ a.status # None THEN Ok(a)
  ELSE OrElse(Then(ConfirmInput(a), LAMBDA x :
                   Ok(Takes(x, IF a.configured = "demo" THEN "demo" ELSE "mic"))),
              LAMBDA x : Then(Then(AudioStart(x, x.chosen), ConfirmInput),
                              LAMBDA y : Ok(Takes(y, "mic"))))
SetDynamic(a) ==
  IF a.status # None THEN Ok(a)
  ELSE Then(IF a.configured \in Maintained THEN Maintain(a)
            ELSE IF a.configured = "demo" THEN SetSource(a, "demo") ELSE EnsureActive(a),
            LAMBDA x : IF x.status = None THEN Error(x) ELSE Ok(x))

\* apply_audio_settings: a profile of the microphone, given to the engine when
\* that is its input, then the scene and the settings.
RollbackProfile(a) == AsError(OrElse(Configure(a, TRUE), Ok))
ApplySettings(a) ==
  Then(OrElse(Ask(a), Ok), LAMBDA x :
    IF x.status \notin Microphones
    THEN Then(Then(Ask(x), Ask), LAMBDA y : Ok([y EXCEPT !.chosen = "usb"]))
    ELSE OrElse(Then(Then(Then(Configure(x, FALSE), Ask), Ask), LAMBDA y :
                     Ok([y EXCEPT !.chosen = "usb", !.tuned = TRUE])),
                RollbackProfile))

-----------------------------------------------------------------------------
Init ==
  /\ \E started \in BOOLEAN :
       audio = IF started THEN [Fresh EXCEPT !.chosen = "usb", !.active = "mic", !.started = TRUE,
                                             !.status = "usb", !.wants = "usb", !.open = TRUE]
               ELSE Fresh
  /\ polled = None /\ phone = None /\ spotify = "out" /\ plugged = TRUE
  /\ backend \in Backends /\ calm = FALSE

Outside == UNCHANGED <<phone, spotify, plugged, backend, calm>>
Handle(outcomes) ==
  /\ \E o \in outcomes : audio' = [o.a EXCEPT !.hurry = FALSE]
  /\ UNCHANGED polled /\ Outside
Hurried == [audio EXCEPT !.hurry = TRUE]

Command ==
  /\ ~calm
  /\ \/ \E source \in Sources : Handle(SetSource(Hurried, source))
     \/ Handle(SelectDevice(Hurried))
     \/ Handle(ApplySettings(Hurried))
     \/ Handle(SetDynamic(Hurried))

Reads(a, status) == [a EXCEPT !.status = status]
Tick ==
  \E o \in Maintain(audio) :
    /\ audio' = Reads(o.a, polled)
    /\ UNCHANGED polled /\ Outside

Publish == polled' = Live(audio) /\ UNCHANGED audio /\ Outside
ReadStatus ==
  /\ audio' = Reads(audio, polled) /\ UNCHANGED polled /\ Outside
RetryDue ==
  audio.wait /\ audio' = [audio EXCEPT !.wait = FALSE] /\ UNCHANGED polled /\ Outside

\* The engine opens by itself what it could not open, and loses what is gone.
Recover ==
  /\ ~audio.open /\ audio.wants # None /\ Opens(audio.wants)
  /\ audio' = [audio EXCEPT !.open = TRUE] /\ UNCHANGED polled /\ Outside

Plug ==
  /\ plugged' = ~plugged
  /\ audio' = [audio EXCEPT !.open = @ /\ (audio.wants \in Microphones => plugged')]
  /\ UNCHANGED <<polled, phone, spotify, backend, calm>>
Phone ==
  /\ phone' \in (Phones \union {None}) \ {phone}
  /\ UNCHANGED <<audio, polled, spotify, plugged, backend, calm>>
Player ==
  /\ spotify' \in {"out", "idle", "active"} \ {spotify}
  /\ UNCHANGED <<audio, polled, phone, plugged, backend, calm>>

Calm ==
  ~calm /\ calm' = TRUE /\ UNCHANGED <<audio, polled, phone, spotify, plugged, backend>>
World == ~calm /\ (Plug \/ Phone \/ Player)
Next == Command \/ Tick \/ Publish \/ ReadStatus \/ RetryDue \/ Recover \/ World \/ Calm
Fairness ==
  WF_vars(Tick) /\ WF_vars(Publish) /\ WF_vars(ReadStatus) /\ WF_vars(RetryDue) /\ WF_vars(Recover)
Spec == Init /\ [][Next]_vars /\ Fairness

-----------------------------------------------------------------------------
\* The default source is the user's, or the user's is kept to be given back:
\* however often a phone, Spotify and microphones follow one another, no
\* source that LumiStripe set itself is ever taken for the user's; unless it was
\* forgotten at a call that failed, because it could not be asked for or put
\* back, or because the call had replaced it nevertheless (override_audio_source).
UserDefaultKept ==
  audio.lost \/ IF audio.original = None THEN audio.default = User
                ELSE audio.original \in {User, "unknown"}

\* The engine analyses its microphone with the profile that is saved, except
\* after a call that was not answered or a command cut at its deadline.
TunedAsSaved == audio.tuned \/ audio.halfway

\* In automatic mode, once nobody touches anything and Spotify does not play,
\* the engine hears the phone that streams, or else the microphone, and the
\* dashboard says so: no failed switch, restore or status read late keeps it
\* from there.  Only an unanswered call may.
AutoFollows ==
  [](calm /\ audio.configured = "auto" /\ spotify # "active" /\ (phone # None \/ plugged) =>
       <>[](\/ audio.halfway
            \/ IF phone # None THEN audio.active = "bluetooth" /\ Heard(audio) = phone
               ELSE audio.active = "mic" /\ Heard(audio) \in {"usb", User}))

\* What the user chose outlives the appliance's own routing, and what is tuned is saved.
ChoicesKept == UserDefaultKept /\ TunedAsSaved
=============================================================================
