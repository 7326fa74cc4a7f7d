--------------------------- MODULE AudioCalibration ---------------------------
(***************************************************************************)
(* Calibration of the microphone: the control task collects levels from    *)
(* the audio statuses the engine publishes, first of a quiet room and then *)
(* of music, and a client may have its audio profile follow them.  The     *)
(* input may change at any time, statuses are lost (only the latest one is *)
(* kept), and the model's own copy of the status may be old.               *)
(*                                                                         *)
(* The frames of the engine are numbered as it numbers them; levels are not*)
(* modelled, a measurement may always turn out unusable.                   *)
(***************************************************************************)
EXTENDS Naturals, Sequences

CONSTANTS
  Devices,    \* microphones
  Enough,     \* how many levels each of two measurements needs
  MaxFrames,  \* bound: frames the engine makes
  MaxInputs   \* bound: changes of the input

ASSUME CalibrationAssumption == "none" \notin Devices /\ Enough \in Nat \ {0}

VARIABLES
  input,    \* the engine's: the device it listens to, or "none"
  heard,    \* the engine's: of each frame, the device it is from
  latest,   \* the engine's: the frame in its status, or 0
  inputs,
  seen,     \* audio_status of the control model
  session,  \* audio_calibration, or NoCalibration
  profile   \* audio_profiles: what each device's was measured from
calVars == <<input, heard, latest, inputs, seen, session, profile>>

NoCalibration == [device |-> "none", phase |-> "none", twoStep |-> FALSE, last |-> 0,
              quiet |-> <<>>, music |-> <<>>, result |-> FALSE, error |-> FALSE]
Active == session # NoCalibration
Status == [device |-> input, frame |-> latest]
NotMeasured == [quiet |-> <<>>, music |-> <<>>]

CalInit ==
  /\ input \in Devices /\ heard = <<>> /\ latest = 0 /\ inputs = 0
  /\ seen = [device |-> input, frame |-> 0]
  /\ session = NoCalibration
  /\ profile = [d \in Devices |-> NotMeasured]

\* A frame of the input, and an input that stops or is another.
EngineFrame ==
  /\ input # "none" /\ Len(heard) < MaxFrames
  /\ heard' = Append(heard, input) /\ latest' = Len(heard')
  /\ UNCHANGED <<input, inputs, seen, session, profile>>
InputChanges ==
  /\ inputs < MaxInputs /\ inputs' = inputs + 1
  /\ input' \in (Devices \cup {"none"}) \ {input} /\ latest' = 0
  /\ UNCHANGED <<heard, seen, session, profile>>

-----------------------------------------------------------------------------
Failed(s) == [s EXCEPT !.error = TRUE, !.result = FALSE]

\* The levels of a frame that is new go to the phase.
EverySample(s, status) ==
  IF status.frame = 0 THEN s
  ELSE IF s.phase = "quiet"
    THEN [s EXCEPT !.last = status.frame, !.quiet = Append(@, status.frame)]
    ELSE [s EXCEPT !.last = status.frame, !.music = Append(@, status.frame)]
Sampled(s, status) ==
  IF status.frame <= s.last THEN s
  ELSE IF s.phase = "quiet"
    THEN [s EXCEPT !.last = status.frame, !.quiet = Append(@, status.frame)]
    ELSE [s EXCEPT !.last = status.frame, !.music = Append(@, status.frame)]

\* At the end of its time: the music is waited for, or there is a result.
Ended(s, fresh) ==
  IF s.twoStep /\ s.phase = "quiet"
    THEN IF Len(s.quiet) < Enough \/ ~fresh
           THEN {[s EXCEPT !.error = TRUE]} ELSE {[s EXCEPT !.phase = "waiting"]}
    ELSE {[s EXCEPT !.error = TRUE]} \cup
         IF IF s.twoStep THEN Len(s.music) >= Enough ELSE s.quiet # <<>>
           THEN {[s EXCEPT !.result = TRUE]} ELSE {}

\* advance_audio_calibration: the session may have expired, and its time be over.
Advanced(s, status) ==
  {Failed(s)} \cup
  IF status.device # s.device THEN {Failed(s)}
  ELSE IF s.error \/ s.result \/ s.phase = "waiting" THEN {s}
  ELSE {Sampled(s, status)} \cup Ended(Sampled(s, status), status.frame # 0)

\* audio.changed, and the state tick: the latest status.
StatusArrives ==
  /\ seen' = Status
  /\ session' \in IF Active THEN Advanced(session, Status) ELSE {session}
  /\ UNCHANGED <<input, heard, latest, inputs, profile>>
\* The engine's audio status cannot be had: fail_audio_calibration.
StatusFails ==
  /\ seen' = [seen EXCEPT !.device = "none"]
  /\ session' = IF Active /\ ~session.error THEN Failed(session) ELSE session
  /\ UNCHANGED <<input, heard, latest, inputs, profile>>

Client == UNCHANGED <<input, heard, latest, inputs, seen>>

\* start_audio_calibration, for the device of the model's status.
Start(twoStep) ==
  /\ ~Active /\ seen.device # "none"
  /\ session' = [NoCalibration EXCEPT !.device = seen.device, !.phase = "quiet",
                                  !.twoStep = twoStep, !.last = seen.frame]
  /\ Client /\ UNCHANGED profile

\* begin_audio_calibration_music; the client has the music on.
BeginMusic ==
  /\ session.phase = "waiting" /\ ~session.error
  /\ seen.device = session.device /\ seen.frame # 0
  /\ session' = [session EXCEPT !.phase = "music", !.last = seen.frame]
  /\ Client /\ UNCHANGED profile

\* finish_audio_calibration: discarded, or applied to the session's device, whose
\* profile the engine or the disk may refuse.
Discard == Active /\ session' = NoCalibration /\ Client /\ UNCHANGED profile
Apply ==
  /\ session.result /\ ~session.error
  /\ seen.device = session.device
  /\ session.twoStep => seen.frame # 0
  /\ profile' = [profile EXCEPT ![session.device] =
                   [quiet |-> session.quiet, music |-> session.music]]
  /\ session' = NoCalibration
  /\ Client

CalNext ==
  \/ EngineFrame \/ InputChanges \/ StatusArrives \/ StatusFails
  \/ (\E twoStep \in BOOLEAN : Start(twoStep)) \/ BeginMusic \/ Discard \/ Apply

-----------------------------------------------------------------------------
\* A profile follows what was measured with its device: enough frames of that
\* device, each counted once, all of the quiet room before all of the music, even
\* when the input changed, came back, or statuses were lost in between.
ProfileIsMeasured ==
  \A d \in Devices :
    LET p == profile[d] IN
      p # NotMeasured =>
        /\ LET all == p.quiet \o p.music IN
             \A i \in 1..Len(all) :
               heard[all[i]] = d /\ \A j \in 1..(i - 1) : all[j] < all[i]
        /\ p.quiet # <<>>
        /\ p.music # <<>> => Len(p.quiet) >= Enough /\ Len(p.music) >= Enough
==============================================================================
