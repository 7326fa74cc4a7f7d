------------------------------ MODULE MCServices ------------------------------
\* Parts of the engine and of the dashboard that share no state, checked side by
\* side: a behaviour is one of a single part, and the others rest.
EXTENDS MCAnimation, WifiConnect, StructureTracker, Preferences, AudioCalibration,
        PlayerName

VARIABLE part

MCConfirm == [breakdown |-> 3, groove |-> 2, buildup |-> [r \in BOOLEAN |-> IF r THEN 4 ELSE 2]]
MCHold == [r \in BOOLEAN |-> IF r THEN 6 ELSE 3]
MCSpan == [r \in BOOLEAN |-> IF r THEN 3 ELSE 2]

ServicesInit ==
  /\ part \in {"animation", "wifi", "structure", "preferences", "calibration", "name"}
  /\ Init /\ (part # "animation" => scene = Cycled)
  /\ WifiInit /\ NameInit
  /\ StructureInit /\ (part # "structure" => level = 0)
  /\ PrefInit
  /\ part # "preferences" =>
       topic = "idle" /\ layout = "mirrored" /\ shown = <<CHOOSE s \in Stripes : TRUE>>
  /\ CalInit /\ (part # "calibration" => input = CHOOSE d \in Devices : TRUE)

CoordinateAnimation ==
  /\ part = "animation" /\ Next
  /\ UNCHANGED <<wifiVars, structureVars, prefVars, calVars, nameVars, part>>
ConnectWifi ==
  /\ part = "wifi" /\ WifiNext
  /\ UNCHANGED <<vars, structureVars, prefVars, calVars, nameVars, part>>
TrackStructure ==
  /\ part = "structure" /\ StructureNext
  /\ UNCHANGED <<vars, wifiVars, prefVars, calVars, nameVars, part>>
KeepPreferences ==
  /\ part = "preferences" /\ PrefNext
  /\ UNCHANGED <<vars, wifiVars, structureVars, calVars, nameVars, part>>
CalibrateAudio ==
  /\ part = "calibration" /\ CalNext
  /\ UNCHANGED <<vars, wifiVars, structureVars, prefVars, nameVars, part>>
NamePlayer ==
  /\ part = "name" /\ NameNext
  /\ UNCHANGED <<vars, wifiVars, structureVars, prefVars, calVars, part>>
ServicesVars ==
  <<vars, wifiVars, structureVars, prefVars, calVars, nameVars, part>>
ServicesNext ==
  \/ CoordinateAnimation
  \/ ConnectWifi \/ TrackStructure \/ KeepPreferences
  \/ CalibrateAudio \/ NamePlayer
ServicesSpec == ServicesInit /\ [][ServicesNext]_ServicesVars
===============================================================================
