------------------------------ MODULE PlayerName ------------------------------
(***************************************************************************)
(* The name under which Spotify shows the installation: the dashboard saves*)
(* it, and a helper writes it where the player's service reads it when it  *)
(* starts (set_identity_settings with the Soloist backend on hardware).    *)
(* Every step may fail, the request may be dropped at either await, and    *)
(* the helper it kills may have written the file before.                   *)
(***************************************************************************)
EXTENDS Naturals

CONSTANTS Names, FirstName

VARIABLES
  at, newName,  \* where the command is, and the name it sets
  saved,       \* spotify_device_name of the settings
  file,        \* the environment file of the service
  player,      \* the name the player runs under
  restarting,  \* systemd has been told to restart it
  torn         \* ghost: a command ended between the file and the settings
nameVars == <<at, newName, saved, file, player, restarting, torn>>

NameInit ==
  /\ at = "idle" /\ newName = FirstName /\ saved = FirstName /\ file = FirstName
  /\ player = FirstName /\ restarting = FALSE /\ torn = FALSE

\* A valid name: the helper is called where it differs from the one that is saved.
SetIdentity(name) ==
  /\ at = "idle"
  /\ newName' = name
  /\ at' = IF name = saved THEN "save" ELSE "helper"
  /\ UNCHANGED <<saved, file, player, restarting, torn>>

\* spotify-device-name renames a complete file into place.
SaveFirst ==
  /\ at = "helper"
  /\ saved' = newName
  /\ IF saved = newName THEN file' = newName /\ at' = "restart" ELSE UNCHANGED <<at, file>>
  /\ UNCHANGED <<newName, player, restarting, torn>>
WriteName ==
  /\ at = "helper"
  /\ file' = newName /\ at' = "restart"
  /\ UNCHANGED <<newName, saved, player, restarting, torn>>

\* systemctl restart --no-block.
RequestRestart ==
  /\ at = "restart"
  /\ restarting' = TRUE /\ at' = "save"
  /\ UNCHANGED <<newName, saved, file, player, torn>>

Save ==
  /\ at = "save"
  /\ saved' = newName /\ at' = "idle"
  /\ torn' = (torn /\ file # newName)
  /\ UNCHANGED <<newName, file, player, restarting>>

\* A failure, or a caller that leaves: nothing is taken back.
EndEarly ==
  /\ at # "idle" /\ at' = "idle"
  /\ torn' = (torn \/ (at # "helper" /\ file # saved))
  /\ UNCHANGED <<newName, saved, file, player, restarting>>

\* The service starts: as asked, or after a crash.
PlayerStarts ==
  /\ player' = file /\ restarting' = FALSE
  /\ UNCHANGED <<at, newName, saved, file, torn>>

NameNext ==
  \/ \E name \in Names : SetIdentity(name)
  \/ WriteName \/ RequestRestart \/ Save \/ EndEarly \/ PlayerStarts

-----------------------------------------------------------------------------
\* The name that is shown as saved is the one the player is given, and runs under
\* once it has started again, unless a command ended between the two: saving the
\* old name does not help then, for it is taken as unchanged.
NamesAgree ==
  at = "idle" /\ ~torn => file = saved /\ (~restarting => player = saved)
==============================================================================
