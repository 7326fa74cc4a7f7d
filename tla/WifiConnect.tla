----------------------------- MODULE WifiConnect -----------------------------
(***************************************************************************)
(* Joining a Wi-Fi network: NetworkManagerService of the dashboard, which  *)
(* lets one request run at a time, and the connect operation of the root   *)
(* helper, which writes a profile that does not connect by itself, proves  *)
(* it, and only then has it replace the profiles of the network.           *)
(*                                                                         *)
(* The requests are for one adapter and one network.  The dashboard may    *)
(* not kill root's helper: a request that is dropped gives its permit back *)
(* while the helper runs on, and one whose time is over waits for it.      *)
(***************************************************************************)
EXTENDS Naturals, FiniteSets

CONSTANTS Helpers,  \* the helper processes there are room for
          Profiles  \* the profiles that are ever written, named by their UUIDs

ASSUME ProfilesAssumption == "none" \notin Profiles

VARIABLES
  permit,   \* the helper whose request holds the permit of `operation', or "free"
  helper,   \* where each helper is, which profile it writes, and whether it failed
  files,    \* the profiles in the directory, and whether they connect by themselves
  known,    \* what NetworkManager knows of them
  used,     \* the UUIDs that were drawn
  proven,   \* ghost: the profiles that a connection was made with
  excused   \* ghost: how the network's last proven profile may have been lost
wifiVars == <<permit, helper, files, known, used, proven, excused>>

Nobody == [at |-> "idle", profile |-> "none"]
Profile(id, auto) == [id |-> id, auto |-> auto]
Ids(set) == {p.id : p \in set}
Goes(h, place) == helper' = [helper EXCEPT ![h].at = place]
Without(id) == {p \in files : p.id # id}

WifiInit ==
  /\ permit = "free" /\ helper = [h \in Helpers |-> Nobody]
  /\ files = {} /\ known = {} /\ used = {} /\ proven = {} /\ excused = FALSE

-----------------------------------------------------------------------------
(* The dashboard.                                                          *)
\* request: a free permit, or "busy"; the helper is spawned.
Request(h) ==
  /\ permit = "free" /\ helper[h] = Nobody
  /\ permit' = h
  /\ Goes(h, "check")
  /\ UNCHANGED <<files, known, used, proven, excused>>

\* The client leaves: the permit is free again, and the helper runs on.
DropRequest ==
  /\ permit # "free"
  /\ permit' = "free"
  /\ UNCHANGED <<helper, files, known, used, proven, excused>>

\* The helper has answered, and its process ends.
Answer(h) ==
  /\ helper[h].at = "answer"
  /\ helper' = [helper EXCEPT ![h] = Nobody]
  /\ permit' = IF permit = h THEN "free" ELSE permit
  /\ UNCHANGED <<files, known, used, proven, excused>>

-----------------------------------------------------------------------------
(* The helper.                                                             *)
\* dispatch, adapter_for_connection, get_networks and key_management refuse, or
\* the first profile is written. (Which fresh UUID is drawn makes no difference.)
Check(h) ==
  /\ helper[h].at = "check"
  /\ \/ Goes(h, "answer") /\ UNCHANGED <<files, used>>
     \/ /\ used # Profiles
        /\ LET id == CHOOSE fresh \in Profiles \ used : TRUE IN
             /\ helper' = [helper EXCEPT ![h] = [at |-> "load", profile |-> id]]
             /\ files' = files \cup {Profile(id, FALSE)}
             /\ used' = used \cup {id}
  /\ UNCHANGED <<permit, known, proven, excused>>

\* One nmcli call and what follows it, or a failure.
Nmcli(h, at, next, Done) ==
  /\ helper[h].at = at
  /\ \/ Done /\ Goes(h, next)
     \/ Goes(h, "delete") /\ UNCHANGED <<files, known, proven>>
  /\ UNCHANGED <<permit, used>>

Load(h) ==
  /\ Nmcli(h, "load", "up",
           /\ known' = {p \in known : p.id # helper[h].profile}
                         \cup {p \in files : p.id = helper[h].profile}
           /\ UNCHANGED <<files, proven>>)
  /\ UNCHANGED excused

\* Only the right password connects, and only a profile NetworkManager knows.
Up(h) ==
  /\ Nmcli(h, "up", "auto",
           /\ helper[h].profile \in Ids(known)
           /\ proven' = proven \cup {helper[h].profile}
           /\ UNCHANGED <<files, known>>)
  /\ UNCHANGED excused

\* write_profile: the profile that connects by itself replaces the other at once.
AutoAtOnce(h) ==
  /\ helper[h].at = "up" /\ Goes(h, "reload")
  /\ files' = Without(helper[h].profile) \cup {Profile(helper[h].profile, TRUE)}
  /\ UNCHANGED <<permit, known, used, proven, excused>>
AutoConnect(h) ==
  /\ Nmcli(h, "auto", "reload",
           /\ files' = Without(helper[h].profile) \cup {Profile(helper[h].profile, TRUE)}
           /\ UNCHANGED <<known, proven>>)
  /\ UNCHANGED excused

Reload(h) ==
  /\ Nmcli(h, "reload", "remove", known' = files /\ UNCHANGED <<files, proven>>)
  /\ UNCHANGED excused

\* remove_old_profiles: every other profile of the network. A helper whose client
\* left may be at it, too.
RemoveAtOnce(h) ==
  /\ helper[h].at = "load" /\ Goes(h, "up")
  /\ files' = {p \in files : p.id = helper[h].profile}
  /\ UNCHANGED <<permit, known, used, proven, excused>>
RemoveOld(h) ==
  /\ helper[h].at = "remove" /\ Goes(h, "again")
  /\ files' = {p \in files : p.id = helper[h].profile}
  /\ excused' = (excused \/ \E other \in Helpers \ {h} : helper[other] # Nobody)
  /\ UNCHANGED <<permit, known, used, proven>>

\* The last reload: a failure deletes the new profile after the old ones.
ReloadAgain(h) ==
  /\ Nmcli(h, "again", "answer", known' = files /\ UNCHANGED <<files, proven>>)
  /\ excused' = (excused \/ helper'[h].at = "delete")

\* nmcli deletes the profile it knows, with its file; then the helper does.
Delete(h) ==
  /\ helper[h].at = "delete" /\ Goes(h, "unlink")
  /\ \/ /\ helper[h].profile \in Ids(known)
        /\ known' = {p \in known : p.id # helper[h].profile}
        /\ files' = Without(helper[h].profile)
     \/ UNCHANGED <<known, files>>
  /\ UNCHANGED <<permit, used, proven, excused>>
Unlink(h) ==
  /\ helper[h].at = "unlink" /\ Goes(h, "answer")
  /\ files' = Without(helper[h].profile)
  /\ UNCHANGED <<permit, known, used, proven, excused>>

Helps(h) ==
  Check(h) \/ Load(h) \/ Up(h) \/ AutoConnect(h) \/ Reload(h) \/ RemoveOld(h) \/ ReloadAgain(h)
  \/ Delete(h) \/ Unlink(h) \/ Answer(h)

\* The power fails anywhere; NetworkManager starts with what the directory holds.
PowerFails ==
  /\ permit' = "free" /\ helper' = [h \in Helpers |-> Nobody] /\ known' = files
  /\ UNCHANGED <<files, used, proven, excused>>

WifiNext ==
  \/ \E h \in Helpers : Request(h) \/ Helps(h)
  \/ DropRequest \/ PowerFails
WifiSpec == WifiInit /\ [][WifiNext]_wifiVars

-----------------------------------------------------------------------------
\* No password that was never accepted is used by itself, at no crash and for no
\* failure: what connects by itself, in the directory or in NetworkManager, has
\* been connected with.
OnlyProvenConnect == \A p \in files \cup known : p.auto => p.id \in proven

\* A network that could be joined can be joined again: whatever later attempts
\* fail, with whatever password, and wherever the power fails, some profile that
\* connects by itself stays once one that no helper is still writing was there.
\* (Two helpers at once may each remove the other's, and a last reload that fails
\* deletes the only one: deploy/README.md:357.)
NetworkKept ==
  [][(\E p \in files : p.auto /\ \A h \in Helpers : helper[h].profile # p.id)
       => excused' \/ \E p \in files' : p.auto]_wifiVars
==============================================================================
