--------------------------- MODULE ReleasePromise ---------------------------
(***************************************************************************)
(* What the updater promises about the releases on the appliance, without  *)
(* saying how it fetches, checks, switches or cleans up: at every instant, *)
(* through failures, signals and power losses, the pointer the web service *)
(* starts from names a release that is whole, and so does the release to   *)
(* go back to while an update is under way.                                *)
(***************************************************************************)
CONSTANT Commit

VARIABLES
  active,    \* the commit the pointer names
  fallback,  \* the commits that must stay available: {} when no update runs
  whole      \* the commits whose release is complete and verified

promised == <<active, fallback, whole>>

Init == /\ active \in Commit
        /\ fallback = {}
        /\ whole = {active}

\* An update starts from a whole release or not at all.
Begin == /\ fallback = {}
         /\ fallback' \in {{c} : c \in whole}
         /\ UNCHANGED <<active, whole>>

\* A release appears all at once.
Add == /\ \E c \in Commit \ whole : whole' = whole \cup {c}
       /\ UNCHANGED <<active, fallback>>

\* The pointer moves to a whole release only.
Activate == /\ fallback # {}
            /\ active' \in whole
            /\ UNCHANGED <<fallback, whole>>

\* Releases nobody may need are discarded.
Discard == /\ \E c \in whole \ ({active} \cup fallback) : whole' = whole \ {c}
           /\ UNCHANGED <<active, fallback>>

\* The update is over, well or badly.
End == /\ fallback' = {}
       /\ UNCHANGED <<active, whole>>

Next == Begin \/ Add \/ Activate \/ Discard \/ End

Spec == Init /\ [][Next]_promised

\* The promise in one formula: what is active, or may be gone back to, is whole.
Intact == {active} \cup fallback \subseteq whole
=============================================================================
