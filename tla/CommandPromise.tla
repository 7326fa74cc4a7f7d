---------------------------- MODULE CommandPromise ----------------------------
(* What a Spotify provider promises the dashboard about a playback command   *)
(* (ProviderError and SpotifyError in crates/lumistripe-spotify and          *)
(* apps/lumistripe-web/src/spotify.rs): it is answered at most once, the     *)
(* answer is true when it is given, and nothing happens to the command that  *)
(* the answer excludes.  "ok" says the player confirmed it, "refused" that   *)
(* the player rejected it, "undelivered" that it never reached the player    *)
(* and never will, "unsure" that it may still complete, and "disconnected"   *)
(* that it will not reach the player any more: whether it has done so        *)
(* already is known of a provider whose answers are definite, and only of    *)
(* such a one.                                                               *)
CONSTANTS Calls, None

VARIABLES answer,      \* [Calls -> None, "waiting" or one of Answers]
          delivered,   \* the calls that reached the player
          confirmed,   \* the calls that the player confirmed
          definite,    \* "disconnected" says that the call was not delivered
          clear        \* what the player says can be told apart

vars == <<answer, delivered, confirmed>>

Answers == {"ok", "refused", "undelivered", "disconnected", "unsure"}

Init ==
    /\ answer = [c \in Calls |-> None]
    /\ delivered = {} /\ confirmed = {}

Ask(c) ==
    /\ answer[c] = None
    /\ answer' = [answer EXCEPT ![c] = "waiting"]
    /\ UNCHANGED <<delivered, confirmed>>

(* What is excluded once answered, unless the player was misunderstood.      *)
MayCome(c) ==
    \/ answer[c] \in {"waiting", "unsure"}
    \/ ~clear /\ answer[c] \in {"ok", "refused"}

Deliver(c) ==
    /\ MayCome(c) /\ c \notin delivered
    /\ delivered' = delivered \cup {c}
    /\ confirmed' \in {confirmed, confirmed \cup {c}}
    /\ UNCHANGED answer

Confirm(S) ==
    /\ confirmed' = confirmed \cup (S \cap delivered)
    /\ UNCHANGED <<answer, delivered>>

Fits(c, a) ==
    CASE a = "ok"           -> c \in confirmed' \/ ~clear'
      [] a = "refused"      -> c \in delivered' \/ ~clear'
      [] a = "undelivered"  -> c \notin delivered'
      [] a = "disconnected" -> definite => c \notin delivered'
      [] a = "unsure"       -> TRUE

(* One event may answer several calls (the queue fails as a whole), and the  *)
(* delivery or the confirmation that answers a call may be part of it.       *)
Answer(S, a) ==
    /\ delivered' \in {delivered, delivered \cup S}
    /\ \E T \in SUBSET delivered' : confirmed' = confirmed \cup T
    /\ \A c \in S : answer[c] = "waiting" /\ Fits(c, a)
    /\ answer' = [c \in Calls |-> IF c \in S THEN a ELSE answer[c]]

(* A call that the status or the queue does not admit never starts.          *)
Decline(c) ==
    /\ answer[c] = None
    /\ \E a \in {"undelivered", "disconnected"} : answer' = [answer EXCEPT ![c] = a]
    /\ UNCHANGED <<delivered, confirmed>>

Next ==
    \/ \E c \in Calls : Ask(c) \/ Decline(c) \/ Deliver(c)
    \/ \E S \in SUBSET Calls : Confirm(S)
    \/ \E S \in SUBSET Calls, a \in Answers : Answer(S, a)

Spec == Init /\ [][Next]_vars
=============================================================================
