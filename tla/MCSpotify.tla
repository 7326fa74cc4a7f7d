------------------------------ MODULE MCSpotify -------------------------------
EXTENDS SpotifyProvider
CONSTANTS c1, c2, State1

(* Acknowledgements look alike; what the built-in player shows does not. *)
MCWants == [c \in Calls |-> IF c = c1 THEN "next" ELSE "repeat"]
MCName == [c \in Calls |-> "skip_next"]
MCAfter == [c \in Calls |-> None]
=============================================================================
