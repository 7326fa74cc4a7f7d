--------------------------- MODULE SpotifyProvider ----------------------------
(* The two Spotify players behind one provider seam                          *)
(* (apps/lumistripe-web/src/spotify.rs: SpotifyProvider): the configuration  *)
(* chooses one, the callers see the same commands, answers and snapshot.     *)
EXTENDS SpotifyConnect, SpotifySoloist

spotifyVars == <<shared, connect, socket>>

SpotifyInit ==
    /\ backend \in {"librespot", "soloist"}
    /\ CommandsInit /\ ConnectInit /\ SoloistInit

SpotifyNext ==
    \/ Callers /\ UNCHANGED <<connect, socket>>
    \/ ConnectNext /\ UNCHANGED socket
    \/ SoloistNext /\ UNCHANGED connect

(* The select! loops poll every ready branch and choose among them at        *)
(* random: what stays ready is taken in the end, and an attempt to open a    *)
(* session succeeds in the end when it is made again and again.              *)
Serving == at = "session"
SpotifyFairness ==
    /\ WF_spotifyVars(ConnectNext /\ ~Serving /\ at' # at /\ UNCHANGED socket)
    /\ WF_spotifyVars(backend = "librespot" /\ EndSession("stopped") /\ UNCHANGED <<backend, socket>>)
    /\ SF_spotifyVars(backend = "librespot" /\ Restart /\ at' = "choose" /\ UNCHANGED <<backend, socket>>)
    /\ SF_spotifyVars(backend = "librespot" /\ Opened /\ UNCHANGED <<backend, socket>>)
    /\ WF_spotifyVars(SoloistNext /\ ~Serving /\ UNCHANGED connect)
    /\ WF_spotifyVars(backend = "soloist" /\ CloseSession /\ UNCHANGED <<backend, connect>>)
    /\ SF_spotifyVars(backend = "soloist" /\ Connected /\ UNCHANGED <<backend, connect>>)

SpotifySpec == SpotifyInit /\ [][SpotifyNext]_spotifyVars /\ SpotifyFairness

(* -- properties ----------------------------------------------------------- *)

SpotifyPlaces == {"unstarted", "restart", "pause", "choose", "opening", "session", "shutting",
           "retry", "unpaired", "closing", "connecting", "draining", "lost", "backoff",
           "ending", "closingChannel", "done"}

SpotifyTypeOK ==
    /\ backend \in {"librespot", "soloist"} /\ at \in SpotifyPlaces /\ stopped \in BOOLEAN
    /\ answer \in [Calls -> Replies \cup {None}]
    /\ queue \in Seq(Calls \cup {State}) /\ Len(queue) <= QueueLimit
    /\ pending \in Calls \cup {None} /\ {spoiled, misled} \subseteq BOOLEAN
    /\ {creds, used, cache} \subseteq Accounts \cup {None}
    /\ status \in [connected : BOOLEAN, loggedIn : BOOLEAN, active : BOOLEAN]

(* Both players keep the promise of CommandPromise: at most one delivery and *)
(* one answer, and the answer is true.  Librespot says "disconnected" of a   *)
(* command that the player has, too: only from Soloist does it exclude a     *)
(* delivery.  And what Soloist is taken to say is not relied upon once an    *)
(* error that was not about a command has answered one, in that session.     *)
Promise == INSTANCE CommandPromise WITH
    answer <- [c \in Calls |-> IF answer[c] = "asking" THEN None ELSE answer[c]],
    definite <- backend = "soloist",
    clear <- ~misled
ImplementsPromise == Promise!Spec

(* The player waits to be paired only when no credentials are left: neither  *)
(* in the file nor pending, but for refused ones that could not be removed   *)
(* from the file.  Otherwise it would never come back by itself.             *)
UnpairedHasNone == at = "unpaired" => creds = None /\ (cache = None \/ spoiled)

(* Through lost connections, renames, failures and new pairings the provider *)
(* is connected again and again, unless it is stopped or has to be paired.   *)
ComesBack == []<>(status.connected \/ stopped \/ at = "unpaired")

(* A provider told to stop ends, whatever it was waiting for. *)
Stops == stopped ~> at = "done"

(* A provider keeps going by itself until it is told to end, and then ends.  *)
KeepsGoing == [](SpotifyTypeOK /\ UnpairedHasNone) /\ ComesBack /\ Stops
=============================================================================
