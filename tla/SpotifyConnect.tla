---------------------------- MODULE SpotifyConnect ----------------------------
(* The supervisor of the built-in Spotify Connect player                     *)
(* (crates/lumistripe-spotify/src/lib.rs: supervise, run_connected_session   *)
(* and their helpers).  It announces the device, connects with the           *)
(* credentials of the last pairing, runs one session at a time, starts over  *)
(* when the device is renamed and retries when the connection is lost.       *)
(* Discovery, the player and Spotify are outside: their events are free.     *)
EXTENDS SpotifyCommands

CONSTANTS
    Accounts,      \* the credentials users may select
    Names,         \* the names of the device
    Wants,         \* [Calls -> what each asks the player to show]
    MaxSelections  \* bound: pairings by users

ASSUME ConnectAssumption ==
    Names # {} /\ None \notin Accounts /\ MaxSelections \in Nat

VARIABLES
    creds,       \* pending_credentials
    used,        \* retry_credentials: those of the session, None without one
    exit,        \* why the session ended, while it shuts down
    cache,       \* the credentials file
    spoiled,     \* what is in it was refused, and could not be removed (history)
    name,        \* the name that discovery announces
    wanted,      \* the name in the settings
    seen,        \* the watch has no change to report
    selections   \* pairings so far

file     == <<cache, spoiled>>
accounts == <<creds, used, file, selections>>
naming   == <<name, wanted, seen>>
connect  == <<accounts, naming, exit>>

ConnectInit ==
    /\ creds = None /\ used = None
    /\ cache \in IF backend = "librespot" THEN Accounts \cup {None} ELSE {None}
    /\ wanted = CHOOSE n \in Names : TRUE
    /\ name = wanted /\ seen = TRUE
    /\ selections = 0 /\ exit = None /\ spoiled = FALSE

Goto(place) == at' = place

(* A user selects the device in Spotify: discovery yields credentials.       *)
Selected(account) ==
    /\ selections < MaxSelections
    /\ selections' = selections + 1
    /\ creds' = account

(* The watch reports that the name was set, whether or not it differs.       *)
Renamed == ~seen /\ seen' = TRUE /\ UNCHANGED <<name, wanted>>

(* set_device_name, from the settings. *)
Rename(n) ==
    /\ n # wanted /\ wanted' = n /\ seen' = FALSE
    /\ UNCHANGED <<shared, accounts, name, exit>>

Down == [status EXCEPT !.connected = FALSE, !.loggedIn = FALSE]

(* -- the outer loop ------------------------------------------------------- *)

Begin ==
    /\ at = "unstarted"
    /\ Goto(IF stopped THEN "done" ELSE "restart")
    /\ UNCHANGED <<stopped, status, commands, pending, effects, connect>>

(* Storage is prepared, then the cached credentials are read, then discovery *)
(* starts; each may fail.                                                    *)
Restart ==
    /\ at = "restart" /\ ~stopped
    /\ name' = wanted /\ seen' = TRUE
    /\ \/ Goto("pause") /\ status' = Down /\ UNCHANGED creds
       \/ /\ creds' = IF creds = None THEN cache ELSE creds
          /\ \/ Goto("pause") /\ status' = Down
             \/ Goto("choose") /\ UNCHANGED status
    /\ UNCHANGED <<stopped, commands, pending, effects, used, file, selections,
                   wanted, exit>>

(* Mutant: the end of the delay is taken for a stop. *)
PauseGivesUp ==
    /\ at = "pause" /\ ~stopped
    /\ Goto("ending")
    /\ UNCHANGED <<stopped, status, commands, pending, effects, connect>>

(* wait_to_retry *)
Pause ==
    /\ at = "pause" /\ ~stopped
    /\ Goto("restart")
    /\ \/ UNCHANGED naming
       \/ Renamed
    /\ UNCHANGED <<stopped, status, commands, pending, effects, accounts, exit>>

(* Discovery is shut down and what is queued fails. *)
Close ==
    /\ at = "closing"
    /\ status' = Offline
    /\ FailQueued
    /\ Goto(IF stopped THEN "ending"
            ELSE IF name # wanted \/ creds # None THEN "restart" ELSE "pause")
    /\ UNCHANGED <<stopped, pending, effects, connect>>

End ==
    /\ at = "ending" \/ (stopped /\ at \in {"restart", "pause"})
    /\ FailQueued
    /\ status' = Offline
    /\ Goto("closingChannel")
    /\ UNCHANGED <<stopped, pending, effects, connect>>

(* -- discovery ------------------------------------------------------------ *)

(* A session is opened when credentials are at hand. *)
Choose ==
    /\ at = "choose" /\ ~stopped
    /\ IF creds # None
       THEN /\ used' = creds /\ creds' = None
            /\ status' = Down
            /\ Goto("opening")
       ELSE Goto("unpaired") /\ UNCHANGED <<creds, used, status>>
    /\ UNCHANGED <<stopped, commands, pending, effects, file, selections, naming, exit>>

(* The select! that any place of the inner loop has, whatever else it waits  *)
(* for: a stop, a new name, the end of discovery, a new pairing.             *)
Leave(place) ==
    /\ at = place
    /\ \/ stopped /\ UNCHANGED naming
       \/ Renamed
       \/ UNCHANGED naming
    /\ Goto("closing")

LeaveChoose ==
    /\ at = "choose" /\ stopped
    /\ Goto("closing")
    /\ UNCHANGED <<stopped, status, commands, pending, effects, connect>>

LeaveUnpaired ==
    /\ Leave("unpaired")
    /\ UNCHANGED <<stopped, status, commands, pending, effects, accounts, exit>>

PairUnpaired(account) ==
    /\ at = "unpaired" /\ Selected(account)
    /\ Goto("choose")
    /\ UNCHANGED <<stopped, status, commands, pending, effects, used, file, naming, exit>>

(* Without a session a command is answered at once. *)
DeclineUnpaired(c) ==
    /\ at = "unpaired" /\ queue # <<>> /\ c = Head(queue)
    /\ queue' = Tail(queue)
    /\ answer' = Answered({c}, "disconnected")
    /\ UNCHANGED <<at, stopped, status, expired, pending, effects, connect>>

(* A session that is being opened: a rename keeps credentials, and a stop or *)
(* the end of discovery drops them.                                          *)
AbandonOpening ==
    /\ Leave("opening")
    /\ creds' = IF seen # seen' THEN (IF cache # None THEN cache ELSE used) ELSE None
    /\ used' = None
    /\ UNCHANGED <<stopped, status, commands, pending, effects, file, selections, exit>>

PairOpening(account) ==
    /\ at = "opening" /\ Selected(account)
    /\ used' = None
    /\ Goto("choose")
    /\ UNCHANGED <<stopped, status, commands, pending, effects, file, naming, exit>>

(* The library stores the credentials of every session it opens. *)
Opened ==
    /\ at = "opening"
    /\ cache' = used /\ spoiled' = FALSE
    /\ status' = [status EXCEPT !.connected = TRUE, !.loggedIn = TRUE]
    /\ Goto("session")
    /\ UNCHANGED <<stopped, commands, pending, effects, creds, used, selections, naming,
                   exit>>

(* Refused credentials are deleted, if the file can be removed: nobody is    *)
(* told when it cannot.  Others are kept for the next attempt.               *)
OpenFails(refused) ==
    /\ at = "opening"
    /\ IF refused
       THEN /\ cache' \in {None, cache} /\ spoiled' = (cache' # None)
            /\ creds' = None /\ status' = [Down EXCEPT !.active = FALSE]
       ELSE creds' = used /\ status' = Down /\ UNCHANGED file
    /\ FailQueued
    /\ used' = None
    /\ Goto("retry")
    /\ UNCHANGED <<stopped, pending, effects, selections, naming, exit>>

(* wait_for_retry_or_pairing: a name that was set but is the same goes on.   *)
Retry ==
    /\ at = "retry" /\ ~stopped
    /\ \/ /\ \/ UNCHANGED naming
             \/ Renamed
          /\ Goto(IF name = wanted THEN "choose" ELSE "closing")
          /\ UNCHANGED accounts
       \/ /\ \E account \in Accounts : Selected(account)
          /\ Goto(IF name = wanted THEN "choose" ELSE "closing")
          /\ UNCHANGED <<used, file, naming>>
       \/ Goto("closing") /\ UNCHANGED <<accounts, naming>>
    /\ UNCHANGED <<stopped, status, commands, pending, effects, exit>>

StopRetry ==
    /\ at = "retry" /\ stopped
    /\ Goto("closing")
    /\ UNCHANGED <<stopped, status, commands, pending, effects, connect>>
(* -- a session ------------------------------------------------------------ *)

(* The session ends for one of its reasons: the pending command, which the   *)
(* player has, gets the answer of one that never left the queue.             *)
EndSession(reason) ==
    /\ at = "session"
    /\ CASE reason = "stopped"  -> stopped /\ UNCHANGED <<naming, creds, selections>>
         [] reason = "renamed"  -> Renamed /\ UNCHANGED <<creds, selections>>
         [] reason = "selected" -> (\E account \in Accounts : Selected(account))
                                   /\ UNCHANGED naming
         [] OTHER               -> UNCHANGED <<naming, creds, selections>>
    /\ FailPending("disconnected")
    /\ exit' = reason
    /\ Goto("shutting")
    /\ UNCHANGED <<stopped, status, effects, used, file>>

(* The cached credentials are preferred to those of the session.             *)
ForRetry == IF cache # None THEN cache ELSE used

(* What follows the shutdown of the session.  A new pairing and the end of   *)
(* discovery leave the snapshot as it is.                                    *)
LeaveSession ==
    /\ at = "shutting"
    /\ creds' = IF exit \in {"renamed", "lost"} THEN ForRetry ELSE creds
    /\ IF exit = "lost" THEN status' = Offline /\ FailQueued
       ELSE UNCHANGED <<status, commands>>
    /\ Goto(CASE exit = "selected" -> "choose"
              [] exit = "lost"     -> "retry"
              [] OTHER             -> "closing")
    /\ exit' = None /\ used' = None
    /\ UNCHANGED <<stopped, pending, effects, file, selections, naming>>

(* The deadline of the pending command. *)
TimeOut ==
    /\ at = "session" /\ pending \in expired
    /\ FailPending("unsure")
    /\ UNCHANGED <<at, stopped, status, effects, connect>>

(* A command is taken when none is pending: dropped when its caller left,    *)
(* refused when it is late, and dispatched to the player otherwise.          *)
SkipCommand(c) ==
    /\ at = "session" /\ Fetch(c)
    /\ ~Deliverable(c)
    /\ answer' = Answered({c}, "undelivered")
    /\ UNCHANGED <<at, stopped, status, expired, pending, effects, connect>>

Dispatch(c) ==
    /\ at = "session" /\ Fetch(c)
    /\ Deliverable(c)
    /\ pending' = c
    /\ delivered' = delivered \cup {c}
    /\ UNCHANGED <<at, stopped, status, answer, expired, confirmed, connect>>

(* It is refused on the spot: out of range, or the channel of the player is  *)
(* closed, which may come between the two halves of a repeat.                *)
DispatchFails(c) ==
    /\ at = "session" /\ Fetch(c)
    /\ Deliverable(c)
    /\ \/ answer' = Answered({c}, "undelivered") /\ UNCHANGED delivered
       \/ /\ answer' = Answered({c}, "disconnected")
          /\ delivered' \in {delivered, IF Wants[c] = "repeat" THEN delivered \cup {c}
                                       ELSE delivered}
    /\ UNCHANGED <<at, stopped, status, expired, pending, confirmed, connect>>

(* confirmation_matches: what the event shows is what the command asked for. *)
(* Any change of track after the dispatch has a higher track_sequence.       *)
Confirms(event, want) ==
    \/ event = want
    \/ event = "track" /\ want \in {"next", "previous"}
    \/ event = "rewound" /\ want = "previous"

(* An event of the player, of the owner or of anybody else at the controls.  *)
(* A command that waits is confirmed by any event that shows what it asked   *)
(* for, once it was delivered; the provider looks at the pending one only.   *)
PlayerEvent(event) ==
    /\ at = "session"
    /\ status' = [status EXCEPT !.active = IF event \in {"selected", "deselected"}
                                          THEN event = "selected" ELSE @]
    /\ LET confirms == pending # None /\ Confirms(event, Wants[pending])
       IN  /\ answer' = IF confirms THEN Answered({pending}, "ok") ELSE answer
           /\ pending' = IF confirms THEN None ELSE pending
    /\ confirmed' = confirmed \cup {c \in Waiting \cap delivered : Confirms(event, Wants[c])}
    /\ UNCHANGED <<at, stopped, expired, queue, delivered, accounts, naming, exit>>

Events == {"playing", "paused", "track", "rewound", "repeat", "selected", "deselected"}

(* -- the supervisor ------------------------------------------------------- *)

ConnectSteps ==
    \/ Begin \/ Restart \/ Pause \/ Close \/ End
    \/ CloseChannel /\ UNCHANGED connect
    \/ Choose \/ LeaveChoose \/ LeaveUnpaired \/ AbandonOpening \/ Retry \/ StopRetry
    \/ \E account \in Accounts : PairUnpaired(account) \/ PairOpening(account)
    \/ \E refused \in BOOLEAN : OpenFails(refused)
    \/ \E reason \in {"stopped", "renamed", "selected", "ended", "lost"} : EndSession(reason)
    \/ LeaveSession \/ TimeOut \/ Opened
    \/ \E c \in Calls : DeclineUnpaired(c) \/ SkipCommand(c) \/ Dispatch(c) \/ DispatchFails(c)
    \/ \E event \in Events : PlayerEvent(event)

ConnectNext ==
    /\ backend = "librespot" /\ UNCHANGED backend
    /\ ConnectSteps \/ \E n \in Names : Rename(n)
=============================================================================
