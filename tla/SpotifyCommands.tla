--------------------------- MODULE SpotifyCommands ----------------------------
(* The side of the callers, the same for both Spotify providers: the status  *)
(* read before a command is sent, the bounded queue, the deadline each       *)
(* command carries and the caller that stops waiting                         *)
(* (crates/lumistripe-spotify/src/lib.rs: ConnectProvider::control;          *)
(* apps/lumistripe-web/src/spotify.rs: SoloistBackend::send_payload).        *)
EXTENDS Sequences, Naturals, FiniteSets, SequencesExt

CONSTANTS
    Calls,          \* the commands callers send
    After,          \* [Calls -> the part of the same control before it, or None]
    QueueLimit,     \* MAX_PENDING_COMMANDS
    None

(* What a caller has got: it asks, waits or is answered. *)
Replies == {"asking", "waiting", "ok", "refused", "undelivered", "disconnected", "unsure"}

ASSUME CommandsAssumption ==
    /\ QueueLimit \in Nat \ {0} /\ None \notin Calls \cup Replies
    /\ After \in [Calls -> Calls \cup {None}]

VARIABLES
    backend,     \* "librespot" or "soloist", fixed by the configuration
    at,          \* where the supervisor is
    stopped,     \* the cancellation token
    status,      \* the published snapshot
    answer,      \* [Calls -> what the caller got; "asking" between check and send]
    expired,     \* the calls whose deadline has passed
    queue,       \* the command channel
    pending,     \* the call that awaits its confirmation, or None
    delivered,   \* the calls the player received (history)
    confirmed    \* the calls the player confirmed (history)

commands == <<answer, expired, queue>>
effects  == <<delivered, confirmed>>
shared   == <<backend, at, stopped, status, answer, expired, queue, pending,
              delivered, confirmed>>

(* A snapshot: connected, logged_in and is_active; what is being played has   *)
(* no part in the commands.                                                  *)
Offline == [connected |-> FALSE, loggedIn |-> FALSE, active |-> FALSE]

CommandsInit ==
    /\ at = "unstarted" /\ stopped = FALSE /\ status = Offline
    /\ answer = [c \in Calls |-> None] /\ expired = {}
    /\ queue = <<>> /\ pending = None /\ delivered = {} /\ confirmed = {}

Waiting == {c \in Calls : answer[c] = "waiting"}

Answered(S, a) == [c \in Calls |-> IF c \in S /\ answer[c] = "waiting" THEN a ELSE answer[c]]

(* Whether the snapshot admits a command. *)
Admits ==
    IF backend = "librespot"
    THEN status.connected /\ status.loggedIn /\ status.active
    ELSE status.connected

(* Librespot tells "inactive" from "disconnected". *)
Declined ==
    IF backend = "librespot" /\ status.connected /\ status.loggedIn
    THEN "undelivered" ELSE "disconnected"

(* The snapshot is checked first and the command sent to the queue later:    *)
(* the connection may be lost in between.  The second part of a control is   *)
(* sent when the first was confirmed.                                        *)
CheckStatus(c) ==
    /\ answer[c] = None
    /\ backend = "soloist" /\ After[c] # None => answer[After[c]] = "ok"
    /\ answer' = [answer EXCEPT ![c] = IF Admits THEN "asking" ELSE Declined]
    /\ UNCHANGED <<backend, at, stopped, status, expired, queue, pending, effects>>

Send(c) ==
    LET accepted == Len(queue) < QueueLimit /\ at # "done"
    IN  /\ answer[c] = "asking"
        /\ answer' = [answer EXCEPT ![c] = IF accepted THEN "waiting"
                                           ELSE IF at = "done" THEN "disconnected"
                                           ELSE "undelivered"]
        /\ queue' = IF accepted THEN Append(queue, c) ELSE queue
        /\ UNCHANGED <<backend, at, stopped, status, expired, pending, effects>>

(* The deadline passes: COMMAND_TIMEOUT after the command was made. *)
Expire(c) ==
    /\ c \in Waiting \ expired
    /\ expired' = expired \cup {c}
    /\ UNCHANGED <<backend, at, stopped, status, answer, queue, pending, effects>>

(* The caller stops waiting, at the deadline or a grace period after it. *)
GiveUp(c) ==
    /\ c \in Waiting \cap expired
    /\ answer' = [answer EXCEPT ![c] = "unsure"]
    /\ UNCHANGED <<backend, at, stopped, status, expired, queue, pending, effects>>

(* The channel is closed: what came after the last fail_queued_commands is   *)
(* dropped with it, and its callers are told so.                             *)
CloseChannel ==
    /\ at = "closingChannel" /\ at' = "done"
    /\ UNCHANGED <<stopped, status, commands, pending, effects>>

Abandoned(c) ==
    /\ at = "done" /\ c \in Waiting /\ c \in ToSet(queue)
    /\ answer' = [answer EXCEPT ![c] = "disconnected"]
    /\ UNCHANGED <<backend, at, stopped, status, expired, queue, pending, effects>>

(* Shutdown of the application, or the last handle is dropped. *)
StopProvider ==
    /\ ~stopped /\ stopped' = TRUE
    /\ UNCHANGED <<backend, at, status, commands, pending, effects>>

Callers ==
    \/ \E c \in Calls : CheckStatus(c) \/ Send(c) \/ Expire(c) \/ GiveUp(c) \/ Abandoned(c)
    \/ StopProvider

(* fail_queued_commands *)
FailQueued ==
    /\ answer' = Answered(ToSet(queue), "disconnected")
    /\ queue' = <<>>
    /\ UNCHANGED expired

(* The pending command is answered, and the queue left alone. *)
FailPending(a) ==
    /\ answer' = Answered({pending}, a)
    /\ pending' = None
    /\ UNCHANGED <<expired, queue>>

(* The head of the queue is taken while nothing is pending.  It is delivered *)
(* unless its caller is gone or its deadline has passed.                     *)
Fetch(c) ==
    /\ queue # <<>> /\ c = Head(queue) /\ pending = None
    /\ queue' = Tail(queue)

Deliverable(c) == answer[c] = "waiting" /\ c \notin expired
=============================================================================
