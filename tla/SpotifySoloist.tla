---------------------------- MODULE SpotifySoloist ----------------------------
(* The supervisor of the external Soloist player, spoken to over a local     *)
(* WebSocket (apps/lumistripe-web/src/spotify.rs: supervise_soloist,         *)
(* run_soloist_session, handle_command_response, apply_event).  One command  *)
(* is in flight at a time; its acknowledgement carries only its name.  The   *)
(* player on the other side answers commands in order and acknowledges those *)
(* of the dashboard, not the request for its state; an error names nothing,  *)
(* and may come for that request or for no command at all.                   *)
EXTENDS SpotifyCommands

CONSTANTS
    Name,         \* [Calls -> the name of each command]
    State,        \* get_state, the command that the supervisor sends itself
    BacklogLimit  \* bound: messages of the player and requests for its state on the wire

ASSUME SoloistAssumption ==
    State \notin Calls \cup {None} /\ BacklogLimit \in Nat

VARIABLES
    wire,    \* commands sent and not yet handled by the player
    back,    \* messages of the player not yet read
    misled   \* an error that was not about it answered a command (history of a session)

socket == <<wire, back, misled>>

SoloistInit == wire = <<>> /\ back = <<>> /\ misled = FALSE

MoveTo(place) == at' = place

(* The session ends: the pending command may have been delivered.            *)
Disconnect ==
    /\ FailPending("unsure")
    /\ wire' = <<>> /\ back' = <<>> /\ misled' = FALSE
    /\ MoveTo("draining")

(* -- the supervisor ------------------------------------------------------- *)

SoloistBegin ==
    /\ at = "unstarted"
    /\ MoveTo(IF stopped THEN "done" ELSE "connecting")
    /\ UNCHANGED <<stopped, status, commands, pending, effects, socket>>

(* The socket is connected, or the attempt fails or times out; a stop is     *)
(* noticed only before the next attempt.                                     *)
Connected ==
    /\ at = "connecting"
    /\ status' = [status EXCEPT !.connected = TRUE]
    /\ MoveTo("session")
    /\ UNCHANGED <<stopped, commands, pending, effects, socket>>

ConnectFails ==
    /\ at = "connecting"
    /\ status' = Offline
    /\ MoveTo("backoff")
    /\ UNCHANGED <<stopped, commands, pending, effects, socket>>

Backoff ==
    /\ at = "backoff"
    /\ MoveTo(IF stopped THEN "ending" ELSE "connecting")
    /\ UNCHANGED <<stopped, status, commands, pending, effects, socket>>

(* The queue fails first, and only then is the snapshot marked disconnected: *)
(* a command may slip in between and waits for the next session.             *)
Drain ==
    /\ at = "draining"
    /\ FailQueued
    /\ MoveTo(IF stopped THEN "ending" ELSE "lost")
    /\ UNCHANGED <<stopped, status, pending, effects, socket>>

MarkDisconnected ==
    /\ at = "lost"
    /\ status' = Offline
    /\ MoveTo("backoff")
    /\ UNCHANGED <<stopped, commands, pending, effects, socket>>

SoloistEnd ==
    /\ at = "ending"
    /\ FailQueued
    /\ status' = Offline
    /\ MoveTo("closingChannel")
    /\ UNCHANGED <<stopped, pending, effects, socket>>

(* -- a session ------------------------------------------------------------ *)

CloseSession ==
    /\ at = "session" /\ stopped
    /\ Disconnect
    /\ UNCHANGED <<stopped, status, effects>>

(* The player closed the connection, or reading, a ping or an event failed.  *)
LoseConnection ==
    /\ at = "session"
    /\ Disconnect
    /\ UNCHANGED <<stopped, status, effects>>

(* Mutant: a command that is not acknowledged in time leaves the session up. *)
AckTimesOutAlone ==
    /\ at = "session" /\ pending \in expired
    /\ FailPending("unsure")
    /\ UNCHANGED <<at, stopped, status, effects, socket>>

(* A command that is not acknowledged in time ends the session: a late       *)
(* acknowledgement must not be taken for that of the next command.           *)
AckTimesOut ==
    /\ at = "session" /\ pending \in expired
    /\ Disconnect
    /\ UNCHANGED <<stopped, status, effects>>

SkipLate(c) ==
    /\ at = "session" /\ Fetch(c) /\ c # State
    /\ ~Deliverable(c)
    /\ answer' = Answered({c}, "undelivered")
    /\ UNCHANGED <<at, stopped, status, expired, pending, effects, socket>>

SendCommand(c) ==
    /\ at = "session" /\ Fetch(c) /\ c # State
    /\ Deliverable(c)
    /\ pending' = c
    /\ wire' = Append(wire, c)
    /\ UNCHANGED <<at, stopped, status, answer, expired, effects, back, misled>>

(* The write fails or times out, before or after the player got the command. *)
SendFails(c) ==
    /\ at = "session" /\ Fetch(c) /\ c # State
    /\ Deliverable(c)
    /\ answer' = Answered({c}, "unsure")
    /\ delivered' \in {delivered, delivered \cup {c}}
    /\ wire' = <<>> /\ back' = <<>> /\ misled' = FALSE
    /\ MoveTo("draining")
    /\ UNCHANGED <<stopped, status, expired, pending, confirmed>>

(* get_state has no caller: it is sent, or dropped when it is late.          *)
SendState ==
    /\ at = "session" /\ Fetch(State)
    /\ wire' \in {wire, IF Len(wire) < BacklogLimit THEN Append(wire, State) ELSE wire}
    /\ UNCHANGED <<at, stopped, status, answer, expired, pending, effects, back, misled>>

(* -- what the player says ------------------------------------------------- *)

Message(kind, name, on) == [kind |-> kind, name |-> name, on |-> on]

(* An error is about a command of the dashboard, or about something else.    *)
Rejection == Message("error", None, TRUE)
Stray == Message("error", None, FALSE)

(* The player handles the next command: it applies or rejects it, and says   *)
(* so; its state it just reports, or fails to.                               *)
PlayerHandles ==
    /\ at = "session" /\ wire # <<>> /\ Len(back) < BacklogLimit
    /\ wire' = Tail(wire)
    /\ LET c == Head(wire)
       IN  \/ /\ c = State
              /\ back' \in {Append(back, Message("playback", None, TRUE)), Append(back, Stray)}
              /\ UNCHANGED effects
           \/ /\ c # State /\ delivered' = delivered \cup {c}
              /\ \/ /\ confirmed' = confirmed \cup {c}
                    /\ back' = Append(back, Message("command_result", Name[c], TRUE))
                 \/ /\ back' = Append(back, Rejection)
                    /\ UNCHANGED confirmed
    /\ UNCHANGED <<at, stopped, status, commands, pending, misled>>

(* It also reports what happens on its own, such as a login or a failure. *)
PlayerReports ==
    /\ at = "session" /\ Len(back) < BacklogLimit
    /\ \/ \E on \in BOOLEAN : back' = Append(back, Message("auth_state", None, on))
       \/ back' = Append(back, Stray)
    /\ UNCHANGED <<at, stopped, status, commands, pending, effects, wire, misled>>

(* apply_event: a login asks for the state of playback if the queue has room. *)
ReadReport ==
    LET m == Head(back)
    IN  /\ at = "session" /\ back # <<>> /\ m.kind \in {"auth_state", "playback"}
        /\ back' = Tail(back)
        /\ status' = IF m.kind = "playback" THEN status
                     ELSE [status EXCEPT !.loggedIn = m.on, !.active = m.on]
        /\ queue' = IF m.kind = "auth_state" /\ m.on /\ Len(queue) < QueueLimit
                    THEN Append(queue, State) ELSE queue
        /\ UNCHANGED <<at, stopped, answer, expired, pending, effects, wire, misled>>

(* handle_command_response: an acknowledgement answers the pending command   *)
(* it names; one that does not, or that is late, ends the session.           *)
ReadResult ==
    /\ at = "session" /\ back # <<>> /\ Head(back).kind = "command_result"
    /\ IF pending # None /\ Head(back).name = Name[pending] /\ pending \notin expired
       THEN /\ answer' = Answered({pending}, "ok")
            /\ pending' = None
            /\ back' = Tail(back)
            /\ UNCHANGED <<at, expired, queue, wire, misled>>
       ELSE Disconnect
    /\ UNCHANGED <<stopped, status, effects>>

(* An error goes to the command that is pending, whatever it was about.      *)
ReadError ==
    /\ at = "session" /\ back # <<>> /\ Head(back).kind = "error"
    /\ answer' = Answered({pending}, "refused")
    /\ misled' = (misled \/ (pending # None /\ ~Head(back).on))
    /\ pending' = None
    /\ back' = Tail(back)
    /\ UNCHANGED <<at, stopped, status, expired, queue, effects, wire>>

SoloistSteps ==
    \/ SoloistBegin \/ Connected \/ ConnectFails \/ Backoff
    \/ Drain \/ MarkDisconnected \/ SoloistEnd
    \/ CloseChannel /\ UNCHANGED socket
    \/ CloseSession \/ LoseConnection \/ AckTimesOut \/ SendState
    \/ \E c \in Calls : SkipLate(c) \/ SendCommand(c) \/ SendFails(c)
    \/ ReadReport \/ ReadResult \/ ReadError

SoloistNext ==
    /\ backend = "soloist" /\ UNCHANGED backend
    /\ SoloistSteps \/ PlayerHandles \/ PlayerReports
=============================================================================
