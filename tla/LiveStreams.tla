----------------------------- MODULE LiveStreams -----------------------------
(***************************************************************************)
(* Sessions and live streams of the dashboard: PairingAuth with its limits,*)
(* the publishers that poll the engine, and the tasks that send each       *)
(* WebSocket what a watch channel holds.  A channel keeps its newest value *)
(* only; a send takes time, and the session may end during it.             *)
(***************************************************************************)
EXTENDS Naturals, FiniteSets

CONSTANTS
  Tokens,       \* the session tokens that are ever drawn
  MaxSessions, MaxFailures,
  MaxVersion    \* bound: of the frames of the engine and of the dashboard's state

VARIABLES
  stream,            \* bound: the stream that a behaviour is about
  sessions, valid,   \* stored, and those of them that have not expired
  failures,          \* wrong codes of the last window
  health,            \* what the health publisher has: the frame, or an error
  channel,           \* the stream's newest state or frame, and whether it is bad
  unseen,            \* who has not seen what changed last
  previewFrame,      \* the frame the preview publisher sent last
  stopped,           \* the web process stops
  socket             \* the task of a socket of the stream
liveVars == <<stream, sessions, valid, failures, health, channel, unseen, previewFrame,
              stopped, socket>>

Gone == [at |-> "gone", token |-> "none", holds |-> 0, last |-> FALSE, shown |-> 0]

LiveInit ==
  /\ stream \in {"state", "preview"}
  /\ sessions = {} /\ valid = {} /\ failures = 0
  /\ health = [frame |-> 0, bad |-> FALSE]
  /\ channel = [value |-> 0, bad |-> FALSE]
  /\ unseen = {} /\ previewFrame = 0
  /\ stopped = FALSE
  /\ socket = Gone

Access == UNCHANGED <<stream, sessions, valid, failures>>
Sources == UNCHANGED <<stream, health, channel, unseen, previewFrame, stopped>>

-----------------------------------------------------------------------------
(* PairingAuth.                                                            *)
\* cleanup forgets expired sessions, at most once in a minute.
Kept == {sessions, valid}

\* pair: refused after too many wrong codes; the right one gets a session, for which
\* any other may have to go.
Pair(token) ==
  /\ token \notin sessions /\ failures < MaxFailures
  /\ \E kept \in Kept :
       \E out \in IF Cardinality(kept) >= MaxSessions THEN {{t} : t \in kept} ELSE {{}} :
         /\ sessions' = (kept \ out) \cup {token}
         /\ valid' = (valid \ out) \cup {token}
  /\ UNCHANGED <<failures, socket>> /\ Sources
WrongCode ==
  /\ failures < MaxFailures /\ failures' = failures + 1
  /\ sessions' \in Kept
  /\ UNCHANGED <<valid, socket>> /\ Sources

\* Any request has its session looked up, and may clean up.
LookUp ==
  sessions' = valid /\ UNCHANGED <<valid, failures, socket>> /\ Sources

\* logout; and time goes by.
Revoke(token) ==
  /\ token \in sessions
  /\ sessions' = sessions \ {token} /\ valid' = valid \ {token}
  /\ UNCHANGED <<failures, socket>> /\ Sources
Expire(token) ==
  /\ token \in valid /\ valid' = valid \ {token}
  /\ UNCHANGED <<sessions, failures, socket>> /\ Sources
WindowPasses ==
  failures > 0 /\ failures' = failures - 1 /\ UNCHANGED <<sessions, valid, socket>> /\ Sources

-----------------------------------------------------------------------------
(* The publishers.                                                         *)
\* spawn_health_publisher: a frame that may be new, or an error.
PublishHealth(frame, bad) ==
  /\ stream = "preview" /\ ~stopped /\ frame >= health.frame
  /\ health' = [frame |-> frame, bad |-> bad]
  /\ unseen' = unseen \cup {"publisher", "monitor"}
  /\ UNCHANGED <<channel, previewFrame, stopped, socket>> /\ Access

Put(value, bad) == channel' = [value |-> value, bad |-> bad]

\* spawn_preview_publisher: a frame is encoded once.
PublishPreview ==
  /\ ~stopped /\ "publisher" \in unseen
  /\ IF health.bad
       THEN Put(channel.value, TRUE) /\ UNCHANGED previewFrame
       ELSE Put(health.frame, channel.bad /\ health.frame = previewFrame)
            /\ previewFrame' = health.frame
  /\ unseen' = (unseen \ {"publisher"})
                 \cup IF health.bad \/ health.frame # previewFrame THEN {"socket"} ELSE {}
  /\ UNCHANGED <<health, stopped, socket>> /\ Access

\* spawn_engine_failure_monitor: the first error it sees stops the process.
Monitor ==
  /\ ~stopped /\ "monitor" \in unseen
  /\ unseen' = unseen \ {"monitor"}
  /\ stopped' = health.bad
  /\ UNCHANGED <<health, channel, previewFrame, socket>> /\ Access

\* The control plane publishes its state; one may say that nothing runs, and a later one
\* that it runs again.
PublishState(bad) ==
  /\ stream = "state" /\ channel.value < MaxVersion
  /\ Put(channel.value + 1, bad)
  /\ unseen' = unseen \cup {"socket"}
  /\ UNCHANGED <<health, previewFrame, stopped, socket>> /\ Access

-----------------------------------------------------------------------------
(* The task of a socket.                                                   *)
Task(record, seen) ==
  /\ socket' = record
  /\ unseen' = IF seen THEN unseen \ {"socket"} ELSE unseen
  /\ Access /\ UNCHANGED <<health, channel, previewFrame, stopped>>
Open == socket.at # "gone"

\* borrow_and_update, and the value is sent; a bad state is the last to be sent.
Taken(record) ==
  [record EXCEPT !.at = "sending", !.holds = channel.value, !.last = channel.bad]

\* websocket_state and websocket_preview: a session, and the first value there is.
Connect(token) ==
  /\ ~Open /\ ~stopped /\ token \in valid
  /\ LET new == [Gone EXCEPT !.token = token] IN
       Task(IF stream = "preview" /\ (channel.bad \/ channel.value = 0)
              THEN [new EXCEPT !.at = "waiting"] ELSE Taken(new), TRUE)

\* send_json and send_binary: sent, or the client is too slow or gone.
Shown ==
  IF socket.last THEN Gone
  ELSE [socket EXCEPT !.at = "waiting", !.shown = socket.holds]
Sent == socket.at = "sending" /\ Task(Shown, FALSE)
ClientLeaves == Open /\ Task(Gone, FALSE)

\* receiver.changed: an error of the runtime closes, and a value is sent.
Changed ==
  /\ socket.at = "waiting" /\ "socket" \in unseen
  /\ Task(IF stream = "preview" /\ channel.bad THEN Gone ELSE Taken(socket), TRUE)

\* tick: the session is looked up again; the lookup may clean up.
TickOnly ==
  /\ socket.at = "waiting"
  /\ sessions' \in Kept
  /\ UNCHANGED <<valid, failures, socket>> /\ Sources
SessionTick ==
  /\ socket.at = "waiting"
  /\ sessions' \in Kept
  /\ socket' = IF socket.token \in valid THEN socket ELSE Gone
  /\ UNCHANGED <<valid, failures>> /\ Sources

\* The process stops, and with it the senders of every channel.
EndsWithProcess == stopped /\ Open /\ Task(Gone, FALSE)

LiveNext ==
  \/ \E token \in Tokens : Pair(token) \/ Revoke(token) \/ Expire(token)
  \/ WrongCode \/ WindowPasses \/ LookUp
  \/ (\E frame \in 0..MaxVersion, bad \in BOOLEAN : PublishHealth(frame, bad))
  \/ PublishPreview \/ Monitor
  \/ (\E bad \in BOOLEAN : PublishState(bad))
  \/ (\E token \in Tokens : Connect(token))
  \/ Sent \/ ClientLeaves \/ Changed \/ SessionTick \/ EndsWithProcess

\* Tasks run; a send ends within its time; and select! takes a ready branch at random,
\* so that a stream of changes does not keep the tick from its turn.
LiveFairness ==
  /\ WF_liveVars(PublishPreview) /\ WF_liveVars(Sent) /\ WF_liveVars(Changed)
  /\ SF_liveVars(SessionTick) /\ WF_liveVars(EndsWithProcess)
LiveSpec == LiveInit /\ [][LiveNext]_liveVars /\ LiveFairness

-----------------------------------------------------------------------------
\* A socket goes with its session: once it is logged out of, expired or pushed out
\* by others, its streams end, however often there is something to send.
SocketsEndWithSession ==
  (Open /\ socket.token \notin valid) ~> (~Open \/ socket.token \in valid)

\* No stream stays behind: the newest state, and the newest frame that the engine
\* reports, reach every socket that stays, changes during a send included; and the
\* state that nothing runs ends the socket, unless a newer one comes first. (A frame that an error hid is not sent again, and only
\* a later one is: the preview then stays bad.)
Behind ==
  IF stream = "state" THEN socket.shown < channel.value \/ channel.bad
                 ELSE socket.shown < health.frame /\ ~health.bad /\ ~channel.bad
NewestIsShown == (Open /\ Behind) ~> (~Open \/ ~Behind)

\* A socket shows the newest value as long as its session lasts, and no longer.
SocketsFollow == SocketsEndWithSession /\ NewestIsShown
==============================================================================
