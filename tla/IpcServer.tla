------------------------------ MODULE IpcServer ------------------------------
(***************************************************************************)
(* serve: the engine behind its Unix socket.  A thread of its own reads    *)
(* each connection: one request of the current protocol or of the legacy   *)
(* one, or a stream of frames.  Requests go through the one dispatcher; a  *)
(* configuration is applied by the output worker, who may be later than    *)
(* the dispatcher waits; and frames go to the output directly.              *)
(*                                                                         *)
(* What a client sends, and when, is up to it.  That the runtime's own     *)
(* shutdown returns is EngineControl's.                                    *)
(***************************************************************************)
EXTENDS Naturals

CONSTANTS
  Clients,   \* the connections, those beyond MAX_IPC_CONNECTIONS being dropped at once
  Sizes      \* the numbers of pixels of an output

VARIABLES
  server,        \* "up", "joining" the connections, "stopping" the runtime, "gone"
  accepting,     \* the engine takes commands
  owned,         \* the process that started it is its parent still
  connection,    \* of each client: where its thread is, and what it asks for
  waitsFor,      \* the client whose configuration the dispatcher waits for, or none
  toApply,       \* command_pending: the configuration the output worker is to apply
  display,        \* health.pixel_counts, and by which protocol they were set
  legacyCount    \* legacy_pixel_count, 0 for None
ipcVars == <<server, accepting, owned, connection, waitsFor, toApply, display, legacyCount>>

NoOutput == [by |-> "none", size |-> 0]
Requests ==
  [kind : {"configure", "other", "shutdown"}, size : {0}]
    \cup [kind : {"legacy configure", "legacy render"}, size : Sizes]
Packet == [kind |-> "frame", size |-> 0]
Where(place, asks) == [at |-> place, asks |-> asks]
NoRequest == [kind |-> "nothing", size |-> 0]
Closed == Where("closed", NoRequest)

IpcInit ==
  /\ server = "up" /\ accepting = TRUE /\ owned = TRUE
  /\ connection = [client \in Clients |-> Closed]
  /\ waitsFor = {} /\ toApply = {} /\ display = NoOutput /\ legacyCount = 0

Becomes(client, record) == connection' = [connection EXCEPT ![client] = record]
Engine == UNCHANGED <<accepting, waitsFor, toApply, display, legacyCount>>
Server == UNCHANGED <<server, owned>>

-----------------------------------------------------------------------------
(* serve_with_owner.                                                       *)
AcceptClient(client) ==
  /\ server = "up" /\ connection[client] = Closed
  /\ Becomes(client, Where("prefix", NoRequest))
  /\ Server /\ Engine

\* The loop ends with the engine, or with the owner; the connections are joined, and
\* the runtime shut down.
OwnerExits == owned /\ owned' = FALSE /\ UNCHANGED <<server, connection>> /\ Engine
LoopEnds ==
  /\ server = "up" /\ (~accepting \/ ~owned)
  /\ server' = "joining" /\ accepting' = FALSE
  /\ UNCHANGED <<owned, connection, waitsFor, toApply, display, legacyCount>>
Joined ==
  /\ server = "joining" /\ \A client \in Clients : connection[client] = Closed
  /\ server' = "stopping" /\ UNCHANGED <<owned, connection>> /\ Engine
Returns ==
  /\ server = "stopping" /\ server' = "gone" /\ UNCHANGED <<owned, connection>> /\ Engine

\* A worker that failed is noticed by the loop, a caller or the dispatcher.
WorkerFails ==
  /\ accepting /\ accepting' = FALSE
  /\ UNCHANGED <<connection, waitsFor, toApply, display, legacyCount>> /\ Server

-----------------------------------------------------------------------------
(* handle_connection and handle_frame_stream.                              *)
\* What the client sends next is read in time, and is well formed or not.
SendsRequest(client) ==
  /\ connection[client].at = "prefix"
  /\ \E request \in Requests :
       Becomes(client, IF accepting THEN Where("queued", request) ELSE Closed)
  /\ Server /\ Engine
StartsFrames(client) ==
  /\ connection[client].at = "prefix"
  /\ Becomes(client, Where("header", [Packet EXCEPT !.size = display.size]))
  /\ Server /\ Engine

\* A header: the outputs are those from before it came, and fit or the stream ends.
SendsHeader(client) ==
  /\ connection[client].at = "header"
  /\ \E size \in Sizes :
       Becomes(client, IF size = connection[client].asks.size
                      THEN [connection[client] EXCEPT !.at = "payload"] ELSE Closed)
  /\ Server /\ Engine

\* The payload: submitted, refused or not, and acknowledged.
SendsPayload(client) ==
  /\ connection[client].at = "payload"
  /\ Becomes(client, Where("acknowledge", Packet))
  /\ Server /\ Engine
TakesAck(client) ==
  /\ connection[client].at = "acknowledge" /\ Becomes(client, Where("between", Packet))
  /\ Server /\ Engine

\* read_next_frame_magic: between packets it looks at the engine, and then reads for
\* a while.
Polls(client) ==
  /\ connection[client].at = "between" /\ Becomes(client, Where("reading", Packet))
  /\ Server /\ Engine
Looks(client) ==
  /\ connection[client].at = "between"
  /\ Becomes(client, IF accepting THEN Where("reading", Packet) ELSE Closed)
  /\ Server /\ Engine
NothingYet(client) ==
  /\ connection[client].at = "reading" /\ Becomes(client, Where("between", Packet))
  /\ Server /\ Engine
SendsMagic(client) ==
  /\ connection[client].at = "reading"
  /\ Becomes(client, Where("header", [Packet EXCEPT !.size = display.size]))
  /\ Server /\ Engine

\* Every read and write has a deadline; and the client may close at any time.
Waits == {"prefix", "header", "payload", "acknowledge", "answer"}
Deadline(client) ==
  /\ connection[client].at \in Waits /\ Becomes(client, Closed) /\ Server /\ Engine
Closes(client) ==
  /\ connection[client].at \in Waits \cup {"reading"} /\ Becomes(client, Closed)
  /\ Server /\ Engine

\* The answer of the dispatcher is written.
Answered(client) ==
  /\ connection[client].at = "answer" /\ Becomes(client, Closed) /\ Server /\ Engine

\* The dispatcher ended, or refuses: no answer.
Stopped(client) ==
  /\ connection[client].at = "queued" /\ ~accepting /\ waitsFor # {client}
  /\ Becomes(client, Closed) /\ Server /\ Engine

-----------------------------------------------------------------------------
(* dispatch and dispatch_legacy.                                           *)
Asked(client, kinds) ==
  /\ accepting /\ waitsFor = {}
  /\ connection[client].at = "queued" /\ connection[client].asks.kind \in kinds
AnswerTo(client) == Becomes(client, Where("answer", connection[client].asks))
Layout(request) ==
  IF request.kind = "configure" THEN {[by |-> "current", size |-> size] : size \in Sizes}
                            ELSE {[by |-> "legacy", size |-> request.size]}

\* Configure, where the configuration is valid: the legacy one is no more, and the
\* output worker is asked; it keeps no size until it answers. One that is to come
\* refuses another.
AskOutput(client) ==
  IF toApply # {}
    THEN AnswerTo(client) /\ UNCHANGED <<waitsFor, toApply, display>>
    ELSE /\ \E layout \in Layout(connection[client].asks) : toApply' = {layout}
         /\ display' = NoOutput /\ waitsFor' = {client}
         /\ UNCHANGED connection
ConfigureKeepingCount(client) ==
  /\ Asked(client, {"configure", "legacy configure"})
  /\ AskOutput(client) /\ UNCHANGED <<accepting, legacyCount>> /\ Server
ConfigureOutput(client) ==
  /\ Asked(client, {"configure", "legacy configure"})
  /\ AskOutput(client) /\ legacyCount' = 0
  /\ UNCHANGED accepting /\ Server

\* The output worker applies it, or cannot; the dispatcher may not wait any more.
Applies ==
  /\ toApply # {} /\ toApply' = {}
  /\ display' \in toApply \cup {NoOutput}
  /\ waitsFor' = {}
  /\ IF waitsFor = {} THEN UNCHANGED <<connection, legacyCount>>
     ELSE /\ \E client \in waitsFor : AnswerTo(client)
          /\ legacyCount' = IF display'.by = "legacy" THEN display'.size ELSE legacyCount
  /\ UNCHANGED accepting /\ Server

\* CONFIGURE_TIMEOUT: the request fails, and the configuration is still to come.
TimesOut ==
  /\ \E client \in waitsFor : AnswerTo(client)
  /\ waitsFor' = {}
  /\ UNCHANGED <<accepting, toApply, display, legacyCount>> /\ Server

\* A legacy frame of another size is refused, and all others are only asked for.
Serves(client) ==
  /\ Asked(client, {"legacy render", "other", "configure", "legacy configure"})
  /\ AnswerTo(client)
  /\ Server /\ Engine
ShutsDown(client) ==
  /\ Asked(client, {"shutdown"}) /\ AnswerTo(client)
  /\ accepting' = FALSE
  /\ UNCHANGED <<waitsFor, toApply, display, legacyCount>> /\ Server

Thread(client) ==
  \/ TakesAck(client) \/ Looks(client) \/ NothingYet(client) \/ Deadline(client)
  \/ Answered(client) \/ Stopped(client)
IpcNext ==
  \/ OwnerExits \/ LoopEnds \/ Joined \/ Returns \/ WorkerFails \/ Applies \/ TimesOut
  \/ \E client \in Clients :
       \/ AcceptClient(client) \/ SendsRequest(client) \/ StartsFrames(client)
       \/ SendsHeader(client) \/ SendsPayload(client) \/ SendsMagic(client)
       \/ Closes(client) \/ Thread(client)
       \/ ConfigureOutput(client) \/ Serves(client) \/ ShutsDown(client)

\* Threads run, deadlines pass, and so does the dispatcher's.
IpcFairness ==
  /\ WF_ipcVars(LoopEnds) /\ WF_ipcVars(Joined) /\ WF_ipcVars(Returns)
  /\ WF_ipcVars(TimesOut)
  /\ \A client \in Clients : WF_ipcVars(Thread(client))
IpcSpec == IpcInit /\ [][IpcNext]_ipcVars /\ IpcFairness

-----------------------------------------------------------------------------
\* A legacy client draws on the output it configured and no other: while its number
\* of pixels is remembered, these are the output's and nothing is on its way to
\* replace them, whoever configured since, in time or not.
LegacyDrawsOnItsOwn ==
  legacyCount # 0 =>
    display = [by |-> "legacy", size |-> legacyCount] /\ toApply = {}

\* serve returns: once the engine takes no commands or its owner is gone, no client
\* keeps it, one that sends frames without end or says nothing either.
ServeReturns == (~accepting \/ ~owned) ~> server = "gone"
==============================================================================
