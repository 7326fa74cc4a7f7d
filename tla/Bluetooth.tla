------------------------------ MODULE Bluetooth ------------------------------
(***************************************************************************)
(* BluetoothService of apps/lumistripe-web/src/bluetooth.rs: the status    *)
(* that is polled, the one operation that may run, and the loopback that   *)
(* carries Spotify to the default PipeWire output.                         *)
(*                                                                         *)
(* Three tasks call BlueZ and PipeWire and wait for each answer: the       *)
(* poller, the task of an operation, and a caller, which is a request of a *)
(* client or the control worker, and is dropped where it waits when its    *)
(* own caller leaves.  What a call asks for may have been done when it     *)
(* fails or is dropped, but is not done any later.  pactl is installed,    *)
(* and sound is routed; devices, volumes and how an operation is shown to  *)
(* stand are left out, which no step depends on, and so is shutdown, which *)
(* drops them all.                                                         *)
(***************************************************************************)
EXTENDS Sequences, Naturals

CONSTANT Sinks  \* the outputs of PipeWire

NoSink == "none"
Tasks == {"poller", "operation", "caller"}

VARIABLES
  shown,    \* the default sink of the status that was published
  gate,     \* the operation: "free", "executing" or "refreshing"
  route,    \* route_gate: who has its one permit, and after him who waits for it
  task,     \* where each task is, and what it has read
  output,   \* the default sink of PipeWire
  loops,    \* the sinks of the loopbacks that PipeWire has loaded
  calm      \* from now on nobody asks, and every call succeeds
pipewire == <<output, loops>>
bluetoothVars == <<shown, gate, route, task, pipewire, calm>>

\* For a job, the sink to route to, the one to return to, and what a refresh
\* has collected.
Resting == [at |-> "idle", job |-> "none", force |-> FALSE,
            sink |-> NoSink, undo |-> NoSink, next |-> NoSink]
Go(t, r) == task' = [task EXCEPT ![t] = r]
At(t, place) == task[t].at = place
To(t, place) == Go(t, [task[t] EXCEPT !.at = place])
Queues(t) == route' = Append(route, t)
Leaves(t) ==
  \/ t \notin {route[i] : i \in DOMAIN route} /\ UNCHANGED route
  \/ \E i \in DOMAIN route :
       /\ route[i] = t
       /\ route' = SubSeq(route, 1, i - 1) \o SubSeq(route, i + 1, Len(route))

-----------------------------------------------------------------------------
(* A refresh: collect_status, which keeps what was shown when a call       *)
(* fails, the route to the default sink, and what it collected is shown.   *)
Refresh(t) == Go(t, [Resting EXCEPT !.at = "collect", !.job = "refresh", !.next = shown])

Collect(t) ==
  /\ At(t, "collect")
  /\ \E answered \in {TRUE, calm} :
       LET sink == IF answered THEN output ELSE task[t].next
       IN  IF sink = NoSink THEN Go(t, [task[t] EXCEPT !.next = sink, !.at = "show"]) /\ UNCHANGED route
           ELSE Go(t, [task[t] EXCEPT !.next = sink, !.at = "permit"]) /\ Queues(t)
  /\ UNCHANGED <<shown, gate, pipewire, calm>>

\* An operation keeps its permit until its refresh has been shown.
Show(t) ==
  /\ At(t, "show")
  /\ shown' = task[t].next
  /\ gate' = IF t = "operation" THEN "free" ELSE gate
  /\ Go(t, Resting)
  /\ UNCHANGED <<route, pipewire, calm>>

-----------------------------------------------------------------------------
(* The route, under the permit of route_gate.                              *)
PermitAtOnce(t) ==
  /\ At(t, "permit")
  /\ To(t, IF task[t].job = "sink" THEN "switch" ELSE "info")
  /\ UNCHANGED <<shown, gate, route, pipewire, calm>>
Permit(t) ==
  /\ At(t, "permit") /\ Head(route) = t
  /\ To(t, IF task[t].job = "sink" THEN "switch" ELSE "info")
  /\ UNCHANGED <<shown, gate, route, pipewire, calm>>

\* ensure_spotify_route_for_sink is through, and its caller goes on: a client
\* has a new default sink shown, and one that could not be routed to is taken
\* back.
RoutedHolding(t, ok) ==
  CASE task[t].job = "refresh" ->
         Leaves(t) /\ Go(t, [Resting EXCEPT !.at = "show", !.next = task[t].next])
    [] task[t].job = "sink" /\ ok -> UNCHANGED route /\ Refresh(t)
    [] task[t].job = "sink" /\ ~ok /\ task[t].undo # NoSink -> UNCHANGED route /\ To(t, "undo")
    [] OTHER -> Leaves(t) /\ Go(t, Resting)
Routed(t, ok) ==
  CASE task[t].job = "refresh" ->
         Leaves(t) /\ Go(t, [Resting EXCEPT !.at = "show", !.next = task[t].next])
    [] task[t].job = "sink" /\ ok -> Leaves(t) /\ Refresh(t)
    [] task[t].job = "sink" /\ ~ok /\ task[t].undo # NoSink -> UNCHANGED route /\ To(t, "undo")
    [] OTHER -> Leaves(t) /\ Go(t, Resting)

\* What the call does at which a task waits; the others only read.
Effect(t) ==
  CASE At(t, "unload") -> loops' = (IF loops = <<>> THEN loops ELSE Tail(loops)) /\ UNCHANGED output
    [] At(t, "load")   -> loops' = Append(loops, task[t].sink) /\ UNCHANGED output
    [] At(t, "switch") -> output' = task[t].sink /\ UNCHANGED loops
    [] At(t, "undo")   -> output' = task[t].undo /\ UNCHANGED loops
    [] OTHER           -> UNCHANGED pipewire
Perhaps(t) == Effect(t) \/ UNCHANGED pipewire

\* One call: it is answered, or fails; pactl is killed when it takes too long.
Call(t, Answered) ==
  /\ \/ Effect(t) /\ Answered
     \/ ~calm /\ Routed(t, FALSE) /\ Perhaps(t)
  /\ UNCHANGED <<shown, gate, calm>>

Info(t) ==
  LET sink == IF output # NoSink THEN output ELSE shown
  IN  /\ At(t, "info")
      /\ Call(t, IF sink = NoSink THEN Routed(t, FALSE)
                 ELSE Go(t, [task[t] EXCEPT !.at = "modules", !.sink = sink]) /\ UNCHANGED route)

\* The first loopback listed is the one that exists.
Stands(t) == loops # <<>> /\ Head(loops) = task[t].sink /\ ~task[t].force
Modules(t) ==
  /\ At(t, "modules")
  /\ Call(t, IF Stands(t) THEN Routed(t, TRUE)
             ELSE To(t, IF loops = <<>> THEN "load" ELSE "unload") /\ UNCHANGED route)

Unload(t) ==
  /\ At(t, "unload")
  /\ Call(t, To(t, "load") /\ UNCHANGED route)

Load(t) ==
  /\ At(t, "load")
  /\ Call(t, Routed(t, TRUE))

\* set_default_sink: the sink to return to is the one that was shown last.
Switch(t) ==
  /\ At(t, "switch")
  /\ Call(t, /\ Go(t, [task[t] EXCEPT !.at = "modules",
                                      !.undo = IF shown # NoSink THEN shown ELSE output])
             /\ UNCHANGED route)

Undo(t) ==
  /\ At(t, "undo")
  /\ \/ /\ Effect(t) /\ UNCHANGED route
        /\ Go(t, [Resting EXCEPT !.at = "modules", !.sink = task[t].undo])
     \/ ~calm /\ Go(t, Resting) /\ Leaves(t) /\ Perhaps(t)
  /\ UNCHANGED <<shown, gate, calm>>

Steps(t) ==
  Permit(t) \/ Collect(t) \/ Show(t) \/ Info(t) \/ Modules(t) \/ Unload(t)
  \/ Load(t) \/ Switch(t) \/ Undo(t)

-----------------------------------------------------------------------------
(* Who calls.                                                              *)
PollOutputs ==
  /\ At("poller", "idle") /\ Refresh("poller")
  /\ UNCHANGED <<shown, gate, route, pipewire, calm>>

\* A client sets the default sink, or only refreshes, as it does after a change
\* of volume; the control worker wants the route, for a new capture a new one.
Ask ==
  /\ ~calm /\ At("caller", "idle")
  /\ \/ Refresh("caller") /\ UNCHANGED route
     \/ /\ \/ \E sink \in Sinks :
                Go("caller", [Resting EXCEPT !.at = "permit", !.job = "sink", !.sink = sink])
           \/ \E force \in BOOLEAN :
                Go("caller", [Resting EXCEPT !.at = "permit", !.job = "route", !.force = force])
        /\ Queues("caller")
  /\ UNCHANGED <<shown, gate, pipewire, calm>>

StartOperation ==
  /\ ~calm /\ gate = "free" /\ gate' = "executing"
  /\ UNCHANGED <<shown, route, task, pipewire, calm>>

EndOperation ==
  /\ gate = "executing" /\ gate' = "refreshing" /\ Refresh("operation")
  /\ UNCHANGED <<shown, route, pipewire, calm>>

Drop ==
  /\ ~calm /\ ~At("caller", "idle") /\ Go("caller", Resting) /\ Leaves("caller")
  /\ Perhaps("caller")
  /\ UNCHANGED <<shown, gate, calm>>

\* Bound: once there is an output, there is always one.
OutputChanges ==
  /\ ~calm /\ output' \in Sinks \ {output}
  /\ UNCHANGED <<shown, gate, route, task, loops, calm>>
Calm == ~calm /\ calm' = TRUE /\ UNCHANGED <<shown, gate, route, task, pipewire>>

BluetoothInit ==
  /\ shown = NoSink /\ gate = "free"
  /\ route = <<>> /\ task = [t \in Tasks |-> Resting]
  /\ output \in Sinks \union {NoSink} /\ loops \in {<<>>} \union {<<sink>> : sink \in Sinks}
  /\ calm = FALSE
BluetoothNext ==
  \/ PollOutputs \/ Ask \/ StartOperation \/ EndOperation
  \/ Drop \/ OutputChanges \/ Calm
  \/ \E t \in Tasks : Steps(t)
\* Every call returns, and the poller ticks.
Fairness ==
  /\ WF_bluetoothVars(PollOutputs) /\ WF_bluetoothVars(EndOperation)
  /\ \A t \in Tasks : WF_bluetoothVars(Steps(t))
BluetoothSpec == BluetoothInit /\ [][BluetoothNext]_bluetoothVars /\ Fairness

-----------------------------------------------------------------------------
\* Spotify is never played twice: however the poller, the control worker and
\* clients that change the output or leave halfway interleave, and whatever a
\* call did that failed, PipeWire has at most one loopback.
OneRoute == Len(loops) <= 1

\* The loopback ends up at the default output, whatever call failed or was
\* dropped on the way; and whoever asked
\* gets through: no task waits for a permit it holds itself, and an operation
\* gives its own back.
RouteFollows ==
  /\ <>calm => <>[](output = NoSink \/ loops = <<output>>)
  /\ [](gate # "free" => <>(gate = "free"))
=============================================================================
