----------------------------- MODULE EventStream -----------------------------
(***************************************************************************)
(* How a client learns of changes: the manager publishes its state, then   *)
(* sends an event (src/manager.rs); the service passes events on           *)
(* (src/varlink.rs) to the streams of Monitor; `debug monitor` prints      *)
(* them, and `telemetry --watch` reads the telemetry again on each         *)
(* (src/bin/wireview.rs).                                                  *)
(*                                                                         *)
(* A state is what clients can read of it: the stage of the connection,    *)
(* the session, the sequence number, and the telemetry with the session    *)
(* and the number that it carries.  Two buffers may overflow, each of      *)
(* which drops its oldest: the broadcast to the service and the stream     *)
(* to a client, whose first element the library chooses.                   *)
(*                                                                         *)
(* A definition whose name ends in _Faulty is a plausible bug in the       *)
(* definition after it.                                                    *)
(***************************************************************************)
EXTENDS Naturals, Sequences

CONSTANTS
    Capacity,     \* events that the broadcast keeps (64)
    Pending,      \* events that a stream keeps for a slow client
    MaxSequence   \* bound on the states that are published

ASSUME StreamAssumption == {Capacity, Pending, MaxSequence} \subseteq Nat \ {0}

VARIABLES
    \* the manager
    state,     \* the published state
    outgoing,  \* the event that is to be sent next
    \* the service
    service,   \* how far it has started
    first,     \* the snapshot it was made with
    channel,   \* event_tx, as its publisher sees it
    lagged,    \* the publisher has missed events
    latest,    \* the last event that it passed on
    \* the client
    watching,  \* telemetry --watch, or debug monitor
    follower,  \* where the client is
    stream,    \* events on their way to it
    shown,     \* the telemetry it shows
    readAt,    \* the sequence number of the state that was read last
    seen,      \* the last two events it received
    \* what has happened
    sent,      \* every event
    due        \* the last one that was sent while the client listened

manager == <<state, outgoing>>
relay   == <<service, first, channel, lagged, latest>>
client  == <<watching, follower, stream, shown, readAt, seen>>
events  == <<manager, relay, client, sent, due>>

NoTelemetry == [session |-> 0, sequence |-> 0, stale |-> TRUE]
Event(kind, s) == [kind |-> kind, sequence |-> s.sequence, session |-> s.session]
NoEvent == [kind |-> "none", sequence |-> 0, session |-> 0]
Snapshot(s) == Event("snapshot", s)

StreamInit ==
    /\ state = [connection |-> "absent", session |-> 0, sequence |-> 0,
                telemetry |-> NoTelemetry]
    /\ outgoing = NoEvent /\ service = "new" /\ first = NoEvent
    /\ channel = <<>> /\ lagged = FALSE /\ latest = NoEvent
    /\ watching \in BOOLEAN /\ follower = "idle" /\ stream = <<>>
    /\ shown = NoTelemetry /\ readAt = 0 /\ seen = <<NoEvent, NoEvent>>
    /\ sent = {} /\ due = 0

--------------------------------------------------------------------------------
\* The manager.

\* bump_and_publish, and the event that follows it, if any.
Publish(s, kind) ==
    /\ service # "stopped" /\ outgoing = NoEvent /\ state.sequence < MaxSequence
    /\ state' = [s EXCEPT !.sequence = state.sequence + 1]
    /\ outgoing' = IF kind = "none" THEN NoEvent ELSE Event(kind, state')
    /\ UNCHANGED <<relay, client, sent, due>>

In(connections) == state.connection \in connections
Fresh(session) == [session |-> session, sequence |-> state.sequence + 1, stale |-> FALSE]
Attached == {"ready", "busy"}

ConnectDevice ==
    /\ In({"absent", "recovering", "ambiguous"})
    /\ Publish([state EXCEPT !.connection = "connecting"], "none")

Connected ==
    /\ In({"connecting"})
    /\ Publish([state EXCEPT !.connection = "ready", !.session = state.session + 1,
                             !.telemetry = Fresh(state.session + 1)], "connected")

ConnectionFailed ==
    /\ In({"connecting"})
    /\ Publish([state EXCEPT !.connection = "recovering"], "none")

\* No device is left of what was not attached.
Detached ==
    /\ In({"recovering", "ambiguous"})
    /\ Publish([state EXCEPT !.connection = "absent"], "none")

\* There are several devices, after whatever was there is gone.
SeveralDevices ==
    /\ In({"absent"}) /\ Publish([state EXCEPT !.connection = "ambiguous"], "none")

Disconnecting ==
    /\ In(Attached) /\ Publish([state EXCEPT !.connection = "disconnecting"], "none")

Disconnected ==
    /\ In({"disconnecting"})
    /\ Publish([state EXCEPT !.connection = "absent", !.telemetry.stale = TRUE],
               "disconnected")

\* Numbers the telemetry like the state before it.
PollOnce_Faulty ==
    /\ In({"ready"})
    /\ Publish([state EXCEPT !.telemetry = [Fresh(state.session) EXCEPT !.sequence = @ - 1]],
               "updated")

PollOnce ==
    /\ In({"ready"})
    /\ Publish([state EXCEPT !.telemetry = Fresh(state.session)], "updated")

\* Polls have failed for two intervals.
PollFailed ==
    /\ In({"ready"}) /\ ~state.telemetry.stale
    /\ Publish([state EXCEPT !.telemetry.stale = TRUE], "none")

\* Sends the event with the number of the state before it.
SetScreen_Faulty ==
    /\ In({"ready"}) /\ service # "stopped" /\ outgoing = NoEvent
    /\ outgoing' = Event("screen", state)
    /\ UNCHANGED <<state, relay, client, sent, due>>

SetScreen == In({"ready"}) /\ Publish(state, "screen")

SetBusy ==
    /\ In({"ready"}) /\ Publish([state EXCEPT !.connection = "busy"], "none")

\* An operation ends; ClearFaults has read the telemetry again.
SetReady ==
    /\ In({"busy"})
    /\ \E telemetry \in {state.telemetry, Fresh(state.session)} :
          Publish([state EXCEPT !.connection = "ready", !.telemetry = telemetry], "none")

\* The full channel drops its oldest event.
SendEvent ==
    /\ outgoing # NoEvent /\ outgoing' = NoEvent /\ sent' = sent \union {outgoing}
    /\ due' = IF follower \in {"listening", "reading"} THEN outgoing.sequence ELSE due
    /\ IF service # "on" THEN UNCHANGED <<channel, lagged>>
       ELSE IF Len(channel) < Capacity
       THEN channel' = Append(channel, outgoing) /\ UNCHANGED lagged
       ELSE channel' = Append(Tail(channel), outgoing) /\ lagged' = TRUE
    /\ UNCHANGED <<state, service, first, latest, client>>

--------------------------------------------------------------------------------
\* DeviceService: the snapshot, then the subscription.

TakeSnapshot ==
    /\ service = "new" /\ service' = "made" /\ first' = Snapshot(state)
    /\ UNCHANGED <<manager, channel, lagged, latest, client, sent, due>>

SubscribeEvents ==
    /\ service = "made" /\ service' = "on"
    /\ UNCHANGED <<manager, first, channel, lagged, latest, client, sent, due>>

\* Subscribes anew, which drops the events that are left.
NoticeLag_Faulty ==
    /\ service = "on" /\ lagged /\ lagged' = FALSE /\ channel' = <<>>
    /\ UNCHANGED <<manager, service, first, latest, client, sent, due>>

\* Lagged: the publisher goes on with the oldest event that is left.
NoticeLag ==
    /\ service = "on" /\ lagged /\ lagged' = FALSE
    /\ UNCHANGED <<manager, service, first, channel, latest, client, sent, due>>

\* An event goes to the stream, which drops the oldest of too many.
PassOn ==
    /\ service = "on" /\ ~lagged /\ channel # <<>>
    /\ channel' = Tail(channel) /\ latest' = Head(channel)
    /\ stream' = IF follower \notin {"listening", "reading"} THEN stream
                 ELSE IF Len(stream) < Pending THEN Append(stream, latest')
                 ELSE Append(Tail(stream), latest')
    /\ UNCHANGED <<manager, service, first, lagged, watching, follower, shown, readAt, seen,
                   sent, due>>

\* The server returns and drops its connections; the manager's last events go
\* nowhere.
StopService ==
    /\ service = "on" /\ service' = "stopped"
    /\ follower' = "over" /\ stream' = <<>>
    /\ UNCHANGED <<manager, first, channel, lagged, latest, watching, shown, readAt, seen,
                   sent, due>>

--------------------------------------------------------------------------------
\* The client.

Serves == service = "on"
Reread == shown' = state.telemetry /\ readAt' = state.sequence

\* get_telemetry, before the second connection: there is none before the first
\* device.
FirstReading ==
    /\ Serves /\ watching /\ follower = "idle"
    /\ IF state.telemetry = NoTelemetry
       THEN follower' = "over" /\ UNCHANGED <<shown, readAt>>
       ELSE follower' = "connecting" /\ Reread
    /\ UNCHANGED <<manager, relay, watching, stream, seen, sent, due>>

\* Monitor.
Listen ==
    /\ Serves /\ follower = (IF watching THEN "connecting" ELSE "idle")
    /\ follower' = "listening"
    /\ stream' \in {<<>>, <<first>>} \union (IF latest = NoEvent THEN {} ELSE {<<latest>>})
    /\ UNCHANGED <<manager, relay, watching, shown, readAt, seen, sent, due>>

\* An event arrives.  A monitor may have been asked for so many only.
Receive ==
    /\ Serves /\ follower = "listening" /\ stream # <<>> /\ stream' = Tail(stream)
    /\ seen' = <<seen[2], Head(stream)>>
    /\ follower' \in IF watching THEN {"reading"} ELSE {"listening", "over"}
    /\ UNCHANGED <<manager, relay, watching, shown, readAt, sent, due>>

\* get_telemetry, on the first connection.
ReadAgain ==
    /\ Serves /\ follower = "reading" /\ follower' = "listening" /\ Reread
    /\ UNCHANGED <<manager, relay, watching, stream, seen, sent, due>>

\* Ctrl-C ends a watch between two events, and a monitor at once.
Leave ==
    /\ follower = "listening" /\ follower' = "over" /\ stream' = <<>>
    /\ UNCHANGED <<manager, relay, watching, shown, readAt, seen, sent, due>>

--------------------------------------------------------------------------------

ManagerStep == \/ ConnectDevice \/ Connected \/ ConnectionFailed \/ Detached \/ SeveralDevices
               \/ Disconnecting \/ Disconnected \/ PollOnce \/ PollFailed \/ SetScreen
               \/ SetBusy \/ SetReady
RelayStep == TakeSnapshot \/ SubscribeEvents \/ NoticeLag \/ PassOn \/ StopService
ClientStep == FirstReading \/ Listen \/ Receive \/ ReadAgain \/ Leave

StreamNext == ManagerStep \/ SendEvent \/ RelayStep \/ ClientStep

\* Tasks that can go on are run: the manager's send, the publisher, and a client
\* that waits for an event or an answer.
StreamFairness ==
    /\ WF_events(SendEvent) /\ WF_events(NoticeLag \/ PassOn)
    /\ WF_events(Receive \/ ReadAgain)

StreamSpec == StreamInit /\ [][StreamNext]_events /\ StreamFairness

--------------------------------------------------------------------------------
\* Properties.

Received == {e \in {seen[1], seen[2]} : e.kind \notin {"none", "snapshot"}}

\* Whoever receives two events whose numbers follow each other has missed none
\* between them, and whoever receives two of one session has missed no
\* reconnection: over both buffers, a loss can be told by the numbers.
LossIsSeen ==
    \A a, b \in Received : a = seen[1] /\ b = seen[2] =>
        LET between == {e \in sent : a.sequence <= e.sequence /\ e.sequence <= b.sequence}
        IN  /\ a.sequence < b.sequence
            /\ b.sequence = a.sequence + 1 => between = {a, b}
            /\ b.session = a.session => \A e \in between \ {a} : e.kind # "connected"

\* What is read because of an event is at least as new as the event, however
\* long it has waited in the buffers: a change that was announced is shown.
EventsFollowState ==
    follower = "listening" /\ watching /\ seen[2].kind # "none" =>
        /\ readAt >= seen[2].sequence
        /\ seen[2].kind \in {"connected", "updated"} => shown.sequence >= seen[2].sequence
        /\ seen[2].kind = "disconnected" => shown.stale \/ shown.session > seen[2].session

\* A watch catches up with every change that is announced while it listens,
\* though it may be too slow for each event of its own.
WatchCatchesUp ==
    []<>(watching /\ follower \in {"listening", "reading"} => readAt >= due)
================================================================================
