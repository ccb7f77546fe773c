------------------------------ MODULE MainWindow ------------------------------
(***************************************************************************)
(* The desktop client's window (crates/wireview-gui/src/app.rs and         *)
(* ui/app.slint) with its graphs: what it makes of the worker's events, in *)
(* the order of the event loop's queue, what the user does meanwhile, and  *)
(* the commands this sends to the worker.                                  *)
(*                                                                         *)
(* The worker is here the order of its calls and of the events they lead   *)
(* to; a call is made and answered at once, and fails with the connection. *)
(* GuiWorker has them in detail, and the history reads, whose page of the  *)
(* window is left out.  A configuration is its edition: a number that no   *)
(* other change of the settings and no other device has.                   *)
(*                                                                         *)
(* A definition whose name ends in _Faulty is a plausible bug in the       *)
(* definition after it.                                                    *)
(***************************************************************************)
EXTENDS GraphState

CONSTANTS
    ThemeSlots,  \* named bitmaps
    NoSlot,      \* none of them
    MaxTime,     \* latest time of the daemon's clock, which may be set back
    MaxSamples,  \* bound on telemetry samples
    MaxEvents,   \* bound on the events not delivered
    MaxUses,     \* bound on selections, confirmations and commands of the user
    MaxMoves     \* bound on plugging, restarts and changes by other clients

ASSUME WindowAssumption ==
    /\ {MaxTime, MaxSamples, MaxUses, MaxMoves} \subseteq Nat /\ MaxEvents \in Nat \ {0, 1}
    /\ MaxTime > 0 /\ Views # {} /\ NoSlot \notin ThemeSlots /\ ThemeSlots # {}

VARIABLES
    \* the daemon
    attached,   \* is a device there?
    session,    \* session_id
    telemetry,  \* the latest sample, {} if none
    sequence,   \* sequence
    produced,   \* how many samples there were
    edition,    \* the active configuration
    \* the worker
    connection, \* "none", "live", or "dead" when the daemon has gone
    sessionId,  \* session_id, {} if none
    configuration, \* {} if none
    job,        \* the calls of the refresh or command in hand
    hand,       \* the command in hand
    commands, events,
    \* the window
    page, ready,
    operation,  \* operation-state: "running" or "done", with whatever outcome
    graph,      \* graph.rs
    drawn, overview, \* the samples they were last drawn from
    config,     \* config-loaded and -dirty, and the configuration the form was filled from
    theme,      \* selected-theme-slot, confirm-kind, and what was selected when it was asked
    \* what has happened
    newest,     \* the newest sample recorded
    cleared,    \* the newest sample recorded when the session's graph was cleared
    uses,
    moves

daemon == <<attached, session, telemetry, sequence, produced, edition>>
worker == <<connection, sessionId, configuration, job, hand>>
display == <<graph, drawn, overview, newest, cleared>>
forms  == <<ready, operation, config, theme>>
vars   == <<daemon, worker, commands, events, page, display, forms, uses, moves>>

Pages == {"overview", "graphs", "other"}

\* What the user starts.
Command(kind, slot) == [kind |-> kind, slot |-> slot]
Nothing == Command("none", NoSlot)

Event(kind, of) == [kind |-> kind, of |-> of]

Steps == {"status", "load", "force", "telemetry", "apply", "reload", "read", "write"}

Partial(S) == {{}} \union {{x} : x \in S}

\* What the parts of the state are made of; their bounds are in the guards.
Reading == [id : Nat \ {0}, session : Nat, sequence : Nat, at : Nat]
Buffer  == [samples : Seq(Reading), session_id : Partial(Nat), last_sequence : Partial(Nat),
            last_observed : Partial(Nat), view : Views, paused : BOOLEAN]
Message == [kind : {"offline", "session"}, of : {{}}] \union [kind : {"status"}, of : BOOLEAN]
           \union [kind : {"configuration"}, of : Nat]
           \union [kind : {"telemetry"}, of : {{t} : t \in Reading}]
           \union [kind : {"operation"}, of : {"running", "done"}]
           \union [kind : {"theme"}, of : ThemeSlots]
Request == [kind : {"refresh", "apply", "reload"}, slot : {NoSlot}]
           \union [kind : {"read", "write"}, slot : ThemeSlots]

DaemonKinds ==
    /\ attached \in BOOLEAN /\ session \in Nat /\ sequence \in Nat /\ produced \in Nat
    /\ edition \in Nat /\ telemetry \in Partial(Reading)
WorkerKinds ==
    /\ connection \in {"none", "live", "dead"} /\ sessionId \in Partial(Nat)
    /\ configuration \in Partial(Nat) /\ job \in Seq(Steps)
    /\ hand \in Request \union {Nothing}
QueueKinds == commands \in Seq(Request) /\ events \in Seq(Message)
GraphKinds == graph \in Buffer /\ newest \in Nat /\ cleared \in Nat
FormKinds ==
    /\ ready \in BOOLEAN /\ operation \in {"running", "done"}
    /\ config \in [loaded : BOOLEAN, dirty : BOOLEAN, base : Nat]
    /\ theme \in [selected : ThemeSlots, confirm : {"", "store", "write-theme"},
                  asked : ThemeSlots \union {NoSlot}]
KindsOK == DaemonKinds /\ WorkerKinds /\ QueueKinds /\ GraphKinds /\ FormKinds

TypeOK == KindsOK /\ page \in Pages /\ uses \in Nat /\ moves \in Nat

Init ==
    /\ attached = TRUE /\ session = 1 /\ telemetry = {} /\ sequence = 0 /\ produced = 0
    /\ edition = 1
    /\ connection = "none" /\ sessionId = {} /\ configuration = {} /\ job = <<>>
    /\ hand = Nothing /\ commands = <<>> /\ events = <<>>
    /\ page \in Pages /\ ready = FALSE /\ operation = "done"
    /\ \E v \in Views : graph = Fresh(v)
    /\ drawn = Frame(graph) /\ overview = OverviewFrame(graph)
    /\ config = [loaded |-> FALSE, dirty |-> FALSE, base |-> 0]
    /\ \E s \in ThemeSlots : theme = [selected |-> s, confirm |-> "", asked |-> NoSlot]
    /\ newest = 0 /\ cleared = 0 /\ uses = 0 /\ moves = 0

--------------------------------------------------------------------------------
\* The daemon and its device.

Poll ==
    /\ attached /\ produced < MaxSamples /\ produced' = produced + 1 /\ sequence' = sequence + 1
    /\ \E at \in 1..MaxTime :
         telemetry' = {[id |-> produced', session |-> session, sequence |-> sequence', at |-> at]}
    /\ UNCHANGED <<attached, session, edition, worker, commands, events, page, display,
                   forms, uses, moves>>

Unplug ==
    /\ attached /\ attached' = FALSE /\ telemetry' = {}
    /\ UNCHANGED <<session, sequence, edition, connection>>

Plug ==
    /\ attached' = TRUE /\ session' = session + 1 /\ telemetry' = {}
    /\ sequence' = sequence + 1 /\ edition' = edition + 1 /\ UNCHANGED connection

\* Another process counts its sessions and events from the start.
Restart ==
    /\ session' = (IF attached THEN 1 ELSE 0) /\ telemetry' = {} /\ sequence' = 0
    /\ connection' = (IF connection = "live" THEN "dead" ELSE connection)
    /\ UNCHANGED <<attached, edition>>

OtherClientWrites ==
    /\ attached /\ edition' = edition + 1
    /\ UNCHANGED <<attached, session, telemetry, sequence, connection>>

Move ==
    /\ moves < MaxMoves /\ moves' = moves + 1
    /\ Unplug \/ Plug \/ Restart \/ OtherClientWrites
    /\ UNCHANGED <<produced, sessionId, configuration, job, hand, commands, events, page,
                   display, forms, uses>>

--------------------------------------------------------------------------------
\* The worker: a call sends events to the window.

Emit(es) == events' = events \o es /\ Len(events') <= MaxEvents

Offline == Event("offline", {})

ConnectionFailed ==
    /\ connection' = "none" /\ sessionId' = {} /\ job' = <<>> /\ hand' = Nothing
    /\ Emit(<<Offline>>) /\ UNCHANGED <<configuration, edition>>

Go(es, rest) ==
    /\ Emit(es) /\ job' = rest /\ hand' = (IF rest = <<>> THEN Nothing ELSE hand)
    /\ UNCHANGED connection

\* What follows a status, for a session of which known is the configuration.
Load(known) ==
    IF ~attached THEN <<>> ELSE (IF known = {} THEN <<"load">> ELSE <<>>) \o <<"telemetry">>

GetStatus ==
    /\ UNCHANGED edition
    /\ IF sessionId = {session}
       THEN /\ Go(<<Event("status", attached)>>, Load(configuration) \o Tail(job))
            /\ UNCHANGED <<sessionId, configuration>>
       ELSE /\ Go(<<Event("status", attached), Event("session", {})>>, Load({}) \o Tail(job))
            /\ sessionId' = {session} /\ configuration' = {}

\* An unanswered or refused read is left to the next refresh.
GetConfiguration ==
    /\ UNCHANGED <<sessionId, edition>>
    /\ \/ /\ connection = "live" /\ attached /\ configuration' = {edition}
          /\ Go(<<Event("configuration", edition)>>, Tail(job))
       \/ Go(<<>>, Tail(job)) /\ UNCHANGED configuration

GetTelemetry ==
    /\ UNCHANGED <<sessionId, configuration, edition>>
    /\ Go(IF telemetry = {} THEN <<>> ELSE <<Event("telemetry", telemetry)>>, Tail(job))

Outcome(state) == Event("operation", state)

Refused ==
    Go(<<Outcome("done")>>, <<>>) /\ UNCHANGED <<sessionId, configuration, edition>>

\* The daemon compares the revision that the worker holds.
ApplyConfiguration ==
    /\ attached /\ configuration = {edition} /\ edition' = edition + 1
    /\ configuration' = {edition'} /\ UNCHANGED sessionId
    /\ Go(<<Event("configuration", edition'), Outcome("done")>>, <<>>)

\* ReloadConfiguration and ResetConfiguration.
ReloadConfiguration ==
    /\ attached /\ edition' = edition + 1 /\ configuration' = {edition'} /\ UNCHANGED sessionId
    /\ Go(<<Event("configuration", edition'), Outcome("done")>>, <<>>)

\* ReadThemeAsset and WriteThemeAsset.
ThemeAsset ==
    /\ attached /\ UNCHANGED <<sessionId, configuration, edition>>
    /\ Go(<<Event("theme", hand.slot), Outcome("done")>>, <<>>)

Call ==
    /\ job # <<>>
    /\ LET step == Head(job) IN
         IF step \in {"load", "force"} THEN GetConfiguration
         ELSE IF connection # "live" THEN ConnectionFailed
         ELSE CASE step = "status"    -> GetStatus
                [] step = "telemetry" -> GetTelemetry
                [] step = "apply"     -> ApplyConfiguration \/ Refused
                [] step = "reload"    -> ReloadConfiguration \/ Refused
                [] step \in {"read", "write"} -> ThemeAsset \/ Refused
    /\ UNCHANGED <<attached, session, telemetry, sequence, produced, commands, page, display,
                   forms, uses, moves>>

Connect == connection' = (IF connection = "none" THEN "live" ELSE connection)

Tick ==
    /\ job = <<>> /\ job' = <<"status">> /\ Connect
    /\ UNCHANGED <<daemon, sessionId, configuration, hand, commands, events, page, display,
                   forms, uses, moves>>

TakeCommand ==
    /\ job = <<>> /\ commands # <<>> /\ commands' = Tail(commands) /\ hand' = Head(commands)
    /\ IF hand'.kind = "refresh"
       THEN job' = <<"status", "force">> /\ Connect /\ UNCHANGED events
       ELSE job' = <<hand'.kind>> /\ Emit(<<Outcome("running")>>) /\ UNCHANGED connection
    /\ UNCHANGED <<daemon, sessionId, configuration, page, display, forms, uses, moves>>

--------------------------------------------------------------------------------
\* The window takes the events one by one.

RenderGraph    == drawn' = Frame(graph')
RenderOverview == overview' = OverviewFrame(graph')

\* The operation is left as it is.
ApplyOffline_Faulty ==
    /\ ready' = FALSE /\ config' = [config EXCEPT !.loaded = FALSE]
    /\ UNCHANGED <<operation, theme, display>>
ApplyOffline ==
    /\ ready' = FALSE /\ config' = [config EXCEPT !.loaded = FALSE]
    /\ operation' = (IF operation = "running" THEN "done" ELSE operation)
    /\ UNCHANGED <<theme, display>>

\* The form stays loaded.
ResetWindow_Faulty ==
    /\ graph' = ResetSession(graph) /\ RenderGraph /\ RenderOverview
    /\ ready' = FALSE /\ config' = [config EXCEPT !.dirty = FALSE] /\ cleared' = 0
    /\ UNCHANGED <<operation, theme, newest>>
ResetWindow ==
    /\ graph' = ResetSession(graph) /\ RenderGraph /\ RenderOverview
    /\ ready' = FALSE /\ config' = [config EXCEPT !.loaded = FALSE, !.dirty = FALSE]
    /\ cleared' = 0 /\ UNCHANGED <<operation, theme, newest>>

\* Frames are made for the page that is shown.
ApplyTelemetry(t) ==
    /\ graph' = (IF Duplicate(graph, t) THEN graph ELSE Record(graph, t))
    /\ ready' = TRUE /\ UNCHANGED <<operation, config, theme, cleared>>
    /\ IF Duplicate(graph, t) THEN UNCHANGED <<drawn, overview, newest>>
       ELSE /\ newest' = t.id
            /\ IF page = "graphs" /\ ~graph.paused THEN RenderGraph ELSE UNCHANGED drawn
            /\ overview' = IF page = "overview" THEN OverviewFrame(graph')
                           ELSE IF SessionReset(graph, t) THEN <<>> ELSE overview

ApplyConfigurationEvent(of) ==
    /\ config' = [loaded |-> TRUE, dirty |-> FALSE, base |-> of]
    /\ UNCHANGED <<ready, operation, theme, display>>

ApplyTheme(slot) ==
    theme' = [theme EXCEPT !.selected = slot] /\ UNCHANGED <<ready, operation, config, display>>

ApplyEvent ==
    /\ events # <<>> /\ events' = Tail(events)
    /\ LET e == Head(events) IN
         CASE e.kind = "offline"   -> ApplyOffline
           [] e.kind = "session"   -> ResetWindow
           [] e.kind = "status"    ->
                  ready' = e.of /\ UNCHANGED <<operation, config, theme, display>>
           [] e.kind = "telemetry" -> \E t \in e.of : ApplyTelemetry(t)
           [] e.kind = "configuration" -> ApplyConfigurationEvent(e.of)
           [] e.kind = "theme"     -> ApplyTheme(e.of)
           [] e.kind = "operation" ->
                  operation' = e.of /\ UNCHANGED <<ready, config, theme, display>>
    /\ UNCHANGED <<daemon, worker, commands, page, uses, moves>>

--------------------------------------------------------------------------------
\* The user.  While a confirmation is asked for, it covers the window.

NoDialog == theme.confirm = ""

\* What was drawn last is shown.
Show_Faulty(p) ==
    /\ NoDialog /\ page # p /\ page' = p
    /\ UNCHANGED <<daemon, worker, commands, events, display, forms, uses, moves>>
Show(p) ==
    /\ NoDialog /\ page # p /\ page' = p
    /\ drawn' = (IF p = "graphs" THEN Frame(graph) ELSE drawn)
    /\ overview' = (IF p = "overview" THEN OverviewFrame(graph) ELSE overview)
    /\ UNCHANGED <<daemon, worker, commands, events, graph, newest, cleared, forms,
                   uses, moves>>

UpdateGraph(g) == graph' = g /\ RenderGraph

ChangeGraph ==
    /\ NoDialog /\ page = "graphs"
    /\ \/ \E v \in Views \ {graph.view} : UpdateGraph([graph EXCEPT !.view = v])
          /\ UNCHANGED <<overview, cleared>>
       \/ UpdateGraph([graph EXCEPT !.paused = ~@]) /\ UNCHANGED <<overview, cleared>>
       \/ UpdateGraph(ClearHistory(graph)) /\ RenderOverview
          /\ cleared' = (IF graph.session_id = {} THEN cleared ELSE newest)
    /\ UNCHANGED <<daemon, worker, commands, events, page, newest, forms, uses, moves>>

\* Commands go to the worker's queue.
Send(command) == commands' = Append(commands, command)

Editable == config.loaded /\ operation # "running"

Edit ==
    /\ Editable /\ ~config.dirty /\ config' = [config EXCEPT !.dirty = TRUE]
    /\ UNCHANGED <<ready, operation, theme, commands>>

QueueConfig == Send(Command("apply", NoSlot))

ApplyConfig == Editable /\ config.dirty /\ QueueConfig /\ UNCHANGED forms

Ask(kind, asked) ==
    /\ theme' = [theme EXCEPT !.confirm = kind, !.asked = asked]
    /\ UNCHANGED <<ready, operation, config, commands>>

AskStore == Editable /\ config.dirty /\ Ask("store", NoSlot)
AskWrite == ready /\ Ask("write-theme", theme.selected)

Select ==
    /\ \E s \in ThemeSlots \ {theme.selected} : theme' = [theme EXCEPT !.selected = s]
    /\ UNCHANGED <<ready, operation, config, commands>>

Order ==
    /\ UNCHANGED forms
    /\ \/ Send(Command("refresh", NoSlot))
       \/ Editable /\ Send(Command("reload", NoSlot))
       \/ ready /\ Send(Command("read", theme.selected))

\* The answer to a confirmation.
Answer ==
    /\ theme' = [theme EXCEPT !.confirm = "", !.asked = NoSlot]
    /\ \/ theme.confirm = "store" /\ QueueConfig
       \/ theme.confirm = "write-theme" /\ Send(Command("write", theme.selected))
       \/ UNCHANGED commands
    /\ UNCHANGED <<ready, operation, config, uses>>

UseForms ==
    /\ page = "other"
    /\ \/ /\ NoDialog /\ uses < MaxUses /\ uses' = uses + 1
          /\ Edit \/ ApplyConfig \/ AskStore \/ AskWrite \/ Select \/ Order
       \/ ~NoDialog /\ Answer
    /\ UNCHANGED <<daemon, worker, events, page, display, moves>>

--------------------------------------------------------------------------------
Worker == Call \/ Tick \/ TakeCommand
User   == (\E p \in Pages : Show(p)) \/ ChangeGraph \/ UseForms

Next == Poll \/ Move \/ Worker \/ ApplyEvent \/ User

Spec == Init /\ [][Next]_vars

--------------------------------------------------------------------------------
\* The page that is shown is drawn from what is recorded, unless it is paused, whatever
\* pages, samples, sessions and views came in between (app.rs:357-437, 862-874).
GraphIsCurrent ==
    /\ page = "graphs" /\ ~graph.paused => drawn = Frame(graph)
    /\ page = "overview" => overview = OverviewFrame(graph)

\* The samples of the graph are of one session, in the order in which they were taken,
\* at increasing times, and none that a clear removed comes back with a later poll
\* (graph.rs:233-282).
SamplesAreNew ==
    /\ \A i \in DOMAIN graph.samples :
         /\ graph.samples[i].id > cleared /\ {graph.samples[i].session} = graph.session_id
         /\ i > 1 => /\ graph.samples[i].id > graph.samples[i - 1].id
                     /\ graph.samples[i].at > graph.samples[i - 1].at

\* The form that is said to show the active settings does, once what is on its way has
\* arrived (app.rs:759-761, 1273-1276, client.rs:408-416).
Settles(kind) == \A i \in DOMAIN events : events[i].kind # kind
FormIsTrue ==
    /\ config.loaded /\ ~config.dirty
    /\ Settles("configuration") /\ Settles("session") /\ Settles("offline")
    => configuration = {config.base}

\* The operation that is shown as running is in the worker's hands, or its end is on the
\* way (client.rs:841-852, app.rs:746-748).
RunningEnds ==
    operation = "running" =>
        \/ hand.kind \notin {"none", "refresh"}
        \/ \E i \in DOMAIN events : events[i].kind \in {"offline", "operation"}

\* What is written is the slot that was selected when the replacement was asked for:
\* "Select one named slot [...] choose Replace slot. Review the warning and confirm the
\* write." (docs/desktop.md:94-96).
WritesChosenSlot ==
    [][UseForms /\ theme.confirm = "write-theme" /\ commands' # commands =>
          theme.selected = theme.asked]_vars

--------------------------------------------------------------------------------
\* The inductive invariant.

\* A command of the user is the only call in hand; a telemetry is of a session that is
\* known, and nothing is in hand without a call.
Busy  == hand.kind \notin {"none", "refresh"}
Reads == {"status", "load", "force", "telemetry"}
WorkOK ==
    /\ IF Busy THEN job = <<hand.kind>> ELSE job \in Seq(Reads)
    /\ job = <<>> => hand = Nothing
    /\ (\E i \in DOMAIN job : job[i] = "telemetry") => sessionId # {}
    /\ connection = "none" => sessionId = {}

\* What is running, and what is announced as running, is in hand or has an end on its way.
Ends == {"offline", "operation"}
OutcomesOK(q, shown, busy) ==
    /\ shown = "running" => busy \/ \E k \in DOMAIN q : q[k].kind \in Ends
    /\ \A i \in DOMAIN q : q[i] = Outcome("running") =>
          busy \/ \E k \in DOMAIN q : k > i /\ q[k].kind \in Ends

\* The last of the configurations on their way, if no session follows it, is the worker's.
Sources == {"configuration", "session"}
FormOK(q, form, known) ==
    /\ form.loaded /\ (\A k \in DOMAIN q : q[k].kind \notin Sources) => known = {form.base}
    /\ \A i \in DOMAIN q :
          q[i].kind = "configuration" /\ (\A k \in DOMAIN q : k > i => q[k].kind \notin Sources)
          => known = {q[i].of}

\* Between two sessions the samples on their way are in the order in which they were taken.
Brought(e) == IF e.kind = "telemetry" THEN e.of ELSE {}
SameRun(q, i, j) == \A k \in DOMAIN q : i < k /\ k < j => q[k].kind # "session"
Before(s, t) == s = t \/ (s.id < t.id /\ s.sequence < t.sequence)
InOrder(q) ==
    \A i, j \in DOMAIN q : i < j /\ SameRun(q, i, j) =>
        \A s \in Brought(q[i]), t \in Brought(q[j]) : Before(s, t)

\* A sample that reaches the graph of a session is its newest, or newer than all it has had.
Recorded(g, last, t) ==
    g.session_id # {} =>
        \/ last = t.id /\ g.last_sequence = {t.sequence} /\ g.session_id = {t.session}
        \/ last < t.id /\ \A n \in g.last_sequence : n < t.sequence
ArrivesOK(q, g, last) ==
    \A i \in DOMAIN q : SameRun(q, 0, i) => \A t \in Brought(q[i]) : Recorded(g, last, t)

\* While the connection lives the daemon's sample comes after those on their way.
LatestOK(q, g, last, latest, number) ==
    /\ \A i \in DOMAIN q : SameRun(q, i, Len(q) + 1) => \A t \in Brought(q[i]) :
          t.sequence <= number /\ \A u \in latest : Before(t, u)
    /\ SameRun(q, 0, Len(q) + 1) =>
          /\ \A n \in g.last_sequence : n <= number
          /\ \A u \in latest : Recorded(g, last, u)

\* Nothing is newer than the samples that were produced.
Taken(q, number) == \A i \in DOMAIN q : \A t \in Brought(q[i]) : t.id <= number
SamplesOK ==
    /\ InOrder(events) /\ ArrivesOK(events, graph, newest)
    /\ connection = "live" /\ sessionId # {} =>
          LatestOK(events, graph, newest, telemetry, sequence)
    /\ Taken(events, produced) /\ newest <= produced
    /\ \A u \in telemetry : u.id <= produced /\ u.sequence <= sequence

\* What the graph keeps of its newest sample, whether the sample is still there or cleared.
GraphOK ==
    /\ graph.session_id = {} => graph.samples = <<>> /\ graph.last_sequence = {} /\ cleared = 0
    /\ graph.samples # <<>> => /\ graph.last_observed = {Last(graph.samples).at}
                               /\ newest = Last(graph.samples).id
    /\ cleared <= newest

Inductive ==
    /\ KindsOK /\ WorkOK /\ OutcomesOK(events, operation, Busy)
    /\ FormOK(events, config, configuration) /\ SamplesOK /\ GraphOK /\ SamplesAreNew
================================================================================
