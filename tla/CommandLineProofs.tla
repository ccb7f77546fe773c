--------------------------- MODULE CommandLineProofs ---------------------------
(***************************************************************************)
(* Proofs about EventStream, for buffers of every size and any number of   *)
(* states: what is read because of an event is as new as the event, and a  *)
(* loss can be told by the numbers; and that a run of the client, which    *)
(* has the stream as a part, is a run of its parts.                        *)
(***************************************************************************)
EXTENDS CommandLine, TLAPS

--------------------------------------------------------------------------------
\* Types.

Connections == {"absent", "ambiguous", "connecting", "ready", "busy", "disconnecting", "recovering"}
Kinds == {"connected", "disconnected", "updated", "screen"}
Telemetry == [session : Nat, sequence : Nat, stale : BOOLEAN]
States == [connection : Connections, session : Nat, sequence : Nat, telemetry : Telemetry]
Messages == [kind : Kinds \union {"none", "snapshot"}, sequence : Nat, session : Nat]

TypeOK ==
    /\ state \in States /\ {outgoing, first, latest} \subseteq Messages
    /\ channel \in Seq(Messages) /\ stream \in Seq(Messages) /\ sent \subseteq Messages
    /\ shown \in Telemetry /\ readAt \in Nat
    /\ seen \in Messages \X Messages /\ watching \in BOOLEAN

\* One that the manager sent.
Real(e) == e.kind \in Kinds

--------------------------------------------------------------------------------
\* Numbers in sequences of events.

Precedes(e, s) ==
    Real(e) => \A i \in DOMAIN s : Real(s[i]) => e.sequence < s[i].sequence

Increasing(s) ==
    \A i, j \in DOMAIN s : i < j /\ Real(s[i]) /\ Real(s[j]) => s[i].sequence < s[j].sequence

InOrder(s, t) == \A i \in DOMAIN s : Precedes(s[i], t)

LEMMA TailFacts ==
    ASSUME NEW S, NEW s \in Seq(S), s # <<>>
    PROVE  /\ Tail(s) \in Seq(S) /\ Head(s) \in S
           /\ 1 \in DOMAIN s /\ Head(s) = s[1]
           /\ \A i \in DOMAIN Tail(s) : /\ i \in Nat \ {0} /\ i + 1 \in DOMAIN s
                                        /\ Tail(s)[i] = s[i + 1]
OBVIOUS

LEMMA AppendFacts ==
    ASSUME NEW S, NEW s \in Seq(S), NEW e \in S
    PROVE  /\ Append(s, e) \in Seq(S)
           /\ \A i \in DOMAIN Append(s, e) :
                 \/ i \in DOMAIN s /\ Append(s, e)[i] = s[i]
                 \/ i = Len(s) + 1 /\ Append(s, e)[i] = e
OBVIOUS

LEMMA TailOrder ==
    ASSUME NEW s \in Seq(Messages), s # <<>>, Increasing(s)
    PROVE  /\ Increasing(Tail(s)) /\ Precedes(Head(s), Tail(s))
           /\ \A e \in Messages : Precedes(e, s) => Precedes(e, Tail(s))
<1>1. Increasing(Tail(s))
  BY TailFacts DEF Increasing
<1>2. Precedes(Head(s), Tail(s))
  BY TailFacts DEF Increasing, Precedes
<1>3. \A e \in Messages : Precedes(e, s) => Precedes(e, Tail(s))
  BY TailFacts DEF Precedes
<1> QED BY <1>1, <1>2, <1>3

LEMMA AppendOrder ==
    ASSUME NEW s \in Seq(Messages), NEW e \in Messages, Increasing(s),
           \A i \in DOMAIN s : Real(s[i]) /\ Real(e) => s[i].sequence < e.sequence
    PROVE  /\ Increasing(Append(s, e))
           /\ \A o \in Messages : Precedes(o, s) /\ (Real(o) /\ Real(e) => o.sequence < e.sequence)
                                     => Precedes(o, Append(s, e))
<1>1. Increasing(Append(s, e))
  <2>1. \A i \in DOMAIN s : i \in Nat /\ i <= Len(s)
    OBVIOUS
  <2> QED BY <2>1, AppendFacts DEF Increasing
<1>2. \A o \in Messages : Precedes(o, s) /\ (Real(o) /\ Real(e) => o.sequence < e.sequence)
                             => Precedes(o, Append(s, e))
  BY AppendFacts DEF Precedes
<1> QED BY <1>1, <1>2

--------------------------------------------------------------------------------
\* The inductive invariant.

Devices == {"ready", "busy", "disconnecting"}

\* The telemetry is no newer than the state, and while a device is there it is
\* of its session.
Consistent(s) ==
    /\ s.telemetry.session <= s.session /\ s.telemetry.sequence <= s.sequence
    /\ s.connection \in Devices => s.telemetry.session = s.session

\* The state s shows what e announces, or something newer.
Announced(e, s) ==
    /\ e.sequence <= s.sequence /\ e.session <= s.session
    /\ e.kind \in {"connected", "updated"} => e.sequence <= s.telemetry.sequence
    /\ e.kind = "disconnected" => \/ s.telemetry.stale /\ s.connection \notin Devices
                                  \/ e.session < s.telemetry.session

\* An event that was sent, or a snapshot of this state or an earlier one.
Known(e) == e \in sent \/ (e.kind = "snapshot" /\ e.sequence <= state.sequence)

ManagerOK ==
    /\ Consistent(state)
    /\ \A e \in sent \union {outgoing} : Announced(e, state)
    /\ \A e \in sent : Real(e)
    /\ outgoing # NoEvent => Real(outgoing) /\ \A e \in sent : e.sequence < outgoing.sequence

\* Events have numbers of their own, and a connection begins a session.
Numbered(a, b) ==
    /\ a.sequence = b.sequence => a = b
    /\ a.sequence < b.sequence => /\ a.session <= b.session
                                  /\ b.kind = "connected" => a.session < b.session

NumbersOK ==
    /\ \A a, b \in sent : Numbered(a, b)
    /\ outgoing # NoEvent => \A a \in sent : Numbered(a, outgoing)

\* What is on its way is known, and in order.
WayOK ==
    /\ \/ first = NoEvent /\ service = "new"
       \/ first.kind = "snapshot" /\ Known(first)
    /\ latest = NoEvent \/ latest \in sent
    /\ \A i \in DOMAIN channel : channel[i] \in sent
    /\ \A i \in DOMAIN stream : Known(stream[i])
    /\ \A i \in {1, 2} : seen[i] = NoEvent \/ Known(seen[i])
    /\ Increasing(channel) /\ Increasing(stream)
    /\ Precedes(latest, channel) /\ InOrder(stream, channel)
    /\ Precedes(seen[2], stream) /\ Precedes(seen[2], channel)
    /\ Real(seen[1]) /\ Real(seen[2]) => seen[1].sequence < seen[2].sequence

\* What the client shows follows what it received.
ClientOK ==
    /\ follower \in {"idle", "connecting"} => seen = <<NoEvent, NoEvent>>
    /\ EventsFollowState

Inductive == TypeOK /\ ManagerOK /\ NumbersOK /\ WayOK /\ ClientOK

LEMMA NoEventFacts == NoEvent \in Messages /\ ~Real(NoEvent) /\ NoEvent.kind = "none"
BY DEF NoEvent, Messages, Real, Kinds

LEMMA InductiveInit == StreamInit => Inductive
<1> SUFFICES ASSUME StreamInit PROVE Inductive
  OBVIOUS
<1>1. TypeOK
  BY NoEventFacts DEF StreamInit, TypeOK, States, Telemetry, Connections, NoTelemetry
<1>2. ManagerOK /\ NumbersOK
  BY NoEventFacts DEF StreamInit, ManagerOK, NumbersOK, Consistent, Announced, NoEvent,
                      NoTelemetry, Devices
<1>3. WayOK
  <2>1. channel = <<>> /\ stream = <<>> /\ DOMAIN channel = {} /\ DOMAIN stream = {}
    BY DEF StreamInit
  <2>2. seen[1] = NoEvent /\ seen[2] = NoEvent /\ latest = NoEvent /\ first = NoEvent
        /\ service = "new"
    BY DEF StreamInit
  <2> QED BY <2>1, <2>2, NoEventFacts DEF WayOK, Increasing, Precedes, InOrder
<1>4. ClientOK
  BY NoEventFacts DEF StreamInit, ClientOK, EventsFollowState
<1> QED BY <1>1, <1>2, <1>3, <1>4 DEF Inductive

\* What is published is consistent, and shows what was announced before and what
\* it announces itself.
Allowed(s, kind) ==
    LET next == [s EXCEPT !.sequence = state.sequence + 1]
    IN  /\ state.session <= s.session
        /\ kind = "connected" => state.session < s.session
        /\ Consistent(next)
        /\ \A e \in Messages : Announced(e, state) => Announced(e, next)
        /\ kind # "none" => Announced(Event(kind, next), next)

LEMMA Publishing ==
    ASSUME Inductive, NEW s \in States, NEW kind \in Kinds \union {"none"}, Publish(s, kind),
           Allowed(s, kind)
    PROVE  Inductive'
<1>0. /\ Consistent(state') /\ state.session <= s.session
      /\ \A e \in Messages : Announced(e, state) => Announced(e, state')
      /\ kind # "none" => Announced(Event(kind, state'), state')
      /\ kind = "connected" => state.session < s.session
  BY DEF Publish, Allowed
<1>1. /\ state' \in States /\ state'.sequence = state.sequence + 1
      /\ state'.session = s.session
      /\ state.sequence \in Nat /\ state.session \in Nat /\ s.session \in Nat
  BY DEF Publish, States, Inductive, TypeOK
<1>2. outgoing = NoEvent /\ UNCHANGED <<relay, client, sent, due>>
  BY DEF Publish
<1>3. outgoing' = IF kind = "none" THEN NoEvent ELSE Event(kind, state')
  BY DEF Publish
<1>4. outgoing' \in Messages /\ (outgoing' # NoEvent => Real(outgoing'))
  BY <1>1, <1>3, NoEventFacts DEF Event, Messages, Real, States
<1>5. UNCHANGED <<first, latest, channel, stream, shown, readAt, seen, watching, sent, follower,
                  service>>
  BY <1>2 DEF relay, client
<1>6. TypeOK'
  BY <1>1, <1>4, <1>5 DEF TypeOK, Inductive
<1>7. \A e \in sent : e \in Messages /\ Announced(e, state) /\ e.sequence \in Nat
                     /\ e.session \in Nat /\ e.sequence <= state.sequence
                     /\ e.session <= state.session
  BY DEF Inductive, TypeOK, ManagerOK, Messages, Announced
<1>8. Announced(outgoing', state')
  <2>1. CASE kind = "none"
    <3>1. Announced(NoEvent, state)
      BY <1>2 DEF Inductive, ManagerOK
    <3> QED BY <1>0, <1>3, <2>1, <3>1, NoEventFacts
  <2> QED BY <1>0, <1>3, <2>1
<1>9. outgoing' # NoEvent => /\ outgoing'.sequence = state.sequence + 1
                            /\ outgoing'.session = s.session /\ outgoing'.kind = kind
  BY <1>1, <1>3 DEF Event
<1>10. ManagerOK'
  <2>1. \A e \in sent' : Announced(e, state') /\ Real(e)
    BY <1>5, <1>0, <1>7 DEF Inductive, ManagerOK
  <2>2. outgoing' # NoEvent => \A e \in sent' : e.sequence < outgoing'.sequence
    BY <1>1, <1>5, <1>7, <1>9
  <2> QED BY <1>0, <1>4, <1>8, <2>1, <2>2 DEF ManagerOK
<1>11. NumbersOK'
  <2>1. outgoing' # NoEvent => \A a \in sent' : Numbered(a, outgoing')
    BY <1>0, <1>1, <1>5, <1>7, <1>9 DEF Numbered
  <2> QED BY <1>5, <2>1 DEF NumbersOK, Inductive
<1>12. WayOK'
  <2>1. \A e \in Messages : Known(e) => Known(e)'
    BY <1>1, <1>5 DEF Known, Messages
  <2>2. first \in Messages /\ (\A i \in DOMAIN stream : stream[i] \in Messages)
        /\ seen[1] \in Messages /\ seen[2] \in Messages
    BY DEF Inductive, TypeOK
  <2> QED BY <1>5, <2>1, <2>2 DEF WayOK, Inductive
<1>13. ClientOK'
  BY <1>5 DEF ClientOK, EventsFollowState, Inductive
<1> QED BY <1>6, <1>10, <1>11, <1>12, <1>13 DEF Inductive

LEMMA ManagerStepKeeps == ASSUME Inductive, ManagerStep PROVE Inductive'
<1>1. /\ state \in States /\ Consistent(state)
      /\ state.session \in Nat /\ state.sequence \in Nat /\ state.connection \in Connections
      /\ state.telemetry \in Telemetry /\ state.telemetry.session \in Nat
      /\ state.telemetry.sequence \in Nat /\ state.telemetry.stale \in BOOLEAN
  BY DEF Inductive, TypeOK, ManagerOK, States, Telemetry
<1> DEFINE At(c) == [state EXCEPT !.connection = c]
\* A step that changes the stage only, into one without a device or between two with one.
<1>2. ASSUME NEW c \in Connections, c \in Devices => state.connection \in Devices
      PROVE  At(c) \in States /\ Allowed(At(c), "none")
  <2>1. At(c) \in States
    BY <1>1 DEF States
  <2>2. Allowed(At(c), "none")
    BY <1>1, <1>2 DEF Allowed, Consistent, Announced, States, Messages
  <2> QED BY <2>1, <2>2
\* A new reading of the device that is there.
<1> DEFINE Read(c, telemetry) == [state EXCEPT !.connection = c, !.telemetry = telemetry]
<1>3. ASSUME NEW c \in Connections, NEW kind \in {"none", "updated"},
             state.connection \in Devices
      PROVE  Read(c, Fresh(state.session)) \in States
             /\ Allowed(Read(c, Fresh(state.session)), kind)
  <2>1. Fresh(state.session) \in Telemetry
    BY <1>1 DEF Fresh, Telemetry
  <2>2. Read(c, Fresh(state.session)) \in States
    BY <1>1, <2>1 DEF States
  <2>3. Allowed(Read(c, Fresh(state.session)), kind)
    BY <1>1, <1>3 DEF Allowed, Consistent, Announced, States, Messages, Fresh, Event
  <2> QED BY <2>2, <2>3
<1> USE DEF In, Attached, Connections, Devices, Kinds
<1>4. CASE ConnectDevice \/ ConnectionFailed \/ Detached \/ SeveralDevices \/ Disconnecting
       \/ SetBusy
  <2>1. PICK c \in Connections : /\ Publish(At(c), "none")
                                 /\ c \in Devices => state.connection \in Devices
    BY <1>4 DEF ConnectDevice, ConnectionFailed, Detached, SeveralDevices, Disconnecting, SetBusy
  <2> HIDE DEF At
  <2> QED BY <1>2, <2>1, Publishing
<1>5. CASE Connected
  <2> DEFINE s == [state EXCEPT !.connection = "ready", !.session = state.session + 1,
                                !.telemetry = Fresh(state.session + 1)]
  <2>1. Fresh(state.session + 1) \in Telemetry
    BY <1>1 DEF Fresh, Telemetry
  <2>2. s \in States
    <3>1. ASSUME NEW n \in Nat, NEW telemetry \in Telemetry
          PROVE  [state EXCEPT !.connection = "ready", !.session = n, !.telemetry = telemetry]
                    \in States
      BY <1>1 DEF States
    <3>2. state.session + 1 \in Nat
      BY <1>1
    <3> QED BY <2>1, <3>1, <3>2
  <2>3. Allowed(s, "connected")
    BY <1>1 DEF Allowed, Consistent, Announced, States, Messages, Fresh, Event
  <2>4. Publish(s, "connected")
    BY <1>5 DEF Connected
  <2> HIDE DEF s
  <2> QED BY <2>2, <2>3, <2>4, Publishing
<1>6. CASE Disconnected
  <2> DEFINE s == [state EXCEPT !.connection = "absent", !.telemetry.stale = TRUE]
  <2>1. s \in States
    <3>1. [state.telemetry EXCEPT !.stale = TRUE] \in Telemetry
      BY <1>1 DEF Telemetry
    <3>2. s = Read("absent", [state.telemetry EXCEPT !.stale = TRUE])
      BY <1>1 DEF States
    <3> QED BY <1>1, <3>1, <3>2 DEF States
  <2>2. Allowed(s, "disconnected")
    BY <1>1, <1>6 DEF Disconnected, Allowed, Consistent, Announced, States, Telemetry, Messages,
                      Event
  <2>3. Publish(s, "disconnected")
    BY <1>6 DEF Disconnected
  <2> HIDE DEF s
  <2> QED BY <2>1, <2>2, <2>3, Publishing
<1>7. CASE PollOnce
  <2> DEFINE s == Read("ready", Fresh(state.session))
  <2>1. [state EXCEPT !.telemetry = Fresh(state.session)] = s /\ state.connection = "ready"
    BY <1>1, <1>7 DEF PollOnce, States
  <2>2. Publish(s, "updated")
    BY <1>7, <2>1 DEF PollOnce
  <2> HIDE DEF Read
  <2> QED BY <1>3, <2>1, <2>2, Publishing
<1>8. CASE PollFailed
  <2> DEFINE s == [state EXCEPT !.telemetry.stale = TRUE]
  <2>1. s \in States
    BY <1>1 DEF States, Telemetry
  <2>2. Allowed(s, "none")
    BY <1>1, <1>8 DEF PollFailed, Allowed, Consistent, Announced, States, Telemetry, Messages
  <2>3. Publish(s, "none")
    BY <1>8 DEF PollFailed
  <2> HIDE DEF s
  <2> QED BY <2>1, <2>2, <2>3, Publishing
<1>9. CASE SetScreen
  <2>1. Allowed(state, "screen")
    BY <1>1, <1>9 DEF SetScreen, Allowed, Consistent, Announced, States, Messages, Event
  <2> QED BY <1>1, <1>9, <2>1, Publishing DEF SetScreen
<1>10. CASE SetReady
  <2>1. Read("ready", state.telemetry) = At("ready")
    BY <1>1 DEF States
  <2>2. state.connection \in Devices
    BY <1>10 DEF SetReady
  <2>3. \/ Publish(At("ready"), "none")
        \/ Publish(Read("ready", Fresh(state.session)), "none")
    BY <1>10, <2>1 DEF SetReady
  <2> HIDE DEF Read, At
  <2> QED BY <1>2, <1>3, <2>2, <2>3, Publishing
<1> QED BY <1>4, <1>5, <1>6, <1>7, <1>8, <1>9, <1>10 DEF ManagerStep

--------------------------------------------------------------------------------
\* The other steps.

\* What the state announces does not change while it stays.
LEMMA Stays ==
    ASSUME Inductive, UNCHANGED <<state, sent>>
    PROVE  \A e : Known(e) <=> Known(e)'
BY DEF Known

LEMMA SendEventKeeps == ASSUME Inductive, SendEvent PROVE Inductive'
<1>1. /\ outgoing # NoEvent /\ outgoing' = NoEvent /\ sent' = sent \union {outgoing}
      /\ UNCHANGED <<state, service, first, latest, watching, follower, stream, shown, readAt,
                     seen>>
  BY DEF SendEvent, client
<1>2. outgoing \in Messages /\ Real(outgoing) /\ channel \in Seq(Messages)
  BY <1>1 DEF Inductive, TypeOK, ManagerOK
<1>3. \A e \in sent : e.sequence < outgoing.sequence
  BY <1>1 DEF Inductive, ManagerOK
<1>4. /\ \A e \in sent : e \in Messages
      /\ \A e \in Messages : e.sequence \in Nat /\ e.session \in Nat
  BY DEF Inductive, TypeOK, Messages
<1>5. \A e : Known(e) => Known(e)'
  BY <1>1 DEF Known
<1> DEFINE kept == IF Len(channel) < Capacity THEN channel ELSE Tail(channel)
<1>6. /\ channel' \in Seq(Messages) /\ Increasing(channel')
      /\ \A i \in DOMAIN channel' : channel'[i] \in sent'
      /\ \A e \in Messages : Precedes(e, channel) /\ (Real(e) => e \in sent)
                              => Precedes(e, channel')
  <2>1. \A i \in DOMAIN channel : channel[i] \in sent
    BY DEF Inductive, WayOK
  <2>2. Increasing(channel)
    BY DEF Inductive, WayOK
  <2>3. CASE channel' = channel
    BY <1>1, <1>2, <2>1, <2>2, <2>3
  <2>4. CASE channel' # channel
    <3>1. PICK s \in Seq(Messages) :
             /\ channel' = Append(s, outgoing) /\ Increasing(s)
             /\ \A i \in DOMAIN s : s[i] \in sent
             /\ \A e \in Messages : Precedes(e, channel) => Precedes(e, s)
      <4>1. CASE channel' = Append(channel, outgoing)
        BY <1>2, <2>1, <2>2, <4>1
      <4>2. CASE channel # <<>> /\ channel' = Append(Tail(channel), outgoing)
        <5>1. /\ Tail(channel) \in Seq(Messages) /\ Increasing(Tail(channel))
              /\ \A e \in Messages : Precedes(e, channel) => Precedes(e, Tail(channel))
          BY <1>2, <2>2, <4>2, TailFacts, TailOrder
        <5>2. \A i \in DOMAIN Tail(channel) : Tail(channel)[i] \in sent
          BY <1>2, <2>1, <4>2, TailFacts
        <5> QED BY <4>2, <5>1, <5>2
      <4>3. Len(channel) >= Capacity => channel # <<>>
        BY <1>2, StreamAssumption
      <4> QED BY <1>2, <2>4, <4>1, <4>2, <4>3, StreamAssumption DEF SendEvent
    <3>2. channel' \in Seq(Messages) /\ Increasing(channel')
      BY <1>2, <1>3, <3>1, AppendFacts, AppendOrder
    <3>3. \A i \in DOMAIN channel' : channel'[i] \in sent'
      BY <1>1, <1>2, <3>1, AppendFacts
    <3>4. \A e \in Messages : Precedes(e, channel) /\ (Real(e) => e \in sent)
                               => Precedes(e, channel')
      BY <1>2, <1>3, <3>1, AppendOrder
    <3> QED BY <3>2, <3>3, <3>4
  <2> QED BY <2>3, <2>4
<1>7. TypeOK'
  BY <1>1, <1>2, <1>6, NoEventFacts DEF Inductive, TypeOK
<1>8. ManagerOK'
  <2>1. \A e \in sent \union {outgoing} : Announced(e, state) /\ Real(e)
    BY <1>2 DEF Inductive, ManagerOK
  <2>2. Announced(NoEvent, state)
    BY DEF NoEvent, Announced, Inductive, TypeOK, States
  <2> QED BY <1>1, <2>1, <2>2 DEF Inductive, ManagerOK
<1>9. NumbersOK'
  <2>1. \A a \in sent : Numbered(a, outgoing) /\ a.sequence < outgoing.sequence
    BY <1>1, <1>3 DEF Inductive, NumbersOK
  <2>2. \A a \in sent : Numbered(outgoing, a)
    BY <1>2, <1>4, <2>1 DEF Numbered
  <2>3. Numbered(outgoing, outgoing)
    BY <1>2, <1>4 DEF Numbered
  <2> QED BY <1>1, <2>1, <2>2, <2>3 DEF Inductive, NumbersOK
<1>10. WayOK'
  <2>1. \A e \in Messages : Known(e) \/ e = NoEvent => (Real(e) => e \in sent)
    BY NoEventFacts DEF Known, Real, Kinds
  <2>2. /\ latest \in Messages /\ seen[1] \in Messages /\ seen[2] \in Messages
        /\ \A i \in DOMAIN stream : stream[i] \in Messages
    BY DEF Inductive, TypeOK
  <2>3. Precedes(latest, channel') /\ Precedes(seen[2], channel') /\ InOrder(stream, channel')
    BY <1>6, <2>1, <2>2 DEF Inductive, WayOK, InOrder, Known
  <2> QED BY <1>1, <1>5, <1>6, <2>3 DEF Inductive, WayOK
<1>11. ClientOK'
  BY <1>1 DEF Inductive, ClientOK, EventsFollowState
<1> QED BY <1>7, <1>8, <1>9, <1>10, <1>11 DEF Inductive

\* A step that neither publishes nor sends.
LEMMA QuietFacts ==
    ASSUME Inductive, UNCHANGED <<manager, sent>>
    PROVE  ManagerOK' /\ NumbersOK' /\ \A e : Known(e) <=> Known(e)'
BY DEF manager, Inductive, ManagerOK, NumbersOK, Known

LEMMA RelayStepKeeps == ASSUME Inductive, RelayStep PROVE Inductive'
<1>1. UNCHANGED <<manager, sent>> /\ UNCHANGED <<state, outgoing, shown, readAt, seen, watching>>
  BY DEF RelayStep, TakeSnapshot, SubscribeEvents, NoticeLag, PassOn, StopService, client, manager
<1>2. ManagerOK' /\ NumbersOK' /\ \A e : Known(e) <=> Known(e)'
  BY <1>1, QuietFacts
<1>3. CASE TakeSnapshot
  <2>1. Snapshot(state) \in Messages /\ Known(Snapshot(state)) /\ Snapshot(state).kind = "snapshot"
    BY DEF Snapshot, Event, Messages, Known, Inductive, TypeOK, States
  <2>2. UNCHANGED <<channel, latest, stream, follower>> /\ first' = Snapshot(state)
    BY <1>3 DEF TakeSnapshot, client
  <2> QED BY <1>1, <1>2, <2>1, <2>2 DEF Inductive, TypeOK, WayOK, ClientOK, EventsFollowState
<1>4. CASE SubscribeEvents \/ NoticeLag
  <2>1. UNCHANGED <<channel, latest, stream, follower, first>> /\ service # "new"
    BY <1>4 DEF SubscribeEvents, NoticeLag, client
  <2> QED BY <1>1, <1>2, <2>1, <1>4 DEF SubscribeEvents, NoticeLag, Inductive, TypeOK, WayOK,
                                      ClientOK, EventsFollowState
<1>5. CASE PassOn
  <2>1. /\ channel # <<>> /\ channel' = Tail(channel) /\ latest' = Head(channel)
        /\ UNCHANGED <<first, service, follower>>
    BY <1>5 DEF PassOn
  <2>2. channel \in Seq(Messages) /\ stream \in Seq(Messages) /\ Increasing(channel)
        /\ Increasing(stream) /\ InOrder(stream, channel) /\ Precedes(seen[2], stream)
        /\ Precedes(seen[2], channel) /\ seen[2] \in Messages
    BY DEF Inductive, TypeOK, WayOK
  <2>3. /\ channel' \in Seq(Messages) /\ Increasing(channel') /\ Precedes(latest', channel')
        /\ \A e \in Messages : Precedes(e, channel) => Precedes(e, channel')
        /\ latest' \in Messages
    BY <2>1, <2>2, TailFacts, TailOrder
  <2>4. latest' \in sent /\ \A i \in DOMAIN channel' : channel'[i] \in sent
    BY <2>1, <2>2, TailFacts DEF Inductive, WayOK
  <2>5. \A e \in Messages : Precedes(e, channel) /\ Real(e) /\ Real(latest') =>
                              e.sequence < latest'.sequence
    BY <2>1, <2>2, TailFacts DEF Precedes
  <2>6. /\ stream' \in Seq(Messages) /\ Increasing(stream') /\ Precedes(seen[2], stream')
        /\ InOrder(stream', channel') /\ \A i \in DOMAIN stream' : Known(stream'[i])
    <3>1. \A i \in DOMAIN stream : Known(stream[i])
      BY DEF Inductive, WayOK
    <3>2. CASE stream' = stream
      BY <2>2, <2>3, <3>1, <3>2 DEF InOrder
    <3>3. CASE stream' # stream
      <4>1. PICK s \in Seq(Messages) :
               /\ stream' = Append(s, latest') /\ Increasing(s) /\ Precedes(seen[2], s)
               /\ InOrder(s, channel) /\ \A i \in DOMAIN s : Known(s[i])
        <5>1. CASE stream' = Append(stream, latest')
          BY <2>2, <3>1, <5>1
        <5>2. CASE stream # <<>> /\ stream' = Append(Tail(stream), latest')
          <6>1. /\ Tail(stream) \in Seq(Messages) /\ Increasing(Tail(stream))
                /\ Precedes(seen[2], Tail(stream))
            BY <2>2, <5>2, TailFacts, TailOrder
          <6>2. InOrder(Tail(stream), channel)
                /\ \A i \in DOMAIN Tail(stream) : Known(Tail(stream)[i])
            BY <2>2, <3>1, <5>2, TailFacts DEF InOrder
          <6> QED BY <5>2, <6>1, <6>2
        <5>3. ~(Len(stream) < Pending) => stream # <<>>
          BY <2>2, StreamAssumption
        <5> QED BY <1>5, <3>3, <5>1, <5>2, <5>3 DEF PassOn
      <4>2. \A i \in DOMAIN s : s[i] \in Messages /\ Precedes(s[i], channel)
        BY <4>1 DEF InOrder
      <4>3. stream' \in Seq(Messages) /\ Increasing(stream')
        BY <2>3, <2>5, <4>1, <4>2, AppendFacts, AppendOrder
      <4>4. Precedes(seen[2], stream')
        BY <2>2, <2>3, <2>5, <4>1, <4>2, AppendOrder
      <4>5. InOrder(stream', channel') /\ \A i \in DOMAIN stream' : Known(stream'[i])
        BY <2>3, <2>4, <4>1, <4>2, AppendFacts DEF InOrder, Known
      <4> QED BY <4>3, <4>4, <4>5
    <3> QED BY <3>2, <3>3
  <2>7. TypeOK'
    BY <1>1, <2>1, <2>3, <2>6 DEF Inductive, TypeOK
  <2>8. WayOK'
    BY <1>1, <1>2, <2>1, <2>2, <2>3, <2>4, <2>6 DEF Inductive, WayOK
  <2> QED BY <1>1, <1>2, <2>1, <2>7, <2>8 DEF Inductive, ClientOK, EventsFollowState
<1>6. CASE StopService
  <2>1. UNCHANGED <<channel, latest, first>> /\ stream' = <<>> /\ follower' = "over"
        /\ service # "new"
    BY <1>6 DEF StopService
  <2>2. /\ stream' \in Seq(Messages) /\ DOMAIN stream' = {}
    BY <2>1
  <2> QED BY <1>1, <1>2, <2>1, <2>2 DEF Inductive, TypeOK, WayOK, ClientOK, EventsFollowState,
                                      Increasing, InOrder, Precedes
<1> QED BY <1>3, <1>4, <1>5, <1>6 DEF RelayStep

LEMMA ClientStepKeeps == ASSUME Inductive, ClientStep PROVE Inductive'
<1>1. UNCHANGED <<manager, relay, sent, watching>>
      /\ UNCHANGED <<state, outgoing, service, first, channel, latest>>
  BY DEF ClientStep, FirstReading, Listen, Receive, ReadAgain, Leave, manager, relay
<1>2. ManagerOK' /\ NumbersOK' /\ \A e : Known(e) <=> Known(e)'
  BY <1>1, QuietFacts
<1>3. state.telemetry \in Telemetry /\ state.sequence \in Nat
  BY DEF Inductive, TypeOK, States
<1>4. CASE FirstReading
  <2>1. UNCHANGED <<stream, seen>> /\ shown' \in Telemetry /\ readAt' \in Nat
        /\ follower = "idle" /\ follower' \in {"over", "connecting"}
    BY <1>3, <1>4 DEF FirstReading, Reread, Inductive, TypeOK
  <2> QED BY <1>1, <1>2, <2>1 DEF Inductive, TypeOK, WayOK, ClientOK, EventsFollowState
<1>5. CASE Listen
  <2>1. /\ UNCHANGED <<shown, readAt, seen>> /\ seen = <<NoEvent, NoEvent>>
        /\ follower' = "listening" /\ service = "on"
        /\ stream' \in {<<>>, <<first>>} \/ (latest # NoEvent /\ stream' = <<latest>>)
    BY <1>5 DEF Listen, Serves, Inductive, ClientOK
  <2>2. first \in Messages /\ latest \in Messages /\ first.kind = "snapshot" /\ Known(first)
        /\ ~Real(first)
    BY <2>1 DEF Inductive, TypeOK, WayOK, Real, Kinds
  <2>3. latest # NoEvent => Known(latest)
    BY DEF Inductive, WayOK, Known
  <2>4. stream' \in Seq(Messages) /\ \A i, j \in DOMAIN stream' : i = j
    <3>1. CASE stream' = <<>>
      BY <3>1
    <3>2. CASE stream' = <<first>>
      BY <2>2, <3>2
    <3>3. CASE stream' = <<latest>>
      BY <2>2, <3>3
    <3> QED BY <2>1, <3>1, <3>2, <3>3
  <2>5. \A i \in DOMAIN stream' : Known(stream'[i]) /\ Precedes(stream'[i], channel)
    BY <2>1, <2>2, <2>3 DEF Inductive, WayOK, Precedes
  <2>6. seen[1] = NoEvent /\ seen[2] = NoEvent
    BY <2>1
  <2>7. Increasing(stream') /\ InOrder(stream', channel) /\ Precedes(seen[2], stream')
    BY <2>4, <2>5, <2>6, NoEventFacts DEF Increasing, InOrder, Precedes
  <2>8. TypeOK' /\ WayOK'
    BY <1>1, <1>2, <2>1, <2>4, <2>5, <2>7 DEF Inductive, TypeOK, WayOK
  <2>9. ClientOK'
    BY <2>1, <2>6, NoEventFacts DEF ClientOK, EventsFollowState
  <2> QED BY <1>2, <2>8, <2>9 DEF Inductive
<1>6. CASE Receive
  <2>1. /\ stream # <<>> /\ stream' = Tail(stream) /\ seen' = <<seen[2], Head(stream)>>
        /\ UNCHANGED <<shown, readAt>> /\ follower = "listening"
        /\ follower' \in IF watching THEN {"reading"} ELSE {"listening", "over"}
    BY <1>6 DEF Receive
  <2>2. stream \in Seq(Messages) /\ seen[2] \in Messages /\ Increasing(stream)
        /\ InOrder(stream, channel) /\ Precedes(seen[2], stream)
        /\ \A i \in DOMAIN stream : Known(stream[i])
    BY DEF Inductive, TypeOK, WayOK
  <2>3. /\ stream' \in Seq(Messages) /\ Increasing(stream') /\ Precedes(Head(stream), stream')
        /\ Head(stream) \in Messages
    BY <2>1, <2>2, TailFacts, TailOrder
  <2>4. /\ InOrder(stream', channel) /\ Precedes(Head(stream), channel)
        /\ \A i \in DOMAIN stream' : Known(stream'[i])
        /\ Known(Head(stream))
        /\ Real(seen[2]) /\ Real(Head(stream)) => seen[2].sequence < Head(stream).sequence
    BY <2>1, <2>2, TailFacts DEF InOrder, Precedes
  <2>5. seen'[1] = seen[2] /\ seen'[2] = Head(stream)
    BY <2>1
  <2>6. TypeOK'
    BY <1>1, <2>1, <2>2, <2>3 DEF Inductive, TypeOK
  <2>7. WayOK'
    BY <1>1, <1>2, <2>2, <2>3, <2>4, <2>5 DEF Inductive, WayOK
  <2>8. ClientOK'
    BY <1>1, <2>1 DEF Inductive, TypeOK, ClientOK, EventsFollowState
  <2> QED BY <1>2, <2>6, <2>7, <2>8 DEF Inductive
<1>7. CASE ReadAgain
  <2>1. /\ UNCHANGED <<stream, seen>> /\ follower' = "listening"
        /\ shown' = state.telemetry /\ readAt' = state.sequence
    BY <1>7 DEF ReadAgain, Reread
  <2>2. seen[2] = NoEvent \/ Known(seen[2])
    BY DEF Inductive, WayOK
  <2>3. EventsFollowState'
    <3>1. CASE seen[2] = NoEvent
      BY <2>1, <3>1, NoEventFacts DEF EventsFollowState
    <3>2. CASE seen[2] \in sent
      <4>1. Announced(seen[2], state) /\ seen[2] \in Messages
        BY <3>2 DEF Inductive, TypeOK, ManagerOK
      <4> QED BY <1>3, <2>1, <4>1 DEF EventsFollowState, Announced, Messages, Telemetry
    <3>3. CASE seen[2].kind = "snapshot" /\ seen[2].sequence <= state.sequence
      <4>1. seen[2] \in Messages
        BY DEF Inductive, TypeOK
      <4> QED BY <1>3, <2>1, <3>3, <4>1 DEF EventsFollowState, Messages
    <3> QED BY <2>2, <3>1, <3>2, <3>3 DEF Known
  <2>4. TypeOK' /\ WayOK'
    BY <1>1, <1>2, <1>3, <2>1 DEF Inductive, TypeOK, WayOK
  <2> QED BY <1>2, <2>1, <2>3, <2>4 DEF Inductive, ClientOK
<1>8. CASE Leave
  <2>1. UNCHANGED <<shown, readAt, seen>> /\ stream' = <<>> /\ follower' = "over"
    BY <1>8 DEF Leave
  <2>2. /\ stream' \in Seq(Messages) /\ DOMAIN stream' = {}
    BY <2>1
  <2> QED BY <1>1, <1>2, <2>1, <2>2 DEF Inductive, TypeOK, WayOK, ClientOK, EventsFollowState,
                                      Increasing, InOrder, Precedes
<1> QED BY <1>4, <1>5, <1>6, <1>7, <1>8 DEF ClientStep

\* The invariant holds in every reachable state.
LEMMA AlwaysInductive == StreamSpec => []Inductive
<1>1. ASSUME Inductive, [StreamNext]_events PROVE Inductive'
  <2>1. CASE UNCHANGED events
    BY <1>1, <2>1 DEF events, manager, relay, client, Inductive, TypeOK, ManagerOK, NumbersOK,
                      WayOK, Known, ClientOK, EventsFollowState
  <2> QED BY <1>1, <2>1, ManagerStepKeeps, SendEventKeeps, RelayStepKeeps, ClientStepKeeps
          DEF StreamNext
<1> QED BY <1>1, InductiveInit, PTL DEF StreamSpec

--------------------------------------------------------------------------------
\* What follows from it.

\* Telemetry that is read because of an event is at least as new as the event
\* (wireview.rs:672-679, manager.rs:1727-1730).
THEOREM EventsAreFollowed == StreamSpec => []EventsFollowState
<1>1. Inductive => EventsFollowState
  BY DEF Inductive, ClientOK
<1> QED BY <1>1, AlwaysInductive, PTL

\* Over both buffers, the numbers tell whether an event or a reconnection was
\* missed (varlink.rs:33-42).
THEOREM LossesAreSeen == StreamSpec => []LossIsSeen
<1>1. Inductive => LossIsSeen
  <2> SUFFICES ASSUME Inductive, NEW a \in Received, NEW b \in Received, a = seen[1], b = seen[2]
               PROVE  LET between == {e \in sent : /\ a.sequence <= e.sequence
                                                   /\ e.sequence <= b.sequence}
                      IN  /\ a.sequence < b.sequence
                          /\ b.sequence = a.sequence + 1 => between = {a, b}
                          /\ b.session = a.session =>
                                \A e \in between \ {a} : e.kind # "connected"
    BY DEF LossIsSeen
  <2>1. a \in Messages /\ b \in Messages /\ Real(a) /\ Real(b)
    BY DEF Inductive, TypeOK, Received, Messages, Real
  <2>2. a \in sent /\ b \in sent /\ a.sequence < b.sequence
    BY <2>1, NoEventFacts DEF Inductive, WayOK, Known, Real, Kinds
  <2>3. \A e \in sent : /\ e.sequence \in Nat /\ e.session \in Nat
                        /\ Numbered(a, e) /\ Numbered(e, b) /\ Numbered(e, a)
    BY <2>2 DEF Inductive, TypeOK, Messages, NumbersOK
  <2>4. b.sequence = a.sequence + 1 =>
          {e \in sent : a.sequence <= e.sequence /\ e.sequence <= b.sequence} = {a, b}
    BY <2>2, <2>3 DEF Numbered
  <2>5. b.session = a.session =>
          \A e \in sent \ {a} : a.sequence <= e.sequence /\ e.sequence <= b.sequence =>
                                e.kind # "connected"
    BY <2>2, <2>3 DEF Numbered
  <2> QED BY <2>2, <2>4, <2>5
<1> QED BY <1>1, AlwaysInductive, PTL

--------------------------------------------------------------------------------
\* A run of the client.

\* Whatever is asked of the program, events reach it as EventStream says and
\* files are written as HistoryExport says (wireview.rs:493-586).
THEOREM ARunIsOfItsParts == Spec => ExportSpec /\ StreamSpec
<1>1. Init => ExportInit /\ StreamInit
  BY DEF Init
<1>2. [Next]_vars => [ExportNext]_export /\ [StreamNext]_events
  BY DEF Next, CheckArguments, Connect, RequireApiVersion, Daemon, Follow, Write, vars, StreamNext
<1> QED BY <1>1, <1>2, PTL DEF Spec, ExportSpec, StreamSpec
================================================================================
