---------------------------- MODULE MainWindowProofs ----------------------------
(***************************************************************************)
(* Proofs about MainWindow, for any number of samples, events, selections, *)
(* commands and changes of the daemon, and any size of the graph: the      *)
(* inductive invariant Inductive, and what follows from it about what the  *)
(* window shows.                                                           *)
(***************************************************************************)
EXTENDS MainWindow, TLAPS

--------------------------------------------------------------------------------
\* Sequences.

LEMMA TailFacts ==
    ASSUME NEW S, NEW w \in Seq(S), w # <<>>
    PROVE  /\ Tail(w) \in Seq(S) /\ Len(w) = Len(Tail(w)) + 1 /\ Head(w) = w[1]
           /\ Head(w) \in S /\ 1 \in DOMAIN w
           /\ \A i \in DOMAIN Tail(w) : /\ i \in Nat \ {0} /\ i + 1 \in DOMAIN w
                                        /\ Tail(w)[i] = w[i + 1]
OBVIOUS

LEMMA TailReaches ==
    ASSUME NEW S, NEW w \in Seq(S), NEW i \in DOMAIN w, i # 1
    PROVE  i - 1 \in DOMAIN Tail(w) /\ Tail(w)[i - 1] = w[i]
OBVIOUS

LEMMA AppendFacts ==
    ASSUME NEW S, NEW w \in Seq(S), NEW x \in S
    PROVE  /\ Append(w, x) \in Seq(S) /\ Len(Append(w, x)) = Len(w) + 1
           /\ Len(w) \in Nat /\ Len(w) + 1 \in DOMAIN Append(w, x)
           /\ Append(w, x)[Len(w) + 1] = x
           /\ \A i \in DOMAIN w : i \in Nat /\ i <= Len(w) /\ i \in DOMAIN Append(w, x)
                                  /\ Append(w, x)[i] = w[i]
           /\ \A i \in DOMAIN Append(w, x) : i \in DOMAIN w \/ i = Len(w) + 1
OBVIOUS

LEMMA EmitNone ==
    ASSUME NEW S, NEW w \in Seq(S)
    PROVE  w \o <<>> = w
OBVIOUS

LEMMA EmitOne ==
    ASSUME NEW S, NEW w \in Seq(S), NEW x \in S
    PROVE  w \o <<x>> = Append(w, x)
OBVIOUS

LEMMA EmitTwo ==
    ASSUME NEW S, NEW w \in Seq(S), NEW x \in S, NEW y \in S
    PROVE  w \o <<x, y>> = Append(Append(w, x), y)
OBVIOUS

LEMMA NothingLeft ==
    ASSUME NEW S, NEW w \in Seq(S), Len(w) = 1
    PROVE  Tail(w) = <<>>
OBVIOUS

LEMMA ConcatFacts ==
    ASSUME NEW S, NEW v \in Seq(S), NEW w \in Seq(S)
    PROVE  v \o w \in Seq(S)
OBVIOUS

LEMMA LastFacts ==
    ASSUME NEW S, NEW w \in Seq(S), NEW x \in S
    PROVE  Last(Append(w, x)) = x /\ Append(w, x) # <<>>
BY DEF Last

--------------------------------------------------------------------------------
\* Values.

LEMMA EventKinds ==
           /\ Offline \in Message /\ Event("session", {}) \in Message
           /\ \A b \in BOOLEAN : Event("status", b) \in Message
           /\ \A n \in Nat : Event("configuration", n) \in Message
           /\ \A t \in Reading : Event("telemetry", {t}) \in Message
           /\ Outcome("running") \in Message /\ Outcome("done") \in Message
           /\ \A s \in ThemeSlots : Event("theme", s) \in Message
<1>1. \A s \in ThemeSlots : [kind |-> "theme", of |-> s] \in Message
  BY DEF Message
<1>2. \A t \in Reading : [kind |-> "telemetry", of |-> {t}] \in Message
  BY DEF Message
<1>3. \A b \in BOOLEAN : [kind |-> "status", of |-> b] \in Message
  BY DEF Message
<1>4. \A n \in Nat : [kind |-> "configuration", of |-> n] \in Message
  BY DEF Message
<1>5. /\ \A k \in {"offline", "session"} : [kind |-> k, of |-> {}] \in Message
      /\ \A s \in {"running", "done"} : [kind |-> "operation", of |-> s] \in Message
  BY DEF Message
<1> QED BY <1>1, <1>2, <1>3, <1>4, <1>5 DEF Offline, Event, Outcome

\* What a message of each kind carries.
LEMMA Contents ==
    ASSUME NEW e \in Message
    PROVE  \/ e.kind \in {"offline", "session"}
           \/ e.kind = "status" /\ e.of \in BOOLEAN
           \/ e.kind = "telemetry" /\ \E t \in Reading : e.of = {t}
           \/ e.kind = "configuration" /\ e.of \in Nat
           \/ e.kind = "theme" /\ e.of \in ThemeSlots
           \/ e.kind = "operation" /\ e.of \in {"running", "done"}
BY DEF Message

LEMMA BroughtIsReading ==
    ASSUME NEW e \in Message
    PROVE  Brought(e) \subseteq Reading
BY DEF Message, Brought

LEMMA RequestKinds ==
           /\ \A k \in {"refresh", "apply", "reload"} : Command(k, NoSlot) \in Request
           /\ \A k \in {"read", "write"}, s \in ThemeSlots : Command(k, s) \in Request
           /\ Nothing \in Request \union {Nothing} /\ Nothing.kind = "none"
           /\ \A r \in Request : /\ r.kind \in {"refresh", "apply", "reload", "read", "write"}
                                 /\ r.kind \in {"read", "write"} => r.slot \in ThemeSlots
BY DEF Command, Request, Nothing

\* The time a sample is given: the daemon's, or the next after the last.
LEMMA ObservedFacts ==
    ASSUME NEW g \in Buffer, NEW t \in Reading
    PROVE  Observed(g, t) \in Nat /\ \A n \in g.last_observed : Observed(g, t) > n
<1>1. \/ g.last_observed = {}
      \/ \E n \in Nat : g.last_observed = {n}
  BY DEF Buffer, Partial
<1>2. t.at \in Nat
  BY DEF Reading
<1>3. CASE g.last_observed = {}
  <2>1. {t.at} \union {n + 1 : n \in g.last_observed} = {t.at}
    BY <1>3
  <2>2. Observed(g, t) = t.at
    BY <2>1, <1>2 DEF Observed, Max
  <2> QED BY <2>2, <1>2, <1>3
<1>4. ASSUME NEW n \in Nat, g.last_observed = {n}
      PROVE  Observed(g, t) \in Nat /\ Observed(g, t) > n
  <2> DEFINE S == {t.at, n + 1}
  <2>1. {t.at} \union {m + 1 : m \in g.last_observed} = S
    BY <1>4
  <2>2. \E x \in S : \A y \in S : x >= y
    BY <1>2
  <2>3. Max(S) \in S /\ \A y \in S : Max(S) >= y
    BY <2>2 DEF Max
  <2>4. Observed(g, t) = Max(S)
    BY <2>1 DEF Observed
  <2> QED BY <2>3, <2>4, <1>2
<1> QED BY <1>1, <1>3, <1>4

LEMMA ResetIsBuffer ==
    ASSUME NEW g \in Buffer
    PROVE  /\ ResetSession(g) \in Buffer /\ ResetSession(g).samples = <<>>
           /\ ResetSession(g).session_id = {} /\ ResetSession(g).last_sequence = {}
           /\ ResetSession(g).last_observed = {}
           /\ ResetSession(g).view = g.view /\ ResetSession(g).paused = g.paused
<1>1. /\ <<>> \in Seq(Reading) /\ {} \in Partial(Nat)
  BY DEF Partial
<1> QED BY <1>1 DEF Buffer, ResetSession, Fresh

LEMMA RecordFacts ==
    ASSUME NEW g \in Buffer, NEW t \in Reading
    PROVE  /\ Record(g, t) \in Buffer
           /\ Record(g, t).session_id = {t.session} /\ Record(g, t).last_sequence = {t.sequence}
           /\ Record(g, t).view = g.view /\ Record(g, t).paused = g.paused
           /\ \E at \in Nat, kept \in Seq(Reading) :
                 /\ Record(g, t).last_observed = {at}
                 /\ Record(g, t).samples = Append(kept, [t EXCEPT !.at = at])
                 /\ \/ kept = <<>> /\ (SessionReset(g, t) \/ g.samples = <<>>)
                    \/ /\ g.samples # <<>> /\ kept \in {g.samples, Tail(g.samples)}
                       /\ ~SessionReset(g, t) /\ \A n \in g.last_observed : at > n
<1> DEFINE h == IF SessionReset(g, t) THEN ResetSession(g) ELSE g
           at == Observed(h, t)
           kept == IF Len(h.samples) = SAMPLE_LIMIT THEN Tail(h.samples) ELSE h.samples
           new == [t EXCEPT !.at = at]
<1>1. h \in Buffer /\ h.view = g.view /\ h.paused = g.paused
  BY ResetIsBuffer
<1>2. at \in Nat /\ \A n \in h.last_observed : at > n
  BY <1>1, ObservedFacts
<1>3. new \in Reading
  <2> HIDE DEF h, at
  <2> QED BY <1>2 DEF Reading
<1>4. h.samples \in Seq(Reading)
  BY <1>1 DEF Buffer
<1>5. /\ kept \in Seq(Reading)
      /\ h.samples = <<>> => kept = <<>>
      /\ h.samples # <<>> => kept \in {h.samples, Tail(h.samples)}
  <2>1. h.samples = <<>> => Len(h.samples) # SAMPLE_LIMIT
    BY GraphAssumption
  <2>2. h.samples # <<>> => Tail(h.samples) \in Seq(Reading)
    BY <1>4, TailFacts
  <2> HIDE DEF h
  <2> QED BY <1>4, <2>1, <2>2
<1>6. Record(g, t) = [h EXCEPT !.session_id = {t.session}, !.last_sequence = {t.sequence},
                               !.last_observed = {at}, !.samples = Append(kept, new)]
  BY DEF Record
<1>7. Append(kept, new) \in Seq(Reading)
  <2> HIDE DEF h, at, kept, new
  <2> QED BY <1>3, <1>5, AppendFacts
<1>8. {t.session} \in Partial(Nat) /\ {t.sequence} \in Partial(Nat) /\ {at} \in Partial(Nat)
    <2> HIDE DEF h, at
  <2> QED BY <1>2 DEF Reading, Partial
<1>9. \/ kept = <<>> /\ (SessionReset(g, t) \/ g.samples = <<>>)
      \/ /\ g.samples # <<>> /\ kept \in {g.samples, Tail(g.samples)}
         /\ ~SessionReset(g, t) /\ \A n \in g.last_observed : at > n
  <2>1. CASE SessionReset(g, t)
    BY <2>1, <1>5, ResetIsBuffer
  <2>2. CASE ~SessionReset(g, t)
    <3>1. h = g
      BY <2>2
    <3>2. kept \in Seq(Reading) /\ at \in Nat /\ \A n \in g.last_observed : at > n
      BY <3>1, <1>2, <1>5
    <3>3. IF g.samples = <<>> THEN kept = <<>> ELSE kept \in {g.samples, Tail(g.samples)}
      BY <3>1, <1>5
    <3> HIDE DEF h, at, kept
    <3> QED BY <2>2, <3>2, <3>3
  <2> QED BY <2>1, <2>2
<1>10. /\ Record(g, t) \in Buffer
       /\ Record(g, t).session_id = {t.session} /\ Record(g, t).last_sequence = {t.sequence}
       /\ Record(g, t).view = g.view /\ Record(g, t).paused = g.paused
       /\ Record(g, t).last_observed = {at} /\ Record(g, t).samples = Append(kept, new)
  <2> HIDE DEF h, at, kept, new
  <2> QED BY <1>1, <1>6, <1>7, <1>8 DEF Buffer
<1>11. at \in Nat /\ kept \in Seq(Reading) /\ new = [t EXCEPT !.at = at]
  BY <1>2, <1>5
<1> HIDE DEF h, at, kept, new
<1> QED BY <1>11, <1>9, <1>10

--------------------------------------------------------------------------------
\* The worker's calls, by what it has in hand, and the kinds of everything.

LEMMA FirstCall ==
    ASSUME KindsOK, WorkOK, job # <<>>
    PROVE  /\ Head(job) \in Steps /\ Tail(job) \in Seq(Steps)
           /\ ~Busy => /\ Head(job) \in Reads /\ Tail(job) \in Seq(Reads)
           /\ Busy => /\ Head(job) = hand.kind /\ Tail(job) = <<>>
           /\ Head(job) = "telemetry" => sessionId # {}
           /\ sessionId = {} => \A i \in DOMAIN Tail(job) : Tail(job)[i] # "telemetry"
<1>1. job \in Seq(Steps)
  BY DEF KindsOK, WorkerKinds
<1>2. Busy => job = <<hand.kind>>
  BY DEF WorkOK
<1>3. ~Busy => job \in Seq(Reads)
  BY DEF WorkOK
<1>4. Head(job) = job[1] /\ 1 \in DOMAIN job
  BY <1>1, TailFacts
<1>5. \A i \in DOMAIN Tail(job) : i + 1 \in DOMAIN job /\ Tail(job)[i] = job[i + 1]
  BY <1>1, TailFacts
<1>6. (\E i \in DOMAIN job : job[i] = "telemetry") => sessionId # {}
  BY DEF WorkOK
<1>7. Head(job) \in Steps /\ Tail(job) \in Seq(Steps)
  BY <1>1, TailFacts
<1>8. ~Busy => Head(job) \in Reads /\ Tail(job) \in Seq(Reads)
  BY <1>3, TailFacts
<1>9. Busy => Head(job) = hand.kind /\ Tail(job) = <<>>
  <2> SUFFICES ASSUME Busy PROVE Head(job) = hand.kind /\ Tail(job) = <<>>
    OBVIOUS
  <2>1. job = <<hand.kind>> /\ Len(job) = 1
    BY <1>2
  <2>2. Tail(job) = <<>>
    BY <1>1, <2>1, NothingLeft
  <2> QED BY <1>4, <2>1, <2>2
<1> QED BY <1>4, <1>5, <1>6, <1>7, <1>8, <1>9

LEMMA HandKinds ==
    ASSUME KindsOK
    PROVE  /\ Busy => /\ hand \in Request /\ hand.kind \in {"apply", "reload", "read", "write"}
                      /\ hand.kind \in {"read", "write"} => hand.slot \in ThemeSlots
           /\ ~Busy => hand.kind \in {"none", "refresh"}
<1>1. hand = Nothing \/ hand \in Request
  BY DEF KindsOK, WorkerKinds
<1>2. CASE hand = Nothing
  BY <1>2, RequestKinds DEF Busy
<1>3. CASE hand \in Request
  BY <1>3, RequestKinds DEF Busy
<1> QED BY <1>1, <1>2, <1>3

LEMMA CallCases ==
    ASSUME KindsOK, WorkOK, Call
    PROVE  \/ ConnectionFailed
           \/ ~Busy /\ connection = "live" /\ GetStatus
           \/ ~Busy /\ GetConfiguration
           \/ ~Busy /\ connection = "live" /\ sessionId # {} /\ GetTelemetry
           \/ Busy /\ connection = "live"
                   /\ \/ ApplyConfiguration
                      \/ ReloadConfiguration
                      \/ Refused
                      \/ hand.slot \in ThemeSlots /\ ThemeAsset
<1>1. job # <<>>
  BY DEF Call
<1> DEFINE step == Head(job)
<1>2. /\ ~Busy => step \in {"status", "load", "force", "telemetry"}
      /\ Busy => step = hand.kind
      /\ step = "telemetry" => sessionId # {}
  BY <1>1, FirstCall DEF Reads
<1>3. Busy => /\ step \in {"apply", "reload", "read", "write"}
              /\ step \in {"read", "write"} => hand.slot \in ThemeSlots
  BY <1>2, HandKinds
<1>4. CASE step \in {"load", "force"}
  BY <1>2, <1>3, <1>4 DEF Call
<1>5. CASE step \notin {"load", "force"} /\ connection # "live"
  BY <1>5 DEF Call
<1>6. CASE step = "status" /\ connection = "live"
  BY <1>2, <1>3, <1>6 DEF Call
<1>7. CASE step = "telemetry" /\ connection = "live"
  BY <1>2, <1>3, <1>7 DEF Call
<1>8. CASE step = "apply" /\ connection = "live"
  BY <1>2, <1>3, <1>8 DEF Call
<1>9. CASE step = "reload" /\ connection = "live"
  BY <1>2, <1>3, <1>9 DEF Call
<1>10. CASE step \in {"read", "write"} /\ connection = "live"
  BY <1>2, <1>3, <1>10 DEF Call
<1>11. step \in {"status", "load", "force", "telemetry", "apply", "reload", "read", "write"}
  BY <1>2, <1>3
<1> QED BY <1>4, <1>5, <1>6, <1>7, <1>8, <1>9, <1>10, <1>11

LEMMA EmitKinds ==
    ASSUME KindsOK, NEW es \in Seq(Message), Emit(es)
    PROVE  events' \in Seq(Message)
BY ConcatFacts DEF KindsOK, QueueKinds, Emit

\* What a status leads to.
LEMMA LoadFacts ==
    ASSUME NEW known
    PROVE  Load(known) \in Seq(Reads) /\ Load(known) \in Seq(Steps)
<1>1. <<>> \in Seq(Reads) /\ <<"load">> \in Seq(Reads) /\ <<"telemetry">> \in Seq(Reads)
  BY DEF Reads
<1>2. Load(known) \in Seq(Reads)
  BY <1>1, ConcatFacts DEF Load
<1>3. Reads \subseteq Steps
  BY DEF Reads, Steps
<1> QED BY <1>2, <1>3

LEMMA PartialFacts ==
    /\ \A S : {} \in Partial(S)
    /\ \A S : \A x \in S : {x} \in Partial(S)
BY DEF Partial

LEMMA KindsStart ==
    ASSUME Init
    PROVE  KindsOK /\ WorkOK
<1>1. DaemonKinds
  BY PartialFacts DEF Init, DaemonKinds
<1>2. /\ job \in Seq(Steps) /\ job \in Seq(Reads)
      /\ commands \in Seq(Request) /\ events \in Seq(Message)
  <2>1. job = <<>> /\ commands = <<>> /\ events = <<>>
    BY DEF Init
  <2> QED BY <2>1
<1>3. WorkerKinds
  BY <1>2, PartialFacts DEF Init, WorkerKinds
<1>4. QueueKinds
  BY <1>2 DEF QueueKinds
<1>5. GraphKinds
  <2>1. <<>> \in Seq(Reading) /\ {} \in Partial(Nat)
    BY DEF Partial
  <2>2. \A v \in Views : Fresh(v) \in Buffer
    BY <2>1 DEF Fresh, Buffer
  <2>3. graph \in Buffer
    BY <2>2 DEF Init
  <2> QED BY <2>3 DEF Init, GraphKinds
<1>6. FormKinds
  <2>1. theme \in [selected : ThemeSlots, confirm : {"", "store", "write-theme"},
                  asked : ThemeSlots \union {NoSlot}]
    <3>1. PICK s \in ThemeSlots : theme = [selected |-> s, confirm |-> "", asked |-> NoSlot]
      BY DEF Init
    <3> QED BY <3>1
  <2> QED BY <2>1 DEF Init, FormKinds
<1>7. ~Busy
  <2>1. hand.kind = "none"
    BY RequestKinds DEF Init
  <2> QED BY <2>1 DEF Busy
<1>8. WorkOK
  <2>1. job = <<>> /\ hand = Nothing /\ sessionId = {}
    BY DEF Init
  <2>2. ~\E i \in DOMAIN job : job[i] = "telemetry"
    BY <2>1
  <2> QED BY <1>2, <1>7, <2>1, <2>2 DEF WorkOK
<1> QED BY <1>1, <1>3, <1>4, <1>5, <1>6, <1>8 DEF KindsOK

\* What a step of each part leaves alone, and the kinds of what it changes.
LEMMA DaemonKept ==
    ASSUME KindsOK, Poll \/ Move
    PROVE  KindsOK'
<1>1. telemetry' \in Partial(Reading)
  <2>1. CASE Poll
    <3>1. \A at \in 1..MaxTime :
             [id |-> produced', session |-> session, sequence |-> sequence', at |-> at] \in Reading
      BY <2>1, WindowAssumption DEF Poll, KindsOK, DaemonKinds, Reading
    <3> QED BY <2>1, <3>1, PartialFacts DEF Poll
  <2>2. CASE Move
    <3>1. telemetry' \in {telemetry, {}}
      BY <2>2 DEF Move, Unplug, Plug, Restart, OtherClientWrites
    <3> QED BY <3>1, PartialFacts DEF KindsOK, DaemonKinds
  <2> QED BY <2>1, <2>2
<1>2. DaemonKinds'
  <2>1. CASE Poll
    BY <2>1, <1>1 DEF Poll, KindsOK, DaemonKinds
  <2>2. CASE Move
    <3>1. produced' = produced /\ (Unplug \/ Plug \/ Restart \/ OtherClientWrites)
      BY <2>2 DEF Move
    <3>2. DaemonKinds
      BY DEF KindsOK
    <3>3. CASE Unplug
      BY <3>1, <3>2, <3>3, <1>1 DEF Unplug, DaemonKinds
    <3>5. CASE Plug
      BY <3>1, <3>2, <3>5, <1>1 DEF Plug, DaemonKinds
    <3>6. CASE OtherClientWrites
      <4>1. edition' \in Nat
        BY <3>2, <3>6 DEF OtherClientWrites, DaemonKinds
      <4> QED BY <3>1, <3>2, <3>6, <4>1 DEF OtherClientWrites, DaemonKinds
    <3>4. CASE Restart
      BY <3>1, <3>2, <3>4, <1>1 DEF Restart, DaemonKinds
    <3> QED BY <3>1, <3>3, <3>4, <3>5, <3>6
  <2> QED BY <2>1, <2>2
<1>3. connection' \in {"none", "live", "dead"}
  BY DEF Poll, Move, worker, Unplug, Plug, Restart, OtherClientWrites, KindsOK, WorkerKinds
<1>4. UNCHANGED <<sessionId, configuration, job, hand, commands, events, display, forms>>
  BY DEF Poll, Move, worker
<1> QED BY <1>2, <1>3, <1>4
        DEF KindsOK, WorkerKinds, QueueKinds, GraphKinds, FormKinds, display, forms

LEMMA CallKept ==
    ASSUME KindsOK, WorkOK, Call
    PROVE  KindsOK'
<1>1. job # <<>> /\ Tail(job) \in Seq(Steps)
  BY FirstCall DEF Call
<1>2. DaemonKinds /\ WorkerKinds /\ QueueKinds /\ GraphKinds /\ FormKinds
  BY DEF KindsOK
<1>3. UNCHANGED <<attached, session, telemetry, sequence, produced, commands, display, forms>>
  BY DEF Call
<1>4. /\ <<>> \in Seq(Steps) /\ <<>> \in Seq(Message)
      /\ hand \in Request \union {Nothing} /\ Nothing \in Request \union {Nothing}
      /\ connection \in {"none", "live", "dead"} /\ attached \in BOOLEAN /\ edition \in Nat
      /\ sessionId \in Partial(Nat) /\ configuration \in Partial(Nat) /\ session \in Nat
  BY <1>2 DEF WorkerKinds, DaemonKinds
<1> DEFINE Moved == /\ connection' \in {"none", "live", "dead"} /\ job' \in Seq(Steps)
                    /\ hand' \in Request \union {Nothing} /\ events' \in Seq(Message)
           Known == /\ edition' \in Nat /\ sessionId' \in Partial(Nat)
                    /\ configuration' \in Partial(Nat)
<1>5. Moved /\ Known => KindsOK'
  BY <1>2, <1>3
     DEF KindsOK, DaemonKinds, WorkerKinds, QueueKinds, GraphKinds, FormKinds, display, forms
<1>6. ASSUME NEW es \in Seq(Message), NEW rest \in Seq(Steps), Go(es, rest)
      PROVE  Moved
  BY <1>4, <1>6, EmitKinds DEF Go
<1>7. CASE ConnectionFailed
  <2>1. <<Offline>> \in Seq(Message)
    BY EventKinds
  <2>2. events' \in Seq(Message)
    BY <1>7, <2>1, EmitKinds DEF ConnectionFailed
  <2>3. Moved /\ Known
    BY <1>4, <1>7, <2>2, PartialFacts DEF ConnectionFailed
  <2> QED BY <1>5, <2>3
<1>8. CASE GetStatus
  <2>1. /\ <<Event("status", attached)>> \in Seq(Message)
        /\ <<Event("status", attached), Event("session", {})>> \in Seq(Message)
    BY <1>4, EventKinds
  <2>2. \A known : Load(known) \o Tail(job) \in Seq(Steps)
    BY <1>1, LoadFacts, ConcatFacts
  <2>3. Moved
    BY <1>6, <1>8, <2>1, <2>2 DEF GetStatus
  <2>4. Known
    BY <1>4, <1>8, PartialFacts DEF GetStatus
  <2> QED BY <1>5, <2>3, <2>4
<1>9. CASE GetConfiguration
  <2>1. <<Event("configuration", edition)>> \in Seq(Message)
    BY <1>4, EventKinds
  <2>2. Moved
    BY <1>1, <1>4, <1>6, <1>9, <2>1 DEF GetConfiguration
  <2>3. Known
    BY <1>4, <1>9, PartialFacts DEF GetConfiguration
  <2> QED BY <1>5, <2>2, <2>3
<1>10. CASE GetTelemetry
  <2>1. telemetry = {} \/ \E t \in Reading : telemetry = {t}
    BY <1>2 DEF DaemonKinds, Partial
  <2>2. (IF telemetry = {} THEN <<>> ELSE <<Event("telemetry", telemetry)>>) \in Seq(Message)
    BY <1>4, <2>1, EventKinds
  <2>3. Moved
    BY <1>1, <1>6, <1>10, <2>2 DEF GetTelemetry
  <2>4. Known
    BY <1>4, <1>10 DEF GetTelemetry
  <2> QED BY <1>5, <2>3, <2>4
<1>11. CASE ApplyConfiguration \/ ReloadConfiguration
  <2>1. edition' \in Nat
    BY <1>4, <1>11 DEF ApplyConfiguration, ReloadConfiguration
  <2>2. <<Event("configuration", edition'), Outcome("done")>> \in Seq(Message)
    BY <2>1, EventKinds
  <2>3. Moved
    BY <1>4, <1>6, <1>11, <2>2 DEF ApplyConfiguration, ReloadConfiguration
  <2>4. Known
    BY <1>4, <1>11, <2>1, PartialFacts DEF ApplyConfiguration, ReloadConfiguration
  <2> QED BY <1>5, <2>3, <2>4
<1>12. CASE Refused \/ (hand.slot \in ThemeSlots /\ ThemeAsset)
  <2>1. <<Outcome("done")>> \in Seq(Message)
    BY EventKinds
  <2>2. hand.slot \in ThemeSlots => <<Event("theme", hand.slot), Outcome("done")>> \in Seq(Message)
    BY EventKinds
  <2>3. Moved
    BY <1>4, <1>6, <1>12, <2>1, <2>2 DEF Refused, ThemeAsset
  <2>4. Known
    BY <1>4, <1>12 DEF Refused, ThemeAsset
  <2> QED BY <1>5, <2>3, <2>4
<1> QED BY CallCases, <1>7, <1>8, <1>9, <1>10, <1>11, <1>12

LEMMA TakeCommandKept ==
    ASSUME KindsOK, Tick \/ TakeCommand
    PROVE  KindsOK'
<1>1. DaemonKinds /\ WorkerKinds /\ QueueKinds /\ GraphKinds /\ FormKinds
  BY DEF KindsOK
<1>2. /\ commands \in Seq(Request) /\ hand \in Request \union {Nothing} /\ events \in Seq(Message)
      /\ connection \in {"none", "live", "dead"}
  BY <1>1 DEF WorkerKinds, QueueKinds
<1>3. UNCHANGED <<attached, session, telemetry, sequence, produced, edition, sessionId,
                  configuration, display, forms>>
  BY DEF Tick, TakeCommand, daemon
<1>4. connection' \in {"none", "live", "dead"}
  BY <1>2 DEF Tick, TakeCommand, Connect
<1>5. commands # <<>> => Head(commands) \in Request /\ Tail(commands) \in Seq(Request)
  BY <1>2, TailFacts
<1>6. commands' \in Seq(Request) /\ hand' \in Request \union {Nothing}
  BY <1>2, <1>5 DEF Tick, TakeCommand
<1>7. job' \in Seq(Steps)
  <2>1. <<"status">> \in Seq(Steps) /\ <<"status", "force">> \in Seq(Steps)
    BY DEF Steps
  <2>2. \A r \in Request : r.kind = "refresh" \/ <<r.kind>> \in Seq(Steps)
    BY RequestKinds DEF Steps
  <2> QED BY <1>5, <2>1, <2>2 DEF Tick, TakeCommand
<1>8. events' \in Seq(Message)
  <2>1. <<Outcome("running")>> \in Seq(Message)
    BY EventKinds
  <2>2. Emit(<<Outcome("running")>>) => events' \in Seq(Message)
    BY <2>1, EmitKinds
  <2> QED BY <1>2, <2>2 DEF Tick, TakeCommand
<1> QED BY <1>1, <1>3, <1>4, <1>6, <1>7, <1>8
        DEF KindsOK, DaemonKinds, WorkerKinds, QueueKinds, GraphKinds, FormKinds, display, forms

\* An event changes the graph or the forms by its kind.
LEMMA ApplyCases ==
    ASSUME KindsOK, ApplyEvent
    PROVE  /\ events # <<>> /\ events' = Tail(events) /\ Head(events) \in Message
           /\ UNCHANGED <<daemon, worker, commands, page, uses, moves>>
           /\ \/ Head(events).kind = "offline" /\ ApplyOffline
              \/ Head(events).kind = "session" /\ ResetWindow
              \/ /\ Head(events).kind = "status" /\ ready' = Head(events).of /\ ready' \in BOOLEAN
                 /\ UNCHANGED <<operation, config, theme, display>>
              \/ /\ Head(events).kind = "telemetry"
                 /\ \E t \in Reading : Head(events).of = {t} /\ ApplyTelemetry(t)
              \/ /\ Head(events).kind = "configuration" /\ Head(events).of \in Nat
                 /\ ApplyConfigurationEvent(Head(events).of)
              \/ /\ Head(events).kind = "theme" /\ Head(events).of \in ThemeSlots
                 /\ ApplyTheme(Head(events).of)
              \/ /\ Head(events).kind = "operation" /\ Head(events).of \in {"running", "done"}
                 /\ operation' = Head(events).of /\ UNCHANGED <<ready, config, theme, display>>
<1> DEFINE e == Head(events)
<1>1. events \in Seq(Message) /\ events # <<>>
  BY DEF KindsOK, QueueKinds, ApplyEvent
<1>2. e \in Message
  BY <1>1, TailFacts
<1>3. events' = Tail(events) /\ UNCHANGED <<daemon, worker, commands, page, uses, moves>>
  BY DEF ApplyEvent
<1>4. CASE e.kind = "offline"
  BY <1>1, <1>2, <1>3, <1>4 DEF ApplyEvent
<1>5. CASE e.kind = "session"
  BY <1>1, <1>2, <1>3, <1>5 DEF ApplyEvent
<1>6. CASE e.kind = "status" /\ e.of \in BOOLEAN
  BY <1>1, <1>2, <1>3, <1>6 DEF ApplyEvent
<1>7. CASE e.kind = "telemetry" /\ \E t \in Reading : e.of = {t}
  <2>1. PICK t \in Reading : e.of = {t}
    BY <1>7
  <2>2. \E u \in e.of : ApplyTelemetry(u)
    BY <1>7 DEF ApplyEvent
  <2>3. ApplyTelemetry(t)
    BY <2>1, <2>2
  <2> QED BY <1>1, <1>2, <1>3, <1>7, <2>1, <2>3
<1>8. CASE e.kind = "configuration" /\ e.of \in Nat
  BY <1>1, <1>2, <1>3, <1>8 DEF ApplyEvent
<1>9. CASE e.kind = "theme" /\ e.of \in ThemeSlots
  BY <1>1, <1>2, <1>3, <1>9 DEF ApplyEvent
<1>10. CASE e.kind = "operation" /\ e.of \in {"running", "done"}
  BY <1>1, <1>2, <1>3, <1>10 DEF ApplyEvent
<1> QED BY <1>2, Contents, <1>4, <1>5, <1>6, <1>7, <1>8, <1>9, <1>10

LEMMA ApplyKept ==
    ASSUME KindsOK, ApplyEvent
    PROVE  KindsOK'
<1> DEFINE e == Head(events)
<1>1. DaemonKinds /\ WorkerKinds /\ QueueKinds /\ GraphKinds /\ FormKinds
  BY DEF KindsOK
<1>2. events # <<>> /\ events' = Tail(events) /\ UNCHANGED <<daemon, worker, commands>>
  BY ApplyCases
<1>3. QueueKinds'
  <2>1. events' \in Seq(Message)
    BY <1>1, <1>2, TailFacts DEF QueueKinds
  <2> QED BY <1>1, <1>2, <2>1 DEF QueueKinds
<1>4. GraphKinds' /\ FormKinds'
  <2>1. CASE ApplyOffline
    BY <1>1, <2>1 DEF ApplyOffline, GraphKinds, FormKinds, display
  <2>2. CASE ResetWindow
    BY <1>1, <2>2, ResetIsBuffer DEF ResetWindow, GraphKinds, FormKinds
  <2>3. CASE ready' \in BOOLEAN /\ UNCHANGED <<operation, config, theme, display>>
    BY <1>1, <2>3 DEF GraphKinds, FormKinds, display
  <2>4. ASSUME NEW t \in Reading, ApplyTelemetry(t)
        PROVE  GraphKinds' /\ FormKinds'
    <3>1. graph' \in Buffer
      BY <1>1, <2>4, RecordFacts DEF ApplyTelemetry, GraphKinds
    <3>2. newest' \in Nat
      BY <1>1, <2>4 DEF ApplyTelemetry, GraphKinds, Reading
    <3> QED BY <1>1, <2>4, <3>1, <3>2 DEF ApplyTelemetry, GraphKinds, FormKinds
  <2>5. ASSUME NEW of \in Nat, ApplyConfigurationEvent(of)
        PROVE  GraphKinds' /\ FormKinds'
    BY <1>1, <2>5 DEF ApplyConfigurationEvent, GraphKinds, FormKinds, display
  <2>6. ASSUME NEW slot \in ThemeSlots, ApplyTheme(slot)
        PROVE  GraphKinds' /\ FormKinds'
    BY <1>1, <2>6 DEF ApplyTheme, GraphKinds, FormKinds, display
  <2>7. CASE operation' \in {"running", "done"} /\ UNCHANGED <<ready, config, theme, display>>
    BY <1>1, <2>7 DEF GraphKinds, FormKinds, display
  <2> QED BY ApplyCases, <2>1, <2>2, <2>3, <2>4, <2>5, <2>6, <2>7
<1> QED BY <1>1, <1>2, <1>3, <1>4 DEF KindsOK, DaemonKinds, WorkerKinds, daemon, worker

LEMMA ChangeGraphKept ==
    ASSUME GraphKinds, ChangeGraph
    PROVE  /\ GraphKinds' /\ UNCHANGED <<daemon, worker, commands, events, page, forms, newest>>
           /\ graph'.session_id = graph.session_id /\ graph'.last_sequence = graph.last_sequence
           /\ graph'.last_observed = graph.last_observed
           /\ \/ graph'.samples = graph.samples /\ UNCHANGED cleared
              \/ /\ graph'.samples = <<>>
                 /\ cleared' = (IF graph.session_id = {} THEN cleared ELSE newest)
<1>1. graph \in Buffer /\ newest \in Nat /\ cleared \in Nat
  BY DEF GraphKinds
<1>2. UNCHANGED <<daemon, worker, commands, events, page, forms, newest>>
  BY DEF ChangeGraph
<1>3. ASSUME NEW v \in Views, graph' = [graph EXCEPT !.view = v], UNCHANGED cleared
      PROVE  /\ graph' \in Buffer /\ cleared' \in Nat
             /\ graph'.session_id = graph.session_id /\ graph'.last_sequence = graph.last_sequence
             /\ graph'.last_observed = graph.last_observed /\ graph'.samples = graph.samples
  BY <1>1, <1>3 DEF Buffer
<1>4. ASSUME graph' = [graph EXCEPT !.paused = ~@], UNCHANGED cleared
      PROVE  /\ graph' \in Buffer /\ cleared' \in Nat
             /\ graph'.session_id = graph.session_id /\ graph'.last_sequence = graph.last_sequence
             /\ graph'.last_observed = graph.last_observed /\ graph'.samples = graph.samples
  BY <1>1, <1>4 DEF Buffer
<1>5. ASSUME graph' = ClearHistory(graph),
             cleared' = (IF graph.session_id = {} THEN cleared ELSE newest)
      PROVE  /\ graph' \in Buffer /\ cleared' \in Nat
             /\ graph'.session_id = graph.session_id /\ graph'.last_sequence = graph.last_sequence
             /\ graph'.last_observed = graph.last_observed /\ graph'.samples = <<>>
  <2>1. <<>> \in Seq(Reading)
    OBVIOUS
  <2> QED BY <1>1, <1>5, <2>1 DEF Buffer, ClearHistory
<1>6. \/ \E v \in Views : graph' = [graph EXCEPT !.view = v] /\ UNCHANGED cleared
      \/ graph' = [graph EXCEPT !.paused = ~@] /\ UNCHANGED cleared
      \/ /\ graph' = ClearHistory(graph)
         /\ cleared' = (IF graph.session_id = {} THEN cleared ELSE newest)
  BY DEF ChangeGraph, UpdateGraph
<1> QED BY <1>1, <1>2, <1>3, <1>4, <1>5, <1>6 DEF GraphKinds

LEMMA UseFormsKept ==
    ASSUME FormKinds, QueueKinds, UseForms
    PROVE  /\ FormKinds' /\ QueueKinds' /\ UNCHANGED <<daemon, worker, events, page, display>>
           /\ config'.loaded = config.loaded /\ config'.base = config.base
           /\ UNCHANGED operation
           /\ commands' = commands \/ \E r \in Request : commands' = Append(commands, r)
<1>1. /\ ready \in BOOLEAN /\ operation \in {"running", "done"}
      /\ config \in [loaded : BOOLEAN, dirty : BOOLEAN, base : Nat]
      /\ theme \in [selected : ThemeSlots, confirm : {"", "store", "write-theme"},
                    asked : ThemeSlots \union {NoSlot}]
      /\ commands \in Seq(Request) /\ events \in Seq(Message)
  BY DEF FormKinds, QueueKinds
<1>2. UNCHANGED <<daemon, worker, events, page, display>>
  BY DEF UseForms
<1> DEFINE Config == /\ config' \in [loaded : BOOLEAN, dirty : BOOLEAN, base : Nat]
                     /\ config'.loaded = config.loaded /\ config'.base = config.base
           Theme == theme' \in [selected : ThemeSlots, confirm : {"", "store", "write-theme"},
                                asked : ThemeSlots \union {NoSlot}]
           Queue == commands' = commands \/ \E r \in Request : commands' = Append(commands, r)
           Same == UNCHANGED <<ready, operation>>
<1>3. ASSUME NEW r \in Request, Send(r)
      PROVE  Queue
  BY <1>3 DEF Send
<1>4. ASSUME Edit
      PROVE  Config /\ Theme /\ Same /\ Queue
  BY <1>1, <1>4 DEF Edit
<1>5. UNCHANGED forms => Config /\ Theme /\ Same
  BY <1>1 DEF forms
<1>6. ASSUME ApplyConfig
      PROVE  Config /\ Theme /\ Same /\ Queue
  BY <1>3, <1>5, <1>6, RequestKinds DEF ApplyConfig, QueueConfig
<1>7. ASSUME NEW kind \in {"store", "write-theme"}, NEW asked \in ThemeSlots \union {NoSlot},
             Ask(kind, asked)
      PROVE  Config /\ Theme /\ Same /\ Queue
  BY <1>1, <1>7 DEF Ask
<1>8. ASSUME AskStore \/ AskWrite
      PROVE  Config /\ Theme /\ Same /\ Queue
  BY <1>1, <1>7, <1>8 DEF AskStore, AskWrite
<1>9. ASSUME Select
      PROVE  Config /\ Theme /\ Same /\ Queue
  BY <1>1, <1>9 DEF Select
<1>10. ASSUME Order
       PROVE  Config /\ Theme /\ Same /\ Queue
  <2>1. Queue
    BY <1>1, <1>3, <1>10, RequestKinds DEF Order
  <2> QED BY <1>5, <1>10, <2>1 DEF Order
<1>11. ASSUME Answer
       PROVE  Config /\ Theme /\ Same /\ Queue
  <2>1. Queue
    BY <1>1, <1>3, <1>11, RequestKinds DEF Answer, QueueConfig
  <2>2. Config /\ Theme /\ Same
    BY <1>1, <1>11 DEF Answer
  <2> QED BY <2>1, <2>2
<1>12. Config /\ Theme /\ Same /\ Queue
  BY <1>4, <1>5, <1>6, <1>8, <1>9, <1>10, <1>11 DEF UseForms, ApplyConfig
<1>13. commands' \in Seq(Request)
  <2>1. \A r \in Request : Append(commands, r) \in Seq(Request)
    BY <1>1, AppendFacts
  <2> QED BY <1>1, <1>12, <2>1
<1>14. FormKinds'
  BY <1>1, <1>12 DEF FormKinds
<1> QED BY <1>1, <1>2, <1>12, <1>13, <1>14 DEF QueueKinds

LEMMA KindsKept ==
    ASSUME KindsOK, WorkOK, [Next]_vars
    PROVE  KindsOK'
<1>1. DaemonKinds /\ WorkerKinds /\ QueueKinds /\ GraphKinds /\ FormKinds
  BY DEF KindsOK
<1>2. CASE Poll \/ Move
  BY <1>2, DaemonKept
<1>3. CASE Worker
  BY <1>3, CallKept, TakeCommandKept DEF Worker
<1>4. CASE ApplyEvent
  BY <1>4, ApplyKept
<1>5. CASE \E p \in Pages : Show(p)
  <2>1. UNCHANGED <<daemon, worker, commands, events, graph, newest, cleared, forms>>
    BY <1>5 DEF Show
  <2> QED BY <1>1, <2>1 DEF KindsOK, DaemonKinds, WorkerKinds, QueueKinds, GraphKinds, FormKinds,
                            daemon, worker, forms
<1>6. CASE ChangeGraph
  <2>1. GraphKinds' /\ UNCHANGED <<daemon, worker, commands, events, forms>>
    BY <1>1, <1>6, ChangeGraphKept
  <2> QED BY <1>1, <2>1 DEF KindsOK, DaemonKinds, WorkerKinds, QueueKinds, FormKinds,
                            daemon, worker, forms
<1>7. CASE UseForms
  <2>1. FormKinds' /\ QueueKinds' /\ UNCHANGED <<daemon, worker, display>>
    BY <1>1, <1>7, UseFormsKept
  <2> QED BY <1>1, <2>1 DEF KindsOK, DaemonKinds, WorkerKinds, GraphKinds, daemon, worker, display
<1>8. CASE UNCHANGED vars
  BY <1>1, <1>8 DEF KindsOK, DaemonKinds, WorkerKinds, QueueKinds, GraphKinds, FormKinds,
                    vars, daemon, worker, display, forms
<1> QED BY <1>2, <1>3, <1>4, <1>5, <1>6, <1>7, <1>8 DEF Next, User

--------------------------------------------------------------------------------
\* The outcomes on their way.

LEMMA OutcomesQuiet ==
    ASSUME NEW q \in Seq(Message), NEW e \in Message, e.kind \notin Ends,
           NEW shown, NEW busy \in BOOLEAN, OutcomesOK(q, shown, busy)
    PROVE  OutcomesOK(Append(q, e), shown, busy)
<1>1. /\ \A i \in DOMAIN q : i \in DOMAIN Append(q, e) /\ Append(q, e)[i] = q[i]
      /\ \A i \in DOMAIN Append(q, e) : i \in DOMAIN q \/ Append(q, e)[i] = e
  BY AppendFacts
<1>2. e # Outcome("running")
  BY DEF Ends, Outcome, Event
<1> QED BY <1>1, <1>2 DEF OutcomesOK

LEMMA OutcomesEnded ==
    ASSUME NEW q \in Seq(Message), NEW e \in Message, e.kind \in Ends, e # Outcome("running"),
           NEW shown, NEW busy \in BOOLEAN
    PROVE  OutcomesOK(Append(q, e), shown, busy)
<1> DEFINE p == Append(q, e)
           n == Len(q) + 1
<1>1. n \in DOMAIN p /\ p[n] = e
  BY AppendFacts
<1>2. ASSUME NEW i \in DOMAIN p, p[i] = Outcome("running")
      PROVE  n > i
  <2>1. i \in DOMAIN q
    BY <1>1, <1>2, AppendFacts
  <2>2. i \in Nat /\ i <= Len(q) /\ Len(q) \in Nat
    BY <2>1, AppendFacts
  <2> QED BY <2>2
<1> QED BY <1>1, <1>2 DEF OutcomesOK

LEMMA OutcomesTaken ==
    ASSUME NEW q \in Seq(Message), q # <<>>, NEW shown, NEW busy \in BOOLEAN,
           OutcomesOK(q, shown, busy)
    PROVE  /\ Head(q).kind \notin Ends => OutcomesOK(Tail(q), shown, busy)
           /\ OutcomesOK(Tail(q), "done", busy)
           /\ \A s : Head(q) = Outcome(s) => OutcomesOK(Tail(q), s, busy)
<1>1. \A i \in DOMAIN Tail(q) : i \in Nat \ {0} /\ i + 1 \in DOMAIN q /\ Tail(q)[i] = q[i + 1]
  BY TailFacts
<1>2. \A i \in DOMAIN q : i # 1 => i - 1 \in DOMAIN Tail(q) /\ Tail(q)[i - 1] = q[i]
  BY TailReaches
<1>3. Head(q) = q[1] /\ 1 \in DOMAIN q /\ \A i \in DOMAIN q : i \in Nat \ {0}
  BY TailFacts
<1>4. ASSUME NEW i \in DOMAIN Tail(q), Tail(q)[i] = Outcome("running"), ~busy
      PROVE  \E k \in DOMAIN Tail(q) : k > i /\ Tail(q)[k].kind \in Ends
  <2>1. i \in Nat /\ i + 1 \in DOMAIN q /\ q[i + 1] = Outcome("running")
    BY <1>1, <1>4
  <2>2. PICK k \in DOMAIN q : k > i + 1 /\ q[k].kind \in Ends
    BY <1>4, <2>1 DEF OutcomesOK
  <2>3. k \in Nat /\ k # 1 /\ k - 1 > i
    BY <1>3, <2>1, <2>2
  <2> QED BY <1>2, <2>2, <2>3
<1>5. ASSUME q[1].kind \notin Ends, shown = "running", ~busy
      PROVE  \E k \in DOMAIN Tail(q) : Tail(q)[k].kind \in Ends
  <2>1. PICK k \in DOMAIN q : q[k].kind \in Ends
    BY <1>5 DEF OutcomesOK
  <2> QED BY <1>2, <1>5, <2>1
<1>6. ASSUME q[1] = Outcome("running"), ~busy
      PROVE  \E k \in DOMAIN Tail(q) : Tail(q)[k].kind \in Ends
  <2>1. PICK k \in DOMAIN q : k > 1 /\ q[k].kind \in Ends
    BY <1>3, <1>6 DEF OutcomesOK
  <2>2. k # 1
    BY <1>3, <2>1
  <2> QED BY <1>2, <2>1, <2>2
<1>7. Head(q).kind \notin Ends => OutcomesOK(Tail(q), shown, busy)
  BY <1>3, <1>4, <1>5 DEF OutcomesOK
<1>8. OutcomesOK(Tail(q), "done", busy)
  BY <1>4 DEF OutcomesOK
<1>9. ASSUME NEW s, Head(q) = Outcome(s)
      PROVE  OutcomesOK(Tail(q), s, busy)
  BY <1>3, <1>4, <1>6, <1>9 DEF OutcomesOK
<1> QED BY <1>7, <1>8, <1>9

--------------------------------------------------------------------------------
\* The configurations on their way.

LEMMA FormQuiet ==
    ASSUME NEW q \in Seq(Message), NEW e \in Message, e.kind \notin Sources,
           NEW form, NEW known, FormOK(q, form, known)
    PROVE  FormOK(Append(q, e), form, known)
<1>1. /\ \A i \in DOMAIN q : i \in DOMAIN Append(q, e) /\ Append(q, e)[i] = q[i]
      /\ \A i \in DOMAIN Append(q, e) : i \in DOMAIN q \/ Append(q, e)[i] = e
  BY AppendFacts
<1> QED BY <1>1 DEF FormOK, Sources

LEMMA FormSent ==
    ASSUME NEW q \in Seq(Message), NEW e \in Message, NEW form, NEW known,
           e.kind = "session" \/ (e.kind = "configuration" /\ known = {e.of})
    PROVE  FormOK(Append(q, e), form, known)
<1> DEFINE p == Append(q, e)
           n == Len(q) + 1
<1>1. n \in DOMAIN p /\ p[n] = e /\ p[n].kind \in Sources
  BY AppendFacts DEF Sources
<1>2. ASSUME NEW i \in DOMAIN p, i # n
      PROVE  n > i
  <2>1. i \in DOMAIN q
    BY <1>2, AppendFacts
  <2>2. i \in Nat /\ i <= Len(q) /\ Len(q) \in Nat
    BY <2>1, AppendFacts
  <2> QED BY <2>2
<1>3. p[n].kind = "configuration" => known = {p[n].of}
  BY <1>1
<1> HIDE DEF p, n
<1>4. \A i \in DOMAIN p : p[i].kind = "configuration"
                          /\ (\A k \in DOMAIN p : k > i => p[k].kind \notin Sources)
                          => known = {p[i].of}
  BY <1>1, <1>2, <1>3
<1>5. FormOK(p, form, known)
  BY <1>1, <1>4 DEF FormOK
<1> QED BY <1>5 DEF p

LEMMA FormTaken ==
    ASSUME NEW q \in Seq(Message), q # <<>>, NEW form, NEW known, FormOK(q, form, known)
    PROVE  /\ Head(q).kind \notin Sources => FormOK(Tail(q), form, known)
           /\ \A f : f.loaded = FALSE => FormOK(Tail(q), f, known)
           /\ \A f : Head(q).kind = "configuration" /\ f.base = Head(q).of
                     => FormOK(Tail(q), f, known)
<1>1. \A i \in DOMAIN Tail(q) : i \in Nat \ {0} /\ i + 1 \in DOMAIN q /\ Tail(q)[i] = q[i + 1]
  BY TailFacts
<1>2. \A i \in DOMAIN q : i # 1 => i - 1 \in DOMAIN Tail(q) /\ Tail(q)[i - 1] = q[i]
  BY TailReaches
<1>3. Head(q) = q[1] /\ 1 \in DOMAIN q /\ \A i \in DOMAIN q : i \in Nat \ {0}
  BY TailFacts
<1>4. ASSUME NEW i \in DOMAIN Tail(q), Tail(q)[i].kind = "configuration",
             \A k \in DOMAIN Tail(q) : k > i => Tail(q)[k].kind \notin Sources
      PROVE  known = {Tail(q)[i].of}
  <2>1. i \in Nat /\ i + 1 \in DOMAIN q /\ q[i + 1] = Tail(q)[i]
    BY <1>1
  <2>2. ASSUME NEW k \in DOMAIN q, k > i + 1
        PROVE  q[k].kind \notin Sources
    <3>1. k \in Nat /\ k # 1 /\ k - 1 > i
      BY <1>3, <2>1, <2>2
    <3> QED BY <1>2, <1>4, <3>1
  <2> QED BY <1>4, <2>1, <2>2 DEF FormOK
<1>5. ASSUME \A k \in DOMAIN Tail(q) : Tail(q)[k].kind \notin Sources
      PROVE  /\ q[1].kind = "configuration" => known = {q[1].of}
             /\ q[1].kind \notin Sources => (form.loaded => known = {form.base})
  <2>1. \A k \in DOMAIN q : k # 1 => q[k].kind \notin Sources
    BY <1>2, <1>5
  <2>2. \A k \in DOMAIN q : k > 1 => q[k].kind \notin Sources
    BY <1>3, <2>1
  <2> QED BY <1>3, <2>1, <2>2 DEF FormOK
<1>6. Head(q).kind \notin Sources => FormOK(Tail(q), form, known)
  BY <1>3, <1>4, <1>5 DEF FormOK
<1>7. \A f : f.loaded = FALSE => FormOK(Tail(q), f, known)
  BY <1>4 DEF FormOK
<1>8. \A f : Head(q).kind = "configuration" /\ f.base = Head(q).of => FormOK(Tail(q), f, known)
  BY <1>3, <1>4, <1>5 DEF FormOK
<1> QED BY <1>6, <1>7, <1>8

--------------------------------------------------------------------------------
\* The samples on their way.

LEMMA SameRunSent ==
    ASSUME NEW q \in Seq(Message), NEW e \in Message, NEW i
    PROVE  /\ \A j \in 0..Len(q) + 1 : SameRun(Append(q, e), i, j) <=> SameRun(q, i, j)
           /\ SameRun(Append(q, e), i, Len(Append(q, e)) + 1) /\ i \in 0..Len(q) =>
                 SameRun(q, i, Len(q) + 1) /\ e.kind # "session"
<1> DEFINE p == Append(q, e)
           n == Len(q) + 1
<1>1. /\ Len(q) \in Nat /\ Len(p) = n /\ n \in DOMAIN p /\ p[n] = e
      /\ \A k \in DOMAIN q : k \in Nat /\ k <= Len(q) /\ k \in DOMAIN p /\ p[k] = q[k]
      /\ \A k \in DOMAIN p : k \in DOMAIN q \/ k = n
  BY AppendFacts
<1> HIDE DEF p, n
<1>2. n = Len(q) + 1
  BY DEF n
<1>3. ASSUME NEW j \in 0..Len(q) + 1
      PROVE  SameRun(p, i, j) <=> SameRun(q, i, j)
  <2>1. \A k \in DOMAIN p : k < j => k \in DOMAIN q
    BY <1>1, <1>2
  <2> QED BY <1>1, <2>1 DEF SameRun
<1>4. ASSUME SameRun(p, i, Len(p) + 1), i \in 0..Len(q)
      PROVE  SameRun(q, i, Len(q) + 1) /\ e.kind # "session"
  <2>1. i < n /\ n < Len(p) + 1 /\ \A k \in DOMAIN q : k < Len(p) + 1
    BY <1>1, <1>2, <1>4
  <2>2. e.kind # "session"
    BY <1>1, <1>4, <2>1 DEF SameRun
  <2>3. SameRun(q, i, Len(q) + 1)
    BY <1>1, <1>4, <2>1 DEF SameRun
  <2> QED BY <2>2, <2>3
<1> QED BY <1>3, <1>4 DEF p

LEMMA SameRunTaken ==
    ASSUME NEW q \in Seq(Message), q # <<>>, NEW i \in Nat, NEW j \in Nat,
           SameRun(Tail(q), i, j)
    PROVE  /\ SameRun(q, i + 1, j + 1)
           /\ i = 0 /\ Head(q).kind # "session" => SameRun(q, 0, j + 1)
<1>1. \A k \in DOMAIN q : k # 1 => k - 1 \in DOMAIN Tail(q) /\ Tail(q)[k - 1] = q[k]
  BY TailReaches
<1>2. Head(q) = q[1] /\ 1 \in DOMAIN q /\ \A k \in DOMAIN q : k \in Nat \ {0}
  BY TailFacts
<1>3. ASSUME NEW k \in DOMAIN q, i + 1 < k, k < j + 1
      PROVE  q[k].kind # "session"
  <2>1. k \in Nat /\ k # 1 /\ i < k - 1 /\ k - 1 < j
    BY <1>2, <1>3
  <2> QED BY <1>1, <2>1 DEF SameRun
<1>4. SameRun(q, i + 1, j + 1)
  BY <1>3 DEF SameRun
<1>5. ASSUME i = 0, Head(q).kind # "session", NEW k \in DOMAIN q, 0 < k, k < j + 1
      PROVE  q[k].kind # "session"
  <2>1. k = 1 \/ i + 1 < k
    BY <1>2, <1>5
  <2> QED BY <1>2, <1>3, <1>5, <2>1
<1>6. i = 0 /\ Head(q).kind # "session" => SameRun(q, 0, j + 1)
  BY <1>5 DEF SameRun
<1> QED BY <1>4, <1>6

LEMMA OrderSent ==
    ASSUME NEW q \in Seq(Message), NEW e \in Message, InOrder(q),
           \A i \in DOMAIN q : SameRun(q, i, Len(q) + 1) =>
               \A s \in Brought(q[i]), t \in Brought(e) : Before(s, t)
    PROVE  InOrder(Append(q, e))
<1> DEFINE p == Append(q, e)
           n == Len(q) + 1
<1>1. /\ Len(q) \in Nat /\ n \in DOMAIN p /\ p[n] = e
      /\ \A k \in DOMAIN q : k \in Nat /\ k <= Len(q) /\ p[k] = q[k]
      /\ \A k \in DOMAIN p : k \in DOMAIN q \/ k = n
  BY AppendFacts
<1>2. \A i : \A j \in 0..n : SameRun(p, i, j) <=> SameRun(q, i, j)
  BY SameRunSent
<1> SUFFICES ASSUME NEW i \in DOMAIN p, NEW j \in DOMAIN p, i < j, SameRun(p, i, j)
             PROVE  \A s \in Brought(p[i]), t \in Brought(p[j]) : Before(s, t)
  BY DEF InOrder
<1>3. j \in 0..n /\ i \in DOMAIN q /\ p[i] = q[i]
  <2> HIDE DEF p
  <2> QED BY <1>1
<1>4. SameRun(q, i, j)
  BY <1>2, <1>3
<1>5. CASE j \in DOMAIN q
  BY <1>1, <1>3, <1>4, <1>5 DEF InOrder
<1>6. CASE j = n
  BY <1>1, <1>3, <1>4, <1>6
<1> QED BY <1>1, <1>5, <1>6

LEMMA OrderTaken ==
    ASSUME NEW q \in Seq(Message), q # <<>>, InOrder(q)
    PROVE  InOrder(Tail(q))
<1>1. \A k \in DOMAIN Tail(q) : k \in Nat \ {0} /\ k + 1 \in DOMAIN q /\ Tail(q)[k] = q[k + 1]
  BY TailFacts
<1> SUFFICES ASSUME NEW i \in DOMAIN Tail(q), NEW j \in DOMAIN Tail(q), i < j,
                    SameRun(Tail(q), i, j)
             PROVE  \A s \in Brought(Tail(q)[i]), t \in Brought(Tail(q)[j]) : Before(s, t)
  BY DEF InOrder
<1>2. i \in Nat /\ j \in Nat /\ i + 1 < j + 1
  BY <1>1
<1>3. SameRun(q, i + 1, j + 1)
  BY <1>2, SameRunTaken
<1> QED BY <1>1, <1>2, <1>3 DEF InOrder

LEMMA ArrivesSent ==
    ASSUME NEW q \in Seq(Message), NEW e \in Message, NEW g, NEW last, ArrivesOK(q, g, last),
           SameRun(q, 0, Len(q) + 1) => \A t \in Brought(e) : Recorded(g, last, t)
    PROVE  ArrivesOK(Append(q, e), g, last)
<1> DEFINE p == Append(q, e)
           n == Len(q) + 1
<1>1. /\ Len(q) \in Nat /\ n \in DOMAIN p /\ p[n] = e
      /\ \A k \in DOMAIN q : k \in Nat /\ k <= Len(q) /\ p[k] = q[k]
      /\ \A k \in DOMAIN p : k \in DOMAIN q \/ k = n
  BY AppendFacts
<1>2. \A j \in 0..n : SameRun(p, 0, j) <=> SameRun(q, 0, j)
  BY SameRunSent
<1> SUFFICES ASSUME NEW i \in DOMAIN p, SameRun(p, 0, i)
             PROVE  \A t \in Brought(p[i]) : Recorded(g, last, t)
  BY DEF ArrivesOK
<1>3. i \in 0..n
  <2> HIDE DEF p
  <2> QED BY <1>1
<1>4. SameRun(q, 0, i)
  BY <1>2, <1>3
<1>5. CASE i \in DOMAIN q
  BY <1>1, <1>4, <1>5 DEF ArrivesOK
<1>6. CASE i = n
  BY <1>1, <1>4, <1>6
<1> QED BY <1>1, <1>5, <1>6

\* The newest sample of a graph is before all that are recorded later.
Newest(g, last, t) ==
    last = t.id /\ g.last_sequence = {t.sequence} /\ g.session_id = {t.session}

LEMMA NewestRecorded ==
    ASSUME NEW g, NEW last, NEW t \in Reading, Newest(g, last, t),
           NEW u \in Reading, Before(t, u)
    PROVE  Recorded(g, last, u)
BY DEF Newest, Before, Recorded

LEMMA ArrivesTaken ==
    ASSUME NEW q \in Seq(Message), q # <<>>, InOrder(q), NEW g, NEW last, ArrivesOK(q, g, last)
    PROVE  /\ Head(q).kind # "session" => ArrivesOK(Tail(q), g, last)
           /\ \A h, l : h.session_id = {} => ArrivesOK(Tail(q), h, l)
           /\ \A h, l : \A t \in Reading :
                 Brought(Head(q)) = {t} /\ Newest(h, l, t) => ArrivesOK(Tail(q), h, l)
<1>1. \A k \in DOMAIN Tail(q) : k \in Nat \ {0} /\ k + 1 \in DOMAIN q /\ Tail(q)[k] = q[k + 1]
  BY TailFacts
<1>2. Head(q) = q[1] /\ 1 \in DOMAIN q
  BY TailFacts
<1>3. \A k \in DOMAIN q : q[k] \in Message
  OBVIOUS
<1>4. ASSUME Head(q).kind # "session", NEW i \in DOMAIN Tail(q), SameRun(Tail(q), 0, i)
      PROVE  \A t \in Brought(Tail(q)[i]) : Recorded(g, last, t)
  <2>1. SameRun(q, 0, i + 1)
    BY <1>1, <1>4, SameRunTaken
  <2> QED BY <1>1, <2>1 DEF ArrivesOK
<1>5. \A h, l : h.session_id = {} => ArrivesOK(Tail(q), h, l)
  BY DEF ArrivesOK, Recorded
<1>6. ASSUME NEW h, NEW l, NEW t \in Reading, Brought(Head(q)) = {t}, Newest(h, l, t),
             NEW i \in DOMAIN Tail(q), SameRun(Tail(q), 0, i), NEW u \in Brought(Tail(q)[i])
      PROVE  Recorded(h, l, u)
  <2>1. SameRun(q, 1, i + 1) /\ 1 < i + 1 /\ i + 1 \in DOMAIN q
    <3>1. i \in Nat \ {0} /\ i + 1 \in DOMAIN q
      BY <1>1
    <3>2. SameRun(q, 0 + 1, i + 1)
      BY <1>6, <3>1, SameRunTaken
    <3> QED BY <3>1, <3>2
  <2>2. u \in Brought(q[i + 1]) /\ t \in Brought(q[1]) /\ u \in Reading
    BY <1>1, <1>2, <1>3, <1>6, <2>1, BroughtIsReading
  <2>3. Before(t, u)
    BY <1>2, <2>1, <2>2 DEF InOrder
  <2> QED BY <1>6, <2>2, <2>3, NewestRecorded
<1> QED BY <1>4, <1>5, <1>6 DEF ArrivesOK

LEMMA LatestSent ==
    ASSUME NEW q \in Seq(Message), NEW e \in Message, NEW g, NEW last, NEW latest, NEW number,
           e.kind = "session" \/ LatestOK(q, g, last, latest, number),
           \A t \in Brought(e) : t.sequence <= number /\ \A u \in latest : Before(t, u)
    PROVE  LatestOK(Append(q, e), g, last, latest, number)
<1> DEFINE p == Append(q, e)
           n == Len(q) + 1
<1>1. /\ Len(q) \in Nat /\ Len(p) = n /\ n \in DOMAIN p /\ p[n] = e
      /\ \A k \in DOMAIN q : k \in Nat /\ k <= Len(q) /\ p[k] = q[k]
      /\ \A k \in DOMAIN p : k \in DOMAIN q \/ k = n
  BY AppendFacts
<1>2. \A i \in 0..Len(q) : SameRun(p, i, Len(p) + 1) =>
          SameRun(q, i, Len(q) + 1) /\ LatestOK(q, g, last, latest, number)
  BY SameRunSent
<1>3. ASSUME NEW i \in DOMAIN p, SameRun(p, i, Len(p) + 1), NEW t \in Brought(p[i])
      PROVE  t.sequence <= number /\ \A u \in latest : Before(t, u)
  <2>1. CASE i = n
    BY <1>1, <1>3, <2>1
  <2>2. CASE i \in DOMAIN q
    <3>1. i \in 0..Len(q) /\ p[i] = q[i]
      BY <1>1, <2>2
    <3> QED BY <1>2, <1>3, <2>2, <3>1 DEF LatestOK
  <2> QED BY <1>1, <2>1, <2>2
<1>4. ASSUME SameRun(p, 0, Len(p) + 1)
      PROVE  /\ \A m \in g.last_sequence : m <= number
             /\ \A u \in latest : Recorded(g, last, u)
  <2>1. 0 \in 0..Len(q)
    BY <1>1
  <2> QED BY <1>2, <1>4, <2>1 DEF LatestOK
<1> QED BY <1>3, <1>4 DEF LatestOK

LEMMA LatestTaken ==
    ASSUME NEW q \in Seq(Message), q # <<>>, NEW g, NEW last, NEW latest \in SUBSET Reading,
           NEW number, LatestOK(q, g, last, latest, number)
    PROVE  /\ Head(q).kind # "session" => LatestOK(Tail(q), g, last, latest, number)
           /\ \A h, l : h.session_id = {} /\ h.last_sequence = {} =>
                 LatestOK(Tail(q), h, l, latest, number)
           /\ \A h, l : \A t \in Reading :
                 Brought(Head(q)) = {t} /\ Newest(h, l, t) =>
                     LatestOK(Tail(q), h, l, latest, number)
<1> DEFINE n == Len(Tail(q)) + 1
<1>1. /\ \A k \in DOMAIN Tail(q) : k \in Nat \ {0} /\ k + 1 \in DOMAIN q /\ Tail(q)[k] = q[k + 1]
      /\ Head(q) = q[1] /\ 1 \in DOMAIN q /\ Len(q) = n /\ n \in Nat
  BY TailFacts
<1> HIDE DEF n
<1>2. n = Len(Tail(q)) + 1
  BY DEF n
<1>3. ASSUME NEW i \in DOMAIN Tail(q), SameRun(Tail(q), i, n), NEW t \in Brought(Tail(q)[i])
      PROVE  t.sequence <= number /\ \A u \in latest : Before(t, u)
  <2>1. SameRun(q, i + 1, n + 1)
    BY <1>1, <1>3, SameRunTaken
  <2> QED BY <1>1, <1>3, <2>1 DEF LatestOK
<1>4. ASSUME SameRun(Tail(q), 0, n)
      PROVE  /\ SameRun(q, 1, Len(q) + 1)
             /\ Head(q).kind # "session" => SameRun(q, 0, Len(q) + 1)
  <2>1. SameRun(q, 0 + 1, n + 1) /\ (Head(q).kind # "session" => SameRun(q, 0, n + 1))
    BY <1>1, <1>4, SameRunTaken
  <2> QED BY <1>1, <2>1
<1>5. Head(q).kind # "session" => LatestOK(Tail(q), g, last, latest, number)
  BY <1>2, <1>3, <1>4 DEF LatestOK
<1>6. ASSUME NEW h, NEW l, h.session_id = {}, h.last_sequence = {}
      PROVE  LatestOK(Tail(q), h, l, latest, number)
  BY <1>2, <1>3, <1>6 DEF LatestOK, Recorded
<1>7. ASSUME NEW h, NEW l, NEW t \in Reading, Brought(Head(q)) = {t}, Newest(h, l, t)
      PROVE  LatestOK(Tail(q), h, l, latest, number)
  <2>1. ASSUME SameRun(Tail(q), 0, n)
        PROVE  /\ \A m \in h.last_sequence : m <= number
               /\ \A u \in latest : Recorded(h, l, u)
    <3>1. t.sequence <= number /\ \A u \in latest : Before(t, u)
      BY <1>1, <1>4, <1>7, <2>1 DEF LatestOK
    <3>2. h.last_sequence = {t.sequence}
      BY <1>7 DEF Newest
    <3> QED BY <1>7, <3>1, <3>2, NewestRecorded
  <2> QED BY <1>2, <1>3, <2>1 DEF LatestOK
<1> QED BY <1>5, <1>6, <1>7

LEMMA TakenSent ==
    ASSUME NEW q \in Seq(Message), NEW e \in Message, NEW number, Taken(q, number),
           \A t \in Brought(e) : t.id <= number
    PROVE  Taken(Append(q, e), number)
<1>1. \A i \in DOMAIN Append(q, e) : \/ i \in DOMAIN q /\ Append(q, e)[i] = q[i]
                                     \/ Append(q, e)[i] = e
  BY AppendFacts
<1> QED BY <1>1 DEF Taken

LEMMA TakenTaken ==
    ASSUME NEW q \in Seq(Message), q # <<>>, NEW number, Taken(q, number)
    PROVE  Taken(Tail(q), number)
<1>1. \A k \in DOMAIN Tail(q) : k + 1 \in DOMAIN q /\ Tail(q)[k] = q[k + 1]
  BY TailFacts
<1> QED BY <1>1 DEF Taken

--------------------------------------------------------------------------------
\* The graph and the samples it takes.

LEMMA DuplicateIsNewest ==
    ASSUME NEW g \in Buffer, NEW last, NEW t \in Reading, Duplicate(g, t), Recorded(g, last, t)
    PROVE  Newest(g, last, t)
<1>1. PICK n \in g.last_sequence : t.sequence <= n
  BY DEF Duplicate
<1>2. n \in Nat /\ t.sequence \in Nat /\ ~(n < t.sequence)
  BY <1>1 DEF Buffer, Partial, Reading
<1>3. g.session_id = {t.session} /\ g.session_id # {}
  BY DEF Duplicate
<1> QED BY <1>1, <1>2, <1>3 DEF Recorded, Newest

LEMMA RecordIsNewest ==
    ASSUME NEW g \in Buffer, NEW t \in Reading
    PROVE  Newest(Record(g, t), t.id, t)
BY RecordFacts DEF Newest

LEMMA OthersAreNewer ==
    ASSUME NEW g \in Buffer, NEW last \in Nat, NEW t \in Reading, ~Duplicate(g, t),
           Recorded(g, last, t), g.session_id # {}
    PROVE  last < t.id
<1>1. CASE last = t.id /\ g.last_sequence = {t.sequence} /\ g.session_id = {t.session}
  BY <1>1 DEF Duplicate, Reading
<1> QED BY <1>1 DEF Recorded

LEMMA SamplesAfterRecord ==
    ASSUME KindsOK, GraphOK, SamplesAreNew, NEW t \in Reading, ~Duplicate(graph, t),
           Recorded(graph, newest, t),
           graph' = Record(graph, t), newest' = t.id, cleared' = cleared
    PROVE  GraphOK' /\ SamplesAreNew'
<1> DEFINE S == graph.samples
<1>1. /\ graph \in Buffer /\ newest \in Nat /\ cleared \in Nat /\ cleared <= newest
      /\ S \in Seq(Reading)
      /\ graph.session_id = {} => S = <<>> /\ cleared = 0
      /\ S # <<>> => graph.last_observed = {S[Len(S)].at} /\ newest = S[Len(S)].id
  BY DEF KindsOK, GraphKinds, GraphOK, Buffer, Last
<1>2. \A i \in DOMAIN S :
         /\ S[i].id > cleared /\ {S[i].session} = graph.session_id
         /\ i > 1 => S[i].id > S[i - 1].id /\ S[i].at > S[i - 1].at
  BY DEF SamplesAreNew
<1>3. t.id \in Nat \ {0} /\ (graph.session_id # {} => newest < t.id)
  BY <1>1, OthersAreNewer DEF Reading
<1>4. t.id > cleared
  BY <1>1, <1>3
<1>5. PICK at \in Nat, kept \in Seq(Reading) :
         /\ graph'.last_observed = {at} /\ graph'.samples = Append(kept, [t EXCEPT !.at = at])
         /\ \/ kept = <<>> /\ (SessionReset(graph, t) \/ S = <<>>)
            \/ /\ S # <<>> /\ kept \in {S, Tail(S)}
               /\ ~SessionReset(graph, t) /\ \A n \in graph.last_observed : at > n
  <2> HIDE DEF S
  <2>1. graph \in Buffer /\ graph' = Record(graph, t) /\ S = graph.samples
    BY <1>1 DEF S
  <2>2. \E at \in Nat, kept \in Seq(Reading) :
           /\ Record(graph, t).last_observed = {at}
           /\ Record(graph, t).samples = Append(kept, [t EXCEPT !.at = at])
           /\ \/ kept = <<>> /\ (SessionReset(graph, t) \/ graph.samples = <<>>)
              \/ /\ graph.samples # <<>> /\ kept \in {graph.samples, Tail(graph.samples)}
                 /\ ~SessionReset(graph, t) /\ \A n \in graph.last_observed : at > n
    BY <2>1, RecordFacts
  <2> QED BY <2>1, <2>2, Zenon
<1> DEFINE new == [t EXCEPT !.at = at]
<1>6. /\ new \in Reading /\ new.id = t.id /\ new.session = t.session /\ new.at = at
  BY DEF Reading
<1> HIDE DEF new
<1>7. graph'.samples = Append(kept, new)
  BY <1>5 DEF new
<1>8. graph'.session_id = {t.session}
  BY <1>1, RecordFacts
\* What is kept of the samples is as new as they are, and ends as they do.
<1>9. ASSUME kept # <<>>
      PROVE  /\ \A i \in DOMAIN kept :
                   /\ kept[i].id > cleared /\ kept[i].session = t.session
                   /\ i > 1 => kept[i].id > kept[i - 1].id /\ kept[i].at > kept[i - 1].at
             /\ kept[Len(kept)] = S[Len(S)] /\ S # <<>> /\ at > S[Len(S)].at
  <2>1. S # <<>> /\ kept \in {S, Tail(S)} /\ ~SessionReset(graph, t) /\ at > S[Len(S)].at
    BY <1>1, <1>5, <1>9
  <2>2. graph.session_id = {t.session}
    BY <1>1, <2>1 DEF SessionReset
  <2>3. CASE kept = S
    BY <1>2, <2>1, <2>2, <2>3
  <2>4. CASE kept = Tail(S)
    <3>1. /\ Len(S) = Len(kept) + 1
          /\ \A i \in DOMAIN kept : i \in Nat \ {0} /\ i + 1 \in DOMAIN S /\ kept[i] = S[i + 1]
      BY <1>1, <2>1, <2>4, TailFacts
    <3>2. Len(kept) \in DOMAIN kept
      BY <1>9
    <3>3. kept[Len(kept)] = S[Len(S)]
      BY <3>1, <3>2
    <3>4. ASSUME NEW i \in DOMAIN kept
          PROVE  /\ kept[i].id > cleared /\ kept[i].session = t.session
                 /\ i > 1 => kept[i].id > kept[i - 1].id /\ kept[i].at > kept[i - 1].at
      <4>1. i \in Nat \ {0} /\ i + 1 \in DOMAIN S /\ kept[i] = S[i + 1]
        BY <3>1
      <4>2. S[i + 1].id > cleared /\ {S[i + 1].session} = graph.session_id
        BY <1>2, <4>1
      <4>3. ASSUME i > 1
            PROVE  kept[i].id > kept[i - 1].id /\ kept[i].at > kept[i - 1].at
        <5>1. i - 1 \in DOMAIN kept /\ kept[i - 1] = S[i]
          BY <3>1, <4>1, <4>3
        <5>2. i + 1 > 1 /\ (i + 1) - 1 = i
          BY <4>1, <4>3
        <5>3. S[i + 1].id > S[i].id /\ S[i + 1].at > S[i].at
          BY <1>2, <4>1, <5>2
        <5> QED BY <4>1, <5>1, <5>3
      <4> QED BY <2>2, <4>1, <4>2, <4>3
    <3> QED BY <2>1, <3>3, <3>4
  <2> QED BY <2>1, <2>3, <2>4
<1> DEFINE n == Len(kept) + 1
<1>10. /\ Len(kept) \in Nat /\ graph'.samples[n] = new
       /\ \A i \in DOMAIN kept : i \in Nat /\ i <= Len(kept) /\ graph'.samples[i] = kept[i]
       /\ \A i \in DOMAIN graph'.samples : i \in DOMAIN kept \/ i = n
  BY <1>6, <1>7, AppendFacts
<1>11. ASSUME NEW i \in DOMAIN graph'.samples
       PROVE  /\ graph'.samples[i].id > cleared /\ graph'.samples[i].session = t.session
              /\ i > 1 => /\ graph'.samples[i].id > graph'.samples[i - 1].id
                          /\ graph'.samples[i].at > graph'.samples[i - 1].at
  <2>1. CASE i \in DOMAIN kept
    <3>1. kept # <<>>
      BY <2>1
    <3>2. i > 1 => i - 1 \in DOMAIN kept
      BY <2>1
    <3> QED BY <1>9, <1>10, <2>1, <3>1, <3>2
  <2>2. CASE i = n
    <3>1. graph'.samples[i].id > cleared /\ graph'.samples[i].session = t.session
      BY <1>4, <1>6, <1>10, <2>2
    <3>2. ASSUME i > 1
          PROVE  /\ graph'.samples[i].id > graph'.samples[i - 1].id
                 /\ graph'.samples[i].at > graph'.samples[i - 1].at
      <4>1. kept # <<>> /\ i - 1 = Len(kept) /\ i - 1 \in DOMAIN kept
        BY <1>10, <2>2, <3>2
      <4>2. graph'.samples[i - 1] = S[Len(S)] /\ S # <<>> /\ at > S[Len(S)].at
        BY <1>9, <1>10, <4>1
      <4>3. S[Len(S)].id < t.id
        <5>1. graph.session_id # {} /\ newest = S[Len(S)].id
          BY <1>1, <4>2
        <5> QED BY <1>3, <5>1
      <4> QED BY <1>6, <1>10, <2>2, <4>2, <4>3
    <3> QED BY <3>1, <3>2
  <2> QED BY <1>10, <2>1, <2>2
<1>12. SamplesAreNew'
  BY <1>8, <1>11 DEF SamplesAreNew
<1>13. GraphOK'
  <2>1. Last(graph'.samples) = new
    BY <1>6, <1>7, LastFacts
  <2>2. cleared' <= newest'
    BY <1>1, <1>3, <1>4
  <2>3. graph'.session_id # {}
    BY <1>8
  <2> QED BY <1>5, <1>6, <2>1, <2>2, <2>3 DEF GraphOK
<1> QED BY <1>12, <1>13

--------------------------------------------------------------------------------
\* What a step of the worker leaves as it was.

\* The samples on their way, when the worker knows the session or not.
SampleLine(q, known) ==
    /\ InOrder(q) /\ ArrivesOK(q, graph, newest) /\ Taken(q, produced)
    /\ known => LatestOK(q, graph, newest, telemetry, sequence)

LEMMA LineQuiet ==
    ASSUME NEW q \in Seq(Message), NEW e \in Message, e.kind # "telemetry",
           NEW a \in BOOLEAN, NEW b \in BOOLEAN, SampleLine(q, a), b => a \/ e.kind = "session"
    PROVE  SampleLine(Append(q, e), b)
<1>1. Brought(e) = {}
  BY DEF Brought
<1>2. InOrder(Append(q, e))
  BY <1>1, OrderSent DEF SampleLine
<1>3. ArrivesOK(Append(q, e), graph, newest)
  BY <1>1, ArrivesSent DEF SampleLine
<1>4. Taken(Append(q, e), produced)
  BY <1>1, TakenSent DEF SampleLine
<1>5. ASSUME b
      PROVE  LatestOK(Append(q, e), graph, newest, telemetry, sequence)
  <2>1. e.kind = "session" \/ LatestOK(q, graph, newest, telemetry, sequence)
    BY <1>5 DEF SampleLine
  <2> QED BY <1>1, <2>1, LatestSent
<1> QED BY <1>2, <1>3, <1>4, <1>5 DEF SampleLine

LEMMA LineSample ==
    ASSUME NEW q \in Seq(Message), NEW u \in Reading, SampleLine(q, TRUE), telemetry = {u},
           u.id <= produced, u.sequence <= sequence
    PROVE  SampleLine(Append(q, Event("telemetry", telemetry)), TRUE)
<1> DEFINE e == Event("telemetry", telemetry)
<1>1. e \in Message /\ Brought(e) = {u}
  <2>1. e \in Message
    BY EventKinds
  <2>2. Brought(e) = {u}
    BY DEF Brought, Event
  <2> QED BY <2>1, <2>2
<1>2. LatestOK(q, graph, newest, telemetry, sequence) /\ Before(u, u)
  BY DEF SampleLine, Before
<1> HIDE DEF e
<1>3. InOrder(Append(q, e))
  <2>1. \A i \in DOMAIN q : SameRun(q, i, Len(q) + 1) =>
           \A s \in Brought(q[i]), t \in Brought(e) : Before(s, t)
    BY <1>1, <1>2 DEF LatestOK
  <2> QED BY <1>1, <2>1, OrderSent DEF SampleLine
<1>4. ArrivesOK(Append(q, e), graph, newest)
  <2>1. SameRun(q, 0, Len(q) + 1) => \A t \in Brought(e) : Recorded(graph, newest, t)
    BY <1>1, <1>2 DEF LatestOK
  <2> QED BY <1>1, <2>1, ArrivesSent DEF SampleLine
<1>5. Taken(Append(q, e), produced)
  BY <1>1, TakenSent DEF SampleLine
<1>6. LatestOK(Append(q, e), graph, newest, telemetry, sequence)
  BY <1>1, <1>2, LatestSent
<1> QED BY <1>3, <1>4, <1>5, <1>6 DEF SampleLine, e

LEMMA LineOfSamples ==
    SamplesOK <=> /\ SampleLine(events, connection = "live" /\ sessionId # {})
                  /\ newest <= produced
                  /\ \A u \in telemetry : u.id <= produced /\ u.sequence <= sequence
BY DEF SamplesOK, SampleLine

\* What is in hand after a call.
LEMMA WorkAfter ==
    ASSUME ~Busy \/ job' = <<>>, job' \in Seq(Reads),
           hand' = (IF job' = <<>> THEN Nothing ELSE hand),
           (\E i \in DOMAIN job' : job'[i] = "telemetry") => sessionId' # {},
           connection' = "none" => sessionId' = {}
    PROVE  WorkOK' /\ ~Busy'
<1>1. Nothing.kind = "none"
  BY RequestKinds
<1>2. ~Busy'
  BY <1>1 DEF Busy
<1> QED BY <1>2 DEF WorkOK

LEMMA CallWork ==
    ASSUME KindsOK, WorkOK, Call
    PROVE  WorkOK' /\ ~Busy'
<1>1. job # <<>>
  BY DEF Call
<1>2. /\ ~Busy => Tail(job) \in Seq(Reads)
      /\ sessionId = {} => \A i \in DOMAIN Tail(job) : Tail(job)[i] # "telemetry"
      /\ connection = "none" => sessionId = {}
  BY <1>1, FirstCall DEF WorkOK
<1>3. ASSUME job' = <<>>, hand' = Nothing, connection' = "none" => sessionId' = {}
      PROVE  WorkOK' /\ ~Busy'
  <2>1. job' \in Seq(Reads) /\ ~\E i \in DOMAIN job' : job'[i] = "telemetry"
    BY <1>3
  <2> QED BY <1>3, <2>1, WorkAfter
<1>4. CASE ConnectionFailed
  BY <1>3, <1>4 DEF ConnectionFailed
<1>5. CASE ~Busy /\ connection = "live" /\ GetStatus
  <2>1. Load(configuration) \o Tail(job) \in Seq(Reads) /\ Load({}) \o Tail(job) \in Seq(Reads)
    BY <1>2, <1>5, LoadFacts, ConcatFacts
  <2>2. job' \in {Load(configuration) \o Tail(job), Load({}) \o Tail(job)}
    BY <1>5 DEF GetStatus, Go
  <2>3. hand' = (IF job' = <<>> THEN Nothing ELSE hand) /\ connection' = connection
    BY <1>5 DEF GetStatus, Go
  <2>4. sessionId' = {session}
    BY <1>5 DEF GetStatus
  <2> QED BY <1>5, <2>1, <2>2, <2>3, <2>4, WorkAfter
<1>6. CASE ~Busy /\ (GetConfiguration \/ (sessionId # {} /\ GetTelemetry))
  <2>1. job' = Tail(job) /\ hand' = (IF job' = <<>> THEN Nothing ELSE hand)
        /\ connection' = connection /\ sessionId' = sessionId
    BY <1>6 DEF GetConfiguration, GetTelemetry, Go
  <2>2. job' \in Seq(Reads) /\ (sessionId' = {} => \A i \in DOMAIN job' : job'[i] # "telemetry")
    BY <1>2, <1>6, <2>1
  <2> QED BY <1>2, <1>6, <2>1, <2>2, WorkAfter
<1>7. CASE ApplyConfiguration \/ ReloadConfiguration \/ Refused \/ ThemeAsset
  <2>1. job' = <<>> /\ hand' = Nothing /\ connection' = connection /\ sessionId' = sessionId
    BY <1>7 DEF ApplyConfiguration, ReloadConfiguration, Refused, ThemeAsset, Go
  <2> QED BY <1>2, <1>3, <2>1
<1> QED BY CallCases, <1>4, <1>5, <1>6, <1>7

\* The worker's session is known: samples of it may be sent.
Connected == connection = "live" /\ sessionId # {}

LEMMA CallSends ==
    ASSUME KindsOK, WorkOK, OutcomesOK(events, operation, Busy),
           FormOK(events, config, configuration), SamplesOK, Call
    PROVE  /\ OutcomesOK(events', operation, FALSE) /\ FormOK(events', config, configuration')
           /\ SampleLine(events', Connected')
<1>1. events \in Seq(Message) /\ attached \in BOOLEAN /\ edition \in Nat
  BY DEF KindsOK, QueueKinds, DaemonKinds
<1>2. SampleLine(events, Connected)
  BY LineOfSamples DEF Connected
<1> DEFINE none == Event("status", attached)
           back == Event("session", {})
           done == Outcome("done")
<1>3. /\ none \in Message /\ back \in Message /\ done \in Message /\ Offline \in Message
      /\ none.kind = "status" /\ back.kind = "session" /\ done.kind = "operation"
      /\ done # Outcome("running") /\ Offline.kind = "offline" /\ Offline # Outcome("running")
  <2>1. none \in Message /\ back \in Message /\ done \in Message /\ Offline \in Message
    BY <1>1, EventKinds
  <2>2. /\ none.kind = "status" /\ back.kind = "session" /\ done.kind = "operation"
        /\ done # Outcome("running") /\ Offline.kind = "offline" /\ Offline # Outcome("running")
    BY DEF Event, Outcome, Offline
  <2> QED BY <2>1, <2>2
<1> HIDE DEF none, back, done
<1>4. ~Busy => OutcomesOK(events, operation, FALSE)
  BY DEF Busy
<1>5. \A a, b \in BOOLEAN, e \in Message :
         SampleLine(events, a) /\ (b => a \/ e.kind = "session") /\ e.kind # "telemetry"
         => SampleLine(Append(events, e), b)
  BY <1>1, LineQuiet
<1>6. Connected \in BOOLEAN /\ Connected' \in BOOLEAN
  BY DEF Connected
<1>7. CASE ConnectionFailed
  <2>1. events' = Append(events, Offline)
    BY <1>1, <1>3, <1>7, EmitOne DEF ConnectionFailed, Emit
  <2>2. ~Connected' /\ configuration' = configuration
    BY <1>7 DEF ConnectionFailed, Connected
  <2>3. OutcomesOK(events', operation, FALSE)
    BY <1>1, <1>3, <2>1, OutcomesEnded DEF Ends
  <2>4. FormOK(events', config, configuration')
    BY <1>1, <1>3, <2>1, <2>2, FormQuiet DEF Sources
  <2>5. SampleLine(events', Connected')
    BY <1>2, <1>3, <1>5, <1>6, <2>1, <2>2
  <2> QED BY <2>3, <2>4, <2>5
<1>8. CASE ~Busy /\ GetStatus /\ sessionId = {session}
  <2>1. events' = Append(events, none)
    BY <1>1, <1>3, <1>8, EmitOne DEF GetStatus, Go, Emit, none
  <2>2. Connected' = Connected /\ configuration' = configuration
    BY <1>8 DEF GetStatus, Go, Connected
  <2>3. OutcomesOK(events', operation, FALSE)
    BY <1>1, <1>3, <1>4, <1>8, <2>1, OutcomesQuiet DEF Ends
  <2>4. FormOK(events', config, configuration')
    BY <1>1, <1>3, <2>1, <2>2, FormQuiet DEF Sources
  <2>5. SampleLine(events', Connected')
    BY <1>2, <1>3, <1>5, <1>6, <2>1, <2>2
  <2> QED BY <2>3, <2>4, <2>5
<1>9. CASE ~Busy /\ GetStatus /\ sessionId # {session}
  <2> DEFINE q == Append(events, none)
  <2>1. q \in Seq(Message) /\ events' = Append(q, back)
    <3>1. events' = events \o <<none, back>>
      BY <1>9 DEF GetStatus, Go, Emit, none, back
    <3> QED BY <1>1, <1>3, <3>1, EmitTwo, AppendFacts
  <2>2. OutcomesOK(q, operation, FALSE) /\ SampleLine(q, Connected)
    BY <1>1, <1>2, <1>3, <1>4, <1>5, <1>6, <1>9, OutcomesQuiet DEF Ends
  <2> HIDE DEF q
  <2>3. OutcomesOK(events', operation, FALSE)
    BY <1>3, <2>1, <2>2, OutcomesQuiet DEF Ends
  <2>4. FormOK(events', config, configuration')
    BY <1>3, <2>1, FormSent
  <2>5. SampleLine(events', Connected')
    BY <1>3, <1>6, <2>1, <2>2, LineQuiet
  <2> QED BY <2>3, <2>4, <2>5
<1>10. CASE GetConfiguration /\ ~Busy
  <2>1. Connected' = Connected
    BY <1>10 DEF GetConfiguration, Go, Connected
  <2>2. CASE events' = events /\ configuration' = configuration
    BY <1>2, <1>4, <1>10, <2>1, <2>2
  <2>3. CASE events' = Append(events, Event("configuration", edition)) /\ configuration' = {edition}
    <3> DEFINE e == Event("configuration", edition)
    <3>1. e \in Message /\ e.kind = "configuration" /\ e.of = edition
      BY <1>1, EventKinds DEF Event
    <3> HIDE DEF e
    <3>2. events' = Append(events, e)
      BY <2>3 DEF e
    <3>3. OutcomesOK(events', operation, FALSE)
      BY <1>1, <1>4, <1>10, <3>1, <3>2, OutcomesQuiet DEF Ends
    <3>4. FormOK(events', config, configuration')
      BY <1>1, <2>3, <3>1, <3>2, FormSent
    <3>5. SampleLine(events', Connected')
      BY <1>2, <1>5, <1>6, <2>1, <3>1, <3>2
    <3> QED BY <3>3, <3>4, <3>5
  <2>4. \/ events' = events \o <<>> /\ configuration' = configuration
        \/ events' = events \o <<Event("configuration", edition)>> /\ configuration' = {edition}
    BY <1>10 DEF GetConfiguration, Go, Emit
  <2>5. /\ events \o <<>> = events
        /\ events \o <<Event("configuration", edition)>>
           = Append(events, Event("configuration", edition))
    BY <1>1, EmitNone, EmitOne, EventKinds
  <2> QED BY <2>2, <2>3, <2>4, <2>5
<1>11. CASE ~Busy /\ Connected /\ GetTelemetry
  <2>1. Connected' = Connected /\ configuration' = configuration
    BY <1>11 DEF GetTelemetry, Go, Connected
  <2>2. CASE telemetry = {}
    <3>1. events' = events
      BY <1>1, <1>11, <2>2, EmitNone DEF GetTelemetry, Go, Emit
    <3> QED BY <1>2, <1>4, <1>11, <2>1, <3>1
  <2>3. ASSUME NEW u \in Reading, telemetry = {u}
        PROVE  /\ OutcomesOK(events', operation, FALSE) /\ FormOK(events', config, configuration')
               /\ SampleLine(events', Connected')
    <3> DEFINE e == Event("telemetry", telemetry)
    <3>1. e \in Message /\ e.kind = "telemetry"
      BY <2>3, EventKinds DEF Event
    <3>2. events' = events \o <<e>>
      BY <1>11, <2>3 DEF GetTelemetry, Go, Emit
    <3>3. u.id <= produced /\ u.sequence <= sequence
      BY <2>3 DEF SamplesOK
    <3>4. SampleLine(events, TRUE) /\ Connected' = TRUE
      BY <1>2, <1>6, <1>11, <2>1
    <3>5. SampleLine(Append(events, e), TRUE)
      BY <1>1, <2>3, <3>3, <3>4, LineSample
    <3> HIDE DEF e
    <3>6. events' = Append(events, e)
      BY <1>1, <3>1, <3>2, EmitOne
    <3>7. OutcomesOK(events', operation, FALSE)
      BY <1>1, <1>4, <1>11, <3>1, <3>6, OutcomesQuiet DEF Ends
    <3>8. FormOK(events', config, configuration')
      BY <1>1, <2>1, <3>1, <3>6, FormQuiet DEF Sources
    <3> QED BY <3>4, <3>5, <3>6, <3>7, <3>8
  <2>4. telemetry = {} \/ \E u \in Reading : telemetry = {u}
    BY DEF KindsOK, DaemonKinds, Partial
  <2> QED BY <2>2, <2>3, <2>4
<1>12. CASE Refused
  <2>1. events' = Append(events, done)
    BY <1>1, <1>3, <1>12, EmitOne DEF Refused, Go, Emit, done
  <2>2. Connected' = Connected /\ configuration' = configuration
    BY <1>12 DEF Refused, Go, Connected
  <2>3. OutcomesOK(events', operation, FALSE)
    BY <1>1, <1>3, <2>1, OutcomesEnded DEF Ends
  <2>4. FormOK(events', config, configuration')
    BY <1>1, <1>3, <2>1, <2>2, FormQuiet DEF Sources
  <2>5. SampleLine(events', Connected')
    BY <1>2, <1>3, <1>5, <1>6, <2>1, <2>2
  <2> QED BY <2>3, <2>4, <2>5
\* A command that is carried out sends what it was for, and then its outcome.
<1>13. ASSUME NEW e \in Message, events' = events \o <<e, done>>, Connected' = Connected,
              \/ e.kind = "configuration" /\ configuration' = {e.of}
              \/ e.kind = "theme" /\ configuration' = configuration
       PROVE  /\ OutcomesOK(events', operation, FALSE) /\ FormOK(events', config, configuration')
              /\ SampleLine(events', Connected')
  <2> DEFINE q == Append(events, e)
  <2>1. q \in Seq(Message) /\ events' = Append(q, done)
    BY <1>1, <1>3, <1>13, EmitTwo, AppendFacts
  <2>2. SampleLine(q, Connected)
    BY <1>2, <1>5, <1>6, <1>13
  <2>3. FormOK(q, config, configuration')
    BY <1>1, <1>13, FormSent, FormQuiet DEF Sources
  <2> HIDE DEF q
  <2>4. OutcomesOK(events', operation, FALSE)
    BY <1>3, <2>1, OutcomesEnded DEF Ends
  <2>5. FormOK(events', config, configuration')
    BY <1>3, <2>1, <2>3, FormQuiet DEF Sources
  <2>6. SampleLine(events', Connected')
    BY <1>3, <1>6, <1>13, <2>1, <2>2, LineQuiet
  <2> QED BY <2>4, <2>5, <2>6
<1>14. CASE ApplyConfiguration \/ ReloadConfiguration
  <2> DEFINE e == Event("configuration", edition')
  <2>1. edition' = edition + 1 /\ configuration' = {edition'} /\ Connected' = Connected
    BY <1>14 DEF ApplyConfiguration, ReloadConfiguration, Go, Connected
  <2>2. e \in Message /\ e.kind = "configuration" /\ e.of = edition'
    BY <1>1, <2>1, EventKinds DEF Event
  <2>3. events' = events \o <<e, done>>
    BY <1>14 DEF ApplyConfiguration, ReloadConfiguration, Go, Emit, done
  <2> HIDE DEF e
  <2> QED BY <1>13, <2>1, <2>2, <2>3
<1>15. CASE hand.slot \in ThemeSlots /\ ThemeAsset
  <2> DEFINE e == Event("theme", hand.slot)
  <2>1. configuration' = configuration /\ Connected' = Connected
    BY <1>15 DEF ThemeAsset, Go, Connected
  <2>2. e \in Message /\ e.kind = "theme"
    BY <1>15, EventKinds DEF Event
  <2>3. events' = events \o <<e, done>>
    BY <1>15 DEF ThemeAsset, Go, Emit, done
  <2> HIDE DEF e
  <2> QED BY <1>13, <2>1, <2>2, <2>3
<1> QED BY CallCases, <1>7, <1>8, <1>9, <1>10, <1>11, <1>12, <1>14, <1>15 DEF Connected

LEMMA TakeCommandWork ==
    ASSUME KindsOK, WorkOK, OutcomesOK(events, operation, Busy),
           FormOK(events, config, configuration), SamplesOK, Tick \/ TakeCommand
    PROVE  /\ WorkOK' /\ OutcomesOK(events', operation, Busy')
           /\ FormOK(events', config, configuration) /\ SampleLine(events', Connected')
<1>1. events \in Seq(Message) /\ commands \in Seq(Request)
  BY DEF KindsOK, QueueKinds
<1>2. job = <<>> /\ hand = Nothing /\ ~Busy
  <2>1. job = <<>> /\ hand = Nothing
    BY DEF WorkOK, Tick, TakeCommand
  <2> QED BY <2>1, RequestKinds DEF Busy
<1>3. connection' = "none" => sessionId' = {}
  BY DEF WorkOK, Tick, TakeCommand, Connect
<1>4. /\ SampleLine(events, Connected) /\ Connected \in BOOLEAN /\ Connected' \in BOOLEAN
      /\ Connected' => Connected
  <2>1. SampleLine(events, Connected)
    BY LineOfSamples DEF Connected
  <2>2. sessionId' = sessionId /\ (connection = "none" => sessionId = {})
        /\ (connection' = connection \/ (connection = "none" /\ connection' = "live"))
    BY DEF WorkOK, Tick, TakeCommand, Connect
  <2> QED BY <2>1, <2>2 DEF Connected
<1>5. CASE events' = events
  <2>1. OutcomesOK(events', operation, FALSE) /\ FormOK(events', config, configuration)
    BY <1>2, <1>5 DEF Busy
  <2>2. SampleLine(events', Connected')
    BY <1>4, <1>5 DEF SampleLine
  <2>3. ASSUME hand'.kind \in {"none", "refresh"}, job' \in {<<"status">>, <<"status", "force">>}
        PROVE  WorkOK' /\ Busy' = FALSE
    <3>1. Busy' = FALSE
      BY <2>3 DEF Busy
    <3>2. job' \in Seq(Reads) /\ job' # <<>> /\ \A i \in DOMAIN job' : job'[i] # "telemetry"
      <4>1. CASE job' = <<"status">>
        BY <4>1 DEF Reads
      <4>2. CASE job' = <<"status", "force">>
        BY <4>2 DEF Reads
      <4> QED BY <2>3, <4>1, <4>2
    <3> QED BY <1>3, <3>1, <3>2 DEF WorkOK
  <2>4. CASE Tick
    <3>1. hand'.kind = "none" /\ job' = <<"status">>
      BY <1>2, <2>4, RequestKinds DEF Tick
    <3> QED BY <2>1, <2>2, <2>3, <3>1
  <2>5. CASE TakeCommand
    <3>1. hand'.kind = "refresh" /\ job' = <<"status", "force">>
      <4>1. ASSUME hand'.kind # "refresh" PROVE FALSE
        <5>1. events' = events \o <<Outcome("running")>>
          BY <2>5, <4>1 DEF TakeCommand, Emit
        <5>2. events' = Append(events, Outcome("running"))
          BY <1>1, <5>1, EmitOne, EventKinds
        <5>3. Len(events') = Len(events) + 1 /\ Len(events) \in Nat
          BY <1>1, <5>2, AppendFacts, EventKinds
        <5> QED BY <1>5, <5>3
      <4> QED BY <2>5, <4>1 DEF TakeCommand
    <3> QED BY <2>1, <2>2, <2>3, <3>1
  <2> QED BY <2>4, <2>5
<1>6. CASE events' # events
  <2> DEFINE e == Outcome("running")
  <2>1. /\ hand' \in Request /\ hand'.kind # "refresh" /\ job' = <<hand'.kind>>
        /\ events' = events \o <<e>>
    <3>1. commands # <<>> /\ hand' = Head(commands)
      BY <1>6 DEF Tick, TakeCommand
    <3>2. hand' \in Request
      BY <1>1, <3>1, TailFacts
    <3> QED BY <1>6, <3>2 DEF Tick, TakeCommand, Emit
  <2>2. e \in Message /\ e.kind = "operation" /\ e.kind \notin Sources /\ e.kind # "telemetry"
    BY EventKinds DEF Outcome, Event, Sources
  <2> HIDE DEF e
  <2>3. events' = Append(events, e)
    BY <1>1, <2>1, <2>2, EmitOne
  <2>4. hand'.kind \in {"apply", "reload", "read", "write"} /\ Busy'
    BY <2>1, RequestKinds DEF Busy
  <2>5. WorkOK'
    <3>1. job' # <<>> /\ ~\E i \in DOMAIN job' : job'[i] = "telemetry"
      BY <2>1, <2>4
    <3> QED BY <1>3, <2>1, <2>4, <3>1 DEF WorkOK
  <2>6. OutcomesOK(events', operation, Busy')
    BY <2>4 DEF OutcomesOK
  <2>7. FormOK(events', config, configuration)
    BY <1>1, <2>2, <2>3, FormQuiet
  <2>8. SampleLine(events', Connected')
    BY <1>1, <1>4, <2>2, <2>3, LineQuiet
  <2> QED BY <2>5, <2>6, <2>7, <2>8
<1> QED BY <1>5, <1>6

--------------------------------------------------------------------------------
\* What a step of the daemon leaves as it was.

LEMMA PollSamples ==
    ASSUME KindsOK, SamplesOK, Poll
    PROVE  SamplesOK'
<1>1. /\ events \in Seq(Message) /\ produced \in Nat /\ sequence \in Nat /\ newest \in Nat
      /\ graph \in Buffer
  BY DEF KindsOK, QueueKinds, DaemonKinds, GraphKinds
<1>2. UNCHANGED <<events, graph, newest, connection, sessionId>>
  BY DEF Poll, worker, display
<1>3. PICK u : telemetry' = {u} /\ u.id = produced + 1 /\ u.sequence = sequence + 1
               /\ produced' = produced + 1 /\ sequence' = sequence + 1
  BY DEF Poll
<1>4. \A i \in DOMAIN events : \A t \in Brought(events[i]) :
         t \in Reading /\ t.id \in Nat /\ t.sequence \in Nat /\ t.id <= produced
  <2>1. \A i \in DOMAIN events : events[i] \in Message
    BY <1>1
  <2> QED BY <2>1, BroughtIsReading DEF SamplesOK, Taken, Reading
<1>5. Taken(events, produced + 1) /\ newest < u.id /\ newest <= produced
  BY <1>1, <1>3, <1>4 DEF Taken, SamplesOK
<1>6. ASSUME LatestOK(events, graph, newest, telemetry, sequence)
      PROVE  LatestOK(events, graph, newest, {u}, sequence + 1)
  <2>1. ASSUME NEW i \in DOMAIN events, SameRun(events, i, Len(events) + 1),
               NEW t \in Brought(events[i])
        PROVE  t.sequence <= sequence + 1 /\ \A v \in {u} : Before(t, v)
    <3>1. t.sequence <= sequence
      BY <1>6, <2>1 DEF LatestOK
    <3> QED BY <1>1, <1>3, <1>4, <3>1 DEF Before
  <2>2. ASSUME SameRun(events, 0, Len(events) + 1)
        PROVE  /\ \A n \in graph.last_sequence : n <= sequence + 1
               /\ \A v \in {u} : Recorded(graph, newest, v)
    <3>1. \A n \in graph.last_sequence : n \in Nat /\ n <= sequence
      BY <1>1, <1>6, <2>2 DEF LatestOK, Buffer, Partial
    <3>2. \A n \in graph.last_sequence : n < u.sequence
      BY <1>1, <1>3, <3>1
    <3> QED BY <1>1, <1>5, <3>1, <3>2 DEF Recorded
  <2> QED BY <2>1, <2>2 DEF LatestOK
<1>7. InOrder(events) /\ ArrivesOK(events, graph, newest)
  BY DEF SamplesOK
<1>8. newest <= produced + 1 /\ u.id <= produced + 1 /\ u.sequence <= sequence + 1
  BY <1>1, <1>3, <1>5
<1>9. connection = "live" /\ sessionId # {} => LatestOK(events, graph, newest, {u}, sequence + 1)
  BY <1>6 DEF SamplesOK
<1> QED BY <1>2, <1>3, <1>5, <1>7, <1>8, <1>9 DEF SamplesOK

LEMMA MoveSamples ==
    ASSUME KindsOK, SamplesOK, Move
    PROVE  SamplesOK'
<1>1. /\ events \in Seq(Message) /\ sequence \in Nat /\ graph \in Buffer
      /\ \A u \in telemetry : u \in Reading
  BY DEF KindsOK, QueueKinds, DaemonKinds, GraphKinds, Partial
<1>2. UNCHANGED <<events, graph, newest, sessionId, produced>>
  BY DEF Move, display
<1>3. /\ telemetry' = {} \/ (telemetry' = telemetry /\ sequence' = sequence)
      /\ connection' = "live" => /\ connection = "live" /\ sequence' \in Nat
                                 /\ sequence <= sequence'
  <2>1. CASE Unplug \/ Plug
    BY <1>1, <2>1 DEF Unplug, Plug
  <2>2. CASE Restart
    BY <2>2 DEF Restart
  <2>3. CASE OtherClientWrites
    BY <1>1, <2>3 DEF OtherClientWrites
  <2> QED BY <2>1, <2>2, <2>3 DEF Move
<1>4. ASSUME LatestOK(events, graph, newest, telemetry, sequence), connection' = "live"
      PROVE  LatestOK(events, graph, newest, telemetry', sequence')
  <2>1. /\ \A i \in DOMAIN events : \A t \in Brought(events[i]) : t.sequence \in Nat
        /\ \A n \in graph.last_sequence : n \in Nat
    <3>1. \A i \in DOMAIN events : events[i] \in Message
      BY <1>1
    <3> QED BY <1>1, <3>1, BroughtIsReading DEF Reading, Buffer, Partial
  <2>2. \A n \in Nat : n <= sequence => n <= sequence'
    BY <1>1, <1>3, <1>4
  <2>3. telemetry' \subseteq telemetry
    BY <1>3
  <2> QED BY <1>4, <2>1, <2>2, <2>3 DEF LatestOK
<1>5. \A u \in telemetry' : u.id <= produced /\ u.sequence <= sequence'
  BY <1>3 DEF SamplesOK
<1> QED BY <1>2, <1>3, <1>4, <1>5 DEF SamplesOK

--------------------------------------------------------------------------------
\* What a step of the window leaves as it was.

LEMMA ApplyForms ==
    ASSUME KindsOK, OutcomesOK(events, operation, Busy), FormOK(events, config, configuration),
           ApplyEvent
    PROVE  OutcomesOK(events', operation', Busy) /\ FormOK(events', config', configuration)
<1> DEFINE e == Head(events)
<1>1. /\ events \in Seq(Message) /\ operation \in {"running", "done"} /\ Busy \in BOOLEAN
      /\ config \in [loaded : BOOLEAN, dirty : BOOLEAN, base : Nat]
  BY DEF KindsOK, QueueKinds, FormKinds, Busy
<1>2. events # <<>> /\ events' = Tail(events) /\ e \in Message
  BY ApplyCases
<1>3. /\ e.kind \notin Ends => OutcomesOK(Tail(events), operation, Busy)
      /\ OutcomesOK(Tail(events), "done", Busy)
      /\ \A s : e = Outcome(s) => OutcomesOK(Tail(events), s, Busy)
  BY <1>1, <1>2, OutcomesTaken
<1>4. /\ e.kind \notin Sources => FormOK(Tail(events), config, configuration)
      /\ \A f : f.loaded = FALSE => FormOK(Tail(events), f, configuration)
      /\ \A f : e.kind = "configuration" /\ f.base = e.of => FormOK(Tail(events), f, configuration)
  BY <1>1, <1>2, FormTaken
<1>5. CASE e.kind = "offline" /\ ApplyOffline
  <2>1. operation' = "done" /\ config'.loaded = FALSE
    BY <1>1, <1>5 DEF ApplyOffline
  <2> QED BY <1>2, <1>3, <1>4, <2>1
<1>6. CASE e.kind = "session" /\ ResetWindow
  <2>1. operation' = operation /\ config'.loaded = FALSE /\ e.kind \notin Ends
    BY <1>1, <1>6 DEF ResetWindow, Ends
  <2> QED BY <1>2, <1>3, <1>4, <2>1
<1>7. CASE e.kind \in {"status", "telemetry", "theme"} /\ UNCHANGED <<operation, config>>
  <2>1. e.kind \notin Ends /\ e.kind \notin Sources
    BY <1>7 DEF Ends, Sources
  <2> QED BY <1>2, <1>3, <1>4, <1>7, <2>1
<1>8. CASE e.kind = "configuration" /\ ApplyConfigurationEvent(e.of)
  <2>1. operation' = operation /\ config'.base = e.of /\ e.kind \notin Ends
    BY <1>8 DEF ApplyConfigurationEvent, Ends
  <2> QED BY <1>2, <1>3, <1>4, <1>8, <2>1
<1>9. CASE e.kind = "operation" /\ operation' = e.of /\ UNCHANGED config
  <2>1. e = Outcome(e.of) /\ e.kind \notin Sources
    BY <1>2, <1>9 DEF Message, Outcome, Event, Sources
  <2> QED BY <1>2, <1>3, <1>4, <1>9, <2>1
<1>10. \A t : ApplyTelemetry(t) => UNCHANGED <<operation, config>>
  BY DEF ApplyTelemetry
<1>11. \A slot : ApplyTheme(slot) => UNCHANGED <<operation, config>>
  BY DEF ApplyTheme
<1> QED BY ApplyCases, <1>5, <1>6, <1>7, <1>8, <1>9, <1>10, <1>11

LEMMA ApplySamples ==
    ASSUME KindsOK, SamplesOK, GraphOK, SamplesAreNew, ApplyEvent
    PROVE  SamplesOK' /\ GraphOK' /\ SamplesAreNew'
<1> DEFINE e == Head(events)
           q == Tail(events)
<1>1. /\ events \in Seq(Message) /\ graph \in Buffer /\ newest \in Nat /\ cleared \in Nat
      /\ telemetry \in SUBSET Reading
  BY DEF KindsOK, QueueKinds, GraphKinds, DaemonKinds, Partial
<1>2. events # <<>> /\ events' = q /\ e \in Message
  BY ApplyCases
<1>3. UNCHANGED <<telemetry, sequence, produced, connection, sessionId>>
  BY ApplyCases DEF daemon, worker
<1>4. /\ InOrder(events) /\ ArrivesOK(events, graph, newest)
      /\ Connected => LatestOK(events, graph, newest, telemetry, sequence)
      /\ Taken(events, produced) /\ newest <= produced
      /\ \A u \in telemetry : u.id <= produced /\ u.sequence <= sequence
  BY DEF SamplesOK, Connected
<1>5. InOrder(q) /\ Taken(q, produced)
  BY <1>1, <1>2, <1>4, OrderTaken, TakenTaken
\* Enough for the queue, when the graph is g and its newest sample last.
<1>6. ASSUME ArrivesOK(q, graph', newest'),
             Connected => LatestOK(q, graph', newest', telemetry, sequence), newest' <= produced
      PROVE  SamplesOK'
  BY <1>2, <1>3, <1>4, <1>5, <1>6 DEF SamplesOK, Connected
<1>7. ASSUME e.kind # "session", UNCHANGED <<graph, newest, cleared>>
      PROVE  SamplesOK' /\ GraphOK' /\ SamplesAreNew'
  <2>1. ArrivesOK(q, graph, newest)
    BY <1>1, <1>2, <1>4, <1>7, ArrivesTaken
  <2>2. Connected => LatestOK(q, graph, newest, telemetry, sequence)
    BY <1>1, <1>2, <1>4, <1>7, LatestTaken
  <2> QED BY <1>4, <1>6, <1>7, <2>1, <2>2 DEF GraphOK, SamplesAreNew
<1>8. CASE e.kind = "session" /\ ResetWindow
  <2>1. /\ graph' = ResetSession(graph) /\ newest' = newest /\ cleared' = 0
        /\ graph'.samples = <<>> /\ graph'.session_id = {} /\ graph'.last_sequence = {}
    BY <1>1, <1>8, ResetIsBuffer DEF ResetWindow
  <2>2. ArrivesOK(q, graph', newest')
    BY <1>1, <1>2, <1>4, <2>1, ArrivesTaken
  <2>3. Connected => LatestOK(q, graph', newest', telemetry, sequence)
    BY <1>1, <1>2, <1>4, <2>1, LatestTaken
  <2>4. SamplesOK'
    BY <1>4, <1>6, <2>1, <2>2, <2>3
  <2>5. GraphOK'
    BY <1>1, <2>1 DEF GraphOK
  <2>6. SamplesAreNew'
    BY <2>1 DEF SamplesAreNew
  <2> QED BY <2>4, <2>5, <2>6
<1>9. ASSUME NEW t \in Reading, e.kind = "telemetry", e.of = {t}, ApplyTelemetry(t)
      PROVE  SamplesOK' /\ GraphOK' /\ SamplesAreNew'
  <2>1. Brought(e) = {t} /\ t.id <= produced
    <3>1. Brought(e) = {t}
      BY <1>9 DEF Brought
    <3>2. e = events[1] /\ 1 \in DOMAIN events
      BY <1>1, <1>2, TailFacts
    <3> QED BY <1>4, <3>1, <3>2 DEF Taken
  <2>2. Recorded(graph, newest, t)
    <3>1. e = events[1] /\ 1 \in DOMAIN events /\ \A k \in DOMAIN events : k \in Nat
      BY <1>1, <1>2, TailFacts
    <3>2. SameRun(events, 0, 1)
      <4>1. \A k \in Nat : ~(0 < k /\ k < 1)
        OBVIOUS
      <4> QED BY <3>1, <4>1 DEF SameRun
    <3> QED BY <1>4, <2>1, <3>1, <3>2 DEF ArrivesOK
  <2>3. CASE Duplicate(graph, t)
    <3>1. UNCHANGED <<graph, newest, cleared>>
      BY <1>9, <2>3 DEF ApplyTelemetry
    <3> QED BY <1>7, <1>9, <3>1
  <2>4. CASE ~Duplicate(graph, t)
    <3>1. graph' = Record(graph, t) /\ newest' = t.id /\ cleared' = cleared
      BY <1>9, <2>4 DEF ApplyTelemetry
    <3>2. Newest(graph', newest', t)
      BY <1>1, <3>1, RecordIsNewest
    <3>3. ArrivesOK(q, graph', newest')
      BY <1>1, <1>2, <1>4, <2>1, <3>2, ArrivesTaken
    <3>4. Connected => LatestOK(q, graph', newest', telemetry, sequence)
      BY <1>1, <1>2, <1>4, <2>1, <3>2, LatestTaken
    <3>5. SamplesOK'
      BY <1>6, <2>1, <3>1, <3>3, <3>4
    <3>6. GraphOK' /\ SamplesAreNew'
      BY <2>2, <2>4, <3>1, SamplesAfterRecord
    <3> QED BY <3>5, <3>6
  <2> QED BY <2>3, <2>4
<1>10. \A slot : ApplyTheme(slot) => UNCHANGED <<graph, newest, cleared>>
  BY DEF ApplyTheme, display
<1>11. \A of : ApplyConfigurationEvent(of) => UNCHANGED <<graph, newest, cleared>>
  BY DEF ApplyConfigurationEvent, display
<1>12. ApplyOffline => UNCHANGED <<graph, newest, cleared>>
  BY DEF ApplyOffline, display
<1>13. UNCHANGED display => UNCHANGED <<graph, newest, cleared>>
  BY DEF display
<1>14. \/ e.kind = "session" /\ ResetWindow
       \/ e.kind # "session" /\ UNCHANGED <<graph, newest, cleared>>
       \/ e.kind = "telemetry" /\ \E t \in Reading : e.of = {t} /\ ApplyTelemetry(t)
  BY ApplyCases, <1>10, <1>11, <1>12, <1>13
<1> QED BY <1>7, <1>8, <1>9, <1>14

LEMMA ClearSamples ==
    ASSUME KindsOK, SamplesOK, GraphOK, SamplesAreNew, ChangeGraph
    PROVE  SamplesOK' /\ GraphOK' /\ SamplesAreNew'
<1>1. newest \in Nat /\ cleared \in Nat /\ GraphKinds
  BY DEF KindsOK, GraphKinds
<1>2. /\ UNCHANGED <<daemon, worker, events, newest>>
      /\ graph'.session_id = graph.session_id /\ graph'.last_sequence = graph.last_sequence
      /\ graph'.last_observed = graph.last_observed
      /\ \/ graph'.samples = graph.samples /\ UNCHANGED cleared
         \/ /\ graph'.samples = <<>>
            /\ cleared' = (IF graph.session_id = {} THEN cleared ELSE newest)
  BY <1>1, ChangeGraphKept
<1>3. \A t : Recorded(graph', newest, t) <=> Recorded(graph, newest, t)
  BY <1>2 DEF Recorded
<1>4. SamplesOK'
  <2>1. UNCHANGED <<events, newest, telemetry, sequence, produced, connection, sessionId>>
    BY <1>2 DEF daemon, worker
  <2>2. ArrivesOK(events, graph', newest)
    BY <1>3 DEF SamplesOK, ArrivesOK
  <2>3. connection = "live" /\ sessionId # {} =>
           LatestOK(events, graph', newest, telemetry, sequence)
    BY <1>2, <1>3 DEF SamplesOK, LatestOK
  <2> QED BY <2>1, <2>2, <2>3 DEF SamplesOK
<1>5. GraphOK' /\ SamplesAreNew'
  <2>1. CASE graph'.samples = graph.samples /\ UNCHANGED cleared
    BY <1>2, <2>1 DEF GraphOK, SamplesAreNew
  <2>2. CASE /\ graph'.samples = <<>>
             /\ cleared' = (IF graph.session_id = {} THEN cleared ELSE newest)
    <3>1. SamplesAreNew'
      BY <2>2 DEF SamplesAreNew
    <3>2. GraphOK'
      BY <1>1, <1>2, <2>2 DEF GraphOK
    <3> QED BY <3>1, <3>2
  <2> QED BY <1>2, <2>1, <2>2
<1> QED BY <1>4, <1>5

--------------------------------------------------------------------------------
\* The inductive invariant.

LEMMA Start ==
    ASSUME Init
    PROVE  Inductive
<1>1. KindsOK /\ WorkOK
  BY KindsStart
<1>2. events = <<>> /\ DOMAIN events = {}
  <2>1. events = <<>>
    BY DEF Init
  <2> QED BY <2>1
<1>3. /\ operation = "done" /\ config.loaded = FALSE /\ telemetry = {} /\ newest = 0
      /\ produced = 0 /\ cleared = 0 /\ connection = "none"
  BY DEF Init
<1>4. graph.samples = <<>> /\ graph.session_id = {} /\ graph.last_sequence = {}
  <2>1. PICK v \in Views : graph = Fresh(v)
    BY DEF Init
  <2> QED BY <2>1 DEF Fresh
<1>5. OutcomesOK(events, operation, Busy) /\ FormOK(events, config, configuration)
  BY <1>2, <1>3 DEF OutcomesOK, FormOK
<1>6. SamplesOK
  BY <1>2, <1>3 DEF SamplesOK, InOrder, ArrivesOK, Taken
<1>7. GraphOK
  BY <1>3, <1>4 DEF GraphOK
<1>8. SamplesAreNew
  BY <1>4 DEF SamplesAreNew
<1> QED BY <1>1, <1>5, <1>6, <1>7, <1>8 DEF Inductive

\* What neither the queue nor the graph is concerned with.
LEMMA SamplesUntouched ==
    ASSUME SamplesOK, GraphOK, SamplesAreNew,
           UNCHANGED <<telemetry, sequence, produced, connection, sessionId, events,
                       graph, newest, cleared>>
    PROVE  SamplesOK' /\ GraphOK' /\ SamplesAreNew'
BY DEF SamplesOK, GraphOK, SamplesAreNew

LEMMA Kept ==
    ASSUME Inductive, [Next]_vars
    PROVE  Inductive'
<1>1. /\ KindsOK /\ WorkOK /\ OutcomesOK(events, operation, Busy)
      /\ FormOK(events, config, configuration) /\ SamplesOK /\ GraphOK /\ SamplesAreNew
  BY DEF Inductive
<1>2. KindsOK'
  BY <1>1, KindsKept
<1> DEFINE Rest == /\ WorkOK' /\ OutcomesOK(events', operation', Busy')
                   /\ FormOK(events', config', configuration')
                   /\ SamplesOK' /\ GraphOK' /\ SamplesAreNew'
<1>3. UNCHANGED <<job, hand, sessionId, connection>> => WorkOK' /\ Busy' = Busy
  BY <1>1 DEF WorkOK, Busy
<1>4. ASSUME Poll \/ Move
      PROVE  Rest
  <2>1. UNCHANGED <<job, hand, sessionId, configuration, events, operation, config, graph,
                    newest, cleared>>
    BY <1>4 DEF Poll, Move, worker, display, forms
  <2>2. SamplesOK'
    BY <1>1, <1>4, PollSamples, MoveSamples
  <2>3. WorkOK'
    <3>1. connection' = "none" => connection = "none"
      BY <1>4 DEF Poll, Move, worker, Unplug, Plug, Restart, OtherClientWrites
    <3> QED BY <1>1, <2>1, <3>1 DEF WorkOK, Busy
  <2>4. GraphOK' /\ SamplesAreNew'
    BY <1>1, <2>1 DEF GraphOK, SamplesAreNew
  <2>5. OutcomesOK(events', operation', Busy') /\ FormOK(events', config', configuration')
    BY <1>1, <2>1 DEF Busy
  <2> QED BY <2>2, <2>3, <2>4, <2>5
\* The worker sends to the queue, and the window's part stays.
<1>5. ASSUME SampleLine(events', Connected'), GraphOK, SamplesAreNew,
             UNCHANGED <<telemetry, sequence, produced, display>>
      PROVE  SamplesOK' /\ GraphOK' /\ SamplesAreNew'
  <2>1. UNCHANGED <<telemetry, sequence, produced, graph, newest, cleared>>
    BY <1>5 DEF display
  <2>2. SamplesOK'
    BY <1>1, <1>5, <2>1 DEF SamplesOK, SampleLine, Connected
  <2> QED BY <1>5, <2>1, <2>2 DEF GraphOK, SamplesAreNew
<1>6. ASSUME Call
      PROVE  Rest
  <2>1. WorkOK' /\ Busy' = FALSE
    BY <1>1, <1>6, CallWork DEF Busy
  <2>2. UNCHANGED <<telemetry, sequence, produced, display, operation, config>>
    BY <1>6 DEF Call, forms
  <2>3. /\ OutcomesOK(events', operation, FALSE) /\ FormOK(events', config, configuration')
        /\ SampleLine(events', Connected')
    BY <1>1, <1>6, CallSends
  <2>4. SamplesOK' /\ GraphOK' /\ SamplesAreNew'
    BY <1>1, <1>5, <2>2, <2>3
  <2> QED BY <2>1, <2>2, <2>3, <2>4
<1>7. ASSUME Tick \/ TakeCommand
      PROVE  Rest
  <2>1. UNCHANGED <<telemetry, sequence, produced, display, operation, config, configuration>>
    BY <1>7 DEF Tick, TakeCommand, daemon, forms
  <2>2. /\ WorkOK' /\ OutcomesOK(events', operation, Busy')
        /\ FormOK(events', config, configuration) /\ SampleLine(events', Connected')
    BY <1>1, <1>7, TakeCommandWork
  <2>3. SamplesOK' /\ GraphOK' /\ SamplesAreNew'
    BY <1>1, <1>5, <2>1, <2>2
  <2> QED BY <2>1, <2>2, <2>3
<1>8. ASSUME ApplyEvent
      PROVE  Rest
  <2>1. UNCHANGED <<job, hand, sessionId, connection, configuration>>
    BY <1>1, <1>8, ApplyCases DEF worker
  <2>2. OutcomesOK(events', operation', Busy) /\ FormOK(events', config', configuration)
    BY <1>1, <1>8, ApplyForms
  <2>3. SamplesOK' /\ GraphOK' /\ SamplesAreNew'
    BY <1>1, <1>8, ApplySamples
  <2> QED BY <1>3, <2>1, <2>2, <2>3
<1>9. ASSUME \E p \in Pages : Show(p)
      PROVE  Rest
  <2>1. UNCHANGED <<daemon, worker, events, graph, newest, cleared, forms>>
    BY <1>9 DEF Show
  <2> QED BY <1>1, <1>3, <2>1, SamplesUntouched DEF daemon, worker, forms
<1>10. ASSUME ChangeGraph
       PROVE  Rest
  <2>1. UNCHANGED <<worker, events, forms>>
    BY <1>10 DEF ChangeGraph
  <2>2. SamplesOK' /\ GraphOK' /\ SamplesAreNew'
    BY <1>1, <1>10, ClearSamples
  <2> QED BY <1>1, <1>3, <2>1, <2>2 DEF worker, forms
<1>11. ASSUME UseForms
       PROVE  Rest
  <2>1. /\ UNCHANGED <<daemon, worker, events, display>> /\ UNCHANGED operation
        /\ config'.loaded = config.loaded /\ config'.base = config.base
    BY <1>1, <1>11, UseFormsKept DEF KindsOK
  <2>2. FormOK(events', config', configuration')
    BY <1>1, <2>1 DEF FormOK, worker
  <2> QED BY <1>1, <1>3, <2>1, <2>2, SamplesUntouched DEF daemon, worker, display
<1>12. ASSUME UNCHANGED vars
       PROVE  Rest
  <2>1. UNCHANGED <<daemon, worker, events, display, forms>>
    BY <1>12 DEF vars
  <2> QED BY <1>1, <1>3, <2>1, SamplesUntouched DEF daemon, worker, display, forms
<1>13. Rest
  BY <1>4, <1>6, <1>7, <1>8, <1>9, <1>10, <1>11, <1>12 DEF Next, Worker, User
<1> QED BY <1>2, <1>13 DEF Inductive

\* The inductive invariant holds: what is on its way to the window agrees with the worker,
\* the daemon and what the window has already taken (app.rs:711-778, client.rs:379-457,
\* graph.rs:233-282).
THEOREM InductiveHolds == Spec => []Inductive
<1>1. Init => Inductive
  BY Start
<1>2. Inductive /\ [Next]_vars => Inductive'
  BY Kept
<1> QED BY <1>1, <1>2, PTL DEF Spec

--------------------------------------------------------------------------------
\* What follows from it.

\* The user's page and the bounded counters.
LEMMA PageAndCounters ==
    ASSUME page \in Pages, uses \in Nat, moves \in Nat, [Next]_vars
    PROVE  page' \in Pages /\ uses' \in Nat /\ moves' \in Nat
<1>1. CASE Poll \/ Worker \/ ApplyEvent \/ ChangeGraph \/ UNCHANGED vars
  <2>1. CASE Poll \/ Tick \/ TakeCommand \/ UNCHANGED vars
    BY <2>1 DEF Poll, Tick, TakeCommand, vars
  <2>2. CASE Call
    BY <2>2 DEF Call
  <2>3. CASE ApplyEvent
    BY <2>3 DEF ApplyEvent
  <2>4. CASE ChangeGraph
    BY <2>4 DEF ChangeGraph
  <2> QED BY <1>1, <2>1, <2>2, <2>3, <2>4 DEF Worker
<1>2. CASE Move
  BY <1>2 DEF Move
<1>3. CASE \E p \in Pages : Show(p)
  BY <1>3 DEF Show
<1>4. CASE UseForms
  BY <1>4 DEF UseForms, Answer
<1> QED BY <1>1, <1>2, <1>3, <1>4 DEF Next, User

\* Type correctness: among other things the buffer of the graph, the queue of events and
\* the command in hand are what their readers take them for, for any bounds
\* (app.rs:711-778, client.rs:460-557).
THEOREM TypeOKHolds == Spec => []TypeOK
<1>1. Init => TypeOK
  <2>1. Init => KindsOK
    BY Start DEF Inductive
  <2>2. Init => page \in Pages /\ uses = 0 /\ moves = 0
    BY DEF Init
  <2> QED BY <2>1, <2>2 DEF TypeOK
<1>2. Inductive /\ TypeOK /\ [Next]_vars => TypeOK'
  BY Kept, PageAndCounters DEF Inductive, TypeOK
<1> QED BY <1>1, <1>2, InductiveHolds, PTL DEF Spec


\* The samples of the graph are of one session, in the order in which they were taken, at
\* increasing times, and none that a clear removed comes back (graph.rs:233-282).
THEOREM SamplesAreNewHolds == Spec => []SamplesAreNew
<1>1. Inductive => SamplesAreNew
  BY DEF Inductive
<1> QED BY <1>1, InductiveHolds, PTL

\* The form that is said to show the active settings does, once what is on its way has
\* arrived (app.rs:759-761, 1273-1276, client.rs:408-416).
THEOREM FormIsTrueHolds == Spec => []FormIsTrue
<1>1. Inductive => FormIsTrue
  <2> SUFFICES ASSUME Inductive, config.loaded, Settles("configuration"), Settles("session")
               PROVE  configuration = {config.base}
    BY DEF FormIsTrue
  <2>1. \A k \in DOMAIN events : events[k].kind \notin Sources
    BY DEF Settles, Sources
  <2> QED BY <2>1 DEF Inductive, FormOK
<1> QED BY <1>1, InductiveHolds, PTL

\* The operation that is shown as running is in the worker's hands, or its end is on the
\* way (client.rs:841-852, app.rs:746-748).
THEOREM RunningEndsHolds == Spec => []RunningEnds
<1>1. Inductive => RunningEnds
  <2> SUFFICES ASSUME Inductive, operation = "running"
               PROVE  Busy \/ \E i \in DOMAIN events : events[i].kind \in Ends
    BY DEF RunningEnds, Busy, Ends
  <2> QED BY DEF Inductive, OutcomesOK
<1> QED BY <1>1, InductiveHolds, PTL

\* The page that is shown is drawn from what is recorded, unless it is paused, whatever
\* pages, samples, sessions and views came in between (app.rs:357-437, 862-874).
THEOREM GraphIsCurrentHolds == Spec => []GraphIsCurrent
<1>1. Init => GraphIsCurrent
  BY DEF Init, GraphIsCurrent
<1>2. ASSUME Inductive, GraphIsCurrent, [Next]_vars
      PROVE  GraphIsCurrent'
  <2>1. KindsOK /\ graph \in Buffer
    BY <1>2 DEF Inductive, KindsOK, GraphKinds
  <2>2. UNCHANGED <<page, graph, drawn, overview>> => GraphIsCurrent'
    BY <1>2 DEF GraphIsCurrent
  <2>3. CASE Poll \/ Move \/ Worker \/ UseForms \/ UNCHANGED vars
    <3>1. UNCHANGED <<page, display>>
      BY <2>3 DEF Poll, Move, Worker, Call, Tick, TakeCommand, UseForms, vars
    <3> QED BY <2>2, <3>1 DEF display
  <2>4. CASE ApplyEvent
    <3>1. page' = page
      BY <2>1, <2>4, ApplyCases
    <3>2. CASE ResetWindow
      BY <3>2 DEF ResetWindow, RenderGraph, RenderOverview, GraphIsCurrent
    <3>3. ASSUME NEW t \in Reading, ApplyTelemetry(t)
          PROVE  GraphIsCurrent'
      <4>1. CASE Duplicate(graph, t)
        BY <2>2, <3>1, <3>3, <4>1 DEF ApplyTelemetry
      <4>2. CASE ~Duplicate(graph, t)
        <5>1. graph' = Record(graph, t) /\ graph'.paused = graph.paused
          BY <2>1, <3>3, <4>2, RecordFacts DEF ApplyTelemetry
        <5>2. page = "graphs" /\ ~graph.paused => drawn' = Frame(graph')
          BY <3>3, <4>2 DEF ApplyTelemetry, RenderGraph
        <5>3. page = "overview" => overview' = OverviewFrame(graph')
          BY <3>3, <4>2 DEF ApplyTelemetry
        <5> QED BY <3>1, <5>1, <5>2, <5>3 DEF GraphIsCurrent
      <4> QED BY <4>1, <4>2
    <3>4. CASE ~ResetWindow /\ ~\E t \in Reading : ApplyTelemetry(t)
      <4>1. /\ ApplyOffline => UNCHANGED display
            /\ \A of : ApplyConfigurationEvent(of) => UNCHANGED display
            /\ \A slot : ApplyTheme(slot) => UNCHANGED display
        BY DEF ApplyOffline, ApplyConfigurationEvent, ApplyTheme
      <4>2. UNCHANGED display
        BY <2>1, <2>4, <3>4, <4>1, ApplyCases
      <4> QED BY <2>2, <3>1, <4>2 DEF display
    <3> QED BY <3>2, <3>3, <3>4
  <2>5. ASSUME NEW p \in Pages, Show(p)
        PROVE  GraphIsCurrent'
    BY <1>2, <2>5 DEF Show, GraphIsCurrent
  <2>6. CASE ChangeGraph
    <3>1. page = "graphs" /\ page' = page /\ drawn' = Frame(graph')
      BY <2>6 DEF ChangeGraph, UpdateGraph, RenderGraph
    <3> QED BY <3>1 DEF GraphIsCurrent
  <2> QED BY <1>2, <2>3, <2>4, <2>5, <2>6 DEF Next, User
<1> QED BY <1>1, <1>2, InductiveHolds, PTL DEF Spec
================================================================================
