---------------------------- MODULE ManagerProofs ----------------------------
(***************************************************************************)
(* Proofs about Manager, for every value of its constants: the inductive   *)
(* invariant Inductive, and what follows from it; then sessions, the truth *)
(* of the recorded pause, and the refinement of DisplayPause.              *)
(***************************************************************************)
EXTENDS Manager, TLAPS

--------------------------------------------------------------------------------
\* Facts about the constants and the helpers.

\* No dump has no id and no lease.
LEMMA NoDumpFacts ==
    /\ NoDump \in [id : Nat, session : Nat, lease : Timer]
    /\ NoDump.id = 0 /\ NoDump.lease = Off
BY DEF NoDump, Timer, Off

\* No retry has no port and no due time.
LEMMA NoRetryFacts ==
    /\ NoRetry \in [port : PortOrNone, attempt : 0..8, wait : Timer]
    /\ NoRetry.port = NoPort /\ NoRetry.wait = Never
BY DEF NoRetry, Timer, Off, Never, PortOrNone

\* What the deadlines are taken from are deadlines that are set.
LEMMA TimerFacts ==
    /\ Off \in Timer /\ LeaseTicks \in Timer /\ ResumeRetryTicks \in Timer
    /\ DebugTicks \subseteq Timer
    /\ LeaseTicks # Off /\ ResumeRetryTicks # Off
BY TimesAssumption DEF Timer, Off

\* Nobody owns the display without a dump, a debug lease and an operation.
LEMMA OwnersFacts ==
    Owners = {} <=> ~DumpOpen /\ ~DebugOpen /\ ~Operating
BY DEF Owners

\* Time passing neither sets a deadline nor clears one.
LEMMA ElapseFacts ==
    ASSUME NEW t \in Timer
    PROVE  Elapse(t) \in Timer /\ (Elapse(t) = Off <=> t = Off)
BY DEF Elapse, Timer, Off

\* A call of the backend spends a natural number of upsets.
LEMMA AnswerType ==
    ASSUME OutsideTypeOK, NEW r, Answer(r) PROVE upsets' \in Nat
BY DEF Answer, OutsideTypeOK

\* What a pause that may be needed does.
LEMMA EnsureEffect ==
    ASSUME OutsideTypeOK, DisplayTypeOK, NEW r \in Results, port \in Ports,
           EnsureDisplayPaused(r)
    PROVE  /\ devPaused' \in SUBSET Ports /\ upsets' \in Nat
           /\ r = "ok"  => paused' = TRUE /\ resumeRetry' \in {resumeRetry, Off}
           /\ r = "err" => paused' = paused /\ resumeRetry' = resumeRetry
<1>1. CASE paused
  BY <1>1 DEF EnsureDisplayPaused, NoCall, OutsideTypeOK, DisplayTypeOK
<1>2. CASE ~paused
  <2>1. Send(r, TRUE)
    BY <1>2 DEF EnsureDisplayPaused
  <2>2. devPaused' \in SUBSET Ports /\ upsets' \in Nat
    BY <2>1, AnswerType DEF Send, OutsideTypeOK
  <2> QED BY <1>2, <2>2 DEF EnsureDisplayPaused
<1> QED BY <1>1, <1>2

\* What giving up a lease does: detach, or go on with the owners that remain.
LEMMA ReleaseEffect ==
    ASSUME OutsideTypeOK, DisplayTypeOK,
           NEW d, NEW g, NEW s, NEW ACTION goOn, Release(d, g, s, goOn)
    PROVE  /\ devPaused' \in SUBSET Ports /\ upsets' \in Nat
           /\ \/ Detach /\ paused
              \/ /\ dump' = d /\ debugLease' = g /\ slot' = s /\ goOn
                 /\ paused' \in BOOLEAN /\ resumeRetry' \in Timer
                 /\ d # NoDump \/ g # Off \/ ~paused => paused' = paused
                 /\ d = NoDump /\ g = Off => ~paused' \/ resumeRetry' # Off
                 /\ ~paused => resumeRetry' = Off
<1>1. PICK r \in Results : /\ ResumeDisplayIfUnowned(d, g, r)
                          /\ IF r = "lost" THEN Detach
                             ELSE dump' = d /\ debugLease' = g /\ slot' = s /\ goOn
  BY DEF Release
<1>2. CASE d # NoDump \/ g # Off \/ ~paused
  BY <1>1, <1>2, TimerFacts DEF ResumeDisplayIfUnowned, NoCall, OutsideTypeOK, DisplayTypeOK
<1>3. CASE ~(d # NoDump \/ g # Off \/ ~paused)
  <2>1. Send(r, FALSE)
    BY <1>1, <1>3 DEF ResumeDisplayIfUnowned
  <2>2. devPaused' \in SUBSET Ports /\ upsets' \in Nat
    BY <2>1, AnswerType DEF Send, OutsideTypeOK
  <2> QED BY <1>1, <1>3, <2>2, TimerFacts DEF ResumeDisplayIfUnowned, Results, DisplayTypeOK
<1> QED BY <1>2, <1>3

\* A step that detaches keeps the invariant, whatever it does besides.
LEMMA DetachKeeps ==
    ASSUME Inductive, NEW c \in {"absent", "ambiguous", "connecting"},
           NEW cs \in SUBSET Ports, DetachTo(c, cs),
           TaskTypeOK', HealthTypeOK', OutsideTypeOK', RetryExplained',
           step' \notin PlainOps \union PausedOps \union {"reading"},
           step' = "connect" <=> c = "connecting",
           step' = "connect" => target' \in Ports
    PROVE  Inductive'
<1>1. /\ conn' = c /\ candidates' = cs /\ port' = NoPort /\ fresh' = FALSE
      /\ dump' = NoDump /\ slot' = 0 /\ debugLease' = Off
      /\ paused' = FALSE /\ resumeRetry' = Off
      /\ identity' = identity /\ session' = session /\ sampled' = sampled
  BY DEF DetachTo, DropLeases
<1>2. AttachmentTypeOK'
  BY <1>1 DEF Inductive, TypeOK, AttachmentTypeOK, Connections, PortOrNone
<1>3. DisplayTypeOK'
  BY <1>1, NoDumpFacts, TimerFacts DEF DisplayTypeOK
<1>4. ~DumpOpen' /\ ~DebugOpen' /\ ~Operating'
  BY <1>1 DEF DumpOpen, DebugOpen, Operating, PausedOps
<1>5. BusyMeansOwned' /\ DetachedIsClean' /\ TaskMatchesConnection'
  BY <1>1, <1>4 DEF BusyMeansOwned, DetachedIsClean, TaskMatchesConnection
<1>6. DumpIsCurrent' /\ PauseAccounted'
  <2>1. Owners' = {}
    BY <1>4, OwnersFacts DEF Owners
  <2> QED BY <1>1, <1>4, <2>1, NoDumpFacts DEF DumpIsCurrent, PauseAccounted
<1> QED BY <1>2, <1>3, <1>5, <1>6 DEF Inductive, TypeOK

\* Where a step that is no part of an operation or of a connection attempt may
\* go, or one that leaves the task where it is.
StepsOn == \/ step' = step /\ target' = target
           \/ /\ step \in {"select", "reading"} \union TimerArm
              /\ step' \in {"select", "reading"} \union TimerArm
              /\ step' = "reading" => DumpOpen

\* A step that leaves the attachment alone, and of the leases changes no more
\* than how long they last.
LEMMA LeasesKeep ==
    ASSUME Inductive, UNCHANGED <<attachment, slot, paused, lastDump>>,
           TaskTypeOK', HealthTypeOK', DisplayTypeOK', OutsideTypeOK', RetryExplained',
           dump'.id = dump.id, dump'.session = dump.session, DumpOpen' <=> DumpOpen,
           DumpOpen => dump'.lease # Off, DebugOpen' <=> DebugOpen,
           resumeRetry' = Off <=> resumeRetry = Off,
           port # NoPort => pollFailures' < 3, ~link => ~link', StepsOn
    PROVE  Inductive'
<1>1. /\ conn' = conn /\ candidates' = candidates /\ port' = port /\ fresh' = fresh
      /\ identity' = identity /\ session' = session /\ sampled' = sampled
      /\ slot' = slot /\ paused' = paused /\ lastDump' = lastDump
  BY DEF attachment
<1>2. AttachmentTypeOK'
  BY <1>1 DEF Inductive, TypeOK, AttachmentTypeOK
<1>3. /\ step' \in PlainOps <=> step \in PlainOps
      /\ Operating' <=> Operating
      /\ step' = "connect" <=> step = "connect"
      /\ step' = "connect" => target' = target
      /\ step' = "reading" => DumpOpen
  BY DEF StepsOn, Operating, PlainOps, PausedOps, TimerArm, Inductive, TaskMatchesConnection
<1>4. DumpIsCurrent'
  BY <1>1 DEF Inductive, DumpIsCurrent
<1>5. PauseAccounted'
  <2>1. Owners' = Owners
    BY <1>3 DEF Owners
  <2> QED BY <1>1, <2>1 DEF Inductive, PauseAccounted
<1>6. BusyMeansOwned' /\ DetachedIsClean'
  BY <1>1, <1>3 DEF Inductive, BusyMeansOwned, DetachedIsClean, Operating
<1>7. TaskMatchesConnection'
  BY <1>1, <1>3 DEF Inductive, TaskMatchesConnection, Operating
<1> QED BY <1>2, <1>4, <1>5, <1>6, <1>7 DEF Inductive, TypeOK

\* A step that changes neither the attachment nor the leases.
LEMMA SameKeeps ==
    ASSUME Inductive, UNCHANGED <<attachment, display, lastDump>>,
           TaskTypeOK', HealthTypeOK', OutsideTypeOK', RetryExplained',
           port # NoPort => pollFailures' < 3, ~link => ~link', StepsOn
    PROVE  Inductive'
<1>1. /\ dump' = dump /\ slot' = slot /\ debugLease' = debugLease
      /\ paused' = paused /\ resumeRetry' = resumeRetry
  BY DEF display
<1>2. DisplayTypeOK' /\ (DumpOpen' <=> DumpOpen) /\ (DebugOpen' <=> DebugOpen)
  BY <1>1 DEF Inductive, TypeOK, DisplayTypeOK, DumpOpen, DebugOpen
<1>3. DumpOpen => dump'.lease # Off
  BY <1>1 DEF Inductive, TaskMatchesConnection
<1> QED BY <1>1, <1>2, <1>3, LeasesKeep

--------------------------------------------------------------------------------
\* The initial states satisfy the invariant.
LEMMA InitInductive == Init => Inductive
<1> SUFFICES ASSUME Init PROVE Inductive
  OBVIOUS
<1>1. TaskTypeOK /\ OutsideTypeOK
  <2>1. inbox \in Seq(Message)
    BY DEF Init
  <2>2. step \in Steps /\ target \in PortOrNone /\ lastDump \in Nat
    BY DEF Init, Steps, PortOrNone
  <2> QED BY <2>1, <2>2 DEF Init, TaskTypeOK, OutsideTypeOK
<1>2. AttachmentTypeOK
  BY DEF Init, AttachmentTypeOK, Connections, PortOrNone
<1>3. HealthTypeOK /\ DisplayTypeOK
  <2>1. HealthTypeOK
    BY NoRetryFacts, TimerFacts DEF Init, HealthTypeOK
  <2>2. DisplayTypeOK
    BY NoDumpFacts, TimerFacts DEF Init, DisplayTypeOK
  <2> QED BY <2>1, <2>2
<1>4. ~DumpOpen /\ ~DebugOpen /\ ~Operating
  BY DEF Init, DumpOpen, DebugOpen, Operating, PausedOps
<1>5. Owners = {}
  BY <1>4, OwnersFacts
<1>6. BusyMeansOwned /\ DumpIsCurrent /\ PauseAccounted
  BY <1>4, <1>5, NoDumpFacts
  DEF Init, BusyMeansOwned, DumpIsCurrent, PauseAccounted, PlainOps, PausedOps
<1>7. DetachedIsClean /\ RetryExplained /\ TaskMatchesConnection
  BY <1>4, NoRetryFacts
  DEF Init, DetachedIsClean, RetryExplained, TaskMatchesConnection, PlainOps, PausedOps
<1> QED BY <1>1, <1>2, <1>3, <1>6, <1>7 DEF Inductive, TypeOK

--------------------------------------------------------------------------------
\* Host events keep the invariant.

\* What taking an event off the queue shows.
LEMMA ReceiveEffect ==
    ASSUME TaskTypeOK, NEW kind, Receive(kind)
    PROVE  step = "select" /\ inbox' \in Seq(Message) /\ Observed \in SUBSET Ports
<1>1. step = "select" /\ inbox \in Seq(Message) /\ inbox # <<>> /\ inbox' = Tail(inbox)
  BY DEF Receive, At, TaskTypeOK
<1>2. Head(inbox) \in Message
  BY <1>1
<1> QED BY <1>1, <1>2 DEF Observed, Message

\* A disconnect of an attached device detaches; any other changes the
\* connection alone, to that of a state without a device.
LEMMA DisconnectKeeps ==
    ASSUME Inductive, NEW c \in {"absent", "ambiguous"}, NEW cs \in SUBSET Ports,
           Disconnect(c, cs), TaskTypeOK', HealthTypeOK', OutsideTypeOK',
           RetryExplained', step = "select", step' \in {"select", "stopped"},
           lastDump' = lastDump
    PROVE  Inductive'
<1>1. CASE Attached
  BY <1>1, DetachKeeps DEF Disconnect, PlainOps, PausedOps
<1>2. CASE ~Attached
  <2>1. /\ conn' = c /\ candidates' = cs
        /\ UNCHANGED <<port, link, identity, session, fresh, sampled, display>>
    BY <1>2 DEF Disconnect
  <2>2. port = NoPort /\ conn \notin {"ready", "busy"}
    BY <1>2 DEF Attached
  <2>3. /\ dump' = dump /\ slot' = slot /\ debugLease' = debugLease
        /\ paused' = paused /\ resumeRetry' = resumeRetry
    BY <2>1 DEF display
  <2>4. AttachmentTypeOK' /\ DisplayTypeOK'
    BY <2>1, <2>3 DEF Inductive, TypeOK, AttachmentTypeOK, DisplayTypeOK, Connections
  <2>5. /\ ~DumpOpen /\ ~DebugOpen /\ ~Operating
        /\ ~DumpOpen' /\ ~DebugOpen' /\ ~Operating'
    BY <2>2, <2>3 DEF Inductive, DetachedIsClean, DumpOpen, DebugOpen, Operating, PausedOps
  <2>6. Owners' = {} /\ ~paused'
    BY <2>2, <2>3, <2>5 DEF Inductive, DetachedIsClean, Owners
  <2>7. DumpIsCurrent' /\ PauseAccounted'
    BY <2>3, <2>5, <2>6 DEF Inductive, DumpIsCurrent, PauseAccounted
  <2>8. BusyMeansOwned' /\ DetachedIsClean' /\ TaskMatchesConnection'
    BY <2>1, <2>2, <2>3, <2>5
    DEF Inductive, BusyMeansOwned, DetachedIsClean, TaskMatchesConnection, PlainOps, PausedOps
  <2> QED BY <2>4, <2>7, <2>8 DEF Inductive, TypeOK
<1> QED BY <1>1, <1>2

\* The device is gone.
LEMMA NoCandidateKeeps == ASSUME Inductive, NoCandidate PROVE Inductive'
<1>1. step = "select" /\ inbox' \in Seq(Message)
  BY ReceiveEffect DEF NoCandidate, Inductive, TypeOK
<1>2. Disconnect("absent", {}) /\ step' = step /\ lastDump' = lastDump
  BY DEF NoCandidate
<1>3. TaskTypeOK' /\ OutsideTypeOK'
  <2>1. link' \in BOOLEAN
    BY <1>2 DEF Disconnect, DetachTo, Inductive, TypeOK, OutsideTypeOK
  <2> QED BY <1>1, <2>1 DEF NoCandidate, Inductive, TypeOK, TaskTypeOK, OutsideTypeOK, outside
<1>4. HealthTypeOK'
  BY NoRetryFacts DEF NoCandidate, Inductive, TypeOK, HealthTypeOK, poll
<1>5. RetryExplained'
  <2>1. conn' = "absent" /\ retry' = NoRetry
    BY <1>2 DEF Disconnect, DetachTo, NoCandidate
  <2> QED BY <2>1 DEF RetryExplained
<1> QED BY <1>1, <1>2, <1>3, <1>4, <1>5, DisconnectKeeps

\* More than one device: the manager takes none.
LEMMA SeveralCandidatesKeeps == ASSUME Inductive, SeveralCandidates PROVE Inductive'
<1>1. step = "select" /\ inbox' \in Seq(Message) /\ Observed \in SUBSET Ports
  BY ReceiveEffect DEF SeveralCandidates, Inductive, TypeOK
<1>2. step' = step /\ lastDump' = lastDump /\ retry' = NoRetry
  BY DEF SeveralCandidates
<1>3. HealthTypeOK'
  BY NoRetryFacts DEF SeveralCandidates, Inductive, TypeOK, HealthTypeOK, poll
<1>4. CASE conn = "ambiguous" /\ candidates = Observed
  <2>1. UNCHANGED <<attachment, display>> /\ link' = link /\ conn' = "ambiguous"
    BY <1>4 DEF SeveralCandidates, SameAttachment, attachment
  <2>2. TaskTypeOK' /\ OutsideTypeOK'
    BY <1>1, <2>1 DEF SeveralCandidates, Inductive, TypeOK, TaskTypeOK, OutsideTypeOK, outside
  <2>3. RetryExplained'
    BY <1>2, <2>1 DEF RetryExplained
  <2>4. port # NoPort => pollFailures' < 3
    BY DEF SeveralCandidates, Inductive, TaskMatchesConnection
  <2> QED BY <1>1, <1>2, <1>3, <2>1, <2>2, <2>3, <2>4, SameKeeps DEF StepsOn
<1>5. CASE ~(conn = "ambiguous" /\ candidates = Observed)
  <2>1. Disconnect("ambiguous", Observed)
    BY <1>5 DEF SeveralCandidates
  <2>2. conn' = "ambiguous" /\ link' \in BOOLEAN
    BY <2>1 DEF Disconnect, DetachTo, Inductive, TypeOK, OutsideTypeOK
  <2>3. TaskTypeOK' /\ OutsideTypeOK'
    BY <1>1, <2>2 DEF SeveralCandidates, Inductive, TypeOK, TaskTypeOK, OutsideTypeOK, outside
  <2>4. RetryExplained'
    BY <1>2, <2>2 DEF RetryExplained
  <2> QED BY <1>1, <1>2, <1>3, <2>1, <2>3, <2>4, DisconnectKeeps
<1> QED BY <1>4, <1>5

\* A snapshot that changes nothing.
LEMMA CandidateIgnoredKeeps == ASSUME Inductive, CandidateIgnored PROVE Inductive'
<1>1. step = "select" /\ inbox' \in Seq(Message)
  BY ReceiveEffect DEF CandidateIgnored, Inductive, TypeOK
<1>2. UNCHANGED <<attachment, display, link, health, poll, step, lastDump, target>>
  BY DEF CandidateIgnored, SameAttachment
<1>3. TaskTypeOK' /\ OutsideTypeOK' /\ HealthTypeOK'
  BY <1>1, <1>2
  DEF CandidateIgnored, Inductive, TypeOK, TaskTypeOK, OutsideTypeOK, HealthTypeOK,
      outside, health, poll
<1>4. RetryExplained' /\ (port # NoPort => pollFailures' < 3)
  BY <1>2 DEF Inductive, RetryExplained, TaskMatchesConnection, attachment, health
<1> QED BY <1>1, <1>2, <1>3, <1>4, SameKeeps DEF StepsOn

\* The old device, if any, is left before the attempt; without one there is
\* nothing to leave, whatever the connection is.
LEMMA CandidateTriedKeeps == ASSUME Inductive, CandidateTried PROVE Inductive'
<1>1. step = "select" /\ inbox' \in Seq(Message)
  BY ReceiveEffect DEF CandidateTried, Inductive, TypeOK
<1>2. PICK p \in Ports :
          /\ port # p /\ retry' = IF retry.port = p THEN retry ELSE NoRetry
          /\ IF port # NoPort THEN DetachTo("connecting", {})
             ELSE /\ conn' = "connecting" /\ candidates' = {}
                  /\ UNCHANGED <<port, link, identity, session, fresh, sampled,
                                 display>>
          /\ target' = p
  BY DEF CandidateTried
<1>3. conn' = "connecting" /\ candidates' = {} /\ link' \in BOOLEAN
  BY <1>2 DEF DetachTo, Inductive, TypeOK, OutsideTypeOK
<1>4. TaskTypeOK' /\ OutsideTypeOK'
  BY <1>1, <1>2, <1>3
  DEF CandidateTried, Goto, Steps, PortOrNone, Inductive, TypeOK, TaskTypeOK,
      OutsideTypeOK, outside
<1>5. HealthTypeOK'
  BY <1>2, NoRetryFacts DEF CandidateTried, Inductive, TypeOK, HealthTypeOK, poll
<1>6. RetryExplained'
  BY <1>2, <1>3, NoRetryFacts DEF RetryExplained
<1>7. step' = "connect"
  BY DEF CandidateTried, Goto
<1>8. CASE port # NoPort
  BY <1>2, <1>4, <1>5, <1>6, <1>7, <1>8, DetachKeeps DEF PlainOps, PausedOps
<1>9. CASE port = NoPort
  <2>1. /\ UNCHANGED <<port, link, identity, session, fresh, sampled>>
        /\ dump' = dump /\ slot' = slot /\ debugLease' = debugLease
        /\ paused' = paused /\ resumeRetry' = resumeRetry
    BY <1>2, <1>9 DEF display
  <2>2. conn \notin {"ready", "busy"} /\ lastDump' = lastDump
    BY <1>9 DEF Inductive, DetachedIsClean, CandidateTried
  <2>3. AttachmentTypeOK' /\ DisplayTypeOK'
    BY <1>3, <2>1 DEF Inductive, TypeOK, AttachmentTypeOK, DisplayTypeOK, Connections
  <2>4. ~DumpOpen' /\ ~DebugOpen' /\ ~Operating'
    BY <1>7, <2>1, <2>2
    DEF Inductive, DetachedIsClean, DumpOpen, DebugOpen, Operating, PausedOps
  <2>5. Owners' = {} /\ ~paused'
    BY <2>1, <2>2, <2>4 DEF Inductive, DetachedIsClean, Owners
  <2>6. BusyMeansOwned' /\ DetachedIsClean' /\ TaskMatchesConnection'
    BY <1>2, <1>3, <1>7, <2>1, <2>2, <2>4, <1>9
    DEF Inductive, BusyMeansOwned, DetachedIsClean, TaskMatchesConnection, PlainOps, PausedOps,
        DumpOpen, DebugOpen
  <2>7. DumpIsCurrent' /\ PauseAccounted'
    BY <2>1, <2>2, <2>4, <2>5
    DEF Inductive, DetachedIsClean, DumpOpen, DumpIsCurrent, PauseAccounted
  <2> QED BY <1>4, <1>5, <1>6, <2>3, <2>6, <2>7 DEF Inductive, TypeOK
<1> QED BY <1>8, <1>9

\* The end of the task.
LEMMA ShutdownKeeps == ASSUME Inductive, Shutdown PROVE Inductive'
<1>1. step = "select" /\ inbox' \in Seq(Message)
  BY ReceiveEffect DEF Shutdown, Inductive, TypeOK
<1>2. Disconnect("absent", {}) /\ step' = "stopped" /\ lastDump' = lastDump
  BY DEF Shutdown, Goto
<1>3. conn' = "absent" /\ link' \in BOOLEAN
  BY <1>2 DEF Disconnect, DetachTo, Inductive, TypeOK, OutsideTypeOK
<1>4. TaskTypeOK' /\ OutsideTypeOK' /\ HealthTypeOK'
  BY <1>1, <1>2, <1>3
  DEF Shutdown, Steps, Inductive, TypeOK, TaskTypeOK, OutsideTypeOK, HealthTypeOK,
      outside, health, poll
<1>5. RetryExplained'
  BY <1>2, <1>3 DEF RetryExplained
<1> QED BY <1>1, <1>2, <1>4, <1>5, DisconnectKeeps

--------------------------------------------------------------------------------
\* The end of a connection attempt keeps the invariant.

\* While connecting there is no device to own.
LEMMA ConnectingFacts ==
    ASSUME Inductive, step = "connect"
    PROVE  conn = "connecting" /\ target \in Ports /\ port = NoPort /\ ~fresh
BY DEF Inductive, TaskMatchesConnection, DetachedIsClean

\* A new session starts with nothing of the last.
LEMMA ConnectedKeeps == ASSUME Inductive, Connected PROVE Inductive'
<1>1. step = "connect" /\ target \in Ports
  BY ConnectingFacts DEF Connected, At
<1>2. /\ conn' = "ready" /\ port' = target /\ identity' = target /\ step' = "select"
      /\ session' = session + 1 /\ sampled' = session + 1 /\ fresh' = TRUE
      /\ dump' = NoDump /\ slot' = 0 /\ debugLease' = Off
      /\ paused' = FALSE /\ resumeRetry' = Off /\ retry' = NoRetry
      /\ pollFailures' = 0
  BY DEF Connected, NextSession, DropLeases, Goto
<1>3. TaskTypeOK' /\ OutsideTypeOK'
  BY DEF Connected, Goto, Steps, PortOrNone, Inductive, TypeOK, TaskTypeOK, OutsideTypeOK,
         outside
<1>4. HealthTypeOK'
  BY <1>2, NoRetryFacts DEF Connected, Inductive, TypeOK, HealthTypeOK, Timer, poll
<1>5. AttachmentTypeOK' /\ DisplayTypeOK'
  <2>1. AttachmentTypeOK'
    BY <1>1, <1>2
    DEF Connected, Inductive, TypeOK, AttachmentTypeOK, Connections, PortOrNone
  <2>2. DisplayTypeOK'
    BY <1>2, NoDumpFacts, TimerFacts DEF DisplayTypeOK
  <2> QED BY <2>1, <2>2
<1>6. ~DumpOpen' /\ ~DebugOpen' /\ ~Operating'
  BY <1>2 DEF DumpOpen, DebugOpen, Operating, PausedOps
<1>7. Owners' = {}
  BY <1>6 DEF Owners
<1>8. BusyMeansOwned' /\ DetachedIsClean' /\ TaskMatchesConnection'
  BY <1>1, <1>2, <1>6, PortsAssumption
  DEF BusyMeansOwned, DetachedIsClean, TaskMatchesConnection, PlainOps, PausedOps
<1>9. DumpIsCurrent' /\ PauseAccounted' /\ RetryExplained'
  BY <1>2, <1>6, <1>7, NoDumpFacts DEF DumpIsCurrent, PauseAccounted, RetryExplained
<1> QED BY <1>3, <1>4, <1>5, <1>8, <1>9 DEF Inductive, TypeOK

\* The retry state a failed attempt leaves.
LEMMA NextRetryFacts ==
    ASSUME HealthTypeOK, NEW p \in Ports, NEW u \in BOOLEAN
    PROVE  /\ NextRetry(p, u) \in [port : PortOrNone, attempt : 0..8, wait : Timer]
           /\ NextRetry(p, u).port = p
           /\ NextRetry(p, u).wait = Never <=> u
<1>1. CASE u
  BY <1>1 DEF NextRetry, PortOrNone, Timer, Never, Off
<1>2. CASE ~u
  <2> DEFINE n == IF retry.port = p THEN Min2(retry.attempt + 1, 8) ELSE 1
  <2>1. n \in 1..8
    BY DEF HealthTypeOK, Min2
  <2>2. RetryDelay[n] \in Nat \ {0}
    BY <2>1, TimesAssumption DEF Attempts
  <2>3. NextRetry(p, u) = [port |-> p, attempt |-> n, wait |-> RetryDelay[n]]
    BY <1>2 DEF NextRetry
  <2> HIDE DEF n
  <2> QED BY <1>2, <2>1, <2>2, <2>3 DEF PortOrNone, Timer, Never
<1> QED BY <1>1, <1>2

\* A failed attempt leaves its retry state, and nothing else.
LEMMA ConnectionFailedKeeps == ASSUME Inductive, ConnectionFailed PROVE Inductive'
<1>1. step = "connect" /\ target \in Ports /\ ~fresh
  BY ConnectingFacts DEF ConnectionFailed, At
<1>2. PICK u \in BOOLEAN : /\ retry' = NextRetry(target, u)
                           /\ conn' = IF u THEN "unsupported" ELSE "recovering"
  BY DEF ConnectionFailed
<1>3. /\ retry' \in [port : PortOrNone, attempt : 0..8, wait : Timer]
      /\ retry'.port = target /\ (retry'.wait = Never <=> u)
  BY <1>1, <1>2, NextRetryFacts DEF Inductive, TypeOK
<1>4. /\ port' = NoPort /\ step' = "select" /\ ~fresh' /\ identity' = NoPort
      /\ dump' = NoDump /\ slot' = 0 /\ debugLease' = Off
      /\ paused' = FALSE /\ resumeRetry' = Off
  BY <1>1 DEF ConnectionFailed, DropLeases, Goto
<1>5. TaskTypeOK' /\ OutsideTypeOK'
  <2>1. devPaused' \in SUBSET Ports /\ upsets' \in Nat
    BY DEF ConnectionFailed, Inductive, TypeOK, OutsideTypeOK
  <2> QED
    BY <2>1
    DEF ConnectionFailed, Goto, Steps, PortOrNone, Inductive, TypeOK, TaskTypeOK,
        OutsideTypeOK, outside
<1>6. HealthTypeOK'
  BY <1>3, TimerFacts DEF ConnectionFailed, Inductive, TypeOK, HealthTypeOK, poll
<1>7. AttachmentTypeOK' /\ DisplayTypeOK'
  <2>1. AttachmentTypeOK'
    BY <1>2, <1>4
    DEF ConnectionFailed, Inductive, TypeOK, AttachmentTypeOK, Connections, PortOrNone
  <2>2. DisplayTypeOK'
    BY <1>4, NoDumpFacts, TimerFacts DEF DisplayTypeOK
  <2> QED BY <2>1, <2>2
<1>8. ~DumpOpen' /\ ~DebugOpen' /\ ~Operating'
  BY <1>4 DEF DumpOpen, DebugOpen, Operating, PausedOps
<1>9. Owners' = {}
  BY <1>8 DEF Owners
<1>10. BusyMeansOwned' /\ DetachedIsClean' /\ TaskMatchesConnection'
  BY <1>2, <1>4, <1>8
  DEF BusyMeansOwned, DetachedIsClean, TaskMatchesConnection, PlainOps, PausedOps
<1>11. DumpIsCurrent' /\ PauseAccounted' /\ RetryExplained'
  BY <1>1, <1>2, <1>3, <1>4, <1>8, <1>9, NoDumpFacts, PortsAssumption
  DEF DumpIsCurrent, PauseAccounted, RetryExplained
<1> QED BY <1>5, <1>6, <1>7, <1>10, <1>11 DEF Inductive, TypeOK
--------------------------------------------------------------------------------
\* The handlers that give up a lease keep the invariant.

\* What they have in common.  The last assumption is about what a handler does
\* when the connection survives: it leaves the connection alone, or makes it
\* Ready because no dump remains.
LEMMA ReleaseKeeps ==
    ASSUME Inductive,
           NEW d, NEW g, NEW s, NEW ACTION goOn, Release(d, g, s, goOn),
           (d = dump /\ s = slot) \/ (d = NoDump /\ s = 0),
           g = debugLease \/ g = Off,
           UNCHANGED <<target, lastDump, inbox, health, poll, outside>>,
           step \notin {"connect", "stopped"}, step' \in {"select"} \union TimerArm,
           goOn => /\ UNCHANGED <<candidates, port, link, identity, session, fresh, sampled>>
                   /\ \/ conn' = conn /\ (conn = "busy" <=> d # NoDump)
                      \/ conn' = "ready" /\ port # NoPort /\ d = NoDump
    PROVE  Inductive'
<1>1. /\ devPaused' \in SUBSET Ports /\ upsets' \in Nat
      /\ \/ Detach /\ paused
         \/ /\ dump' = d /\ debugLease' = g /\ slot' = s /\ goOn
            /\ paused' \in BOOLEAN /\ resumeRetry' \in Timer
            /\ d # NoDump \/ g # Off \/ ~paused => paused' = paused
            /\ d = NoDump /\ g = Off => ~paused' \/ resumeRetry' # Off
            /\ ~paused => resumeRetry' = Off
  BY ReleaseEffect DEF Inductive, TypeOK
<1>2. TaskTypeOK' /\ HealthTypeOK'
  BY DEF Inductive, TypeOK, TaskTypeOK, HealthTypeOK, health, poll, Steps, TimerArm
<1>3. step' \notin PlainOps \union PausedOps \union {"connect", "stopped", "reading"}
  BY DEF PlainOps, PausedOps, TimerArm
<1>4. retry' = retry /\ pollFailures' = pollFailures
  BY DEF health
<1>5. CASE Detach /\ paused
  <2>1. DetachTo("absent", {})
    BY <1>5 DEF Detach
  <2>2. OutsideTypeOK'
    BY <1>1, <2>1 DEF DetachTo, Inductive, TypeOK, OutsideTypeOK, outside
  <2>3. conn \in {"ready", "busy"} /\ conn' = "absent"
    BY <1>5, <2>1 DEF DetachTo, Inductive, DetachedIsClean
  <2>4. RetryExplained'
    BY <1>4, <2>3 DEF Inductive, RetryExplained
  <2> QED BY <1>2, <1>3, <2>1, <2>2, <2>4, DetachKeeps
<1>6. CASE ~(Detach /\ paused)
  <2>1. /\ dump' = d /\ debugLease' = g /\ slot' = s
        /\ paused' \in BOOLEAN /\ resumeRetry' \in Timer
        /\ d # NoDump \/ g # Off \/ ~paused => paused' = paused
        /\ d = NoDump /\ g = Off => ~paused' \/ resumeRetry' # Off
        /\ ~paused => resumeRetry' = Off
        /\ UNCHANGED <<candidates, port, link, identity, session, fresh, sampled>>
        /\ \/ conn' = conn /\ (conn = "busy" <=> d # NoDump)
           \/ conn' = "ready" /\ port # NoPort /\ d = NoDump
    BY <1>1, <1>6
  <2>2. OutsideTypeOK'
    BY <1>1, <2>1 DEF Inductive, TypeOK, OutsideTypeOK, outside
  <2>3. AttachmentTypeOK'
    BY <2>1 DEF Inductive, TypeOK, AttachmentTypeOK, Connections
  <2>4. DisplayTypeOK'
    BY <2>1, NoDumpFacts, TimerFacts DEF Inductive, TypeOK, DisplayTypeOK
  <2>5. /\ DumpOpen' <=> d # NoDump
        /\ DebugOpen' <=> g # Off
        /\ ~Operating'
    BY <1>3, <2>1 DEF DumpOpen, DebugOpen, Operating
  <2>6. port # NoPort <=> conn \in {"ready", "busy"}
    BY DEF Inductive, DetachedIsClean
  <2>7. BusyMeansOwned'
    BY <1>3, <2>1, <2>5 DEF BusyMeansOwned
  <2>8. DumpIsCurrent'
    BY <2>1, <2>5, NoDumpFacts DEF Inductive, DumpIsCurrent, DumpOpen
  <2>9. PauseAccounted'
    <3>1. Owners' = {} <=> d = NoDump /\ g = Off
      BY <2>5 DEF Owners
    <3>2. d # NoDump \/ g # Off => paused
      BY OwnersFacts DEF Inductive, PauseAccounted, DumpOpen, DebugOpen
    <3> QED BY <2>1, <3>1, <3>2 DEF PauseAccounted
  <2>10. DetachedIsClean'
    <3>1. CASE port = NoPort
      BY <2>1, <2>5, <2>6, <3>1, NoDumpFacts
      DEF Inductive, DetachedIsClean, DumpOpen, DebugOpen
    <3>2. CASE port # NoPort
      BY <2>1, <2>6, <3>2 DEF Inductive, DetachedIsClean
    <3> QED BY <3>1, <3>2
  <2>11. RetryExplained'
    BY <1>4, <2>1, <2>6 DEF Inductive, RetryExplained
  <2>12. TaskMatchesConnection'
    BY <1>3, <1>4, <2>1, <2>5, <2>6
    DEF Inductive, TaskMatchesConnection, DumpOpen
  <2> QED BY <1>2, <2>2, <2>3, <2>4, <2>7, <2>8, <2>9, <2>10, <2>11, <2>12
          DEF Inductive, TypeOK
<1> QED BY <1>5, <1>6

\* A step of the task that changes neither the attachment nor the leases.
LEMMA IdleStepKeeps ==
    ASSUME Inductive, SameAttachment, UNCHANGED display,
           UNCHANGED <<target, lastDump, inbox, devPaused, upsets, health, outside>>,
           pollInterval' \in PollIntervals, nextPoll' \in Nat,
           step \in {"select", "reading"} \union TimerArm,
           step' \in {"select"} \union TimerArm
    PROVE  Inductive'
<1>1. UNCHANGED <<attachment, display>> /\ link' = link
  BY DEF SameAttachment
<1>2. TaskTypeOK' /\ OutsideTypeOK' /\ HealthTypeOK'
  BY <1>1
  DEF Inductive, TypeOK, TaskTypeOK, OutsideTypeOK, HealthTypeOK, outside, health,
      Steps, TimerArm
<1>3. RetryExplained' /\ (port # NoPort => pollFailures' < 3)
  BY <1>1
  DEF Inductive, RetryExplained, TaskMatchesConnection, attachment, health, TimerArm
<1>4. StepsOn
  BY DEF StepsOn, TimerArm
<1> QED BY <1>1, <1>2, <1>3, <1>4, SameKeeps

\* The timer arm is entered.
LEMMA WakeUpKeeps == ASSUME Inductive, WakeUp PROVE Inductive'
<1>1. step = "select" /\ step' = "expire_dump"
  BY DEF WakeUp, At, Goto
<1>2. pollInterval' \in PollIntervals /\ nextPoll' \in Nat
  BY DEF WakeUp, Inductive, TypeOK, HealthTypeOK, poll
<1> QED BY <1>1, <1>2, IdleStepKeeps DEF WakeUp, TimerArm

\* A lease that is due is the lease of an attached device.
LEMMA DueFacts ==
    ASSUME Inductive
    PROVE  /\ Due(dump.lease) => DumpOpen
           /\ Due(debugLease) => DebugOpen
           /\ DumpOpen \/ DebugOpen \/ paused => port # NoPort
BY NoDumpFacts DEF Inductive, DetachedIsClean, Due, DumpOpen, DebugOpen, Off

\* The lease of an open dump is due.
LEMMA ExpireHistoryDumpKeeps == ASSUME Inductive, ExpireHistoryDump PROVE Inductive'
<1>1. /\ step = "expire_dump" /\ step' = "expire_debug"
      /\ UNCHANGED <<target, lastDump, inbox, health, poll, outside>>
  BY DEF ExpireHistoryDump, At, Goto
<1>2. CASE Due(dump.lease)
  <2>1. Release(NoDump, debugLease, 0, SetReady)
    BY <1>2 DEF ExpireHistoryDump
  <2>2. port # NoPort
    BY <1>2, DueFacts
  <2>3. SetReady => /\ UNCHANGED <<candidates, port, link, identity, session, fresh, sampled>>
                    /\ conn' = "ready"
    BY DEF SetReady, Become
  <2> QED BY <1>1, <2>1, <2>2, <2>3, ReleaseKeeps DEF TimerArm
<1>3. CASE ~Due(dump.lease)
  <2>1. SameAttachment /\ UNCHANGED <<display, devPaused, upsets>>
    BY <1>3 DEF ExpireHistoryDump
  <2>2. pollInterval' \in PollIntervals /\ nextPoll' \in Nat
    BY <1>1 DEF Inductive, TypeOK, HealthTypeOK, poll
  <2> QED BY <1>1, <2>1, <2>2, IdleStepKeeps DEF TimerArm
<1> QED BY <1>2, <1>3

\* Outside an exclusive operation, Busy is the same as an open dump.
LEMMA SameAttachmentFacts ==
    ASSUME Inductive, SameAttachment, step \notin PlainOps \union PausedOps
    PROVE  /\ UNCHANGED <<candidates, port, link, identity, session, fresh, sampled>>
           /\ conn' = conn /\ (conn = "busy" <=> dump # NoDump)
BY DEF SameAttachment, attachment, Inductive, BusyMeansOwned, DumpOpen

\* The lease of a debug pause is due.
LEMMA ExpireDebugPauseKeeps == ASSUME Inductive, ExpireDebugPause PROVE Inductive'
<1>1. /\ step = "expire_debug" /\ step' = "cleanup"
      /\ UNCHANGED <<target, lastDump, inbox, health, poll, outside>>
  BY DEF ExpireDebugPause, At, Goto
<1>2. CASE Due(debugLease)
  <2>1. Release(dump, Off, slot, SameAttachment)
    BY <1>2 DEF ExpireDebugPause
  <2>2. step \notin PlainOps \union PausedOps
    BY <1>1 DEF PlainOps, PausedOps
  <2> QED BY <1>1, <2>1, <2>2, SameAttachmentFacts, ReleaseKeeps DEF TimerArm
<1>3. CASE ~Due(debugLease)
  <2>1. SameAttachment /\ UNCHANGED <<display, devPaused, upsets>>
    BY <1>3 DEF ExpireDebugPause
  <2>2. pollInterval' \in PollIntervals /\ nextPoll' \in Nat
    BY <1>1 DEF Inductive, TypeOK, HealthTypeOK, poll
  <2> QED BY <1>1, <2>1, <2>2, IdleStepKeeps DEF TimerArm
<1> QED BY <1>2, <1>3

\* A failed resume is retried.
LEMMA RetryDisplayResumeCleanupKeeps ==
    ASSUME Inductive, RetryDisplayResumeCleanup PROVE Inductive'
<1>1. /\ step = "cleanup" /\ step' = "poll"
      /\ UNCHANGED <<target, lastDump, inbox, health, poll, outside>>
  BY DEF RetryDisplayResumeCleanup, At, Goto
<1>2. CASE Due(resumeRetry) /\ conn = "ready"
  <2>1. Release(dump, debugLease, slot, SameAttachment)
    BY <1>2 DEF RetryDisplayResumeCleanup
  <2>2. step \notin PlainOps \union PausedOps
    BY <1>1 DEF PlainOps, PausedOps
  <2> QED BY <1>1, <2>1, <2>2, SameAttachmentFacts, ReleaseKeeps DEF TimerArm
<1>3. CASE ~(Due(resumeRetry) /\ conn = "ready")
  <2>1. SameAttachment /\ UNCHANGED <<display, devPaused, upsets>>
    BY <1>3 DEF RetryDisplayResumeCleanup
  <2>2. pollInterval' \in PollIntervals /\ nextPoll' \in Nat
    BY <1>1 DEF Inductive, TypeOK, HealthTypeOK, poll
  <2> QED BY <1>1, <2>1, <2>2, IdleStepKeeps DEF TimerArm
<1> QED BY <1>2, <1>3

\* A client ends its dump.
LEMMA EndHistoryDumpKeeps == ASSUME Inductive, EndHistoryDump PROVE Inductive'
<1>1. /\ step = "select" /\ step' = "select"
      /\ UNCHANGED <<target, lastDump, inbox, health, poll, outside>>
  BY DEF EndHistoryDump, At, Quiet
<1>2. PICK id \in 1..lastDump :
          /\ OwnsDump(id)
          /\ Release(NoDump, debugLease, ClearHistoryCancellation(id), SetReady)
  BY DEF EndHistoryDump
<1>3. port # NoPort /\ ClearHistoryCancellation(id) = 0
  BY <1>2, DueFacts DEF OwnsDump, DumpOpen, ClearHistoryCancellation, Inductive, DumpIsCurrent
<1>4. Release(NoDump, debugLease, 0, SetReady)
  BY <1>2, <1>3
<1>5. SetReady => /\ UNCHANGED <<candidates, port, link, identity, session, fresh, sampled>>
                  /\ conn' = "ready"
  BY DEF SetReady, Become
<1> QED BY <1>1, <1>3, <1>4, <1>5, ReleaseKeeps

\* A client ends the debug pause.
LEMMA ResumeDisplayKeeps == ASSUME Inductive, ResumeDisplay PROVE Inductive'
<1>1. /\ step = "select" /\ step' = "select"
      /\ UNCHANGED <<target, lastDump, inbox, health, poll, outside>>
      /\ Release(dump, Off, slot, SameAttachment)
  BY DEF ResumeDisplay, At, Quiet
<1>2. step \notin PlainOps \union PausedOps
  BY <1>1 DEF PlainOps, PausedOps
<1> QED BY <1>1, <1>2, SameAttachmentFacts, ReleaseKeeps
--------------------------------------------------------------------------------
\* The other stages and commands keep the invariant.

\* A step that finds the connection lost.
LEMMA LostKeeps ==
    ASSUME Inductive, Detach, port # NoPort, TaskTypeOK', HealthTypeOK',
           devPaused' \in SUBSET Ports, upsets' \in Nat, UNCHANGED outside,
           step # "stopped", step' \in {"select"} \union TimerArm, retry' = retry
    PROVE  Inductive'
<1>1. DetachTo("absent", {}) /\ conn \in {"ready", "busy"}
  BY DEF Detach, Inductive, DetachedIsClean
<1>2. conn' = "absent" /\ link' = FALSE
  BY <1>1 DEF DetachTo
<1>3. OutsideTypeOK' /\ RetryExplained'
  BY <1>1, <1>2
  DEF Inductive, TypeOK, OutsideTypeOK, outside, RetryExplained
<1>4. step' \notin PlainOps \union PausedOps \union {"connect", "reading"}
  BY DEF PlainOps, PausedOps, TimerArm
<1> QED BY <1>1, <1>3, <1>4, DetachKeeps

\* A step after which the device is Ready, with a sample or without, and which
\* leaves the leases alone.
LEMMA ReadyKeeps ==
    ASSUME Inductive, Become("ready"), UNCHANGED display, ~DumpOpen, port # NoPort,
           UNCHANGED <<lastDump, outside, retry>>,
           TaskTypeOK', HealthTypeOK', pollFailures' < 3,
           devPaused' \in SUBSET Ports, upsets' \in Nat,
           fresh' \in BOOLEAN, sampled' \in Nat,
           fresh' => (fresh /\ sampled' = sampled) \/ sampled' = session,
           step \notin PausedOps \union {"stopped"},
           step' \in {"select"} \union TimerArm
    PROVE  Inductive'
<1>1. /\ conn' = "ready" /\ candidates' = candidates /\ port' = port /\ link' = link
      /\ identity' = identity /\ session' = session
      /\ dump' = dump /\ slot' = slot /\ debugLease' = debugLease
      /\ paused' = paused /\ resumeRetry' = resumeRetry
  BY DEF Become, display
<1>2. AttachmentTypeOK' /\ DisplayTypeOK' /\ OutsideTypeOK'
  BY <1>1
  DEF Inductive, TypeOK, AttachmentTypeOK, DisplayTypeOK, OutsideTypeOK, Connections, outside
<1>3. conn \in {"ready", "busy"}
  BY DEF Inductive, DetachedIsClean
<1>4. ~DumpOpen' /\ DebugOpen' = DebugOpen /\ ~Operating /\ ~Operating'
  BY <1>1 DEF DumpOpen, DebugOpen, Operating, PausedOps, TimerArm
<1>5. DumpIsCurrent' /\ PauseAccounted'
  <2>1. Owners' = Owners
    BY <1>4 DEF Owners
  <2> QED BY <1>1, <1>4, <2>1 DEF Inductive, DumpIsCurrent, PauseAccounted
<1>6. step' \notin PlainOps \union PausedOps \union {"connect", "reading"}
  BY DEF PlainOps, PausedOps, TimerArm
<1>7. BusyMeansOwned' /\ DetachedIsClean' /\ TaskMatchesConnection' /\ RetryExplained'
  BY <1>1, <1>3, <1>4, <1>6
  DEF Inductive, BusyMeansOwned, DetachedIsClean, TaskMatchesConnection, RetryExplained
<1> QED BY <1>2, <1>5, <1>7 DEF Inductive, TypeOK

\* A poll that succeeds, fails, fails for the third time, or finds the device gone.
LEMMA PollOnceKeeps == ASSUME Inductive, PollOnce PROVE Inductive'
<1>1. /\ step = "poll" /\ step' = "select"
      /\ UNCHANGED <<target, lastDump, inbox, devPaused, retry, pollInterval, outside>>
  BY DEF PollOnce, At, Goto
<1>2. TaskTypeOK' /\ nextPoll' \in Nat /\ pollInterval' \in PollIntervals
  BY <1>1, TimesAssumption
  DEF PollOnce, Steps, Inductive, TypeOK, TaskTypeOK, HealthTypeOK
<1>3. CASE Due(nextPoll) /\ conn = "ready"
  <2>1. PICK r \in Results :
           /\ Answer(r)
           /\ \/ /\ r = "ok"
                 /\ Become("ready") /\ TakeSample(TRUE) /\ UNCHANGED display
                 /\ pollFailures' = 0 /\ sinceGood' = 0
              \/ r = "err" /\ PollFailed
              \/ r = "lost" /\ Detach /\ UNCHANGED <<pollFailures, sinceGood>>
    BY <1>3 DEF PollOnce, ReadTelemetry
  <2>2. upsets' \in Nat /\ devPaused' \in SUBSET Ports
    BY <1>1, <2>1, AnswerType DEF Inductive, TypeOK, OutsideTypeOK
  <2>3. port # NoPort /\ ~DumpOpen
    BY <1>1, <1>3
    DEF Inductive, DetachedIsClean, BusyMeansOwned
  <2>4. pollFailures \in 0..2
    BY <2>3 DEF Inductive, TypeOK, HealthTypeOK, TaskMatchesConnection
  <2>5. HealthTypeOK'
    <3>0. /\ pollFailures' \in {0, pollFailures, pollFailures + 1}
          /\ sinceGood' \in {0, sinceGood}
      BY <2>1, Zenon DEF PollFailed
    <3>1. pollFailures' \in 0..3
      BY <3>0, <2>4
    <3>2. sinceGood' \in Timer
      BY <3>0 DEF Inductive, TypeOK, HealthTypeOK, Timer
    <3> QED BY <1>1, <1>2, <3>1, <3>2 DEF Inductive, TypeOK, HealthTypeOK
  <2>6. CASE /\ r = "ok"
             /\ Become("ready") /\ TakeSample(TRUE) /\ UNCHANGED display
             /\ pollFailures' = 0 /\ sinceGood' = 0
    <3>1. fresh' \in BOOLEAN /\ sampled' \in Nat /\ sampled' = session
      BY <2>6 DEF TakeSample, Inductive, TypeOK, AttachmentTypeOK
    <3> QED BY <1>1, <1>2, <2>2, <2>3, <2>5, <2>6, <3>1, ReadyKeeps DEF PausedOps
  <2>7. CASE r = "err" /\ PollFailed
    <3>1. CASE pollFailures + 1 >= 3
      <4>1. Detach
        BY <2>7, <3>1 DEF PollFailed
      <4> QED BY <1>1, <1>2, <2>2, <2>3, <2>5, <4>1, LostKeeps
    <3>2. CASE ~(pollFailures + 1 >= 3)
      <4>1. /\ Become("ready") /\ UNCHANGED <<sampled, display>>
            /\ fresh' = (fresh /\ sinceGood < 2 * pollInterval)
            /\ pollFailures' = pollFailures + 1
        BY <2>7, <3>2 DEF PollFailed
      <4>2. fresh' \in BOOLEAN /\ sampled' \in Nat /\ pollFailures' < 3
        BY <2>4, <3>2, <4>1 DEF Inductive, TypeOK, AttachmentTypeOK
      <4> QED BY <1>1, <1>2, <2>2, <2>3, <2>5, <4>1, <4>2, ReadyKeeps DEF PausedOps
    <3> QED BY <3>1, <3>2
  <2>8. CASE r = "lost" /\ Detach /\ UNCHANGED <<pollFailures, sinceGood>>
    BY <1>1, <1>2, <2>2, <2>3, <2>5, <2>8, LostKeeps
  <2> QED BY <2>1, <2>6, <2>7, <2>8
<1>4. CASE ~(Due(nextPoll) /\ conn = "ready")
  <2>1. SameAttachment /\ UNCHANGED <<display, pollFailures, sinceGood, upsets>>
    BY <1>4 DEF PollOnce
  <2> QED BY <1>1, <1>2, <2>1, IdleStepKeeps DEF TimerArm, health
<1> QED BY <1>3, <1>4

\* A command of a Ready device.
LEMMA IdleFacts ==
    ASSUME Inductive, Idle
    PROVE  step = "select" /\ conn = "ready" /\ port # NoPort /\ port \in Ports /\ ~DumpOpen
BY DEF Inductive, TypeOK, AttachmentTypeOK, PortOrNone, DetachedIsClean, BusyMeansOwned,
       Idle, At

\* A command that fails or ends without any effect on the manager.
LEMMA NoEffectKeeps ==
    ASSUME Inductive, SameAttachment, UNCHANGED display, TaskTypeOK',
           devPaused' \in SUBSET Ports, upsets' \in Nat,
           UNCHANGED <<lastDump, health, poll, outside>>,
           step \in {"select", "reading"}, step' = "select"
    PROVE  Inductive'
<1>1. UNCHANGED <<attachment, display>> /\ link' = link
  BY DEF SameAttachment
<1>2. OutsideTypeOK' /\ HealthTypeOK'
  BY <1>1
  DEF Inductive, TypeOK, OutsideTypeOK, HealthTypeOK, outside, health, poll
<1>3. RetryExplained' /\ (port # NoPort => pollFailures' < 3)
  BY <1>1 DEF Inductive, RetryExplained, TaskMatchesConnection, attachment, health
<1> QED BY <1>1, <1>2, <1>3, SameKeeps DEF StepsOn

\* A screen command.
LEMMA SetScreenKeeps == ASSUME Inductive, SetScreen PROVE Inductive'
<1>1. /\ step' = step /\ devPaused' = devPaused
      /\ UNCHANGED <<target, lastDump, inbox, health, poll, outside>>
  BY DEF SetScreen, Quiet
<1>2. PICK r \in Results : /\ Answer(r)
                           /\ IF r = "lost" THEN Detach
                              ELSE SameAttachment /\ UNCHANGED display
  BY DEF SetScreen
<1>3. /\ TaskTypeOK' /\ HealthTypeOK'
      /\ devPaused' \in SUBSET Ports /\ upsets' \in Nat /\ retry' = retry
  BY <1>1, <1>2, AnswerType
  DEF Inductive, TypeOK, TaskTypeOK, HealthTypeOK, OutsideTypeOK, health, poll
<1>4. step = "select" /\ port # NoPort
  BY IdleFacts DEF SetScreen
<1> QED BY <1>1, <1>2, <1>3, <1>4, LostKeeps, NoEffectKeeps

\* The end of a chunk read.
LEMMA ChunkReadKeeps == ASSUME Inductive, ChunkRead PROVE Inductive'
<1>1. /\ step = "reading" /\ step' = "select" /\ devPaused' = devPaused
      /\ UNCHANGED <<target, lastDump, inbox, health, poll, outside>>
  BY DEF ChunkRead, Quiet, At, Goto
<1>2. /\ TaskTypeOK' /\ HealthTypeOK' /\ devPaused' \in SUBSET Ports /\ retry' = retry
      /\ upsets \in Nat
  BY <1>1
  DEF Inductive, TypeOK, TaskTypeOK, HealthTypeOK, OutsideTypeOK, health, poll, Steps
<1>3. CASE SameAttachment /\ UNCHANGED <<display, upsets>>
  BY <1>1, <1>2, <1>3, NoEffectKeeps
<1>4. ASSUME NEW r \in Results, Answer(r),
             IF r = "lost" THEN Detach ELSE SameAttachment /\ UNCHANGED display
      PROVE  Inductive'
  <2>1. upsets' \in Nat
    BY <1>4, AnswerType DEF Inductive, TypeOK
  <2>2. CASE r = "lost"
    <3>1. port # NoPort
      BY <1>1, DueFacts DEF Inductive, TaskMatchesConnection
    <3> QED BY <1>1, <1>2, <1>4, <2>1, <2>2, <3>1, LostKeeps
  <2>3. CASE r # "lost"
    BY <1>1, <1>2, <1>4, <2>1, <2>3, NoEffectKeeps
  <2> QED BY <2>2, <2>3
<1> QED BY <1>3, <1>4 DEF ChunkRead
\* A chunk read renews the lease of its dump.
LEMMA ReadHistoryDumpChunkKeeps ==
    ASSUME Inductive, ReadHistoryDumpChunk PROVE Inductive'
<1>1. /\ step = "select" /\ step' = "reading" /\ dump # NoDump
      /\ dump' = [dump EXCEPT !.lease = LeaseTicks]
      /\ slot' = slot /\ debugLease' = debugLease
      /\ paused' = paused /\ resumeRetry' = resumeRetry
      /\ SameAttachment /\ UNCHANGED <<devPaused, upsets>>
      /\ UNCHANGED <<target, lastDump, inbox, health, poll, outside>>
  BY DEF ReadHistoryDumpChunk, OwnsDump, Quiet, At, Goto
<1>2. /\ dump' \in [id : Nat, session : Nat, lease : Timer]
      /\ dump'.id = dump.id /\ dump'.session = dump.session /\ dump'.lease = LeaseTicks
  BY <1>1, TimerFacts DEF Inductive, TypeOK, DisplayTypeOK
<1>3. /\ DumpOpen /\ (DumpOpen' <=> DumpOpen) /\ (DebugOpen' <=> DebugOpen)
      /\ dump'.lease # Off
  BY <1>1, <1>2, TimerFacts, NoDumpFacts DEF DumpOpen, DebugOpen
<1>4. TaskTypeOK' /\ HealthTypeOK' /\ OutsideTypeOK' /\ DisplayTypeOK'
  <2>1. TaskTypeOK' /\ HealthTypeOK'
    BY <1>1 DEF Inductive, TypeOK, TaskTypeOK, HealthTypeOK, health, poll, Steps
  <2>2. OutsideTypeOK' /\ DisplayTypeOK'
    BY <1>1, <1>2
    DEF Inductive, TypeOK, OutsideTypeOK, DisplayTypeOK, outside, SameAttachment
  <2> QED BY <2>1, <2>2
<1>5. UNCHANGED <<attachment, slot, paused, lastDump>> /\ (~link => ~link')
  BY <1>1 DEF SameAttachment
<1>6. RetryExplained' /\ (port # NoPort => pollFailures' < 3)
  BY <1>1, <1>5 DEF Inductive, RetryExplained, TaskMatchesConnection, attachment, health
<1>7. StepsOn
  BY <1>1, <1>3 DEF StepsOn
<1> QED BY <1>1, <1>2, <1>3, <1>4, <1>5, <1>6, <1>7, LeasesKeep

\* A new poll interval.
LEMMA SetPollIntervalKeeps == ASSUME Inductive, SetPollInterval PROVE Inductive'
<1>1. step = "select" /\ step' = "select"
  BY DEF SetPollInterval, At
<1>2. pollInterval' \in PollIntervals /\ nextPoll' \in Nat
  BY DEF SetPollInterval, Inductive, TypeOK, HealthTypeOK
<1> QED BY <1>1, <1>2, IdleStepKeeps DEF SetPollInterval

--------------------------------------------------------------------------------
\* The world outside the task keeps the invariant.

\* Time passes.
LEMMA TickKeeps == ASSUME Inductive, Tick PROVE Inductive'
<1>1. /\ debugLease' = Elapse(debugLease) /\ resumeRetry' = Elapse(resumeRetry)
      /\ dump' = [dump EXCEPT !.lease = Elapse(dump.lease)]
      /\ retry' = [retry EXCEPT !.wait = Elapse(retry.wait)]
      /\ slot' = slot /\ paused' = paused /\ pollFailures' = pollFailures
      /\ UNCHANGED <<attachment, link, step, target, lastDump, inbox, devPaused, upsets,
                     pollInterval, outside>>
  BY DEF Tick, SameAttachment
<1>2. /\ dump \in [id : Nat, session : Nat, lease : Timer]
      /\ retry \in [port : PortOrNone, attempt : 0..8, wait : Timer]
      /\ debugLease \in Timer /\ resumeRetry \in Timer /\ nextPoll \in Nat
      /\ sinceGood \in Timer
  BY DEF Inductive, TypeOK, DisplayTypeOK, HealthTypeOK
<1>3. /\ Elapse(dump.lease) \in Timer /\ (Elapse(dump.lease) = Off <=> dump.lease = Off)
      /\ Elapse(retry.wait) \in Timer /\ (Elapse(retry.wait) = Off <=> retry.wait = Off)
      /\ Elapse(debugLease) \in Timer /\ (Elapse(debugLease) = Off <=> debugLease = Off)
      /\ Elapse(resumeRetry) \in Timer /\ (Elapse(resumeRetry) = Off <=> resumeRetry = Off)
  BY <1>2, ElapseFacts
<1>4. /\ dump' \in [id : Nat, session : Nat, lease : Timer]
      /\ dump'.id = dump.id /\ dump'.session = dump.session
      /\ dump'.lease = Off <=> dump.lease = Off
  BY <1>1, <1>2, <1>3
<1>5. /\ retry' \in [port : PortOrNone, attempt : 0..8, wait : Timer]
      /\ retry'.port = retry.port /\ (retry'.wait = Off <=> retry.wait = Off)
  BY <1>1, <1>2, <1>3
<1>6. retry = NoRetry => retry' = NoRetry
  BY <1>1 DEF NoRetry, Elapse, Never
<1>7. dump = NoDump => dump' = NoDump
  BY <1>1 DEF NoDump, Elapse, Off
<1>8. (DumpOpen' <=> DumpOpen) /\ (DebugOpen' <=> DebugOpen) /\ (DumpOpen => dump'.lease # Off)
  BY <1>1, <1>3, <1>4, <1>7, NoDumpFacts
  DEF DumpOpen, DebugOpen, Inductive, TaskMatchesConnection
<1>9. TaskTypeOK' /\ OutsideTypeOK' /\ DisplayTypeOK'
  BY <1>1, <1>2, <1>3, <1>4
  DEF Inductive, TypeOK, TaskTypeOK, OutsideTypeOK, DisplayTypeOK, outside
<1>10. HealthTypeOK'
  <2>1. sinceGood' \in Timer
    BY <1>2, TimesAssumption DEF Tick, Timer, Off, Min2
  <2>2. nextPoll' \in Nat
    BY <1>2 DEF Tick, Elapse
  <2> QED BY <1>1, <1>5, <2>1, <2>2 DEF Inductive, TypeOK, HealthTypeOK
<1>11. RetryExplained'
  BY <1>1, <1>5, <1>6 DEF Inductive, RetryExplained, attachment, Never, Off
<1>12. StepsOn /\ (port # NoPort => pollFailures' < 3)
  BY <1>1 DEF StepsOn, Inductive, TaskMatchesConnection
<1>13. UNCHANGED <<attachment, slot, paused, lastDump>> /\ (~link => ~link')
  BY <1>1
<1>14. resumeRetry' = Off <=> resumeRetry = Off
  BY <1>1, <1>3
<1> QED BY <1>4, <1>8, <1>9, <1>10, <1>11, <1>12, <1>13, <1>14, LeasesKeep

\* The set of attached devices changes.
LEMMA HostChangeKeeps == ASSUME Inductive, HostChange PROVE Inductive'
<1>1. /\ step' = step /\ target' = target /\ (~link => ~link')
      /\ UNCHANGED <<lastDump, inbox, devPaused, upsets, attachment, display, health, poll>>
  BY DEF HostChange
<1>2. TaskTypeOK' /\ HealthTypeOK' /\ OutsideTypeOK'
  <2>1. host' \in SUBSET Ports /\ link' \in BOOLEAN /\ moves' \in Nat
    BY DEF HostChange, Inductive, TypeOK, OutsideTypeOK
  <2> QED
    BY <1>1, <2>1
    DEF HostChange, Inductive, TypeOK, TaskTypeOK, HealthTypeOK, OutsideTypeOK, health, poll
<1>3. RetryExplained' /\ (port # NoPort => pollFailures' < 3)
  BY <1>1 DEF Inductive, RetryExplained, TaskMatchesConnection, attachment, health
<1> QED BY <1>1, <1>2, <1>3, SameKeeps DEF StepsOn

\* An event joins the queue.
LEMMA EnqueueKeeps ==
    ASSUME Inductive, NEW m \in Message, Enqueue(m) PROVE Inductive'
<1>1. /\ step' = step /\ target' = target /\ link' = link
      /\ UNCHANGED <<lastDump, devPaused, upsets, attachment, display, health, poll, outside>>
  BY DEF Enqueue, SameAttachment
<1>2. TaskTypeOK' /\ HealthTypeOK' /\ OutsideTypeOK'
  <2>1. inbox' \in Seq(Message)
    BY DEF Enqueue, Inductive, TypeOK, TaskTypeOK
  <2> QED
    BY <1>1, <2>1
    DEF Inductive, TypeOK, TaskTypeOK, HealthTypeOK, OutsideTypeOK, health, poll, outside
<1>3. RetryExplained' /\ (port # NoPort => pollFailures' < 3)
  BY <1>1 DEF Inductive, RetryExplained, TaskMatchesConnection, attachment, health
<1> QED BY <1>1, <1>2, <1>3, SameKeeps DEF StepsOn

\* A discovery scan.
LEMMA ScanKeeps == ASSUME Inductive, Scan PROVE Inductive'
<1>1. [kind |-> "candidates", ports |-> host] \in Message
  BY DEF Message, Inductive, TypeOK, OutsideTypeOK
<1> QED BY <1>1, EnqueueKeeps DEF Scan

\* A shutdown request.
LEMMA RequestShutdownKeeps == ASSUME Inductive, RequestShutdown PROVE Inductive'
<1>1. [kind |-> "shutdown", ports |-> {}] \in Message
  BY DEF Message
<1> QED BY <1>1, EnqueueKeeps DEF RequestShutdown

\* A discovery scan that fails.
LEMMA ScanFailsKeeps == ASSUME Inductive, ScanFails PROVE Inductive'
<1>1. /\ step' = step /\ target' = target /\ link' = link
      /\ UNCHANGED <<lastDump, inbox, devPaused, upsets, attachment, display, health, poll,
                     host, moves>>
  BY DEF ScanFails, SameAttachment
<1>2. TaskTypeOK' /\ HealthTypeOK' /\ OutsideTypeOK'
  BY <1>1
  DEF ScanFails, Inductive, TypeOK, TaskTypeOK, HealthTypeOK, OutsideTypeOK, health, poll
<1>3. RetryExplained' /\ (port # NoPort => pollFailures' < 3)
  BY <1>1 DEF Inductive, RetryExplained, TaskMatchesConnection, attachment, health
<1> QED BY <1>1, <1>2, <1>3, SameKeeps DEF StepsOn
--------------------------------------------------------------------------------
\* Pauses and exclusive operations keep the invariant.

\* A Ready device that becomes Busy or gains an owner of its pause: what is left
\* to show is about the owners alone.
LEMMA OwnerAddedKeeps ==
    ASSUME Inductive, port # NoPort, conn' \in {"ready", "busy"},
           UNCHANGED <<candidates, port, link, identity, session, fresh, sampled, health, outside>>,
           TaskTypeOK', HealthTypeOK', DisplayTypeOK', devPaused' \in SUBSET Ports,
           upsets' \in Nat, step = "select",
           step' \in {"select"} \union PlainOps \union PausedOps,
           BusyMeansOwned', DumpIsCurrent', PauseAccounted',
           DumpOpen' => step' = "select" /\ dump'.id > 0 /\ dump'.lease # Off
    PROVE  Inductive'
<1>1. conn \in {"ready", "busy"} /\ retry' = retry /\ pollFailures' = pollFailures
  BY DEF Inductive, DetachedIsClean, health
<1>2. AttachmentTypeOK' /\ OutsideTypeOK'
  BY DEF Inductive, TypeOK, AttachmentTypeOK, OutsideTypeOK, Connections, outside
<1>3. step' \notin {"connect", "reading", "stopped"}
  BY DEF PlainOps, PausedOps
<1>4. step' \in PlainOps \union PausedOps => ~DumpOpen'
  BY DEF PlainOps, PausedOps
<1>5. DetachedIsClean' /\ RetryExplained' /\ TaskMatchesConnection'
  BY <1>1, <1>3, <1>4 DEF Inductive, DetachedIsClean, RetryExplained, TaskMatchesConnection
<1> QED BY <1>2, <1>5 DEF Inductive, TypeOK

\* A dump begins, is refused by the device, or finds it gone.
LEMMA BeginHistoryDumpKeeps == ASSUME Inductive, BeginHistoryDump PROVE Inductive'
<1>1. step = "select" /\ step' = "select" /\ conn = "ready"
      /\ port # NoPort /\ port \in Ports /\ ~DumpOpen
  BY IdleFacts DEF BeginHistoryDump
<1>2. PICK r \in Results :
         /\ EnsureDisplayPaused(r)
         /\ \/ /\ r = "ok"
               /\ lastDump' = lastDump + 1
               /\ dump' = [id |-> lastDump + 1, session |-> session, lease |-> LeaseTicks]
               /\ slot' = lastDump + 1
               /\ SetBusy /\ UNCHANGED debugLease
            \/ /\ r = "err"
               /\ SameAttachment /\ UNCHANGED <<lastDump, dump, slot, debugLease>>
            \/ r = "lost" /\ Detach /\ UNCHANGED lastDump
  BY DEF BeginHistoryDump
<1>3. /\ devPaused' \in SUBSET Ports /\ upsets' \in Nat
      /\ r = "ok"  => paused' = TRUE /\ resumeRetry' \in {resumeRetry, Off}
      /\ r = "err" => paused' = paused /\ resumeRetry' = resumeRetry
  BY <1>1, <1>2, EnsureEffect DEF Inductive, TypeOK
<1>4. UNCHANGED <<step, target, inbox, health, poll, outside>>
  BY DEF BeginHistoryDump
<1>5. HealthTypeOK' /\ retry' = retry
  BY <1>4 DEF Inductive, TypeOK, HealthTypeOK, health, poll
<1>6. TaskTypeOK'
  <2>1. lastDump' \in Nat
    BY <1>2 DEF Inductive, TypeOK, TaskTypeOK
  <2> QED BY <1>4, <2>1 DEF Inductive, TypeOK, TaskTypeOK
<1>7. CASE r = "ok"
  <2>1. /\ lastDump' = lastDump + 1
        /\ dump' = [id |-> lastDump + 1, session |-> session, lease |-> LeaseTicks]
        /\ slot' = lastDump + 1 /\ conn' = "busy"
        /\ UNCHANGED <<debugLease, candidates, port, link, identity, session, fresh, sampled>>
    BY <1>2, <1>7 DEF SetBusy, Become
  <2>2. dump' \in [id : Nat, session : Nat, lease : Timer] /\ slot' \in Nat /\ lastDump \in Nat
    BY <2>1, TimerFacts DEF Inductive, TypeOK, TaskTypeOK, AttachmentTypeOK
  <2>3. DisplayTypeOK'
    BY <1>3, <1>7, <2>1, <2>2, TimerFacts DEF Inductive, TypeOK, DisplayTypeOK
  <2>4. DumpOpen' /\ dump'.id > 0 /\ dump'.lease # Off
    BY <2>1, <2>2, TimerFacts, NoDumpFacts DEF DumpOpen
  <2>5. BusyMeansOwned' /\ DumpIsCurrent' /\ PauseAccounted'
    <3>1. Owners' # {}
      BY <2>4 DEF Owners
    <3> QED
      BY <1>3, <1>7, <2>1, <2>2, <2>4, <3>1
      DEF BusyMeansOwned, DumpIsCurrent, PauseAccounted
  <2> QED BY <1>1, <1>3, <1>4, <1>5, <1>6, <2>1, <2>3, <2>4, <2>5, OwnerAddedKeeps
<1>8. CASE r = "err"
  <2>1. SameAttachment /\ UNCHANGED <<lastDump, display>>
    BY <1>2, <1>3, <1>8 DEF display
  <2> QED BY <1>1, <1>3, <1>4, <1>6, <2>1, NoEffectKeeps
<1>9. CASE r = "lost"
  BY <1>1, <1>2, <1>3, <1>4, <1>5, <1>6, <1>9, LostKeeps
<1> QED BY <1>7, <1>8, <1>9 DEF Results

\* A debug pause begins or is renewed, fails, or finds the device gone.
LEMMA PauseDisplayKeeps == ASSUME Inductive, PauseDisplay PROVE Inductive'
<1>1. step = "select" /\ step' = "select" /\ port # NoPort /\ port \in Ports
  BY DEF PauseDisplay, At, Inductive, TypeOK, AttachmentTypeOK, PortOrNone, DetachedIsClean
<1>2. PICK r \in Results, t \in DebugTicks :
         /\ EnsureDisplayPaused(r)
         /\ IF r = "lost" THEN Detach
            ELSE /\ debugLease' = IF r = "ok" THEN t ELSE debugLease
                 /\ SameAttachment /\ UNCHANGED <<dump, slot>>
  BY DEF PauseDisplay
<1>3. /\ devPaused' \in SUBSET Ports /\ upsets' \in Nat
      /\ r = "ok"  => paused' = TRUE /\ resumeRetry' \in {resumeRetry, Off}
      /\ r = "err" => paused' = paused /\ resumeRetry' = resumeRetry
  BY <1>1, <1>2, EnsureEffect DEF Inductive, TypeOK
<1>4. UNCHANGED <<target, lastDump, inbox, health, poll, outside>>
  BY DEF PauseDisplay, Quiet
<1>5. TaskTypeOK' /\ HealthTypeOK' /\ retry' = retry
  BY <1>1, <1>4
  DEF Inductive, TypeOK, TaskTypeOK, HealthTypeOK, health, poll
<1>6. CASE r = "ok"
  <2>1. /\ debugLease' \in Nat \ {0} /\ UNCHANGED <<dump, slot>> /\ conn' = conn
        /\ UNCHANGED <<candidates, port, link, identity, session, fresh, sampled>>
        /\ conn \in {"ready", "busy"}
    BY <1>1, <1>2, <1>6, TimesAssumption
    DEF SameAttachment, attachment, Inductive, DetachedIsClean
  <2>2. DisplayTypeOK'
    BY <1>3, <1>6, <2>1, TimerFacts DEF Inductive, TypeOK, DisplayTypeOK, Timer
  <2>3. (DumpOpen' <=> DumpOpen) /\ DebugOpen' /\ (DumpOpen => dump.id > 0 /\ dump.lease # Off)
    BY <2>1 DEF DumpOpen, DebugOpen, Off, Inductive, TaskMatchesConnection
  <2>4. BusyMeansOwned' /\ DumpIsCurrent' /\ PauseAccounted'
    <3>1. Owners' # {}
      BY <2>3 DEF Owners
    <3> QED
      BY <1>1, <1>3, <1>4, <1>6, <2>1, <2>3, <3>1
      DEF Inductive, BusyMeansOwned, DumpIsCurrent, PauseAccounted
  <2> QED BY <1>1, <1>3, <1>4, <1>5, <2>1, <2>2, <2>3, <2>4, OwnerAddedKeeps
<1>7. CASE r = "err"
  <2>1. SameAttachment /\ UNCHANGED display
    BY <1>2, <1>3, <1>7 DEF display
  <2> QED BY <1>1, <1>3, <1>4, <1>5, <2>1, NoEffectKeeps
<1>8. CASE r = "lost"
  BY <1>1, <1>2, <1>3, <1>4, <1>5, <1>8, LostKeeps
<1> QED BY <1>6, <1>7, <1>8 DEF Results

\* An exclusive operation starts.
LEMMA StartPlainKeeps == ASSUME Inductive, StartPlain PROVE Inductive'
<1>1. step = "select" /\ conn = "ready" /\ port # NoPort /\ ~DumpOpen
  BY IdleFacts DEF StartPlain
<1>2. /\ step' \in PlainOps /\ conn' = "busy"
      /\ UNCHANGED <<candidates, port, link, identity, session, fresh, sampled>>
      /\ UNCHANGED <<dump, slot, debugLease, paused, resumeRetry, devPaused, upsets>>
      /\ UNCHANGED <<target, lastDump, inbox, health, poll, outside>>
  BY DEF StartPlain, SetBusy, Become, display, Quiet
<1>3. TaskTypeOK' /\ HealthTypeOK' /\ DisplayTypeOK'
  BY <1>2
  DEF Inductive, TypeOK, TaskTypeOK, HealthTypeOK, DisplayTypeOK, Steps, health, poll
<1>4. devPaused' \in SUBSET Ports /\ upsets' \in Nat
  BY <1>2 DEF Inductive, TypeOK, OutsideTypeOK
<1>5. ~DumpOpen' /\ (DebugOpen' <=> DebugOpen) /\ ~Operating' /\ ~Operating
  BY <1>1, <1>2 DEF DumpOpen, DebugOpen, Operating, PlainOps, PausedOps
<1>6. BusyMeansOwned' /\ DumpIsCurrent' /\ PauseAccounted'
  <2>1. Owners' = Owners
    BY <1>1, <1>5 DEF Owners
  <2> QED
    BY <1>2, <1>5, <2>1
    DEF Inductive, BusyMeansOwned, DumpIsCurrent, PauseAccounted
<1> QED BY <1>1, <1>2, <1>3, <1>4, <1>5, <1>6, OwnerAddedKeeps

\* An exclusive operation ends: Ready again, or detached.
LEMMA FinishPlainKeeps == ASSUME Inductive, FinishPlain PROVE Inductive'
<1>1. /\ step \in PlainOps /\ step' = "select"
      /\ UNCHANGED <<target, lastDump, inbox, health, poll, outside>>
  BY DEF FinishPlain, Goto, Quiet
<1>2. /\ ~DumpOpen /\ port # NoPort /\ pollFailures < 3
      /\ step \notin PausedOps \union {"stopped"}
  BY <1>1
  DEF PlainOps, PausedOps, Inductive, BusyMeansOwned, DetachedIsClean, TaskMatchesConnection
<1>3. TaskTypeOK' /\ HealthTypeOK' /\ retry' = retry /\ pollFailures' = pollFailures
  BY <1>1 DEF Inductive, TypeOK, TaskTypeOK, HealthTypeOK, Steps, health, poll
<1>4. PICK r \in Results :
         IF At("reboot") /\ r = "ok"
         THEN /\ link /\ upsets' = upsets + 1
              /\ devPaused' = devPaused \ {port}
              /\ Detach
         ELSE /\ Answer(r) /\ UNCHANGED devPaused
              /\ IF r = "lost" THEN Detach
                 ELSE /\ Become("ready") /\ UNCHANGED display
                      /\ TakeSample(At("faults") /\ r = "ok")
  BY DEF FinishPlain
<1>5. devPaused' \in SUBSET Ports /\ upsets' \in Nat
  BY <1>4, AnswerType DEF Inductive, TypeOK, OutsideTypeOK
<1>6. CASE Detach
  BY <1>1, <1>2, <1>3, <1>5, <1>6, LostKeeps
<1>7. CASE ~Detach
  <2>1. Become("ready") /\ UNCHANGED display /\ TakeSample(At("faults") /\ r = "ok")
    BY <1>4, <1>7
  <2>2. /\ fresh' \in BOOLEAN /\ sampled' \in Nat
        /\ fresh' => (fresh /\ sampled' = sampled) \/ sampled' = session
    BY <2>1 DEF TakeSample, Inductive, TypeOK, AttachmentTypeOK
  <2> QED BY <1>1, <1>2, <1>3, <1>5, <2>1, <2>2, ReadyKeeps
<1> QED BY <1>6, <1>7

\* An operation on the SPI flash pauses the display and starts.
LEMMA StartPausedKeeps == ASSUME Inductive, StartPaused PROVE Inductive'
<1>1. step = "select" /\ conn = "ready" /\ port # NoPort /\ port \in Ports /\ ~DumpOpen
  BY IdleFacts DEF StartPaused
<1>2. PICK r \in Results :
         /\ EnsureDisplayPaused(r)
         /\ r = "ok"   => /\ step' \in PausedOps /\ SetBusy
                          /\ UNCHANGED <<dump, slot, debugLease>>
         /\ r = "err"  => /\ SameAttachment /\ UNCHANGED <<step, dump, slot, debugLease>>
         /\ r = "lost" => Detach /\ UNCHANGED step
  BY DEF StartPaused, Results
<1>3. /\ devPaused' \in SUBSET Ports /\ upsets' \in Nat
      /\ r = "ok"  => paused' = TRUE /\ resumeRetry' \in {resumeRetry, Off}
      /\ r = "err" => paused' = paused /\ resumeRetry' = resumeRetry
  BY <1>1, <1>2, EnsureEffect DEF Inductive, TypeOK
<1>4. UNCHANGED <<target, lastDump, inbox, health, poll, outside>>
  BY DEF StartPaused, Quiet
<1>5. TaskTypeOK' /\ HealthTypeOK' /\ retry' = retry
  <2>1. step' \in Steps
    BY <1>1, <1>2 DEF Results, Steps
  <2> QED BY <1>4, <2>1 DEF Inductive, TypeOK, TaskTypeOK, HealthTypeOK, health, poll
<1>6. CASE r = "ok"
  <2>1. /\ step' \in PausedOps /\ conn' = "busy" /\ UNCHANGED <<dump, slot, debugLease>>
        /\ UNCHANGED <<candidates, port, link, identity, session, fresh, sampled>>
    BY <1>2, <1>6 DEF SetBusy, Become
  <2>2. DisplayTypeOK'
    BY <1>3, <1>6, <2>1, TimerFacts DEF Inductive, TypeOK, DisplayTypeOK
  <2>3. ~DumpOpen' /\ Operating'
    BY <1>1, <2>1 DEF DumpOpen, Operating
  <2>4. BusyMeansOwned' /\ DumpIsCurrent' /\ PauseAccounted'
    <3>1. Owners' # {}
      BY <2>3 DEF Owners
    <3> QED
      BY <1>3, <1>6, <2>1, <2>3, <3>1
      DEF Inductive, BusyMeansOwned, DumpIsCurrent, PauseAccounted
  <2> QED BY <1>1, <1>3, <1>4, <1>5, <2>1, <2>2, <2>3, <2>4, OwnerAddedKeeps
<1>7. CASE r = "err"
  <2>1. SameAttachment /\ UNCHANGED display /\ step' = "select"
    BY <1>1, <1>2, <1>3, <1>7 DEF display
  <2> QED BY <1>1, <1>3, <1>4, <1>5, <2>1, NoEffectKeeps
<1>8. CASE r = "lost"
  BY <1>1, <1>2, <1>3, <1>4, <1>5, <1>8, LostKeeps
<1> QED BY <1>6, <1>7, <1>8 DEF Results

\* What a read that overlooks a lost connection does: it had the only pause,
\* which stays recorded.
LEMMA OverlookedEffect ==
    ASSUME OutsideTypeOK, LossOverlooked
    PROVE  /\ dump = NoDump /\ debugLease = Off /\ paused
           /\ devPaused' \in SUBSET Ports /\ upsets' \in Nat
           /\ conn' = "ready" /\ link' = FALSE
           /\ UNCHANGED <<candidates, port, identity, session, fresh, sampled>>
           /\ UNCHANGED <<dump, slot, debugLease, paused, resumeRetry>>
<1>1. dump = NoDump /\ debugLease = Off /\ paused /\ Send("lost", FALSE)
  BY DEF LossOverlooked, ResumeDisplayIfUnowned, NoCall
<1>2. devPaused' \in SUBSET Ports /\ upsets' \in Nat
  BY <1>1, AnswerType DEF Send, OutsideTypeOK
<1> QED BY <1>1, <1>2 DEF LossOverlooked, display

\* A read overlooks that its resume has lost the connection: the pause that is
\* left is that of a dead tty.
LEMMA LossOverlookedKeeps ==
    ASSUME Inductive, LossOverlooked, port # NoPort, step \in PausedOps, step' = "select",
           UNCHANGED <<lastDump, outside>>, TaskTypeOK', HealthTypeOK',
           retry' = retry, pollFailures' = pollFailures
    PROVE  Inductive'
<1>1. /\ dump = NoDump /\ debugLease = Off /\ paused
      /\ devPaused' \in SUBSET Ports /\ upsets' \in Nat
      /\ conn' = "ready" /\ link' = FALSE
      /\ UNCHANGED <<candidates, port, identity, session, fresh, sampled>>
      /\ UNCHANGED <<dump, slot, debugLease, paused, resumeRetry>>
  BY OverlookedEffect DEF Inductive, TypeOK
<1>2. AttachmentTypeOK' /\ DisplayTypeOK' /\ OutsideTypeOK'
  BY <1>1
  DEF Inductive, TypeOK, AttachmentTypeOK, DisplayTypeOK, OutsideTypeOK, Connections, outside
<1>3. conn \in {"ready", "busy"}
  BY DEF Inductive, DetachedIsClean
<1>4. ~DumpOpen' /\ ~DebugOpen' /\ ~Operating'
  BY <1>1 DEF DumpOpen, DebugOpen, Operating, PausedOps
<1>5. DumpIsCurrent' /\ PauseAccounted'
  <2>1. Owners' = {}
    BY <1>4, OwnersFacts DEF Owners
  <2> QED BY <1>1, <1>4, <2>1 DEF Inductive, DumpIsCurrent, PauseAccounted
<1>6. BusyMeansOwned' /\ DetachedIsClean' /\ TaskMatchesConnection' /\ RetryExplained'
  BY <1>1, <1>3, <1>4
  DEF Inductive, BusyMeansOwned, DetachedIsClean, TaskMatchesConnection, RetryExplained,
      PlainOps, PausedOps
<1> QED BY <1>2, <1>5, <1>6 DEF Inductive, TypeOK

\* An operation on the SPI flash ends, and gives up its pause.
LEMMA FinishPausedKeeps == ASSUME Inductive, FinishPaused PROVE Inductive'
<1>1. /\ step \in PausedOps /\ step' = "select"
      /\ UNCHANGED <<target, lastDump, inbox, health, poll, outside>>
  BY DEF FinishPaused, Goto, Quiet
<1>2. dump = NoDump /\ port # NoPort /\ step \notin {"connect", "stopped"}
  BY <1>1
  DEF PausedOps, Inductive, BusyMeansOwned, DetachedIsClean, TaskMatchesConnection, DumpOpen
<1>3. CASE Release(dump, debugLease, slot, SetReady)
  <2>1. SetReady => /\ UNCHANGED <<candidates, port, link, identity, session, fresh, sampled>>
                    /\ conn' = "ready"
    BY DEF SetReady, Become
  <2> QED BY <1>1, <1>2, <1>3, <2>1, ReleaseKeeps
<1>4. TaskTypeOK' /\ HealthTypeOK' /\ retry' = retry /\ pollFailures' = pollFailures
  BY <1>1 DEF Inductive, TypeOK, TaskTypeOK, HealthTypeOK, Steps, health, poll
<1>5. CASE WorkLost
  <2>1. Detach /\ devPaused' \in SUBSET Ports /\ upsets' \in Nat
    BY <1>5 DEF WorkLost, Inductive, TypeOK, OutsideTypeOK
  <2> QED BY <1>1, <1>2, <1>4, <2>1, LostKeeps
<1>6. CASE LossOverlooked
  BY <1>1, <1>2, <1>4, <1>6, LossOverlookedKeeps
<1> QED BY <1>3, <1>5, <1>6 DEF FinishPaused
--------------------------------------------------------------------------------
\* The invariant.

\* Every step keeps the invariant.
LEMMA NextKeeps == Inductive /\ [Next]_vars => Inductive'
<1> SUFFICES ASSUME Inductive, [Next]_vars PROVE Inductive'
  OBVIOUS
<1>1. CASE HandleHostEvent
  BY <1>1, NoCandidateKeeps, SeveralCandidatesKeeps, CandidateIgnoredKeeps,
     CandidateTriedKeeps, ShutdownKeeps DEF HandleHostEvent
<1>2. CASE FinishConnect
  BY <1>2, ConnectedKeeps, ConnectionFailedKeeps DEF FinishConnect
<1>3. CASE WakeUp
  BY <1>3, WakeUpKeeps
<1>4. CASE TimerStage
  BY <1>4, ExpireHistoryDumpKeeps, ExpireDebugPauseKeeps, RetryDisplayResumeCleanupKeeps,
     PollOnceKeeps DEF TimerStage
<1>5. CASE Command
  BY <1>5, SetScreenKeeps, BeginHistoryDumpKeeps, ReadHistoryDumpChunkKeeps,
     EndHistoryDumpKeeps, PauseDisplayKeeps, ResumeDisplayKeeps, SetPollIntervalKeeps,
     StartPlainKeeps, StartPausedKeeps DEF Command
<1>6. CASE FinishOperation
  BY <1>6, ChunkReadKeeps, FinishPlainKeeps, FinishPausedKeeps DEF FinishOperation
<1>7. CASE Outside
  BY <1>7, TickKeeps, HostChangeKeeps, ScanKeeps, ScanFailsKeeps, RequestShutdownKeeps
  DEF Outside
<1>8. CASE UNCHANGED vars
  <2>1. StepsOn /\ UNCHANGED <<attachment, display, lastDump>> /\ (~link => ~link')
    BY <1>8 DEF vars, StepsOn
  <2>2. TaskTypeOK' /\ HealthTypeOK' /\ OutsideTypeOK' /\ RetryExplained'
    BY <1>8
    DEF vars, attachment, health, poll, outside, Inductive, TypeOK, TaskTypeOK, HealthTypeOK,
        OutsideTypeOK, RetryExplained
  <2>3. port # NoPort => pollFailures' < 3
    BY <1>8 DEF vars, health, Inductive, TaskMatchesConnection
  <2> QED BY <2>1, <2>2, <2>3, SameKeeps
<1> QED BY <1>1, <1>2, <1>3, <1>4, <1>5, <1>6, <1>7, <1>8 DEF Next

\* The manager's inductive invariant.
THEOREM AlwaysInductive == Spec => []Inductive
<1>1. Init => Inductive
  BY InitInductive
<1>2. Inductive /\ [Next]_vars => Inductive'
  BY NextKeeps
<1> QED BY <1>1, <1>2, PTL DEF Spec

\* Every variable keeps its type.
THEOREM TypeCorrect == Spec => []TypeOK
BY AlwaysInductive, PTL DEF Inductive

\* Busy means that a dump is open or an exclusive operation runs.
THEOREM BusyIsOwned == Spec => []BusyMeansOwned
BY AlwaysInductive, PTL DEF Inductive

\* Only the open dump can be cancelled.
THEOREM DumpStaysCurrent == Spec => []DumpIsCurrent
BY AlwaysInductive, PTL DEF Inductive

\* Owners have the display paused, and a pause without owner will be retried.
THEOREM PauseIsAccounted == Spec => []PauseAccounted
BY AlwaysInductive, PTL DEF Inductive

\* Nothing of a session survives it.
THEOREM DetachmentIsClean == Spec => []DetachedIsClean
BY AlwaysInductive, PTL DEF Inductive

\* A retry state explains why no connection is attempted.
THEOREM RetryIsExplained == Spec => []RetryExplained
BY AlwaysInductive, PTL DEF Inductive

--------------------------------------------------------------------------------
\* Sessions.

\* Detaching starts no session.
LEMMA DetachSession ==
    ASSUME NEW c, NEW cs, DetachTo(c, cs) PROVE port' = NoPort /\ session' = session
BY DEF DetachTo

\* Nor does a disconnect.
LEMMA DisconnectSession ==
    ASSUME NEW c, NEW cs, Disconnect(c, cs)
    PROVE  port' \in {port, NoPort} /\ session' = session
BY DetachSession DEF Disconnect

\* Nor does giving up a lease.
LEMMA ReleaseSession ==
    ASSUME NEW d, NEW g, NEW s, NEW ACTION goOn, Release(d, g, s, goOn),
           goOn => port' = port /\ session' = session
    PROVE  port' \in {port, NoPort} /\ session' = session
BY DetachSession DEF Release, Detach

\* Only a connection attempt that succeeds attaches a device or starts a session.
LEMMA NextSessionSteps ==
    Next => Connected \/ (port' \in {port, NoPort} /\ session' = session)
<1> SUFFICES ASSUME Next, ~Connected PROVE port' \in {port, NoPort} /\ session' = session
  OBVIOUS
<1>1. CASE HandleHostEvent
  BY <1>1, DetachSession, DisconnectSession
  DEF HandleHostEvent, NoCandidate, SeveralCandidates, CandidateIgnored, CandidateTried,
      Shutdown, SameAttachment, attachment
<1>2. CASE ConnectionFailed
  BY <1>2 DEF ConnectionFailed
<1>3. CASE TimerStage
  <2>1. CASE PollOnce
    BY <2>1, DetachSession
    DEF PollOnce, ReadTelemetry, PollFailed, Become, Detach, SameAttachment, attachment
  <2>2. CASE ~PollOnce
    BY <1>3, <2>2, ReleaseSession
    DEF TimerStage, ExpireHistoryDump, ExpireDebugPause, RetryDisplayResumeCleanup,
        SetReady, Become, SameAttachment, attachment
  <2> QED BY <2>1, <2>2
<1>4. CASE Command
  <2>1. CASE SetScreen \/ BeginHistoryDump \/ PauseDisplay
    BY <2>1, DetachSession
    DEF SetScreen, BeginHistoryDump, PauseDisplay, Detach, SetBusy, Become,
        SameAttachment, attachment
  <2>2. CASE EndHistoryDump \/ ResumeDisplay
    BY <2>2, ReleaseSession
    DEF EndHistoryDump, ResumeDisplay, SetReady, Become, SameAttachment, attachment
  <2>3. CASE StartPaused
    BY <2>3, DetachSession
    DEF StartPaused, Results, Detach, SetBusy, Become, SameAttachment, attachment
  <2>4. CASE ReadHistoryDumpChunk \/ SetPollInterval \/ StartPlain
    BY <2>4
    DEF ReadHistoryDumpChunk, SetPollInterval, StartPlain, SetBusy, Become,
        SameAttachment, attachment
  <2> QED BY <1>4, <2>1, <2>2, <2>3, <2>4 DEF Command
<1>5. CASE FinishOperation
  <2>1. CASE ChunkRead \/ FinishPlain
    BY <2>1, DetachSession
    DEF ChunkRead, FinishPlain, Detach, Become, SameAttachment, attachment
  <2>2. CASE FinishPaused
    BY <2>2, ReleaseSession, DetachSession
    DEF FinishPaused, WorkLost, LossOverlooked, Detach, SetReady, Become
  <2> QED BY <1>5, <2>1, <2>2 DEF FinishOperation
<1>6. CASE Outside \/ WakeUp
  BY <1>6
  DEF Outside, WakeUp, Tick, HostChange, Scan, RequestShutdown, Enqueue, ScanFails,
      SameAttachment, attachment
<1> QED BY <1>1, <1>2, <1>3, <1>4, <1>5, <1>6 DEF Next, FinishConnect

\* Every attachment is a new session, and nothing else is.
THEOREM AttachmentStartsSession == Spec => AttachmentIsNewSession
<1> DEFINE NewSession == IF port' # port /\ port' # NoPort THEN session' = session + 1
                         ELSE session' = session
<1>1. Inductive /\ [Next]_vars => [NewSession]_vars
  <2> SUFFICES ASSUME Inductive, Next PROVE NewSession
    OBVIOUS
  <2>1. CASE Connected
    <3>1. port = NoPort /\ target \in Ports
      BY <2>1, ConnectingFacts DEF Connected, At
    <3>2. port' = target /\ session' = session + 1
      BY <2>1 DEF Connected, NextSession
    <3> QED BY <3>1, <3>2, PortsAssumption
  <2>2. CASE ~Connected
    BY <2>2, NextSessionSteps
  <2> QED BY <2>1, <2>2
<1> QED BY <1>1, AlwaysInductive, PTL DEF Spec, AttachmentIsNewSession
--------------------------------------------------------------------------------
\* The recorded pause is the true one when no send fails after its bytes went out.

\* A send that fails changes nothing on the device.
LEMMA SendTruth ==
    ASSUME ~LateFaults, NEW r \in Results, NEW on, Send(r, on)
    PROVE  IF r # "ok" THEN devPaused' = devPaused
           ELSE IF on THEN devPaused' = devPaused \union {port}
           ELSE devPaused' = devPaused \ {port}
BY DEF Send, Reached

\* A pause that is answered is recorded as it is.
LEMMA EnsureTruth ==
    ASSUME ~LateFaults, PauseRecordIsTrue, port # NoPort, NEW r \in Results,
           EnsureDisplayPaused(r), r # "lost"
    PROVE  paused' <=> port \in devPaused'
<1>1. CASE paused
  BY <1>1 DEF EnsureDisplayPaused, NoCall, PauseRecordIsTrue
<1>2. CASE ~paused
  <2>1. Send(r, TRUE) /\ (r = "ok" => paused' = TRUE) /\ (r = "err" => paused' = paused)
    BY <1>2 DEF EnsureDisplayPaused
  <2> QED BY <1>2, <2>1, SendTruth DEF PauseRecordIsTrue, Results
<1> QED BY <1>1, <1>2

\* So is a resume.
LEMMA ReleaseTruth ==
    ASSUME ~LateFaults, PauseRecordIsTrue,
           NEW d, NEW g, NEW s, NEW ACTION goOn, Release(d, g, s, goOn),
           goOn => port' = port
    PROVE  PauseRecordIsTrue'
<1>1. PICK r \in Results : /\ ResumeDisplayIfUnowned(d, g, r)
                          /\ IF r = "lost" THEN Detach
                             ELSE dump' = d /\ debugLease' = g /\ slot' = s /\ goOn
  BY DEF Release
<1>2. CASE r = "lost"
  BY <1>1, <1>2, DetachSession DEF Detach, PauseRecordIsTrue
<1>3. CASE r # "lost"
  <2>0. port' = port
    BY <1>1, <1>3
  <2>1. CASE d # NoDump \/ g # Off \/ ~paused
    <3>1. paused' = paused /\ devPaused' = devPaused
      BY <1>1, <2>1 DEF ResumeDisplayIfUnowned, NoCall
    <3> QED BY <2>0, <3>1 DEF PauseRecordIsTrue
  <2>2. CASE ~(d # NoDump \/ g # Off \/ ~paused)
    <3>1. Send(r, FALSE) /\ (r = "ok" => paused' = FALSE) /\ (r = "err" => paused' = paused)
      BY <1>1, <2>2 DEF ResumeDisplayIfUnowned
    <3> QED BY <1>3, <2>0, <2>2, <3>1, SendTruth DEF PauseRecordIsTrue, Results
  <2> QED BY <2>1, <2>2
<1> QED BY <1>2, <1>3

\* A step that leaves the pause, its record and the device alone, or the device.
LEMMA UntouchedTruth ==
    ASSUME PauseRecordIsTrue,
           \/ port' = port /\ paused' = paused /\ devPaused' = devPaused
           \/ port' = NoPort
    PROVE  PauseRecordIsTrue'
BY DEF PauseRecordIsTrue

\* No step makes the record untrue.
LEMMA NextTruth ==
    ASSUME ~LateFaults, Inductive, PauseRecordIsTrue, [Next]_vars
    PROVE  PauseRecordIsTrue'
<1>1. CASE HandleHostEvent
  <2>1. \/ port' = port /\ paused' = paused /\ devPaused' = devPaused
        \/ port' = NoPort
    BY <1>1, DetachSession
    DEF HandleHostEvent, NoCandidate, SeveralCandidates, CandidateIgnored, CandidateTried,
        Shutdown, Disconnect, SameAttachment, attachment, display
  <2> QED BY <2>1, UntouchedTruth
<1>2. CASE FinishConnect
  BY <1>2 DEF FinishConnect, Connected, ConnectionFailed, DropLeases, PauseRecordIsTrue
<1>3. CASE TimerStage
  <2>1. CASE PollOnce
    <3>1. \/ port' = port /\ paused' = paused /\ devPaused' = devPaused
          \/ port' = NoPort
      BY <2>1, DetachSession
      DEF PollOnce, ReadTelemetry, PollFailed, Become, Detach, SameAttachment, attachment,
          display
    <3> QED BY <3>1, UntouchedTruth
  <2>2. CASE ExpireHistoryDump
    <3>1. SetReady => port' = port
      BY DEF SetReady, Become
    <3> QED BY <2>2, <3>1, ReleaseTruth, UntouchedTruth
            DEF ExpireHistoryDump, SameAttachment, attachment, display
  <2>3. CASE ExpireDebugPause \/ RetryDisplayResumeCleanup
    BY <2>3, ReleaseTruth, UntouchedTruth
    DEF ExpireDebugPause, RetryDisplayResumeCleanup, SameAttachment, attachment, display
  <2> QED BY <1>3, <2>1, <2>2, <2>3 DEF TimerStage
<1>4. CASE Command
  <2>1. CASE SetScreen \/ ReadHistoryDumpChunk \/ SetPollInterval \/ StartPlain
    <3>1. \/ port' = port /\ paused' = paused /\ devPaused' = devPaused
          \/ port' = NoPort
      BY <2>1, DetachSession
      DEF SetScreen, ReadHistoryDumpChunk, SetPollInterval, StartPlain, Detach, SetBusy,
          Become, SameAttachment, attachment, display
    <3> QED BY <3>1, UntouchedTruth
  <2>2. CASE EndHistoryDump \/ ResumeDisplay
    BY <2>2, ReleaseTruth
    DEF EndHistoryDump, ResumeDisplay, SetReady, Become, SameAttachment, attachment
  <2>3. CASE BeginHistoryDump
    <3>1. PICK r \in Results :
             /\ EnsureDisplayPaused(r)
             /\ \/ r # "lost" /\ (SetBusy \/ SameAttachment)
                \/ r = "lost" /\ Detach
      BY <2>3 DEF BeginHistoryDump
    <3>2. port # NoPort
      BY <2>3, IdleFacts DEF BeginHistoryDump
    <3> QED BY <3>1, <3>2, EnsureTruth, DetachSession
            DEF Detach, SetBusy, Become, SameAttachment, attachment, PauseRecordIsTrue
  <2>4. CASE PauseDisplay
    <3>1. PICK r \in Results : /\ EnsureDisplayPaused(r)
                               /\ IF r = "lost" THEN Detach ELSE SameAttachment
      BY <2>4 DEF PauseDisplay
    <3>2. port # NoPort
      BY <2>4 DEF PauseDisplay, Inductive, DetachedIsClean
    <3> QED BY <3>1, <3>2, EnsureTruth, DetachSession
            DEF Detach, SameAttachment, attachment, PauseRecordIsTrue
  <2>5. CASE StartPaused
    <3>1. PICK r \in Results :
             /\ EnsureDisplayPaused(r)
             /\ \/ r # "lost" /\ (SetBusy \/ SameAttachment)
                \/ r = "lost" /\ Detach
      BY <2>5 DEF StartPaused, Results
    <3>2. port # NoPort
      BY <2>5, IdleFacts DEF StartPaused
    <3> QED BY <3>1, <3>2, EnsureTruth, DetachSession
            DEF Detach, SetBusy, Become, SameAttachment, attachment, PauseRecordIsTrue
  <2> QED BY <1>4, <2>1, <2>2, <2>3, <2>4, <2>5 DEF Command
<1>5. CASE FinishOperation
  <2>1. CASE ChunkRead \/ FinishPlain
    <3>1. \/ port' = port /\ paused' = paused /\ devPaused' = devPaused
          \/ port' = NoPort
      BY <2>1, DetachSession
      DEF ChunkRead, FinishPlain, Detach, Become, SameAttachment, attachment, display
    <3> QED BY <3>1, UntouchedTruth
  <2>2. CASE FinishPaused
    <3>1. SetReady => port' = port
      BY DEF SetReady, Become
    <3>2. CASE LossOverlooked
      <4>1. Send("lost", FALSE) /\ port' = port /\ paused' = paused
        BY <3>2 DEF LossOverlooked, ResumeDisplayIfUnowned, NoCall, display
      <4> QED BY <4>1, SendTruth, UntouchedTruth DEF Results
    <3> QED BY <2>2, <3>1, <3>2, ReleaseTruth, UntouchedTruth, DetachSession
            DEF FinishPaused, WorkLost, Detach
  <2> QED BY <1>5, <2>1, <2>2 DEF FinishOperation
<1>6. CASE Outside \/ WakeUp \/ UNCHANGED vars
  <2>1. port' = port /\ paused' = paused /\ devPaused' = devPaused
    BY <1>6
    DEF Outside, WakeUp, Tick, HostChange, Scan, RequestShutdown, Enqueue, ScanFails, vars,
        SameAttachment, attachment, display
  <2> QED BY <2>1, UntouchedTruth
<1> QED BY <1>1, <1>2, <1>3, <1>4, <1>5, <1>6 DEF Next

\* When a send either fails or reaches the device, the manager's record of the
\* pause is the truth about the device it is attached to.
THEOREM RecordStaysTrue == ASSUME ~LateFaults PROVE Spec => []PauseRecordIsTrue
<1>1. Init => PauseRecordIsTrue
  BY DEF Init, PauseRecordIsTrue
<1>2. Inductive /\ PauseRecordIsTrue /\ [Next]_vars => PauseRecordIsTrue'
  BY NextTruth
<1> QED BY <1>1, <1>2, AlwaysInductive, PTL DEF Spec
--------------------------------------------------------------------------------
\* The manager implements DisplayPause.

PauseStep == [Pause!Next]_(Pause!vars)

\* A step that touches neither the pause, its owners nor the attachment.
LEMMA NoPauseStep ==
    ASSUME port' # NoPort <=> port # NoPort, Owners' = Owners, paused' = paused
    PROVE  PauseStep
BY DEF PauseStep, Pause!vars

\* Without a device nobody owns a pause.
LEMMA DetachedOwnsNothing ==
    ASSUME Inductive, port = NoPort PROVE Owners = {} /\ paused = FALSE
<1>1. ~DumpOpen /\ ~DebugOpen /\ paused = FALSE /\ conn \notin {"ready", "busy"}
  BY DEF Inductive, TypeOK, DisplayTypeOK, DetachedIsClean
<1>2. ~Operating
  BY <1>1 DEF Inductive, BusyMeansOwned, Operating
<1> QED BY <1>1, <1>2 DEF Owners

\* A step after which there is no device is a Drop, or a stutter.
LEMMA DetachPauseStep == ASSUME Inductive, Inductive', port' = NoPort PROVE PauseStep
<1>1. Owners' = {} /\ paused' = FALSE
  <2>1. ~DumpOpen' /\ ~DebugOpen' /\ paused' = FALSE /\ conn' \notin {"ready", "busy"}
    BY DEF Inductive, TypeOK, DisplayTypeOK, DetachedIsClean
  <2>2. ~Operating'
    BY <2>1 DEF Inductive, BusyMeansOwned, Operating
  <2> QED BY <2>1, <2>2 DEF Owners
<1>2. CASE port = NoPort
  BY <1>1, <1>2, DetachedOwnsNothing, NoPauseStep
<1>3. CASE port # NoPort
  BY <1>1, <1>3 DEF PauseStep, Pause!Next, Pause!Drop
<1> QED BY <1>2, <1>3

\* A handler that gives up a lease releases its owner, or resumes a display
\* that has none.
LEMMA ReleasePauseStep ==
    ASSUME Inductive, NEW d, NEW g, NEW s, NEW ACTION goOn, Release(d, g, s, goOn),
           port # NoPort, port' # NoPort,
           NEW c, step' \notin PausedOps,
           Owners \ {c} = (IF d # NoDump THEN {"dump"} ELSE {})
                            \union (IF g # Off THEN {"debug"} ELSE {})
    PROVE  PauseStep
<1>1. /\ dump' = d /\ debugLease' = g /\ paused' \in BOOLEAN
      /\ d # NoDump \/ g # Off \/ ~paused => paused' = paused
  <2>1. ~Detach
    BY DetachSession DEF Detach
  <2> QED BY <2>1, ReleaseEffect DEF Inductive, TypeOK
<1>2. Owners' = Owners \ {c}
  BY <1>1 DEF Owners, DumpOpen, DebugOpen, Operating
<1>3. Owners' # {} => paused' = paused
  BY <1>1, <1>2
<1>4. CASE c \in Owners
  <2>1. paused' \in (IF Owners' = {} THEN {FALSE, paused} ELSE {paused})
    BY <1>1, <1>3 DEF Inductive, TypeOK, DisplayTypeOK
  <2> QED BY <1>2, <1>4, <2>1 DEF PauseStep, Pause!Next, Pause!Release
<1>5. CASE c \notin Owners
  <2>1. Owners' = Owners
    BY <1>2, <1>5
  <2>2. CASE paused' = paused
    BY <2>1, <2>2, NoPauseStep
  <2>3. CASE paused' # paused
    <3>1. Owners = {} /\ paused /\ paused' = FALSE
      BY <1>1, <1>3, <2>1, <2>3 DEF Inductive, TypeOK, DisplayTypeOK
    <3> QED BY <2>1, <3>1 DEF PauseStep, Pause!Next, Pause!Resume
  <2> QED BY <2>2, <2>3
<1> QED BY <1>4, <1>5

\* A pause that succeeds acquires.
LEMMA AcquirePauseStep ==
    ASSUME port # NoPort, port' # NoPort, paused' = TRUE,
           NEW c \in {"dump", "debug", "operation"}, Owners' = Owners \union {c}
    PROVE  PauseStep
BY DEF PauseStep, Pause!Next, Pause!Acquire

\* A dump that begins acquires the pause.
LEMMA BeginPauseStep ==
    ASSUME Inductive, BeginHistoryDump, port' # NoPort PROVE PauseStep
<1>1. step' = step /\ port # NoPort /\ port \in Ports
  BY IdleFacts DEF BeginHistoryDump
<1>2. PICK r \in Results :
         /\ EnsureDisplayPaused(r)
         /\ \/ /\ r = "ok"
               /\ dump' = [id |-> lastDump + 1, session |-> session, lease |-> LeaseTicks]
               /\ UNCHANGED debugLease
            \/ r = "err" /\ SameAttachment /\ UNCHANGED <<dump, debugLease>>
            \/ r = "lost" /\ Detach
  BY DEF BeginHistoryDump
<1>3. CASE r = "ok"
  <2>1. paused' = TRUE
    BY <1>1, <1>2, <1>3, EnsureEffect DEF Inductive, TypeOK
  <2>2. DumpOpen' /\ (DebugOpen' <=> DebugOpen) /\ (Operating' <=> Operating)
    BY <1>1, <1>2, <1>3, NoDumpFacts
    DEF DumpOpen, DebugOpen, Operating, Inductive, TypeOK, TaskTypeOK
  <2>3. Owners' = Owners \union {"dump"}
    BY <2>2 DEF Owners
  <2> QED BY <1>1, <2>1, <2>3, AcquirePauseStep
<1>4. CASE r = "err"
  <2>1. paused' = paused /\ Owners' = Owners
    BY <1>1, <1>2, <1>4, EnsureEffect
    DEF Inductive, TypeOK, Owners, DumpOpen, DebugOpen, Operating
  <2> QED BY <1>1, <2>1, NoPauseStep
<1>5. CASE r = "lost"
  BY <1>2, <1>5, DetachSession DEF Detach
<1> QED BY <1>3, <1>4, <1>5 DEF Results

\* So does a debug pause.
LEMMA PauseDisplayPauseStep ==
    ASSUME Inductive, PauseDisplay, port' # NoPort PROVE PauseStep
<1>1. step' = step /\ port # NoPort /\ port \in Ports
  BY DEF PauseDisplay, Inductive, TypeOK, AttachmentTypeOK, PortOrNone, DetachedIsClean
<1>2. PICK r \in Results, t \in DebugTicks :
         /\ EnsureDisplayPaused(r)
         /\ IF r = "lost" THEN Detach
            ELSE /\ debugLease' = IF r = "ok" THEN t ELSE debugLease
                 /\ UNCHANGED <<dump, slot>>
  BY DEF PauseDisplay
<1>3. CASE r = "ok"
  <2>1. paused' = TRUE
    BY <1>1, <1>2, <1>3, EnsureEffect DEF Inductive, TypeOK
  <2>2. DebugOpen' /\ (DumpOpen' <=> DumpOpen) /\ (Operating' <=> Operating)
    BY <1>1, <1>2, <1>3, TimesAssumption DEF DumpOpen, DebugOpen, Operating, Off
  <2>3. Owners' = Owners \union {"debug"}
    BY <2>2 DEF Owners
  <2> QED BY <1>1, <2>1, <2>3, AcquirePauseStep
<1>4. CASE r = "err"
  <2>1. paused' = paused /\ Owners' = Owners
    BY <1>1, <1>2, <1>4, EnsureEffect
    DEF Inductive, TypeOK, Owners, DumpOpen, DebugOpen, Operating
  <2> QED BY <1>1, <2>1, NoPauseStep
<1>5. CASE r = "lost"
  BY <1>2, <1>5, DetachSession DEF Detach
<1> QED BY <1>3, <1>4, <1>5 DEF Results

\* So does an operation on the SPI flash.
LEMMA StartPausedPauseStep ==
    ASSUME Inductive, StartPaused, port' # NoPort PROVE PauseStep
<1>1. step = "select" /\ port # NoPort /\ port \in Ports
  BY IdleFacts DEF StartPaused
<1>2. PICK r \in Results :
         /\ EnsureDisplayPaused(r)
         /\ r = "ok"   => step' \in PausedOps /\ UNCHANGED <<dump, debugLease>>
         /\ r = "err"  => UNCHANGED <<step, dump, debugLease>>
         /\ r = "lost" => Detach
  BY DEF StartPaused, Results
<1>3. CASE r = "ok"
  <2>1. paused' = TRUE
    BY <1>1, <1>2, <1>3, EnsureEffect DEF Inductive, TypeOK
  <2>2. Owners' = Owners \union {"operation"}
    BY <1>1, <1>2, <1>3 DEF Owners, DumpOpen, DebugOpen, Operating, PausedOps
  <2> QED BY <1>1, <2>1, <2>2, AcquirePauseStep
<1>4. CASE r = "err"
  <2>1. paused' = paused /\ Owners' = Owners
    BY <1>1, <1>2, <1>4, EnsureEffect
    DEF Inductive, TypeOK, Owners, DumpOpen, DebugOpen, Operating
  <2> QED BY <1>1, <2>1, NoPauseStep
<1>5. CASE r = "lost"
  BY <1>2, <1>5, DetachSession DEF Detach
<1> QED BY <1>3, <1>4, <1>5 DEF Results
\* A successful attempt attaches a device whose display nobody owns.
LEMMA ConnectedPauseStep == ASSUME Inductive, Connected PROVE PauseStep
<1>1. port = NoPort /\ target \in Ports
  BY ConnectingFacts DEF Connected, At
<1>2. Owners = {} /\ paused = FALSE
  BY <1>1, DetachedOwnsNothing
<1>3. /\ port' = target /\ dump' = NoDump /\ debugLease' = Off /\ paused' = FALSE
      /\ step' = "select"
  BY DEF Connected, DropLeases, Goto
<1>4. Owners' = {}
  BY <1>3 DEF Owners, DumpOpen, DebugOpen, Operating, PausedOps
<1> QED BY <1>1, <1>2, <1>3, <1>4, PortsAssumption DEF PauseStep, Pause!Next, Pause!Attach

\* Time does not end a lease: the timer arm does.
LEMMA TickPauseStep == ASSUME Inductive, Tick PROVE PauseStep
<1>1. /\ debugLease' = Elapse(debugLease)
      /\ dump' = [dump EXCEPT !.lease = Elapse(dump.lease)]
      /\ port' = port /\ step' = step /\ paused' = paused
  BY DEF Tick, SameAttachment, attachment
<1>2. DebugOpen' <=> DebugOpen
  BY <1>1, ElapseFacts DEF DebugOpen, Inductive, TypeOK, DisplayTypeOK
<1>3. DumpOpen' <=> DumpOpen
  <2>1. CASE dump = NoDump
    BY <1>1, <2>1 DEF DumpOpen, NoDump, Elapse, Off
  <2>2. CASE dump # NoDump
    <3>1. dump.id > 0
      BY <2>2 DEF DumpOpen, Inductive, TaskMatchesConnection
    <3>2. dump'.id = dump.id
      BY <1>1 DEF Inductive, TypeOK, DisplayTypeOK
    <3> QED BY <2>2, <3>1, <3>2, NoDumpFacts DEF DumpOpen
  <2> QED BY <2>1, <2>2
<1>4. Owners' = Owners
  BY <1>1, <1>2, <1>3 DEF Owners, Operating
<1> QED BY <1>1, <1>4, NoPauseStep

\* The stages of the timer arm release expired leases and retry a resume.
LEMMA StagePauseStep == ASSUME Inductive, TimerStage, port' # NoPort PROVE PauseStep
<1>1. step \in TimerArm /\ step' \in {"select"} \union TimerArm
  BY DEF TimerStage, ExpireHistoryDump, ExpireDebugPause, RetryDisplayResumeCleanup,
         PollOnce, At, Goto, TimerArm
<1>2. ~Operating /\ ~Operating' /\ step' \notin PausedOps
  BY <1>1 DEF Operating, TimerArm, PausedOps
<1>3. Owners = (IF dump # NoDump THEN {"dump"} ELSE {})
                  \union (IF debugLease # Off THEN {"debug"} ELSE {})
  BY <1>2 DEF Owners, DumpOpen, DebugOpen
<1>4. CASE UNCHANGED <<port, dump, debugLease, paused>>
  BY <1>2, <1>4, NoPauseStep DEF Owners, DumpOpen, DebugOpen
<1>5. CASE ExpireHistoryDump /\ Due(dump.lease)
  <2>1. Release(NoDump, debugLease, 0, SetReady) /\ port # NoPort
    BY <1>5, DueFacts DEF ExpireHistoryDump
  <2>2. Owners \ {"dump"} = (IF NoDump # NoDump THEN {"dump"} ELSE {})
                               \union (IF debugLease # Off THEN {"debug"} ELSE {})
    BY <1>3
  <2> QED BY <1>2, <2>1, <2>2, ReleasePauseStep
<1>6. CASE ExpireDebugPause /\ Due(debugLease)
  <2>1. Release(dump, Off, slot, SameAttachment) /\ port # NoPort
    BY <1>6, DueFacts DEF ExpireDebugPause
  <2>2. Owners \ {"debug"} = (IF dump # NoDump THEN {"dump"} ELSE {})
                                \union (IF Off # Off THEN {"debug"} ELSE {})
    BY <1>3
  <2> QED BY <1>2, <2>1, <2>2, ReleasePauseStep
<1>7. CASE RetryDisplayResumeCleanup /\ Due(resumeRetry) /\ conn = "ready"
  <2>1. Release(dump, debugLease, slot, SameAttachment) /\ port # NoPort
    BY <1>7 DEF RetryDisplayResumeCleanup, Inductive, DetachedIsClean
  <2>2. Owners \ {"operation"} = (IF dump # NoDump THEN {"dump"} ELSE {})
                                \union (IF debugLease # Off THEN {"debug"} ELSE {})
    BY <1>3
  <2> QED BY <1>2, <2>1, <2>2, ReleasePauseStep
<1>8. CASE PollOnce
  <2>1. UNCHANGED <<port, dump, debugLease, paused>>
    BY <1>8, DetachSession
    DEF PollOnce, ReadTelemetry, PollFailed, Become, Detach, SameAttachment, attachment, display
  <2> QED BY <1>4, <2>1
<1> QED BY <1>4, <1>5, <1>6, <1>7, <1>8
        DEF TimerStage, ExpireHistoryDump, ExpireDebugPause, RetryDisplayResumeCleanup,
            SameAttachment, attachment, display

\* A client releases its pause.
LEMMA EndPauseStep ==
    ASSUME Inductive, EndHistoryDump \/ ResumeDisplay, port' # NoPort PROVE PauseStep
<1>1. step = "select" /\ step' = "select"
  BY DEF EndHistoryDump, ResumeDisplay, At
<1>2. step' \notin PausedOps
  BY <1>1 DEF PausedOps
<1>3. Owners = (IF dump # NoDump THEN {"dump"} ELSE {})
                  \union (IF debugLease # Off THEN {"debug"} ELSE {})
  BY <1>1 DEF Owners, DumpOpen, DebugOpen, Operating, PausedOps
<1>4. port' \in {port, NoPort}
  BY ReleaseSession
  DEF EndHistoryDump, ResumeDisplay, SetReady, Become, SameAttachment, attachment
<1>5. CASE EndHistoryDump
  <2>1. PICK id \in 1..lastDump :
           Release(NoDump, debugLease, ClearHistoryCancellation(id), SetReady)
    BY <1>5 DEF EndHistoryDump
  <2>2. Owners \ {"dump"} = (IF NoDump # NoDump THEN {"dump"} ELSE {})
                               \union (IF debugLease # Off THEN {"debug"} ELSE {})
    BY <1>3
  <2> QED BY <1>2, <1>4, <2>1, <2>2, ReleasePauseStep
<1>6. CASE ResumeDisplay
  <2>1. Release(dump, Off, slot, SameAttachment)
    BY <1>6 DEF ResumeDisplay
  <2>2. Owners \ {"debug"} = (IF dump # NoDump THEN {"dump"} ELSE {})
                                \union (IF Off # Off THEN {"debug"} ELSE {})
    BY <1>3
  <2> QED BY <1>2, <1>4, <2>1, <2>2, ReleasePauseStep
<1> QED BY <1>5, <1>6

\* An operation releases its pause.
LEMMA FinishPausedPauseStep ==
    ASSUME Inductive, FinishPaused, port' # NoPort PROVE PauseStep
<1>1. step \in PausedOps /\ step' = "select"
  BY DEF FinishPaused, Goto
<1>2. step' \notin PausedOps
  BY <1>1 DEF PausedOps
<1>3. Release(dump, debugLease, slot, SetReady) \/ LossOverlooked
  BY DetachSession DEF FinishPaused, WorkLost, Detach
<1>4. port # NoPort
  BY <1>1 DEF Inductive, BusyMeansOwned, DetachedIsClean
<1>5. Owners \ {"operation"} = (IF dump # NoDump THEN {"dump"} ELSE {})
                                  \union (IF debugLease # Off THEN {"debug"} ELSE {})
  BY DEF Owners, DumpOpen, DebugOpen
<1>6. CASE Release(dump, debugLease, slot, SetReady)
  BY <1>2, <1>4, <1>5, <1>6, ReleasePauseStep
<1>7. CASE LossOverlooked
  <2>1. /\ dump = NoDump /\ debugLease = Off
        /\ UNCHANGED <<dump, port, debugLease, paused>>
    BY <1>7, OverlookedEffect DEF Inductive, TypeOK
  <2>2. Owners = {"operation"} /\ Owners' = {}
    BY <1>1, <1>2, <2>1 DEF Owners, DumpOpen, DebugOpen, Operating
  <2>3. Owners' = Owners \ {"operation"} /\ "operation" \in Owners
    BY <2>2
  <2>4. paused' \in {FALSE, paused} /\ (port' # NoPort <=> port # NoPort)
    BY <2>1
  <2> QED BY <2>2, <2>3, <2>4 DEF PauseStep, Pause!Next, Pause!Release
<1> QED BY <1>3, <1>6, <1>7

\* Steps that neither pause, resume nor attach.
LEMMA OtherPauseStep ==
    ASSUME Inductive, port' # NoPort,
           \/ HandleHostEvent \/ WakeUp \/ HostChange \/ Scan \/ ScanFails
           \/ RequestShutdown \/ SetScreen \/ ReadHistoryDumpChunk \/ SetPollInterval
           \/ StartPlain \/ ChunkRead \/ FinishPlain \/ UNCHANGED vars
    PROVE  PauseStep
<1>1. port' = port /\ paused' = paused /\ debugLease' = debugLease /\ dump'.id = dump.id
  <2>1. CASE HandleHostEvent
    BY <2>1, DetachSession
    DEF HandleHostEvent, NoCandidate, SeveralCandidates, CandidateIgnored, CandidateTried,
        Shutdown, Disconnect, SameAttachment, attachment, display
  <2>2. CASE ReadHistoryDumpChunk
    BY <2>2
    DEF ReadHistoryDumpChunk, SameAttachment, attachment, Inductive, TypeOK, DisplayTypeOK
  <2>3. CASE SetScreen \/ ChunkRead \/ FinishPlain \/ StartPlain \/ SetPollInterval
    BY <2>3, DetachSession
    DEF SetScreen, ChunkRead, FinishPlain, StartPlain, SetPollInterval, SetBusy, Become,
        Detach, SameAttachment, attachment, display
  <2>4. CASE WakeUp \/ HostChange \/ Scan \/ ScanFails \/ RequestShutdown \/ UNCHANGED vars
    BY <2>4
    DEF WakeUp, HostChange, Scan, ScanFails, RequestShutdown, Enqueue, vars,
        SameAttachment, attachment, display
  <2> QED BY <2>1, <2>2, <2>3, <2>4
<1>2. DumpOpen' <=> DumpOpen
  <2>1. CASE ReadHistoryDumpChunk
    BY <2>1, TimerFacts, NoDumpFacts
    DEF ReadHistoryDumpChunk, OwnsDump, DumpOpen, Inductive, TypeOK, DisplayTypeOK
  <2>2. CASE ~ReadHistoryDumpChunk
    <3>1. dump' = dump
      BY <2>2, DetachSession
      DEF HandleHostEvent, NoCandidate, SeveralCandidates, CandidateIgnored, CandidateTried,
          Shutdown, Disconnect, SetScreen, ChunkRead, FinishPlain, StartPlain,
          SetPollInterval, SetBusy, Become, Detach, WakeUp, HostChange, Scan, ScanFails,
          RequestShutdown, Enqueue, vars, SameAttachment, display
    <3> QED BY <3>1 DEF DumpOpen
  <2> QED BY <2>1, <2>2
<1>3. Operating' <=> Operating
  <2>1. \/ step' = step
        \/ step \notin PausedOps /\ step' \notin PausedOps
    BY ConnectingFacts, PortsAssumption, DetachSession
    DEF HandleHostEvent, NoCandidate, SeveralCandidates, CandidateIgnored, CandidateTried,
        Shutdown, Receive, SetScreen, Idle, ReadHistoryDumpChunk, SetPollInterval, StartPlain,
        ChunkRead, FinishPlain, WakeUp, HostChange, Scan, ScanFails, RequestShutdown,
        Enqueue, vars, At, Goto, PlainOps, PausedOps
  <2> QED BY <2>1 DEF Operating
<1>4. Owners' = Owners
  BY <1>1, <1>2, <1>3 DEF Owners, DebugOpen
<1> QED BY <1>1, <1>4, NoPauseStep

\* Every step is one of DisplayPause, or leaves its variables alone.
LEMMA NextPauseStep == Inductive /\ [Next]_vars => PauseStep
<1> SUFFICES ASSUME Inductive, [Next]_vars PROVE PauseStep
  OBVIOUS
<1>1. CASE port' = NoPort
  BY <1>1, NextKeeps, DetachPauseStep
<1>2. CASE port' # NoPort
  <2>1. ~ConnectionFailed
    BY <1>2 DEF ConnectionFailed
  <2> QED
    BY <1>2, <2>1, ConnectedPauseStep, TickPauseStep, StagePauseStep, EndPauseStep,
       FinishPausedPauseStep, BeginPauseStep, PauseDisplayPauseStep, StartPausedPauseStep,
       OtherPauseStep
    DEF Next, FinishConnect, Command, FinishOperation, Outside
<1> QED BY <1>1, <1>2

\* Whatever the clients, the timers and the faults do, the manager's pauses are
\* those of DisplayPause: no owner's display is resumed, and a display is
\* resumed, or left to a retry, only when its last owner goes.
THEOREM PauseStepsImplemented == Spec => ImplementsPauseSteps
<1>1. Init => Pause!Init
  BY DEF Init, Pause!Init, Owners, DumpOpen, DebugOpen, Operating, PausedOps
<1>2. Inductive /\ [Next]_vars => [Pause!Next]_(Pause!vars)
  BY NextPauseStep DEF PauseStep
<1> QED BY <1>1, <1>2, AlwaysInductive, PTL DEF Spec, ImplementsPauseSteps
================================================================================
