------------------------------- MODULE Manager -------------------------------
(***************************************************************************)
(* The device manager of wireviewd (src/manager.rs): one task that owns    *)
(* the serial backend and runs a select loop over a timer arm, the queue   *)
(* of host events and the queue of client commands.                        *)
(*                                                                         *)
(* A handler that awaits something long (a connection attempt, a chunk     *)
(* read, an exclusive device operation, each stage of the timer arm) is    *)
(* split at that await: "step" says where the task is, and time, unplugs   *)
(* and discovery scans interleave there.  Everything else in a handler is  *)
(* one action.  A call of the backend is its outcome: "ok", "err" (an      *)
(* error that leaves the connection up) or "lost" (ConnectionLost).        *)
(*                                                                         *)
(* Time is counted in ticks; every deadline is a countdown that is due at  *)
(* 0 and is Off when the code has None.  Nothing forces a due timer to be  *)
(* served before time goes on, because a handler may be running.           *)
(*                                                                         *)
(* A definition whose name ends in _Faulty is no part of the model: it is  *)
(* a plausible bug in the definition after it, which shows that a property *)
(* can fail.                                                               *)
(***************************************************************************)
EXTENDS Integers, Sequences, FiniteSets

CONSTANTS
    Ports,            \* tty names a supported device may appear under
    NoPort,           \* the absence of a port
    PollIntervals,    \* poll intervals a client may choose, in ticks
    LeaseTicks,       \* the history-dump lease (10 s)
    DebugTicks,       \* durations a client may ask of a debug pause
    ResumeRetryTicks, \* DISPLAY_RESUME_RETRY_DELAY (1 s)
    RetryDelay,       \* ticks before the connection attempt after the nth
    ElapsedCap,       \* bound on the age kept for the last good sample
    MaxInbox,         \* bound on the host-event queue (32 in the code)
    MaxDumps,         \* bound on the history dumps clients begin
    MaxUpsets,        \* bound on transport faults and reboots
    MaxMoves,         \* bound on changes of the set of attached ports
    LateFaults,       \* may a send fail after its bytes reached the device?
    ScanMayFail,      \* may a discovery scan fail?
    MayStop           \* may the daemon be asked to shut down?

Off   == -1           \* a deadline that is not set
Never == -1           \* a retry without a due time

Timer == Nat \union {Off}
Attempts == 1..8      \* shift = min(attempt - 1, 7): the delay stops growing

ASSUME PortsAssumption == NoPort \notin Ports /\ IsFiniteSet(Ports)
ASSUME TimesAssumption ==
    /\ PollIntervals \subseteq Nat \ {0} /\ PollIntervals # {}
    /\ LeaseTicks \in Nat \ {0} /\ ResumeRetryTicks \in Nat \ {0}
    /\ DebugTicks \subseteq Nat \ {0}
    /\ RetryDelay \in [Attempts -> Nat \ {0}]
    /\ ElapsedCap \in Nat /\ \A i \in PollIntervals : 2 * i <= ElapsedCap
ASSUME BoundsAssumption ==
    /\ {MaxInbox, MaxDumps, MaxUpsets, MaxMoves} \subseteq Nat
    /\ {LateFaults, ScanMayFail, MayStop} \subseteq BOOLEAN

VARIABLES
    step,         \* where the task is: "select", or the await it is in
    conn,         \* state.connection
    candidates,   \* the candidates of an ambiguous state, else {}
    port,         \* current_port and state.connected_port
    target,       \* the port being connected to
    identity,     \* state.identity: the port whose device was identified
    session,      \* state.session_id
    fresh,        \* state.telemetry is present and not stale
    sampled,      \* state.telemetry.session_id, 0 when there is none
    retry,        \* the connection retry (RetryState)
    pollFailures, \* consecutive_poll_failures
    sinceGood,    \* ticks since last_successful_poll
    pollInterval, \* poll_interval
    nextPoll,     \* next_poll
    dump,         \* active_history_dump
    slot,         \* the dump id in the shared cancellation slot, 0 if None
    lastDump,     \* next_history_dump_id
    debugLease,   \* debug_pause_expires_at
    paused,       \* display_physically_paused
    resumeRetry,  \* display_resume_retry_at
    inbox,        \* host_rx
    \* the world outside the task
    host,         \* ports a supported device is attached at
    link,         \* the open tty is still the attached device's
    devPaused,    \* ports whose device has its display updates paused
    scanning,     \* the discovery task is alive
    upsets, moves \* how much of MaxUpsets and MaxMoves is spent

display == <<dump, slot, debugLease, paused, resumeRetry>>
attachment == <<conn, candidates, port, identity, session, fresh, sampled>>
health == <<retry, pollFailures, sinceGood>>
poll == <<pollInterval, nextPoll>>
outside == <<host, moves, scanning>>

vars == <<step, target, lastDump, inbox, link, devPaused, upsets,
          display, attachment, health, poll, outside>>

NoDump  == [id |-> 0, session |-> 0, lease |-> Off]
NoRetry == [port |-> NoPort, attempt |-> 0, wait |-> Never]

Results == {"ok", "err", "lost"}

\* Exclusive operations: the manager is Busy from their start to their end.
PlainOps  == {"info", "config", "faults", "reboot"}
PausedOps == {"chunk", "theme"}
TimerArm  == {"expire_dump", "expire_debug", "cleanup", "poll"}
Steps == {"select", "connect", "reading", "stopped"}
           \union PlainOps \union PausedOps \union TimerArm
Connections == {"absent", "connecting", "recovering", "unsupported",
                "ambiguous", "ready", "busy"}

Message == [kind : {"candidates", "shutdown"}, ports : SUBSET Ports]

PortOrNone == Ports \union {NoPort}

TaskTypeOK ==
    /\ step \in Steps /\ target \in PortOrNone
    /\ lastDump \in Nat /\ inbox \in Seq(Message)

AttachmentTypeOK ==
    /\ conn \in Connections /\ candidates \subseteq Ports
    /\ port \in PortOrNone /\ identity \in PortOrNone
    /\ session \in Nat /\ sampled \in Nat /\ fresh \in BOOLEAN

HealthTypeOK ==
    /\ retry \in [port : PortOrNone, attempt : 0..8, wait : Timer]
    /\ pollFailures \in 0..3 /\ sinceGood \in Timer
    /\ pollInterval \in PollIntervals /\ nextPoll \in Nat

DisplayTypeOK ==
    /\ dump \in [id : Nat, session : Nat, lease : Timer] /\ slot \in Nat
    /\ debugLease \in Timer /\ paused \in BOOLEAN /\ resumeRetry \in Timer

OutsideTypeOK ==
    /\ host \subseteq Ports /\ link \in BOOLEAN /\ devPaused \subseteq Ports
    /\ scanning \in BOOLEAN /\ upsets \in Nat /\ moves \in Nat

TypeOK == /\ TaskTypeOK /\ AttachmentTypeOK /\ HealthTypeOK
          /\ DisplayTypeOK /\ OutsideTypeOK

Init ==
    /\ step = "select" /\ conn = "absent" /\ candidates = {}
    /\ port = NoPort /\ target = NoPort /\ identity = NoPort
    /\ session = 0 /\ fresh = FALSE /\ sampled = 0
    /\ retry = NoRetry /\ pollFailures = 0 /\ sinceGood = Off
    /\ pollInterval \in PollIntervals /\ nextPoll = 0
    /\ dump = NoDump /\ slot = 0 /\ lastDump = 0
    /\ debugLease = Off /\ paused = FALSE /\ resumeRetry = Off
    /\ inbox = <<>>
    /\ host \in SUBSET Ports /\ link = FALSE /\ devPaused \in SUBSET Ports
    /\ scanning = TRUE /\ upsets = 0 /\ moves = 0

--------------------------------------------------------------------------------
\* The backend.

Attached == port # NoPort \/ conn \in {"ready", "busy"}

\* The outcome r of a call: it succeeds only over a live link, and a failure
\* of a live link is an upset.  ConnectionLost is the answer of a tty that is
\* gone (serial_error, io_error): no later call over it succeeds.
Answer(r) ==
    /\ r = "ok" => link
    /\ upsets' = IF link /\ r # "ok" THEN upsets + 1 ELSE upsets
    /\ upsets' <= MaxUpsets

\* Whether a screen command reached the device: always when the send
\* succeeds; a failed send may have failed after its bytes went out.
Reached(r) == IF r = "ok" THEN {TRUE}
              ELSE IF LateFaults /\ link THEN BOOLEAN ELSE {FALSE}

Send(r, on) ==
    /\ Answer(r)
    /\ \E reached \in Reached(r) :
          devPaused' = IF ~reached THEN devPaused
                       ELSE IF on THEN devPaused \union {port}
                       ELSE devPaused \ {port}

NoCall(r) == r = "ok" /\ UNCHANGED <<upsets, devPaused>>

--------------------------------------------------------------------------------
\* Helpers of the manager that several handlers call.

ClearHistoryCancellation_Faulty(id) == slot

\* The cancellation slot once the entry of dump id is cleared.
ClearHistoryCancellation(id) == IF slot = id THEN 0 ELSE slot

DropLeases_Faulty ==
    /\ dump' = NoDump /\ slot' = 0 /\ debugLease' = Off
    /\ paused' = FALSE /\ UNCHANGED resumeRetry

DropLeases ==
    /\ dump' = NoDump /\ slot' = 0 /\ debugLease' = Off
    /\ paused' = FALSE /\ resumeRetry' = Off

\* disconnect() of an attached device; c is where the connection goes next.
DetachTo(c, cs) ==
    /\ conn' = c /\ candidates' = cs
    /\ port' = NoPort /\ link' = FALSE /\ fresh' = FALSE
    /\ DropLeases
    /\ UNCHANGED <<identity, session, sampled>>

Detach == DetachTo("absent", {})

Disconnect(c, cs) ==
    IF Attached THEN DetachTo(c, cs)
    ELSE /\ conn' = c /\ candidates' = cs
         /\ UNCHANGED <<port, link, identity, session, fresh, sampled, display>>

Become(c) ==
    /\ conn' = c
    /\ UNCHANGED <<candidates, port, link, identity, session>>

SetReady == Become("ready") /\ UNCHANGED <<fresh, sampled>>
SetBusy  == Become("busy") /\ UNCHANGED <<fresh, sampled>>
SameAttachment == UNCHANGED <<attachment, link>>

TakeSample(ok) ==
    IF ok THEN fresh' = TRUE /\ sampled' = session
          ELSE UNCHANGED <<fresh, sampled>>

\* Sets paused and resumeRetry, unless r is "lost": the caller then detaches.
EnsureDisplayPaused(r) ==
    IF paused THEN NoCall(r) /\ UNCHANGED <<paused, resumeRetry>>
    ELSE /\ Send(r, TRUE)
         /\ r = "ok"  => paused' = TRUE /\ resumeRetry' = Off
         /\ r = "err" => UNCHANGED <<paused, resumeRetry>>

\* Schedules no retry.
ResumeDisplayIfUnowned_NoRetry_Faulty(d, g, r) ==
    IF d # NoDump \/ g # Off \/ ~paused
    THEN NoCall(r) /\ UNCHANGED paused /\ resumeRetry' = Off
    ELSE /\ Send(r, FALSE)
         /\ r = "ok"  => paused' = FALSE /\ resumeRetry' = Off
         /\ r = "err" => UNCHANGED <<paused, resumeRetry>>

\* Takes a failed resume for a resume.
ResumeDisplayIfUnowned_Forgets_Faulty(d, g, r) ==
    IF d # NoDump \/ g # Off \/ ~paused
    THEN NoCall(r) /\ UNCHANGED paused /\ resumeRetry' = Off
    ELSE Send(r, FALSE) /\ paused' = FALSE /\ resumeRetry' = Off

\* Overlooks the debug lease.
ResumeDisplayIfUnowned_Debug_Faulty(d, g, r) ==
    IF d # NoDump \/ ~paused
    THEN NoCall(r) /\ UNCHANGED paused /\ resumeRetry' = Off
    ELSE /\ Send(r, FALSE)
         /\ r = "ok"  => paused' = FALSE /\ resumeRetry' = Off
         /\ r = "err" => UNCHANGED paused /\ resumeRetry' = ResumeRetryTicks

\* The same for a resume, where d and g are the dump and the debug lease that
\* remain.
ResumeDisplayIfUnowned(d, g, r) ==
    IF d # NoDump \/ g # Off \/ ~paused
    THEN NoCall(r) /\ UNCHANGED paused /\ resumeRetry' = Off
    ELSE /\ Send(r, FALSE)
         /\ r = "ok"  => paused' = FALSE /\ resumeRetry' = Off
         /\ r = "err" => UNCHANGED paused /\ resumeRetry' = ResumeRetryTicks

\* What a handler does that gives up a lease: keep dump d, debug lease g and
\* slot s, resume, and go on with the connection unless it was lost.
Release(d, g, s, goOn) ==
    \E r \in Results :
       /\ ResumeDisplayIfUnowned(d, g, r)
       /\ IF r = "lost" THEN Detach
          ELSE dump' = d /\ debugLease' = g /\ slot' = s /\ goOn

--------------------------------------------------------------------------------
\* Host events.

At(s) == step = s
Goto(s) == step' = s

\* Take the next event, of that kind, off host_rx.
Receive(kind) ==
    /\ At("select") /\ inbox # <<>> /\ Head(inbox).kind = kind
    /\ inbox' = Tail(inbox)

Observed == Head(inbox).ports

NoCandidate ==
    /\ Receive("candidates") /\ Observed = {}
    /\ retry' = NoRetry
    /\ Disconnect("absent", {})
    /\ UNCHANGED <<step, target, lastDump, devPaused, upsets,
                   pollFailures, sinceGood, poll, outside>>

SeveralCandidates ==
    /\ Receive("candidates") /\ Cardinality(Observed) > 1
    /\ retry' = NoRetry
    /\ IF conn = "ambiguous" /\ candidates = Observed
       THEN SameAttachment /\ UNCHANGED display
       ELSE Disconnect("ambiguous", Observed)
    /\ UNCHANGED <<step, target, lastDump, devPaused, upsets,
                   pollFailures, sinceGood, poll, outside>>

RetryIsDue_Faulty(p) == retry.port # p

RetryIsDue(p) == retry.port = p => retry.wait = 0

\* One candidate that is the current port, or whose retry is not due.
CandidateIgnored ==
    /\ Receive("candidates")
    /\ \E p \in Ports : Observed = {p} /\ (port = p \/ ~RetryIsDue(p))
    /\ SameAttachment
    /\ UNCHANGED <<step, target, lastDump, devPaused, upsets,
                   display, health, poll, outside>>

\* One new candidate: leave the old port and start connecting to the new one.
CandidateTried ==
    /\ Receive("candidates")
    /\ \E p \in Ports :
          /\ Observed = {p} /\ port # p /\ RetryIsDue(p)
          /\ retry' = IF retry.port = p THEN retry ELSE NoRetry
          /\ IF port # NoPort THEN DetachTo("connecting", {})
             ELSE /\ conn' = "connecting" /\ candidates' = {}
                  /\ UNCHANGED <<port, link, identity, session, fresh, sampled,
                                 display>>
          /\ target' = p
    /\ Goto("connect")
    /\ UNCHANGED <<lastDump, devPaused, upsets, pollFailures, sinceGood,
                   poll, outside>>

NextSession == session + 1

\* backend.connect and the first read_telemetry both succeed.  The handshake
\* ends with the resume command.
Connected ==
    /\ At("connect") /\ target \in host
    /\ devPaused' = devPaused \ {target}
    /\ session' = NextSession
    /\ port' = target /\ link' = TRUE /\ identity' = target
    /\ fresh' = TRUE /\ sampled' = NextSession
    /\ conn' = "ready" /\ candidates' = {}
    /\ pollFailures' = 0 /\ sinceGood' = 0
    /\ DropLeases
    /\ retry' = NoRetry
    /\ Goto("select") /\ target' = NoPort
    /\ UNCHANGED <<lastDump, inbox, upsets, poll, outside>>

Min2(a, b) == IF a < b THEN a ELSE b

NextRetry(p, unsupported) ==
    IF unsupported THEN [port |-> p, attempt |-> 1, wait |-> Never]
    ELSE LET n == IF retry.port = p THEN Min2(retry.attempt + 1, 8) ELSE 1
         IN  [port |-> p, attempt |-> n, wait |-> RetryDelay[n]]

\* The attempt fails, at the latest in read_telemetry, after the handshake
\* has resumed the display.
ConnectionFailed ==
    /\ At("connect")
    /\ upsets' = IF target \in host THEN upsets + 1 ELSE upsets
    /\ upsets' <= MaxUpsets
    /\ devPaused' \in {devPaused} \union
           (IF target \in host THEN {devPaused \ {target}} ELSE {})
    /\ \E unsupported \in {u \in BOOLEAN : u => target \in host} :
          /\ retry' = NextRetry(target, unsupported)
          /\ conn' = IF unsupported THEN "unsupported" ELSE "recovering"
    /\ DropLeases
    /\ pollFailures' = 0 /\ sinceGood' = Off
    /\ port' = NoPort /\ link' = FALSE /\ identity' = NoPort
    /\ candidates' = {}
    /\ Goto("select") /\ target' = NoPort
    /\ UNCHANGED <<session, fresh, sampled, lastDump, inbox, poll, outside>>

\* Shuts down an attached device only.
Shutdown_Faulty ==
    /\ Receive("shutdown") /\ Attached
    /\ Disconnect("absent", {})
    /\ Goto("stopped")
    /\ UNCHANGED <<target, lastDump, devPaused, upsets, health, poll, outside>>

\* HostEvent::Shutdown: the loop ends and host_rx is dropped.
Shutdown ==
    /\ Receive("shutdown")
    /\ Disconnect("absent", {})
    /\ Goto("stopped")
    /\ UNCHANGED <<target, lastDump, devPaused, upsets, health, poll, outside>>

--------------------------------------------------------------------------------
\* The timer arm: expire_history_dump, expire_debug_pause,
\* retry_display_resume_cleanup and poll_once, in this order.

Due(t) == t = 0

WakeUp ==
    /\ At("select")
    /\ \E t \in {nextPoll, dump.lease, debugLease, resumeRetry} : Due(t)
    /\ Goto("expire_dump")
    /\ SameAttachment
    /\ UNCHANGED <<target, lastDump, inbox, devPaused, upsets,
                   display, health, poll, outside>>

\* Waits for the device to be Ready, as the cleanup stage does.
ExpireHistoryDump_Ready_Faulty ==
    /\ At("expire_dump")
    /\ IF Due(dump.lease) /\ conn = "ready"
       THEN Release(NoDump, debugLease, 0, SetReady)
       ELSE SameAttachment /\ UNCHANGED <<display, devPaused, upsets>>
    /\ Goto("expire_debug")
    /\ UNCHANGED <<target, lastDump, inbox, health, poll, outside>>

ExpireHistoryDump ==
    /\ At("expire_dump")
    /\ IF Due(dump.lease)
       THEN Release(NoDump, debugLease, 0, SetReady)
       ELSE SameAttachment /\ UNCHANGED <<display, devPaused, upsets>>
    /\ Goto("expire_debug")
    /\ UNCHANGED <<target, lastDump, inbox, health, poll, outside>>

ExpireDebugPause ==
    /\ At("expire_debug")
    /\ IF Due(debugLease)
       THEN Release(dump, Off, slot, SameAttachment)
       ELSE SameAttachment /\ UNCHANGED <<display, devPaused, upsets>>
    /\ Goto("cleanup")
    /\ UNCHANGED <<target, lastDump, inbox, health, poll, outside>>

\* Gives the cleanup up when it is due.
RetryDisplayResumeCleanup_Faulty ==
    /\ At("cleanup")
    /\ resumeRetry' = IF Due(resumeRetry) THEN Off ELSE resumeRetry
    /\ SameAttachment
    /\ UNCHANGED <<dump, slot, debugLease, paused, devPaused, upsets>>
    /\ Goto("poll")
    /\ UNCHANGED <<target, lastDump, inbox, health, poll, outside>>

RetryDisplayResumeCleanup ==
    /\ At("cleanup")
    /\ IF Due(resumeRetry) /\ conn = "ready"
       THEN Release(dump, debugLease, slot, SameAttachment)
       ELSE SameAttachment /\ UNCHANGED <<display, devPaused, upsets>>
    /\ Goto("poll")
    /\ UNCHANGED <<target, lastDump, inbox, health, poll, outside>>

\* A poll that fails without losing the connection.
PollFailed ==
    /\ pollFailures' = pollFailures + 1
    /\ UNCHANGED sinceGood
    /\ IF pollFailures + 1 >= 3 THEN Detach
       ELSE /\ Become("ready") /\ UNCHANGED <<sampled, display>>
            /\ fresh' = (fresh /\ sinceGood < 2 * pollInterval)

\* poll_once of a connected, idle device.
ReadTelemetry ==
    \E r \in Results :
       /\ Answer(r)
       /\ \/ /\ r = "ok"
             /\ Become("ready") /\ TakeSample(TRUE) /\ UNCHANGED display
             /\ pollFailures' = 0 /\ sinceGood' = 0
          \/ r = "err" /\ PollFailed
          \/ r = "lost" /\ Detach /\ UNCHANGED <<pollFailures, sinceGood>>

PollOnce ==
    /\ At("poll")
    /\ IF Due(nextPoll) /\ conn = "ready"
       THEN ReadTelemetry
       ELSE /\ SameAttachment
            /\ UNCHANGED <<display, pollFailures, sinceGood, upsets>>
    /\ nextPoll' = IF Due(nextPoll) THEN pollInterval ELSE nextPoll
    /\ Goto("select")
    /\ UNCHANGED <<target, lastDump, inbox, devPaused, retry, pollInterval,
                   outside>>

--------------------------------------------------------------------------------
\* Client commands.  One that is refused (wrong state, unknown dump, argument
\* out of range) answers its client and changes nothing, so it has no action.

Idle  == At("select") /\ conn = "ready"
Quiet == UNCHANGED <<target, lastDump, inbox, health, poll, outside>>

\* SetScreen: its only effect on the manager is a lost connection.
SetScreen ==
    /\ Idle
    /\ \E r \in Results :
          /\ Answer(r)
          /\ IF r = "lost" THEN Detach
             ELSE SameAttachment /\ UNCHANGED display
    /\ UNCHANGED <<step, devPaused>> /\ Quiet

BeginHistoryDump ==
    /\ Idle /\ lastDump < MaxDumps
    /\ \E r \in Results :
          /\ EnsureDisplayPaused(r)
          /\ \/ /\ r = "ok"
                /\ lastDump' = lastDump + 1
                /\ dump' = [id |-> lastDump + 1, session |-> session,
                            lease |-> LeaseTicks]
                /\ slot' = lastDump + 1
                /\ SetBusy /\ UNCHANGED debugLease
             \/ /\ r = "err"
                /\ SameAttachment /\ UNCHANGED <<lastDump, dump, slot, debugLease>>
             \/ r = "lost" /\ Detach /\ UNCHANGED lastDump
    /\ UNCHANGED <<step, target, inbox, health, poll, outside>>

\* A client that names dump id, of this session, in its request.
OwnsDump(id) == dump # NoDump /\ dump.id = id /\ dump.session = session

\* ReadHistoryDumpChunk renews the lease before it reads.
ReadHistoryDumpChunk ==
    /\ At("select")
    /\ \E id \in 1..lastDump : OwnsDump(id)
    /\ dump' = [dump EXCEPT !.lease = LeaseTicks]
    /\ Goto("reading")
    /\ SameAttachment
    /\ UNCHANGED <<slot, debugLease, paused, resumeRetry, devPaused, upsets>>
    /\ Quiet

\* The read ends: with its bytes, with an error, or cancelled, which costs no
\* upset.
ChunkRead ==
    /\ At("reading")
    /\ \/ /\ \E r \in Results :
              /\ Answer(r)
              /\ IF r = "lost" THEN Detach
                 ELSE SameAttachment /\ UNCHANGED display
       \/ SameAttachment /\ UNCHANGED <<display, upsets>>
    /\ Goto("select")
    /\ UNCHANGED devPaused /\ Quiet

EndHistoryDump ==
    /\ At("select")
    /\ \E id \in 1..lastDump :
          /\ OwnsDump(id)
          /\ Release(NoDump, debugLease, ClearHistoryCancellation(id), SetReady)
    /\ UNCHANGED step /\ Quiet

PauseDisplay ==
    /\ At("select") /\ conn \in {"ready", "busy"}
    /\ \E r \in Results, t \in DebugTicks :
          /\ EnsureDisplayPaused(r)
          /\ IF r = "lost" THEN Detach
             ELSE /\ debugLease' = IF r = "ok" THEN t ELSE debugLease
                  /\ SameAttachment /\ UNCHANGED <<dump, slot>>
    /\ UNCHANGED step /\ Quiet

ResumeDisplay ==
    /\ At("select")
    /\ Release(dump, Off, slot, SameAttachment)
    /\ UNCHANGED step /\ Quiet

SetPollInterval ==
    /\ At("select")
    /\ pollInterval' \in PollIntervals \ {pollInterval}
    /\ SameAttachment
    /\ UNCHANGED <<step, target, lastDump, inbox, devPaused, upsets,
                   display, health, nextPoll, outside>>

\* Exclusive operations.  ReadDeviceInfo, ClearFaults, RebootDevice and the six
\* configuration commands ("config") leave the display alone.
StartPlain ==
    /\ Idle
    /\ step' \in PlainOps /\ (step' = "reboot" => upsets < MaxUpsets)
    /\ SetBusy
    /\ UNCHANGED <<display, devPaused, upsets>> /\ Quiet

\* A reboot ends in a disconnect when it is sent and when it is lost; it
\* restarts the device, whose display runs again.
FinishPlain ==
    /\ step \in PlainOps
    /\ \E r \in Results :
          IF At("reboot") /\ r = "ok"
          THEN /\ link /\ upsets' = upsets + 1
               /\ devPaused' = devPaused \ {port}
               /\ Detach
          ELSE /\ Answer(r) /\ UNCHANGED devPaused
               /\ IF r = "lost" THEN Detach
                  ELSE /\ Become("ready") /\ UNCHANGED display
                       /\ TakeSample(At("faults") /\ r = "ok")
    /\ Goto("select") /\ Quiet

\* ReadHistoryChunk ("chunk") and Read/WriteThemeAsset ("theme") pause the
\* display around their SPI work.
StartPaused ==
    /\ Idle
    /\ \E r \in Results :
          /\ EnsureDisplayPaused(r)
          /\ CASE r = "ok"   -> step' \in PausedOps /\ SetBusy
                                /\ UNCHANGED <<dump, slot, debugLease>>
               [] r = "err"  -> SameAttachment
                                /\ UNCHANGED <<step, dump, slot, debugLease>>
               [] r = "lost" -> Detach /\ UNCHANGED step
    /\ Quiet

\* The SPI work loses the connection; the display is resumed all the same.
WorkLost ==
    /\ upsets' = IF link THEN upsets + 1 ELSE upsets
    /\ upsets' <= MaxUpsets
    /\ devPaused' \in {devPaused} \union
           (IF link /\ debugLease = Off THEN {devPaused \ {port}} ELSE {})
    /\ Detach

\* ReadHistoryChunk answers with the error of its read, if that has failed, and
\* overlooks that the resume has lost the connection: the device stays Ready
\* over a tty that is dead, and no retry is scheduled.
LossOverlooked ==
    /\ At("chunk") /\ ResumeDisplayIfUnowned(dump, debugLease, "lost")
    /\ conn' = "ready" /\ link' = FALSE
    /\ UNCHANGED <<candidates, port, identity, session, fresh, sampled, display>>

\* The SPI work ends, with its bytes or an error, which costs no upset (a range
\* or a slot may be refused); then the display is resumed.
FinishPaused ==
    /\ step \in PausedOps
    /\ Release(dump, debugLease, slot, SetReady) \/ WorkLost \/ LossOverlooked
    /\ Goto("select") /\ Quiet

--------------------------------------------------------------------------------
\* The world outside the task.

Elapse(t) == IF t > 0 THEN t - 1 ELSE t

Tick ==
    /\ nextPoll' = Elapse(nextPoll)
    /\ debugLease' = Elapse(debugLease)
    /\ resumeRetry' = Elapse(resumeRetry)
    /\ dump' = [dump EXCEPT !.lease = Elapse(@)]
    /\ retry' = [retry EXCEPT !.wait = Elapse(@)]
    /\ sinceGood' = IF sinceGood = Off THEN Off ELSE Min2(sinceGood + 1, ElapsedCap)
    /\ SameAttachment
    /\ UNCHANGED <<step, target, lastDump, inbox, devPaused, upsets, slot, paused,
                   pollFailures, pollInterval, outside>>

\* A device is plugged, unplugged, or handed to or back from a VM.  A tty that
\* was open on an unplugged device stays dead when the port comes back.
HostChange ==
    /\ moves < MaxMoves /\ moves' = moves + 1
    /\ host' \in SUBSET Ports \ {host}
    /\ link' = (link /\ port \in host')
    /\ UNCHANGED <<step, target, lastDump, inbox, devPaused, upsets, attachment,
                   display, health, poll, scanning>>

Enqueue(message) ==
    /\ Len(inbox) < MaxInbox /\ inbox' = Append(inbox, message)
    /\ SameAttachment
    /\ UNCHANGED <<step, target, lastDump, devPaused, upsets, display, health,
                   poll, outside>>

\* spawn_discovery repeats the current candidates every 750 ms.
Scan == scanning /\ step # "stopped"
          /\ Enqueue([kind |-> "candidates", ports |-> host])

\* An error of one scan ends the discovery task.
ScanFails ==
    /\ ScanMayFail /\ scanning /\ scanning' = FALSE
    /\ SameAttachment
    /\ UNCHANGED <<step, target, lastDump, inbox, devPaused, upsets, display,
                   health, poll, host, moves>>

\* The server loop has returned and observes the shutdown.
RequestShutdown ==
    /\ MayStop /\ step # "stopped"
    /\ \A i \in DOMAIN inbox : inbox[i].kind # "shutdown"
    /\ Enqueue([kind |-> "shutdown", ports |-> {}])

--------------------------------------------------------------------------------

HandleHostEvent == NoCandidate \/ SeveralCandidates \/ CandidateIgnored
                     \/ CandidateTried \/ Shutdown
FinishConnect == Connected \/ ConnectionFailed
TimerStage == ExpireHistoryDump \/ ExpireDebugPause
                \/ RetryDisplayResumeCleanup \/ PollOnce
FinishOperation == ChunkRead \/ FinishPlain \/ FinishPaused
Command == SetScreen \/ BeginHistoryDump \/ ReadHistoryDumpChunk
             \/ EndHistoryDump \/ PauseDisplay \/ ResumeDisplay
             \/ SetPollInterval \/ StartPlain \/ StartPaused
Outside == Tick \/ HostChange \/ Scan \/ ScanFails \/ RequestShutdown

Next == HandleHostEvent \/ FinishConnect \/ WakeUp \/ TimerStage
          \/ Command \/ FinishOperation \/ Outside

\* select! picks among its ready arms at random, so an arm that is ready again
\* and again is taken; an await in progress ends (the backend bounds every one
\* by a timeout); time passes and discovery goes on.  Clients, faults and the
\* plugging of devices are not fair.
Fairness ==
    /\ SF_vars(HandleHostEvent) /\ SF_vars(WakeUp)
    /\ WF_vars(FinishConnect) /\ WF_vars(TimerStage) /\ WF_vars(FinishOperation)
    /\ WF_vars(Tick) /\ WF_vars(Scan)

Spec == Init /\ [][Next]_vars
FairSpec == Spec /\ Fairness

--------------------------------------------------------------------------------
\* Safety.

DumpOpen  == dump # NoDump
DebugOpen == debugLease # Off
Operating == step \in PausedOps

\* Who wants the display paused now.
Owners == (IF DumpOpen THEN {"dump"} ELSE {})
            \union (IF DebugOpen THEN {"debug"} ELSE {})
            \union (IF Operating THEN {"operation"} ELSE {})

\* The manager is Busy exactly while a history dump is open or an exclusive
\* operation is running: no path through an expiry, a failed resume or a lost
\* connection leaves it Busy with nothing to end it, or Ready during a dump.
BusyMeansOwned ==
    conn = "busy" <=> DumpOpen \/ step \in PlainOps \union PausedOps

\* An open dump is the newest one, belongs to the session the device is in now,
\* and is the one the shared cancellation slot would cancel; without a dump
\* there is nothing in the slot to cancel.
DumpIsCurrent ==
    /\ slot = dump.id
    /\ DumpOpen => dump.id = lastDump /\ dump.session = session

\* The recorded pause and its owners agree: whoever owns the display has it
\* paused, and a pause without owner has a cleanup retry scheduled, unless the
\* tty is dead, which the next polls find out (ReadHistoryChunk may overlook it).
PauseAccounted ==
    /\ Owners # {} => paused
    /\ paused /\ Owners = {} => resumeRetry # Off \/ ~link

\* Nothing of a session outlives it: without an attached device there is no
\* lease, no pause, no cancellation, and the telemetry is marked stale; with
\* one, the identity is its own and telemetry not marked stale is of its session.
DetachedIsClean ==
    IF conn \in {"ready", "busy"}
    THEN port # NoPort /\ identity = port /\ (fresh => sampled = session)
    ELSE /\ port = NoPort /\ ~fresh /\ ~paused /\ slot = 0
         /\ ~DumpOpen /\ ~DebugOpen /\ resumeRetry = Off

\* A retry state says why no connection is attempted: only a failed attempt
\* leaves one, an attempt of any other port drops it, and an absent or
\* ambiguous device, or an attached one, is never held back by one.
RetryExplained ==
    /\ conn = "recovering"  => retry.port # NoPort /\ retry.wait # Never
    /\ conn = "unsupported" => retry.port # NoPort /\ retry.wait = Never
    /\ conn = "connecting"  => retry.port \in {NoPort, target}
    /\ conn \in {"absent", "ambiguous", "ready", "busy"} /\ step # "stopped" =>
          retry = NoRetry

\* The manager's record of the pause is the truth about the attached device: it
\* never reads SPI flash under a display that runs, and never forgets a pause.
\* (Only a send that fails after its bytes went out can break this.)
PauseRecordIsTrue == port # NoPort => (paused <=> port \in devPaused)

\* What makes the invariants above inductive.
TaskMatchesConnection ==
    /\ step = "connect" <=> conn = "connecting"
    /\ step = "connect" => target \in Ports
    /\ step \in PlainOps \union PausedOps => ~DumpOpen
    /\ DumpOpen => dump.id > 0 /\ dump.lease # Off
    /\ step = "reading" => DumpOpen
    /\ port # NoPort => pollFailures < 3

Inductive == /\ TypeOK /\ BusyMeansOwned /\ DumpIsCurrent /\ PauseAccounted
             /\ DetachedIsClean /\ RetryExplained /\ TaskMatchesConnection

\* The cleanup stage of the timer arm leaves no cleanup that is due: otherwise
\* the arm fires again at once, and again, without anything to do.
CleanupNeverSpins ==
    [][At("cleanup") /\ step' = "poll" => resumeRetry' # 0]_vars

\* An attachment is a new session, and no other step starts one.
AttachmentIsNewSession ==
    [][IF port' # port /\ port' # NoPort THEN session' = session + 1
       ELSE session' = session]_vars

--------------------------------------------------------------------------------
\* Refinement and liveness.

Pause == INSTANCE DisplayPause
            WITH Clients <- {"dump", "debug", "operation"},
                 attached <- (port # NoPort), owners <- Owners, isPaused <- paused

\* Ownership of the display, as docs/varlink.md and docs/protocol.md describe
\* it: history, debug and operation pauses are independent, none resumes the
\* display under another, and a failed resume is retried until it succeeds.
ImplementsDisplayPause == Pause!Spec

\* The safety part of ImplementsDisplayPause.
ImplementsPauseSteps == Pause!Init /\ [][Pause!Next]_(Pause!vars)

\* A dump whose client stops reading is closed by its lease, or its client
\* keeps reading for ever (docs/protocol.md: the 10-second daemon lease).
AbandonedDumpCloses ==
    []<>~DumpOpen \/ []<><<ReadHistoryDumpChunk>>_vars

\* Once a single supported device stays attached, the manager serves it, unless
\* its handshake was answered as that of an unsupported device.
Attachable(p) == host = {p} /\ conn \in {"ready", "busy"} /\ port = p
StableDeviceIsServed ==
    \A p \in Ports : <>[](host = {p} /\ step # "stopped") =>
                        []<>(Attachable(p) \/ conn = "unsupported")

\* A requested shutdown is carried out.
ShutdownRequested == \E i \in DOMAIN inbox : inbox[i].kind = "shutdown"
ShutdownCompletes == ShutdownRequested ~> step = "stopped"
================================================================================
