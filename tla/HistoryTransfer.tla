---------------------------- MODULE HistoryTransfer ----------------------------
(***************************************************************************)
(* A history dump from its client to the flash: the clients                *)
(* (src/bin/wireview.rs), which download chunk by chunk and may be         *)
(* interrupted or killed; the manager's handle (src/manager.rs), in whose  *)
(* tasks EndHistoryDump and the shutdown cancel a read that goes on in the *)
(* manager's; and the page reads over the serial line (src/backend.rs),    *)
(* whose answers carry no address.                                         *)
(*                                                                         *)
(* An answer is its two halves, so that it may be cut.  Input that is      *)
(* there when nobody reads has no effect, since every command of the       *)
(* backend clears the input before it is sent: an answer that arrives      *)
(* outside a read is dropped.  Display pauses are left to Manager.         *)
(*                                                                         *)
(* A definition whose name ends in _Faulty is a plausible bug in the       *)
(* definition after it.                                                    *)
(***************************************************************************)
EXTENDS Naturals, Sequences

CONSTANTS
    Clients, Nobody,
    Mortal,       \* clients that may be killed
    NumChunks,    \* chunks of a dump
    NumPages,     \* pages of a chunk
    MaxAttempts,  \* SPI_READ_ATTEMPTS
    LeaseTicks,   \* the lease of a dump (10 s)
    MaxBegins,    \* bound on the dumps that clients ask for
    MaxUpsets,    \* bound on answers that are cut or late, and errors of the line
    MaxMoves,     \* bound on removals and attachments
    MaxMishaps,   \* bound on both together
    MayStop       \* may the daemon be asked to shut down?

ASSUME SizesAssumption ==
    {NumChunks, NumPages, MaxAttempts, LeaseTicks, MaxBegins} \subseteq Nat \ {0}
ASSUME BoundsAssumption ==
    /\ {MaxUpsets, MaxMoves, MaxMishaps} \subseteq Nat /\ MayStop \in BOOLEAN
    /\ Nobody \notin Clients /\ Mortal \subseteq Clients

VARIABLES
    phase,     \* client -> where it is in its download
    held,      \* client -> the dump it was given, 0 if none
    got,       \* client -> the chunks it has
    queue,     \* command_rx
    \* the manager
    connected, \* a device is attached
    dump,      \* active_history_dump: its id, 0 if none
    lease,     \* ticks until it expires
    slot,      \* the id in history_cancellation, 0 if none
    lastDump,  \* next_history_dump_id
    reader,    \* the chunk that is being read
    \* its tasks and tokens
    cancelled, \* dumps whose token is cancelled
    timers,    \* spawned lease timers: the dump, and the ticks left
    shutdown,  \* how far the daemon's shutdown has come
    wire,      \* halves of answers on their way
    \* what has happened
    asked,     \* dumps whose end was asked for
    lapsed,    \* dumps whose lease has run out
    late,      \* an answer came when its read had ended, or timed out
    mixed,     \* a page was made of halves that are not its own
    begins, upsets, moves

clients == <<phase, held, got>>
lending == <<dump, lease, slot>>
history == <<asked, lapsed, late, mixed>>
bounds  == <<begins, upsets, moves>>
vars == <<clients, queue, connected, lending, lastDump, reader, cancelled, timers,
          shutdown, wire, history, bounds>>

Phases == {"idle", "beginning", "holding", "reading", "closing", "sending", "ending"}
NoRead == [client |-> Nobody, id |-> 0, chunk |-> 1, page |-> 1, attempt |-> 0,
           stage |-> "none", taken |-> <<>>]

Init ==
    /\ phase = [c \in Clients |-> "idle"] /\ held = [c \in Clients |-> 0]
    /\ got = [c \in Clients |-> 0] /\ queue = <<>>
    /\ connected = TRUE /\ dump = 0 /\ lease = 0 /\ slot = 0 /\ lastDump = 0
    /\ reader = NoRead /\ cancelled = {} /\ timers = {} /\ shutdown = "no"
    /\ wire = <<>> /\ asked = {} /\ lapsed = {} /\ late = FALSE /\ mixed = FALSE
    /\ begins = 0 /\ upsets = 0 /\ moves = 0

Upset == upsets < MaxUpsets /\ upsets + moves < MaxMishaps /\ upsets' = upsets + 1
Move  == moves < MaxMoves /\ upsets + moves < MaxMishaps /\ moves' = moves + 1

--------------------------------------------------------------------------------
\* Clients.

Send(c, op, id, chunk) ==
    queue' = Append(queue, [op |-> op, client |-> c, id |-> id, chunk |-> chunk])

\* The commands of connections that are gone are carried out, and their answers
\* go nowhere.
Orphan(C) ==
    /\ queue' = [i \in DOMAIN queue |-> IF queue[i].client \in C
                    THEN [queue[i] EXCEPT !.client = Nobody] ELSE queue[i]]
    /\ reader' = IF reader.client \in C THEN [reader EXCEPT !.client = Nobody] ELSE reader

Begin(c) ==
    /\ shutdown = "no" /\ phase[c] = "idle"
    /\ begins < MaxBegins /\ begins' = begins + 1
    /\ phase' = [phase EXCEPT ![c] = "beginning"] /\ Send(c, "begin", 0, 1)
    /\ UNCHANGED <<held, got, connected, lending, lastDump, reader, cancelled, timers,
                   shutdown, wire, history, upsets, moves>>

ReadChunk(c) ==
    /\ phase[c] = "holding" /\ got[c] < NumChunks
    /\ phase' = [phase EXCEPT ![c] = "reading"] /\ Send(c, "chunk", held[c], got[c] + 1)
    /\ UNCHANGED <<held, got, connected, lending, lastDump, reader, cancelled, timers,
                   shutdown, wire, history, bounds>>

\* The download is complete.
Finish(c) ==
    /\ phase[c] = "holding" /\ got[c] = NumChunks
    /\ phase' = [phase EXCEPT ![c] = "closing"]
    /\ UNCHANGED <<held, got, queue, connected, lending, lastDump, reader, cancelled,
                   timers, shutdown, wire, history, bounds>>

\* A signal: the connection is dropped and another one is made for the end.
Interrupt(c) ==
    /\ phase[c] \in {"holding", "reading"}
    /\ phase' = [phase EXCEPT ![c] = "closing"] /\ Orphan({c})
    /\ UNCHANGED <<held, got, connected, lending, lastDump, cancelled, timers, shutdown,
                   wire, history, bounds>>

\* The client is killed, or no longer waits for the end of its dump.
Abandon(c) ==
    /\ c \in Mortal /\ phase[c] \in Phases \ {"idle", "sending"}
    /\ phase' = [phase EXCEPT ![c] = "idle"] /\ held' = [held EXCEPT ![c] = 0]
    /\ Orphan({c})
    /\ UNCHANGED <<got, connected, lending, lastDump, cancelled, timers, shutdown, wire,
                   history, bounds>>

\* Leaves the cancellation to the manager.
EndCancels_Faulty(c) ==
    /\ phase[c] = "closing" /\ phase' = [phase EXCEPT ![c] = "sending"]
    /\ asked' = asked \union {held[c]}
    /\ UNCHANGED <<held, got, queue, connected, lending, lastDump, reader, cancelled,
                   timers, shutdown, wire, lapsed, late, mixed, bounds>>

\* end_history_dump: the token first, while the manager may be reading.
EndCancels(c) ==
    /\ phase[c] = "closing" /\ phase' = [phase EXCEPT ![c] = "sending"]
    /\ asked' = asked \union {held[c]}
    /\ cancelled' = IF slot = held[c] THEN cancelled \union {slot} ELSE cancelled
    /\ UNCHANGED <<held, got, queue, connected, lending, lastDump, reader, timers,
                   shutdown, wire, lapsed, late, mixed, bounds>>

EndSends(c) ==
    /\ phase[c] = "sending" /\ phase' = [phase EXCEPT ![c] = "ending"]
    /\ Send(c, "end", held[c], 1)
    /\ UNCHANGED <<held, got, connected, lending, lastDump, reader, cancelled, timers,
                   shutdown, wire, history, bounds>>

--------------------------------------------------------------------------------
\* The manager's answers.

\* Client c goes on in phase p with dump id and n chunks.
Answer(c, p, id, n) ==
    IF c = Nobody THEN UNCHANGED clients
    ELSE /\ phase' = [phase EXCEPT ![c] = p]
         /\ held' = [held EXCEPT ![c] = id] /\ got' = [got EXCEPT ![c] = n]

Fail(c) == Answer(c, "idle", 0, 0)

\* A failed chunk makes the client end its dump.
FailChunk(c) == Answer(c, "closing", IF c = Nobody THEN 0 ELSE held[c], 0)

--------------------------------------------------------------------------------
\* The manager, between two awaits of its loop.

Selecting == reader = NoRead /\ shutdown # "stopped"

\* Leaves commands to wait for a device.
Take_Faulty(op) ==
    /\ Selecting /\ connected /\ queue # <<>> /\ Head(queue).op = op
    /\ queue' = Tail(queue) /\ UNCHANGED <<connected, wire, shutdown, history, bounds>>

Take(op) == /\ Selecting /\ queue # <<>> /\ Head(queue).op = op /\ queue' = Tail(queue)
            /\ UNCHANGED <<connected, wire, shutdown, history, bounds>>

BeginHistoryDump ==
    /\ Take("begin")
    /\ IF connected /\ dump = 0
       THEN /\ lastDump' = lastDump + 1
            /\ dump' = lastDump' /\ slot' = lastDump' /\ lease' = LeaseTicks
            /\ Answer(Head(queue).client, "holding", lastDump', 0)
       ELSE Fail(Head(queue).client) /\ UNCHANGED <<lending, lastDump>>
    /\ UNCHANGED <<reader, cancelled, timers>>

\* Renews the lease, and lets a timer cancel the read when it runs out.
ReadHistoryDumpChunk ==
    /\ Take("chunk")
    /\ LET m == Head(queue) IN
          IF dump # 0 /\ dump = m.id
          THEN /\ lease' = LeaseTicks
               /\ timers' = timers \union {[id |-> dump, left |-> LeaseTicks]}
               /\ reader' = [NoRead EXCEPT !.client = m.client, !.id = m.id,
                                !.chunk = m.chunk, !.stage = "ask", !.attempt = 1]
               /\ UNCHANGED clients
          ELSE FailChunk(m.client) /\ UNCHANGED <<lease, timers, reader>>
    /\ UNCHANGED <<dump, slot, lastDump, cancelled>>

EndHistoryDump ==
    /\ Take("end") /\ Fail(Head(queue).client)
    /\ IF dump # 0 /\ dump = Head(queue).id
       THEN dump' = 0 /\ lease' = 0 /\ slot' = (IF slot = dump THEN 0 ELSE slot)
       ELSE UNCHANGED lending
    /\ UNCHANGED <<lastDump, reader, cancelled, timers>>

\* Relies on the timer of a read.
ExpireHistoryDump_Faulty ==
    /\ Selecting /\ dump \in cancelled /\ lease = 0
    /\ dump' = 0 /\ slot' = 0
    /\ UNCHANGED <<clients, queue, connected, lease, lastDump, reader, cancelled, timers,
                   shutdown, wire, history, bounds>>

\* The timer arm.
ExpireHistoryDump ==
    /\ Selecting /\ dump # 0 /\ lease = 0
    /\ dump' = 0 /\ slot' = 0
    /\ UNCHANGED <<clients, queue, connected, lease, lastDump, reader, cancelled, timers,
                   shutdown, wire, history, bounds>>

--------------------------------------------------------------------------------
\* The backend: read_spi_bytes and read_spi_page.

Expected == <<[chunk |-> reader.chunk, page |-> reader.page, half |-> 1],
              [chunk |-> reader.chunk, page |-> reader.page, half |-> 2]>>

\* Leaves the timer to itself.
EndRead_Faulty == reader' = NoRead /\ UNCHANGED timers

\* The read ends and its lease timer is aborted.
EndRead == reader' = NoRead /\ timers' = {t \in timers : t.id # reader.id}

LastPage == reader.page = NumPages

BreakOff == EndRead /\ FailChunk(reader.client)
Reading(stage) == /\ reader.stage = stage
                  /\ UNCHANGED <<queue, connected, lending, lastDump, cancelled, shutdown,
                                 asked, lapsed, begins, moves>>

\* The page is asked for.  The device answers, though not always with all of it.
Ask ==
    /\ Reading("ask") /\ UNCHANGED <<late, mixed>>
    /\ IF reader.id \in cancelled THEN BreakOff /\ UNCHANGED <<wire, upsets>>
       ELSE /\ reader' = [reader EXCEPT !.stage = "wait", !.taken = <<>>]
            /\ \E n \in 0..2 :
                  /\ wire' = wire \o SubSeq(Expected, 1, n)
                  /\ IF n < 2 THEN Upset ELSE UNCHANGED upsets
            /\ UNCHANGED <<clients, timers>>

\* A half arrives while the page is awaited.  The last one ends the page, the
\* last page the chunk.
Receive ==
    /\ Reading("wait") /\ wire # <<>> /\ wire' = Tail(wire)
    /\ LET taken == Append(reader.taken, Head(wire)) IN
          IF Len(taken) < 2
          THEN reader' = [reader EXCEPT !.taken = taken] /\ UNCHANGED <<clients, timers, mixed>>
          ELSE /\ mixed' = (mixed \/ taken # Expected)
               /\ IF ~LastPage
                  THEN /\ reader' = [reader EXCEPT !.page = @ + 1, !.attempt = 1,
                                        !.stage = "ask", !.taken = <<>>]
                       /\ UNCHANGED <<clients, timers>>
                  ELSE /\ EndRead
                       /\ Answer(reader.client, "holding",
                             IF reader.client = Nobody THEN 0 ELSE held[reader.client],
                             reader.chunk)
    /\ UNCHANGED <<upsets, late>>

\* Nobody reads: the next command will clear the input.
Discard ==
    /\ reader.stage # "wait" /\ wire # <<>> /\ wire' = Tail(wire)
    /\ UNCHANGED <<clients, queue, connected, lending, lastDump, reader, cancelled,
                   timers, shutdown, history, bounds>>

\* Breaks a cancelled read off at once.
TimeOut_Faulty ==
    /\ Reading("wait")
    /\ IF reader.id \in cancelled \/ (wire = <<>> /\ reader.attempt = MaxAttempts)
       THEN BreakOff
       ELSE wire = <<>> /\ reader' = [reader EXCEPT !.stage = "rest"]
               /\ UNCHANGED <<clients, timers>>
    /\ UNCHANGED <<wire, late, mixed, upsets>>

\* SPI_READ_TIMEOUT passes.  A cancelled read ends only now.
TimeOut ==
    /\ Reading("wait")
    /\ \/ wire = <<>> /\ UNCHANGED <<upsets, late>>
       \/ wire # <<>> /\ Upset /\ late' = TRUE
    /\ IF reader.id \in cancelled \/ reader.attempt = MaxAttempts THEN BreakOff
       ELSE reader' = [reader EXCEPT !.stage = "rest"] /\ UNCHANGED <<clients, timers>>
    /\ UNCHANGED <<wire, mixed>>

\* The line fails with a plain error, which ends the read at once: the command
\* may have gone out, and an answer may be on its way that nobody waits for.
ReadFails ==
    /\ \/ Reading("ask") /\ reader.id \notin cancelled /\ wire' \in {wire, wire \o Expected}
       \/ Reading("wait") /\ UNCHANGED wire
    /\ \/ wire' = <<>> /\ UNCHANGED late
       \/ wire' # <<>> /\ late' = TRUE
    /\ BreakOff /\ Upset /\ UNCHANGED mixed

\* SPI_READ_RETRY_DELAY passes, or the cancellation comes first.
Retry ==
    /\ Reading("rest")
    /\ \/ reader.id \in cancelled /\ BreakOff
       \/ reader' = [reader EXCEPT !.stage = "ask", !.attempt = @ + 1]
             /\ UNCHANGED <<clients, timers>>
    /\ UNCHANGED <<wire, late, mixed, upsets>>

--------------------------------------------------------------------------------
\* Time, the device and the daemon.

Less(n) == IF n = 0 THEN 0 ELSE n - 1

Tick ==
    /\ lease > 0 \/ \E t \in timers : t.left > 0
    /\ lease' = Less(lease) /\ timers' = {[t EXCEPT !.left = Less(@)] : t \in timers}
    /\ lapsed' = IF dump # 0 /\ lease' = 0 THEN lapsed \union {dump} ELSE lapsed
    /\ UNCHANGED <<clients, queue, connected, dump, slot, lastDump, reader, cancelled,
                   shutdown, wire, asked, late, mixed, bounds>>

\* A lease timer that is due cancels its dump's token.
TimerFires ==
    /\ \E t \in timers : /\ t.left = 0 /\ timers' = timers \ {t}
                         /\ cancelled' = cancelled \union {t.id}
    /\ UNCHANGED <<clients, queue, connected, lending, lastDump, reader, shutdown, wire,
                   history, bounds>>

\* The device goes: whatever is read fails, and the manager drops the dump.
DeviceGoes ==
    /\ connected /\ connected' = FALSE /\ Move
    /\ dump' = 0 /\ slot' = 0 /\ lease' = 0 /\ wire' = <<>>
    /\ IF reader = NoRead THEN UNCHANGED <<clients, reader, timers>> ELSE BreakOff
    /\ UNCHANGED <<queue, lastDump, cancelled, shutdown, history, begins, upsets>>

DeviceComes ==
    /\ ~connected /\ connected' = TRUE /\ Move
    /\ shutdown # "stopped"
    /\ UNCHANGED <<clients, queue, lending, lastDump, reader, cancelled, timers, shutdown,
                   wire, history, begins, upsets>>

\* The server returns, which drops its connections with what they await.
StopServing ==
    /\ MayStop /\ shutdown = "no" /\ shutdown' = "closed"
    /\ phase' = [c \in Clients |-> "idle"] /\ held' = [c \in Clients |-> 0]
    /\ Orphan(Clients)
    /\ UNCHANGED <<got, connected, lending, lastDump, cancelled, timers, wire, history,
                   bounds>>

\* Sends the event without the cancellation.
CancelForShutdown_Faulty ==
    /\ shutdown = "closed" /\ shutdown' = "cancelled"
    /\ UNCHANGED <<clients, queue, connected, lending, lastDump, reader, cancelled, timers,
                   wire, history, bounds>>

\* observe: the token first, then the event.
CancelForShutdown ==
    /\ shutdown = "closed" /\ shutdown' = "cancelled"
    /\ cancelled' = IF slot # 0 THEN cancelled \union {slot} ELSE cancelled
    /\ UNCHANGED <<clients, queue, connected, lending, lastDump, reader, timers, wire,
                   history, bounds>>

QueueShutdown ==
    /\ shutdown = "cancelled" /\ shutdown' = "queued"
    /\ UNCHANGED <<clients, queue, connected, lending, lastDump, reader, cancelled, timers,
                   wire, history, bounds>>

\* The manager's loop ends.
Stop ==
    /\ Selecting /\ shutdown = "queued" /\ shutdown' = "stopped"
    /\ connected' = FALSE /\ dump' = 0 /\ slot' = 0 /\ lease' = 0 /\ queue' = <<>>
    /\ UNCHANGED <<clients, lastDump, reader, cancelled, timers, wire, history, bounds>>

--------------------------------------------------------------------------------

Client(c) == Begin(c) \/ ReadChunk(c) \/ Finish(c) \/ Interrupt(c) \/ Abandon(c)
EndCall(c) == EndCancels(c) \/ EndSends(c)
HandleCommand == BeginHistoryDump \/ ReadHistoryDumpChunk \/ EndHistoryDump
PageRead == Ask \/ Receive \/ TimeOut \/ ReadFails \/ Retry
Outside == Tick \/ TimerFires \/ Discard \/ DeviceGoes \/ DeviceComes
ShutDown == StopServing \/ CancelForShutdown \/ QueueShutdown

Next == \/ \E c \in Clients : Client(c) \/ EndCall(c)
        \/ HandleCommand \/ ExpireHistoryDump \/ Stop \/ PageRead \/ Outside \/ ShutDown

\* The connections' futures and the timers' tasks are run; the select loop picks
\* among its ready arms at random, so one that is ready again and again is
\* taken; every await of a page is bounded.  Clients, the device and the shutdown
\* are not fair.
Fairness ==
    /\ \A c \in Clients : WF_vars(EndCall(c))
    /\ SF_vars(HandleCommand) /\ SF_vars(ExpireHistoryDump)
    /\ WF_vars(PageRead) /\ WF_vars(Tick) /\ WF_vars(TimerFires)

Spec == Init /\ [][Next]_vars
FairSpec == Spec /\ Fairness

--------------------------------------------------------------------------------
\* Properties.

Asks == reader.stage = "ask" /\ reader'.stage = "wait"

\* Nobody's dump is cancelled by another's end, by the lease of another read or
\* by a timer that was left behind: while the daemon runs, a token is cancelled
\* only for a dump whose end was asked for or whose lease ran out.
CancelledForAReason == shutdown = "no" => cancelled \subseteq asked \union lapsed

\* Once a client has asked for the end of its dump, the device is asked for no
\* further page of it, however much of a chunk, or how many chunks, are left.
EndedDumpIsQuiet == [][Asks => reader.id \notin asked]_vars

\* Once the shutdown has cancelled, no page of a dump is asked for, whatever
\* commands are still queued: the daemon stops after one page at the most.
ShutdownIsQuiet == [][Asks => shutdown \in {"no", "closed"}]_vars

\* No page that is handed out is made of the answers to other requests, over
\* retries and cancelled reads, however answers are cut, unless one has come
\* later than SPI_READ_TIMEOUT, or after its read had failed: only time tells the
\* answers of two requests apart.
PagesAreTheirOwn == mixed => late

\* What its clients see: a download that is ending has three steps of the client's.
Seen(p, id, n) == [at |-> IF p \in {"closing", "sending"} THEN "ending" ELSE p, dump |-> id,
                   got |-> IF p \in {"holding", "reading"} THEN n ELSE 0]
View == [c \in Clients |-> Seen(phase[c], held[c], got[c])]

Lending == INSTANCE DumpLending WITH
    Last <- NumChunks, client <- View, open <- dump, issued <- lastDump

\* The commands in the queue, the read page by page with its retries, the tokens
\* and the timers are to the clients one lending of the flash: a dump is lent to one
\* of them under a new number, each answer reaches the connection that waits for it,
\* chunks come in order while the dump is open, made of their own pages unless an
\* answer was late, and the dump is closed when its end is answered.
ImplementsDumpLending == Lending!Spec

\* Whoever asks for the end of a dump is answered.
EndIsAnswered == \A c \in Clients : phase[c] = "ending" ~> phase[c] # "ending"

\* A dump that nobody holds, because its client has gone, is closed: dumps are
\* not left open for ever.
AbandonedDumpIsClosed == []<>(dump # 0 => \E c \in Clients : held[c] = dump)

--------------------------------------------------------------------------------
\* The inductive invariant: what the theorems of HistoryTransferProofs rest on.

\* The variables have their kinds, whatever the bounds of a run.
Half == [chunk : Nat, page : Nat, half : 1..2]
Message == [op : {"begin", "chunk", "end"}, client : Clients \union {Nobody},
            id : Nat, chunk : Nat]
Read == [client : Clients \union {Nobody}, id : Nat, chunk : Nat, page : Nat,
         attempt : Nat, stage : {"none", "ask", "wait", "rest"}, taken : Seq(Half)]
ClientsOK ==
    phase \in [Clients -> Phases] /\ held \in [Clients -> Nat] /\ got \in [Clients -> Nat]
TypeOK ==
    /\ ClientsOK /\ queue \in Seq(Message)
    /\ {dump, slot, lastDump, lease} \subseteq Nat /\ asked \subseteq Nat
    /\ reader \in Read /\ timers \subseteq [id : Nat, left : Nat] /\ wire \in Seq(Half)
    /\ shutdown \in {"no", "closed", "cancelled", "queued", "stopped"}

\* The token is that of the open dump, and a dump to come is not known yet.
IdsAreOld ==
    /\ slot = dump /\ dump <= lastDump
    /\ \A d \in asked : d <= lastDump
    /\ \A c \in Clients : held[c] <= lastDump
    /\ \A i \in DOMAIN queue : queue[i].id <= lastDump

\* What is read is the open dump, and the timers that run are those of the read.
ReadsTheDump ==
    /\ reader.stage # "none" => reader.id = dump /\ dump # 0
    /\ \A t \in timers : reader.stage # "none" /\ t.id = dump /\ t.left = lease

\* The reasons to cancel the open dump.
DumpKnowsItsEnd ==
    /\ dump # 0 /\ lease = 0 => dump \in lapsed
    /\ dump # 0 /\ dump \in asked => dump \in cancelled

\* The connections that are gone have no part in the shutdown, which has
\* cancelled what is read and what can still be read.
NobodyIsServed ==
    shutdown # "no" => /\ \A c \in Clients : phase[c] = "idle"
                       /\ reader.client = Nobody
                       /\ \A i \in DOMAIN queue : queue[i].client = Nobody
ShutdownCancels ==
    shutdown \notin {"no", "closed"} =>
        /\ reader.stage # "none" => reader.id \in cancelled
        /\ \A i \in DOMAIN queue :
              queue[i].op = "chunk" /\ queue[i].id = dump /\ dump # 0 => dump \in cancelled

\* Who waits for an answer has asked one question that is not answered yet, and what
\* was asked is what it waits for.
Fits(c, op, id, chunk) ==
    \/ op = "begin" /\ phase[c] = "beginning"
    \/ op = "chunk" /\ phase[c] = "reading" /\ held[c] = id /\ chunk = got[c] + 1
    \/ op = "end" /\ phase[c] = "ending" /\ held[c] = id
ClientFits(c) ==
    /\ phase[c] \in {"idle", "beginning"} => held[c] = 0
    /\ reader.client = c => Fits(c, "chunk", reader.id, reader.chunk)
    /\ \A i \in DOMAIN queue : queue[i].client = c =>
          /\ Fits(c, queue[i].op, queue[i].id, queue[i].chunk) /\ reader.client # c
          /\ \A j \in DOMAIN queue : queue[j].client = c => i = j
AnswersFit == \A c \in Clients : ClientFits(c)

Inductive ==
    /\ TypeOK /\ IdsAreOld /\ ReadsTheDump /\ DumpKnowsItsEnd
    /\ NobodyIsServed /\ ShutdownCancels /\ CancelledForAReason
================================================================================
