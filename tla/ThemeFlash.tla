------------------------------ MODULE ThemeFlash ------------------------------
(***************************************************************************)
(* The bitmaps of the display's themes in the flash of the device: the     *)
(* manager's ReadThemeAsset and WriteThemeAsset (src/manager.rs), and the  *)
(* transaction on the serial line (src/backend.rs) that saves the sectors  *)
(* around a bitmap, erases them, writes them page by page, reads them back *)
(* and, when something fails, puts the saved contents back.                *)
(*                                                                         *)
(* The bitmaps do not begin or end with a sector or a page, so that a      *)
(* write goes through what belongs to their neighbours.  A cell stands for *)
(* the bytes that are of one bitmap and one page.  A call that comes while *)
(* a dump is open (Busy), and who owns the display's pause, are left to    *)
(* Manager.                                                                *)
(*                                                                         *)
(* A definition whose name ends in _Faulty is a plausible bug in the       *)
(* definition after it.                                                    *)
(***************************************************************************)
EXTENDS Naturals, Sequences

CONSTANTS
    Slots,        \* ThemeAssetSlot
    First, Size,  \* slot -> its first cell, and how many it has
    NumCells,     \* SPI_FLASH_SIZE
    SectorCells,  \* SPI_SECTOR_SIZE
    PageCells,    \* FLASH_READ_PAGE_SIZE and SPI_WRITE_PAGE_SIZE
    MaxAttempts,  \* SPI_READ_ATTEMPTS
    MaxCalls,     \* bound on the calls of clients
    MaxUpsets,    \* bound on what goes wrong in the device or on the line
    MaxMoves,     \* bound on removals of the device and crashes of the daemon
    LateAnswers   \* may an answer arrive after its timeout?

Cells == 0 .. NumCells - 1
Bitmap(s) == First[s] .. First[s] + Size[s] - 1

ASSUME SizesAssumption ==
    /\ {NumCells, SectorCells, PageCells, MaxAttempts} \subseteq Nat \ {0}
    /\ SectorCells % PageCells = 0 /\ NumCells % SectorCells = 0
ASSUME SlotsAssumption ==
    /\ First \in [Slots -> Nat] /\ Size \in [Slots -> Nat \ {0}]
    /\ \A s \in Slots : Bitmap(s) \subseteq Cells
    /\ \A s, t \in Slots : s # t => Bitmap(s) \intersect Bitmap(t) = {}
ASSUME BoundsAssumption ==
    {MaxCalls, MaxUpsets, MaxMoves} \subseteq Nat /\ LateAnswers \in BOOLEAN

VARIABLES
    queue,     \* command_rx
    ready,     \* the manager's connection is Ready, or Busy with the job
    job,       \* what the manager is doing
    backup,    \* cell -> what was read of it before the erase
    copy,      \* cell -> what the present read has of it
    themed,    \* the device's configuration is V3
    plugged,   \* the device is there
    flash,     \* cell -> its contents
    todo,      \* commands the device has not carried out
    input,     \* bytes that have arrived
    \* what has happened
    before,    \* the flash as it was when the job began
    report,    \* the answer to the job that ended last
    answered,  \* calls that have ended
    calls, upsets, moves

manager == <<queue, ready, job, backup, copy>>
device  == <<themed, plugged, flash, todo, input>>
history == <<before, report, answered>>
bounds  == <<calls, upsets, moves>>
vars == <<manager, device, history, bounds>>

\* The contents of a cell, and the bytes of an answer.
Ack == 1
Nak == 0
Blank == 255
Garbled == 254

\* What call n writes to cell x.
Pixel(n, x) == 100 * n + x

Call == [n : 1..MaxCalls, op : {"read", "write"}, slot : Slots]
Stages == {"pause", "asset", "backup", "erase", "program", "check", "resume"}
Results == {"Ok", "NotConnected", "ConnectionLost", "Transport", "Unsupported",
            "FailedAndRolledBack", "RollbackFailed", "OperationOutcomeUnknown"}
Idle == [stage |-> "none"]
NoReport == [result |-> "None"]
Job == [call : Call, stage : Stages, undoing : BOOLEAN, at : Nat, attempt : 1..MaxAttempts,
        sent : BOOLEAN, result : Results]
Request == [op : {"read", "erase", "program"}, at : Cells, len : Nat, data : Seq(Nat)]

TypeOK ==
    /\ queue \in Seq(Call) /\ job \in Job \union {Idle}
    /\ {backup, copy, flash, before} \subseteq [Cells -> Nat]
    /\ {ready, themed, plugged} \subseteq BOOLEAN
    /\ todo \in Seq(Request) /\ input \in Seq(Nat)
    /\ report \in [call : Call, result : Results] \union {NoReport}
    /\ answered \subseteq 1..MaxCalls
    /\ calls \in 0..MaxCalls /\ upsets \in 0..MaxUpsets /\ moves \in 0..MaxMoves

Init ==
    /\ queue = <<>> /\ ready = TRUE /\ job = Idle
    /\ backup = [x \in Cells |-> Blank] /\ copy = backup
    /\ themed \in BOOLEAN /\ plugged = TRUE /\ flash = [x \in Cells |-> x]
    /\ todo = <<>> /\ input = <<>>
    /\ before = flash /\ report = NoReport /\ answered = {}
    /\ calls = 0 /\ upsets = 0 /\ moves = 0

--------------------------------------------------------------------------------
\* The ranges of a transaction.

SectorStart(s) == (First[s] \div SectorCells) * SectorCells
SectorEnd(s) == ((First[s] + Size[s] + SectorCells - 1) \div SectorCells) * SectorCells
Sectors(s) == SectorStart(s) .. SectorEnd(s) - 1

Start(j) == IF j.stage = "asset" THEN First[j.call.slot] ELSE SectorStart(j.call.slot)
End(j) == IF j.stage = "asset" THEN First[j.call.slot] + Size[j.call.slot]
          ELSE SectorEnd(j.call.slot)

\* Contents f with the bitmap of call c.
Patched(f, c) ==
    [x \in Cells |-> IF x \in Bitmap(c.slot) THEN Pixel(c.n, x) ELSE f[x]]

\* What the sectors shall hold.
Wanted == IF job.undoing THEN backup ELSE Patched(backup, job.call)

PageLen == IF job.at + PageCells <= End(job) THEN PageCells ELSE End(job) - job.at
Piece(f, at, len) == [i \in 1..len |-> f[at + i - 1]]

--------------------------------------------------------------------------------
\* Calls, and the manager's handler before and after the transfer.

Ask ==
    /\ calls < MaxCalls /\ calls' = calls + 1
    /\ \E op \in {"read", "write"}, s \in Slots :
          queue' = Append(queue, [n |-> calls', op |-> op, slot |-> s])
    /\ UNCHANGED <<ready, job, backup, copy, device, history, upsets, moves>>

Answer(c, result) ==
    report' = [call |-> c, result |-> result] /\ answered' = answered \union {c.n}

\* Leaves calls to wait for a device.
Take_Faulty ==
    /\ ready /\ job = Idle /\ queue # <<>> /\ queue' = Tail(queue) /\ before' = flash
    /\ job' = [call |-> Head(queue), stage |-> "pause", undoing |-> FALSE,
               at |-> 0, attempt |-> 1, sent |-> FALSE, result |-> "Ok"]
    /\ report' = NoReport /\ UNCHANGED answered
    /\ UNCHANGED <<ready, backup, copy, device, bounds>>

Take ==
    /\ job = Idle /\ queue # <<>> /\ queue' = Tail(queue) /\ before' = flash
    /\ IF ready
       THEN /\ job' = [call |-> Head(queue), stage |-> "pause", undoing |-> FALSE,
                       at |-> 0, attempt |-> 1, sent |-> FALSE, result |-> "Ok"]
            /\ report' = NoReport /\ UNCHANGED answered
       ELSE Answer(Head(queue), "NotConnected") /\ UNCHANGED job
    /\ UNCHANGED <<ready, backup, copy, device, bounds>>

\* Goes on at the start of stage s.
To(s, undoing) ==
    LET j == [job EXCEPT !.stage = s, !.undoing = undoing, !.attempt = 1, !.sent = FALSE]
    IN  job' = [j EXCEPT !.at = Start(j)]

Finish(result) == job' = [job EXCEPT !.stage = "resume", !.result = result]

\* ensure_display_paused, which sends nothing when the display is paused.
Pause ==
    /\ job.stage = "pause"
    /\ \/ /\ IF ~themed THEN Finish("Unsupported")
             ELSE To(IF job.call.op = "read" THEN "asset" ELSE "backup", FALSE)
          /\ UNCHANGED <<ready, report, answered, upsets>>
       \/ /\ ~plugged /\ job' = Idle /\ ready' = FALSE
          /\ Answer(job.call, "ConnectionLost") /\ UNCHANGED upsets
       \/ /\ plugged /\ upsets < MaxUpsets /\ upsets' = upsets + 1
          /\ job' = Idle /\ Answer(job.call, "Transport") /\ UNCHANGED ready
    /\ UNCHANGED <<queue, backup, copy, device, before, calls, moves>>

\* resume_display_if_unowned, which may meet a device that is gone, and the
\* answer, which its failure does not change.
Resume ==
    /\ job.stage = "resume" /\ job' = Idle /\ Answer(job.call, job.result)
    /\ \/ job.result \notin {"ConnectionLost", "OperationOutcomeUnknown"} /\ UNCHANGED ready
       \/ ~plugged /\ ready' = FALSE
    /\ UNCHANGED <<queue, backup, copy, device, before, bounds>>

--------------------------------------------------------------------------------
\* The backend's requests: read_spi_page, erase_spi_sectors and write_spi_page.

Reading == job.stage \in {"asset", "backup", "check"}
OnLine == Reading \/ job.stage \in {"erase", "program"}

\* What the request asks of the device.
RequestNow ==
    IF Reading THEN [op |-> "read", at |-> job.at, len |-> PageLen, data |-> <<>>]
    ELSE IF job.stage = "erase"
    THEN [op |-> "erase", at |-> job.at, len |-> End(job) - job.at, data |-> <<>>]
    ELSE [op |-> "program", at |-> job.at, len |-> PageCells,
          data |-> Piece(Wanted, job.at, PageCells)]

\* How much the answer has.
Awaited == IF Reading THEN PageLen ELSE 1

\* Keeps what is left of an answer that was cut.
Send_Faulty ==
    /\ OnLine /\ ~job.sent /\ plugged
    /\ todo' = Append(todo, RequestNow) /\ job' = [job EXCEPT !.sent = TRUE]
    /\ UNCHANGED <<queue, ready, backup, copy, themed, plugged, flash, input, history, bounds>>

Send ==
    /\ OnLine /\ ~job.sent /\ plugged
    /\ input' = <<>> /\ todo' = Append(todo, RequestNow) /\ job' = [job EXCEPT !.sent = TRUE]
    /\ UNCHANGED <<queue, ready, backup, copy, themed, plugged, flash, history, bounds>>

\* A request fails while the device is there.  A change that may have begun is
\* undone, once.
Fail ==
    IF job.stage \in {"asset", "backup"} THEN Finish("Transport")
    ELSE IF job.undoing THEN Finish("RollbackFailed")
    ELSE To("erase", TRUE)

\* The request does not go out.
SendFails ==
    /\ OnLine /\ ~job.sent /\ plugged /\ upsets < MaxUpsets /\ upsets' = upsets + 1
    /\ Fail
    /\ UNCHANGED <<queue, ready, backup, copy, device, history, calls, moves>>

\* Takes an erase that was not answered for one that did not happen.
Lose_Faulty ==
    /\ OnLine /\ ~plugged
    /\ Finish(IF job.stage \in {"asset", "backup", "erase"} THEN "ConnectionLost"
              ELSE "OperationOutcomeUnknown")
    /\ UNCHANGED <<queue, ready, backup, copy, device, history, bounds>>

\* The device is gone.  Before the erase nothing was changed.
Lose ==
    /\ OnLine /\ ~plugged
    /\ Finish(IF job.stage \in {"asset", "backup"} THEN "ConnectionLost"
              ELSE "OperationOutcomeUnknown")
    /\ UNCHANGED <<queue, ready, backup, copy, device, history, bounds>>

TimeOut ==
    /\ OnLine /\ job.sent /\ plugged /\ Len(input) < Awaited
    /\ \/ todo = <<>> /\ UNCHANGED upsets
       \/ todo # <<>> /\ LateAnswers /\ upsets < MaxUpsets /\ upsets' = upsets + 1
    /\ IF Reading /\ job.attempt < MaxAttempts
       THEN job' = [job EXCEPT !.sent = FALSE, !.attempt = @ + 1] ELSE Fail
    /\ UNCHANGED <<queue, ready, backup, copy, device, history, calls, moves>>

Arrives(stage) ==
    /\ job.stage = stage /\ job.sent /\ plugged /\ Len(input) >= Awaited
    /\ input' = SubSeq(input, Awaited + 1, Len(input))
    /\ UNCHANGED <<queue, ready, themed, plugged, flash, todo, history, bounds>>

LastPage == job.at + PageCells >= End(job)
NextPage == job' = [job EXCEPT !.at = @ + PageCells, !.attempt = 1, !.sent = FALSE]

\* A page that was read.
Fill == copy' = [x \in Cells |-> IF x \in job.at .. job.at + PageLen - 1
                                 THEN input[x - job.at + 1] ELSE copy[x]]

ReadAsset ==
    /\ Arrives("asset") /\ Fill /\ UNCHANGED backup
    /\ IF LastPage THEN Finish("Ok") ELSE NextPage

\* Saves no more than the bitmap.
ReadBackup_Faulty ==
    /\ Arrives("backup") /\ Fill
    /\ backup' = [x \in Cells |-> IF x \in Bitmap(job.call.slot) THEN copy'[x] ELSE Blank]
    /\ IF LastPage THEN To("erase", FALSE) ELSE NextPage

ReadBackup ==
    /\ Arrives("backup") /\ Fill
    /\ IF LastPage THEN To("erase", FALSE) /\ backup' = copy' ELSE NextPage /\ UNCHANGED backup

Erased ==
    /\ Arrives("erase") /\ UNCHANGED <<backup, copy>>
    /\ IF input[1] = Ack THEN To("program", job.undoing) ELSE Fail

Programmed ==
    /\ Arrives("program") /\ UNCHANGED <<backup, copy>>
    /\ IF input[1] # Ack THEN Fail
       ELSE IF LastPage THEN To("check", job.undoing) ELSE NextPage

\* Compares what belongs to the bitmap.
ReadBack_Faulty ==
    /\ Arrives("check") /\ Fill /\ UNCHANGED backup
    /\ IF ~LastPage THEN NextPage
       ELSE IF \A x \in Bitmap(job.call.slot) : copy'[x] = Wanted[x]
       THEN Finish(IF job.undoing THEN "FailedAndRolledBack" ELSE "Ok")
       ELSE Fail

ReadBack ==
    /\ Arrives("check") /\ Fill /\ UNCHANGED backup
    /\ IF ~LastPage THEN NextPage
       ELSE IF \A x \in Sectors(job.call.slot) : copy'[x] = Wanted[x]
       THEN Finish(IF job.undoing THEN "FailedAndRolledBack" ELSE "Ok")
       ELSE Fail

--------------------------------------------------------------------------------
\* The device and the line.

\* The device carries out a request, in full with its whole answer or not.
Serve(op, sound, answer) ==
    /\ todo # <<>> /\ Head(todo).op = op /\ todo' = Tail(todo) /\ input' = input \o answer
    /\ upsets' = (IF sound THEN upsets ELSE upsets + 1) /\ upsets' <= MaxUpsets
    /\ UNCHANGED <<manager, themed, plugged, history, calls, moves>>

ServeRead ==
    /\ \E n \in 0..PageCells :
          /\ todo # <<>> /\ n <= Head(todo).len
          /\ Serve("read", n = Head(todo).len, Piece(flash, Head(todo).at, n))
    /\ UNCHANGED flash

Statuses == {<<Ack>>, <<Nak>>, <<>>}
Within(m, n) == m.at .. m.at + n - 1

\* Perhaps only the first sectors.
ServeErase ==
    \E n \in {k * SectorCells : k \in 0 .. NumCells \div SectorCells}, s \in Statuses :
        /\ todo # <<>> /\ n <= Head(todo).len
        /\ Serve("erase", n = Head(todo).len /\ s = <<Ack>>, s)
        /\ flash' = [x \in Cells |-> IF x \in Within(Head(todo), n) THEN Blank ELSE flash[x]]

\* Only a blank cell takes what is written, and perhaps not even that.
ServeProgram ==
    \E took \in {"all", "none", "garbled"}, s \in Statuses :
        /\ Serve("program", took = "all" /\ s = <<Ack>>, s)
        /\ LET m == Head(todo)
               Put(x) == LET new == m.data[x - m.at + 1] IN
                   IF took = "all" /\ flash[x] \in {Blank, new} THEN new ELSE Garbled
           IN  flash' = [x \in Cells |-> IF x \in Within(m, m.len) /\ took # "none"
                                         THEN Put(x) ELSE flash[x]]

\* The device is removed.  What it was asked for may have been carried out before.
DeviceGoes ==
    /\ plugged /\ moves < MaxMoves /\ moves' = moves + 1
    /\ plugged' = FALSE /\ todo' = <<>> /\ input' = <<>>
    /\ UNCHANGED <<manager, themed, flash, history, calls, upsets>>

\* A poll finds that the device is gone.
Notice ==
    /\ job = Idle /\ ready /\ ~plugged /\ ready' = FALSE
    /\ UNCHANGED <<queue, job, backup, copy, device, history, bounds>>

DeviceComes ==
    /\ ~ready /\ job = Idle /\ ready' = TRUE /\ plugged' = TRUE
    /\ UNCHANGED <<queue, job, backup, copy, themed, flash, todo, input, history, bounds>>

\* The daemon is killed: its calls end without an answer.
Crash ==
    /\ moves < MaxMoves /\ moves' = moves + 1
    /\ queue' = <<>> /\ ready' = FALSE /\ job' = Idle /\ todo' = <<>> /\ input' = <<>>
    /\ report' = NoReport /\ answered' = 1..calls
    /\ UNCHANGED <<backup, copy, themed, plugged, flash, before, calls, upsets>>

--------------------------------------------------------------------------------

Handler == Take \/ Pause \/ Resume
Transaction == Send \/ SendFails \/ TimeOut \/ Lose \/ ReadAsset \/ ReadBackup
               \/ Erased \/ Programmed \/ ReadBack
Device == ServeRead \/ ServeErase \/ ServeProgram
Outside == DeviceGoes \/ DeviceComes \/ Notice \/ Crash

Next == Ask \/ Handler \/ Transaction \/ Device \/ Outside

\* The manager's task is run, and every await of the transaction is bounded.
\* A device that never answers is one that carries out nothing and says nothing.
Fairness == WF_vars(Handler) /\ WF_vars(Transaction) /\ WF_vars(Device)

Spec == Init /\ [][Next]_vars
FairSpec == Spec /\ Fairness

--------------------------------------------------------------------------------
\* Properties.

Told(op, results) ==
    report # NoReport /\ report.call.op = op /\ report.result \in results
Untouched == {"NotConnected", "ConnectionLost", "Transport", "Unsupported",
              "FailedAndRolledBack"}

\* Whoever is told that a write is done finds the bitmap in the flash and every
\* neighbour as it was, whatever failed on the way.
WriteIsWhole == Told("write", {"Ok"}) => flash = Patched(before, report.call)

\* A write that is answered with anything but an unknown outcome or a failed
\* rollback has left no trace in the flash.
FailureIsClean == Told("write", Untouched) => flash = before

\* A bitmap that was read is the one in the flash, and reading changes nothing.
ReadIsTrue ==
    report # NoReport /\ report.call.op = "read" =>
        /\ flash = before
        /\ report.result = "Ok" =>
              \A x \in Bitmap(report.call.slot) : copy[x] = flash[x]

\* The flash changes only in the sectors of a bitmap that is being written, and
\* never before those sectors are saved as they were.
ErasedOnlyWhenSaved ==
    [][\A x \in Cells : flash'[x] # flash[x] =>
          /\ job # Idle /\ job.call.op = "write" /\ x \in Sectors(job.call.slot)
          /\ \A y \in Sectors(job.call.slot) : backup[y] = before[y]]_vars

\* The call that is served, and the last answer with the bitmap that was read.
Served == IF job = Idle THEN Idle ELSE job.call
Given ==
    IF report = NoReport THEN NoReport
    ELSE [call |-> report.call, result |-> report.result,
          shown |-> IF report.call.op = "read" /\ report.result = "Ok"
                    THEN [x \in Bitmap(report.call.slot) |-> copy[x]] ELSE <<>>]

Store == INSTANCE ThemeStore WITH
    Part <- [s \in Slots |-> Bitmap(s)], Around <- [s \in Slots |-> Sectors(s)],
    Calls <- Call, Image <- [n \in 1..MaxCalls |-> [x \in Cells |-> Pixel(n, x)]],
    NoCall <- Idle, NoAnswer <- NoReport,
    waiting <- queue, task <- Served, contents <- flash, base <- before, told <- Given

\* The transaction, with its pages, retries and rollback, is to its callers one
\* step on a flash: calls are served in their order, the flash changes only around
\* the bitmap that is being written, and every answer, the bitmap that a read
\* returns included, is true when it is given.
ImplementsThemeStore == Store!Spec

\* Every call ends: with an answer, or with the daemon.
CallsEnd == \A n \in 1..MaxCalls : calls >= n ~> n \in answered

--------------------------------------------------------------------------------
\* The inductive invariant, where answers are not late: what the theorems of
\* ThemeFlashProofs rest on.

KindsOK ==
    /\ queue \in Seq(Call) /\ job \in Job \union {Idle} /\ input \in Seq(Nat)
    /\ {backup, copy, flash, before} \subseteq [Cells -> Nat]
    /\ report \in [call : Call, result : Results] \union {NoReport}

\* At most the present request is under way, and what has arrived of a page is
\* the beginning of it.
LineOK ==
    /\ todo # <<>> => OnLine /\ job.sent /\ plugged /\ todo = <<RequestNow>> /\ input = <<>>
    /\ Reading /\ job.sent =>
          /\ Len(input) <= PageLen
          /\ \A i \in DOMAIN input : input[i] = flash[job.at + i - 1]

\* A transaction is between the ends of its range, and writes whole pages.
PlaceOK ==
    /\ OnLine => Start(job) <= job.at /\ job.at < End(job)
    /\ job.stage = "erase" => job.at = Start(job)
    /\ job.stage = "program" => (End(job) - job.at) % PageCells = 0

KindOfJob ==
    /\ job.stage = "asset" => job.call.op = "read"
    /\ job.stage \in {"backup", "erase", "program", "check"} => job.call.op = "write"

\* What the flash, the backup and the present read hold at each stage.
ContentsOK ==
    /\ job.stage \in {"pause", "asset", "backup"} => flash = before
    /\ Reading => \A x \in Start(job) .. job.at - 1 : copy[x] = flash[x]
    /\ job.stage \in {"erase", "program", "check"} =>
          /\ \A x \in Sectors(job.call.slot) : backup[x] = before[x]
          /\ \A x \in Cells \ Sectors(job.call.slot) : flash[x] = before[x]

\* How a read may end.
ReadResults == {"Ok", "NotConnected", "ConnectionLost", "Transport", "Unsupported"}

\* What call c is told agrees with the flash.
Truth(c, result) ==
    IF c.op = "read"
    THEN /\ flash = before /\ result \in ReadResults
         /\ result = "Ok" => \A x \in Bitmap(c.slot) : copy[x] = flash[x]
    ELSE /\ result = "Ok" => flash = Patched(before, c)
         /\ result \in Untouched => flash = before

ResultsOK ==
    /\ job.stage = "resume" => Truth(job.call, job.result)
    /\ job # Idle => report = NoReport
    /\ report # NoReport => Truth(report.call, report.result)

Inductive == KindsOK /\ LineOK /\ PlaceOK /\ KindOfJob /\ ContentsOK /\ ResultsOK
================================================================================
