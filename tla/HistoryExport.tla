---------------------------- MODULE HistoryExport ----------------------------
(***************************************************************************)
(* What is done with a dump that has been downloaded: the command line     *)
(* (src/bin/wireview.rs) and the window (crates/wireview-gui/src/          *)
(* export.rs) decode it record by record, or take it as it is, into a      *)
(* temporary file that replaces the destination at the end; the command    *)
(* line also writes theme bitmaps so.  Writes, syncs and renames may fail, *)
(* a signal may ask for the end, and the process may be killed or the      *)
(* power lost at any point.                                                *)
(*                                                                         *)
(* A file is known by the records in it.  What is not synced may or may    *)
(* not survive the loss of power: the contents of a file, and the name it  *)
(* was given.                                                              *)
(*                                                                         *)
(* A definition whose name ends in _Faulty is a plausible bug in the       *)
(* definition after it.                                                    *)
(***************************************************************************)
EXTENDS HistoryLog

CONSTANTS
    Flashes,     \* what the flash may hold where nothing goes wrong,
    Samples,     \* and where something may
    MaxTries,    \* names tried for the temporary file (100, 64 in the window)
    MaxUpsets    \* bound on failures, kills and losses of power

ASSUME ExportAssumption ==
    /\ Flashes \union Samples \subseteq {f \in [Slots -> Records] : Padded(f)}
    /\ MaxTries \in Nat /\ MaxUpsets \in Nat

VARIABLES
    job,        \* who exports what
    flash,      \* the dump
    stale,      \* temporary names that killed runs of the same process id have left
    taken,      \* temporary names that exist
    \* the run
    stage,      \* how far it is
    name,       \* the temporary name that is tried, then ours
    at,         \* the slot that is looked at next
    found,      \* found_first
    empty,      \* empty_run
    written,    \* records that were written
    signalled,  \* HistoryCancellation.requested
    exit,       \* how it ended
    \* the disk
    synced,     \* the temporary file would survive a loss of power
    dest,       \* what the destination names: the "old" file, the "new" one, or "torn"
    durable,    \* what it is sure to name after a loss of power
    littered,   \* the temporary file could not be removed
    mishaps

walk == <<at, found, empty, written>>
disk == <<synced, dest, durable>>
export == <<job, flash, stale, taken, stage, name, walk, signalled, exit, disk, littered,
            mishaps>>

\* What is asked for, and whether the destination is named with its directory,
\* which the command line then syncs.
Jobs == {j \in [program : {"cli", "gui"}, kind : {"log", "raw", "theme"}, directory : BOOLEAN] :
            j.program = "gui" => ~j.directory}

\* Those that only decode and write, for the decoder's sake.
PlainJobs == {j \in Jobs : j.program = "gui" /\ j.kind = "log"}

\* What is exported: the measurements of the log, or every byte.
Document == IF job.kind = "log" THEN Log(flash) ELSE Slots

Stages == {"create", "write", "flush", "sync", "rename", "directory", "over"}
Exits == {"none", "ok", "failed", "interrupted", "unsure", "killed"}

ExportInit ==
    /\ job \in Jobs
    /\ \/ flash \in Flashes /\ mishaps = MaxUpsets /\ stale = {} /\ job \in PlainJobs
       \/ flash \in Samples /\ mishaps = 0 /\ stale \in SUBSET (0 .. MaxTries - 1)
    /\ taken = stale /\ stage = "create" /\ name = 0 /\ signalled = FALSE /\ exit = "none"
    /\ at = 0 /\ found = FALSE /\ empty = 0 /\ written = {}
    /\ synced = FALSE /\ dest = "old" /\ durable = "old" /\ littered = FALSE

--------------------------------------------------------------------------------
\* How a run ends.

Upset == mishaps < MaxUpsets /\ mishaps' = mishaps + 1

Exit(how) == exit' = how /\ stage' = "over"

\* AtomicOutput's drop removes the temporary file, and ignores that it cannot.
Abort(how) ==
    /\ Exit(how)
    /\ \/ taken' = taken \ {name} /\ UNCHANGED littered
       \/ littered' = TRUE /\ mishaps < MaxUpsets /\ UNCHANGED taken
    /\ UNCHANGED <<job, flash, stale, name, walk, signalled, disk>>

\* HistoryCancellation: only a history export of the command line can be stopped.
Cancels == job.program = "cli" /\ job.kind # "theme"
Proceeds == ~(Cancels /\ signalled)

--------------------------------------------------------------------------------
\* AtomicOutput::create.

\* Takes a name that exists for its own.
Create_Faulty ==
    /\ stage = "create" /\ stage' = "write" /\ taken' = taken \union {name}
    /\ UNCHANGED <<job, flash, stale, name, walk, signalled, exit, disk, littered, mishaps>>

\* Names are tried in turn.
Create ==
    /\ stage = "create"
    /\ \/ name < MaxTries /\ name \notin taken /\ taken' = taken \union {name}
          /\ stage' = "write" /\ UNCHANGED <<name, exit, mishaps>>
       \/ name < MaxTries /\ name \in taken /\ name' = name + 1
          /\ UNCHANGED <<taken, stage, exit, mishaps>>
       \/ name = MaxTries /\ Exit("failed") /\ UNCHANGED <<taken, name, mishaps>>
       \/ Upset /\ Exit("failed") /\ UNCHANGED <<taken, name>>
    /\ UNCHANGED <<job, flash, stale, walk, signalled, disk, littered>>

--------------------------------------------------------------------------------
\* walk_history, one round of its inner loop a step, with the visitor that writes.

Decoding == stage = "write" /\ job.kind = "log" /\ at < NumSlots
Examined == ~(found /\ Crosses(at))
Undisturbed == UNCHANGED <<job, flash, stale, taken, stage, name, signalled, exit, disk,
                           littered, mishaps>>

SkipPadding ==
    /\ Decoding /\ ~Examined /\ at' = Skip(at)
    /\ UNCHANGED <<found, empty, written>> /\ Undisturbed

\* The run that ends the log ends the walk.
SeeErased ==
    /\ Decoding /\ Examined /\ flash[at] = "erased"
    /\ empty' = IF found THEN empty + 1 ELSE empty
    /\ at' = IF found /\ empty' >= EmptyRunEnd THEN NumSlots ELSE at + 1
    /\ UNCHANGED <<found, written>> /\ Undisturbed

\* Erased slots are counted over the records between them.
SeeOther_Faulty ==
    /\ Decoding /\ Examined /\ flash[at] \notin {"erased", "sample"}
    /\ found' = (found \/ Starts(flash[at])) /\ at' = at + 1
    /\ UNCHANGED <<empty, written>> /\ Undisturbed

SeeOther ==
    /\ Decoding /\ Examined /\ flash[at] \notin {"erased", "sample"}
    /\ empty' = 0 /\ found' = (found \/ Starts(flash[at])) /\ at' = at + 1
    /\ UNCHANGED written /\ Undisturbed

SeeSample ==
    /\ Decoding /\ Examined /\ flash[at] = "sample" /\ Proceeds
    /\ empty' = 0 /\ found' = TRUE /\ at' = at + 1 /\ written' = written \union {at}
    /\ Undisturbed

\* write_raw_history writes chunk by chunk.  The bytes of a theme and those of
\* the window are written at once.
WriteBytes ==
    /\ stage = "write" /\ job.kind # "log" /\ at < NumSlots /\ Proceeds
    /\ at' = IF Cancels THEN at + 1 ELSE NumSlots
    /\ written' = written \union {p \in Slots : at <= p /\ p < at'}
    /\ UNCHANGED <<found, empty>> /\ Undisturbed

\* Where something is written, and where it is asked whether to go on.
Writing == \/ stage = "write" /\ at = NumSlots
           \/ stage = "write" /\ job.kind # "log"
           \/ Decoding /\ Examined /\ flash[at] = "sample"

\* The last check, and what closes the document.
EndDocument ==
    /\ stage = "write" /\ at = NumSlots /\ Proceeds /\ stage' = "flush"
    /\ UNCHANGED <<job, flash, stale, taken, name, walk, signalled, exit, disk, littered,
                   mishaps>>

\* ensure_history_not_cancelled fails.
Interrupted == Writing /\ ~Proceeds /\ Abort("interrupted") /\ UNCHANGED mishaps

--------------------------------------------------------------------------------
\* AtomicOutput::commit.

Flush ==
    /\ stage = "flush" /\ stage' = "sync"
    /\ UNCHANGED <<job, flash, stale, taken, name, walk, signalled, exit, disk, littered,
                   mishaps>>

\* Leaves the file to the cache.
Sync_Faulty ==
    /\ stage = "sync" /\ stage' = "rename"
    /\ UNCHANGED <<job, flash, stale, taken, name, walk, signalled, exit, disk, littered,
                   mishaps>>

Sync ==
    /\ stage = "sync" /\ stage' = "rename" /\ synced' = TRUE
    /\ UNCHANGED <<job, flash, stale, taken, name, walk, signalled, exit, dest, durable,
                   littered, mishaps>>

\* The command line goes on to sync the directory, if the path has one.
SyncsDirectory == job.program = "cli" /\ job.directory

\* Does not sync the directory.
Rename_Faulty ==
    /\ stage = "rename" /\ dest' = "new" /\ taken' = taken \ {name} /\ Exit("ok")
    /\ UNCHANGED <<job, flash, stale, name, walk, signalled, synced, durable, littered,
                   mishaps>>

Rename ==
    /\ stage = "rename" /\ dest' = "new" /\ taken' = taken \ {name}
    /\ IF SyncsDirectory THEN stage' = "directory" /\ UNCHANGED exit ELSE Exit("ok")
    /\ UNCHANGED <<job, flash, stale, name, walk, signalled, synced, durable, littered,
                   mishaps>>

\* The new file has its name already, whatever comes of this.  A program reports
\* a failure as it does any other: the exit is told apart here only.
SyncDirectory ==
    /\ stage = "directory"
    /\ \/ Exit("ok") /\ durable' = dest /\ UNCHANGED mishaps
       \/ Exit("unsure") /\ Upset /\ UNCHANGED durable
    /\ UNCHANGED <<job, flash, stale, taken, name, walk, signalled, synced, dest, littered>>

\* A write, a flush, a sync or the rename fails.
Fail == (Writing \/ stage \in {"flush", "sync", "rename"}) /\ Abort("failed") /\ Upset

--------------------------------------------------------------------------------
\* From outside.

\* A signal, which only a history export waits for.
Signal ==
    /\ stage # "over" /\ Cancels /\ ~signalled /\ signalled' = TRUE
    /\ UNCHANGED <<job, flash, stale, taken, stage, name, walk, exit, disk, littered, mishaps>>

Kill ==
    /\ stage # "over" /\ Upset /\ Exit("killed")
    /\ UNCHANGED <<job, flash, stale, taken, name, walk, signalled, disk, littered>>

\* The power is lost: a rename may or may not have reached the disk, and of a
\* file that is not synced anything may be left.
LosePower ==
    /\ dest # "torn" /\ Upset /\ stage' = "over"
    /\ exit' = IF stage = "over" THEN exit ELSE "killed"
    /\ dest' \in {dest, durable} \union (IF dest = "new" /\ ~synced THEN {"torn"} ELSE {})
    /\ durable' = dest'
    /\ UNCHANGED <<job, flash, stale, taken, name, walk, signalled, synced, littered>>

Decode == SkipPadding \/ SeeErased \/ SeeOther \/ SeeSample
Commit == Flush \/ Sync \/ Rename \/ SyncDirectory
ExportNext == \/ Create \/ Decode \/ WriteBytes \/ EndDocument \/ Interrupted \/ Commit
              \/ Fail \/ Signal \/ Kill \/ LosePower

ExportSpec == ExportInit /\ [][ExportNext]_export

--------------------------------------------------------------------------------
\* Properties.

\* The decoder, with its running flags, its count of erased slots and its way
\* round the padding, writes the measurements of the log and nothing else,
\* however the log begins and wherever it ends.
DecodesTheLog ==
    stage \in {"flush", "sync", "rename", "directory"} => written = Document

\* Whatever fails, and whenever the process or the machine goes down: the
\* destination is the old file or a whole new one.
DestinationIsWhole ==
    dest # "torn" /\ (dest = "new" => written = Document)

\* A run that fails or is interrupted has not touched the destination, and
\* leaves the directory as it was unless its own file cannot be removed.  The
\* one failure outside this is that of the directory's sync, after the rename.
FailureChangesNothing ==
    exit \in {"failed", "interrupted"} =>
        dest = "old" /\ (littered \/ taken = stale)

\* What the command line calls written survives a loss of power, if the path
\* names a directory.
SuccessIsDurable == exit = "ok" /\ SyncsDirectory => dest = "new"
================================================================================
