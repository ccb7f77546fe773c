----------------------------- MODULE CommandLine -----------------------------
(***************************************************************************)
(* One run of wireview (src/bin/wireview.rs): what it refuses before it    *)
(* connects, the check of the daemon's interface, and the command: one     *)
(* that follows the daemon's events (EventStream) or one that writes a     *)
(* file (HistoryExport).  The window's exports, which need no daemon, run  *)
(* alone.                                                                  *)
(*                                                                         *)
(* A command that writes has what it writes in memory, so that the daemon  *)
(* stands still meanwhile.  The transfer of a history is in                *)
(* HistoryTransfer, that of a theme in ThemeFlash.                         *)
(***************************************************************************)
EXTENDS EventStream, HistoryExport

VARIABLES
    command,     \* what is run
    step,        \* how far it has come
    compatible   \* is the daemon's interface one that the program knows?

process == <<command, step, compatible>>
vars == <<process, events, export>>

Follows == command \in {"watch", "monitor"}
Writes  == command \in {"history", "theme", "window"}

\* A command without a daemon, and one that asks for --yes in vain.
Commands == {"version", "unconfirmed", "watch", "monitor", "history", "theme", "window"}

CommandOf(j) == IF j.program = "gui" THEN "window"
                ELSE IF j.kind = "theme" THEN "theme" ELSE "history"

\* What a command that writes nothing is not concerned with.
NothingToWrite == /\ job = CHOOSE j \in Jobs : TRUE
                  /\ flash = CHOOSE f \in Samples : TRUE
                  /\ mishaps = 0 /\ stale = {}

Init ==
    /\ command \in Commands /\ compatible \in BOOLEAN
    /\ IF command = "window" THEN step = "running" /\ compatible ELSE step = "start"
    /\ StreamInit /\ (watching <=> command = "watch")
    /\ ExportInit /\ (IF Writes THEN command = CommandOf(job) ELSE NothingToWrite)

\* Before anything is sent.
CheckArguments ==
    /\ step = "start"
    /\ step' = IF command \in {"version", "unconfirmed"} THEN "over" ELSE "checked"
    /\ UNCHANGED <<command, compatible, events, export>>

\* The socket may be missing, or belong to another daemon.
Connect ==
    /\ step = "checked" /\ step' \in IF Follows /\ ~Serves THEN {"over"} ELSE {"connected", "over"}
    /\ UNCHANGED <<command, compatible, events, export>>

\* get_status and require_api_version.
RequireApiVersion ==
    /\ step = "connected" /\ step' = IF compatible THEN "running" ELSE "over"
    /\ UNCHANGED <<command, compatible, events, export>>

\* The daemon goes on while the command is on its way.
Daemon == Follows /\ (ManagerStep \/ SendEvent \/ RelayStep) /\ UNCHANGED <<process, export>>
Follow == Follows /\ step = "running" /\ ClientStep /\ UNCHANGED <<process, export>>
Write  == Writes /\ step = "running" /\ ExportNext /\ UNCHANGED <<process, events>>

Next == CheckArguments \/ Connect \/ RequireApiVersion \/ Daemon \/ Follow \/ Write

Spec == Init /\ [][Next]_vars /\ StreamFairness
================================================================================
