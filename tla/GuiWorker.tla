------------------------------- MODULE GuiWorker -------------------------------
(***************************************************************************)
(* The desktop client's worker (crates/wireview-gui/src/client.rs): one    *)
(* thread that carries out the window's commands and refreshes its view,   *)
(* call by call over one connection, while history downloads go on as      *)
(* tasks with connections of their own.  What it keeps of a device, the    *)
(* window shows.                                                           *)
(*                                                                         *)
(* A call is made, served and answered in separate steps.  Answers carry   *)
(* no number: the first that comes is taken for the call that waits, also  *)
(* when it is that of a call given up before.  The daemon is reduced to    *)
(* what the client can tell: its process, the device, its session number,  *)
(* which starts again with the process, and the open dump; a call it did   *)
(* not finish has no effect here.  Manager has the rest.                   *)
(*                                                                         *)
(* A definition whose name ends in _Faulty is a plausible bug in the       *)
(* definition after it.                                                    *)
(***************************************************************************)
EXTENDS Naturals, Sequences

CONSTANTS
    NumChunks,     \* chunks of a dump
    MaxCommands,   \* bound on history reads and other operations of the window, together
    MaxUpsets,     \* bound on calls refused or unanswered though they could be served
    MaxMoves       \* bound on plugging and on restarts of the daemon

ASSUME BoundsAssumption ==
    NumChunks \in Nat \ {0} /\ {MaxCommands, MaxUpsets, MaxMoves} \subseteq Nat

VARIABLES
    \* the daemon
    process,    \* which process listens on the socket
    attached,   \* is a device there?
    session,    \* session_id, as the process counts
    mark,       \* how many sessions there were, in all processes
    dump,       \* the read whose dump is open, 0 if none
    \* the worker
    mode,       \* "running", "draining" (the shutdown waits) or "ended"
    todo,       \* calls of the command or refresh in hand, the first one made
    link,       \* connection: the process at its other end, 0 if none
    wire,       \* its calls that are not answered, and answers not taken
    sessionId,  \* session_id, {} if none
    seen,       \* the mark of that session
    kept,       \* thing -> the mark of the session it is of, 0 if not kept
    reading,    \* the read whose flag is in history_cancel, 0 if none
    wanted,     \* the read history_generation stands for, 0 if none any more
    \* downloads
    tasks, results,
    \* what has happened
    hurried,    \* HISTORY_SHUTDOWN_TIMEOUT was too short
    reads, operations, upsets, moves

daemon == <<process, attached, session, mark, dump>>
connection == <<todo, link, wire>>
view == <<sessionId, seen, kept>>
history == <<reading, wanted, tasks, results>>
bounds == <<reads, operations, upsets, moves>>
vars == <<daemon, mode, connection, view, history, hurried, bounds>>

Things == {"info", "configuration", "history", "theme"}

\* Commands of one call are named for what it answers: "device" is set_screen,
\* clear_faults or reboot_device, "configure" reload_ or reset_configuration,
\* "theme" read_ or write_theme.
Single == {"device", "configure", "theme"}
Calls  == {"status", "info", "configuration", "telemetry", "poll", "apply", "rollback"}
          \union Single
Reads  == 1..MaxCommands
Marks  == 0..(MaxMoves + 1)
Call   == [call : Calls, r : {"asked", "ok", "refused"}, of : Marks, session : Marks,
           ready : BOOLEAN]
Endings == {"loaded", "cancelled", "error"}
Task   == [read : Reads, cancelled : BOOLEAN, to : Marks, session : Marks, of : Marks,
           stage : {"status", "begin", "chunk", "end"}, got : 0..NumChunks,
           ending : Endings]
Result == [read : Reads, of : Marks, ending : Endings]

Nothing == [x \in Things |-> 0]

TypeOK ==
    /\ {process, session, mark, link, seen} \subseteq Marks /\ attached \in BOOLEAN
    /\ mode \in {"running", "draining", "ended"} /\ hurried \in BOOLEAN
    /\ todo \in Seq(Calls) /\ wire \in Seq(Call)
    /\ sessionId \in {{}} \union {{n} : n \in Marks} /\ kept \in [Things -> Marks]
    /\ {dump, reading, wanted} \subseteq {0} \union Reads
    /\ tasks \subseteq Task /\ results \in Seq(Result)
    /\ reads \in 0..MaxCommands /\ operations \in 0..MaxCommands
    /\ upsets \in 0..MaxUpsets /\ moves \in 0..MaxMoves

Init ==
    /\ process = 1 /\ attached = TRUE /\ session = 1 /\ mark = 1 /\ dump = 0
    /\ mode = "running" /\ todo = <<>> /\ link = 0 /\ wire = <<>>
    /\ sessionId = {} /\ seen = 0 /\ kept = Nothing /\ reading = 0 /\ wanted = 0
    /\ tasks = {} /\ results = <<>> /\ hurried = FALSE
    /\ reads = 0 /\ operations = 0 /\ upsets = 0 /\ moves = 0

Upset == upsets < MaxUpsets /\ upsets' = upsets + 1

--------------------------------------------------------------------------------
\* The daemon.

MayServe(call) ==
    \/ call \in {"status", "poll", "rollback"}
    \/ attached /\ (call = "telemetry" \/ dump = 0)

\* A connection's calls are served in order.  A status is a snapshot: the device may
\* have changed when it arrives.
Serve ==
    /\ link = process /\ mode # "ended"
    /\ \E i \in DOMAIN wire :
         /\ wire[i].r = "asked" /\ \A j \in 1..(i - 1) : wire[j].r # "asked"
         /\ \/ /\ MayServe(wire[i].call) /\ UNCHANGED upsets
               /\ wire' = [wire EXCEPT ![i] = [call |-> @.call, r |-> "ok", of |-> mark,
                                               session |-> session, ready |-> attached]]
            \/ /\ wire' = [wire EXCEPT ![i].r = "refused"]
               /\ IF MayServe(wire[i].call)
                  THEN wire[i].call \notin {"status", "telemetry"} /\ Upset
                  ELSE UNCHANGED upsets
    /\ UNCHANGED <<daemon, mode, todo, link, view, history, hurried, reads, operations,
                   moves>>

Unplug ==
    /\ attached /\ attached' = FALSE /\ dump' = 0
    /\ UNCHANGED <<process, session, mark>>

\* A device that was there may have been replaced.
Plug ==
    /\ attached' = TRUE /\ session' = session + 1 /\ mark' = mark + 1
    /\ dump' = 0 /\ UNCHANGED process

\* Another process counts its sessions from the start, for whatever is attached then.
Restart ==
    /\ process' = process + 1 /\ dump' = 0 /\ UNCHANGED attached
    /\ session' = IF attached THEN 1 ELSE 0
    /\ mark' = IF attached THEN mark + 1 ELSE mark

Move ==
    /\ mode # "ended" /\ moves < MaxMoves /\ moves' = moves + 1 /\ (Unplug \/ Plug \/ Restart)
    /\ UNCHANGED <<mode, connection, view, history, hurried, reads, operations, upsets>>

\* The lease of a dump that nobody reads runs out.
Lapse ==
    /\ mode # "ended" /\ dump # 0 /\ dump' = 0
    /\ \A t \in tasks : t.read = dump => t.stage = "status"
    /\ UNCHANGED <<process, attached, session, mark, mode, connection, view, history,
                   hurried, bounds>>

--------------------------------------------------------------------------------
\* The worker's calls.

Idle == mode = "running" /\ todo = <<>>

Asked(call) == [call |-> call, r |-> "asked", of |-> 0, session |-> 0, ready |-> FALSE]

Ask(calls, pending) ==
    /\ todo' = calls
    /\ wire' = IF calls = <<>> THEN pending ELSE Append(pending, Asked(Head(calls)))

Cancelled(read) ==
    {IF t.read = read THEN [t EXCEPT !.cancelled = TRUE] ELSE t : t \in tasks}

InvalidateHistoryTask_Faulty ==
    wanted' = 0 /\ tasks' = Cancelled(reading) /\ UNCHANGED <<reading, results>>
InvalidateHistoryTask ==
    wanted' = 0 /\ tasks' = Cancelled(reading) /\ reading' = 0 /\ UNCHANGED results

ConnectionFailed_Faulty ==
    /\ InvalidateHistoryTask
    /\ todo' = <<>> /\ link' = 0 /\ wire' = <<>> /\ UNCHANGED <<sessionId, seen, kept>>
ConnectionFailed ==
    /\ InvalidateHistoryTask
    /\ todo' = <<>> /\ link' = 0 /\ wire' = <<>> /\ sessionId' = {}
    /\ UNCHANGED <<seen, kept>>

\* Calls whose failure to be answered ends the connection: those of
\* load_session_data do not, and a rollback's failure is wrapped.
Disconnects_Faulty(call) == call \notin {"info", "configuration", "rollback", "status"}
Disconnects(call) == call \notin {"info", "configuration", "rollback"}

Go(calls, pending) == Ask(calls, pending) /\ UNCHANGED <<link, view, history>>

Keep(x, of, calls, pending) ==
    /\ kept' = [kept EXCEPT ![x] = of] /\ Ask(calls, pending)
    /\ UNCHANGED <<link, sessionId, seen, history>>

\* What a refresh asks for after the status, before the rest of a forced one.
Load(a, k) ==
    IF ~a.ready THEN <<>>
    ELSE (IF k["info"] = 0 THEN <<"info">> ELSE <<>>)
         \o (IF k["configuration"] = 0 THEN <<"configuration">> ELSE <<>>)
         \o <<"telemetry">>

StatusTaken(a, pending) ==
    /\ seen' = a.of /\ UNCHANGED link
    /\ IF sessionId = {a.session}
       THEN /\ Ask(Load(a, kept) \o Tail(todo), pending)
            /\ UNCHANGED <<sessionId, kept, history>>
       ELSE /\ sessionId' = {a.session} /\ kept' = Nothing /\ InvalidateHistoryTask
            /\ Ask(Load(a, Nothing) \o Tail(todo), pending)

\* todo is <<"poll", "apply", "rollback">> for a change of both, and a rollback is
\* made only after a refusal.  An interval that is an earlier call's may be another.
Succeeded(a, pending) ==
    LET call == Head(todo) IN
    CASE call = "status" -> StatusTaken(a, pending)
      [] call \in {"info", "configuration", "theme"} -> Keep(call, a.of, Tail(todo), pending)
      [] call \in {"apply", "configure"} -> Keep("configuration", a.of, <<>>, pending)
      [] call = "poll" -> \E rest \in {Tail(todo)} \union (IF a.call = call THEN {} ELSE {<<>>}) :
                             Go(rest, pending)
      [] OTHER -> Go(Tail(todo), pending)

\* A refusal ends a command, leads to the rollback of an apply, or to the next call of a
\* refresh, unless it is an earlier call's.
Refused(a, pending) ==
    \/ /\ Head(todo) # "status"
       /\ Go(IF Head(todo) = "poll" THEN <<>> ELSE Tail(todo), pending)
    \/ Head(todo) \in {"status", "telemetry"} \ {a.call} /\ ConnectionFailed

Lost(pending) ==
    IF Disconnects(Head(todo)) THEN ConnectionFailed
    ELSE Go(Tail(todo), pending)

\* Answers decode as others of their type, and an error as any.
Type(call) == CASE call \in {"apply", "configure"} -> "configuration"
                [] call = "rollback" -> "poll"
                [] OTHER -> call

Waiting == mode = "running" /\ todo # <<>>

Receive ==
    /\ Waiting /\ wire # <<>> /\ Head(wire).r # "asked"
    /\ LET a == Head(wire)
           pending == Tail(wire)
       IN CASE a.r = "refused" -> Refused(a, pending)
            [] a.r = "ok" /\ Type(a.call) = Type(Head(todo)) -> Succeeded(a, pending)
            [] OTHER -> Lost(pending)
    /\ UNCHANGED <<daemon, mode, hurried, bounds>>

\* RPC_TIMEOUT, or the end of the connection.
GiveUp ==
    /\ Waiting /\ (IF link # process THEN UNCHANGED upsets ELSE Upset)
    /\ Lost(wire)
    /\ UNCHANGED <<daemon, mode, hurried, reads, operations, moves>>

--------------------------------------------------------------------------------
\* Commands of the window and the interval's refresh.

Refresh(calls) ==
    \/ /\ link # 0 /\ Go(calls, wire) /\ UNCHANGED upsets
    \/ /\ link = 0 /\ link' = process /\ Ask(calls, <<>>) /\ UNCHANGED <<view, history, upsets>>
    \/ link = 0 /\ Upset /\ ConnectionFailed

Tick ==
    /\ Idle /\ Refresh(<<"status">>)
    /\ UNCHANGED <<daemon, mode, hurried, reads, operations, moves>>

Command == Idle /\ reads + operations < MaxCommands /\ operations' = operations + 1

RefreshAll ==
    /\ Command /\ Refresh(<<"status", "info", "configuration">>)
    /\ UNCHANGED <<daemon, mode, hurried, reads, moves>>

\* Without a connection the operation fails as if it was lost.
Operate(calls) == IF link = 0 THEN ConnectionFailed ELSE Go(calls, wire)

Operation ==
    /\ Command
    /\ \/ \E call \in Single : Operate(<<call>>)
       \/ /\ kept["configuration"] # 0
          /\ \E calls \in {<<"poll">>, <<"apply">>, <<"poll", "apply", "rollback">>} :
                Operate(calls)
    /\ UNCHANGED <<daemon, mode, hurried, reads, upsets, moves>>

StartHistory_Faulty ==
    /\ Idle /\ reads + operations < MaxCommands
    /\ reads' = reads + 1 /\ reading' = reads' /\ wanted' = reads'
    /\ tasks' = tasks \union
         {[read |-> reads', cancelled |-> FALSE, to |-> process, session |-> 0, of |-> 0,
           stage |-> "status", got |-> 0, ending |-> "loaded"]}
    /\ UNCHANGED <<daemon, mode, connection, view, results, hurried, operations,
                   upsets, moves>>
StartHistory ==
    /\ Idle /\ reading = 0 /\ reads + operations < MaxCommands
    /\ reads' = reads + 1 /\ reading' = reads' /\ wanted' = reads'
    /\ tasks' = tasks \union
         {[read |-> reads', cancelled |-> FALSE, to |-> process, session |-> 0, of |-> 0,
           stage |-> "status", got |-> 0, ending |-> "loaded"]}
    /\ UNCHANGED <<daemon, mode, connection, view, results, hurried, operations,
                   upsets, moves>>

CancelHistory ==
    /\ Idle /\ reading # 0 /\ tasks' = Cancelled(reading)
    /\ UNCHANGED <<daemon, mode, connection, view, reading, wanted, results, hurried, bounds>>

Shutdown ==
    /\ Idle /\ tasks' = Cancelled(reading)
    /\ mode' = IF reading = 0 THEN "ended" ELSE "draining"
    /\ UNCHANGED <<daemon, connection, view, reading, wanted, results, hurried, bounds>>

--------------------------------------------------------------------------------
\* Downloads.

Become(t, u) == tasks' = (tasks \ {t}) \union {u} /\ UNCHANGED results

\* Of what session the chunks are matters only when they are all there.
End(u, ending) == [u EXCEPT !.stage = "end", !.ending = ending, !.session = 0, !.of = 0]

Report(t, ending) ==
    /\ tasks' = tasks \ {t}
    /\ results' = Append(results, [read |-> t.read, ending |-> ending,
                                   of |-> IF ending = "loaded" THEN t.of ELSE 0])

\* u is what t has become; the flag is looked at before every chunk.
Loop(t, u) ==
    Become(t, IF u.got = NumChunks THEN [u EXCEPT !.stage = "end"]
              ELSE IF u.cancelled THEN End(u, "cancelled")
              ELSE [u EXCEPT !.stage = "chunk"])

\* The effect of a call on the daemon, and whether it succeeds.
Carried(t, ok) ==
    CASE t.stage = "status" -> ok /\ UNCHANGED dump
      [] t.stage = "begin"  -> IF attached /\ dump = 0 THEN ok /\ dump' = t.read
                               ELSE ~ok /\ UNCHANGED dump
      [] t.stage = "chunk"  -> ok = (dump = t.read) /\ UNCHANGED dump
      [] t.stage = "end"    -> IF dump = t.read THEN ok /\ dump' = 0
                               ELSE ~ok /\ UNCHANGED dump

\* The dump's session is compared with the status's.
TaskSucceeded(t) ==
    CASE t.stage = "status" -> Become(t, [t EXCEPT !.stage = "begin", !.session = session])
      [] t.stage = "begin"  -> IF session # t.session THEN Become(t, End(t, "error"))
                               ELSE Loop(t, [t EXCEPT !.session = 0, !.of = mark])
      [] t.stage = "chunk"  -> Loop(t, [t EXCEPT !.got = @ + 1])
      [] t.stage = "end"    -> Report(t, t.ending)

TaskFailed(t) ==
    IF t.stage = "chunk" THEN Become(t, End(t, "error"))
    ELSE Report(t, IF t.stage = "end" /\ t.ending # "loaded" THEN t.ending ELSE "error")

\* A call is answered, or given up, carried out or not.
ProceedTask(t) ==
    /\ mode # "ended"
    /\ \/ /\ t.to = process /\ UNCHANGED upsets
          /\ \/ Carried(t, TRUE) /\ TaskSucceeded(t)
             \/ Carried(t, FALSE) /\ TaskFailed(t)
       \/ /\ t.to = process /\ Upset /\ TaskFailed(t)
          /\ UNCHANGED dump \/ \E ok \in BOOLEAN : Carried(t, ok)
       \/ t.to # process /\ TaskFailed(t) /\ UNCHANGED <<dump, upsets>>
    /\ UNCHANGED <<process, attached, session, mark, mode, connection, view, reading,
                   wanted, hurried, reads, operations, moves>>

--------------------------------------------------------------------------------
\* Results.

FinishHistory(result) ==
    /\ reading' = 0
    /\ kept' = IF result.ending = "loaded" THEN [kept EXCEPT !["history"] = result.of] ELSE kept

\* A result of a read that was invalidated is dropped.
TakeResult_Faulty ==
    /\ Idle /\ results # <<>> /\ results' = Tail(results)
    /\ FinishHistory(Head(results))
    /\ UNCHANGED <<daemon, mode, connection, sessionId, seen, wanted, tasks, hurried, bounds>>
TakeResult ==
    /\ Idle /\ results # <<>> /\ results' = Tail(results)
    /\ IF Head(results).read = wanted THEN FinishHistory(Head(results))
       ELSE UNCHANGED <<reading, kept>>
    /\ UNCHANGED <<daemon, mode, connection, sessionId, seen, wanted, tasks, hurried, bounds>>

\* The shutdown waits for the read it cancelled.
Drain_Faulty ==
    /\ mode = "draining" /\ results # <<>> /\ results' = Tail(results)
    /\ mode' = "ended"
    /\ UNCHANGED <<daemon, connection, view, reading, wanted, tasks, hurried, bounds>>
Drain ==
    /\ mode = "draining" /\ results # <<>> /\ results' = Tail(results)
    /\ mode' = IF Head(results).read = wanted THEN "ended" ELSE mode
    /\ UNCHANGED <<daemon, connection, view, reading, wanted, tasks, hurried, bounds>>

\* What is left of tasks and connections ends with the process.
Hurry ==
    /\ mode = "draining" /\ mode' = "ended" /\ hurried' = TRUE /\ Upset
    /\ UNCHANGED <<daemon, connection, view, history, reads, operations, moves>>

--------------------------------------------------------------------------------
Worker    == Receive \/ GiveUp \/ Tick \/ TakeResult \/ Drain \/ Hurry
Window    == RefreshAll \/ Operation \/ StartHistory \/ CancelHistory \/ Shutdown
Downloads == \E t \in tasks : ProceedTask(t)

Next == Serve \/ Move \/ Lapse \/ Worker \/ Window \/ Downloads

\* The daemon answers; the worker's loop takes whatever is ready, at random; tasks of
\* the local set and time go on.
Fairness ==
    /\ WF_vars(Serve) /\ WF_vars(Lapse)
    /\ WF_vars(Receive \/ GiveUp \/ Tick \/ Drain) /\ SF_vars(TakeResult)
    /\ \A n \in Reads :
         WF_vars(\E t \in tasks : t.read = n /\ ProceedTask(t))

Spec == Init /\ [][Next]_vars
FairSpec == Spec /\ Fairness

--------------------------------------------------------------------------------
\* While a session is shown nothing that is kept is of an earlier one: a device, or a
\* daemon that counts its sessions anew, may come while calls and downloads are
\* under way (client.rs:408-416, 823-828).
CurrentDataOnly == sessionId # {} => \A x \in Things : kept[x] = 0 \/ kept[x] >= seen

\* Answers left on the connection by calls given up, which refreshes swallow, never pass
\* for the status that decides which session the window is of (client.rs:434-457).
StatusIsItsOwn ==
    [][Receive /\ Head(todo) = "status" /\ Head(wire).call = "status" => Len(wire) = 1]_vars

\* Only the read that can be cancelled from the window goes on uncancelled, and its
\* result is the one waited for (client.rs:687-710).
OneReadAtATime ==
    /\ reading # 0 => wanted = reading
    /\ mode = "running" => \A t \in tasks : ~t.cancelled => t.read = reading

\* A shutdown that waited to the end leaves no read half done, whichever results arrive
\* meanwhile (client.rs:336-359).
DrainedReadIsWhole ==
    mode = "ended" /\ ~hurried => \A t \in tasks : t.read # reading

\* A read comes to an end for the window, which allows no other until then, however the
\* daemon, the device or the connection fails (client.rs:687-691, 705-713).
ReadEnds == reading # 0 ~> reading = 0 \/ mode # "running"

\* "The window reconnects automatically when the daemon or device becomes available"
\* (docs/desktop.md:22), and then shows the present device.
Shows ==
    /\ link = process /\ sessionId = {session} /\ seen = mark
    /\ kept["info"] = mark /\ kept["configuration"] = mark
ViewCatchesUp == []<>(mode = "running" /\ attached => Shows)

--------------------------------------------------------------------------------
\* The inductive invariant: what the theorems of GuiWorkerProofs rest on.

KindsOK == /\ TypeOK /\ {process, session, mark} \subseteq 0..(moves + 1)
           /\ \A t \in tasks : t.stage = "chunk" => t.got < NumChunks

\* A read is one task or one result, and no other goes on by itself.
ReadsOK ==
    /\ reading \in {0, wanted} /\ wanted <= reads
    /\ \A t \in tasks : t.read <= reads
    /\ \A t, u \in tasks : t.read = u.read => t = u
    /\ \A i \in DOMAIN results : /\ results[i].read <= reads
                                /\ \A t \in tasks : results[i].read # t.read
    /\ \A t \in tasks : t.cancelled \/ t.read = reading \/ mode = "ended"
    /\ mode = "draining" => reading # 0

\* A connection's calls are answered in order, and two of its answers are as far apart
\* in the sessions of its process as in those of all.
Ordered(w) ==
    \A i, j \in DOMAIN w : i < j =>
        /\ w[j].r # "asked" => w[i].r # "asked"
        /\ w[i].r = "ok" /\ w[j].r = "ok" =>
               w[i].of <= w[j].of /\ w[i].of + w[j].session = w[j].of + w[i].session

\* A status is asked for last, and taken or given up before anything else is asked.
LineOK ==
    /\ Ordered(wire) /\ link <= process /\ process > 0
    /\ link = 0 => todo = <<>> /\ wire = <<>> /\ sessionId = {}
    /\ \A i \in DOMAIN wire : wire[i].call = "status" =>
          i = Len(wire) /\ todo # <<>> /\ Head(todo) = "status"

\* The answers of w are of the session that is shown, or of a later one of its process.
Fresh(w) ==
    \A i \in DOMAIN w : w[i].r = "ok" =>
        /\ w[i].of <= mark
        /\ link = process => w[i].of + session = mark + w[i].session
        /\ \A n \in sessionId : seen <= w[i].of /\ seen + w[i].session = w[i].of + n

\* So are what is kept and what the read that is waited for will bring.
MarksOK ==
    /\ seen <= mark /\ Fresh(wire)
    /\ link = process => \A n \in sessionId : seen + session = mark + n
    /\ sessionId # {} =>
        /\ \A t \in tasks : t.read = wanted /\ t.stage \in {"chunk", "end"}
                             /\ t.ending = "loaded" => t.of >= seen
        /\ \A i \in DOMAIN results : results[i].read = wanted
                                    /\ results[i].ending = "loaded" => results[i].of >= seen

Inductive == KindsOK /\ ReadsOK /\ LineOK /\ MarksOK /\ CurrentDataOnly /\ DrainedReadIsWhole
================================================================================
