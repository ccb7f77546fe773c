--------------------------- MODULE ConfigTransaction ---------------------------
(***************************************************************************)
(* Reading and changing the device's configuration: the Varlink methods    *)
(* (src/varlink.rs), each of which may call the manager twice and reads    *)
(* the published session in between, and the manager's handlers            *)
(* (src/manager.rs), which check, write, read back, store and, when        *)
(* something fails, roll back.                                             *)
(*                                                                         *)
(* The manager handles one command at a time, in the order of command_rx,  *)
(* and awaits the backend at every stage of a handler: "work" says where   *)
(* it is.  A call of the backend is its outcome, as in Manager.            *)
(*                                                                         *)
(* A configuration is its settings, by the parts (frames of 62 bytes) in   *)
(* which it is written, and the firmware's CRC, which is opaque to the     *)
(* host: the settings it was computed from.  Settings that cannot be       *)
(* decoded are Blank; Odd ones decode but are out of range.                *)
(*                                                                         *)
(* A definition whose name ends in _Faulty is a plausible bug in the       *)
(* definition after it.                                                    *)
(***************************************************************************)
EXTENDS Naturals, Sequences, FiniteSets

CONSTANTS
    Clients,      \* connections of clients, one call at a time each
    NumParts, Values, Defaults,
    Blank, Odd, NoCall, Nobody,
    MaxCalls,     \* bound on the calls of all clients
    MaxUpsets,    \* bound on the faults of the serial line
    MaxMoves,     \* bound on removals, attachments and crashes
    MayCrash      \* may the daemon die and be restarted?

Parts    == 1..NumParts
Settings == [Parts -> Values]
Contents == Settings \union {Blank, Odd}
Configuration == [set : Contents, crc : Contents]

ASSUME SettingsAssumption ==
    /\ NumParts \in Nat \ {0} /\ Defaults \in Settings
    /\ Blank \notin Settings \union {Odd} /\ Odd \notin Settings
ASSUME BoundsAssumption ==
    /\ {MaxCalls, MaxUpsets, MaxMoves} \subseteq Nat /\ MayCrash \in BOOLEAN
    /\ Nobody \notin Clients

VARIABLES
    call,      \* client -> the call it waits for
    phase,     \* client -> where the service is with that call
    doc,       \* client -> the document it holds: revision and settings
    seen,      \* client -> the configuration the manager last answered it
    expected,  \* client -> expected_revision of its ApplyConfiguration
    told,      \* client -> how its last call ended
    queue,     \* command_rx: the clients whose command waits
    work,      \* the manager's handler
    connected, \* the manager is Ready or Busy
    session,   \* state.session_id
    paced,     \* last_nvm_mutation is less than a second ago
    \* the device
    active, saved,
    epoch,     \* which attachment of a device this is
    recent,    \* its NVM was changed less than a second ago
    \* how the device was before the handler
    base,
    calls, upsets, moves

service == <<call, phase, doc, seen, expected, told>>
device  == <<active, saved, epoch>>
time    == <<paced, recent>>
vars == <<service, queue, work, connected, session, time, device, base,
          calls, upsets, moves>>

Results == {"ok", "err", "lost"}
Endings == {"none", "ok", "refused", "rolled_back", "restored", "failed", "unknown"}
Phases  == {"idle", "asking", "stamping", "waiting", "closing"}
Stages  == {"idle", "read", "item", "check", "write", "readback", "store", "reread",
            "undo", "undo_check", "undo_store", "undo_reread",
            "keep", "nvm", "loaded", "restore", "restore_check"}

Nothing == [set |-> Blank, crc |-> Blank]
NoDoc   == [session |-> 0, cfg |-> Nothing]
NoRevision == [session |-> 0, cfg |-> Nothing]
Idle    == [stage |-> "idle", client |-> Nobody, want |-> Nothing, before |-> Nothing]

\* ApplyConfiguration and StoreConfiguration differ in persist; so do the two
\* forms of SetConfigurationItem.  Fields a method has not are fixed.
Calls ==
    [op : {"apply"}, part : {1}, set : Settings, persist : BOOLEAN]
      \union {r \in [op : {"set"}, part : Parts, set : Settings, persist : BOOLEAN] :
                 \A p \in Parts \ {r.part} : r.set[p] = Defaults[p]}
      \union {[op |-> o, part |-> 1, set |-> Defaults, persist |-> o = "reset"] :
                 o \in {"get", "reload", "reset"}}

ASSUME NoCallAssumption == NoCall \notin Calls

TypeOK ==
    /\ call \in [Clients -> Calls \union {NoCall}] /\ phase \in [Clients -> Phases]
    /\ doc \in [Clients -> [session : Nat, cfg : Configuration]]
    /\ seen \in [Clients -> Configuration]
    /\ expected \in [Clients -> [session : Nat, cfg : Configuration]]
    /\ told \in [Clients -> Endings] /\ queue \in Seq(Clients)
    /\ work \in [stage : Stages, client : Clients \union {Nobody},
                 want : Configuration, before : Configuration]
    /\ connected \in BOOLEAN /\ session \in Nat
    /\ paced \in BOOLEAN /\ recent \in BOOLEAN
    /\ active \in Configuration /\ saved \in Contents /\ epoch \in Nat
    /\ base \in [active : Contents, saved : Contents]
    /\ calls \in Nat /\ upsets \in Nat /\ moves \in Nat

\* A device is connected; its saved settings may be unusable.
Init ==
    /\ call = [c \in Clients |-> NoCall] /\ phase = [c \in Clients |-> "idle"]
    /\ doc = [c \in Clients |-> NoDoc]
    /\ seen = [c \in Clients |-> Nothing]
    /\ expected = [c \in Clients |-> NoRevision]
    /\ told = [c \in Clients |-> "none"] /\ queue = <<>> /\ work = Idle
    /\ connected = TRUE /\ session = 1 /\ epoch = 1
    /\ paced = FALSE /\ recent = FALSE
    /\ active \in {[set |-> s, crc |-> s] : s \in {Defaults, Odd}}
    /\ saved \in {Defaults, Blank, Odd}
    /\ base = [active |-> active.set, saved |-> saved]
    /\ calls = 0 /\ upsets = 0 /\ moves = 0

--------------------------------------------------------------------------------
\* The Varlink service, one call of one connection at a time.

\* encode_configuration validates, so neither a revision can be computed of
\* settings that are out of range nor can they be written.
Encodable(cfg) == cfg.set \in Settings

\* A client calls a method.  Complete settings come with the revision of a
\* document it has been given.
Call(c) ==
    /\ phase[c] = "idle" /\ calls < MaxCalls /\ calls' = calls + 1
    /\ \E r \in Calls :
          /\ r.op = "apply" => doc[c] # NoDoc
          /\ call' = [call EXCEPT ![c] = r]
          /\ phase' = [phase EXCEPT ![c] =
                IF r.op \in {"get", "apply"} THEN "asking" ELSE "waiting"]
    /\ queue' = Append(queue, c)
    /\ UNCHANGED <<doc, seen, expected, told, work, connected, session, time,
                   device, base, upsets, moves>>

\* How the service ends a call by itself.
Dismiss(c, how) == /\ phase' = [phase EXCEPT ![c] = "idle"]
                   /\ call' = [call EXCEPT ![c] = NoCall]
                   /\ told' = [told EXCEPT ![c] = how]
                   /\ UNCHANGED queue

\* The revision of a configuration: a hash, taken to be injective.
Revision(n, cfg) == [session |-> n, cfg |-> cfg]

\* Leaves the comparison to the manager.
Compare_Faulty(c) ==
    /\ phase[c] = "stamping"
    /\ IF Encodable(seen[c])
       THEN /\ expected' = [expected EXCEPT ![c] = Revision(session, seen[c])]
            /\ phase' = [phase EXCEPT ![c] = "waiting"]
            /\ queue' = Append(queue, c)
            /\ UNCHANGED <<call, told>>
       ELSE Dismiss(c, "refused") /\ UNCHANGED expected
    /\ UNCHANGED <<doc, seen, work, connected, session, time, device, base,
                   calls, upsets, moves>>

\* ApplyConfiguration and StoreConfiguration: the revision of what has been
\* read, with the session of now, must be the document's and is what the
\* manager is to expect.
Compare(c) ==
    /\ phase[c] = "stamping"
    /\ LET current == Revision(session, seen[c]) IN
       IF Encodable(seen[c]) /\ Revision(doc[c].session, doc[c].cfg) = current
       THEN /\ expected' = [expected EXCEPT ![c] = current]
            /\ phase' = [phase EXCEPT ![c] = "waiting"]
            /\ queue' = Append(queue, c)
            /\ UNCHANGED <<call, told>>
       ELSE Dismiss(c, "refused") /\ UNCHANGED expected
    /\ UNCHANGED <<doc, seen, work, connected, session, time, device, base,
                   calls, upsets, moves>>

\* The answer goes out as a document, with the session of now.  None can be made
\* of settings that are out of range: the method fails although it has read.
Close(c) ==
    /\ phase[c] = "closing"
    /\ doc' = IF Encodable(seen[c])
              THEN [doc EXCEPT ![c] = [session |-> session, cfg |-> seen[c]]]
              ELSE doc
    /\ phase' = [phase EXCEPT ![c] = "idle"] /\ call' = [call EXCEPT ![c] = NoCall]
    /\ UNCHANGED <<seen, expected, told, queue, work, connected, session, time,
                   device, base, calls, upsets, moves>>

--------------------------------------------------------------------------------
\* The manager: its answers.

me == work.client

Answer(how, p) ==
    /\ work' = Idle
    /\ told' = IF p = "stamping" THEN told ELSE [told EXCEPT ![me] = how]
    /\ phase' = [phase EXCEPT ![me] = p]
    /\ call' = IF p = "idle" THEN [call EXCEPT ![me] = NoCall] ELSE call

\* The handler succeeds with what it has last read.  The item methods answer
\* without a document, and the first read of an apply is not its end.
Succeed ==
    /\ Answer("ok", IF phase[me] = "asking" /\ call[me].op = "apply" THEN "stamping"
                    ELSE IF call[me].op = "set" THEN "idle" ELSE "closing")
    /\ seen' = [seen EXCEPT ![me] = active]
    /\ UNCHANGED connected

End(how) == Answer(how, "idle") /\ UNCHANGED <<seen, connected>>

\* ConnectionLost: disconnect.  Once it is a mutation the outcome is unknown.
Lost == /\ connected' = FALSE
        /\ Answer(IF phase[me] = "asking" THEN "refused" ELSE "unknown", "idle")
        /\ UNCHANGED seen

Goto(s) == /\ work' = [work EXCEPT !.stage = s]
           /\ UNCHANGED <<call, phase, seen, told, connected>>

--------------------------------------------------------------------------------
\* The manager: calls of the backend.

Spend(fault) == upsets' = (IF fault THEN upsets + 1 ELSE upsets) /\ upsets' <= MaxUpsets

\* read_configuration fails on what cannot be decoded.  When it answers,
\* "right" says whether the handler is content.
Read(right, next, other) ==
    /\ \E r \in Results :
          /\ r = "ok" => active.set # Blank
          /\ Spend(r = "lost" \/ (r = "err" /\ active.set # Blank))
          /\ \/ r = "lost" /\ Lost
             \/ r = "ok" /\ right /\ next
             \/ r = "ok" /\ ~right /\ other
             \/ r = "err" /\ other
    /\ UNCHANGED <<device, recent>>

\* The configuration once the parts K of v have arrived; its first part holds
\* the CRC.
Merge(K, v) ==
    [set |-> IF K = Parts THEN v.set
             ELSE IF active.set \notin Settings THEN active.set
             ELSE [p \in Parts |-> IF p \in K THEN v.set[p] ELSE active.set[p]],
     crc |-> IF 1 \in K THEN v.crc ELSE active.crc]

\* write_configuration: frames are not acknowledged, and one may get lost.
Write(v, next, other) ==
    /\ IF ~Encodable(v) THEN other /\ UNCHANGED <<active, upsets>>
       ELSE \E r \in Results, K \in SUBSET Parts :
               /\ r # "ok" => \E n \in 0..NumParts : K = 1..n
               /\ r = "ok" => Cardinality(K) >= NumParts - 1
               /\ Spend(r # "ok" \/ K # Parts)
               /\ active' = Merge(K, v)
               /\ CASE r = "ok" -> next [] r = "err" -> other [] r = "lost" -> Lost
    /\ UNCHANGED <<saved, epoch, recent>>

\* What the device holds once it has carried out an NVM operation.
Stored(op) == CASE op = "store"  -> active.set
                [] op = "reload" -> saved
                [] op = "reset"  -> Defaults

\* nvm_configuration: a failed send may have been carried out; a device that
\* goes may have its saved settings half written.
Nvm(op, next, other) ==
    /\ \E r \in Results, reached \in BOOLEAN :
          /\ r = "ok" => reached
          /\ Spend(r # "ok")
          /\ active' = IF reached THEN [set |-> Stored(op), crc |-> Stored(op)] ELSE active
          /\ IF op = "reload" \/ ~reached THEN UNCHANGED <<saved, recent>>
             ELSE /\ recent' = TRUE
                  /\ saved' \in {Stored(op)} \union (IF r = "lost" THEN {Blank} ELSE {})
          /\ CASE r = "ok" -> next [] r = "err" -> other [] r = "lost" -> Lost
    /\ UNCHANGED epoch

--------------------------------------------------------------------------------
\* The manager: the stages of its handlers.

Stage(s) == work.stage = s
              /\ UNCHANGED <<doc, expected, queue, session, base, calls, moves>>
Persist == call[me].persist

\* The first stage of the handler of client c's command.
FirstStage(c) == IF phase[c] = "asking" THEN "read"
                 ELSE CASE call[c].op = "apply"  -> "check"
                        [] call[c].op = "set"    -> "item"
                        [] call[c].op = "reload" -> "keep"
                        [] call[c].op = "reset"  -> "nvm"

\* Commands are refused without a connected device.
Take ==
    /\ work = Idle /\ queue # <<>>
    /\ LET c == Head(queue) IN
          IF connected
          THEN /\ base' = [active |-> active.set, saved |-> saved]
               /\ work' = [Idle EXCEPT !.client = c, !.stage = FirstStage(c),
                     !.want = IF call[c].op = "apply"
                              THEN [set |-> call[c].set, crc |-> seen[c].crc]
                              ELSE Nothing]
               /\ UNCHANGED <<call, phase, told>>
          ELSE /\ phase' = [phase EXCEPT ![c] = "idle"]
               /\ call' = [call EXCEPT ![c] = NoCall]
               /\ told' = [told EXCEPT ![c] = "refused"]
               /\ UNCHANGED <<base, work>>
    /\ queue' = Tail(queue)
    /\ UNCHANGED <<doc, seen, expected, connected, session, time, device, calls,
                   upsets, moves>>

ReadConfiguration ==
    Stage("read") /\ Read(TRUE, Succeed, End("refused")) /\ UNCHANGED paced

\* SetConfigurationItem: the item in the settings that are active now, which
\* must make them valid.
ReadForItem ==
    /\ Stage("item")
    /\ Read(TRUE,
            \/ /\ active.set \notin Settings /\ End("refused")
            \/ /\ \E s \in Settings :
                     /\ s[call[me].part] = call[me].set[call[me].part]
                     /\ active.set \in Settings =>
                           \A p \in Parts \ {call[me].part} : s[p] = active.set[p]
                     /\ work' = [work EXCEPT !.stage = "check",
                                             !.want = [set |-> s, crc |-> active.crc]]
               /\ UNCHANGED <<call, phase, seen, told, connected>>,
            End("refused"))
    /\ UNCHANGED paced

\* A command of an item expects no revision.
RevisionMatches ==
    call[me].op = "apply" =>
        Encodable(active) /\ expected[me] = Revision(session, active)

\* apply_configuration, up to the first write.
Check ==
    /\ Stage("check")
    /\ Read(RevisionMatches /\ active.crc = work.want.crc,
            /\ work' = [work EXCEPT !.stage = "write", !.before = active]
            /\ UNCHANGED <<call, phase, seen, told, connected>>,
            End("refused"))
    /\ UNCHANGED paced

WriteActive == Stage("write") /\ Write(work.want, Goto("readback"), Goto("undo"))
                 /\ UNCHANGED paced

\* Leaves the comparison out.
Readback_Faulty ==
    Stage("readback") /\ UNCHANGED paced
      /\ Read(TRUE, IF Persist THEN Goto("store") ELSE Succeed, Goto("undo"))

Readback ==
    /\ Stage("readback") /\ UNCHANGED paced
    /\ Read(active = work.want, IF Persist THEN Goto("store") ELSE Succeed, Goto("undo"))

\* wait_for_nvm_mutation_slot, then the store.
Store == /\ Stage("store") /\ ~paced /\ paced' = TRUE
         /\ Nvm("store", Goto("reread"), Goto("undo"))

Reread == /\ Stage("reread") /\ UNCHANGED paced
          /\ Read(active.set = work.want.set, Succeed, Goto("undo"))

\* rollback_configuration.
Undo == /\ Stage("undo") /\ UNCHANGED paced
        /\ Write(work.before, Goto("undo_check"), End("failed"))

UndoCheck ==
    /\ Stage("undo_check") /\ UNCHANGED paced
    /\ Read(active = work.before,
            IF Persist THEN Goto("undo_store") ELSE End("rolled_back"), End("failed"))

\* Does not count as a mutation.
UndoStore_Faulty == /\ Stage("undo_store") /\ UNCHANGED paced
                    /\ Nvm("store", Goto("undo_reread"), End("failed"))

\* The store of a rollback does not wait, but the next mutation does.
UndoStore == /\ Stage("undo_store") /\ paced' = TRUE
             /\ Nvm("store", Goto("undo_reread"), End("failed"))

UndoReread == /\ Stage("undo_reread") /\ UNCHANGED paced
              /\ Read(active.set = work.before.set, End("rolled_back"), End("failed"))

\* run_nvm_operation.  A reload keeps what is active; a reset waits.
Keep == /\ Stage("keep") /\ UNCHANGED paced
        /\ Read(TRUE,
                /\ work' = [work EXCEPT !.stage = "nvm", !.before = active]
                /\ UNCHANGED <<call, phase, seen, told, connected>>,
                End("refused"))

NvmOperation ==
    /\ Stage("nvm")
    /\ IF call[me].op = "reset" THEN ~paced /\ paced' = TRUE ELSE UNCHANGED paced
    /\ Nvm(call[me].op, Goto("loaded"), End("failed"))

\* A reload writes the previous settings back after any error; a lost connection
\* shows in the read or in that write.
Loaded == /\ Stage("loaded") /\ UNCHANGED paced
          /\ Read(Encodable(active), Succeed,
                  IF call[me].op = "reload" THEN Goto("restore") ELSE End("failed"))

Restore == /\ Stage("restore") /\ UNCHANGED paced
           /\ Write(work.before, Goto("restore_check"), End("failed"))

RestoreCheck == /\ Stage("restore_check") /\ UNCHANGED paced
                /\ Read(active = work.before, End("restored"), End("failed"))

--------------------------------------------------------------------------------
\* Time, the device and the daemon.

Tick == /\ paced \/ recent
        /\ paced' = FALSE /\ recent' = FALSE
        /\ UNCHANGED <<service, queue, work, connected, session, device, base,
                       calls, upsets, moves>>

Move == moves < MaxMoves /\ moves' = moves + 1

\* The device goes while no handler runs.
Disconnect ==
    /\ Move /\ work = Idle /\ connected /\ connected' = FALSE
    /\ UNCHANGED <<service, queue, work, session, time, device, base, calls, upsets>>

\* A device is attached: the same, which may have lost power and loaded what it
\* had saved, or another one.
Connect ==
    /\ Move /\ work = Idle /\ ~connected /\ connected' = TRUE
    /\ session' = session + 1 /\ epoch' = epoch + 1
    /\ \/ UNCHANGED <<active, saved>>
       \/ active' = [set |-> saved, crc |-> saved] /\ UNCHANGED saved
       \/ \E s \in Settings : active' = [set |-> s, crc |-> s] /\ saved' = s
    /\ UNCHANGED <<service, queue, work, time, base, calls, upsets>>

\* What a write leaves that is cut off between two frames.
HalfWritten(v) == {Merge(1..n, v) : n \in 0..NumParts}

\* The daemon dies and is started again, two seconds later (RestartSec), after
\* which it counts its sessions from the start.
Crash ==
    /\ MayCrash /\ Move
    /\ active' \in CASE work.stage = "write" -> HalfWritten(work.want)
                     [] work.stage \in {"undo", "restore"} /\ Encodable(work.before) ->
                           HalfWritten(work.before)
                     [] OTHER -> {active}
    /\ work' = Idle /\ queue' = <<>> /\ connected' = FALSE /\ session' = 0
    /\ paced' = FALSE /\ recent' = FALSE
    /\ phase' = [c \in Clients |-> "idle"] /\ call' = [c \in Clients |-> NoCall]
    /\ told' = [c \in Clients |-> IF phase[c] \in {"idle", "closing"} THEN told[c]
                                  ELSE "unknown"]
    /\ UNCHANGED <<doc, seen, expected, saved, epoch, base, calls, upsets>>

--------------------------------------------------------------------------------

Service(c) == Compare(c) \/ Close(c)
Transaction == ReadForItem \/ Check \/ WriteActive \/ Readback \/ Store \/ Reread
Rollback == Undo \/ UndoCheck \/ UndoStore \/ UndoReread
NvmCommand == Keep \/ NvmOperation \/ Loaded \/ Restore \/ RestoreCheck
Manager == Take \/ ReadConfiguration \/ Transaction \/ Rollback \/ NvmCommand
World == Disconnect \/ Connect \/ Crash

Next == Manager \/ Tick \/ World \/ \E c \in Clients : Call(c) \/ Service(c)

Spec == Init /\ [][Next]_vars

--------------------------------------------------------------------------------
\* Properties.

\* Complete settings are written only over the very configuration that the
\* client's document shows, whatever other clients, the device or a restart did
\* since it was read: no change is lost that the client has not seen.
WritesOverWhatWasShown ==
    [][work.stage = "check" /\ work'.stage = "write" /\ call[me].op = "apply" =>
          active = doc[me].cfg]_vars

\* NVM mutations that are not a rollback's keep a second's distance to every
\* mutation before (docs/varlink.md).
MutationsSpaced ==
    [][recent => ~Store /\ ~(NvmOperation /\ call[me].op = "reset")]_vars

\* A device whose reload failed, or whose change was rolled back, is the device
\* before it; any other ending says so (docs/varlink.md).
Store_ == INSTANCE ConfigStore WITH
    active <- IF work = Idle THEN active.set ELSE base.active,
    saved  <- IF work = Idle THEN saved ELSE base.saved,
    pending <- [c \in Clients |-> IF phase[c] \in {"idle", "closing"} THEN NoCall
                                  ELSE call[c]]
ImplementsConfigStore == Store_!Spec

\* A rolled-back change leaves the saved settings as they were
\* (docs/varlink.md: the previous saved configuration).
SavedSurvivesRollback ==
    [][work # Idle /\ told' # told /\ told'[me] = "rolled_back" => saved' = base.saved]_vars
================================================================================
