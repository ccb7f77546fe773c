------------------------------ MODULE ConfigStore ------------------------------
(***************************************************************************)
(* What docs/varlink.md promises of the configuration methods, for a       *)
(* device whose configuration is a pair of active and saved settings: a    *)
(* call takes effect at once and as a whole, or has no effect, or has      *)
(* failed and been rolled back, or says that its outcome is unknown.       *)
(* ConfigTransaction implements it.                                        *)
(*                                                                         *)
(* A persistent change that is rolled back saves the previous active       *)
(* settings, which is what the code does.                                  *)
(***************************************************************************)
CONSTANTS Clients,
          Parts,       \* the parts of a configuration
          Settings,    \* valid settings: functions on Parts
          Contents,    \* whatever may be found in the device's memories
          Defaults,    \* the firmware's settings
          NoCall

VARIABLES epoch,       \* which attachment of a device this is
          active, saved,
          pending,     \* client -> its call, NoCall if none
          told         \* client -> how its last call ended

vars == <<epoch, active, saved, pending, told>>

Calls == [op : {"get", "apply", "set", "reload", "reset"},
          part : Parts, set : Settings, persist : BOOLEAN]

Init == /\ active \in Contents /\ saved \in Contents
        /\ pending = [c \in Clients |-> NoCall]
        /\ told = [c \in Clients |-> "none"]

\* Any call: one of them is named by what is pending next, not with \E, which
\* would try them all.
Ask(c) == /\ pending[c] = NoCall
          /\ pending'[c] \in Calls /\ pending' = [pending EXCEPT ![c] = pending'[c]]
          /\ UNCHANGED <<epoch, active, saved, told>>

Answer(c, how) == /\ pending[c] # NoCall
                  /\ pending' = [pending EXCEPT ![c] = NoCall]
                  /\ told' = [told EXCEPT ![c] = how]
                  /\ UNCHANGED epoch

\* What a call leaves active when it succeeds.  An item is set on its own,
\* which makes settings that are out of range valid or is refused.
Outcome(call) ==
    CASE call.op = "get"    -> {active}
      [] call.op = "apply"  -> {call.set}
      [] call.op = "set"    -> {s \in Settings : s[call.part] = call.set[call.part]
            /\ active \in Settings => \A p \in Parts \ {call.part} : s[p] = active[p]}
      [] call.op = "reload" -> {saved}
      [] call.op = "reset"  -> {Defaults}

Succeed(c) == /\ Answer(c, "ok")
              /\ active' \in Outcome(pending[c])
              /\ saved' = IF pending[c].persist THEN active' ELSE saved

\* Nothing has been written, or a reload has been undone.
Refuse(c) == /\ \E how \in {"refused", "restored"} : Answer(c, how)
             /\ UNCHANGED <<active, saved>>

RollBack(c) == /\ Answer(c, "rolled_back")
               /\ pending[c].op \in {"apply", "set"}
               /\ UNCHANGED active
               /\ saved' = IF pending[c].persist THEN active ELSE saved

\* The device is left as a call may leave it that was cut short.
CutShort(c) == /\ pending[c] # NoCall /\ pending[c].op # "get"
               /\ active' \in Contents
               /\ saved' \in (IF pending[c].persist THEN Contents ELSE {saved})

\* The call failed and so did its rollback, or the connection was lost.
Fail(c) == CutShort(c) /\ \E how \in {"failed", "unknown"} : Answer(c, how)

\* The daemon dies, in the middle of at most one call.
Crash == /\ pending' = [c \in Clients |-> NoCall]
         /\ told' = [c \in Clients |-> IF pending[c] = NoCall THEN told[c] ELSE "unknown"]
         /\ (\E c \in Clients : CutShort(c)) \/ UNCHANGED <<active, saved>>
         /\ UNCHANGED epoch

\* A device is attached; what it holds is its own business.
Attach == /\ epoch' # epoch /\ active' \in Contents /\ saved' \in Contents
          /\ UNCHANGED <<pending, told>>

Next == \/ \E c \in Clients : Ask(c) \/ Succeed(c) \/ Refuse(c) \/ RollBack(c) \/ Fail(c)
        \/ Crash \/ Attach

Spec == Init /\ [][Next]_vars
================================================================================
