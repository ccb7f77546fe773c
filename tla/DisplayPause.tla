----------------------------- MODULE DisplayPause -----------------------------
(***************************************************************************)
(* What the manager promises about the device display (docs/varlink.md,    *)
(* docs/protocol.md): a history dump, a debug pause and a single SPI       *)
(* operation each own a pause independently, updates stop with the first   *)
(* owner and run again once the last one has gone, and a disconnect frees  *)
(* them all.  Manager implements it.                                       *)
(***************************************************************************)
EXTENDS FiniteSets

CONSTANT Clients       \* what may own a pause

VARIABLES attached,    \* there is a device
          owners,      \* those that own a pause now
          isPaused     \* display updates are stopped

vars == <<attached, owners, isPaused>>

TypeOK == attached \in BOOLEAN /\ owners \subseteq Clients /\ isPaused \in BOOLEAN

Init == attached = FALSE /\ owners = {} /\ isPaused = FALSE

Attach == ~attached /\ attached' = TRUE /\ UNCHANGED <<owners, isPaused>>

\* The device is gone, or left for another one.
Drop == attached /\ attached' = FALSE /\ owners' = {} /\ isPaused' = FALSE

\* A new owner, or one that renews its lease.
Acquire == \E c \in Clients : /\ attached /\ UNCHANGED attached
                              /\ owners' = owners \union {c} /\ isPaused' = TRUE

\* An owner goes.  The last one resumes the display unless the command fails.
Release ==
    \E c \in owners :
       /\ owners' = owners \ {c}
       /\ isPaused' \in (IF owners' = {} THEN {FALSE, isPaused} ELSE {isPaused})
       /\ UNCHANGED attached

\* A resume that failed is made up for.
Resume == owners = {} /\ isPaused /\ isPaused' = FALSE /\ UNCHANGED <<attached, owners>>

Next == Attach \/ Drop \/ Acquire \/ Release \/ Resume

\* A display nobody owns is not left paused.
Spec == Init /\ [][Next]_vars /\ WF_vars(Resume)

\* An owner never sees the display run.
OwnedIsPaused == owners # {} => isPaused
================================================================================
