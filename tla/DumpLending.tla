------------------------------ MODULE DumpLending ------------------------------
(***************************************************************************)
(* What BeginHistoryDump, ReadHistoryDumpChunk and EndHistoryDump promise  *)
(* the clients of the daemon (docs/varlink.md): the flash is lent to one   *)
(* dump at a time, under a number that is not used again; a chunk is given *)
(* to the client that waits for it, next in order and while its dump is    *)
(* open; and when a client's end is answered its dump is closed.  The      *)
(* chunks are the flash's own unless an answer of the device was late.     *)
(* HistoryTransfer implements it.                                          *)
(***************************************************************************)
EXTENDS Naturals

CONSTANTS
    Clients,
    Last        \* the last chunk of a dump

VARIABLES
    client,     \* client -> what it waits for, its dump (0 if none), its chunks
    open,       \* the dump that is lent, 0 if none
    issued,     \* the last number of a dump
    late,       \* an answer of the device was late
    mixed       \* a chunk was made of answers that are not its own

vars == <<client, open, issued, late, mixed>>

Client(place, dump, got) == [at |-> place, dump |-> dump, got |-> got]
Idle == Client("idle", 0, 0)

Init == /\ client = [c \in Clients |-> Idle]
        /\ open = 0 /\ issued = 0 /\ late = FALSE /\ mixed = FALSE

\* How client c goes on.
Goes(c, r) == client' = [client EXCEPT ![c] = r]

Lend == open = 0 /\ issued' = issued + 1 /\ open' = issued + 1 /\ UNCHANGED <<late, mixed>>
Close == open' = 0 /\ UNCHANGED <<issued, late, mixed>>
\* Only a late answer can be taken for another one.
Pages == mixed' \in BOOLEAN /\ (mixed' => late) /\ UNCHANGED <<open, issued, late>>

Begin(c) == /\ client[c] = Idle /\ Goes(c, Client("beginning", 0, 0))
            /\ UNCHANGED <<open, issued, late, mixed>>

Grant(c) == /\ client[c].at = "beginning" /\ Lend
            /\ Goes(c, Client("holding", issued', 0))

Refuse(c) == /\ client[c].at = "beginning" /\ Goes(c, Idle)
             /\ UNCHANGED <<open, issued, late, mixed>>

ReadChunk(c) == /\ client[c].at = "holding" /\ client[c].got < Last
                /\ Goes(c, Client("reading", client[c].dump, client[c].got))
                /\ UNCHANGED <<open, issued, late, mixed>>

Give(c) == /\ client[c].at = "reading" /\ client[c].dump = open /\ Pages
           /\ Goes(c, Client("holding", open, client[c].got + 1))

\* c has all chunks, gives up, or is told that a chunk could not be read, as when
\* the device has gone and has taken the dump with it, or an answer is late.
End(c) == /\ client[c].at \in {"holding", "reading"}
          /\ Goes(c, Client("ending", client[c].dump, 0))
          /\ open' \in {open, 0} /\ (UNCHANGED late \/ late' = TRUE) /\ UNCHANGED <<issued, mixed>>

Ended(c) == /\ client[c].at = "ending" /\ Goes(c, Idle)
            /\ open' = (IF open = client[c].dump THEN 0 ELSE open)
            /\ UNCHANGED <<issued, late, mixed>>

\* Clients are killed, or lose their connections.  What they have asked for is
\* still carried out, and dumps that they leave open are closed.
Leave(C) == /\ client' = [c \in Clients |-> IF c \in C THEN Idle ELSE client[c]]
            /\ UNCHANGED <<open, issued, late, mixed>>
ForNobody == (Lend \/ Close \/ Pages) /\ UNCHANGED client

Late == late' = TRUE /\ UNCHANGED <<client, open, issued, mixed>>

Next == \/ \E c \in Clients : \/ Begin(c) \/ Grant(c) \/ Refuse(c) \/ ReadChunk(c)
                              \/ Give(c) \/ End(c) \/ Ended(c)
        \/ (\E C \in SUBSET Clients : Leave(C)) \/ ForNobody \/ Late

Spec == Init /\ [][Next]_vars
================================================================================
