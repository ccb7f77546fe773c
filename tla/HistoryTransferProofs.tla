------------------------- MODULE HistoryTransferProofs -------------------------
(***************************************************************************)
(* Proofs about HistoryTransfer, for every number of clients, chunks,      *)
(* pages, attempts and dumps: the inductive invariant Inductive, and what  *)
(* follows from it.                                                        *)
(***************************************************************************)
EXTENDS HistoryTransfer, SequenceTheorems, TLAPS

--------------------------------------------------------------------------------
\* What the helpers of the actions do.

LEMMA NoReadFacts == /\ NoRead \in Read /\ NoRead.stage = "none"
                     /\ NoRead.client = Nobody
BY DEF NoRead, Read

\* A message that is sent is the last of the queue.
LEMMA SendEffect ==
    ASSUME TypeOK, NEW c \in Clients, NEW op \in {"begin", "chunk", "end"},
           NEW id \in Nat, NEW chunk \in Nat, Send(c, op, id, chunk)
    PROVE  /\ queue' \in Seq(Message)
           /\ \A i \in DOMAIN queue' :
                 \/ i \in DOMAIN queue /\ queue'[i] = queue[i]
                 \/ queue'[i] = [op |-> op, client |-> c, id |-> id, chunk |-> chunk]
<1>1. queue \in Seq(Message)
  BY DEF TypeOK
<1>2. [op |-> op, client |-> c, id |-> id, chunk |-> chunk] \in Message
  BY DEF Message
<1> QED BY <1>1, <1>2 DEF Send

\* A command that is taken was the first of the queue.
LEMMA TakeEffect ==
    ASSUME TypeOK, NEW op, Take(op)
    PROVE  /\ queue' \in Seq(Message) /\ Head(queue) \in Message
           /\ 1 \in DOMAIN queue /\ Head(queue) = queue[1] /\ queue[1].op = op
           /\ \A i \in DOMAIN queue' : i + 1 \in DOMAIN queue /\ queue'[i] = queue[i + 1]
<1>1. queue \in Seq(Message) /\ queue # <<>> /\ queue' = Tail(queue) /\ Head(queue).op = op
  BY DEF TypeOK, Take
<1> QED BY <1>1

\* Connections that are dropped change who is answered and nothing else.
LEMMA OrphanEffect ==
    ASSUME TypeOK, NEW C \in SUBSET Clients, Orphan(C)
    PROVE  /\ queue' \in Seq(Message) /\ DOMAIN queue' = DOMAIN queue
           /\ \A i \in DOMAIN queue :
                 /\ queue'[i].op = queue[i].op /\ queue'[i].id = queue[i].id
                 /\ queue'[i].chunk = queue[i].chunk
                 /\ queue'[i].client = IF queue[i].client \in C THEN Nobody
                                       ELSE queue[i].client
           /\ reader' \in Read /\ reader'.stage = reader.stage /\ reader'.id = reader.id
           /\ reader'.chunk = reader.chunk
           /\ reader'.client = IF reader.client \in C THEN Nobody ELSE reader.client
<1>1. queue \in Seq(Message) /\ reader \in Read
  BY DEF TypeOK
<1>2. \A m \in Message : [m EXCEPT !.client = Nobody] \in Message
  BY DEF Message
<1>3. \A i \in DOMAIN queue : queue[i] \in Message /\ queue'[i] =
          IF queue[i].client \in C THEN [queue[i] EXCEPT !.client = Nobody] ELSE queue[i]
  BY <1>1 DEF Orphan
<1>4. queue' \in Seq(Message) /\ DOMAIN queue' = DOMAIN queue
  <2>1. queue' = [i \in 1..Len(queue) |->
           IF queue[i].client \in C THEN [queue[i] EXCEPT !.client = Nobody] ELSE queue[i]]
    BY <1>1 DEF Orphan
  <2>2. \A i \in 1..Len(queue) : queue'[i] \in Message
    BY <1>1, <1>2, <1>3, <2>1
  <2>3. DOMAIN queue' = 1..Len(queue) /\ Len(queue) \in Nat
    BY <1>1, <2>1
  <2> QED BY <1>1, <2>1, <2>2, <2>3
<1>5. \A i \in DOMAIN queue :
         /\ queue'[i].op = queue[i].op /\ queue'[i].id = queue[i].id
         /\ queue'[i].chunk = queue[i].chunk
         /\ queue'[i].client = IF queue[i].client \in C THEN Nobody ELSE queue[i].client
  BY <1>3 DEF Message
<1>6. /\ reader' \in Read /\ reader'.stage = reader.stage /\ reader'.id = reader.id
      /\ reader'.chunk = reader.chunk
      /\ reader'.client = IF reader.client \in C THEN Nobody ELSE reader.client
  BY <1>1 DEF Orphan, Read
<1> QED BY <1>4, <1>5, <1>6

\* An answer goes to one client at the most.
LEMMA AnswerEffect ==
    ASSUME ClientsOK, NEW c \in Clients \union {Nobody}, NEW p \in Phases, NEW id \in Nat,
           NEW n \in Nat, Answer(c, p, id, n)
    PROVE  /\ ClientsOK'
           /\ \A d \in Clients : held'[d] \in {held[d], id}
           /\ c = Nobody => phase' = phase
BY BoundsAssumption DEF Answer, ClientsOK, clients

LEMMA FailEffect ==
    ASSUME ClientsOK, NEW c \in Clients \union {Nobody}, Fail(c)
    PROVE  /\ ClientsOK'
           /\ \A d \in Clients : held'[d] \in {held[d], 0}
           /\ c = Nobody => phase' = phase
BY AnswerEffect DEF Fail, Phases

LEMMA FailChunkEffect ==
    ASSUME ClientsOK, NEW c \in Clients \union {Nobody}, FailChunk(c)
    PROVE  /\ ClientsOK'
           /\ \A d \in Clients : held'[d] = held[d]
           /\ c = Nobody => phase' = phase
BY BoundsAssumption DEF FailChunk, Answer, ClientsOK, clients, Phases

\* A read that is broken off leaves no timer behind.
LEMMA BreakOffEffect ==
    ASSUME TypeOK, ReadsTheDump, BreakOff
    PROVE  /\ reader' = NoRead /\ timers' = {}
           /\ ClientsOK'
           /\ \A d \in Clients : held'[d] = held[d]
           /\ reader.client = Nobody => phase' = phase
<1>1. reader.client \in Clients \union {Nobody} /\ ClientsOK
  BY DEF TypeOK, Read
<1>2. reader' = NoRead /\ timers' = {}
  BY DEF BreakOff, EndRead, ReadsTheDump
<1>3. FailChunk(reader.client)
  BY DEF BreakOff
<1> QED BY <1>1, <1>2, <1>3, FailChunkEffect

--------------------------------------------------------------------------------
\* Every step keeps the inductive invariant.  The clients' steps come first.

LEMMA InitIsInductive == Init => Inductive
<1> SUFFICES ASSUME Init PROVE Inductive
  OBVIOUS
<1>1. TypeOK
  BY NoReadFacts DEF Init, TypeOK, ClientsOK, Phases
<1> QED
  BY <1>1, NoReadFacts DEF Init, Inductive, IdsAreOld, ReadsTheDump, DumpKnowsItsEnd,
     NobodyIsServed, ShutdownCancels, CancelledForAReason

\* A message of a client that is served names the dump that it holds, if any.
LEMMA SendStep ==
    ASSUME Inductive, NEW c \in Clients, NEW op \in {"begin", "chunk", "end"},
           NEW id \in Nat, NEW chunk \in Nat, NEW p \in Phases,
           Send(c, op, id, chunk), id <= lastDump, phase[c] # "idle" \/ shutdown = "no",
           phase' = [phase EXCEPT ![c] = p],
           UNCHANGED <<held, got, connected, lending, lastDump, reader, cancelled, timers,
                       shutdown, wire, history>>
    PROVE  Inductive'
<1> USE DEF lending, history
<1>0. shutdown = "no"
  BY DEF Inductive, NobodyIsServed
<1>1. /\ queue' \in Seq(Message)
      /\ \A i \in DOMAIN queue' :
            \/ i \in DOMAIN queue /\ queue'[i] = queue[i]
            \/ queue'[i] = [op |-> op, client |-> c, id |-> id, chunk |-> chunk]
  BY SendEffect DEF Inductive
<1>2. TypeOK'
  BY <1>1 DEF Inductive, TypeOK, ClientsOK
<1>3. IdsAreOld'
  BY <1>1 DEF Inductive, IdsAreOld
<1> QED
  BY <1>0, <1>2, <1>3 DEF Inductive, ReadsTheDump, DumpKnowsItsEnd, NobodyIsServed,
     ShutdownCancels, CancelledForAReason

\* A step of a client that sends nothing and is not the shutdown's.
LEMMA OrphanStep ==
    ASSUME Inductive, NEW C \in SUBSET Clients, Orphan(C),
           ClientsOK', \A c \in Clients : held'[c] \in {held[c], 0},
           shutdown' # "no" => \A c \in Clients : phase'[c] = "idle",
           \/ shutdown' = shutdown
           \/ shutdown = "no" /\ shutdown' = "closed" /\ C = Clients,
           UNCHANGED <<connected, lending, lastDump, cancelled, timers, wire, history>>
    PROVE  Inductive'
<1> USE DEF lending, history
<1>1. /\ queue' \in Seq(Message) /\ DOMAIN queue' = DOMAIN queue
      /\ \A i \in DOMAIN queue :
            /\ queue'[i].op = queue[i].op /\ queue'[i].id = queue[i].id
            /\ queue'[i].client = IF queue[i].client \in C THEN Nobody
                                  ELSE queue[i].client
      /\ reader' \in Read /\ reader'.stage = reader.stage /\ reader'.id = reader.id
      /\ reader'.client = IF reader.client \in C THEN Nobody ELSE reader.client
  BY OrphanEffect DEF Inductive
<1>2. TypeOK'
  BY <1>1 DEF Inductive, TypeOK
<1>3. IdsAreOld'
  <2>1. \A c \in Clients : held'[c] <= lastDump
    <3>1. lastDump \in Nat /\ \A c \in Clients : held[c] <= lastDump
      BY DEF Inductive, IdsAreOld, TypeOK
    <3> QED BY <3>1
  <2> QED BY <1>1, <2>1 DEF Inductive, IdsAreOld
<1>4. ReadsTheDump' /\ DumpKnowsItsEnd'
  BY <1>1 DEF Inductive, ReadsTheDump, DumpKnowsItsEnd
<1>5. NobodyIsServed'
  <2>1. CASE shutdown' = shutdown
    BY <1>1, <2>1 DEF Inductive, NobodyIsServed
  <2>2. CASE C = Clients
    <3>1. reader.client \in Clients \union {Nobody}
          /\ \A i \in DOMAIN queue : queue[i].client \in Clients \union {Nobody}
      <4>1. reader \in Read /\ queue \in Seq(Message)
        BY DEF Inductive, TypeOK
      <4>2. \A i \in DOMAIN queue : queue[i] \in Message
        BY <4>1
      <4> QED BY <4>1, <4>2 DEF Read, Message
    <3> QED BY <1>1, <2>2, <3>1 DEF NobodyIsServed
  <2> QED BY <2>1, <2>2
<1>6. ShutdownCancels'
  BY <1>1 DEF Inductive, ShutdownCancels
<1>7. CancelledForAReason'
  BY DEF Inductive, CancelledForAReason
<1> QED BY <1>2, <1>3, <1>4, <1>5, <1>6, <1>7 DEF Inductive

LEMMA ClientStep ==
    ASSUME Inductive, NEW c \in Clients, Client(c) \/ EndCall(c) PROVE Inductive'
<1> USE DEF lending, history
<1>0. /\ phase \in [Clients -> Phases] /\ held \in [Clients -> Nat]
      /\ got \in [Clients -> Nat] /\ held[c] <= lastDump /\ lastDump \in Nat
      /\ shutdown # "no" => phase[c] = "idle"
  BY DEF Inductive, TypeOK, ClientsOK, IdsAreOld, NobodyIsServed
<1>1. CASE Begin(c)
  <2>1. "beginning" \in Phases /\ 0 \in Nat /\ 1 \in Nat /\ 0 <= lastDump
    BY <1>0 DEF Phases
  <2>2. /\ Send(c, "begin", 0, 1) /\ shutdown = "no"
        /\ phase' = [phase EXCEPT ![c] = "beginning"]
        /\ UNCHANGED <<held, got, connected, lending, lastDump, reader, cancelled, timers,
                       shutdown, wire, history>>
    BY <1>1 DEF Begin
  <2> QED BY <2>1, <2>2, SendStep
<1>2. CASE ReadChunk(c)
  <2>1. "reading" \in Phases /\ held[c] \in Nat /\ got[c] + 1 \in Nat
    BY <1>0 DEF Phases
  <2>2. /\ Send(c, "chunk", held[c], got[c] + 1) /\ phase[c] # "idle"
        /\ phase' = [phase EXCEPT ![c] = "reading"]
        /\ UNCHANGED <<held, got, connected, lending, lastDump, reader, cancelled, timers,
                       shutdown, wire, history>>
    BY <1>2 DEF ReadChunk
  <2> QED BY <1>0, <2>1, <2>2, SendStep
<1>3. CASE EndSends(c)
  BY <1>0, <1>3, SendStep DEF EndSends, Phases
<1>4. CASE Interrupt(c)
  <2>1. Orphan({c}) /\ ClientsOK' /\ shutdown = "no"
    BY <1>0, <1>4 DEF Interrupt, ClientsOK, Phases
  <2> QED BY <1>4, <2>1, OrphanStep DEF Interrupt
<1>5. CASE Abandon(c)
  <2>1. Orphan({c}) /\ ClientsOK' /\ shutdown = "no"
        /\ \A d \in Clients : held'[d] \in {held[d], 0}
    BY <1>0, <1>5 DEF Abandon, ClientsOK, Phases
  <2> QED BY <1>5, <2>1, OrphanStep DEF Abandon
<1>6. CASE Finish(c)
  <2>1. shutdown = "no" /\ ClientsOK' /\ UNCHANGED <<held, queue, lending, lastDump,
            reader, cancelled, timers, shutdown, wire, history>>
    BY <1>0, <1>6 DEF Finish, ClientsOK, Phases
  <2> QED
    BY <2>1 DEF Inductive, TypeOK, IdsAreOld, ReadsTheDump, DumpKnowsItsEnd,
       NobodyIsServed, ShutdownCancels, CancelledForAReason
<1>7. CASE EndCancels(c)
  <2>1. shutdown = "no" /\ ClientsOK' /\ UNCHANGED <<held, queue, lending, lastDump,
            reader, timers, shutdown, wire, lapsed>>
        /\ asked' = asked \union {held[c]}
        /\ cancelled' = IF slot = held[c] THEN cancelled \union {slot} ELSE cancelled
    BY <1>0, <1>7 DEF EndCancels, ClientsOK, Phases
  <2>5. asked' \subseteq Nat
    BY <1>0, <2>1 DEF Inductive, TypeOK
  <2>2. IdsAreOld'
    BY <1>0, <2>1 DEF Inductive, IdsAreOld
  <2>3. DumpKnowsItsEnd'
    BY <2>1 DEF Inductive, IdsAreOld, DumpKnowsItsEnd
  <2>4. CancelledForAReason'
    BY <2>1 DEF Inductive, CancelledForAReason
  <2> QED
    BY <2>1, <2>2, <2>3, <2>4, <2>5 DEF Inductive, TypeOK, ReadsTheDump,
       NobodyIsServed, ShutdownCancels
<1> QED
  BY <1>1, <1>2, <1>3, <1>4, <1>5, <1>6, <1>7 DEF Client, EndCall

--------------------------------------------------------------------------------
\* The manager's steps, and those of the page reads.

\* A command that leaves the dump alone, or closes it.
LEMMA SameDump ==
    ASSUME Inductive, queue' \in Seq(Message), reader.stage = "none",
           \A i \in DOMAIN queue' : i + 1 \in DOMAIN queue /\ queue'[i] = queue[i + 1],
           ClientsOK', \A d \in Clients : held'[d] \in {held[d], 0},
           shutdown # "no" => phase' = phase,
           \/ dump' = dump /\ lease' = lease
           \/ dump' = 0 /\ lease' = 0,
           slot' = dump',
           UNCHANGED <<wire, shutdown, asked, lapsed, lastDump, reader, cancelled, timers>>
    PROVE  Inductive'
<1>1. TypeOK'
  BY DEF Inductive, TypeOK
<1>2. IdsAreOld'
  <2>1. \A d \in Clients : held[d] \in Nat /\ held[d] <= lastDump
    BY DEF Inductive, IdsAreOld, TypeOK, ClientsOK
  <2>2. dump' <= lastDump /\ lastDump \in Nat
    BY DEF Inductive, IdsAreOld, TypeOK
  <2>3. \A d \in Clients : held'[d] <= lastDump
    BY <2>1, <2>2
  <2> QED BY <2>2, <2>3 DEF Inductive, IdsAreOld
<1>3. ReadsTheDump' /\ DumpKnowsItsEnd'
  BY DEF Inductive, ReadsTheDump, DumpKnowsItsEnd
<1>4. NobodyIsServed' /\ ShutdownCancels'
  BY DEF Inductive, NobodyIsServed, ShutdownCancels
<1> QED BY <1>1, <1>2, <1>3, <1>4 DEF Inductive, CancelledForAReason

\* A begin opens a dump that no client, message, end or shutdown knows of.
LEMMA BeginStep == ASSUME Inductive, BeginHistoryDump PROVE Inductive'
<1> DEFINE m == Head(queue)
<1>1. /\ queue' \in Seq(Message) /\ m \in Message /\ 1 \in DOMAIN queue /\ m = queue[1]
      /\ \A i \in DOMAIN queue' : i + 1 \in DOMAIN queue /\ queue'[i] = queue[i + 1]
  BY TakeEffect DEF Inductive, BeginHistoryDump
<1>2. /\ reader = NoRead /\ reader.stage = "none" /\ ClientsOK
      /\ lastDump \in Nat /\ dump \in Nat /\ LeaseTicks \in Nat \ {0}
      /\ UNCHANGED <<connected, wire, shutdown, history, bounds, reader, cancelled, timers>>
  BY NoReadFacts, SizesAssumption
     DEF BeginHistoryDump, Take, Selecting, Inductive, TypeOK
<1>3. m.client \in Clients \union {Nobody} /\ (shutdown # "no" => m.client = Nobody)
  BY <1>1 DEF Message, Inductive, NobodyIsServed
<1>4. timers = {}
  BY <1>2 DEF Inductive, ReadsTheDump
<1>5. CASE connected /\ dump = 0
  <2>1. /\ lastDump' = lastDump + 1 /\ dump' = lastDump' /\ slot' = lastDump'
        /\ lease' = LeaseTicks /\ Answer(m.client, "holding", lastDump', 0)
    BY <1>5 DEF BeginHistoryDump
  <2>2. "holding" \in Phases /\ lastDump' \in Nat /\ 0 \in Nat
    BY <1>2, <2>1 DEF Phases
  <2>3. /\ ClientsOK' /\ \A d \in Clients : held'[d] \in {held[d], lastDump'}
        /\ m.client = Nobody => phase' = phase
    BY <1>2, <1>3, <2>1, <2>2, AnswerEffect
  <2>4. TypeOK'
    <3>1. asked' \subseteq Nat /\ dump' \in Nat /\ slot' \in Nat /\ lease' \in Nat
      BY <1>2, <2>1, <2>2 DEF Inductive, TypeOK, history
    <3> QED BY <1>1, <1>2, <2>2, <2>3, <3>1 DEF Inductive, TypeOK
  <2>5. IdsAreOld'
    <3>1. \A c \in Clients : held[c] \in Nat /\ held[c] <= lastDump
      BY <1>2 DEF ClientsOK, Inductive, IdsAreOld
    <3>2. \A c \in Clients : held'[c] <= lastDump'
      BY <1>2, <2>1, <2>3, <3>1
    <3>3. \A d \in asked' : d <= lastDump'
      <4>1. asked' = asked /\ asked \subseteq Nat /\ \A d \in asked : d <= lastDump
        BY <1>2 DEF Inductive, IdsAreOld, TypeOK, history
      <4> QED BY <1>2, <2>1, <4>1
    <3>4. \A i \in DOMAIN queue' : queue'[i].id <= lastDump'
      <4>1. \A i \in DOMAIN queue' : queue'[i].id \in Nat
        <5>1. \A i \in DOMAIN queue' : queue'[i] \in Message
          BY <1>1
        <5> QED BY <5>1 DEF Message
      <4>2. \A i \in DOMAIN queue' : queue'[i].id <= lastDump
        BY <1>1 DEF Inductive, IdsAreOld
      <4> QED BY <1>2, <2>1, <4>1, <4>2
    <3> QED BY <1>2, <2>1, <3>2, <3>3, <3>4 DEF IdsAreOld
  <2>6. ReadsTheDump'
    BY <1>2, <1>4 DEF ReadsTheDump
  <2>7. DumpKnowsItsEnd'
    BY <1>2, <2>1 DEF Inductive, IdsAreOld, DumpKnowsItsEnd, history
  <2>8. NobodyIsServed'
    BY <1>1, <1>2, <1>3, <2>3 DEF Inductive, NobodyIsServed
  <2>9. ShutdownCancels'
    <3>1. \A i \in DOMAIN queue' : queue'[i].id # dump'
      <4>1. \A i \in DOMAIN queue' : queue'[i].id <= lastDump
        BY <1>1 DEF Inductive, IdsAreOld
      <4> QED BY <1>2, <2>1, <4>1
    <3> QED BY <1>2, <3>1 DEF ShutdownCancels
  <2>10. CancelledForAReason'
    BY <1>2 DEF Inductive, CancelledForAReason, history
  <2> QED BY <2>4, <2>5, <2>6, <2>7, <2>8, <2>9, <2>10 DEF Inductive
<1>6. CASE ~(connected /\ dump = 0)
  <2>1. Fail(m.client) /\ UNCHANGED <<lending, lastDump>>
    BY <1>6 DEF BeginHistoryDump
  <2>2. /\ ClientsOK' /\ \A d \in Clients : held'[d] \in {held[d], 0}
        /\ m.client = Nobody => phase' = phase
    BY <1>2, <1>3, <2>1, FailEffect
  <2>3. UNCHANGED <<dump, lease, lastDump, wire, shutdown, asked, lapsed, reader,
                    cancelled, timers>> /\ slot' = dump'
    BY <1>2, <2>1 DEF lending, history, Inductive, IdsAreOld
  <2> QED BY <1>1, <1>2, <1>3, <2>2, <2>3, SameDump
<1> QED BY <1>5, <1>6

\* A chunk of the open dump begins a read and its timer.
LEMMA ChunkStep == ASSUME Inductive, ReadHistoryDumpChunk PROVE Inductive'
<1> DEFINE m == Head(queue)
<1>1. /\ queue' \in Seq(Message) /\ m \in Message /\ 1 \in DOMAIN queue /\ m = queue[1]
      /\ m.op = "chunk"
      /\ \A i \in DOMAIN queue' : i + 1 \in DOMAIN queue /\ queue'[i] = queue[i + 1]
  BY TakeEffect DEF Inductive, ReadHistoryDumpChunk
<1>2. /\ reader = NoRead /\ reader.stage = "none" /\ ClientsOK /\ dump \in Nat
      /\ LeaseTicks \in Nat \ {0} /\ slot = dump
      /\ UNCHANGED <<connected, wire, shutdown, history, bounds, dump, slot, lastDump, cancelled>>
  BY NoReadFacts, SizesAssumption
     DEF ReadHistoryDumpChunk, Take, Selecting, Inductive, TypeOK, IdsAreOld
<1>3. m.client \in Clients \union {Nobody} /\ (shutdown # "no" => m.client = Nobody)
  BY <1>1 DEF Message, Inductive, NobodyIsServed
<1>4. timers = {}
  BY <1>2 DEF Inductive, ReadsTheDump
<1>5. CASE dump # 0 /\ dump = m.id
  <2>1. /\ lease' = LeaseTicks /\ timers' = {[id |-> dump, left |-> LeaseTicks]}
        /\ reader' = [NoRead EXCEPT !.client = m.client, !.id = m.id,
                         !.chunk = m.chunk, !.stage = "ask", !.attempt = 1]
        /\ UNCHANGED clients
    BY <1>4, <1>5 DEF ReadHistoryDumpChunk
  <2>2. /\ reader' \in Read /\ reader'.stage = "ask" /\ reader'.id = dump
        /\ reader'.client = m.client
    BY <1>1, <1>3, <1>5, <2>1, NoReadFacts DEF Read, Message
  <2>3. TypeOK'
    <3>1. timers' \subseteq [id : Nat, left : Nat] /\ ClientsOK'
      BY <1>2, <2>1 DEF clients, ClientsOK
    <3> QED BY <1>1, <1>2, <2>1, <2>2, <3>1 DEF Inductive, TypeOK, history
  <2>4. IdsAreOld'
    BY <1>1, <1>2, <2>1 DEF Inductive, IdsAreOld, clients, history
  <2>5. ReadsTheDump'
    BY <1>2, <1>5, <2>1, <2>2 DEF ReadsTheDump
  <2>6. DumpKnowsItsEnd'
    BY <1>2, <2>1 DEF Inductive, DumpKnowsItsEnd, history
  <2>7. NobodyIsServed'
    BY <1>1, <1>2, <1>3, <2>1, <2>2 DEF Inductive, NobodyIsServed, clients
  <2>8. ShutdownCancels'
    BY <1>1, <1>2, <1>5, <2>2 DEF Inductive, ShutdownCancels
  <2> QED
    BY <1>2, <2>3, <2>4, <2>5, <2>6, <2>7, <2>8
       DEF Inductive, CancelledForAReason, history
<1>6. CASE ~(dump # 0 /\ dump = m.id)
  <2>1. FailChunk(m.client) /\ UNCHANGED <<lease, timers, reader>>
    BY <1>6 DEF ReadHistoryDumpChunk
  <2>2. /\ ClientsOK' /\ \A d \in Clients : held'[d] = held[d]
        /\ m.client = Nobody => phase' = phase
    BY <1>2, <1>3, <2>1, FailChunkEffect
  <2>3. UNCHANGED <<dump, lease, lastDump, wire, shutdown, asked, lapsed, reader,
                    cancelled, timers>> /\ slot' = dump'
    BY <1>2, <2>1 DEF history
  <2> QED BY <1>1, <1>2, <1>3, <2>2, <2>3, SameDump
<1> QED BY <1>5, <1>6

LEMMA EndStep == ASSUME Inductive, EndHistoryDump PROVE Inductive'
<1> DEFINE m == Head(queue)
<1>1. /\ queue' \in Seq(Message) /\ m \in Message /\ 1 \in DOMAIN queue /\ m = queue[1]
      /\ \A i \in DOMAIN queue' : i + 1 \in DOMAIN queue /\ queue'[i] = queue[i + 1]
  BY TakeEffect DEF Inductive, EndHistoryDump
<1>2. reader.stage = "none" /\ ClientsOK /\ slot = dump
  BY NoReadFacts DEF EndHistoryDump, Take, Selecting, Inductive, TypeOK, IdsAreOld
<1>3. m.client \in Clients \union {Nobody} /\ (shutdown # "no" => m.client = Nobody)
  BY <1>1 DEF Message, Inductive, NobodyIsServed
<1>4. /\ ClientsOK' /\ \A d \in Clients : held'[d] \in {held[d], 0}
      /\ m.client = Nobody => phase' = phase
  <2>1. Fail(m.client)
    BY DEF EndHistoryDump
  <2> QED BY <1>2, <1>3, <2>1, FailEffect
<1>5. /\ (dump' = dump /\ lease' = lease) \/ (dump' = 0 /\ lease' = 0)
      /\ slot' = dump'
      /\ UNCHANGED <<wire, shutdown, asked, lapsed, lastDump, reader, cancelled, timers>>
  <2>1. UNCHANGED <<wire, shutdown, asked, lapsed, lastDump, reader, cancelled, timers>>
    BY DEF EndHistoryDump, Take, history
  <2>2. CASE dump # 0 /\ dump = m.id
    <3>1. dump' = 0 /\ lease' = 0 /\ slot' = (IF slot = dump THEN 0 ELSE slot)
      BY <2>2 DEF EndHistoryDump
    <3> QED BY <1>2, <2>1, <3>1
  <2>3. CASE ~(dump # 0 /\ dump = m.id)
    <3>1. UNCHANGED lending
      BY <2>3 DEF EndHistoryDump
    <3> QED BY <1>2, <2>1, <3>1 DEF lending
  <2> QED BY <2>2, <2>3
<1> QED BY <1>1, <1>2, <1>3, <1>4, <1>5, SameDump

\* A step of a read that leaves the dump alone.
LEMMA ReadStep ==
    ASSUME Inductive, reader.stage # "none", reader' \in Read, wire' \in Seq(Half),
           \/ UNCHANGED <<clients, timers>> /\ reader'.id = reader.id
              /\ reader'.client = reader.client /\ reader'.stage # "none"
           \/ BreakOff
           \/ /\ reader' = NoRead /\ timers' = {t \in timers : t.id # reader.id}
              /\ ClientsOK' /\ \A d \in Clients : held'[d] = held[d]
              /\ reader.client = Nobody => phase' = phase,
           UNCHANGED <<queue, lending, lastDump, cancelled, shutdown, asked, lapsed>>
    PROVE  Inductive'
<1>1. CASE /\ UNCHANGED <<clients, timers>> /\ reader'.id = reader.id
           /\ reader'.client = reader.client /\ reader'.stage # "none"
  BY <1>1 DEF Inductive, TypeOK, ClientsOK, IdsAreOld, ReadsTheDump, DumpKnowsItsEnd,
     NobodyIsServed, ShutdownCancels, CancelledForAReason, clients, lending
<1>2. ASSUME /\ reader' = NoRead /\ timers' = {} /\ ClientsOK'
             /\ \A d \in Clients : held'[d] = held[d]
             /\ reader.client = Nobody => phase' = phase
      PROVE  Inductive'
  <2>1. TypeOK'
    BY <1>2 DEF Inductive, TypeOK, lending
  <2>2. ReadsTheDump' /\ NobodyIsServed'
    BY <1>2, NoReadFacts DEF Inductive, ReadsTheDump, NobodyIsServed
  <2> QED
    BY <1>2, <2>1, <2>2, NoReadFacts DEF Inductive, IdsAreOld, DumpKnowsItsEnd,
       ShutdownCancels, CancelledForAReason, lending
<1>3. CASE BreakOff
  BY <1>2, <1>3, BreakOffEffect DEF Inductive
<1>4. CASE /\ reader' = NoRead /\ timers' = {t \in timers : t.id # reader.id}
           /\ ClientsOK' /\ \A d \in Clients : held'[d] = held[d]
           /\ reader.client = Nobody => phase' = phase
  <2>1. timers' = {}
    BY <1>4 DEF Inductive, ReadsTheDump
  <2> QED BY <1>2, <1>4, <2>1
<1> QED BY <1>1, <1>3, <1>4

\* How a read goes on.
LEMMA ReadKinds ==
    ASSUME NEW r \in Read, NEW next,
           \/ next = [r EXCEPT !.stage = "wait", !.taken = <<>>]
           \/ next = [r EXCEPT !.page = @ + 1, !.attempt = 1, !.stage = "ask", !.taken = <<>>]
           \/ next = [r EXCEPT !.stage = "rest"]
           \/ next = [r EXCEPT !.stage = "ask", !.attempt = @ + 1]
    PROVE  /\ next \in Read /\ next.id = r.id /\ next.client = r.client
           /\ next.chunk = r.chunk /\ next.stage # "none"
<1>1. <<>> \in Seq(Half) /\ r.page + 1 \in Nat /\ r.attempt + 1 \in Nat
  BY DEF Read
<1>2. CASE next = [r EXCEPT !.stage = "wait", !.taken = <<>>]
  BY <1>1, <1>2 DEF Read
<1>3. CASE next = [r EXCEPT !.page = @ + 1, !.attempt = 1, !.stage = "ask", !.taken = <<>>]
  BY <1>1, <1>3 DEF Read
<1>4. CASE next = [r EXCEPT !.stage = "rest"]
  BY <1>4 DEF Read
<1>5. CASE next = [r EXCEPT !.stage = "ask", !.attempt = @ + 1]
  BY <1>1, <1>5 DEF Read
<1> QED BY <1>2, <1>3, <1>4, <1>5

LEMMA SubSeqOfTwo ==
    ASSUME NEW S, NEW s \in Seq(S), Len(s) = 2, NEW n \in 0..2
    PROVE  SubSeq(s, 1, n) \in Seq(S)
OBVIOUS

LEMMA PageReadStep == ASSUME Inductive, PageRead PROVE Inductive'
<1>0. /\ reader \in Read /\ wire \in Seq(Half) /\ ClientsOK /\ NoRead \in Read
      /\ reader.client \in Clients \union {Nobody} /\ reader.chunk \in Nat
  BY NoReadFacts DEF Inductive, TypeOK, Read
<1>1. /\ reader.stage # "none"
      /\ UNCHANGED <<queue, lending, lastDump, cancelled, shutdown, asked, lapsed>>
  BY DEF PageRead, Ask, Receive, TimeOut, ReadFails, Retry, Reading
<1>2. CASE BreakOff /\ wire' \in Seq(Half)
  <2>1. reader' \in Read
    BY <1>0, <1>2 DEF BreakOff, EndRead
  <2> QED BY <1>0, <1>1, <1>2, <2>1, ReadStep
<1>3. CASE Ask
  <2>1. CASE reader.id \in cancelled
    BY <1>0, <1>2, <1>3, <2>1 DEF Ask
  <2>2. CASE reader.id \notin cancelled
    <3>1. PICK n \in 0..2 : wire' = wire \o SubSeq(Expected, 1, n)
      BY <1>3, <2>2 DEF Ask
    <3>2. wire' \in Seq(Half)
      <4>1. Expected \in Seq(Half) /\ Len(Expected) = 2
        BY <1>0 DEF Expected, Half, Read
      <4>2. SubSeq(Expected, 1, n) \in Seq(Half)
        BY <4>1, SubSeqOfTwo
      <4> QED BY <1>0, <3>1, <4>2
    <3>3. /\ reader' = [reader EXCEPT !.stage = "wait", !.taken = <<>>]
          /\ UNCHANGED <<clients, timers>>
      BY <1>3, <2>2 DEF Ask
    <3>4. /\ reader' \in Read /\ reader'.id = reader.id /\ reader'.client = reader.client
          /\ reader'.stage # "none"
      BY <1>0, <3>3, ReadKinds
    <3> QED BY <1>1, <3>2, <3>3, <3>4, ReadStep
  <2> QED BY <2>1, <2>2
<1>4. CASE Receive
  <2> DEFINE taken == Append(reader.taken, Head(wire))
  <2>1. wire # <<>> /\ wire' = Tail(wire) /\ wire' \in Seq(Half) /\ taken \in Seq(Half)
    BY <1>0, <1>4 DEF Receive, Read
  <2>2. CASE /\ reader' = [reader EXCEPT !.taken = taken]
             /\ UNCHANGED <<clients, timers>>
    <3>1. /\ reader' \in Read /\ reader'.id = reader.id /\ reader'.client = reader.client
          /\ reader'.stage # "none"
      BY <1>0, <1>1, <2>1, <2>2 DEF Read
    <3> QED BY <1>1, <2>1, <2>2, <3>1, ReadStep
  <2>3. CASE /\ reader' = [reader EXCEPT !.page = @ + 1, !.attempt = 1, !.stage = "ask",
                              !.taken = <<>>]
             /\ UNCHANGED <<clients, timers>>
    <3>1. /\ reader' \in Read /\ reader'.id = reader.id /\ reader'.client = reader.client
          /\ reader'.stage # "none"
      BY <1>0, <2>3, ReadKinds
    <3> QED BY <1>1, <2>1, <2>3, <3>1, ReadStep
  <2>4. CASE /\ EndRead
             /\ Answer(reader.client, "holding",
                   IF reader.client = Nobody THEN 0 ELSE held[reader.client], reader.chunk)
    <3>1. reader' = NoRead /\ timers' = {t \in timers : t.id # reader.id}
      BY <2>4 DEF EndRead
    <3>2. /\ ClientsOK' /\ \A d \in Clients : held'[d] = held[d]
          /\ reader.client = Nobody => phase' = phase
      BY <1>0, <2>4, BoundsAssumption DEF Answer, ClientsOK, clients, Phases
    <3> QED BY <1>0, <1>1, <2>1, <3>1, <3>2, ReadStep
  <2> QED BY <1>4, <2>2, <2>3, <2>4 DEF Receive
<1>5. CASE TimeOut
  <2>1. CASE ~BreakOff
    <3>1. reader' = [reader EXCEPT !.stage = "rest"] /\ UNCHANGED <<clients, timers, wire>>
      BY <1>5, <2>1 DEF TimeOut
    <3>2. /\ reader' \in Read /\ reader'.id = reader.id /\ reader'.client = reader.client
          /\ reader'.stage # "none"
      BY <1>0, <3>1, ReadKinds
    <3> QED BY <1>0, <1>1, <3>1, <3>2, ReadStep
  <2> QED BY <1>0, <1>2, <1>5, <2>1 DEF TimeOut
<1>6. CASE Retry
  <2>1. CASE ~BreakOff
    <3>1. /\ reader' = [reader EXCEPT !.stage = "ask", !.attempt = @ + 1]
          /\ UNCHANGED <<clients, timers, wire>>
      BY <1>6, <2>1 DEF Retry
    <3>2. /\ reader' \in Read /\ reader'.id = reader.id /\ reader'.client = reader.client
          /\ reader'.stage # "none"
      BY <1>0, <3>1, ReadKinds
    <3> QED BY <1>0, <1>1, <3>1, <3>2, ReadStep
  <2> QED BY <1>0, <1>2, <1>6, <2>1 DEF Retry
<1>7. CASE ReadFails
  <2>1. Expected \in Seq(Half)
    BY <1>0 DEF Expected, Half, Read
  <2>2. wire \o Expected \in Seq(Half)
    BY <1>0, <2>1
  <2>3. wire' \in {wire, wire \o Expected} /\ BreakOff
    BY <1>7 DEF ReadFails
  <2>4. wire' \in Seq(Half)
    BY <1>0, <2>2, <2>3
  <2> QED BY <1>2, <2>3, <2>4
<1> QED BY <1>3, <1>4, <1>5, <1>6, <1>7 DEF PageRead

\* The dump is closed, its lease has run out, or the loop is over.
LEMMA CloseStep ==
    ASSUME Inductive, ExpireHistoryDump \/ Stop PROVE Inductive'
<1>1. /\ reader.stage = "none" /\ timers = {} /\ 0 \in Nat
      /\ UNCHANGED <<phase, held, got, lastDump, reader, cancelled, timers, wire, asked, lapsed>>
  BY NoReadFacts DEF ExpireHistoryDump, Stop, Selecting, Inductive, ReadsTheDump,
     clients, history
<1>2. CASE ExpireHistoryDump
  <2>1. dump' = 0 /\ slot' = 0 /\ lease' = lease /\ queue' = queue /\ shutdown' = shutdown
    BY <1>2 DEF ExpireHistoryDump
  <2>2. TypeOK' /\ IdsAreOld'
    BY <1>1, <2>1 DEF Inductive, TypeOK, ClientsOK, IdsAreOld
  <2> QED
    BY <1>1, <2>1, <2>2 DEF Inductive, ReadsTheDump, DumpKnowsItsEnd, NobodyIsServed,
       ShutdownCancels, CancelledForAReason
<1>3. CASE Stop
  <2>1. /\ dump' = 0 /\ slot' = 0 /\ lease' = 0 /\ queue' = <<>>
        /\ shutdown = "queued" /\ shutdown' = "stopped"
    BY <1>3 DEF Stop
  <2>2. TypeOK' /\ IdsAreOld'
    BY <1>1, <2>1 DEF Inductive, TypeOK, ClientsOK, IdsAreOld
  <2> QED
    BY <1>1, <2>1, <2>2 DEF Inductive, ReadsTheDump, DumpKnowsItsEnd, NobodyIsServed,
       ShutdownCancels, CancelledForAReason
<1> QED BY <1>2, <1>3

LEMMA TickStep == ASSUME Inductive, Tick PROVE Inductive'
<1>1. /\ lease' = Less(lease) /\ timers' = {[t EXCEPT !.left = Less(@)] : t \in timers}
      /\ lapsed' = IF dump # 0 /\ lease' = 0 THEN lapsed \union {dump} ELSE lapsed
      /\ UNCHANGED <<phase, held, got, queue, dump, slot, lastDump, reader, cancelled,
                     shutdown, wire, asked>>
  BY DEF Tick, clients
<1>2. \A n \in Nat : Less(n) \in Nat
  BY DEF Less
<1>3. TypeOK'
  <2>1. lease' \in Nat /\ timers' \subseteq [id : Nat, left : Nat]
    BY <1>1, <1>2 DEF Inductive, TypeOK
  <2> QED BY <1>1, <2>1 DEF Inductive, TypeOK, ClientsOK
<1>4. ReadsTheDump'
  <2>1. \A t \in timers : t \in [id : Nat, left : Nat]
    BY DEF Inductive, TypeOK
  <2> QED BY <1>1, <2>1 DEF Inductive, ReadsTheDump
<1>5. DumpKnowsItsEnd'
  BY <1>1 DEF Inductive, DumpKnowsItsEnd
<1> QED
  BY <1>1, <1>3, <1>4, <1>5 DEF Inductive, IdsAreOld, NobodyIsServed, ShutdownCancels,
     CancelledForAReason

\* A timer that is due is that of the open dump, whose lease has run out.
LEMMA TimerStep == ASSUME Inductive, TimerFires PROVE Inductive'
<1>1. PICK t \in timers : /\ t.left = 0 /\ timers' = timers \ {t}
                          /\ cancelled' = cancelled \union {t.id}
  BY DEF TimerFires
<1>2. UNCHANGED <<phase, held, got, queue, dump, slot, lastDump, lease, reader, shutdown,
                  wire, asked, lapsed>>
  BY DEF TimerFires, clients, lending, history
<1>3. t.id \in lapsed
  BY <1>1 DEF Inductive, ReadsTheDump, DumpKnowsItsEnd
<1>4. TypeOK' /\ IdsAreOld'
  BY <1>1, <1>2 DEF Inductive, TypeOK, ClientsOK, IdsAreOld
<1> QED
  BY <1>1, <1>2, <1>3, <1>4 DEF Inductive, ReadsTheDump, DumpKnowsItsEnd,
     NobodyIsServed, ShutdownCancels, CancelledForAReason

\* The device goes, with the dump and what is read.
LEMMA DeviceGoesStep == ASSUME Inductive, DeviceGoes PROVE Inductive'
<1>1. /\ dump' = 0 /\ slot' = 0 /\ lease' = 0 /\ wire' = <<>>
      /\ UNCHANGED <<queue, lastDump, cancelled, shutdown, asked, lapsed>>
  BY DEF DeviceGoes, history
<1>2. /\ reader' = NoRead /\ timers' = {} /\ ClientsOK'
      /\ \A d \in Clients : held'[d] = held[d]
      /\ reader.client = Nobody => phase' = phase
  <2>1. CASE reader = NoRead
    BY <2>1, NoReadFacts DEF DeviceGoes, Inductive, TypeOK, ClientsOK, ReadsTheDump, clients
  <2>2. CASE reader # NoRead
    <3>1. BreakOff
      BY <2>2 DEF DeviceGoes
    <3> QED BY <3>1, BreakOffEffect DEF Inductive
  <2> QED BY <2>1, <2>2
<1>3. TypeOK'
  BY <1>1, <1>2, NoReadFacts DEF Inductive, TypeOK
<1>4. IdsAreOld'
  BY <1>1, <1>2 DEF Inductive, IdsAreOld, TypeOK
<1>5. ReadsTheDump' /\ DumpKnowsItsEnd' /\ NobodyIsServed'
  BY <1>1, <1>2, NoReadFacts DEF Inductive, ReadsTheDump, DumpKnowsItsEnd, NobodyIsServed
<1> QED
  BY <1>1, <1>2, <1>3, <1>4, <1>5, NoReadFacts DEF Inductive, ShutdownCancels,
     CancelledForAReason

\* What is left of a sequence that loses its head.
LEMMA RestOfSequence ==
    ASSUME NEW S, NEW s \in Seq(S), s # <<>>
    PROVE  Tail(s) \in Seq(S)
OBVIOUS

\* The rest of what happens outside.
LEMMA QuietStep ==
    ASSUME Inductive, Discard \/ DeviceComes \/ QueueShutdown \/ UNCHANGED vars
    PROVE  Inductive'
<1>1. /\ UNCHANGED <<phase, held, got, queue, dump, lease, slot, lastDump, reader,
                     cancelled, timers, asked, lapsed>>
      /\ shutdown' = shutdown \/ (shutdown = "cancelled" /\ shutdown' = "queued")
  BY DEF Discard, DeviceComes, QueueShutdown, vars, clients, lending, history
<1>2. wire' = wire \/ (wire # <<>> /\ wire' = Tail(wire))
  BY DEF Discard, DeviceComes, QueueShutdown, vars
<1>3. wire \in Seq(Half)
  BY DEF Inductive, TypeOK
<1>4. wire' \in Seq(Half)
  BY <1>2, <1>3, RestOfSequence
<1>5. TypeOK'
  BY <1>1, <1>4 DEF Inductive, TypeOK, ClientsOK
<1> QED
  BY <1>1, <1>5 DEF Inductive, IdsAreOld, ReadsTheDump, DumpKnowsItsEnd, NobodyIsServed,
     ShutdownCancels, CancelledForAReason

\* The server returns, and the observer cancels what is read.
LEMMA ShutDownStep == ASSUME Inductive, StopServing \/ CancelForShutdown PROVE Inductive'
<1>1. CASE StopServing
  <2>1. /\ Orphan(Clients) /\ shutdown = "no" /\ shutdown' = "closed"
        /\ phase' = [c \in Clients |-> "idle"] /\ held' = [c \in Clients |-> 0]
        /\ UNCHANGED <<got, connected, lending, lastDump, cancelled, timers, wire, history>>
    BY <1>1 DEF StopServing
  <2>2. ClientsOK' /\ \A c \in Clients : phase'[c] = "idle" /\ held'[c] \in {held[c], 0}
    BY <2>1 DEF Inductive, TypeOK, ClientsOK, Phases
  <2> QED BY <2>1, <2>2, OrphanStep
<1>2. CASE CancelForShutdown
  <2>1. /\ shutdown = "closed" /\ shutdown' = "cancelled"
        /\ cancelled' = IF slot # 0 THEN cancelled \union {slot} ELSE cancelled
        /\ UNCHANGED <<phase, held, got, queue, dump, lease, slot, lastDump, reader,
                       timers, wire, asked, lapsed>>
    BY <1>2 DEF CancelForShutdown, clients, lending, history
  <2>2. TypeOK' /\ IdsAreOld'
    BY <2>1 DEF Inductive, TypeOK, ClientsOK, IdsAreOld
  <2>3. dump # 0 => dump \in cancelled'
    BY <2>1 DEF Inductive, IdsAreOld
  <2> QED
    BY <2>1, <2>2, <2>3 DEF Inductive, ReadsTheDump, DumpKnowsItsEnd, NobodyIsServed,
       ShutdownCancels, CancelledForAReason
<1> QED BY <1>1, <1>2

LEMMA NextIsInductive == Inductive /\ [Next]_vars => Inductive'
<1> SUFFICES ASSUME Inductive, [Next]_vars PROVE Inductive'
  OBVIOUS
<1>1. CASE \E c \in Clients : Client(c) \/ EndCall(c)
  BY <1>1, ClientStep
<1>2. CASE HandleCommand
  BY <1>2, BeginStep, ChunkStep, EndStep DEF HandleCommand
<1>3. CASE ExpireHistoryDump \/ Stop
  BY <1>3, CloseStep
<1>4. CASE PageRead
  BY <1>4, PageReadStep
<1>5. CASE Outside
  BY <1>5, TickStep, TimerStep, QuietStep, DeviceGoesStep DEF Outside
<1>6. CASE ShutDown
  BY <1>6, ShutDownStep, QuietStep DEF ShutDown
<1>7. CASE UNCHANGED vars
  BY <1>7, QuietStep
<1> QED BY <1>1, <1>2, <1>3, <1>4, <1>5, <1>6, <1>7 DEF Next

--------------------------------------------------------------------------------
\* The theorems.

\* The parts of the inductive invariant hold in every state: the variables have
\* their kinds, what is read is the open dump under its own token and timer, and
\* every end, lease and shutdown that concerns it has cancelled it.
THEOREM InductiveHolds == Spec => []Inductive
<1> QED BY InitIsInductive, NextIsInductive, PTL DEF Spec

\* Type correctness, whatever the bounds of a run.
THEOREM TypeOKHolds == Spec => []TypeOK
<1>1. Inductive => TypeOK
  BY DEF Inductive
<1> QED BY <1>1, InductiveHolds, PTL

\* Nobody's dump is cancelled by another's end, by the lease of another read or
\* by a timer that was left behind (end_history_dump, the spawned lease timer).
THEOREM CancelledForAReasonHolds == Spec => []CancelledForAReason
<1>1. Inductive => CancelledForAReason
  BY DEF Inductive
<1> QED BY <1>1, InductiveHolds, PTL

\* A page is asked for only of the open dump, and only if its token is not
\* cancelled.
LEMMA AskingFacts ==
    ASSUME Inductive, [Next]_vars, Asks
    PROVE  reader.id = dump /\ dump # 0 /\ reader.id \notin cancelled
<1>1. reader.stage = "ask" /\ reader'.stage = "wait"
  BY DEF Asks
<1>2. reader.id = dump /\ dump # 0
  BY <1>1 DEF Inductive, ReadsTheDump
<1>3. reader' # reader
  BY <1>1
<1>4. reader.stage # "none" /\ reader # NoRead /\ NoRead.stage = "none" /\ ClientsOK
      /\ reader \in Read
  BY <1>1, NoReadFacts DEF Inductive, TypeOK
<1>5. ASSUME NEW C \in SUBSET Clients, Orphan(C) PROVE FALSE
  BY <1>1, <1>5, OrphanEffect DEF Inductive
<1>6. ~\E c \in Clients : Client(c) \/ EndCall(c)
  BY <1>3, <1>5 DEF Client, EndCall, Begin, ReadChunk, Finish, Interrupt, Abandon,
     EndCancels, EndSends
<1>7. ~HandleCommand /\ ~ExpireHistoryDump /\ ~Stop
  BY <1>4 DEF HandleCommand, BeginHistoryDump, ReadHistoryDumpChunk, EndHistoryDump,
     ExpireHistoryDump, Stop, Take, Selecting
<1>8. ~Outside
  BY <1>1, <1>3, <1>4 DEF Outside, Tick, TimerFires, Discard, DeviceGoes, DeviceComes,
     BreakOff, EndRead
<1>9. ~ShutDown
  BY <1>3, <1>5 DEF ShutDown, StopServing, CancelForShutdown, QueueShutdown
<1>10. Ask
  <2>1. ~ReadFails
    BY <1>1, <1>4 DEF ReadFails, BreakOff, EndRead
  <2> QED BY <1>1, <1>3, <1>6, <1>7, <1>8, <1>9, <2>1 DEF Next, vars, PageRead, Receive,
         TimeOut, Retry, Reading, BreakOff, EndRead
<1>11. reader.id \notin cancelled
  BY <1>1, <1>4, <1>10 DEF Ask, BreakOff, EndRead
<1> QED BY <1>2, <1>11

\* Once a client has asked for the end of its dump, the device is asked for no
\* further page of it (read_spi_page's check of the token).
THEOREM EndedDumpIsQuietHolds == Spec => EndedDumpIsQuiet
<1>1. Inductive /\ [Next]_vars => [Asks => reader.id \notin asked]_vars
  BY AskingFacts DEF Inductive, DumpKnowsItsEnd
<1> QED BY <1>1, InductiveHolds, PTL DEF Spec, EndedDumpIsQuiet

\* Once the shutdown has cancelled, no page of a dump is asked for, whatever
\* commands are still queued.
THEOREM ShutdownIsQuietHolds == Spec => ShutdownIsQuiet
<1>1. Inductive /\ [Next]_vars => [Asks => shutdown \in {"no", "closed"}]_vars
  <2> SUFFICES ASSUME Inductive, [Next]_vars, Asks PROVE shutdown \in {"no", "closed"}
    OBVIOUS
  <2>1. reader.id \notin cancelled /\ reader.stage # "none"
    BY AskingFacts DEF Asks
  <2> QED BY <2>1 DEF Inductive, ShutdownCancels
<1> QED BY <1>1, InductiveHolds, PTL DEF Spec, ShutdownIsQuiet

--------------------------------------------------------------------------------
\* Whose answers a page is made of.

\* As long as no answer has come late, the line holds nothing outside a wait, and
\* within one what has been taken and what is on its way are, in order, a
\* beginning of the answer to the page that is awaited.
OwnAnswers ==
    ~late => /\ ~mixed
             /\ reader.stage # "wait" => wire = <<>>
             /\ reader.stage = "wait" =>
                   \/ reader.taken = <<>> /\ wire \in {<<>>, <<Expected[1]>>, Expected}
                   \/ reader.taken = <<Expected[1]>> /\ wire \in {<<>>, <<Expected[2]>>}

LEMMA SameSequence ==
    ASSUME NEW S, NEW s \in Seq(S), NEW t \in Seq(S), Len(s) = Len(t),
           \A i \in 1..Len(s) : s[i] = t[i]
    PROVE  s = t
OBVIOUS

\* Sequences of one and of two halves.
LEMMA TwoHalves ==
    ASSUME NEW a, NEW b
    PROVE  /\ Append(<<>>, a) = <<a>> /\ Append(<<a>>, b) = <<a, b>>
           /\ Head(<<a>>) = a /\ Head(<<a, b>>) = a
           /\ Tail(<<a>>) = <<>> /\ Tail(<<a, b>>) = <<b>>
           /\ Len(<<a>>) = 1 /\ Len(<<a, b>>) = 2
<1>1. <<a>> \in Seq({a, b}) /\ <<a, b>> \in Seq({a, b})
      /\ Len(<<a>>) = 1 /\ Len(<<a, b>>) = 2
  OBVIOUS
<1>2. Append(<<a>>, b) = <<a, b>>
  <2>1. Append(<<a>>, b) \in Seq({a, b}) /\ Len(Append(<<a>>, b)) = 2
    BY <1>1
  <2>2. Append(<<a>>, b)[1] = a /\ Append(<<a>>, b)[2] = b
    BY <1>1
  <2>3. \A i \in 1..2 : Append(<<a>>, b)[i] = <<a, b>>[i]
    BY <2>2
  <2> QED BY <1>1, <2>1, <2>3, SameSequence
<1>3. Append(<<>>, a) = <<a>> /\ Tail(<<a>>) = <<>>
  OBVIOUS
<1>4. Head(<<a>>) = a /\ Head(<<a, b>>) = a
  OBVIOUS
<1>5. Tail(<<a, b>>) = <<b>>
  OBVIOUS
<1> QED BY <1>1, <1>2, <1>3, <1>4, <1>5

LEMMA Beginnings ==
    ASSUME NEW a, NEW b, NEW n \in 0..2
    PROVE  SubSeq(<<a, b>>, 1, n) \in {<<>>, <<a>>, <<a, b>>}
<1>1. <<a>> \in Seq({a, b}) /\ <<a, b>> \in Seq({a, b})
      /\ Len(<<a>>) = 1 /\ Len(<<a, b>>) = 2
  OBVIOUS
<1>2. <<a, b>>[1] = a /\ <<a>>[1] = a
  OBVIOUS
<1>3. SubSeq(<<a, b>>, 1, 0) = <<>>
  BY SubSeqEmpty
<1>4. SubSeq(<<a, b>>, 1, 1) = <<a>>
  <2>1. \A i \in 1..1 : <<a, b>>[i] \in {a, b}
    BY <1>2
  <2>2. /\ SubSeq(<<a, b>>, 1, 1) \in Seq({a, b}) /\ Len(SubSeq(<<a, b>>, 1, 1)) = 1
        /\ \A i \in 1..1 : SubSeq(<<a, b>>, 1, 1)[i] = <<a, b>>[1 + i - 1]
    BY <2>1, SubSeqProperties
  <2>3. SubSeq(<<a, b>>, 1, 1)[1] = a
    BY <1>2, <2>2
  <2>4. \A i \in 1..1 : SubSeq(<<a, b>>, 1, 1)[i] = <<a>>[i]
    BY <1>2, <2>3
  <2> QED BY <1>1, <2>2, <2>4, SameSequence
<1>5. SubSeq(<<a, b>>, 1, 2) = <<a, b>>
  BY <1>1, SubSeqFull
<1>6. n = 0 \/ n = 1 \/ n = 2
  OBVIOUS
<1> QED BY <1>3, <1>4, <1>5, <1>6

\* An answer, and how much of it the device sends.
LEMMA ExpectedHalves ==
    /\ Expected = <<Expected[1], Expected[2]>>
    /\ \A n \in 0..2 : SubSeq(Expected, 1, n) \in {<<>>, <<Expected[1]>>, Expected}
<1>1. Expected = <<Expected[1], Expected[2]>>
  BY DEF Expected
<1> QED BY <1>1, Beginnings

\* A step that changes neither the line nor the page that is read.
LEMMA SamePage ==
    ASSUME OwnAnswers, UNCHANGED <<wire, late, mixed>>,
           /\ reader'.stage = reader.stage /\ reader'.taken = reader.taken
           /\ reader'.chunk = reader.chunk /\ reader'.page = reader.page
    PROVE  OwnAnswers'
<1>1. Expected' = Expected
  BY DEF Expected
<1> QED BY <1>1 DEF OwnAnswers

\* A step outside a wait that leaves the line empty.
LEMMA EmptyLine ==
    ASSUME OwnAnswers, UNCHANGED <<late, mixed>>, wire' \in {<<>>, wire},
           reader.stage # "wait", reader'.stage # "wait"
    PROVE  OwnAnswers'
BY DEF OwnAnswers

\* Connections that go change nothing of the page that is read.
LEMMA OrphanKeepsThePage ==
    ASSUME TypeOK, NEW C, Orphan(C)
    PROVE  /\ reader'.stage = reader.stage /\ reader'.taken = reader.taken
           /\ reader'.chunk = reader.chunk /\ reader'.page = reader.page
BY DEF Orphan, TypeOK, Read

LEMMA AskKeepsAnswers == ASSUME TypeOK, OwnAnswers, Ask PROVE OwnAnswers'
<1>1. reader \in Read /\ wire \in Seq(Half) /\ reader.stage = "ask"
      /\ UNCHANGED <<late, mixed>>
  BY DEF TypeOK, Ask, Reading
<1>2. CASE reader.id \in cancelled
  BY <1>1, <1>2, NoReadFacts, EmptyLine DEF Ask, BreakOff, EndRead
<1>3. CASE reader.id \notin cancelled
  <2>1. PICK n \in 0..2 : wire' = wire \o SubSeq(Expected, 1, n)
    BY <1>3 DEF Ask
  <2>2. reader' = [reader EXCEPT !.stage = "wait", !.taken = <<>>]
    BY <1>3 DEF Ask
  <2>3. /\ reader'.stage = "wait" /\ reader'.taken = <<>>
        /\ reader'.chunk = reader.chunk /\ reader'.page = reader.page
    BY <1>1, <2>2 DEF Read
  <2>4. Expected' = Expected
    BY <2>3 DEF Expected
  <2>5. ASSUME wire = <<>> PROVE wire' \in {<<>>, <<Expected[1]>>, Expected}
    <3>1. SubSeq(Expected, 1, n) \in {<<>>, <<Expected[1]>>, Expected}
      BY ExpectedHalves
    <3>2. Expected \in Seq({Expected[1], Expected[2]})
      BY DEF Expected
    <3>3. SubSeq(Expected, 1, n) \in Seq({Expected[1], Expected[2]})
      BY <3>1, <3>2
    <3>4. \A s \in Seq({Expected[1], Expected[2]}) : <<>> \o s = s
      OBVIOUS
    <3> QED BY <2>1, <2>5, <3>1, <3>3, <3>4
  <2> QED BY <1>1, <2>3, <2>4, <2>5 DEF OwnAnswers
<1> QED BY <1>2, <1>3

LEMMA ReceiveKeepsAnswers == ASSUME TypeOK, OwnAnswers, Receive PROVE OwnAnswers'
<1> DEFINE taken == Append(reader.taken, Head(wire))
<1>1. /\ reader \in Read /\ reader.stage = "wait" /\ wire # <<>> /\ wire' = Tail(wire)
      /\ late' = late
  BY DEF TypeOK, Receive, Reading
<1> SUFFICES ASSUME ~late PROVE OwnAnswers'
  BY <1>1 DEF OwnAnswers
<1> DEFINE e == Expected[1]
           f == Expected[2]
<1>2. Expected = <<e, f>>
  BY ExpectedHalves
<1>3. \/ reader.taken = <<>> /\ wire \in {<<e>>, <<e, f>>}
      \/ reader.taken = <<e>> /\ wire = <<f>>
  BY <1>1, <1>2 DEF OwnAnswers
<1>4. ~mixed
  BY DEF OwnAnswers
<1>5. CASE reader.taken = <<>>
  <2>1. taken = <<e>> /\ wire' \in {<<>>, <<f>>}
    <3>1. wire = <<e>> \/ wire = <<e, f>>
      <4>1. <<e>> # <<>>
        OBVIOUS
      <4> QED BY <1>3, <1>5, <4>1
    <3>2. Head(wire) = e /\ Tail(wire) \in {<<>>, <<f>>}
      BY <3>1, TwoHalves
    <3> QED BY <1>1, <1>5, <3>2, TwoHalves
  <2>2. reader' = [reader EXCEPT !.taken = taken] /\ mixed' = mixed
    <3>1. Len(taken) < 2
      BY <2>1, TwoHalves
    <3> QED BY <3>1 DEF Receive
  <2>3. /\ reader'.stage = "wait" /\ reader'.taken = <<e>>
        /\ reader'.chunk = reader.chunk /\ reader'.page = reader.page
    BY <1>1, <2>1, <2>2 DEF Read
  <2>4. Expected' = Expected
    BY <2>3 DEF Expected
  <2> QED BY <1>4, <2>1, <2>2, <2>3, <2>4 DEF OwnAnswers
<1>6. CASE reader.taken = <<e>> /\ wire = <<f>>
  <2>1. taken = <<e, f>> /\ wire' = <<>>
    BY <1>1, <1>6, TwoHalves
  <2>2. mixed' = (mixed \/ taken # Expected) /\ reader'.stage # "wait"
    <3>1. Len(taken) = 2
      BY <2>1, TwoHalves
    <3>2. mixed' = (mixed \/ taken # Expected)
      BY <3>1 DEF Receive
    <3>3. \/ reader' = [reader EXCEPT !.page = @ + 1, !.attempt = 1, !.stage = "ask",
                           !.taken = <<>>]
          \/ reader' = NoRead
      BY <3>1 DEF Receive, EndRead
    <3>4. reader'.stage # "wait"
      BY <1>1, <3>3, NoReadFacts DEF Read
    <3> QED BY <3>2, <3>4
  <2>3. ~mixed'
    BY <1>2, <1>4, <2>1, <2>2
  <2> QED BY <2>1, <2>2, <2>3 DEF OwnAnswers
<1> QED BY <1>3, <1>5, <1>6

LEMMA TimeOutKeepsAnswers == ASSUME TypeOK, OwnAnswers, TimeOut PROVE OwnAnswers'
<1>1. reader \in Read /\ mixed' = mixed /\ wire' = wire
  BY DEF TypeOK, TimeOut
<1>2. reader'.stage # "wait"
  BY <1>1, NoReadFacts DEF TimeOut, BreakOff, EndRead, Read
<1>3. \/ wire = <<>> /\ late' = late
      \/ late' = TRUE
  BY DEF TimeOut
<1> QED BY <1>1, <1>2, <1>3 DEF OwnAnswers

LEMMA ReadFailsKeepsAnswers == ASSUME TypeOK, OwnAnswers, ReadFails PROVE OwnAnswers'
<1>1. mixed' = mixed /\ reader'.stage # "wait"
  BY NoReadFacts DEF ReadFails, BreakOff, EndRead
<1>2. \/ wire' = <<>> /\ late' = late
      \/ late' = TRUE
  BY DEF ReadFails
<1> QED BY <1>1, <1>2 DEF OwnAnswers

LEMMA AnswersStayOwn == Inductive /\ OwnAnswers /\ [Next]_vars => OwnAnswers'
<1> SUFFICES ASSUME TypeOK, OwnAnswers, [Next]_vars PROVE OwnAnswers'
  BY DEF Inductive
<1>0. reader \in Read /\ NoRead.stage = "none"
  BY NoReadFacts DEF TypeOK
<1>1. ASSUME NEW c \in Clients, Client(c) \/ EndCall(c) PROVE OwnAnswers'
  <2>1. UNCHANGED <<wire, late, mixed>> /\ (reader' = reader \/ Orphan({c}))
    BY <1>1 DEF Client, EndCall, Begin, ReadChunk, Finish, Interrupt, Abandon, EndCancels,
       EndSends, history
  <2> QED BY <2>1, SamePage, OrphanKeepsThePage
<1>2. ASSUME HandleCommand \/ ExpireHistoryDump \/ Stop PROVE OwnAnswers'
  <2>1. UNCHANGED <<wire, late, mixed>> /\ reader.stage = "none"
    BY <1>0, <1>2 DEF HandleCommand, BeginHistoryDump, ReadHistoryDumpChunk, EndHistoryDump,
       ExpireHistoryDump, Stop, Take, Selecting, history
  <2>2. reader' = reader \/ reader'.stage = "ask"
    BY <1>2 DEF HandleCommand, BeginHistoryDump, ReadHistoryDumpChunk, EndHistoryDump,
       ExpireHistoryDump, Stop, NoRead
  <2> QED BY <2>1, <2>2, EmptyLine
<1>3. CASE Retry
  <2>1. /\ UNCHANGED <<wire, late, mixed>> /\ reader.stage = "rest"
        /\ reader'.stage # "wait"
    BY <1>0, <1>3 DEF Retry, Reading, BreakOff, EndRead, Read
  <2> QED BY <2>1, EmptyLine
<1>4. CASE Discard
  <2>1. /\ UNCHANGED <<late, mixed, reader>> /\ reader.stage # "wait" /\ wire # <<>>
    BY <1>4 DEF Discard, history
  <2> QED BY <2>1 DEF OwnAnswers
<1>5. CASE DeviceGoes
  <2>1. wire' = <<>> /\ UNCHANGED <<late, mixed>> /\ reader'.stage = "none"
    BY <1>0, <1>5 DEF DeviceGoes, BreakOff, EndRead, history
  <2> QED BY <2>1 DEF OwnAnswers
<1>6. ASSUME Tick \/ TimerFires \/ DeviceComes \/ ShutDown \/ UNCHANGED vars
      PROVE  OwnAnswers'
  <2>1. UNCHANGED <<wire, late, mixed>> /\ (reader' = reader \/ Orphan(Clients))
    BY <1>6 DEF Tick, TimerFires, DeviceComes, ShutDown, StopServing, CancelForShutdown,
       QueueShutdown, vars, history
  <2> QED BY <2>1, SamePage, OrphanKeepsThePage
<1> QED
  BY <1>1, <1>2, <1>3, <1>4, <1>5, <1>6, AskKeepsAnswers, ReceiveKeepsAnswers,
     TimeOutKeepsAnswers, ReadFailsKeepsAnswers DEF Next, PageRead, Outside

\* No page that is handed out is made of the answers to other requests, unless an
\* answer has come after SPI_READ_TIMEOUT, or after its read had failed
\* (read_spi_page).
THEOREM PagesAreTheirOwnHolds == Spec => []PagesAreTheirOwn
<1>1. Init => OwnAnswers
  BY DEF Init, OwnAnswers, NoRead
<1>2. OwnAnswers => PagesAreTheirOwn
  BY DEF OwnAnswers, PagesAreTheirOwn
<1> QED BY <1>1, <1>2, AnswersStayOwn, InductiveHolds, PTL DEF Spec
--------------------------------------------------------------------------------
\* HistoryTransfer implements DumpLending.  First, that answers fit.

LEMMA FreeClient ==
    ASSUME NEW c \in Clients, ClientFits(c), phase[c] \notin {"beginning", "reading", "ending"}
    PROVE  reader.client # c /\ \A i \in DOMAIN queue : queue[i].client # c
BY DEF ClientFits, Fits

\* Somebody else's step.
LEMMA SameClient ==
    ASSUME NEW d \in Clients, ClientFits(d), NEW k \in Nat, DOMAIN queue' \subseteq Nat,
           phase'[d] = phase[d], held'[d] = held[d], got'[d] = got[d],
           \A i \in DOMAIN queue' : queue'[i].client = d =>
              /\ i + k \in DOMAIN queue /\ queue[i + k].client = d
              /\ queue'[i].op = queue[i + k].op /\ queue'[i].id = queue[i + k].id
              /\ queue'[i].chunk = queue[i + k].chunk,
           reader'.client = d => /\ reader.client = d /\ reader'.id = reader.id
                                 /\ reader'.chunk = reader.chunk
    PROVE  ClientFits(d)'
<1>1. \A op, id, chunk : Fits(d, op, id, chunk) => Fits(d, op, id, chunk)'
  BY DEF Fits
<1>2. ASSUME NEW i \in DOMAIN queue', queue'[i].client = d
      PROVE  /\ Fits(d, queue[i].op, queue[i].id, queue[i].chunk)' /\ reader'.client # d
             /\ \A j \in DOMAIN queue' : queue'[j].client = d => i = j
  <2>1. /\ i + k \in DOMAIN queue /\ queue[i + k].client = d
        /\ queue'[i].op = queue[i + k].op /\ queue'[i].id = queue[i + k].id
        /\ queue'[i].chunk = queue[i + k].chunk
    BY <1>2
  <2>2. /\ Fits(d, queue[i + k].op, queue[i + k].id, queue[i + k].chunk)
        /\ reader.client # d
        /\ \A j \in DOMAIN queue : queue[j].client = d => i + k = j
    BY <2>1 DEF ClientFits
  <2>3. Fits(d, queue[i].op, queue[i].id, queue[i].chunk)'
    BY <2>1, <2>2 DEF Fits
  <2>4. ASSUME NEW j \in DOMAIN queue', queue'[j].client = d PROVE i = j
    <3>1. j + k \in DOMAIN queue /\ queue[j + k].client = d
      BY <2>4
    <3>2. i + k = j + k
      BY <2>2, <3>1
    <3> QED BY <3>2
  <2> QED BY <2>2, <2>3, <2>4
<1>3. reader'.client = d => Fits(d, "chunk", reader.id, reader.chunk)'
  BY DEF ClientFits, Fits
<1>4. phase'[d] \in {"idle", "beginning"} => held'[d] = 0
  BY DEF ClientFits
<1> QED BY <1>2, <1>3, <1>4 DEF ClientFits

\* The step of a client that waits for nothing any more.
LEMMA SilentClient ==
    ASSUME NEW c \in Clients, phase'[c] \in {"idle", "beginning"} => held'[c] = 0,
           reader'.client # c, \A i \in DOMAIN queue' : queue'[i].client # c
    PROVE  ClientFits(c)'
BY DEF ClientFits

\* A client moves, and no other one.
Moves(c, p, id, n) ==
    /\ phase' = [phase EXCEPT ![c] = p]
    /\ held' = [held EXCEPT ![c] = id] /\ got' = [got EXCEPT ![c] = n]

LEMMA MovesEffect ==
    ASSUME ClientsOK, NEW c \in Clients, NEW p, NEW id, NEW n, Moves(c, p, id, n)
    PROVE  /\ phase'[c] = p /\ held'[c] = id /\ got'[c] = n
           /\ \A d \in Clients \ {c} :
                 phase'[d] = phase[d] /\ held'[d] = held[d] /\ got'[d] = got[d]
           /\ View[c] = Seen(phase[c], held[c], got[c])
           /\ View' = [View EXCEPT ![c] = Seen(p, id, n)]
<1>1. /\ phase'[c] = p /\ held'[c] = id /\ got'[c] = n
      /\ \A d \in Clients \ {c} :
            phase'[d] = phase[d] /\ held'[d] = held[d] /\ got'[d] = got[d]
  BY DEF Moves, ClientsOK
<1>2. View' = [View EXCEPT ![c] = Seen(p, id, n)]
  <2>1. View' = [d \in Clients |-> Seen(phase'[d], held'[d], got'[d])]
    BY DEF View, Seen
  <2>2. \A d \in Clients : Seen(phase'[d], held'[d], got'[d]) =
           IF d = c THEN Seen(p, id, n) ELSE Seen(phase[d], held[d], got[d])
    BY <1>1
  <2> HIDE DEF Seen
  <2> QED BY <2>1, <2>2 DEF View
<1> QED BY <1>1, <1>2 DEF View

LEMMA SendFits ==
    ASSUME TypeOK, AnswersFit, NEW c \in Clients, NEW op, NEW id, NEW chunk, NEW p,
           Send(c, op, id, chunk), phase[c] \notin {"beginning", "reading", "ending"},
           Moves(c, p, held[c], got[c]), p \in {"idle", "beginning"} => held[c] = 0,
           Fits(c, op, id, chunk)', reader' = reader
    PROVE  AnswersFit'
<1> DEFINE m == [op |-> op, client |-> c, id |-> id, chunk |-> chunk]
           n == Len(queue) + 1
<1>1. /\ queue \in Seq(Message) /\ ClientsOK /\ queue' = Append(queue, m)
  BY DEF TypeOK, Send
<1>2. /\ DOMAIN queue' = 1..n /\ queue'[n] = m /\ n \in Nat
      /\ \A i \in 1..n : i = n \/ (i \in DOMAIN queue /\ queue'[i] = queue[i])
  BY <1>1
<1>3. reader.client # c /\ \A i \in DOMAIN queue : queue[i].client # c
  BY FreeClient DEF AnswersFit
<1>4. /\ phase'[c] = p /\ held'[c] = held[c]
      /\ \A d \in Clients \ {c} :
            phase'[d] = phase[d] /\ held'[d] = held[d] /\ got'[d] = got[d]
  BY <1>1, MovesEffect
<1>5. ClientFits(c)'
  <2>1. \A i \in DOMAIN queue' : queue'[i].client = c => i = n
    BY <1>2, <1>3
  <2>2. ASSUME NEW i \in DOMAIN queue', queue'[i].client = c
        PROVE  /\ Fits(c, queue[i].op, queue[i].id, queue[i].chunk)' /\ reader'.client # c
               /\ \A j \in DOMAIN queue' : queue'[j].client = c => i = j
    <3>1. i = n /\ queue'[i] = m /\ \A j \in DOMAIN queue' : queue'[j].client = c => j = n
      BY <1>2, <2>1, <2>2
    <3>2. queue'[i].op = op /\ queue'[i].id = id /\ queue'[i].chunk = chunk
      BY <3>1
    <3> HIDE DEF n
    <3> QED BY <1>3, <3>1, <3>2 DEF Fits
  <2>3. reader'.client # c /\ (phase'[c] \in {"idle", "beginning"} => held'[c] = 0)
    BY <1>3, <1>4
  <2> QED BY <2>2, <2>3 DEF ClientFits
<1>6. ASSUME NEW d \in Clients \ {c} PROVE ClientFits(d)'
  <2>1. \A i \in DOMAIN queue' : queue'[i].client = d =>
           i + 0 \in DOMAIN queue /\ queue'[i] = queue[i + 0] /\ queue[i + 0].client = d
    BY <1>1, <1>2
  <2> QED BY <1>2, <1>4, <2>1, SameClient DEF AnswersFit
<1> QED BY <1>5, <1>6 DEF AnswersFit

LEMMA OrphanFits ==
    ASSUME TypeOK, AnswersFit, NEW C \in SUBSET Clients, Orphan(C),
           \A d \in Clients \ C :
              phase'[d] = phase[d] /\ held'[d] = held[d] /\ got'[d] = got[d],
           \A c \in C : phase'[c] \in {"idle", "beginning"} => held'[c] = 0
    PROVE  AnswersFit'
<1>1. /\ DOMAIN queue' = DOMAIN queue /\ DOMAIN queue \subseteq Nat
      /\ \A i \in DOMAIN queue :
            /\ queue'[i].op = queue[i].op /\ queue'[i].id = queue[i].id
            /\ queue'[i].chunk = queue[i].chunk
            /\ queue'[i].client = IF queue[i].client \in C THEN Nobody ELSE queue[i].client
      /\ reader'.id = reader.id /\ reader'.chunk = reader.chunk
      /\ reader'.client = IF reader.client \in C THEN Nobody ELSE reader.client
  BY OrphanEffect DEF TypeOK
<1>2. Nobody \notin Clients
  BY BoundsAssumption
<1>3. ASSUME NEW c \in C PROVE ClientFits(c)'
  BY <1>1, <1>2, SilentClient
<1>4. ASSUME NEW d \in Clients \ C PROVE ClientFits(d)'
  <2>1. \A i \in DOMAIN queue' : queue'[i].client = d =>
           /\ i + 0 \in DOMAIN queue /\ queue[i + 0].client = d
           /\ queue'[i].op = queue[i + 0].op /\ queue'[i].id = queue[i + 0].id
           /\ queue'[i].chunk = queue[i + 0].chunk
    BY <1>1, <1>2
  <2> QED BY <1>1, <1>2, <2>1, SameClient DEF AnswersFit
<1> QED BY <1>3, <1>4 DEF AnswersFit

\* The manager answers client c, if it is not gone: it goes on in phase p.
Told(c) ==
    \/ c = Nobody /\ UNCHANGED clients
    \/ c \in Clients /\ \E p, id, n : /\ Moves(c, p, id, n)
                                      /\ p \in {"idle", "beginning"} => id = 0

\* A command that is answered at once.
LEMMA TakeFits ==
    ASSUME TypeOK, AnswersFit, NEW op, Take(op), reader' = reader,
           NEW c, c = Head(queue).client, Told(c)
    PROVE  AnswersFit'
<1>1. /\ DOMAIN queue' \subseteq Nat \ {0} /\ 1 \in DOMAIN queue /\ c = queue[1].client
      /\ \A i \in DOMAIN queue' : i + 1 \in DOMAIN queue /\ queue'[i] = queue[i + 1]
  BY TakeEffect
<1>2. ASSUME NEW d \in Clients,
             phase'[d] = phase[d] /\ held'[d] = held[d] /\ got'[d] = got[d]
      PROVE  ClientFits(d)'
  BY <1>1, <1>2, SameClient DEF AnswersFit
<1>3. CASE c = Nobody
  BY <1>2, <1>3, BoundsAssumption DEF Told, clients, AnswersFit
<1>4. CASE c \in Clients
  <2>1. PICK p, id, n : Moves(c, p, id, n) /\ (p \in {"idle", "beginning"} => id = 0)
    BY <1>4, BoundsAssumption DEF Told
  <2>2. /\ phase'[c] = p /\ held'[c] = id
        /\ \A d \in Clients \ {c} :
              phase'[d] = phase[d] /\ held'[d] = held[d] /\ got'[d] = got[d]
    BY <1>4, <2>1, MovesEffect DEF TypeOK
  <2>3. /\ reader.client # c
        /\ \A j \in DOMAIN queue : queue[j].client = c => 1 = j
    BY <1>1, <1>4 DEF AnswersFit, ClientFits
  <2>4. \A i \in DOMAIN queue' : queue'[i].client # c
    BY <1>1, <2>3
  <2>5. ClientFits(c)'
    BY <1>4, <2>1, <2>2, <2>3, <2>4, SilentClient
  <2> QED BY <1>2, <2>2, <2>5 DEF AnswersFit
<1> QED BY <1>3, <1>4 DEF Told

\* A read that is over.
LEMMA ReaderFits ==
    ASSUME TypeOK, AnswersFit, reader' = NoRead, queue' = queue,
           NEW c, c = reader.client, Told(c)
    PROVE  AnswersFit'
<1>1. reader'.client = Nobody /\ Nobody \notin Clients /\ DOMAIN queue \subseteq Nat
  BY NoReadFacts, BoundsAssumption DEF TypeOK
<1>2. ASSUME NEW d \in Clients,
             phase'[d] = phase[d] /\ held'[d] = held[d] /\ got'[d] = got[d]
      PROVE  ClientFits(d)'
  <2>1. \A i \in DOMAIN queue : i + 0 = i
    BY <1>1
  <2> QED BY <1>1, <1>2, <2>1, SameClient DEF AnswersFit
<1>3. CASE c = Nobody
  BY <1>1, <1>2, <1>3 DEF Told, clients, AnswersFit
<1>4. CASE c \in Clients
  <2>1. PICK p, id, n : Moves(c, p, id, n) /\ (p \in {"idle", "beginning"} => id = 0)
    BY <1>1, <1>4 DEF Told
  <2>2. /\ phase'[c] = p /\ held'[c] = id
        /\ \A d \in Clients \ {c} :
              phase'[d] = phase[d] /\ held'[d] = held[d] /\ got'[d] = got[d]
    BY <1>4, <2>1, MovesEffect DEF TypeOK
  <2>3. \A i \in DOMAIN queue : queue[i].client # c
    BY <1>4 DEF AnswersFit, ClientFits
  <2>4. ClientFits(c)'
    BY <1>1, <1>4, <2>1, <2>2, <2>3, SilentClient
  <2> QED BY <1>2, <2>2, <2>4 DEF AnswersFit
<1> QED BY <1>3, <1>4 DEF Told

\* Nobody is answered.
LEMMA QuietFits ==
    ASSUME TypeOK, AnswersFit, UNCHANGED clients, queue' \in {queue, <<>>},
           /\ reader'.client = reader.client /\ reader'.id = reader.id
           /\ reader'.chunk = reader.chunk
    PROVE  AnswersFit'
<1>1. DOMAIN queue' \subseteq Nat /\ \A i \in DOMAIN queue' : i + 0 \in DOMAIN queue
      /\ queue'[i] = queue[i + 0]
  BY DEF TypeOK
<1> QED BY <1>1, SameClient DEF AnswersFit, clients

\* Of two questions that a client could have asked, it waits for one.
LEMMA LocalFits ==
    ASSUME TypeOK, AnswersFit, NEW c \in Clients, NEW p,
           phase[c] \notin {"beginning", "reading", "ending"}, p \notin {"idle", "beginning"},
           Moves(c, p, held[c], got[c]), UNCHANGED <<queue, reader>>
    PROVE  AnswersFit'
<1>1. ClientsOK /\ DOMAIN queue \subseteq Nat
  BY DEF TypeOK
<1>2. /\ phase'[c] = p
      /\ \A d \in Clients \ {c} :
            phase'[d] = phase[d] /\ held'[d] = held[d] /\ got'[d] = got[d]
  BY <1>1, MovesEffect
<1>3. ClientFits(c)'
  BY <1>2, FreeClient, SilentClient DEF AnswersFit
<1>4. ASSUME NEW d \in Clients \ {c} PROVE ClientFits(d)'
  <2>1. \A i \in DOMAIN queue : i + 0 = i
    BY <1>1
  <2> QED BY <1>1, <1>2, <2>1, SameClient DEF AnswersFit
<1> QED BY <1>3, <1>4 DEF AnswersFit

--------------------------------------------------------------------------------
\* Then, action by action, that they still fit and what the clients see of it.

Step == [Lending!Next]_(Lending!vars)

LEMMA SameView ==
    ASSUME UNCHANGED <<clients, dump, lastDump, late, mixed>>
    PROVE  Step
BY DEF Step, Lending!vars, View, Seen, clients

LEMMA StayMoves ==
    ASSUME ClientsOK, NEW c \in Clients, NEW p, phase' = [phase EXCEPT ![c] = p],
           UNCHANGED <<held, got>>
    PROVE  Moves(c, p, held[c], got[c])
BY DEF Moves, ClientsOK

LEMMA ClientLends ==
    ASSUME Inductive, AnswersFit, NEW c \in Clients, Client(c) \/ EndCall(c)
    PROVE  AnswersFit' /\ Step
<1> USE DEF lending, history
<1>1. /\ TypeOK /\ ClientsOK /\ UNCHANGED <<dump, lastDump, late, mixed>>
      /\ View[c] = Seen(phase[c], held[c], got[c])
      /\ phase[c] \in {"idle", "beginning"} => held[c] = 0
  BY DEF Inductive, TypeOK, Client, EndCall, Begin, ReadChunk, Finish, Interrupt, Abandon,
     EndCancels, EndSends, View, AnswersFit, ClientFits
<1>2. CASE Begin(c)
  <2>1. /\ phase[c] = "idle" /\ held[c] = 0 /\ Moves(c, "beginning", held[c], got[c])
        /\ Send(c, "begin", 0, 1) /\ reader' = reader
    BY <1>1, <1>2, StayMoves DEF Begin
  <2>2. /\ phase'[c] = "beginning"
        /\ View' = [View EXCEPT ![c] = Seen("beginning", held[c], got[c])]
    BY <1>1, <2>1, MovesEffect
  <2>3. AnswersFit'
    BY <1>1, <2>1, <2>2, SendFits DEF Fits
  <2>4. Lending!Begin(c)
    BY <1>1, <2>1, <2>2 DEF Lending!Begin, Lending!Goes, Lending!Client, Lending!Idle, Seen
  <2> QED BY <2>3, <2>4 DEF Step, Lending!Next
<1>3. CASE ReadChunk(c)
  <2>1. /\ phase[c] = "holding" /\ got[c] < NumChunks
        /\ Moves(c, "reading", held[c], got[c])
        /\ Send(c, "chunk", held[c], got[c] + 1) /\ reader' = reader
    BY <1>1, <1>3, StayMoves DEF ReadChunk
  <2>2. /\ phase'[c] = "reading" /\ held'[c] = held[c] /\ got'[c] = got[c]
        /\ View' = [View EXCEPT ![c] = Seen("reading", held[c], got[c])]
    BY <1>1, <2>1, MovesEffect
  <2>3. AnswersFit'
    BY <1>1, <2>1, <2>2, SendFits DEF Fits
  <2>4. Lending!ReadChunk(c)
    BY <1>1, <2>1, <2>2 DEF Lending!ReadChunk, Lending!Goes, Lending!Client, Seen
  <2> QED BY <2>3, <2>4 DEF Step, Lending!Next
<1>4. CASE EndSends(c)
  <2>1. /\ phase[c] = "sending" /\ Moves(c, "ending", held[c], got[c])
        /\ Send(c, "end", held[c], 1) /\ reader' = reader
    BY <1>1, <1>4, StayMoves DEF EndSends
  <2>2. /\ phase'[c] = "ending" /\ held'[c] = held[c]
        /\ View' = [View EXCEPT ![c] = Seen("ending", held[c], got[c])]
    BY <1>1, <2>1, MovesEffect
  <2>3. AnswersFit'
    BY <1>1, <2>1, <2>2, SendFits DEF Fits
  <2>4. View' = View
    BY <1>1, <2>1, <2>2 DEF Seen, View
  <2> QED BY <1>1, <2>3, <2>4 DEF Step, Lending!vars
<1>5. CASE Finish(c) \/ EndCancels(c)
  <2>1. PICK p \in {"closing", "sending"} :
           /\ \/ p = "closing" /\ phase[c] = "holding"
              \/ p = "sending" /\ phase[c] = "closing"
           /\ Moves(c, p, held[c], got[c]) /\ UNCHANGED <<queue, reader>>
    BY <1>1, <1>5, StayMoves DEF Finish, EndCancels
  <2>2. AnswersFit'
    BY <1>1, <2>1, LocalFits
  <2>3. View' = [View EXCEPT ![c] = Seen("ending", held[c], 0)]
    <3>1. Seen(p, held[c], got[c]) = Seen("ending", held[c], 0)
      BY <2>1 DEF Seen
    <3> QED BY <1>1, <2>1, <3>1, MovesEffect
  <2>4. CASE phase[c] = "holding"
    <3>1. Lending!End(c)
      BY <1>1, <2>3, <2>4 DEF Lending!End, Lending!Goes, Lending!Client, Seen
    <3> QED BY <2>2, <3>1 DEF Step, Lending!Next
  <2>5. CASE phase[c] = "closing"
    <3>1. View' = View
      BY <1>1, <2>3, <2>5 DEF Seen, View
    <3> QED BY <1>1, <2>2, <3>1 DEF Step, Lending!vars
  <2> QED BY <2>1, <2>4, <2>5
<1>6. CASE Interrupt(c)
  <2>1. /\ phase[c] \in {"holding", "reading"} /\ Moves(c, "closing", held[c], got[c])
        /\ Orphan({c})
    BY <1>1, <1>6, StayMoves DEF Interrupt
  <2>2. /\ phase'[c] = "closing"
        /\ \A d \in Clients \ {c} :
              phase'[d] = phase[d] /\ held'[d] = held[d] /\ got'[d] = got[d]
        /\ View' = [View EXCEPT ![c] = Seen("closing", held[c], got[c])]
    BY <1>1, <2>1, MovesEffect
  <2>3. AnswersFit'
    BY <1>1, <2>1, <2>2, OrphanFits
  <2>4. Lending!End(c)
    BY <1>1, <2>1, <2>2 DEF Lending!End, Lending!Goes, Lending!Client, Seen
  <2> QED BY <2>3, <2>4 DEF Step, Lending!Next
<1>7. CASE Abandon(c)
  <2>1. Moves(c, "idle", 0, got[c]) /\ Orphan({c})
    BY <1>1, <1>7 DEF Abandon, Moves, ClientsOK
  <2>2. /\ phase'[c] = "idle" /\ held'[c] = 0
        /\ \A d \in Clients \ {c} :
              phase'[d] = phase[d] /\ held'[d] = held[d] /\ got'[d] = got[d]
        /\ View' = [View EXCEPT ![c] = Seen("idle", 0, got[c])]
    BY <1>1, <2>1, MovesEffect
  <2>3. AnswersFit'
    BY <1>1, <2>1, <2>2, OrphanFits
  <2>4. Lending!Leave({c})
    BY <1>1, <2>2 DEF Lending!Leave, Lending!Client, Lending!Idle, Seen, View
  <2> QED BY <2>3, <2>4 DEF Step, Lending!Next
<1> QED BY <1>2, <1>3, <1>4, <1>5, <1>6, <1>7 DEF Client, EndCall

LEMMA AnswerTells ==
    ASSUME ClientsOK, NEW c \in Clients \union {Nobody}, NEW p, NEW id, NEW n,
           Answer(c, p, id, n), p \in {"idle", "beginning"} => id = 0
    PROVE  Told(c) /\ (c # Nobody => Moves(c, p, id, n))
<1>1. c # Nobody => Moves(c, p, id, n)
  BY DEF Answer, Moves
<1> QED BY <1>1 DEF Told, Answer

\* A client that asked is told; one that is gone is not.
LEMMA CommandFacts ==
    ASSUME Inductive, AnswersFit, NEW op, Take(op)
    PROVE  LET m == Head(queue) IN
           /\ TypeOK /\ ClientsOK /\ m.client \in Clients \union {Nobody} /\ m.op = op
           /\ reader = NoRead /\ UNCHANGED <<late, mixed>>
           /\ m.client # Nobody =>
                 /\ Fits(m.client, op, m.id, m.chunk)
                 /\ phase[m.client] \in {"idle", "beginning"} => held[m.client] = 0
                 /\ View[m.client] = Seen(phase[m.client], held[m.client], got[m.client])
<1> DEFINE m == Head(queue)
<1>1. /\ TypeOK /\ ClientsOK /\ reader = NoRead /\ UNCHANGED <<late, mixed>>
      /\ m \in Message /\ 1 \in DOMAIN queue /\ m = queue[1] /\ m.op = op
  BY TakeEffect DEF Inductive, TypeOK, Take, Selecting, history
<1>2. m.client \in Clients \union {Nobody}
  BY <1>1 DEF Message
<1>3. ASSUME m.client # Nobody
      PROVE  /\ Fits(m.client, op, m.id, m.chunk)
             /\ phase[m.client] \in {"idle", "beginning"} => held[m.client] = 0
  <2>1. ClientFits(m.client)
    BY <1>2, <1>3 DEF AnswersFit
  <2> QED BY <1>1, <2>1 DEF ClientFits
<1>4. m.client # Nobody =>
         View[m.client] = Seen(phase[m.client], held[m.client], got[m.client])
  BY <1>2 DEF View
<1> QED BY <1>1, <1>2, <1>3, <1>4

LEMMA BeginLends ==
    ASSUME Inductive, AnswersFit, BeginHistoryDump PROVE AnswersFit' /\ Step
<1> USE DEF lending
<1>1. PICK c \in Clients \union {Nobody} : c = Head(queue).client
  BY CommandFacts DEF BeginHistoryDump
<1>2. /\ TypeOK /\ ClientsOK /\ Take("begin") /\ reader' = reader
      /\ UNCHANGED <<late, mixed>> /\ lastDump \in Nat
      /\ c # Nobody => /\ phase[c] = "beginning" /\ held[c] = 0
                       /\ View[c] = Seen("beginning", 0, got[c])
  BY <1>1, CommandFacts DEF BeginHistoryDump, Fits, Inductive, TypeOK
<1>3. CASE connected /\ dump = 0
  <2>1. /\ lastDump' = lastDump + 1 /\ dump' = lastDump + 1
        /\ Answer(c, "holding", lastDump + 1, 0)
    BY <1>1, <1>3 DEF BeginHistoryDump
  <2>2. Told(c) /\ (c # Nobody => Moves(c, "holding", lastDump + 1, 0))
    BY <1>2, <2>1, AnswerTells
  <2>3. AnswersFit'
    BY <1>1, <1>2, <2>2, TakeFits
  <2>4. Lending!Lend
    BY <1>2, <1>3, <2>1 DEF Lending!Lend
  <2>5. CASE c = Nobody
    <3>1. View' = View
      BY <2>1, <2>5 DEF Answer, clients, View, Seen
    <3> QED BY <2>3, <2>4, <3>1 DEF Step, Lending!Next, Lending!ForNobody
  <2>6. CASE c # Nobody
    <3>1. View' = [View EXCEPT ![c] = Seen("holding", lastDump + 1, 0)]
      BY <1>2, <2>2, <2>6, MovesEffect
    <3>2. Lending!Grant(c)
      BY <1>2, <2>1, <2>4, <2>6, <3>1
         DEF Lending!Grant, Lending!Goes, Lending!Client, Seen
    <3> QED BY <2>3, <2>6, <3>2 DEF Step, Lending!Next
  <2> QED BY <2>5, <2>6
<1>4. CASE ~(connected /\ dump = 0)
  <2>1. Answer(c, "idle", 0, 0) /\ UNCHANGED <<dump, lastDump>>
    BY <1>1, <1>4 DEF BeginHistoryDump, Fail
  <2>2. Told(c) /\ (c # Nobody => Moves(c, "idle", 0, 0))
    BY <1>2, <2>1, AnswerTells
  <2>3. AnswersFit'
    BY <1>1, <1>2, <2>2, TakeFits
  <2>4. CASE c = Nobody
    BY <1>2, <2>1, <2>3, <2>4, SameView DEF Answer
  <2>5. CASE c # Nobody
    <3>1. View' = [View EXCEPT ![c] = Seen("idle", 0, 0)]
      BY <1>2, <2>2, <2>5, MovesEffect
    <3>2. Lending!Refuse(c)
      BY <1>2, <2>1, <2>5, <3>1
         DEF Lending!Refuse, Lending!Goes, Lending!Client, Lending!Idle, Seen
    <3> QED BY <2>3, <2>5, <3>2 DEF Step, Lending!Next
  <2> QED BY <2>4, <2>5
<1> QED BY <1>3, <1>4

LEMMA EndLends ==
    ASSUME Inductive, AnswersFit, EndHistoryDump PROVE AnswersFit' /\ Step
<1> USE DEF lending
<1> DEFINE m == Head(queue)
<1>1. PICK c \in Clients \union {Nobody} : c = m.client
  BY CommandFacts DEF EndHistoryDump
<1>2. /\ TypeOK /\ ClientsOK /\ Take("end") /\ reader' = reader
      /\ UNCHANGED <<late, mixed, lastDump>> /\ Answer(c, "idle", 0, 0)
      /\ c # Nobody => /\ phase[c] = "ending" /\ held[c] = m.id
                       /\ View[c] = Seen("ending", m.id, got[c])
  BY <1>1, CommandFacts DEF EndHistoryDump, Fits, Fail
<1>3. dump' = (IF dump = m.id THEN 0 ELSE dump)
  BY DEF EndHistoryDump
<1>4. Told(c) /\ (c # Nobody => Moves(c, "idle", 0, 0))
  BY <1>2, AnswerTells
<1>5. AnswersFit'
  BY <1>1, <1>2, <1>4, TakeFits
<1>6. CASE c = Nobody
  <2>1. UNCHANGED clients /\ View' = View
    BY <1>2, <1>6 DEF Answer, clients, View, Seen
  <2>2. CASE dump' = dump
    BY <1>2, <1>5, <2>1, <2>2, SameView
  <2>3. CASE dump' = 0
    <3>1. Lending!Close
      BY <1>2, <2>3 DEF Lending!Close
    <3> QED BY <1>5, <2>1, <3>1 DEF Step, Lending!Next, Lending!ForNobody
  <2> QED BY <1>3, <2>2, <2>3
<1>7. CASE c # Nobody
  <2>1. View' = [View EXCEPT ![c] = Seen("idle", 0, 0)]
    BY <1>2, <1>4, <1>7, MovesEffect
  <2>2. Lending!Ended(c)
    BY <1>2, <1>3, <1>7, <2>1
       DEF Lending!Ended, Lending!Goes, Lending!Client, Lending!Idle, Seen
  <2> QED BY <1>5, <1>7, <2>2 DEF Step, Lending!Next
<1> QED BY <1>6, <1>7

\* A client is told that its chunk could not be read.
LEMMA FailChunkLends ==
    ASSUME ClientsOK, NEW c \in Clients \union {Nobody}, FailChunk(c),
           c # Nobody => phase[c] = "reading" /\ View[c] = Seen("reading", held[c], got[c]),
           dump' \in {dump, 0}, UNCHANGED late \/ late' = TRUE, UNCHANGED <<lastDump, mixed>>,
           dump' = dump \/ late' = late
    PROVE  Told(c) /\ Step
<1>1. /\ Told(c)
      /\ c # Nobody => Moves(c, "closing", held[c], 0)
      /\ c = Nobody => UNCHANGED clients
  BY AnswerTells DEF FailChunk, Answer
<1>2. CASE c = Nobody
  <2>1. View' = View
    BY <1>1, <1>2 DEF View, Seen, clients
  <2>2. CASE dump' = dump /\ late' = late
    BY <1>1, <1>2, <2>2, SameView
  <2>3. CASE dump' = dump /\ late' = TRUE
    <3>1. Lending!Late
      BY <2>1, <2>3 DEF Lending!Late
    <3> QED BY <1>1, <3>1 DEF Step, Lending!Next
  <2>4. CASE dump' = 0 /\ late' = late
    <3>1. Lending!Close
      BY <2>4 DEF Lending!Close
    <3> QED BY <1>1, <2>1, <3>1 DEF Step, Lending!Next, Lending!ForNobody
  <2> QED BY <2>2, <2>3, <2>4
<1>3. CASE c # Nobody
  <2>1. View' = [View EXCEPT ![c] = Seen("closing", held[c], 0)]
    BY <1>1, <1>3, MovesEffect
  <2>2. View[c].at = "reading" /\ View[c].dump = held[c]
    BY <1>3 DEF Seen
  <2>3. Seen("closing", held[c], 0) = Lending!Client("ending", held[c], 0)
    BY DEF Seen, Lending!Client
  <2>4. Lending!Goes(c, Lending!Client("ending", View[c].dump, 0))
    BY <2>1, <2>2, <2>3 DEF Lending!Goes
  <2>5. Lending!End(c)
    BY <2>2, <2>4, Zenon DEF Lending!End
  <2> QED BY <1>1, <1>3, <2>5 DEF Step, Lending!Next
<1> QED BY <1>2, <1>3

LEMMA ChunkLends ==
    ASSUME Inductive, AnswersFit, ReadHistoryDumpChunk PROVE AnswersFit' /\ Step
<1> DEFINE m == Head(queue)
<1>1. PICK c \in Clients \union {Nobody} : c = m.client
  BY CommandFacts DEF ReadHistoryDumpChunk
<1>2. /\ TypeOK /\ ClientsOK /\ Take("chunk") /\ m.op = "chunk" /\ reader = NoRead
      /\ UNCHANGED <<late, mixed, dump, lastDump>>
      /\ c # Nobody => /\ Fits(c, "chunk", m.id, m.chunk) /\ phase[c] = "reading"
                       /\ View[c] = Seen("reading", held[c], got[c])
  BY <1>1, CommandFacts DEF ReadHistoryDumpChunk, Fits
<1>3. CASE dump # 0 /\ dump = m.id
  <2>1. /\ UNCHANGED clients
        /\ reader' = [NoRead EXCEPT !.client = c, !.id = m.id, !.chunk = m.chunk,
                         !.stage = "ask", !.attempt = 1]
    BY <1>1, <1>3 DEF ReadHistoryDumpChunk
  <2>2. reader'.client = c /\ reader'.id = m.id /\ reader'.chunk = m.chunk
    BY <2>1, NoReadFacts DEF Read
  <2>3. /\ DOMAIN queue' \subseteq Nat \ {0} /\ 1 \in DOMAIN queue /\ c = queue[1].client
        /\ \A i \in DOMAIN queue' : i + 1 \in DOMAIN queue /\ queue'[i] = queue[i + 1]
    BY <1>1, <1>2, TakeEffect
  <2>4. ASSUME NEW d \in Clients, d # c PROVE ClientFits(d)'
    BY <2>1, <2>2, <2>3, <2>4, SameClient DEF AnswersFit, clients
  <2>5. ASSUME c \in Clients PROVE ClientFits(c)'
    <3>1. c # Nobody /\ ClientFits(c)
      BY <2>5, BoundsAssumption DEF AnswersFit
    <3>2. \A i \in DOMAIN queue' : queue'[i].client # c
      BY <2>3, <3>1 DEF ClientFits
    <3>3. Fits(c, "chunk", reader.id, reader.chunk)'
      BY <1>2, <2>1, <2>2, <3>1 DEF Fits, clients
    <3>4. phase'[c] \in {"idle", "beginning"} => held'[c] = 0
      BY <2>1, <3>1 DEF ClientFits, clients
    <3> QED BY <3>2, <3>3, <3>4 DEF ClientFits
  <2>6. AnswersFit'
    BY <2>4, <2>5 DEF AnswersFit
  <2> QED BY <1>2, <2>1, <2>6, SameView
<1>4. CASE ~(dump # 0 /\ dump = m.id)
  <2>1. FailChunk(c) /\ reader' = reader
    BY <1>1, <1>4 DEF ReadHistoryDumpChunk
  <2>2. Told(c) /\ Step
    BY <1>2, <2>1, FailChunkLends
  <2> QED BY <1>1, <1>2, <2>1, <2>2, TakeFits
<1> QED BY <1>3, <1>4

\* The client of a read waits for its chunk.
LEMMA ReaderFacts ==
    ASSUME Inductive, AnswersFit, NEW c, c = reader.client
    PROVE  /\ TypeOK /\ ClientsOK /\ c \in Clients \union {Nobody}
           /\ c # Nobody => /\ Fits(c, "chunk", reader.id, reader.chunk)
                            /\ phase[c] = "reading"
                            /\ View[c] = Seen("reading", held[c], got[c])
<1>1. TypeOK /\ ClientsOK /\ c \in Clients \union {Nobody}
  BY DEF Inductive, TypeOK, Read
<1>2. c # Nobody => Fits(c, "chunk", reader.id, reader.chunk) /\ phase[c] = "reading"
  BY <1>1 DEF AnswersFit, ClientFits, Fits
<1> QED BY <1>1, <1>2 DEF View

LEMMA BreakOffLends ==
    ASSUME Inductive, AnswersFit, BreakOff, queue' = queue,
           dump' \in {dump, 0}, UNCHANGED late \/ late' = TRUE, UNCHANGED <<lastDump, mixed>>,
           dump' = dump \/ late' = late
    PROVE  AnswersFit' /\ Step
<1>1. PICK c : c = reader.client
  OBVIOUS
<1>2. FailChunk(c) /\ reader' = NoRead
  BY <1>1 DEF BreakOff, EndRead
<1>3. Told(c) /\ Step
  BY <1>1, <1>2, ReaderFacts, FailChunkLends
<1> QED BY <1>1, <1>2, <1>3, ReaderFits DEF Inductive

LEMMA QuietLends ==
    ASSUME Inductive, AnswersFit, UNCHANGED clients, queue' \in {queue, <<>>},
           /\ reader'.client = reader.client /\ reader'.id = reader.id
           /\ reader'.chunk = reader.chunk,
           UNCHANGED lastDump,
           \/ UNCHANGED <<dump, late, mixed>>
           \/ dump' = 0 /\ UNCHANGED <<late, mixed>>
           \/ late' = TRUE /\ UNCHANGED <<dump, mixed>>
           \/ mixed' \in BOOLEAN /\ (mixed' => late) /\ UNCHANGED <<dump, late>>
    PROVE  AnswersFit' /\ Step
<1>1. AnswersFit'
  BY QuietFits DEF Inductive
<1>2. View' = View
  BY DEF View, Seen, clients
<1>3. CASE UNCHANGED <<dump, late, mixed>>
  BY <1>1, <1>3, SameView
<1>4. CASE dump' = 0 /\ UNCHANGED <<late, mixed>>
  <2>1. Lending!Close
    BY <1>4 DEF Lending!Close
  <2> QED BY <1>1, <1>2, <2>1 DEF Step, Lending!Next, Lending!ForNobody
<1>5. CASE late' = TRUE /\ UNCHANGED <<dump, mixed>>
  <2>1. Lending!Late
    BY <1>2, <1>5 DEF Lending!Late
  <2> QED BY <1>1, <2>1 DEF Step, Lending!Next
<1>6. CASE mixed' \in BOOLEAN /\ (mixed' => late) /\ UNCHANGED <<dump, late>>
  <2>1. Lending!Pages
    BY <1>6 DEF Lending!Pages
  <2> QED BY <1>1, <1>2, <2>1 DEF Step, Lending!Next, Lending!ForNobody
<1> QED BY <1>3, <1>4, <1>5, <1>6

\* The last page of a chunk.
LEMMA GiveLends ==
    ASSUME Inductive, AnswersFit, reader.stage # "none", NEW c, c = reader.client,
           reader' = NoRead, queue' = queue,
           Answer(c, "holding", IF c = Nobody THEN 0 ELSE held[c], reader.chunk),
           mixed' \in BOOLEAN, mixed' => late, UNCHANGED <<dump, lastDump, late>>
    PROVE  AnswersFit' /\ Step
<1>1. /\ TypeOK /\ ClientsOK /\ c \in Clients \union {Nobody}
      /\ c # Nobody => /\ held[c] = reader.id /\ reader.chunk = got[c] + 1
                       /\ View[c] = Seen("reading", held[c], got[c])
  BY ReaderFacts DEF Fits
<1>2. Told(c) /\ (c # Nobody => Moves(c, "holding", held[c], reader.chunk))
  BY <1>1, AnswerTells
<1>3. AnswersFit'
  BY <1>1, <1>2, ReaderFits
<1>4. Lending!Pages
  BY DEF Lending!Pages
<1>5. CASE c = Nobody
  <2>1. View' = View
    BY <1>5 DEF Answer, View, Seen, clients
  <2> QED BY <1>3, <1>4, <2>1 DEF Step, Lending!Next, Lending!ForNobody
<1>6. CASE c # Nobody
  <2>1. View' = [View EXCEPT ![c] = Seen("holding", held[c], got[c] + 1)]
    BY <1>1, <1>2, <1>6, MovesEffect
  <2>2. reader.id = dump
    BY DEF Inductive, ReadsTheDump
  <2>3. View[c].at = "reading" /\ View[c].dump = dump /\ View[c].got = got[c]
    BY <1>1, <1>6, <2>2 DEF Seen
  <2>4. Lending!Goes(c, Lending!Client("holding", dump, View[c].got + 1))
    BY <1>1, <1>6, <2>1, <2>2, <2>3 DEF Lending!Goes, Lending!Client, Seen
  <2>5. Lending!Give(c)
    BY <1>4, <2>3, <2>4, Zenon DEF Lending!Give
  <2> QED BY <1>1, <1>3, <1>6, <2>5 DEF Step, Lending!Next
<1> QED BY <1>5, <1>6

LEMMA PageReadLends ==
    ASSUME Inductive, AnswersFit, PageRead, mixed' => late' PROVE AnswersFit' /\ Step
<1>1. /\ reader \in Read /\ reader.stage # "none"
      /\ UNCHANGED <<queue, dump, lastDump>>
  BY DEF PageRead, Ask, Receive, TimeOut, ReadFails, Retry, Reading, lending, Inductive, TypeOK
<1>2. ASSUME /\ UNCHANGED clients
             /\ \/ reader' = [reader EXCEPT !.stage = "wait", !.taken = <<>>]
                \/ reader' = [reader EXCEPT !.page = @ + 1, !.attempt = 1, !.stage = "ask",
                                 !.taken = <<>>]
                \/ reader' = [reader EXCEPT !.stage = "rest"]
                \/ reader' = [reader EXCEPT !.stage = "ask", !.attempt = @ + 1]
                \/ \E taken : reader' = [reader EXCEPT !.taken = taken],
             \/ UNCHANGED <<late, mixed>>
             \/ late' = TRUE /\ UNCHANGED mixed
             \/ mixed' \in BOOLEAN /\ UNCHANGED late
      PROVE  AnswersFit' /\ Step
  <2>1. /\ reader'.client = reader.client /\ reader'.id = reader.id
        /\ reader'.chunk = reader.chunk
    <3>1. CASE \E taken : reader' = [reader EXCEPT !.taken = taken]
      BY <1>1, <3>1 DEF Read
    <3> QED BY <1>1, <1>2, <3>1, ReadKinds
  <2>2. CASE mixed' \in BOOLEAN /\ UNCHANGED late
    <3>1. mixed' => late
      BY <2>2
    <3> QED BY <1>1, <1>2, <2>1, <2>2, <3>1, QuietLends, Zenon
  <2>3. CASE UNCHANGED <<late, mixed>> \/ (late' = TRUE /\ UNCHANGED mixed)
    BY <1>1, <1>2, <2>1, <2>3, QuietLends, Zenon
  <2> QED BY <1>2, <2>2, <2>3, Zenon
<1>3. CASE Ask
  <2>1. UNCHANGED <<late, mixed>>
    BY <1>3 DEF Ask
  <2>2. CASE BreakOff
    BY <1>1, <2>1, <2>2, BreakOffLends
  <2> QED BY <1>2, <1>3, <2>1, <2>2 DEF Ask
<1>4. CASE Receive
  <2> DEFINE taken == Append(reader.taken, Head(wire))
             m == mixed \/ taken # Expected
  <2>1. late' = late
    BY <1>4 DEF Receive
  <2>2. CASE Len(taken) < 2
    <3>1. reader' = [reader EXCEPT !.taken = taken] /\ UNCHANGED <<clients, mixed>>
      BY <1>4, <2>2 DEF Receive
    <3> QED BY <1>2, <2>1, <3>1
  <2>3. CASE ~(Len(taken) < 2)
    <3>1. mixed' = m /\ m \in BOOLEAN
      BY <1>4, <2>3 DEF Receive
    <3>2. CASE ~LastPage
      <4>1. /\ reader' = [reader EXCEPT !.page = @ + 1, !.attempt = 1, !.stage = "ask",
                             !.taken = <<>>]
            /\ UNCHANGED clients
        BY <1>4, <2>3, <3>2 DEF Receive
      <4> QED BY <1>2, <2>1, <3>1, <4>1
    <3>3. CASE LastPage
      <4>1. PICK c : c = reader.client
        OBVIOUS
      <4>2. /\ reader' = NoRead
            /\ Answer(c, "holding", IF c = Nobody THEN 0 ELSE held[c], reader.chunk)
        BY <1>4, <2>3, <3>3, <4>1 DEF Receive, EndRead
      <4> QED BY <1>1, <2>1, <3>1, <4>1, <4>2, GiveLends
    <3> QED BY <3>2, <3>3
  <2> QED BY <2>2, <2>3
<1>5. CASE TimeOut
  <2>1. UNCHANGED mixed /\ (late' = late \/ late' = TRUE)
    BY <1>5 DEF TimeOut
  <2>2. CASE BreakOff
    BY <1>1, <2>1, <2>2, BreakOffLends
  <2> QED BY <1>2, <1>5, <2>1, <2>2 DEF TimeOut
<1>6. CASE Retry
  <2>1. UNCHANGED <<late, mixed>>
    BY <1>6 DEF Retry
  <2>2. CASE BreakOff
    BY <1>1, <2>1, <2>2, BreakOffLends
  <2> QED BY <1>2, <1>6, <2>1, <2>2 DEF Retry
<1>7. CASE ReadFails
  <2>1. BreakOff /\ UNCHANGED mixed /\ (late' = late \/ late' = TRUE)
    BY <1>7 DEF ReadFails
  <2> QED BY <1>1, <2>1, BreakOffLends
<1> QED BY <1>3, <1>4, <1>5, <1>6, <1>7 DEF PageRead

LEMMA OutsideLends ==
    ASSUME Inductive, AnswersFit,
           Outside \/ ExpireHistoryDump \/ Stop \/ CancelForShutdown \/ QueueShutdown
    PROVE  AnswersFit' /\ Step
<1> USE DEF lending, history
<1>1. CASE DeviceGoes
  <2>1. UNCHANGED <<queue, lastDump, late, mixed>> /\ dump' = 0
    BY <1>1 DEF DeviceGoes
  <2>2. CASE BreakOff
    BY <2>1, <2>2, BreakOffLends
  <2>3. CASE UNCHANGED <<clients, reader>>
    BY <2>1, <2>3, QuietLends
  <2> QED BY <1>1, <2>2, <2>3 DEF DeviceGoes
<1>2. CASE ExpireHistoryDump \/ Stop
  <2>1. /\ UNCHANGED <<clients, lastDump, late, mixed, reader>> /\ dump' = 0
        /\ queue' \in {queue, <<>>}
    BY <1>2 DEF ExpireHistoryDump, Stop
  <2> QED BY <2>1, QuietLends
<1>3. CASE \/ Tick \/ TimerFires \/ Discard \/ DeviceComes
           \/ CancelForShutdown \/ QueueShutdown
  <2>1. UNCHANGED <<clients, lastDump, late, mixed, reader, dump, queue>>
    BY <1>3 DEF Tick, TimerFires, Discard, DeviceComes, CancelForShutdown, QueueShutdown
  <2> QED BY <2>1, QuietLends
<1> QED BY <1>1, <1>2, <1>3 DEF Outside

LEMMA StopServingLends ==
    ASSUME Inductive, AnswersFit, StopServing PROVE AnswersFit' /\ Step
<1>1. /\ TypeOK /\ Orphan(Clients) /\ UNCHANGED <<dump, lastDump, late, mixed>>
      /\ phase' = [c \in Clients |-> "idle"] /\ held' = [c \in Clients |-> 0]
  BY DEF StopServing, Inductive, lending, history
<1>2. AnswersFit'
  BY <1>1, OrphanFits
<1>3. View' = [c \in Clients |-> Lending!Idle]
  BY <1>1 DEF View, Seen, Lending!Idle, Lending!Client
<1>4. Lending!Leave(Clients)
  BY <1>1, <1>3 DEF Lending!Leave
<1> QED BY <1>2, <1>4 DEF Step, Lending!Next

LEMMA NextLends ==
    Inductive /\ AnswersFit /\ [Next]_vars /\ PagesAreTheirOwn' => AnswersFit' /\ Step
<1> SUFFICES ASSUME Inductive, AnswersFit, [Next]_vars, PagesAreTheirOwn'
             PROVE  AnswersFit' /\ Step
  OBVIOUS
<1>1. CASE \E c \in Clients : Client(c) \/ EndCall(c)
  BY <1>1, ClientLends
<1>2. CASE HandleCommand
  BY <1>2, BeginLends, ChunkLends, EndLends DEF HandleCommand
<1>3. CASE PageRead
  BY <1>3, PageReadLends DEF PagesAreTheirOwn
<1>4. CASE ExpireHistoryDump \/ Stop \/ Outside
  BY <1>4, OutsideLends
<1>5. CASE ShutDown
  BY <1>5, OutsideLends, StopServingLends DEF ShutDown
<1>6. CASE UNCHANGED vars
  <2>1. UNCHANGED <<clients, dump, lastDump, late, mixed, queue, reader>>
    BY <1>6 DEF vars, lending, history
  <2> QED BY <2>1, QuietLends
<1> QED BY <1>1, <1>2, <1>3, <1>4, <1>5, <1>6 DEF Next

LEMMA InitLends == Init => AnswersFit /\ Lending!Init
<1> SUFFICES ASSUME Init PROVE AnswersFit /\ Lending!Init
  OBVIOUS
<1>1. AnswersFit
  <2>1. DOMAIN queue = {} /\ reader.client \notin Clients
    BY NoReadFacts, BoundsAssumption DEF Init
  <2>2. \A c \in Clients : held[c] = 0
    BY DEF Init
  <2> QED BY <2>1, <2>2 DEF AnswersFit, ClientFits
<1>2. View = [c \in Clients |-> Lending!Idle]
  BY DEF Init, View, Seen, Lending!Idle, Lending!Client
<1> QED BY <1>1, <1>2 DEF Init, Lending!Init

\* Every client that waits has one question under way, in the queue or in the
\* read, and it is the one that it waits to have answered: no answer reaches the
\* connection that a client makes after it has dropped one (the oneshot of each
\* command, and the new connection of an interrupted download).
THEOREM AnswersFitHolds == Spec => []AnswersFit
<1> QED
  BY InitLends, NextLends, InductiveHolds, PagesAreTheirOwnHolds, PTL DEF Spec

\* Every step of the clients, the manager, its timers and tokens, the page reads
\* and the device is a step or a stutter of a flash that is lent to one client at a
\* time (begin_history_dump, read_history_dump_chunk, end_history_dump).
THEOREM TransferImplementsLending == Spec => ImplementsDumpLending
<1>1. Inductive /\ AnswersFit /\ [Next]_vars /\ PagesAreTheirOwn'
      => [Lending!Next]_(Lending!vars)
  BY NextLends DEF Step
<1> QED
  BY <1>1, InitLends, AnswersFitHolds, InductiveHolds, PagesAreTheirOwnHolds, PTL
     DEF Spec, ImplementsDumpLending, Lending!Spec
================================================================================
