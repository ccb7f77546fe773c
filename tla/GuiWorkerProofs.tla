---------------------------- MODULE GuiWorkerProofs ----------------------------
(***************************************************************************)
(* Proofs about GuiWorker, for any number of reads, operations, faults and *)
(* removals: the inductive invariant Inductive, and what follows from it   *)
(* about what the window shows and about its history reads.                *)
(***************************************************************************)
EXTENDS GuiWorker, TLAPS

--------------------------------------------------------------------------------
\* Sequences: what is left without the first, and with one more.

LEMMA TailFacts ==
    ASSUME NEW S, NEW w \in Seq(S), w # <<>>
    PROVE  /\ Tail(w) \in Seq(S) /\ Len(w) = Len(Tail(w)) + 1 /\ Head(w) = w[1]
           /\ Head(w) \in S /\ 1 \in DOMAIN w
           /\ \A i \in DOMAIN Tail(w) : /\ i \in Nat \ {0} /\ i + 1 \in DOMAIN w
                                        /\ Tail(w)[i] = w[i + 1]
OBVIOUS

LEMMA NothingLeft ==
    ASSUME NEW S, NEW w \in Seq(S), Len(w) = 1
    PROVE  Tail(w) = <<>>
OBVIOUS

LEMMA AppendFacts ==
    ASSUME NEW S, NEW w \in Seq(S), NEW x \in S
    PROVE  /\ Append(w, x) \in Seq(S) /\ Len(Append(w, x)) = Len(w) + 1
           /\ \A i \in DOMAIN Append(w, x) :
                 \/ i \in DOMAIN w /\ i <= Len(w) /\ Append(w, x)[i] = w[i]
                 \/ i = Len(w) + 1 /\ Append(w, x)[i] = x
OBVIOUS

--------------------------------------------------------------------------------
\* What is pending: the line as it is, without its first answer, or none.

\* Answers that are taken, and calls that are made, leave the order of the others.
LEMMA TailOrdered ==
    ASSUME NEW w \in Seq(Call), w # <<>>, Ordered(w)
    PROVE  Ordered(Tail(w))
<1>1. \A i \in DOMAIN Tail(w) : i \in Nat /\ i + 1 \in DOMAIN w /\ Tail(w)[i] = w[i + 1]
  BY TailFacts
<1>2. ASSUME NEW i \in DOMAIN Tail(w), NEW j \in DOMAIN Tail(w), i < j
      PROVE  i + 1 < j + 1
  BY <1>1, <1>2
<1> QED BY <1>1, <1>2 DEF Ordered

LEMMA TailFresh ==
    ASSUME NEW w \in Seq(Call), w # <<>>, Fresh(w)
    PROVE  Fresh(Tail(w))
<1>1. \A i \in DOMAIN Tail(w) : i + 1 \in DOMAIN w /\ Tail(w)[i] = w[i + 1]
  BY TailFacts
<1> QED BY <1>1 DEF Fresh

LEMMA AskedIsCall ==
    ASSUME NEW c \in Calls
    PROVE  Asked(c) \in Call /\ Asked(c).r = "asked" /\ Asked(c).call = c
BY BoundsAssumption DEF Asked, Call, Marks

LEMMA AskedOrdered ==
    ASSUME NEW w \in Seq(Call), NEW c \in Calls, Ordered(w)
    PROVE  Ordered(Append(w, Asked(c)))
<1> DEFINE v == Append(w, Asked(c))
<1>1. Asked(c) \in Call /\ Asked(c).r = "asked"
  BY AskedIsCall
<1>2. \A i \in DOMAIN v : \/ i \in DOMAIN w /\ i <= Len(w) /\ v[i] = w[i]
                          \/ i = Len(w) + 1 /\ v[i].r = "asked"
  BY <1>1, AppendFacts
<1>3. Len(w) \in Nat /\ DOMAIN w = 1..Len(w)
  OBVIOUS
<1> SUFFICES ASSUME NEW i \in DOMAIN v, NEW j \in DOMAIN v, i < j, v[j].r # "asked"
             PROVE  /\ v[i].r # "asked"
                    /\ v[i].r = "ok" /\ v[j].r = "ok" => /\ v[i].of <= v[j].of
                          /\ v[i].of + v[j].session = v[j].of + v[i].session
  BY DEF Ordered
<1>4. j \in DOMAIN w /\ j <= Len(w) /\ v[j] = w[j]
  BY <1>2
<1>5. i \in DOMAIN w /\ v[i] = w[i]
  BY <1>2, <1>3, <1>4
<1> QED BY <1>4, <1>5 DEF Ordered

LEMMA AskedFresh ==
    ASSUME NEW w \in Seq(Call), NEW c \in Calls, Fresh(w)
    PROVE  Fresh(Append(w, Asked(c)))
<1> DEFINE v == Append(w, Asked(c))
<1>1. \A i \in DOMAIN v : (i \in DOMAIN w /\ v[i] = w[i]) \/ v[i].r = "asked"
  BY AskedIsCall, AppendFacts
<1> QED BY <1>1 DEF Fresh

\* The calls that are asked for, over what is pending of the line.
LEMMA AskEffect ==
    ASSUME NEW calls \in Seq(Calls), NEW pending \in Seq(Call), Ask(calls, pending),
           Ordered(pending), \A i \in DOMAIN pending : pending[i].call # "status"
    PROVE  /\ todo' = calls /\ todo' \in Seq(Calls) /\ wire' \in Seq(Call) /\ Ordered(wire')
           /\ \A i \in DOMAIN wire' : wire'[i].call = "status" =>
                 i = Len(wire') /\ calls # <<>> /\ Head(calls) = "status"
           /\ Fresh(pending) => \A i \in DOMAIN wire' :
                 (i \in DOMAIN pending /\ wire'[i] = pending[i]) \/ wire'[i].r = "asked"
<1>1. CASE calls = <<>>
  BY <1>1 DEF Ask
<1>2. CASE calls # <<>>
  <2>1. Head(calls) \in Calls
    BY <1>2
  <2>2. wire' = Append(pending, Asked(Head(calls))) /\ todo' = calls
    BY <1>2 DEF Ask
  <2>3. /\ Asked(Head(calls)) \in Call /\ Asked(Head(calls)).r = "asked"
        /\ Asked(Head(calls)).call = Head(calls)
    BY <2>1, AskedIsCall
  <2>4. Ordered(wire') /\ wire' \in Seq(Call) /\ Len(wire') = Len(pending) + 1
    BY <2>1, <2>2, <2>3, AskedOrdered, AppendFacts
  <2>5. \A i \in DOMAIN wire' :
           \/ i \in DOMAIN pending /\ wire'[i] = pending[i]
           \/ i = Len(pending) + 1 /\ wire'[i] = Asked(Head(calls))
    BY <2>2, <2>3, AppendFacts
  <2> QED BY <1>2, <2>2, <2>3, <2>4, <2>5
<1> QED BY <1>1, <1>2

--------------------------------------------------------------------------------
\* The ways a call of the worker goes on.

\* The line as it is, or what is left of it.
Pending(p) ==
    /\ p \in Seq(Call) /\ Ordered(p) /\ Fresh(p)
    /\ \A i \in DOMAIN p : p[i].call = "status" => todo # <<>> /\ Head(todo) = "status"

LEMMA WireIsPending == Inductive => Pending(wire)
BY DEF Inductive, KindsOK, TypeOK, LineOK, MarksOK, Pending

LEMMA TailIsPending ==
    ASSUME Inductive, wire # <<>>
    PROVE  Pending(Tail(wire)) /\ (Head(wire).call = "status" => Tail(wire) = <<>>)
<1>1. wire \in Seq(Call) /\ Ordered(wire) /\ Fresh(wire)
      /\ \A i \in DOMAIN wire : wire[i].call = "status" =>
            i = Len(wire) /\ todo # <<>> /\ Head(todo) = "status"
  BY DEF Inductive, KindsOK, TypeOK, LineOK, MarksOK
<1>2. Tail(wire) \in Seq(Call) /\ Len(wire) = Len(Tail(wire)) + 1 /\ Head(wire) = wire[1]
      /\ 1 \in DOMAIN wire
      /\ \A i \in DOMAIN Tail(wire) : i + 1 \in DOMAIN wire /\ Tail(wire)[i] = wire[i + 1]
  BY <1>1, TailFacts
<1>3. Ordered(Tail(wire)) /\ Fresh(Tail(wire))
  BY <1>1, TailOrdered, TailFresh
<1>4. ASSUME Head(wire).call = "status" PROVE Tail(wire) = <<>>
  <2>1. Len(wire) = 1
    BY <1>1, <1>2, <1>4
  <2> QED BY <1>1, <2>1, NothingLeft
<1> QED BY <1>1, <1>2, <1>3, <1>4 DEF Pending

\* What a step of the worker's calls leaves alone.
CallFrame ==
    /\ mode = "running" /\ UNCHANGED <<daemon, mode, hurried, reads, moves>>
    /\ operations' \in 0..MaxCommands /\ upsets' \in 0..MaxUpsets

\* The next call is made, and a thing may be kept that is not older than the session.
LEMMA GoStep ==
    ASSUME Inductive, CallFrame, NEW p, Pending(p), NEW calls \in Seq(Calls), Ask(calls, p),
           \A i \in DOMAIN p : p[i].call # "status",
           \/ link # 0 /\ link' = link
           \/ link = 0 /\ p = <<>> /\ link' = process,
           UNCHANGED <<sessionId, seen, history>>,
           \/ kept' = kept
           \/ \E x \in Things, of \in Marks : /\ kept' = [kept EXCEPT ![x] = of]
                                              /\ sessionId # {} => of >= seen
    PROVE  Inductive'
<1> USE DEF daemon, history
<1>1. p \in Seq(Call) /\ Ordered(p) /\ Fresh(p)
  BY DEF Pending
<1>2. /\ todo' = calls /\ wire' \in Seq(Call) /\ Ordered(wire')
      /\ \A i \in DOMAIN wire' : wire'[i].call = "status" =>
            i = Len(wire') /\ calls # <<>> /\ Head(calls) = "status"
      /\ \A i \in DOMAIN wire' :
            (i \in DOMAIN p /\ wire'[i] = p[i]) \/ wire'[i].r = "asked"
  BY <1>1, AskEffect
<1>3. link \in Marks /\ process \in Marks /\ link' \in Marks /\ process > 0
      /\ link <= process /\ link' <= process /\ link' # 0
  BY BoundsAssumption DEF Inductive, KindsOK, TypeOK, LineOK, Marks
<1>4. kept' \in [Things -> Marks]
  BY DEF Inductive, KindsOK, TypeOK
<1>5. TypeOK'
  BY <1>2, <1>3, <1>4 DEF Inductive, KindsOK, TypeOK, CallFrame
<1>6. KindsOK'
  BY <1>5 DEF Inductive, KindsOK, CallFrame
<1>7. ReadsOK'
  BY DEF Inductive, ReadsOK, CallFrame
<1>8. LineOK'
  BY <1>2, <1>3 DEF Inductive, LineOK, CallFrame, Ordered
<1>9. Fresh(wire)'
  <2>1. CASE link # 0 /\ link' = link
    BY <1>1, <1>2, <2>1 DEF Fresh, CallFrame
  <2>2. CASE p = <<>>
    <3>1. \A i \in DOMAIN wire' : wire'[i].r = "asked"
      BY <1>2, <2>2
    <3> QED BY <3>1 DEF Fresh
  <2> QED BY <2>1, <2>2
<1>10. link' = process' => \A n \in sessionId' : seen' + session' = mark' + n
  BY DEF Inductive, MarksOK, LineOK, CallFrame
<1>11. MarksOK'
  BY <1>9, <1>10 DEF Inductive, MarksOK, CallFrame
<1>12. CurrentDataOnly'
  BY DEF Inductive, CurrentDataOnly, KindsOK, TypeOK
<1>13. DrainedReadIsWhole'
  BY DEF CallFrame, DrainedReadIsWhole
<1> QED BY <1>6, <1>7, <1>8, <1>11, <1>12, <1>13 DEF Inductive

\* Task u is task t, with its flag set if it carries out the read.
Flagged(u, t, read) ==
    /\ u = (IF t.read = read THEN [t EXCEPT !.cancelled = TRUE] ELSE t)
    /\ u.read = t.read /\ u.stage = t.stage /\ u.got = t.got /\ u.of = t.of
    /\ u.ending = t.ending
    /\ t.cancelled \/ t.read = read => u.cancelled

\* Cancelling sets the flag of a read's task and nothing else.
LEMMA CancelledEffect ==
    ASSUME tasks \subseteq Task, NEW read
    PROVE  /\ Cancelled(read) \subseteq Task
           /\ \A u \in Cancelled(read) : \E t \in tasks : Flagged(u, t, read)
<1>1. ASSUME NEW t \in tasks, NEW u,
             u = (IF t.read = read THEN [t EXCEPT !.cancelled = TRUE] ELSE t)
      PROVE  u \in Task /\ Flagged(u, t, read)
  <2>1. t \in Task
    OBVIOUS
  <2>2. CASE t.read = read
    BY <1>1, <2>1, <2>2 DEF Task, Flagged
  <2>3. CASE t.read # read
    BY <1>1, <2>1, <2>3 DEF Flagged
  <2> QED BY <2>2, <2>3
<1>2. ASSUME NEW u \in Cancelled(read)
      PROVE  \E t \in tasks : u = (IF t.read = read THEN [t EXCEPT !.cancelled = TRUE] ELSE t)
  BY DEF Cancelled
<1> QED BY <1>1, <1>2

\* The read that is in hand is cancelled, and with it nothing goes on by itself.
LEMMA CancelStep ==
    ASSUME KindsOK, ReadsOK, mode # "ended", tasks' = Cancelled(reading),
           UNCHANGED <<reads, results>>, wanted' \in {0, wanted}, reading' \in {0, wanted'},
           mode' = "draining" => reading' # 0
    PROVE  /\ ReadsOK' /\ tasks' \subseteq Task
           /\ \A u \in tasks' : \E t \in tasks : Flagged(u, t, reading)
           /\ \A u \in tasks' : u.stage = "chunk" => u.got < NumChunks
<1>1. tasks' \subseteq Task /\ \A u \in tasks' : \E t \in tasks : Flagged(u, t, reading)
  BY CancelledEffect DEF KindsOK, TypeOK
<1>2. \A u \in tasks' : u.stage = "chunk" => u.got < NumChunks
  BY <1>1 DEF KindsOK, Flagged
<1>3. \A u \in tasks' : u.cancelled
  <2> SUFFICES ASSUME NEW u \in tasks' PROVE u.cancelled
    OBVIOUS
  <2>1. PICK t \in tasks : Flagged(u, t, reading)
    BY <1>1
  <2>2. t.cancelled \/ t.read = reading
    BY DEF ReadsOK
  <2> QED BY <2>1, <2>2 DEF Flagged
<1>4. ASSUME NEW u \in tasks', NEW v \in tasks', u.read = v.read PROVE u = v
  <2>1. PICK t \in tasks : Flagged(u, t, reading)
    BY <1>1
  <2>2. PICK s \in tasks : Flagged(v, s, reading)
    BY <1>1
  <2>3. t = s
    BY <1>4, <2>1, <2>2 DEF ReadsOK, Flagged
  <2> QED BY <2>1, <2>2, <2>3 DEF Flagged
<1>5. \A u \in tasks' : \E t \in tasks : u.read = t.read
  BY <1>1 DEF Flagged
<1>6. \A u \in tasks' : u.read <= reads'
  BY <1>5 DEF ReadsOK
<1>7. \A i \in DOMAIN results' : /\ results'[i].read <= reads'
                                 /\ \A u \in tasks' : results'[i].read # u.read
  BY <1>5 DEF ReadsOK
<1>8. reading' \in {0, wanted'} /\ wanted' <= reads'
  BY DEF ReadsOK, KindsOK, TypeOK
<1>9. ReadsOK'
  BY <1>3, <1>4, <1>6, <1>7, <1>8 DEF ReadsOK
<1> QED BY <1>1, <1>2, <1>9

\* The connection is given up: nothing is shown as present any more.
LEMMA FailStep == ASSUME Inductive, CallFrame, ConnectionFailed PROVE Inductive'
<1> USE DEF daemon
<1>1. /\ todo' = <<>> /\ link' = 0 /\ wire' = <<>> /\ sessionId' = {}
      /\ wanted' = 0 /\ tasks' = Cancelled(reading) /\ reading' = 0
      /\ UNCHANGED <<results, seen, kept>>
  BY DEF ConnectionFailed, InvalidateHistoryTask
<1>2. mode = "running" /\ mode' = mode /\ reads' = reads
  BY DEF CallFrame
<1>3. /\ ReadsOK' /\ tasks' \subseteq Task
      /\ \A u \in tasks' : u.stage = "chunk" => u.got < NumChunks
  <2>1. /\ KindsOK /\ ReadsOK /\ mode # "ended" /\ UNCHANGED <<reads, results>>
        /\ wanted' \in {0, wanted} /\ reading' \in {0, wanted'}
        /\ mode' = "draining" => reading' # 0
    BY <1>1, <1>2 DEF Inductive
  <2> QED BY <1>1, <2>1, CancelStep
<1>4. TypeOK'
  <2>1. 0 \in Marks /\ <<>> \in Seq(Calls) /\ <<>> \in Seq(Call)
    BY BoundsAssumption DEF Marks
  <2>2. /\ {process', session', mark', link', seen'} \subseteq Marks
        /\ {dump', reading', wanted'} \subseteq {0} \union Reads
    BY <1>1, <2>1 DEF Inductive, KindsOK, TypeOK, CallFrame
  <2> QED BY <1>1, <1>2, <1>3, <2>1, <2>2 DEF Inductive, KindsOK, TypeOK, CallFrame
<1>5. KindsOK'
  BY <1>3, <1>4 DEF Inductive, KindsOK, CallFrame
<1>6. LineOK' /\ MarksOK' /\ CurrentDataOnly'
  BY <1>1, BoundsAssumption DEF Inductive, KindsOK, TypeOK, LineOK, MarksOK, CallFrame,
     CurrentDataOnly, Ordered, Fresh, Marks
<1>7. DrainedReadIsWhole'
  BY <1>2 DEF DrainedReadIsWhole
<1> QED BY <1>3, <1>5, <1>6, <1>7 DEF Inductive

\* What a refresh asks for is calls.
LEMMA LoadIsCalls == ASSUME NEW a, NEW k PROVE Load(a, k) \in Seq(Calls)
<1>1. /\ <<>> \in Seq(Calls) /\ <<"info">> \in Seq(Calls)
      /\ <<"configuration">> \in Seq(Calls) /\ <<"telemetry">> \in Seq(Calls)
  BY DEF Calls
<1>2. \A u, v, w \in Seq(Calls) : (u \o v) \o w \in Seq(Calls)
  OBVIOUS
<1> DEFINE u == IF k["info"] = 0 THEN <<"info">> ELSE <<>>
           v == IF k["configuration"] = 0 THEN <<"configuration">> ELSE <<>>
<1>3. u \in Seq(Calls) /\ v \in Seq(Calls)
  BY <1>1
<1>4. (u \o v) \o <<"telemetry">> \in Seq(Calls)
  BY <1>1, <1>2, <1>3
<1>5. Load(a, k) = (IF ~a.ready THEN <<>> ELSE (u \o v) \o <<"telemetry">>)
  BY DEF Load
<1> QED BY <1>1, <1>4, <1>5

\* The status that is taken is the last answer of its connection: whichever session it
\* is of, the view becomes one of that session.
LEMMA StatusStep ==
    ASSUME Inductive, CallFrame, wire # <<>>, Head(wire).r = "ok",
           Head(wire).call = "status", todo # <<>>, StatusTaken(Head(wire), Tail(wire))
    PROVE  Inductive'
<1> USE DEF daemon, history
<1> DEFINE a == Head(wire)
<1>1. /\ wire \in Seq(Call) /\ todo \in Seq(Calls) /\ 1 \in DOMAIN wire /\ a = wire[1]
      /\ a \in Call /\ Tail(wire) = <<>> /\ link # 0
  <2>1. wire \in Seq(Call) /\ todo \in Seq(Calls) /\ (link = 0 => wire = <<>>)
    BY DEF Inductive, KindsOK, TypeOK, LineOK
  <2> QED BY <2>1, TailFacts, TailIsPending
<1>2. /\ a.of \in Marks /\ a.session \in Marks /\ a.of <= mark
      /\ link = process => a.of + session = mark + a.session
      /\ \A n \in sessionId : seen <= a.of /\ seen + a.session = a.of + n
  BY <1>1 DEF Call, Inductive, MarksOK, Fresh
<1>3. mode = "running" /\ mode' = mode /\ reads' = reads /\ link' = link /\ seen' = a.of
  BY DEF CallFrame, StatusTaken
<1>4. Tail(todo) \in Seq(Calls) /\ <<>> \in Seq(Call) /\ Ordered(<<>>)
  BY <1>1 DEF Ordered
<1>5. ASSUME NEW calls \in Seq(Calls), Ask(calls, <<>>)
      PROVE  /\ todo' = calls /\ wire' \in Seq(Call) /\ Ordered(wire)'
             /\ \A i \in DOMAIN wire' : wire'[i].r = "asked"
             /\ \A i \in DOMAIN wire' : wire'[i].call = "status" =>
                   i = Len(wire') /\ todo' # <<>> /\ Head(todo') = "status"
  <2>1. \A i \in DOMAIN <<>> : <<>>[i].call # "status"
    OBVIOUS
  <2>2. /\ todo' = calls /\ wire' \in Seq(Call) /\ Ordered(wire')
        /\ \A i \in DOMAIN wire' : wire'[i].call = "status" =>
              i = Len(wire') /\ calls # <<>> /\ Head(calls) = "status"
    BY <1>4, <1>5, <2>1, AskEffect
  <2>3. \A i \in DOMAIN wire' : wire'[i].r = "asked"
    <3>1. CASE calls = <<>>
      BY <1>5, <3>1 DEF Ask
    <3>2. CASE calls # <<>>
      <4>1. wire' = Append(<<>>, Asked(Head(calls))) /\ Head(calls) \in Calls
        BY <1>5, <3>2 DEF Ask
      <4>2. wire' = <<Asked(Head(calls))>> /\ Asked(Head(calls)).r = "asked"
        BY <4>1, AskedIsCall
      <4> QED BY <4>2
    <3> QED BY <3>1, <3>2
  <2> QED BY <2>2, <2>3 DEF Ordered
<1>6. PICK calls \in Seq(Calls) : Ask(calls, <<>>)
  <2>1. /\ Load(a, kept) \o Tail(todo) \in Seq(Calls)
        /\ Load(a, Nothing) \o Tail(todo) \in Seq(Calls)
    BY <1>4, LoadIsCalls
  <2> QED BY <1>1, <2>1 DEF StatusTaken
<1>7. /\ wire' \in Seq(Call) /\ todo' \in Seq(Calls) /\ Ordered(wire)' /\ Fresh(wire)'
      /\ \A i \in DOMAIN wire' : wire'[i].call = "status" =>
            i = Len(wire') /\ todo' # <<>> /\ Head(todo') = "status"
  BY <1>5, <1>6 DEF Fresh
<1>8. LineOK'
  BY <1>1, <1>3, <1>7 DEF Inductive, LineOK, CallFrame
<1>9. DrainedReadIsWhole'
  BY <1>3 DEF DrainedReadIsWhole
<1>10. CASE sessionId = {a.session}
  <2>1. UNCHANGED <<sessionId, kept, reading, wanted, tasks, results>> /\ a.of = seen
    <3>1. seen \in Nat /\ a.of \in Nat /\ a.session \in Nat
      BY <1>2, BoundsAssumption DEF Inductive, KindsOK, TypeOK, Marks
    <3> QED BY <1>2, <1>10, <3>1 DEF StatusTaken
  <2>2. KindsOK'
    BY <1>2, <1>3, <1>7, <2>1 DEF Inductive, KindsOK, TypeOK, CallFrame
  <2>3. ReadsOK'
    BY <1>3, <2>1 DEF Inductive, ReadsOK
  <2>4. MarksOK' /\ CurrentDataOnly'
    BY <1>3, <1>7, <2>1 DEF Inductive, MarksOK, CallFrame, CurrentDataOnly
  <2> QED BY <1>8, <1>9, <2>2, <2>3, <2>4 DEF Inductive
<1>11. CASE sessionId # {a.session}
  <2>1. /\ sessionId' = {a.session} /\ kept' = Nothing /\ wanted' = 0 /\ reading' = 0
        /\ tasks' = Cancelled(reading) /\ results' = results
    BY <1>11 DEF StatusTaken, InvalidateHistoryTask
  <2>2. /\ ReadsOK' /\ tasks' \subseteq Task
        /\ \A u \in tasks' : u.stage = "chunk" => u.got < NumChunks
    <3>1. /\ KindsOK /\ ReadsOK /\ mode # "ended" /\ UNCHANGED <<reads, results>>
          /\ wanted' \in {0, wanted} /\ reading' \in {0, wanted'}
          /\ mode' = "draining" => reading' # 0
      BY <1>3, <2>1 DEF Inductive
    <3> QED BY <2>1, <3>1, CancelStep
  <2>3. kept' \in [Things -> Marks] /\ \A x \in Things : kept'[x] = 0
    BY <2>1, BoundsAssumption DEF Nothing, Marks
  <2>4. KindsOK'
    BY <1>2, <1>3, <1>7, <2>1, <2>2, <2>3 DEF Inductive, KindsOK, TypeOK, CallFrame
  <2>5. (\A t \in tasks : t.read \in Reads) /\ \A i \in DOMAIN results : results[i].read \in Reads
    <3>1. tasks \subseteq Task /\ results \in Seq(Result)
      BY DEF Inductive, KindsOK, TypeOK
    <3>2. \A i \in DOMAIN results : results[i] \in Result
      BY <3>1
    <3> QED BY <3>1, <3>2 DEF Task, Result
  <2>6. (\A t \in tasks' : t.read # 0) /\ \A i \in DOMAIN results' : results'[i].read # 0
    BY <2>1, <2>2, <2>5 DEF Task, Reads
  <2>7. MarksOK'
    BY <1>2, <1>3, <1>7, <2>1, <2>6 DEF MarksOK, CallFrame
  <2>8. CurrentDataOnly'
    BY <2>3 DEF CurrentDataOnly
  <2> QED BY <1>8, <1>9, <2>2, <2>4, <2>7, <2>8 DEF Inductive
<1> QED BY <1>10, <1>11

--------------------------------------------------------------------------------
\* The worker's steps.

LEMMA CallsAreCalls ==
    ASSUME Inductive
    PROVE  /\ <<>> \in Seq(Calls)
           /\ todo # <<>> => Tail(todo) \in Seq(Calls) /\ Head(todo) \in Calls /\ link # 0
<1>1. todo \in Seq(Calls) /\ (link = 0 => todo = <<>>)
  BY DEF Inductive, KindsOK, TypeOK, LineOK
<1> QED BY <1>1, TailFacts

\* A call that was not answered as it should have been.
LEMMA LostStep ==
    ASSUME Inductive, CallFrame, todo # <<>>, NEW p, Pending(p), Lost(p)
    PROVE  Inductive'
<1>1. CASE Disconnects(Head(todo))
  BY <1>1, FailStep DEF Lost
<1>2. CASE ~Disconnects(Head(todo))
  <2>1. Head(todo) # "status" /\ Go(Tail(todo), p)
    BY <1>2 DEF Lost, Disconnects
  <2>2. /\ \A i \in DOMAIN p : p[i].call # "status"
        /\ Tail(todo) \in Seq(Calls) /\ link # 0
    BY <2>1, CallsAreCalls DEF Pending
  <2> QED BY <2>1, <2>2, GoStep DEF Go, view
<1> QED BY <1>1, <1>2

\* An answer of the right type, whether or not it is that of the call that waits.
LEMMA SucceededStep ==
    ASSUME Inductive, CallFrame, todo # <<>>, wire # <<>>, Head(wire).r = "ok",
           Type(Head(wire).call) = Type(Head(todo)), Succeeded(Head(wire), Tail(wire))
    PROVE  Inductive'
<1> DEFINE a == Head(wire)
           call == Head(todo)
           p == Tail(wire)
<1>1. /\ Pending(p) /\ <<>> \in Seq(Calls) /\ Tail(todo) \in Seq(Calls) /\ link # 0
  BY CallsAreCalls, TailIsPending
<1>2. a.of \in Marks /\ (sessionId # {} => a.of >= seen)
  <2>1. wire \in Seq(Call) /\ Fresh(wire) /\ seen \in Marks
        /\ sessionId \in {{}} \union {{n} : n \in Marks}
    BY DEF Inductive, KindsOK, TypeOK, MarksOK
  <2>2. 1 \in DOMAIN wire /\ a = wire[1] /\ a \in Call
    BY <2>1, TailFacts
  <2>3. \A n \in sessionId : seen <= a.of
    BY <2>1, <2>2 DEF Fresh
  <2>4. a.of \in Marks
    BY <2>2 DEF Call
  <2> QED BY <2>1, <2>3, <2>4, BoundsAssumption DEF Marks
<1>3. CASE call = "status"
  <2>1. a.call = "status"
    BY <1>3 DEF Type
  <2>2. StatusTaken(a, p)
    BY <1>3 DEF Succeeded
  <2> QED BY <2>1, <2>2, StatusStep
<1>4. CASE call # "status"
  <2>1. \A i \in DOMAIN p : p[i].call # "status"
    BY <1>1, <1>4 DEF Pending
  <2>2. CASE \E rest \in {<<>>, Tail(todo)} : Go(rest, p)
    BY <1>1, <2>1, <2>2, GoStep DEF Go, view
  <2>3. CASE \E x \in Things, rest \in {<<>>, Tail(todo)} : Keep(x, a.of, rest, p)
    <3>1. PICK x \in Things, rest \in {<<>>, Tail(todo)} : Keep(x, a.of, rest, p)
      BY <2>3
    <3>2. /\ Ask(rest, p) /\ kept' = [kept EXCEPT ![x] = a.of] /\ rest \in Seq(Calls)
          /\ UNCHANGED <<link, sessionId, seen, history>>
      BY <1>1, <3>1 DEF Keep
    <3>3. \E y \in Things, of \in Marks : /\ kept' = [kept EXCEPT ![y] = of]
                                          /\ sessionId # {} => of >= seen
      BY <1>2, <3>2
    <3> QED BY <1>1, <2>1, <3>2, <3>3, GoStep
  <2>4. \/ \E rest \in {<<>>, Tail(todo)} : Go(rest, p)
        \/ \E x \in Things, rest \in {<<>>, Tail(todo)} : Keep(x, a.of, rest, p)
    <3>1. CASE call \in {"info", "configuration", "theme"}
      BY <3>1 DEF Succeeded, Things
    <3>2. CASE call \in {"apply", "configure"}
      BY <3>2 DEF Succeeded, Things
    <3>3. CASE call = "poll"
      BY <3>3 DEF Succeeded
    <3>4. CASE call \notin {"status", "info", "configuration", "theme", "apply", "configure",
                            "poll"}
      BY <3>4 DEF Succeeded
    <3> QED BY <1>4, <3>1, <3>2, <3>3, <3>4
  <2> QED BY <2>2, <2>3, <2>4
<1> QED BY <1>3, <1>4

LEMMA ReceiveStep == ASSUME Inductive, Receive PROVE Inductive'
<1> DEFINE a == Head(wire)
           p == Tail(wire)
<1>1. /\ mode = "running" /\ todo # <<>> /\ wire # <<>>
      /\ UNCHANGED <<daemon, mode, hurried, bounds>>
  BY DEF Receive, Waiting
<1>2. CallFrame
  BY <1>1 DEF CallFrame, bounds, Inductive, KindsOK, TypeOK
<1>3. Pending(p) /\ <<>> \in Seq(Calls) /\ Tail(todo) \in Seq(Calls) /\ link # 0
  BY <1>1, CallsAreCalls, TailIsPending
<1>4. CASE a.r = "refused"
  <2>1. Refused(a, p)
    BY <1>4 DEF Receive
  <2>2. CASE ConnectionFailed
    BY <1>2, <2>2, FailStep
  <2>3. CASE Head(todo) # "status" /\ \E rest \in {<<>>, Tail(todo)} : Go(rest, p)
    <3>1. \A i \in DOMAIN p : p[i].call # "status"
      BY <1>3, <2>3 DEF Pending
    <3> QED BY <1>2, <1>3, <2>3, <3>1, GoStep DEF Go, view
  <2> QED BY <2>1, <2>2, <2>3 DEF Refused
<1>5. CASE a.r = "ok" /\ Type(a.call) = Type(Head(todo))
  <2>1. Succeeded(a, p)
    BY <1>5 DEF Receive
  <2> QED BY <1>1, <1>2, <1>5, <2>1, SucceededStep
<1>6. CASE a.r # "refused" /\ ~(a.r = "ok" /\ Type(a.call) = Type(Head(todo)))
  <2>1. Lost(p)
    BY <1>6 DEF Receive
  <2> QED BY <1>1, <1>2, <1>3, <2>1, LostStep
<1> QED BY <1>4, <1>5, <1>6

LEMMA UpsetIsBounded ==
    ASSUME Inductive, Upset \/ UNCHANGED upsets
    PROVE  upsets' \in 0..MaxUpsets
BY BoundsAssumption DEF Upset, Inductive, KindsOK, TypeOK

LEMMA GiveUpStep == ASSUME Inductive, GiveUp PROVE Inductive'
<1>1. /\ mode = "running" /\ todo # <<>> /\ Lost(wire) /\ (Upset \/ UNCHANGED upsets)
      /\ UNCHANGED <<daemon, mode, hurried, reads, operations, moves>>
  BY DEF GiveUp, Waiting
<1>2. CallFrame
  BY <1>1, UpsetIsBounded DEF CallFrame, Inductive, KindsOK, TypeOK
<1> QED BY <1>1, <1>2, WireIsPending, LostStep

\* A refresh or an operation begins: nothing is in hand.
LEMMA RefreshStep ==
    ASSUME Inductive, todo = <<>>, NEW calls \in Seq(Calls), Refresh(calls), mode = "running",
           UNCHANGED <<daemon, mode, hurried, reads, moves>>, operations' \in 0..MaxCommands
    PROVE  Inductive'
<1>1. CallFrame
  BY UpsetIsBounded DEF Refresh, CallFrame
<1>2. Pending(wire) /\ \A i \in DOMAIN wire : wire[i].call # "status"
  BY WireIsPending DEF Pending
<1>3. Pending(<<>>)
  BY DEF Pending, Ordered, Fresh
<1>4. CASE link # 0 /\ Go(calls, wire)
  BY <1>1, <1>2, <1>4, GoStep DEF Go, view
<1>5. CASE link = 0 /\ link' = process /\ Ask(calls, <<>>) /\ UNCHANGED <<view, history>>
  <2>1. \A i \in DOMAIN <<>> : <<>>[i].call # "status"
    OBVIOUS
  <2> QED BY <1>1, <1>3, <1>5, <2>1, GoStep DEF view
<1>6. CASE ConnectionFailed
  BY <1>1, <1>6, FailStep
<1> QED BY <1>4, <1>5, <1>6 DEF Refresh

LEMMA OperationCounts ==
    ASSUME Inductive, Command
    PROVE  mode = "running" /\ todo = <<>> /\ operations' \in 0..MaxCommands
BY BoundsAssumption DEF Command, Idle, Inductive, KindsOK, TypeOK

LEMMA RefreshesStep == ASSUME Inductive, Tick \/ RefreshAll PROVE Inductive'
<1>1. <<"status">> \in Seq(Calls) /\ <<"status", "info", "configuration">> \in Seq(Calls)
  BY DEF Calls
<1>2. CASE Tick
  <2>1. mode = "running" /\ todo = <<>> /\ operations' \in 0..MaxCommands
    BY <1>2 DEF Tick, Idle, Inductive, KindsOK, TypeOK
  <2> QED BY <1>1, <1>2, <2>1, RefreshStep DEF Tick
<1>3. CASE RefreshAll
  BY <1>1, <1>3, OperationCounts, RefreshStep DEF RefreshAll
<1> QED BY <1>2, <1>3

LEMMA OperationStep == ASSUME Inductive, Operation PROVE Inductive'
<1>1. /\ mode = "running" /\ todo = <<>> /\ operations' \in 0..MaxCommands
      /\ UNCHANGED <<daemon, mode, hurried, reads, upsets, moves>>
  BY OperationCounts DEF Operation
<1>2. CallFrame
  BY <1>1 DEF CallFrame, Inductive, KindsOK, TypeOK
<1>3. PICK calls \in Seq(Calls) : Operate(calls)
  <2>1. /\ \A call \in Single : <<call>> \in Seq(Calls)
        /\ <<"poll">> \in Seq(Calls) /\ <<"apply">> \in Seq(Calls)
        /\ <<"poll", "apply", "rollback">> \in Seq(Calls)
    BY DEF Calls
  <2> QED BY <2>1 DEF Operation
<1>4. Pending(wire) /\ \A i \in DOMAIN wire : wire[i].call # "status"
  BY <1>1, WireIsPending DEF Pending
<1>5. CASE link = 0
  BY <1>2, <1>3, <1>5, FailStep DEF Operate
<1>6. CASE link # 0
  BY <1>2, <1>3, <1>4, <1>6, GoStep DEF Operate, Go, view
<1> QED BY <1>5, <1>6

--------------------------------------------------------------------------------
\* The daemon's steps.

\* The calls before the one that is answered are answered, the ones after it are not.
LEMMA ServeStep == ASSUME Inductive, Serve PROVE Inductive'
<1> USE DEF daemon, view, history
<1>1. /\ link = process /\ mode # "ended" /\ (Upset \/ UNCHANGED upsets)
      /\ UNCHANGED <<daemon, mode, todo, link, view, history, hurried, reads, operations,
                     moves>>
  BY DEF Serve
<1>2. wire \in Seq(Call) /\ attached \in BOOLEAN /\ mark \in Marks /\ session \in Marks
  BY DEF Inductive, KindsOK, TypeOK
<1>3. PICK i \in DOMAIN wire, a \in Call :
         /\ wire[i].r = "asked" /\ \A j \in 1..(i - 1) : wire[j].r # "asked"
         /\ wire' = [wire EXCEPT ![i] = a] /\ a.call = wire[i].call /\ a.r # "asked"
         /\ a.r = "ok" => a.of = mark /\ a.session = session
  <2>1. PICK i \in DOMAIN wire :
           /\ wire[i].r = "asked" /\ \A j \in 1..(i - 1) : wire[j].r # "asked"
           /\ \/ wire' = [wire EXCEPT ![i] = [call |-> @.call, r |-> "ok", of |-> mark,
                                              session |-> session, ready |-> attached]]
              \/ wire' = [wire EXCEPT ![i].r = "refused"]
    BY DEF Serve
  <2>2. wire[i] \in Call
    BY <1>2
  <2>3. CASE wire' = [wire EXCEPT ![i] = [call |-> @.call, r |-> "ok", of |-> mark,
                                          session |-> session, ready |-> attached]]
    <3> DEFINE a == [call |-> wire[i].call, r |-> "ok", of |-> mark, session |-> session,
                     ready |-> attached]
    <3>1. a \in Call
      BY <1>2, <2>2 DEF Call
    <3>2. wire' = [wire EXCEPT ![i] = a]
      BY <2>3
    <3>3. a.call = wire[i].call /\ a.r = "ok" /\ a.of = mark /\ a.session = session
      OBVIOUS
    <3> HIDE DEF a
    <3> QED BY <2>1, <3>1, <3>2, <3>3
  <2>4. CASE wire' = [wire EXCEPT ![i].r = "refused"]
    <3> DEFINE a == [wire[i] EXCEPT !.r = "refused"]
    <3>1. a \in Call /\ a.call = wire[i].call /\ a.r = "refused"
      BY <2>2 DEF Call
    <3>2. wire' = [wire EXCEPT ![i] = a]
      BY <2>4
    <3> HIDE DEF a
    <3> QED BY <2>1, <3>1, <3>2
  <2> QED BY <2>1, <2>3, <2>4
<1>4. /\ DOMAIN wire' = DOMAIN wire /\ Len(wire') = Len(wire) /\ wire' \in Seq(Call)
      /\ wire'[i] = a /\ \A j \in DOMAIN wire : j # i => wire'[j] = wire[j]
      /\ DOMAIN wire = 1..Len(wire) /\ i \in Nat /\ Len(wire) \in Nat
  BY <1>2, <1>3
<1>5. \A j \in DOMAIN wire : j \in Nat /\ (j < i => j \in 1..(i - 1))
  BY <1>4
<1>6. \A j \in DOMAIN wire : i < j => wire[j].r = "asked"
  BY <1>3 DEF Inductive, LineOK, Ordered
<1>7. Fresh(wire) /\ Ordered(wire)
  BY DEF Inductive, LineOK, MarksOK
<1>8. Ordered(wire)'
  <2> SUFFICES ASSUME NEW j \in DOMAIN wire, NEW k \in DOMAIN wire, j < k
               PROVE  /\ wire'[k].r # "asked" => wire'[j].r # "asked"
                      /\ wire'[j].r = "ok" /\ wire'[k].r = "ok" =>
                            /\ wire'[j].of <= wire'[k].of
                            /\ wire'[j].of + wire'[k].session =
                                  wire'[k].of + wire'[j].session
    BY <1>4 DEF Ordered
  <2>1. CASE k = i
    <3>1. wire'[j] = wire[j] /\ wire[j].r # "asked"
      BY <1>3, <1>4, <1>5, <2>1
    <3>2. wire[j].r = "ok" =>
             /\ wire[j].of <= mark /\ wire[j].of + session = mark + wire[j].session
      BY <1>1, <1>7 DEF Fresh
    <3> QED BY <1>3, <1>4, <2>1, <3>1, <3>2
  <2>2. CASE j = i
    <3>1. wire'[k].r = "asked"
      BY <1>4, <1>6, <2>2
    <3> QED BY <3>1
  <2>3. CASE j # i /\ k # i
    BY <1>4, <1>7, <2>3 DEF Ordered
  <2> QED BY <2>1, <2>2, <2>3
<1>9. LineOK'
  BY <1>1, <1>3, <1>4, <1>8 DEF Inductive, LineOK
<1>10. Fresh(wire)'
  <2> SUFFICES ASSUME NEW j \in DOMAIN wire, wire'[j].r = "ok"
               PROVE  /\ wire'[j].of <= mark
                      /\ wire'[j].of + session = mark + wire'[j].session
                      /\ \A n \in sessionId : /\ seen <= wire'[j].of
                                              /\ seen + wire'[j].session = wire'[j].of + n
    BY <1>1, <1>4 DEF Fresh
  <2>1. CASE j = i
    <3>1. wire'[j].of = mark /\ wire'[j].session = session
      BY <1>3, <1>4, <2>1
    <3>2. seen <= mark /\ \A n \in sessionId : seen + session = mark + n
      BY <1>1 DEF Inductive, MarksOK
    <3> QED BY <1>2, <3>1, <3>2, BoundsAssumption DEF Marks
  <2>2. CASE j # i
    BY <1>1, <1>4, <1>7, <2>2 DEF Fresh
  <2> QED BY <2>1, <2>2
<1>11. KindsOK'
  BY <1>1, <1>4, UpsetIsBounded DEF Inductive, KindsOK, TypeOK
<1> QED
  BY <1>1, <1>9, <1>10, <1>11 DEF Inductive, ReadsOK, MarksOK, CurrentDataOnly,
     DrainedReadIsWhole

LEMMA StillApart ==
    ASSUME NEW a \in Nat, NEW b \in Nat, NEW c \in Nat, NEW d \in Nat, a + b = c + d
    PROVE  a + (b + 1) = (c + 1) + d
OBVIOUS

\* Devices and processes that come are later than any answer.
LEMMA MoveStep == ASSUME Inductive, Move PROVE Inductive'
<1> USE DEF connection, view, history
<1>1. /\ mode # "ended" /\ moves < MaxMoves /\ moves' = moves + 1
      /\ UNCHANGED <<mode, todo, link, wire, view, history, hurried, reads, operations, upsets>>
  BY DEF Move
<1>2. /\ moves \in Nat /\ moves' \in 0..MaxMoves /\ {process, session, mark} \subseteq Nat
      /\ process <= moves + 1 /\ session <= moves + 1 /\ mark <= moves + 1
      /\ attached \in BOOLEAN /\ link <= process /\ process > 0 /\ link \in Nat
  BY <1>1, BoundsAssumption DEF Inductive, KindsOK, TypeOK, Marks, LineOK
<1>3. /\ attached' \in BOOLEAN /\ dump' = 0 /\ {process', session', mark'} \subseteq Nat
      /\ \/ process' = process /\ session' = session /\ mark' = mark
         \/ process' = process /\ session' = session + 1 /\ mark' = mark + 1
         \/ process' = process + 1 /\ session' \in {0, 1} /\ mark' \in {mark, mark + 1}
  <2>1. CASE Unplug
    BY <1>2, <2>1 DEF Unplug
  <2>2. CASE Plug
    BY <1>2, <2>2 DEF Plug
  <2>3. CASE Restart
    BY <1>2, <2>3 DEF Restart
  <2> QED BY <2>1, <2>2, <2>3 DEF Move
<1>4. {process', session', mark'} \subseteq 0..(moves' + 1)
  BY <1>1, <1>2, <1>3
<1>5. {process', session', mark'} \subseteq Marks
  BY <1>2, <1>4, BoundsAssumption DEF Marks
<1>6. KindsOK'
  BY <1>1, <1>2, <1>3, <1>4, <1>5 DEF Inductive, KindsOK, TypeOK
<1>7. LineOK'
  BY <1>1, <1>2, <1>3 DEF Inductive, LineOK, Ordered
<1>8. wire \in Seq(Call) /\ Fresh(wire) /\ \A i \in DOMAIN wire : wire[i] \in Call
  BY DEF Inductive, KindsOK, TypeOK, MarksOK
<1>9. \A i \in DOMAIN wire : wire[i].of \in Nat /\ wire[i].session \in Nat
  BY <1>8, BoundsAssumption DEF Call, Marks
<1>10. Fresh(wire)'
  <2> SUFFICES ASSUME NEW i \in DOMAIN wire, wire[i].r = "ok"
               PROVE  /\ wire[i].of <= mark'
                      /\ link = process' => wire[i].of + session' = mark' + wire[i].session
                      /\ \A n \in sessionId : /\ seen <= wire[i].of
                                              /\ seen + wire[i].session = wire[i].of + n
    BY <1>1 DEF Fresh
  <2>1. /\ wire[i].of <= mark
        /\ link = process => wire[i].of + session = mark + wire[i].session
        /\ \A n \in sessionId : /\ seen <= wire[i].of
                                /\ seen + wire[i].session = wire[i].of + n
    BY <1>8 DEF Fresh
  <2>2. wire[i].of <= mark'
    BY <1>2, <1>3, <1>9, <2>1
  <2>3. link = process' => wire[i].of + session' = mark' + wire[i].session
    <3>1. wire[i].of \in Nat /\ wire[i].session \in Nat
      BY <1>9
    <3>2. session \in Nat /\ mark \in Nat /\ process \in Nat /\ link \in Nat
      BY <1>2
    <3>3. CASE process' = process /\ session' = session /\ mark' = mark
      BY <2>1, <3>3
    <3>4. CASE process' = process /\ session' = session + 1 /\ mark' = mark + 1
      <4>1. link = process => wire[i].of + session = mark + wire[i].session
        BY <2>1
      <4>2. ASSUME link = process PROVE wire[i].of + session' = mark' + wire[i].session
        BY <3>1, <3>2, <3>4, <4>1, <4>2, StillApart
      <4> QED BY <3>4, <4>2
    <3>5. CASE process' = process + 1
      <4>1. link <= process
        BY <1>2
      <4> QED BY <3>2, <3>5, <4>1
    <3> QED BY <1>3, <3>3, <3>4, <3>5
  <2> QED BY <2>1, <2>2, <2>3
<1>11. seen \in Nat /\ \A n \in sessionId : n \in Nat
  BY BoundsAssumption DEF Inductive, KindsOK, TypeOK, Marks
<1>12. seen' <= mark' /\ (link' = process' => \A n \in sessionId' : seen' + session' = mark' + n)
  BY <1>1, <1>2, <1>3, <1>11 DEF Inductive, MarksOK
<1>13. MarksOK'
  BY <1>1, <1>10, <1>12 DEF Inductive, MarksOK
<1> QED
  BY <1>1, <1>6, <1>7, <1>13 DEF Inductive, ReadsOK, CurrentDataOnly, DrainedReadIsWhole

\* Nothing here depends on which dump is open.
LEMMA LapseStep == ASSUME Inductive, Lapse \/ UNCHANGED vars PROVE Inductive'
<1>1. /\ UNCHANGED <<process, attached, session, mark, mode, todo, link, wire, sessionId,
                     seen, kept, reading, wanted, tasks, results, hurried, reads,
                     operations, upsets, moves>>
      /\ dump' \in {dump, 0}
  BY DEF Lapse, vars, daemon, connection, view, history, bounds
<1>2. TypeOK'
  BY <1>1 DEF Inductive, KindsOK, TypeOK
<1> QED
  BY <1>1, <1>2 DEF Inductive, KindsOK, ReadsOK, LineOK, Ordered, MarksOK, Fresh,
     CurrentDataOnly, DrainedReadIsWhole

--------------------------------------------------------------------------------
\* The steps of history reads.

\* What KindsOK says of reads, tasks and results.
LEMMA HistoryKinds ==
    ASSUME KindsOK
    PROVE  /\ tasks \subseteq Task /\ results \in Seq(Result)
           /\ \A t \in tasks : t \in Task /\ t.read \in Nat \ {0}
           /\ \A i \in DOMAIN results : results[i] \in Result /\ results[i].read \in Nat \ {0}
           /\ {dump, reading, wanted} \subseteq Nat /\ reads \in Nat /\ mark \in Nat
           /\ seen \in Nat
<1>1. tasks \subseteq Task /\ results \in Seq(Result)
  BY DEF KindsOK, TypeOK
<1>2. \A i \in DOMAIN results : results[i] \in Result
  BY <1>1
<1>3. /\ {dump, reading, wanted} \subseteq Nat /\ reads \in Nat /\ mark \in Nat
      /\ seen \in Nat
  <2>1. reads \in Nat /\ mark \in Nat /\ seen \in Nat
    BY BoundsAssumption DEF KindsOK, TypeOK, Marks
  <2>2. {dump, reading, wanted} \subseteq {0} \union Reads
    BY DEF KindsOK, TypeOK
  <2>3. {0} \union Reads \subseteq Nat
    BY DEF Reads
  <2> QED BY <2>1, <2>2, <2>3
<1> QED BY <1>1, <1>2, <1>3 DEF Task, Result, Reads

\* A read that begins is newer than every task and result, which are all cancelled.
LEMMA StartStep == ASSUME Inductive, StartHistory PROVE Inductive'
<1> USE DEF daemon, connection, view
<1> DEFINE u == [read |-> reads', cancelled |-> FALSE, to |-> process, session |-> 0,
                 of |-> 0, stage |-> "status", got |-> 0, ending |-> "loaded"]
<1>1. /\ mode = "running" /\ reading = 0
      /\ reads + operations < MaxCommands /\ reads' = reads + 1
      /\ reading' = reads' /\ wanted' = reads' /\ tasks' = tasks \union {u}
      /\ UNCHANGED <<daemon, mode, connection, view, results, hurried, operations, upsets,
                     moves>>
  BY DEF StartHistory, Idle
<1>2. KindsOK /\ ReadsOK /\ reads \in 0..MaxCommands /\ operations \in 0..MaxCommands
  BY DEF Inductive, KindsOK, TypeOK
<1>3. reads' \in Reads /\ reads' \in Nat \ {0} /\ reads' \in 0..MaxCommands /\ reads < reads'
  BY <1>1, <1>2, BoundsAssumption DEF Reads
<1>4. /\ \A t \in tasks : t.read \in Nat /\ t.read # 0 /\ t.read <= reads /\ t.read # reads'
      /\ \A i \in DOMAIN results : /\ results[i].read \in Nat /\ results[i].read <= reads
                                   /\ results[i].read # reads'
  BY <1>1, <1>2, HistoryKinds DEF ReadsOK
<1>5. u \in Task /\ u.read = reads' /\ u.stage = "status"
  BY <1>2, <1>3, BoundsAssumption DEF Task, Marks, KindsOK, TypeOK, Endings
<1> HIDE DEF u
<1>6. TypeOK'
  BY <1>1, <1>2, <1>3, <1>5 DEF KindsOK, TypeOK
<1>7. KindsOK'
  BY <1>1, <1>2, <1>5, <1>6 DEF KindsOK
<1>8. ReadsOK'
  <2>1. \A t \in tasks' : t.read <= reads'
    <3>1. \A t \in tasks : t.read <= reads'
      BY <1>1, <1>2, <1>3, <1>4
    <3> QED BY <1>1, <1>3, <1>5, <3>1
  <2>2. \A t, v \in tasks' : t.read = v.read => t = v
    BY <1>1, <1>2, <1>4, <1>5 DEF ReadsOK
  <2>3. \A i \in DOMAIN results' : /\ results'[i].read <= reads'
                                   /\ \A t \in tasks' : results'[i].read # t.read
    <3>1. \A i \in DOMAIN results : results[i].read <= reads'
      BY <1>1, <1>2, <1>3, <1>4
    <3> QED BY <1>1, <1>2, <1>4, <1>5, <3>1 DEF ReadsOK
  <2>4. \A t \in tasks' : t.cancelled \/ t.read = reading'
    BY <1>1, <1>2, <1>4, <1>5 DEF ReadsOK
  <2> QED BY <1>1, <1>3, <2>1, <2>2, <2>3, <2>4 DEF ReadsOK
<1>9. LineOK' /\ CurrentDataOnly' /\ DrainedReadIsWhole'
  BY <1>1 DEF Inductive, LineOK, Ordered, CurrentDataOnly, DrainedReadIsWhole
<1>10. MarksOK'
  BY <1>1, <1>4, <1>5 DEF Inductive, MarksOK, Fresh
<1> QED BY <1>7, <1>8, <1>9, <1>10 DEF Inductive

\* The window cancels the read, or the worker is told to end.
LEMMA StopStep == ASSUME Inductive, CancelHistory \/ Shutdown PROVE Inductive'
<1> USE DEF daemon, connection, view
<1>1. /\ mode = "running" /\ tasks' = Cancelled(reading)
      /\ mode' \in {"running", "draining", "ended"} /\ (mode' = "draining" => reading # 0)
      /\ mode' = "ended" => reading = 0
      /\ UNCHANGED <<daemon, connection, view, reading, wanted, results, hurried, bounds>>
  BY DEF CancelHistory, Shutdown, Idle
<1>2. /\ ReadsOK' /\ tasks' \subseteq Task
      /\ \A u \in tasks' : \E t \in tasks : Flagged(u, t, reading)
      /\ \A u \in tasks' : u.stage = "chunk" => u.got < NumChunks
  <2>1. /\ KindsOK /\ ReadsOK /\ mode # "ended" /\ UNCHANGED <<reads, results>>
        /\ wanted' \in {0, wanted} /\ reading' \in {0, wanted'}
        /\ mode' = "draining" => reading' # 0
    BY <1>1 DEF Inductive, ReadsOK, bounds
  <2> QED BY <1>1, <2>1, CancelStep
<1>3. KindsOK'
  BY <1>1, <1>2 DEF Inductive, KindsOK, TypeOK, bounds
<1>4. LineOK' /\ CurrentDataOnly'
  BY <1>1 DEF Inductive, LineOK, Ordered, CurrentDataOnly
<1>5. MarksOK'
  BY <1>1, <1>2 DEF Inductive, MarksOK, Fresh, Flagged
<1>6. DrainedReadIsWhole'
  BY <1>1, <1>2, <1>3, HistoryKinds DEF DrainedReadIsWhole, Task, Reads
<1> QED BY <1>2, <1>3, <1>4, <1>5, <1>6 DEF Inductive

\* A task goes on to another stage of its read.
LEMMA BecomeStep ==
    ASSUME Inductive, mode # "ended", NEW t \in tasks, NEW u \in Task, Become(t, u),
           u.read = t.read, t.cancelled => u.cancelled,
           u.stage = "chunk" => u.got < NumChunks,
           u.stage \in {"chunk", "end"} /\ u.ending = "loaded" /\ u.read = wanted
              /\ sessionId # {} => u.of >= seen,
           dump' \in {0} \union Reads, upsets' \in 0..MaxUpsets,
           UNCHANGED <<process, attached, session, mark, mode, connection, view, reading,
                       wanted, hurried, reads, operations, moves>>
    PROVE  Inductive'
<1> USE DEF connection, view
<1>1. tasks' = (tasks \ {t}) \union {u} /\ results' = results
  BY DEF Become
<1>2. TypeOK'
  BY <1>1 DEF Inductive, KindsOK, TypeOK
<1>3. KindsOK'
  BY <1>1, <1>2 DEF Inductive, KindsOK
<1>4. ReadsOK'
  <2>1. t.cancelled \/ t.read = reading
    BY DEF Inductive, ReadsOK
  <2>2. u.cancelled \/ u.read = reading
    BY <2>1
  <2>3. \A v, w \in tasks' : v.read = w.read => v = w
    BY <1>1 DEF Inductive, ReadsOK
  <2>4. \A v \in tasks' : v.cancelled \/ v.read = reading
    BY <1>1, <2>2 DEF Inductive, ReadsOK
  <2>5. /\ \A v \in tasks' : v.read <= reads
        /\ \A i \in DOMAIN results : /\ results[i].read <= reads
                                     /\ \A v \in tasks' : results[i].read # v.read
    BY <1>1 DEF Inductive, ReadsOK
  <2> QED BY <1>1, <2>3, <2>4, <2>5 DEF Inductive, ReadsOK
<1>5. LineOK' /\ CurrentDataOnly' /\ DrainedReadIsWhole'
  BY DEF Inductive, LineOK, Ordered, CurrentDataOnly, DrainedReadIsWhole
<1>6. MarksOK'
  BY <1>1 DEF Inductive, MarksOK, Fresh
<1> QED BY <1>3, <1>4, <1>5, <1>6 DEF Inductive

\* A task ends, and what it brings is of a session that is not older than the view's.
LEMMA ReportStep ==
    ASSUME Inductive, mode # "ended", NEW t \in tasks, NEW ending \in Endings,
           Report(t, ending), ending = "loaded" => t.stage = "end" /\ t.ending = "loaded",
           dump' \in {0} \union Reads, upsets' \in 0..MaxUpsets,
           UNCHANGED <<process, attached, session, mark, mode, connection, view, reading,
                       wanted, hurried, reads, operations, moves>>
    PROVE  Inductive'
<1> USE DEF connection, view
<1> DEFINE r == [read |-> t.read, ending |-> ending,
                 of |-> IF ending = "loaded" THEN t.of ELSE 0]
<1>1. tasks' = tasks \ {t} /\ results' = Append(results, r)
  BY DEF Report
<1>2. /\ results \in Seq(Result) /\ t \in Task
  BY HistoryKinds DEF Inductive
<1>3. r \in Result /\ r.read = t.read /\ r.ending = ending /\ (ending = "loaded" => r.of = t.of)
  BY <1>2, BoundsAssumption DEF Result, Task, Marks
<1> HIDE DEF r
<1>4. /\ results' \in Seq(Result)
      /\ \A i \in DOMAIN results' : \/ i \in DOMAIN results /\ results'[i] = results[i]
                                    \/ results'[i] = r
  BY <1>1, <1>2, <1>3, AppendFacts
<1>5. TypeOK'
  BY <1>1, <1>4 DEF Inductive, KindsOK, TypeOK
<1>6. KindsOK'
  BY <1>1, <1>5 DEF Inductive, KindsOK
<1>7. ReadsOK'
  <2>1. \A v \in tasks : v # t => v.read # t.read
    BY DEF Inductive, ReadsOK
  <2>2. \A i \in DOMAIN results' : /\ results'[i].read <= reads
                                   /\ \A v \in tasks' : results'[i].read # v.read
    BY <1>1, <1>3, <1>4, <2>1 DEF Inductive, ReadsOK
  <2> QED BY <1>1, <2>2 DEF Inductive, ReadsOK
<1>8. LineOK' /\ CurrentDataOnly' /\ DrainedReadIsWhole'
  BY DEF Inductive, LineOK, Ordered, CurrentDataOnly, DrainedReadIsWhole
<1>9. MarksOK'
  BY <1>1, <1>3, <1>4 DEF Inductive, MarksOK, Fresh
<1> QED BY <1>6, <1>7, <1>8, <1>9 DEF Inductive

LEMMA TaskStages ==
    ASSUME NEW t \in Task
    PROVE  /\ t.stage \in {"status", "begin", "chunk", "end"} /\ t.ending \in Endings
           /\ t.read \in Reads /\ t.got \in 0..NumChunks /\ t.of \in Marks
BY DEF Task

\* A download that ends without success, or all of it.
LEMMA EndIsTask ==
    ASSUME NEW t \in Task, NEW ending \in {"cancelled", "error"}
    PROVE  /\ End(t, ending) \in Task /\ End(t, ending).read = t.read
           /\ End(t, ending).cancelled = t.cancelled
           /\ End(t, ending).stage = "end" /\ End(t, ending).ending = ending
<1>1. 0 \in Marks /\ ending \in Endings
  BY BoundsAssumption DEF Marks, Endings
<1>2. End(t, ending) = [t EXCEPT !.stage = "end", !.ending = ending, !.session = 0, !.of = 0]
  BY DEF End
<1>3. End(t, ending) \in Task
  BY <1>1, <1>2 DEF Task
<1>4. /\ End(t, ending).read = t.read /\ End(t, ending).cancelled = t.cancelled
      /\ End(t, ending).stage = "end" /\ End(t, ending).ending = ending
  BY <1>2 DEF Task
<1> QED BY <1>3, <1>4

\* What a download becomes when its loop looks at the flag.
LEMMA LoopStep ==
    ASSUME Inductive, mode # "ended", NEW t \in tasks, NEW u \in Task, Loop(t, u),
           u.read = t.read, u.cancelled = t.cancelled,
           u.ending = "loaded" /\ u.read = wanted /\ sessionId # {} => u.of >= seen,
           dump' \in {0} \union Reads, upsets' \in 0..MaxUpsets,
           UNCHANGED <<process, attached, session, mark, mode, connection, view, reading,
                       wanted, hurried, reads, operations, moves>>
    PROVE  Inductive'
<1>1. CASE u.got = NumChunks
  <2> DEFINE v == [u EXCEPT !.stage = "end"]
  <2>1. /\ v \in Task /\ v.read = u.read /\ v.cancelled = u.cancelled /\ v.stage = "end"
        /\ v.of = u.of /\ v.ending = u.ending
    BY DEF Task
  <2>2. Become(t, v)
    BY <1>1 DEF Loop
  <2> HIDE DEF v
  <2>3. t.cancelled => v.cancelled
    BY <2>1
  <2> QED BY <2>1, <2>2, <2>3, BecomeStep
<1>2. CASE u.got # NumChunks /\ u.cancelled
  <2> DEFINE v == End(u, "cancelled")
  <2>1. /\ v \in Task /\ v.read = u.read /\ v.cancelled = u.cancelled /\ v.stage = "end"
        /\ v.ending = "cancelled"
    BY EndIsTask
  <2>2. Become(t, v)
    BY <1>2 DEF Loop
  <2> HIDE DEF v
  <2>3. t.cancelled => v.cancelled
    BY <2>1
  <2> QED BY <2>1, <2>2, <2>3, BecomeStep
<1>3. CASE u.got # NumChunks /\ ~u.cancelled
  <2> DEFINE v == [u EXCEPT !.stage = "chunk"]
  <2>1. /\ v \in Task /\ v.read = u.read /\ v.cancelled = u.cancelled /\ v.stage = "chunk"
        /\ v.of = u.of /\ v.got = u.got /\ v.ending = u.ending
    BY DEF Task
  <2>2. Become(t, v)
    BY <1>3 DEF Loop
  <2>3. u.got \in 0..NumChunks
    BY DEF Task
  <2> HIDE DEF v
  <2>4. t.cancelled => v.cancelled
    BY <2>1
  <2>5. v.got < NumChunks
    BY <1>3, <2>1, <2>3, BoundsAssumption
  <2> QED BY <2>1, <2>2, <2>4, <2>5, BecomeStep
<1> QED BY <1>1, <1>2, <1>3

\* A call of a download succeeds, fails, or is given up.
LEMMA TaskStep == ASSUME Inductive, NEW t \in tasks, ProceedTask(t) PROVE Inductive'
<1>1. /\ mode # "ended" /\ (Upset \/ UNCHANGED upsets) /\ (TaskSucceeded(t) \/ TaskFailed(t))
      /\ UNCHANGED <<process, attached, session, mark, mode, connection, view, reading,
                     wanted, hurried, reads, operations, moves>>
  BY DEF ProceedTask
<1>2. upsets' \in 0..MaxUpsets
  BY <1>1, UpsetIsBounded
<1>3. /\ t \in Task /\ t.stage \in {"status", "begin", "chunk", "end"} /\ t.ending \in Endings
      /\ t.read \in Reads /\ t.got \in 0..NumChunks
  BY HistoryKinds, TaskStages DEF Inductive
<1>4. dump' \in {0} \union Reads
  <2>1. dump \in {0} \union Reads
    BY DEF Inductive, KindsOK, TypeOK
  <2>2. ASSUME NEW ok, Carried(t, ok) PROVE dump' \in {0, dump, t.read}
    <3>1. CASE t.stage = "status"
      BY <2>2, <3>1 DEF Carried
    <3>2. CASE t.stage = "begin"
      BY <2>2, <3>2 DEF Carried
    <3>3. CASE t.stage = "chunk"
      BY <2>2, <3>3 DEF Carried
    <3>4. CASE t.stage = "end"
      BY <2>2, <3>4 DEF Carried
    <3> QED BY <1>3, <3>1, <3>2, <3>3, <3>4
  <2>3. dump' \in {0, dump, t.read}
    BY <2>2 DEF ProceedTask
  <2> QED BY <1>3, <2>1, <2>3
<1>5. CASE TaskFailed(t)
  <2>1. CASE t.stage = "chunk"
    <3>1. Become(t, End(t, "error"))
      BY <1>5, <2>1 DEF TaskFailed
    <3>2. /\ End(t, "error") \in Task /\ End(t, "error").read = t.read
          /\ End(t, "error").cancelled = t.cancelled
          /\ End(t, "error").stage = "end" /\ End(t, "error").ending = "error"
      BY <1>3, EndIsTask
    <3>3. t.cancelled => End(t, "error").cancelled
      BY <3>2
    <3> QED BY <1>1, <1>2, <1>4, <3>1, <3>2, <3>3, BecomeStep
  <2>2. CASE t.stage # "chunk"
    <3>1. PICK ending \in Endings : Report(t, ending) /\ ending # "loaded"
      BY <1>3, <1>5, <2>2 DEF TaskFailed, Endings
    <3> QED BY <1>1, <1>2, <1>4, <3>1, ReportStep
  <2> QED BY <2>1, <2>2
<1>6. CASE TaskSucceeded(t)
  <2>1. CASE t.stage = "status"
    <3> DEFINE u == [t EXCEPT !.stage = "begin", !.session = session]
    <3>1. session \in Marks
      BY DEF Inductive, KindsOK, TypeOK
    <3>2. u \in Task /\ u.read = t.read /\ u.cancelled = t.cancelled /\ u.stage = "begin"
      BY <1>3, <3>1 DEF Task
    <3>3. Become(t, u)
      BY <1>6, <2>1 DEF TaskSucceeded
    <3> HIDE DEF u
    <3>4. t.cancelled => u.cancelled
      BY <3>2
    <3> QED BY <1>1, <1>2, <1>4, <3>2, <3>3, <3>4, BecomeStep
  <2>2. CASE t.stage = "begin" /\ session # t.session
    <3>1. Become(t, End(t, "error"))
      BY <1>6, <2>2 DEF TaskSucceeded
    <3>2. /\ End(t, "error") \in Task /\ End(t, "error").read = t.read
          /\ End(t, "error").cancelled = t.cancelled
          /\ End(t, "error").stage = "end" /\ End(t, "error").ending = "error"
      BY <1>3, EndIsTask
    <3>3. t.cancelled => End(t, "error").cancelled
      BY <3>2
    <3> QED BY <1>1, <1>2, <1>4, <3>1, <3>2, <3>3, BecomeStep
  <2>3. CASE t.stage = "begin" /\ session = t.session
    <3> DEFINE u == [t EXCEPT !.session = 0, !.of = mark]
    <3>1. mark \in Marks /\ 0 \in Marks /\ seen <= mark /\ mark \in Nat /\ seen \in Nat
      BY BoundsAssumption DEF Inductive, KindsOK, TypeOK, MarksOK, Marks
    <3>2. u \in Task /\ u.read = t.read /\ u.cancelled = t.cancelled /\ u.of = mark
      BY <1>3, <3>1 DEF Task
    <3>3. Loop(t, u)
      BY <1>6, <2>3 DEF TaskSucceeded
    <3> HIDE DEF u
    <3>4. u.of >= seen
      BY <3>1, <3>2
    <3> QED BY <1>1, <1>2, <1>4, <3>2, <3>3, <3>4, LoopStep
  <2>4. CASE t.stage = "chunk"
    <3> DEFINE u == [t EXCEPT !.got = @ + 1]
    <3>1. t.got < NumChunks
      BY <2>4 DEF Inductive, KindsOK
    <3>2. t.got + 1 \in 0..NumChunks
      BY <1>3, <3>1, BoundsAssumption
    <3>3. /\ u \in Task /\ u.read = t.read /\ u.cancelled = t.cancelled /\ u.of = t.of
          /\ u.stage = "chunk" /\ u.ending = t.ending
      BY <1>3, <2>4, <3>2 DEF Task
    <3>4. Loop(t, u)
      BY <1>6, <2>4 DEF TaskSucceeded
    <3> HIDE DEF u
    <3>5. u.ending = "loaded" /\ u.read = wanted /\ sessionId # {} => u.of >= seen
      BY <2>4, <3>3 DEF Inductive, MarksOK
    <3> QED BY <1>1, <1>2, <1>4, <3>3, <3>4, <3>5, LoopStep
  <2>5. CASE t.stage = "end"
    <3>1. Report(t, t.ending)
      BY <1>6, <2>5 DEF TaskSucceeded
    <3> QED BY <1>1, <1>2, <1>3, <1>4, <2>5, <3>1, ReportStep
  <2> QED BY <1>3, <2>1, <2>2, <2>3, <2>4, <2>5
<1> QED BY <1>1, <1>5, <1>6

\* A result is taken: that of a read that was invalidated is dropped, and what the other
\* brings is of a session that is not older than the view's.
LEMMA ResultStep == ASSUME Inductive, TakeResult \/ Drain PROVE Inductive'
<1> USE DEF daemon, connection
<1> DEFINE r == Head(results)
<1>1. /\ results # <<>> /\ results' = Tail(results) /\ mode # "ended"
      /\ UNCHANGED <<daemon, connection, sessionId, seen, wanted, tasks, hurried, bounds>>
      /\ reading' \in {0, reading}
  BY DEF TakeResult, Drain, FinishHistory, Idle, view
<1>2. /\ results \in Seq(Result) /\ KindsOK /\ ReadsOK
      /\ \A t \in tasks : t.read \in Nat \ {0}
  BY HistoryKinds DEF Inductive
<1>3. /\ Tail(results) \in Seq(Result) /\ r = results[1] /\ r \in Result /\ 1 \in DOMAIN results
      /\ \A i \in DOMAIN Tail(results) : /\ i + 1 \in DOMAIN results
                                         /\ Tail(results)[i] = results[i + 1]
  BY <1>1, <1>2, TailFacts
<1>4. r.of \in Marks /\ "history" \in Things
  BY <1>3 DEF Result, Things
<1>5. /\ mode' \in {mode, "ended"}
      /\ mode' # mode => mode = "draining" /\ r.read = wanted /\ reading' = reading
      /\ reading' # reading => mode = "running" /\ r.read = wanted
      /\ mode' = "draining" => reading' = reading
      /\ \/ kept' = kept
         \/ /\ r.read = wanted /\ r.ending = "loaded" /\ kept' = [kept EXCEPT !["history"] = r.of]
  BY DEF TakeResult, Drain, FinishHistory, Idle, view
<1>6. \A t \in tasks : t.read # r.read
  BY <1>2, <1>3 DEF ReadsOK
<1>7. kept' \in [Things -> Marks]
  BY <1>2, <1>4, <1>5 DEF KindsOK, TypeOK
<1>8. TypeOK'
  BY <1>1, <1>2, <1>3, <1>5, <1>7 DEF KindsOK, TypeOK, bounds
<1>9. KindsOK'
  BY <1>1, <1>2, <1>8 DEF KindsOK, bounds
<1>10. ReadsOK'
  <2>1. \A i \in DOMAIN results' : /\ results'[i].read <= reads'
                                   /\ \A t \in tasks' : results'[i].read # t.read
    BY <1>1, <1>2, <1>3 DEF ReadsOK, bounds
  <2>2. \A t \in tasks : t.cancelled \/ t.read = reading' \/ mode' = "ended"
    <3>1. CASE reading' = reading
      BY <1>1, <1>2, <1>5, <3>1 DEF ReadsOK
    <3>2. CASE reading' # reading
      BY <1>1, <1>2, <1>5, <1>6, <3>2 DEF ReadsOK
    <3> QED BY <3>1, <3>2
  <2>3. mode' = "draining" => reading' # 0
    BY <1>2, <1>5 DEF ReadsOK
  <2> QED BY <1>1, <1>2, <2>1, <2>2, <2>3 DEF ReadsOK, bounds
<1>11. LineOK'
  BY <1>1 DEF Inductive, LineOK, Ordered
<1>12. MarksOK'
  BY <1>1, <1>3 DEF Inductive, MarksOK, Fresh
<1>13. CurrentDataOnly'
  <2>1. CASE kept' = kept
    BY <1>1, <2>1 DEF Inductive, CurrentDataOnly
  <2>2. CASE /\ r.read = wanted /\ r.ending = "loaded"
             /\ kept' = [kept EXCEPT !["history"] = r.of]
    <3>1. sessionId # {} => r.of >= seen
      BY <1>3, <2>2 DEF Inductive, MarksOK
    <3> QED BY <1>1, <1>2, <2>2, <3>1 DEF Inductive, CurrentDataOnly, KindsOK, TypeOK
  <2> QED BY <1>5, <2>1, <2>2
<1>14. DrainedReadIsWhole'
  <2> SUFFICES ASSUME mode' = "ended", NEW t \in tasks PROVE t.read # reading'
    BY <1>1 DEF DrainedReadIsWhole
  <2>1. mode = "draining" /\ r.read = wanted /\ reading' = reading /\ reading # 0
    BY <1>1, <1>2, <1>5 DEF ReadsOK
  <2> QED BY <1>2, <1>6, <2>1 DEF ReadsOK
<1> QED BY <1>9, <1>10, <1>11, <1>12, <1>13, <1>14 DEF Inductive

LEMMA HurryStep == ASSUME Inductive, Hurry PROVE Inductive'
<1>1. /\ mode = "draining" /\ mode' = "ended" /\ hurried' = TRUE /\ upsets' \in 0..MaxUpsets
      /\ UNCHANGED <<process, attached, session, mark, dump, todo, link, wire, sessionId, seen,
                     kept, reading, wanted, tasks, results, reads, operations, moves>>
  BY UpsetIsBounded DEF Hurry, daemon, connection, view, history
<1>2. KindsOK'
  BY <1>1 DEF Inductive, KindsOK, TypeOK
<1>3. ReadsOK'
  BY <1>1 DEF Inductive, ReadsOK
<1>4. DrainedReadIsWhole'
  BY <1>1 DEF DrainedReadIsWhole
<1> QED
  BY <1>1, <1>2, <1>3, <1>4 DEF Inductive, LineOK, Ordered, MarksOK, Fresh, CurrentDataOnly

--------------------------------------------------------------------------------
\* The theorems.

LEMMA InitIsInductive == Init => Inductive
<1> SUFFICES ASSUME Init PROVE Inductive
  OBVIOUS
<1>1. /\ {0, 1} \subseteq Marks /\ <<>> \in Seq(Calls) /\ <<>> \in Seq(Call)
      /\ <<>> \in Seq(Result) /\ Nothing \in [Things -> Marks]
      /\ \A x \in Things : Nothing[x] = 0
  BY BoundsAssumption DEF Marks, Nothing
<1>2. TypeOK
  <2>1. /\ {process, session, mark, link, seen} \subseteq Marks /\ attached \in BOOLEAN
        /\ mode \in {"running", "draining", "ended"} /\ hurried \in BOOLEAN
    BY <1>1 DEF Init
  <2>2. /\ todo \in Seq(Calls) /\ wire \in Seq(Call) /\ results \in Seq(Result)
        /\ tasks \subseteq Task /\ kept \in [Things -> Marks] /\ sessionId = {}
    BY <1>1 DEF Init
  <2>3. /\ {dump, reading, wanted} \subseteq {0} \union Reads /\ moves \in 0..MaxMoves
        /\ reads \in 0..MaxCommands /\ operations \in 0..MaxCommands
        /\ upsets \in 0..MaxUpsets
    BY BoundsAssumption DEF Init
  <2> QED BY <2>1, <2>2, <2>3 DEF TypeOK
<1>3. KindsOK /\ ReadsOK
  BY <1>2 DEF Init, KindsOK, ReadsOK
<1>4. LineOK /\ MarksOK
  BY DEF Init, LineOK, Ordered, MarksOK, Fresh
<1> QED BY <1>1, <1>3, <1>4 DEF Init, Inductive, CurrentDataOnly, DrainedReadIsWhole

LEMMA NextIsInductive == Inductive /\ [Next]_vars => Inductive'
<1> SUFFICES ASSUME Inductive, [Next]_vars PROVE Inductive'
  OBVIOUS
<1>1. CASE Worker
  BY <1>1, ReceiveStep, GiveUpStep, RefreshesStep, ResultStep, HurryStep DEF Worker
<1>2. CASE Window
  BY <1>2, RefreshesStep, OperationStep, StartStep, StopStep DEF Window
<1>3. CASE Downloads
  BY <1>3, TaskStep DEF Downloads
<1>4. CASE Serve \/ Move \/ Lapse \/ UNCHANGED vars
  BY <1>4, ServeStep, MoveStep, LapseStep
<1> QED BY <1>1, <1>2, <1>3, <1>4 DEF Next

\* The parts of the inductive invariant hold in every state: answers come in order on
\* their connection and are of the session that is shown or a later one, as is all that
\* is kept, and a read is one task or one result.
THEOREM InductiveHolds == Spec => []Inductive
<1> QED BY InitIsInductive, NextIsInductive, PTL DEF Spec

\* Type correctness, for any bounds.
THEOREM TypeOKHolds == Spec => []TypeOK
<1>1. Inductive => TypeOK
  BY DEF Inductive, KindsOK
<1> QED BY <1>1, InductiveHolds, PTL

\* While a session is shown, nothing that is kept is of an earlier one, whatever devices
\* and daemons come while calls and downloads are under way (accept_status,
\* connection_failed, finish_history).
THEOREM CurrentDataOnlyHolds == Spec => []CurrentDataOnly
<1>1. Inductive => CurrentDataOnly
  BY DEF Inductive
<1> QED BY <1>1, InductiveHolds, PTL

\* Only the read that can be cancelled from the window goes on uncancelled, and its
\* result is the one waited for (load_history, invalidate_history_task).
THEOREM OneReadAtATimeHolds == Spec => []OneReadAtATime
<1>1. Inductive => OneReadAtATime
  BY DEF Inductive, ReadsOK, OneReadAtATime
<1> QED BY <1>1, InductiveHolds, PTL

\* A shutdown that waited to the end leaves no read half done, whichever results arrive
\* meanwhile (the drain loop of the worker).
THEOREM DrainedReadIsWholeHolds == Spec => []DrainedReadIsWhole
<1>1. Inductive => DrainedReadIsWhole
  BY DEF Inductive
<1> QED BY <1>1, InductiveHolds, PTL

\* Answers that calls given up have left on the connection never pass for the status that
\* decides which session the window is of (refresh).
THEOREM StatusIsItsOwnHolds == Spec => StatusIsItsOwn
<1>1. Inductive /\ [Next]_vars =>
         [Receive /\ Head(todo) = "status" /\ Head(wire).call = "status" => Len(wire) = 1]_vars
  <2> SUFFICES ASSUME Inductive, Receive, Head(wire).call = "status" PROVE Len(wire) = 1
    OBVIOUS
  <2>1. wire \in Seq(Call) /\ wire # <<>>
    BY DEF Inductive, KindsOK, TypeOK, Receive
  <2>2. 1 \in DOMAIN wire /\ Head(wire) = wire[1]
    BY <2>1, TailFacts
  <2> QED BY <2>2 DEF Inductive, LineOK
<1> QED BY <1>1, InductiveHolds, PTL DEF Spec, StatusIsItsOwn
================================================================================
