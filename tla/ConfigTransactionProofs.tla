------------------------ MODULE ConfigTransactionProofs ------------------------
(***************************************************************************)
(* Proofs about ConfigTransaction, for every number of clients, parts,     *)
(* calls, faults and crashes: a client's settings are written only over    *)
(* what its document shows, mutations of the NVM keep their distance, and  *)
(* the transactions implement ConfigStore.                                 *)
(***************************************************************************)
EXTENDS ConfigTransaction, TLAPS

--------------------------------------------------------------------------------
\* The inductive invariant.

Documents == [session : Nat, cfg : Configuration]

\* The service: each phase has its methods, and a command that has passed the
\* comparison expects the revision of its client's document.
ServiceOK ==
    /\ call \in [Clients -> Calls \union {NoCall}] /\ phase \in [Clients -> Phases]
    /\ doc \in [Clients -> Documents] /\ expected \in [Clients -> Documents]
    /\ seen \in [Clients -> Configuration] /\ told \in [Clients -> Endings]
    /\ \A c \in Clients :
          /\ phase[c] \notin {"idle", "closing"} => call[c] \in Calls
          /\ phase[c] = "asking" => call[c].op \in {"get", "apply"}
          /\ phase[c] = "stamping" => call[c].op = "apply"
          /\ phase[c] = "waiting" => call[c].op # "get"
          /\ phase[c] = "waiting" /\ call[c].op = "apply" => expected[c] = doc[c]

\* Whose command waits or is handled waits for nothing else.
QueueOK ==
    /\ queue \in Seq(Clients) /\ work.stage \in Stages
    /\ \A i \in DOMAIN queue : phase[queue[i]] \in {"asking", "waiting"}
    /\ \A i, j \in DOMAIN queue : queue[i] = queue[j] => i = j
    /\ work.stage = "idle" => work = Idle
    /\ work.stage # "idle" =>
          /\ me \in Clients /\ phase[me] \in {"asking", "waiting"}
          /\ work.stage = "read" <=> phase[me] = "asking"
          /\ \A i \in DOMAIN queue : queue[i] # me

DeviceOK ==
    /\ active \in Configuration /\ saved \in Contents
    /\ base \in [active : Contents, saved : Contents]
    /\ work \in [stage : Stages, client : Clients \union {Nobody},
                 want : Configuration, before : Configuration]
    /\ session \in Nat /\ epoch \in Nat

\* A change wants what its call asks for.
Wanted ==
    /\ work.want.set \in Settings
    /\ call[me].op = "apply" => work.want.set = call[me].set
    /\ call[me].op = "set" =>
          /\ work.want.set[call[me].part] = call[me].set[call[me].part]
          /\ base.active \in Settings =>
                \A p \in Parts \ {call[me].part} : work.want.set[p] = base.active[p]

\* What the device holds at each stage, beside what it held before.
WorkOK ==
    /\ work.stage \in {"read", "item", "check", "write", "keep", "nvm"} =>
          active.set = base.active /\ saved = base.saved
    /\ work.stage # "idle" /\ ~Persist => saved = base.saved
    /\ work.stage = "item" => call[me].op = "set"
    /\ work.stage \in {"keep", "restore", "restore_check"} => call[me].op = "reload"
    /\ work.stage \in {"nvm", "loaded"} => call[me].op \in {"reload", "reset"}
    /\ work.stage \in {"check", "write", "readback", "store", "reread", "undo",
                       "undo_check", "undo_store", "undo_reread"} =>
          call[me].op \in {"apply", "set"}
    /\ work.stage \in {"check", "write", "readback", "store", "reread"} => Wanted
    /\ work.stage \notin {"idle", "read", "item", "check", "keep"} /\ call[me].op # "reset" =>
          work.before.set = base.active
    /\ work.stage \in {"store", "reread", "undo_store", "undo_reread"} => Persist
    /\ work.stage \in {"reread", "undo_reread", "loaded"} => saved = active.set
    /\ work.stage = "loaded" /\ call[me].op = "reset" => saved = Defaults

\* The host knows of every mutation that the device has carried out of late.
Spaced == paced \in BOOLEAN /\ recent \in BOOLEAN /\ (recent => paced)

Inductive == ServiceOK /\ QueueOK /\ DeviceOK /\ WorkOK /\ Spaced

--------------------------------------------------------------------------------
\* What the constants and the helpers are.

LEMMA CallFacts ==
    ASSUME NEW r \in Calls
    PROVE  /\ r \in [op : {"get", "apply", "set", "reload", "reset"},
                     part : Parts, set : Settings, persist : BOOLEAN]
           /\ r.op \in {"get", "reload"} => ~r.persist
           /\ r.op = "reset" => r.persist
           /\ r # NoCall
<1>1. 1 \in Parts /\ Defaults \in Settings
  BY SettingsAssumption DEF Parts
<1>2. r # NoCall
  BY NoCallAssumption
<1>3. CASE r \in [op : {"apply"}, part : {1}, set : Settings, persist : BOOLEAN]
  BY <1>1, <1>2, <1>3
<1>4. CASE r \in [op : {"set"}, part : Parts, set : Settings, persist : BOOLEAN]
  BY <1>2, <1>4
<1>5. ASSUME NEW o \in {"get", "reload", "reset"},
             r = [op |-> o, part |-> 1, set |-> Defaults, persist |-> o = "reset"]
      PROVE  /\ r \in [op : {"get", "apply", "set", "reload", "reset"},
                        part : Parts, set : Settings, persist : BOOLEAN]
             /\ r.op \in {"get", "reload"} => ~r.persist
             /\ r.op = "reset" => r.persist
  BY <1>1, <1>5
<1> QED BY <1>2, <1>3, <1>4, <1>5 DEF Calls

LEMMA KindFacts ==
    /\ Settings \subseteq Contents /\ Defaults \in Contents /\ Blank \in Contents
    /\ Blank \notin Settings /\ Odd \notin Settings /\ Odd # Blank /\ Odd \in Contents
    /\ Nothing \in Configuration /\ NoDoc \in Documents /\ NoRevision \in Documents
    /\ Idle.stage = "idle" /\ Idle \in [stage : Stages, client : Clients \union {Nobody},
                                       want : Configuration, before : Configuration]
<1>1. /\ Settings \subseteq Contents /\ Defaults \in Contents /\ Blank \in Contents
      /\ Blank \notin Settings /\ Odd \notin Settings /\ Odd # Blank /\ Odd \in Contents
  BY SettingsAssumption DEF Contents
<1>2. Nothing \in Configuration
  BY <1>1 DEF Nothing, Configuration
<1>3. NoDoc \in Documents /\ NoRevision \in Documents
  BY <1>2 DEF NoDoc, NoRevision, Documents
<1> QED BY <1>1, <1>2, <1>3 DEF Idle, Stages

\* Whatever parts have arrived, there are settings.
LEMMA MergeKind ==
    ASSUME active \in Configuration, NEW v \in Configuration, v.set \in Settings,
           NEW K
    PROVE  Merge(K, v) \in Configuration
<1>1. active.set \in Contents /\ active.crc \in Contents /\ v.crc \in Contents
  BY DEF Configuration
<1>2. active.set \in Settings =>
          [p \in Parts |-> IF p \in K THEN v.set[p] ELSE active.set[p]] \in Settings
  BY DEF Settings
<1> QED BY <1>1, <1>2, KindFacts DEF Merge, Configuration

\* The handler that runs has a call of its own.
LEMMA HandledCall ==
    ASSUME Inductive, work.stage # "idle"
    PROVE  /\ me \in Clients /\ call[me] \in Calls /\ call[me] # NoCall
           /\ phase[me] \in {"asking", "waiting"} /\ work # Idle
           /\ work.stage = "read" => call[me].op \in {"get", "apply"}
           /\ work.stage # "read" => phase[me] = "waiting" /\ call[me].op # "get"
<1>1. me \in Clients /\ phase[me] \in {"asking", "waiting"}
      /\ (work.stage = "read" <=> phase[me] = "asking")
  BY DEF Inductive, QueueOK
<1> QED BY <1>1, CallFacts, KindFacts DEF Inductive, ServiceOK

--------------------------------------------------------------------------------
\* How a handler's step ends.

Step == [Store_!Next]_(Store_!vars)

\* The handler answers: nobody else is concerned, and it is idle.
LEMMA AnswerKeeps ==
    ASSUME Inductive, work.stage # "idle",
           NEW how \in Endings, NEW p \in {"idle", "stamping", "closing"},
           Answer(how, p), p = "stamping" => call[me].op = "apply",
           UNCHANGED <<doc, expected, queue>>, seen' \in [Clients -> Configuration]
    PROVE  ServiceOK' /\ QueueOK' /\ WorkOK' /\ work' = Idle
<1>1. me \in Clients /\ call[me] \in Calls /\ work' = Idle /\ Idle.stage = "idle"
  BY HandledCall, KindFacts DEF Answer
<1>2. /\ phase' = [phase EXCEPT ![me] = p] /\ p \in Phases
      /\ call' = [call EXCEPT ![me] = IF p = "idle" THEN NoCall ELSE @]
  BY <1>1 DEF Answer, Phases, Inductive, ServiceOK
<1>3. told' \in [Clients -> Endings]
  BY <1>1 DEF Answer, Inductive, ServiceOK
<1>4. \A c \in Clients : c # me => phase'[c] = phase[c] /\ call'[c] = call[c]
  BY <1>2 DEF Inductive, ServiceOK
<1>5. phase'[me] = p /\ (p # "idle" => call'[me] = call[me])
  BY <1>1, <1>2 DEF Inductive, ServiceOK
<1>6. ServiceOK'
  <2>1. call' \in [Clients -> Calls \union {NoCall}] /\ phase' \in [Clients -> Phases]
    BY <1>1, <1>2 DEF Inductive, ServiceOK
  <2>2. ASSUME NEW c \in Clients
        PROVE  /\ phase'[c] \notin {"idle", "closing"} => call'[c] \in Calls
               /\ phase'[c] = "asking" => call'[c].op \in {"get", "apply"}
               /\ phase'[c] = "stamping" => call'[c].op = "apply"
               /\ phase'[c] = "waiting" => call'[c].op # "get"
               /\ phase'[c] = "waiting" /\ call'[c].op = "apply" => expected[c] = doc[c]
    BY <1>1, <1>4, <1>5 DEF Inductive, ServiceOK
  <2> QED BY <1>3, <2>1, <2>2 DEF Inductive, ServiceOK
<1>7. QueueOK'
  <2>1. \A i \in DOMAIN queue : queue[i] \in Clients /\ queue[i] # me
    BY DEF Inductive, QueueOK
  <2> QED BY <1>1, <1>4, <2>1 DEF Inductive, QueueOK, Stages
<1>8. WorkOK'
  BY <1>1 DEF WorkOK
<1> QED BY <1>1, <1>6, <1>7, <1>8

\* What ConfigStore allows the call of the handler to end with.
Outcome(r) ==
    CASE r.op = "get"    -> {base.active}
      [] r.op = "apply"  -> {r.set}
      [] r.op = "set"    -> {s \in Settings : s[r.part] = r.set[r.part]
            /\ base.active \in Settings => \A p \in Parts \ {r.part} : s[p] = base.active[p]}
      [] r.op = "reload" -> {base.saved}
      [] r.op = "reset"  -> {Defaults}

Allowed(how) ==
    \/ /\ how = "ok" /\ active'.set \in Outcome(call[me])
       /\ saved' = IF Persist THEN active'.set ELSE base.saved
    \/ how \in {"refused", "restored"} /\ active'.set = base.active /\ saved' = base.saved
    \/ /\ how = "rolled_back" /\ call[me].op \in {"apply", "set"}
       /\ active'.set = base.active /\ saved' = IF Persist THEN base.active ELSE base.saved
    \/ /\ how \in {"failed", "unknown"} /\ call[me].op # "get"
       /\ Persist \/ saved' = base.saved

LEMMA AnswerImplements ==
    ASSUME Inductive, work.stage # "idle",
           NEW how \in Endings, NEW p \in {"idle", "closing"}, Answer(how, p),
           UNCHANGED epoch, active' \in Configuration, saved' \in Contents, Allowed(how)
    PROVE  Step
<1> DEFINE pending == [d \in Clients |-> IF phase[d] \in {"idle", "closing"} THEN NoCall
                                         ELSE call[d]]
<1>0. PICK c \in Clients : c = me
  BY HandledCall
<1>1. /\ call[c] \in Calls /\ call[c] # NoCall /\ work # Idle
      /\ phase[c] \notin {"idle", "closing"} /\ work' = Idle
  BY <1>0, HandledCall DEF Answer
<1>2. pending[c] = call[c]
  BY <1>1
<1>3. pending' = [pending EXCEPT ![c] = NoCall]
  <2>1. /\ \A d \in Clients : d # c => phase'[d] = phase[d] /\ call'[d] = call[d]
        /\ phase'[c] = p
    BY <1>0, <1>1 DEF Answer, Inductive, ServiceOK
  <2> QED BY <1>1, <2>1
<1>4. told' = [told EXCEPT ![c] = how]
  BY <1>0 DEF Answer
<1>5. Store_!Answer(c, how)
  BY <1>1, <1>2, <1>3, <1>4 DEF Store_!Answer
<1>6. active'.set \in Contents
  BY DEF Configuration
<1>7. CASE how = "ok"
  <2>1. Store_!Succeed(c)
    BY <1>0, <1>1, <1>2, <1>5, <1>7 DEF Store_!Succeed, Store_!Outcome, Allowed, Outcome, Persist
  <2> QED BY <1>1, <2>1 DEF Step, Store_!Next
<1>8. CASE how \in {"refused", "restored"}
  <2>1. Store_!Refuse(c)
    BY <1>0, <1>1, <1>5, <1>8 DEF Store_!Refuse, Allowed
  <2> QED BY <1>1, <2>1 DEF Step, Store_!Next
<1>9. CASE how = "rolled_back"
  <2>1. Store_!RollBack(c)
    BY <1>0, <1>1, <1>2, <1>5, <1>9 DEF Store_!RollBack, Allowed, Persist
  <2> QED BY <1>1, <2>1 DEF Step, Store_!Next
<1>10. CASE how \in {"failed", "unknown"}
  <2>1. Store_!CutShort(c)
    BY <1>0, <1>1, <1>2, <1>6, <1>10 DEF Store_!CutShort, Allowed, Persist
  <2> QED BY <1>1, <1>5, <1>10, <2>1 DEF Step, Store_!Next, Store_!Fail
<1> QED BY <1>7, <1>8, <1>9, <1>10 DEF Endings, Allowed

\* What every stage of a handler leaves alone.
Frame == UNCHANGED <<doc, expected, queue, session, base, epoch>>
KindsOK == active \in Configuration /\ saved \in Contents

LEMMA AnsweredStep ==
    ASSUME Inductive, work.stage # "idle",
           NEW how \in Endings, NEW p \in {"idle", "closing"}, Answer(how, p),
           Frame, seen' \in [Clients -> Configuration], KindsOK', Spaced', Allowed(how)
    PROVE  Inductive' /\ Step
<1>1. ServiceOK' /\ QueueOK' /\ WorkOK' /\ work' = Idle
  BY AnswerKeeps DEF Frame
<1>2. DeviceOK'
  BY <1>1, KindFacts DEF Inductive, DeviceOK, Frame, KindsOK
<1>3. Step
  BY AnswerImplements DEF Frame, KindsOK
<1> QED BY <1>1, <1>2, <1>3 DEF Inductive

LEMMA EndStep ==
    ASSUME Inductive, work.stage # "idle", NEW how \in Endings, End(how),
           Frame, KindsOK', Spaced', Allowed(how)
    PROVE  Inductive' /\ Step
<1>1. Answer(how, "idle") /\ seen' \in [Clients -> Configuration]
  BY DEF End, Inductive, ServiceOK
<1> QED BY <1>1, AnsweredStep

\* A lost connection refuses what has not begun to change anything.
LEMMA LostStep ==
    ASSUME Inductive, work.stage # "idle", Lost, Frame, KindsOK', Spaced',
           work.stage = "read" => UNCHANGED <<active, saved>>,
           Persist \/ saved' = base.saved
    PROVE  Inductive' /\ Step
<1>1. seen' \in [Clients -> Configuration]
  BY DEF Lost, Inductive, ServiceOK
<1>2. CASE work.stage = "read"
  <2>1. Answer("refused", "idle")
    BY <1>2 DEF Lost, Inductive, QueueOK
  <2>2. Allowed("refused")
    BY <1>2 DEF Allowed, Inductive, WorkOK
  <2> QED BY <1>1, <2>1, <2>2, AnsweredStep DEF Endings
<1>3. CASE work.stage # "read"
  <2>1. Answer("unknown", "idle") /\ call[me].op # "get"
    BY <1>3, HandledCall DEF Lost, Inductive, QueueOK
  <2>2. Allowed("unknown")
    BY <2>1 DEF Allowed
  <2> QED BY <1>1, <2>1, <2>2, AnsweredStep DEF Endings
<1> QED BY <1>2, <1>3

\* The handler goes on: nothing of it is to be seen.
LEMMA ContinuedStep ==
    ASSUME Inductive, work.stage \notin {"idle", "read"},
           work'.stage \in Stages \ {"idle", "read"}, work'.client = me,
           work' \in [stage : Stages, client : Clients \union {Nobody},
                      want : Configuration, before : Configuration],
           UNCHANGED <<call, phase, seen, told>>, Frame, KindsOK', WorkOK', Spaced'
    PROVE  Inductive' /\ Step
<1>1. ServiceOK'
  BY DEF Inductive, ServiceOK, Frame
<1>2. QueueOK'
  BY DEF Inductive, QueueOK, Frame, me
<1>3. DeviceOK'
  BY DEF Inductive, DeviceOK, Frame, KindsOK
<1>4. work # Idle /\ work' # Idle
  BY KindFacts
<1>5. UNCHANGED Store_!vars
  BY <1>4 DEF Store_!vars, Frame
<1> QED BY <1>1, <1>2, <1>3, <1>5 DEF Inductive, Step

LEMMA GotoStep ==
    ASSUME Inductive, work.stage \notin {"idle", "read"},
           NEW s \in Stages \ {"idle", "read"}, Goto(s),
           Frame, KindsOK', WorkOK', Spaced'
    PROVE  Inductive' /\ Step
<1>1. work' = [work EXCEPT !.stage = s] /\ UNCHANGED <<call, phase, seen, told>>
  BY DEF Goto
<1>2. /\ work'.stage = s /\ work'.client = me
      /\ work' \in [stage : Stages, client : Clients \union {Nobody},
                    want : Configuration, before : Configuration]
  BY <1>1 DEF Inductive, DeviceOK, me
<1> QED BY <1>1, <1>2, ContinuedStep

LEMMA SucceedStep ==
    ASSUME Inductive, work.stage \notin {"idle", "read"}, Succeed,
           Frame, KindsOK', Spaced', UNCHANGED active, Allowed("ok")
    PROVE  Inductive' /\ Step
<1>1. PICK p \in {"idle", "closing"} : Answer("ok", p)
  BY HandledCall DEF Succeed
<1>2. seen' \in [Clients -> Configuration]
  BY HandledCall DEF Succeed, Inductive, ServiceOK, DeviceOK
<1> QED BY <1>1, <1>2, AnsweredStep DEF Endings

--------------------------------------------------------------------------------
\* The handlers' stages.

LEMMA ReadConfigurationStep == ASSUME Inductive, ReadConfiguration PROVE Inductive' /\ Step
<1>1. /\ work.stage = "read" /\ Frame /\ UNCHANGED <<active, saved, paced, recent>>
      /\ Lost \/ Succeed \/ End("refused")
  BY DEF ReadConfiguration, Stage, Read, Frame, device
<1>2. KindsOK' /\ Spaced' /\ active.set = base.active /\ saved = base.saved
  BY <1>1 DEF Inductive, DeviceOK, KindsOK, Spaced, WorkOK
<1>3. CASE Lost
  BY <1>1, <1>2, <1>3, LostStep DEF Inductive, WorkOK
<1>4. CASE End("refused")
  BY <1>1, <1>2, <1>4, EndStep DEF Allowed, Endings
<1>5. CASE Succeed
  <2>1. seen' \in [Clients -> Configuration]
    BY <1>1, <1>5, HandledCall DEF Succeed, Inductive, ServiceOK, DeviceOK
  <2>2. CASE call[me].op = "get"
    <3>1. Answer("ok", "closing") /\ ~Persist
      BY <1>1, <1>5, <2>2, HandledCall, CallFacts DEF Succeed, Persist
    <3>2. Allowed("ok")
      BY <1>1, <1>2, <2>2, <3>1 DEF Allowed, Outcome
    <3> QED BY <1>1, <1>2, <2>1, <3>1, <3>2, AnsweredStep DEF Endings
  <2>3. CASE call[me].op = "apply"
    <3>1. Answer("ok", "stamping")
      BY <1>1, <1>5, <2>3 DEF Succeed, Inductive, QueueOK
    <3>2. ServiceOK' /\ QueueOK' /\ WorkOK' /\ work' = Idle
      BY <1>1, <2>1, <2>3, <3>1, AnswerKeeps DEF Endings, Frame
    <3>3. DeviceOK'
      BY <1>1, <1>2, <3>2, KindFacts DEF Inductive, DeviceOK, Frame, KindsOK
    <3>4. /\ \A c \in Clients : c # me => phase'[c] = phase[c]
          /\ phase[me] = "asking" /\ phase'[me] = "stamping" /\ UNCHANGED <<call, told>>
      BY <1>1, <3>1, HandledCall DEF Answer, Inductive, ServiceOK, QueueOK
    <3>5. work # Idle
      BY <1>1, KindFacts
    <3>6. UNCHANGED Store_!vars
      BY <1>1, <1>2, <3>2, <3>4, <3>5 DEF Store_!vars, Frame
    <3> QED BY <1>2, <3>2, <3>3, <3>6 DEF Inductive, Step
  <2> QED BY <1>1, <2>2, <2>3, HandledCall
<1> QED BY <1>1, <1>3, <1>4, <1>5

LEMMA ReadForItemStep == ASSUME Inductive, ReadForItem PROVE Inductive' /\ Step
<1>1. /\ work.stage = "item" /\ Frame /\ UNCHANGED <<active, saved, paced, recent>>
      /\ \/ Lost \/ End("refused")
         \/ /\ \E s \in Settings :
                  /\ s[call[me].part] = call[me].set[call[me].part]
                  /\ active.set \in Settings =>
                        \A p \in Parts \ {call[me].part} : s[p] = active.set[p]
                  /\ work' = [work EXCEPT !.stage = "check",
                                          !.want = [set |-> s, crc |-> active.crc]]
            /\ UNCHANGED <<call, phase, seen, told, connected>>
  BY DEF ReadForItem, Stage, Read, Frame, device
<1>2. /\ KindsOK' /\ Spaced' /\ active.set = base.active /\ saved = base.saved
      /\ call[me].op = "set"
  BY <1>1 DEF Inductive, DeviceOK, KindsOK, Spaced, WorkOK
<1>3. CASE Lost
  BY <1>1, <1>2, <1>3, LostStep
<1>4. CASE End("refused")
  BY <1>1, <1>2, <1>4, EndStep DEF Allowed, Endings
<1>5. ASSUME NEW s \in Settings,
             s[call[me].part] = call[me].set[call[me].part],
             active.set \in Settings =>
                \A p \in Parts \ {call[me].part} : s[p] = active.set[p],
             work' = [work EXCEPT !.stage = "check",
                                  !.want = [set |-> s, crc |-> active.crc]],
             UNCHANGED <<call, phase, seen, told>>
      PROVE  Inductive' /\ Step
  <2>1. [set |-> s, crc |-> active.crc] \in Configuration
    BY KindFacts DEF Configuration, Inductive, DeviceOK
  <2>2. /\ work' \in [stage : Stages, client : Clients \union {Nobody},
                      want : Configuration, before : Configuration]
        /\ work'.stage = "check" /\ work'.client = me /\ work'.want.set = s
    BY <1>5, <2>1 DEF Inductive, DeviceOK, Stages, me
  <2>3. base' = base /\ call' = call /\ me' = me /\ active' = active /\ saved' = saved
    BY <1>1, <1>5, <2>2 DEF Frame, me
  <2>4. Wanted'
    BY <1>2, <1>5, <2>2, <2>3 DEF Wanted
  <2>5. WorkOK'
    BY <1>2, <2>2, <2>3, <2>4 DEF WorkOK, Persist
  <2> QED BY <1>1, <1>2, <1>5, <2>2, <2>5, ContinuedStep DEF Stages
<1> QED BY <1>1, <1>3, <1>4, <1>5

LEMMA CheckStep == ASSUME Inductive, Check PROVE Inductive' /\ Step
<1>1. /\ work.stage = "check" /\ Frame /\ UNCHANGED <<active, saved, paced, recent>>
      /\ \/ Lost \/ End("refused")
         \/ /\ work' = [work EXCEPT !.stage = "write", !.before = active]
            /\ UNCHANGED <<call, phase, seen, told>>
  BY DEF Check, Stage, Read, Frame, device
<1>2. /\ KindsOK' /\ Spaced' /\ active.set = base.active /\ saved = base.saved
  BY <1>1 DEF Inductive, DeviceOK, KindsOK, Spaced, WorkOK
<1>3. CASE Lost
  BY <1>1, <1>2, <1>3, LostStep
<1>4. CASE End("refused")
  BY <1>1, <1>2, <1>4, EndStep DEF Allowed, Endings
<1>5. CASE /\ work' = [work EXCEPT !.stage = "write", !.before = active]
           /\ UNCHANGED <<call, phase, seen, told>>
  <2>1. /\ work' \in [stage : Stages, client : Clients \union {Nobody},
                      want : Configuration, before : Configuration]
        /\ work'.stage = "write" /\ work'.client = me /\ work'.want = work.want
        /\ work'.before = active
    BY <1>5 DEF Inductive, DeviceOK, Stages, me
  <2>2. WorkOK'
    BY <1>1, <1>2, <1>5, <2>1 DEF WorkOK, Wanted, Persist, me, Frame, Inductive
  <2> QED BY <1>1, <1>2, <1>5, <2>1, <2>2, ContinuedStep DEF Stages
<1> QED BY <1>1, <1>3, <1>4, <1>5

LEMMA WriteActiveStep == ASSUME Inductive, WriteActive PROVE Inductive' /\ Step
<1>1. /\ work.stage = "write" /\ Frame /\ UNCHANGED <<saved, paced, recent>>
      /\ Lost \/ Goto("readback") \/ Goto("undo")
      /\ active' = active \/ \E K \in SUBSET Parts : active' = Merge(K, work.want)
  BY DEF WriteActive, Stage, Write, Frame, Results
<1>2. saved = base.saved /\ work.want.set \in Settings
  BY <1>1 DEF Inductive, WorkOK, Wanted
<1>3. KindsOK' /\ Spaced'
  BY <1>1, <1>2, MergeKind DEF Inductive, DeviceOK, KindsOK, Spaced
<1>4. CASE Lost
  BY <1>1, <1>2, <1>3, <1>4, LostStep
<1>5. ASSUME NEW s \in {"readback", "undo"}, Goto(s) PROVE Inductive' /\ Step
  <2>1. work' = [work EXCEPT !.stage = s] /\ UNCHANGED call
    BY <1>5 DEF Goto
  <2>2. WorkOK'
    BY <1>1, <1>2, <2>1 DEF WorkOK, Wanted, Persist, me, Frame, Inductive, DeviceOK
  <2> QED BY <1>1, <1>3, <1>5, <2>2, GotoStep DEF Stages
<1> QED BY <1>1, <1>4, <1>5

\* What an answer with what was wanted allows.
LEMMA WantedIsAllowed ==
    ASSUME Inductive, work.stage \in {"readback", "reread"}, Frame,
           active'.set = work.want.set,
           saved' = IF Persist THEN active'.set ELSE base.saved
    PROVE  Allowed("ok")
<1>1. call[me] \in Calls /\ call[me].op \in {"apply", "set"} /\ Wanted
  BY HandledCall DEF Inductive, WorkOK
<1> QED BY <1>1 DEF Allowed, Outcome, Wanted

LEMMA ReadbackStep == ASSUME Inductive, Readback PROVE Inductive' /\ Step
<1>1. /\ work.stage = "readback" /\ Frame /\ UNCHANGED <<active, saved, paced, recent>>
      /\ \/ Lost \/ Goto("undo")
         \/ active = work.want /\ IF Persist THEN Goto("store") ELSE Succeed
  BY DEF Readback, Stage, Read, Frame, device
<1>2. /\ KindsOK' /\ Spaced' /\ (~Persist => saved = base.saved)
  BY <1>1 DEF Inductive, DeviceOK, KindsOK, Spaced, WorkOK
<1>3. CASE Lost
  BY <1>1, <1>2, <1>3, LostStep
<1>4. CASE active = work.want /\ ~Persist /\ Succeed
  BY <1>1, <1>2, <1>4, WantedIsAllowed, SucceedStep
<1>5. ASSUME NEW s \in {"undo", "store"}, Goto(s), s = "store" => Persist
      PROVE  Inductive' /\ Step
  <2>1. work' = [work EXCEPT !.stage = s] /\ UNCHANGED call
    BY <1>5 DEF Goto
  <2>2. WorkOK'
    BY <1>1, <1>2, <1>5, <2>1 DEF WorkOK, Wanted, Persist, me, Frame, Inductive, DeviceOK
  <2> QED BY <1>1, <1>2, <1>5, <2>2, GotoStep DEF Stages
<1> QED BY <1>1, <1>3, <1>4, <1>5

\* What an NVM operation leaves is of the device's kinds.
LEMMA StoredKind ==
    ASSUME Inductive, NEW op \in {"store", "reload", "reset"}
    PROVE  Stored(op) \in Contents /\ [set |-> Stored(op), crc |-> Stored(op)] \in Configuration
<1>1. Stored(op) \in Contents
  BY KindFacts DEF Stored, Inductive, DeviceOK, Configuration
<1> QED BY <1>1 DEF Configuration

LEMMA StoreStep == ASSUME Inductive, Store PROVE Inductive' /\ Step
<1>1. /\ work.stage = "store" /\ Frame /\ paced' = TRUE
      /\ \/ /\ Lost \/ Goto("undo")
            /\ active' \in {active, [set |-> Stored("store"), crc |-> Stored("store")]}
            /\ saved' \in {saved, Stored("store"), Blank}
         \/ /\ Goto("reread") /\ saved' = Stored("store")
            /\ active' = [set |-> Stored("store"), crc |-> Stored("store")]
      /\ recent' \in {recent, TRUE}
  BY DEF Store, Stage, Nvm, Frame, Results
<1>2. Persist /\ work.before.set = base.active /\ Wanted /\ call[me].op \in {"apply", "set"}
  BY <1>1 DEF Inductive, WorkOK
<1>3. KindsOK' /\ Spaced'
  BY <1>1, StoredKind, KindFacts DEF Inductive, DeviceOK, KindsOK, Spaced
<1>4. CASE Lost
  BY <1>1, <1>2, <1>3, <1>4, LostStep
<1>5. ASSUME NEW s \in {"undo", "reread"}, Goto(s), s = "reread" => saved' = active'.set
      PROVE  Inductive' /\ Step
  <2>1. work' = [work EXCEPT !.stage = s] /\ UNCHANGED call
    BY <1>5 DEF Goto
  <2>2. WorkOK'
    BY <1>1, <1>2, <1>5, <2>1 DEF WorkOK, Wanted, Persist, me, Frame, Inductive, DeviceOK
  <2> QED BY <1>1, <1>3, <1>5, <2>2, GotoStep DEF Stages
<1> QED BY <1>1, <1>4, <1>5

LEMMA RereadStep == ASSUME Inductive, Reread PROVE Inductive' /\ Step
<1>1. /\ work.stage = "reread" /\ Frame /\ UNCHANGED <<active, saved, paced, recent>>
      /\ Lost \/ Goto("undo") \/ (active.set = work.want.set /\ Succeed)
  BY DEF Reread, Stage, Read, Frame, device
<1>2. KindsOK' /\ Spaced' /\ Persist /\ saved = active.set
  BY <1>1 DEF Inductive, DeviceOK, KindsOK, Spaced, WorkOK
<1>3. CASE Lost
  BY <1>1, <1>2, <1>3, LostStep
<1>4. CASE active.set = work.want.set /\ Succeed
  BY <1>1, <1>2, <1>4, WantedIsAllowed, SucceedStep
<1>5. CASE Goto("undo")
  <2>1. work' = [work EXCEPT !.stage = "undo"] /\ UNCHANGED call
    BY <1>5 DEF Goto
  <2>2. WorkOK'
    BY <1>1, <1>2, <2>1 DEF WorkOK, Persist, me, Frame, Inductive, DeviceOK
  <2> QED BY <1>1, <1>2, <1>5, <2>2, GotoStep DEF Stages
<1> QED BY <1>1, <1>3, <1>4, <1>5

\* A rollback or a restoration writes what was active before.
LEMMA PutBackStep ==
    ASSUME Inductive,
           NEW at \in {"undo", "restore"}, NEW next \in {"undo_check", "restore_check"},
           work.stage = at, at = "undo" <=> next = "undo_check",
           Frame, UNCHANGED <<saved, paced, recent>>,
           Lost \/ Goto(next) \/ End("failed"),
           active' = active \/ (/\ work.before.set \in Settings
                                /\ \E K \in SUBSET Parts : active' = Merge(K, work.before))
    PROVE  Inductive' /\ Step
<1>1. /\ KindsOK' /\ Spaced'
  BY MergeKind DEF Inductive, DeviceOK, KindsOK, Spaced
<1>2. /\ Persist \/ saved' = base.saved
      /\ work.before.set = base.active /\ call[me].op \in {"apply", "set", "reload"}
      /\ at = "undo" => call[me].op # "reload"
      /\ at = "restore" => call[me].op = "reload"
  BY DEF Inductive, WorkOK
<1>3. CASE Lost
  BY <1>1, <1>2, <1>3, LostStep
<1>4. CASE End("failed")
  <2>1. Allowed("failed")
    BY <1>2 DEF Allowed
  <2> QED BY <1>1, <1>4, <2>1, EndStep DEF Endings
<1>5. CASE Goto(next)
  <2>1. work' = [work EXCEPT !.stage = next] /\ UNCHANGED call
    BY <1>5 DEF Goto
  <2>2. WorkOK'
    BY <1>2, <2>1 DEF WorkOK, Persist, me, Frame, Inductive, DeviceOK
  <2> QED BY <1>1, <1>5, <2>2, GotoStep DEF Stages
<1> QED BY <1>3, <1>4, <1>5

LEMMA UndoStep == ASSUME Inductive, Undo \/ Restore PROVE Inductive' /\ Step
<1>1. ASSUME NEW at \in {"undo", "restore"}, NEW next \in {"undo_check", "restore_check"},
             Stage(at), UNCHANGED paced, at = "undo" <=> next = "undo_check",
             Write(work.before, Goto(next), End("failed"))
      PROVE  Inductive' /\ Step
  <2>1. /\ work.stage = at /\ Frame /\ UNCHANGED <<saved, recent>>
        /\ Lost \/ Goto(next) \/ End("failed")
        /\ active' = active \/ (/\ work.before.set \in Settings
                                /\ \E K \in SUBSET Parts : active' = Merge(K, work.before))
    BY <1>1 DEF Stage, Write, Frame, Results, Encodable
  <2> QED BY <1>1, <2>1, PutBackStep
<1> QED BY <1>1 DEF Undo, Restore

LEMMA UndoCheckStep == ASSUME Inductive, UndoCheck PROVE Inductive' /\ Step
<1>1. /\ work.stage = "undo_check" /\ Frame /\ UNCHANGED <<active, saved, paced, recent>>
      /\ \/ Lost \/ End("failed")
         \/ active = work.before /\ IF Persist THEN Goto("undo_store") ELSE End("rolled_back")
  BY DEF UndoCheck, Stage, Read, Frame, device
<1>2. /\ KindsOK' /\ Spaced' /\ (Persist \/ saved' = base.saved)
      /\ work.before.set = base.active /\ call[me].op \in {"apply", "set"}
  BY <1>1 DEF Inductive, DeviceOK, KindsOK, Spaced, WorkOK
<1>3. CASE Lost
  BY <1>1, <1>2, <1>3, LostStep
<1>4. CASE End("failed")
  <2>1. Allowed("failed")
    BY <1>2 DEF Allowed
  <2> QED BY <1>1, <1>2, <1>4, <2>1, EndStep DEF Endings
<1>5. CASE active = work.before /\ ~Persist /\ End("rolled_back")
  <2>1. Allowed("rolled_back")
    BY <1>1, <1>2, <1>5 DEF Allowed
  <2> QED BY <1>1, <1>2, <1>5, <2>1, EndStep DEF Endings
<1>6. CASE Persist /\ Goto("undo_store")
  <2>1. work' = [work EXCEPT !.stage = "undo_store"] /\ UNCHANGED call
    BY <1>6 DEF Goto
  <2>2. WorkOK'
    BY <1>1, <1>2, <1>6, <2>1 DEF WorkOK, Persist, me, Frame, Inductive, DeviceOK
  <2> QED BY <1>1, <1>2, <1>6, <2>2, GotoStep DEF Stages
<1> QED BY <1>1, <1>3, <1>4, <1>5, <1>6

LEMMA UndoStoreStep == ASSUME Inductive, UndoStore PROVE Inductive' /\ Step
<1>1. /\ work.stage = "undo_store" /\ Frame /\ paced' = TRUE
      /\ \/ /\ Lost \/ End("failed")
            /\ active' \in {active, [set |-> Stored("store"), crc |-> Stored("store")]}
            /\ saved' \in {saved, Stored("store"), Blank}
         \/ /\ Goto("undo_reread") /\ saved' = Stored("store")
            /\ active' = [set |-> Stored("store"), crc |-> Stored("store")]
      /\ recent' \in {recent, TRUE}
  BY DEF UndoStore, Stage, Nvm, Frame, Results
<1>2. Persist /\ work.before.set = base.active /\ call[me].op \in {"apply", "set"}
  BY <1>1 DEF Inductive, WorkOK
<1>3. KindsOK' /\ Spaced'
  BY <1>1, StoredKind, KindFacts DEF Inductive, DeviceOK, KindsOK, Spaced
<1>4. CASE Lost
  BY <1>1, <1>2, <1>3, <1>4, LostStep
<1>5. CASE End("failed")
  <2>1. Allowed("failed")
    BY <1>2 DEF Allowed
  <2> QED BY <1>1, <1>3, <1>5, <2>1, EndStep DEF Endings
<1>6. CASE Goto("undo_reread") /\ saved' = active'.set
  <2>1. work' = [work EXCEPT !.stage = "undo_reread"] /\ UNCHANGED call
    BY <1>6 DEF Goto
  <2>2. WorkOK'
    BY <1>1, <1>2, <1>6, <2>1 DEF WorkOK, Persist, me, Frame, Inductive, DeviceOK
  <2> QED BY <1>1, <1>3, <1>6, <2>2, GotoStep DEF Stages
<1> QED BY <1>1, <1>4, <1>5, <1>6

LEMMA UndoRereadStep == ASSUME Inductive, UndoReread PROVE Inductive' /\ Step
<1>1. /\ work.stage = "undo_reread" /\ Frame /\ UNCHANGED <<active, saved, paced, recent>>
      /\ Lost \/ End("failed") \/ (active.set = work.before.set /\ End("rolled_back"))
  BY DEF UndoReread, Stage, Read, Frame, device
<1>2. /\ KindsOK' /\ Spaced' /\ Persist /\ saved = active.set
      /\ work.before.set = base.active /\ call[me].op \in {"apply", "set"}
  BY <1>1 DEF Inductive, DeviceOK, KindsOK, Spaced, WorkOK
<1>3. CASE Lost
  BY <1>1, <1>2, <1>3, LostStep
<1>4. CASE End("failed")
  <2>1. Allowed("failed")
    BY <1>2 DEF Allowed
  <2> QED BY <1>1, <1>2, <1>4, <2>1, EndStep DEF Endings
<1>5. CASE active.set = work.before.set /\ End("rolled_back")
  <2>1. Allowed("rolled_back")
    BY <1>1, <1>2, <1>5 DEF Allowed
  <2> QED BY <1>1, <1>2, <1>5, <2>1, EndStep DEF Endings
<1> QED BY <1>1, <1>3, <1>4, <1>5

LEMMA KeepStep == ASSUME Inductive, Keep PROVE Inductive' /\ Step
<1>1. /\ work.stage = "keep" /\ Frame /\ UNCHANGED <<active, saved, paced, recent>>
      /\ \/ Lost \/ End("refused")
         \/ /\ work' = [work EXCEPT !.stage = "nvm", !.before = active]
            /\ UNCHANGED <<call, phase, seen, told>>
  BY DEF Keep, Stage, Read, Frame, device
<1>2. /\ KindsOK' /\ Spaced' /\ active.set = base.active /\ saved = base.saved
      /\ call[me].op = "reload"
  BY <1>1 DEF Inductive, DeviceOK, KindsOK, Spaced, WorkOK
<1>3. CASE Lost
  BY <1>1, <1>2, <1>3, LostStep
<1>4. CASE End("refused")
  BY <1>1, <1>2, <1>4, EndStep DEF Allowed, Endings
<1>5. CASE /\ work' = [work EXCEPT !.stage = "nvm", !.before = active]
           /\ UNCHANGED <<call, phase, seen, told>>
  <2>1. /\ work' \in [stage : Stages, client : Clients \union {Nobody},
                      want : Configuration, before : Configuration]
        /\ work'.stage = "nvm" /\ work'.client = me /\ work'.before = active
    BY <1>5 DEF Inductive, DeviceOK, Stages, me
  <2>2. WorkOK'
    BY <1>1, <1>2, <1>5, <2>1 DEF WorkOK, Persist, me, Frame, Inductive
  <2> QED BY <1>1, <1>2, <1>5, <2>1, <2>2, ContinuedStep DEF Stages
<1> QED BY <1>1, <1>3, <1>4, <1>5

LEMMA NvmOperationStep == ASSUME Inductive, NvmOperation PROVE Inductive' /\ Step
<1> DEFINE op == call[me].op
<1> DEFINE new == [set |-> Stored(op), crc |-> Stored(op)]
<1>1. /\ work.stage = "nvm" /\ Frame
      /\ IF op = "reset" THEN paced' = TRUE ELSE UNCHANGED paced
      /\ \/ Lost \/ End("failed")
         \/ Goto("loaded") /\ active' = new /\ (op = "reload" \/ saved' = Stored(op))
      /\ active' \in {active, new}
      /\ op = "reload" => UNCHANGED <<saved, recent>>
      /\ op # "reload" => saved' \in {saved, Stored(op), Blank} /\ recent' \in {recent, TRUE}
  BY DEF NvmOperation, Stage, Nvm, Frame, Results
<1>2. /\ op \in {"reload", "reset"} /\ saved = base.saved
      /\ op = "reload" => work.before.set = base.active
      /\ op = "reset" => Persist
  BY <1>1, HandledCall, CallFacts DEF Inductive, WorkOK, Persist
<1>3. KindsOK' /\ Spaced'
  <2>1. Stored(op) \in Contents /\ new \in Configuration
    BY <1>2, StoredKind
  <2>2. KindsOK'
    BY <1>1, <1>2, <2>1, KindFacts DEF Inductive, DeviceOK, KindsOK
  <2>3. Spaced'
    <3>1. CASE op = "reload"
      <4>1. UNCHANGED <<paced, recent>>
        BY <1>1, <3>1
      <4> QED BY <4>1 DEF Inductive, Spaced
    <3>2. CASE op = "reset"
      <4>1. paced' = TRUE /\ recent' \in {recent, TRUE}
        BY <1>1, <3>2
      <4> QED BY <4>1 DEF Inductive, Spaced
    <3> QED BY <1>2, <3>1, <3>2
  <2> QED BY <2>2, <2>3
<1>4. CASE Lost
  BY <1>1, <1>2, <1>3, <1>4, LostStep
<1>5. CASE End("failed")
  <2>1. Allowed("failed")
    BY <1>1, <1>2 DEF Allowed
  <2> QED BY <1>1, <1>3, <1>5, <2>1, EndStep DEF Endings
<1>6. CASE Goto("loaded") /\ active' = new /\ (op = "reload" \/ saved' = Stored(op))
  <2>1. work' = [work EXCEPT !.stage = "loaded"] /\ UNCHANGED call
    BY <1>6 DEF Goto
  <2>2. active'.set = saved' /\ (op = "reset" => saved' = Defaults)
    BY <1>1, <1>2, <1>6 DEF Stored
  <2>3. WorkOK'
    BY <1>1, <1>2, <2>1, <2>2 DEF WorkOK, Persist, me, Frame, Inductive, DeviceOK
  <2> QED BY <1>1, <1>3, <1>6, <2>3, GotoStep DEF Stages
<1> QED BY <1>1, <1>2, <1>4, <1>5, <1>6

LEMMA LoadedStep == ASSUME Inductive, Loaded PROVE Inductive' /\ Step
<1>1. /\ work.stage = "loaded" /\ Frame /\ UNCHANGED <<active, saved, paced, recent>>
      /\ \/ Lost \/ Succeed
         \/ IF call[me].op = "reload" THEN Goto("restore") ELSE End("failed")
  BY DEF Loaded, Stage, Read, Frame, device
<1>2. /\ KindsOK' /\ Spaced' /\ saved = active.set
      /\ call[me].op \in {"reload", "reset"}
      /\ call[me].op = "reload" => saved = base.saved /\ work.before.set = base.active
                                   /\ ~Persist
      /\ call[me].op = "reset" => saved = Defaults /\ Persist
  BY <1>1, HandledCall, CallFacts
  DEF Inductive, DeviceOK, KindsOK, Spaced, WorkOK, Persist
<1>3. CASE Lost
  BY <1>1, <1>2, <1>3, LostStep
<1>4. CASE Succeed
  <2>1. Allowed("ok")
    BY <1>1, <1>2 DEF Allowed, Outcome
  <2> QED BY <1>1, <1>2, <1>4, <2>1, SucceedStep
<1>5. CASE call[me].op # "reload" /\ End("failed")
  <2>1. Allowed("failed")
    BY <1>2, <1>5 DEF Allowed
  <2> QED BY <1>1, <1>2, <1>5, <2>1, EndStep DEF Endings
<1>6. CASE call[me].op = "reload" /\ Goto("restore")
  <2>1. work' = [work EXCEPT !.stage = "restore"] /\ UNCHANGED call
    BY <1>6 DEF Goto
  <2>2. WorkOK'
    BY <1>1, <1>2, <1>6, <2>1 DEF WorkOK, Persist, me, Frame, Inductive, DeviceOK
  <2> QED BY <1>1, <1>2, <1>6, <2>2, GotoStep DEF Stages
<1> QED BY <1>1, <1>3, <1>4, <1>5, <1>6

LEMMA RestoreCheckStep == ASSUME Inductive, RestoreCheck PROVE Inductive' /\ Step
<1>1. /\ work.stage = "restore_check" /\ Frame /\ UNCHANGED <<active, saved, paced, recent>>
      /\ Lost \/ End("failed") \/ (active = work.before /\ End("restored"))
  BY DEF RestoreCheck, Stage, Read, Frame, device
<1>2. /\ KindsOK' /\ Spaced' /\ saved = base.saved /\ work.before.set = base.active
      /\ call[me].op = "reload"
  BY <1>1, HandledCall, CallFacts
  DEF Inductive, DeviceOK, KindsOK, Spaced, WorkOK, Persist
<1>3. CASE Lost
  BY <1>1, <1>2, <1>3, LostStep
<1>4. CASE End("failed")
  <2>1. Allowed("failed")
    BY <1>1, <1>2 DEF Allowed
  <2> QED BY <1>1, <1>2, <1>4, <2>1, EndStep DEF Endings
<1>5. CASE active = work.before /\ End("restored")
  <2>1. Allowed("restored")
    BY <1>1, <1>2, <1>5 DEF Allowed
  <2> QED BY <1>1, <1>2, <1>5, <2>1, EndStep DEF Endings
<1> QED BY <1>1, <1>3, <1>4, <1>5

--------------------------------------------------------------------------------
\* The queue and what happens around the handlers.

LEMMA TakenFromQueue ==
    ASSUME QueueOK, queue # <<>>
    PROVE  /\ Head(queue) \in Clients /\ Tail(queue) \in Seq(Clients)
           /\ phase[Head(queue)] \in {"asking", "waiting"}
           /\ \A i \in DOMAIN Tail(queue) :
                 i + 1 \in DOMAIN queue /\ Tail(queue)[i] = queue[i + 1]
           /\ \A i \in DOMAIN Tail(queue) : Tail(queue)[i] # Head(queue)
           /\ \A i, j \in DOMAIN Tail(queue) : Tail(queue)[i] = Tail(queue)[j] => i = j
<1>1. queue \in Seq(Clients) /\ 1 \in DOMAIN queue /\ Head(queue) = queue[1]
  BY DEF QueueOK
<1>2. /\ Tail(queue) \in Seq(Clients)
      /\ \A i \in DOMAIN Tail(queue) :
            i \in Nat \ {0} /\ i + 1 \in DOMAIN queue /\ Tail(queue)[i] = queue[i + 1]
  BY <1>1 DEF QueueOK
<1>3. \A i \in DOMAIN Tail(queue) : i + 1 # 1
  BY <1>2
<1> QED BY <1>1, <1>2, <1>3 DEF QueueOK

LEMMA AddedToQueue ==
    ASSUME QueueOK, NEW c \in Clients, phase[c] \notin {"asking", "waiting"}
    PROVE  /\ Append(queue, c) \in Seq(Clients)
           /\ \A i \in DOMAIN Append(queue, c) :
                 \/ i \in DOMAIN queue /\ Append(queue, c)[i] = queue[i]
                 \/ Append(queue, c)[i] = c
           /\ \A i, j \in DOMAIN Append(queue, c) :
                 Append(queue, c)[i] = Append(queue, c)[j] => i = j
<1>1. /\ queue \in Seq(Clients) /\ Append(queue, c) \in Seq(Clients)
      /\ \A i \in DOMAIN queue : queue[i] # c
  BY DEF QueueOK
<1>2. \A i \in DOMAIN Append(queue, c) :
         \/ i \in DOMAIN queue /\ Append(queue, c)[i] = queue[i]
         \/ i = Len(queue) + 1 /\ Append(queue, c)[i] = c
  BY <1>1
<1> QED BY <1>1, <1>2 DEF QueueOK

\* What the service decides by itself leaves the handler and the device alone.
LEMMA ServiceKeeps ==
    ASSUME Inductive, NEW c \in Clients, work = Idle \/ c # me,
           \A d \in Clients \ {c} : UNCHANGED <<phase[d], call[d]>>,
           UNCHANGED <<work, device, base, time, session>>
    PROVE  DeviceOK' /\ WorkOK' /\ Spaced'
<1>1. DeviceOK' /\ Spaced'
  BY DEF Inductive, DeviceOK, Spaced, device, time
<1>2. CASE work = Idle
  BY <1>1, <1>2, KindFacts DEF WorkOK
<1>3. CASE work # Idle /\ c # me
  <2>1. me \in Clients /\ call'[me] = call[me]
    BY <1>3, HandledCall DEF Inductive, QueueOK
  <2> QED BY <1>1, <2>1 DEF Inductive, WorkOK, Wanted, Persist, me, device
<1> QED BY <1>1, <1>2, <1>3

\* A call whose command is neither queued nor handled ends or goes on.
LEMMA ServiceStep ==
    ASSUME Inductive, NEW c \in Clients,
           phase[c] \in {"idle", "stamping", "closing"},
           phase' = [phase EXCEPT ![c] = phase'[c]], phase'[c] \in Phases,
           call' = [call EXCEPT ![c] = call'[c]],
           IF phase'[c] \in {"asking", "waiting"}
           THEN queue' = Append(queue, c) ELSE UNCHANGED queue,
           ServiceOK',
           UNCHANGED <<work, device, base, time, session>>
    PROVE  Inductive'
<1>1. \A d \in Clients \ {c} : UNCHANGED <<phase[d], call[d]>>
  BY DEF Inductive, ServiceOK
<1>2. work.stage # "idle" => c # me /\ work # Idle
  BY HandledCall, KindFacts
<1>3. work.stage = "idle" => work = Idle
  BY DEF Inductive, QueueOK
<1>4. DeviceOK' /\ WorkOK' /\ Spaced'
  BY <1>1, <1>2, <1>3, ServiceKeeps
<1>5. QueueOK'
  <2>1. CASE phase'[c] \in {"asking", "waiting"}
    <3>1. queue' = Append(queue, c)
      BY <2>1
    <3>2. queue' \in Seq(Clients) /\ (\A i, j \in DOMAIN queue' : queue'[i] = queue'[j] => i = j)
      BY <3>1, AddedToQueue DEF Inductive
    <3>3. \A i \in DOMAIN queue' : (i \in DOMAIN queue /\ queue'[i] = queue[i]) \/ queue'[i] = c
      BY <3>1, AddedToQueue DEF Inductive
    <3>4. \A i \in DOMAIN queue : queue[i] \in Clients \ {c}
      BY DEF Inductive, QueueOK
    <3>5. \A i \in DOMAIN queue' : phase'[queue'[i]] \in {"asking", "waiting"}
      BY <1>1, <2>1, <3>3, <3>4 DEF Inductive, QueueOK
    <3>6. work.stage # "idle" =>
              /\ me \in Clients /\ phase'[me] = phase[me]
              /\ \A i \in DOMAIN queue' : queue'[i] # me
      BY <1>1, <1>2, <3>3 DEF Inductive, QueueOK
    <3> QED BY <3>2, <3>5, <3>6 DEF Inductive, QueueOK, me
  <2>2. CASE phase'[c] \notin {"asking", "waiting"}
    <3>1. \A i \in DOMAIN queue : queue[i] \in Clients \ {c}
      BY DEF Inductive, QueueOK
    <3>2. work.stage # "idle" => me \in Clients /\ phase'[me] = phase[me]
      BY <1>1, <1>2 DEF Inductive, QueueOK
    <3> QED BY <1>1, <2>2, <3>1, <3>2 DEF Inductive, QueueOK, me
  <2> QED BY <2>1, <2>2
<1> QED BY <1>4, <1>5 DEF Inductive

LEMMA TakeStep == ASSUME Inductive, Take PROVE Inductive' /\ Step
<1> DEFINE c == Head(queue)
<1>1. /\ work = Idle /\ queue' = Tail(queue) /\ c \in Clients
      /\ phase[c] \in {"asking", "waiting"} /\ call[c] \in Calls
      /\ UNCHANGED <<doc, seen, expected, session, paced, recent, active, saved, epoch>>
  BY TakenFromQueue DEF Take, Inductive, ServiceOK, time, device
<1>2. /\ queue' \in Seq(Clients)
      /\ \A i, j \in DOMAIN queue' : queue'[i] = queue'[j] => i = j
      /\ \A i \in DOMAIN queue' : /\ queue'[i] \in Clients \ {c}
                                  /\ phase[queue'[i]] \in {"asking", "waiting"}
  <2>1. \A i \in DOMAIN queue' : queue'[i] \in Clients
    BY <1>1, TakenFromQueue DEF Inductive, Take
  <2> QED BY <1>1, <2>1, TakenFromQueue DEF Inductive, QueueOK, Take
<1>3. Spaced'
  BY <1>1 DEF Inductive, Spaced
<1>4. CASE connected
  <2>1. /\ base' = [active |-> active.set, saved |-> saved]
        /\ work' = [Idle EXCEPT !.client = c, !.stage = FirstStage(c),
              !.want = IF call[c].op = "apply"
                       THEN [set |-> call[c].set, crc |-> seen[c].crc]
                       ELSE Nothing]
        /\ UNCHANGED <<call, phase, told>>
    BY <1>4 DEF Take
  <2>2. /\ FirstStage(c) \in {"read", "check", "item", "keep", "nvm"}
        /\ FirstStage(c) = "read" <=> phase[c] = "asking"
        /\ FirstStage(c) = "check" => call[c].op = "apply"
        /\ FirstStage(c) = "item" => call[c].op = "set"
        /\ FirstStage(c) = "keep" => call[c].op = "reload"
        /\ FirstStage(c) = "nvm" => call[c].op = "reset"
    BY <1>1, CallFacts DEF FirstStage, Inductive, ServiceOK
  <2>3. [set |-> call[c].set, crc |-> seen[c].crc] \in Configuration
        /\ call[c].set \in Settings
    BY <1>1, CallFacts, KindFacts DEF Inductive, ServiceOK, Configuration
  <2>4. /\ work'.stage = FirstStage(c) /\ work'.client = c
        /\ call[c].op = "apply" => work'.want.set = call[c].set
        /\ work' \in [stage : Stages, client : Clients \union {Nobody},
                      want : Configuration, before : Configuration]
    BY <1>1, <2>1, <2>2, <2>3, KindFacts DEF Idle, Stages
  <2>5. ServiceOK'
    BY <1>1, <2>1 DEF Inductive, ServiceOK
  <2>6. QueueOK'
    BY <1>1, <1>2, <2>1, <2>2, <2>4 DEF QueueOK, me, Stages
  <2>7. DeviceOK'
    BY <1>1, <2>1, <2>4 DEF Inductive, DeviceOK, Configuration
  <2>8. WorkOK'
    BY <1>1, <2>1, <2>2, <2>3, <2>4 DEF WorkOK, Wanted, me
  <2>9. work' # Idle /\ base'.active = active.set /\ base'.saved = saved
    BY <2>1, <2>2, <2>4, KindFacts
  <2>10. UNCHANGED Store_!vars
    BY <1>1, <2>1, <2>9 DEF Store_!vars
  <2> QED BY <1>3, <2>5, <2>6, <2>7, <2>8, <2>10 DEF Inductive, Step
<1>5. CASE ~connected
  <2>1. /\ phase' = [phase EXCEPT ![c] = "idle"] /\ call' = [call EXCEPT ![c] = NoCall]
        /\ told' = [told EXCEPT ![c] = "refused"] /\ UNCHANGED <<base, work>>
    BY <1>5 DEF Take
  <2>2. /\ \A d \in Clients \ {c} : phase'[d] = phase[d] /\ call'[d] = call[d]
        /\ phase'[c] = "idle"
    BY <1>1, <2>1 DEF Inductive, ServiceOK
  <2>3. ServiceOK'
    <3>1. /\ phase' \in [Clients -> Phases] /\ call' \in [Clients -> Calls \union {NoCall}]
          /\ told' \in [Clients -> Endings]
      BY <1>1, <2>1 DEF Inductive, ServiceOK, Phases, Endings
    <3> QED BY <1>1, <2>2, <3>1 DEF Inductive, ServiceOK
  <2>4. QueueOK'
    BY <1>1, <1>2, <2>1, <2>2, KindFacts DEF QueueOK, Stages
  <2>5. DeviceOK' /\ WorkOK'
    BY <1>1, <2>1, KindFacts DEF Inductive, DeviceOK, WorkOK
  <2>6. PICK d \in Clients : d = c
    BY <1>1
  <2>7. Store_!Refuse(d)
    <3> DEFINE pending == [e \in Clients |-> IF phase[e] \in {"idle", "closing"} THEN NoCall
                                             ELSE call[e]]
    <3>1. pending[d] # NoCall
      BY <1>1, <2>6, CallFacts
    <3>2. pending' = [pending EXCEPT ![d] = NoCall]
      BY <2>2, <2>6
    <3>3. told' = [told EXCEPT ![d] = "refused"]
      BY <2>1, <2>6
    <3>4. Store_!Answer(d, "refused")
      BY <1>1, <3>1, <3>2, <3>3 DEF Store_!Answer
    <3> QED BY <1>1, <2>1, <3>4 DEF Store_!Refuse
  <2>8. Step
    BY <2>7 DEF Step, Store_!Next
  <2> QED BY <1>3, <2>3, <2>4, <2>5, <2>8 DEF Inductive
<1> QED BY <1>4, <1>5

LEMMA TickStep == ASSUME Inductive, Tick \/ Disconnect PROVE Inductive' /\ Step
<1>1. UNCHANGED <<service, queue, work, session, device, base>>
      /\ (UNCHANGED <<paced, recent>> \/ (paced' = FALSE /\ recent' = FALSE))
  BY DEF Tick, Disconnect, time
<1>2. ServiceOK' /\ QueueOK'
  BY <1>1 DEF Inductive, ServiceOK, QueueOK, service, me
<1>3. DeviceOK' /\ WorkOK'
  BY <1>1 DEF Inductive, DeviceOK, WorkOK, Wanted, Persist, service, device, me
<1>4. Spaced'
  <2>1. CASE UNCHANGED <<paced, recent>>
    BY <2>1 DEF Inductive, Spaced
  <2>2. CASE paced' = FALSE /\ recent' = FALSE
    BY <2>2 DEF Spaced
  <2> QED BY <1>1, <2>1, <2>2
<1>5. UNCHANGED Store_!vars
  BY <1>1 DEF Store_!vars, service, device
<1> QED BY <1>2, <1>3, <1>4, <1>5 DEF Inductive, Step

LEMMA ConnectStep == ASSUME Inductive, Connect PROVE Inductive' /\ Step
<1>1. /\ work = Idle /\ work' = Idle /\ session' = session + 1 /\ epoch' = epoch + 1
      /\ UNCHANGED <<call, phase, doc, seen, expected, told, queue, paced, recent, base>>
      /\ \/ UNCHANGED <<active, saved>>
         \/ active' = [set |-> saved, crc |-> saved] /\ UNCHANGED saved
         \/ \E s \in Settings : active' = [set |-> s, crc |-> s] /\ saved' = s
  BY DEF Connect, service, time
<1>2. active' \in Configuration /\ saved' \in Contents
  BY <1>1, KindFacts DEF Inductive, DeviceOK, Configuration
<1>3. ServiceOK' /\ Spaced'
  BY <1>1 DEF Inductive, ServiceOK, Spaced
<1>4. QueueOK'
  BY <1>1, KindFacts DEF Inductive, QueueOK
<1>5. DeviceOK' /\ WorkOK'
  BY <1>1, <1>2, KindFacts DEF Inductive, DeviceOK, WorkOK
<1>6. epoch' # epoch /\ active'.set \in Contents
  BY <1>1, <1>2 DEF Inductive, DeviceOK, Configuration
<1>7. Store_!Attach
  BY <1>1, <1>2, <1>6 DEF Store_!Attach
<1> QED BY <1>3, <1>4, <1>5, <1>7 DEF Inductive, Step, Store_!Next

\* What the daemon's end leaves of a write is of the device's kinds.
LEMMA CrashStep == ASSUME Inductive, Crash PROVE Inductive' /\ Step
<1> DEFINE v == IF work.stage = "write" THEN work.want ELSE work.before
<1>1. /\ work' = Idle /\ queue' = <<>> /\ session' = 0 /\ paced' = FALSE /\ recent' = FALSE
      /\ phase' = [c \in Clients |-> "idle"] /\ call' = [c \in Clients |-> NoCall]
      /\ told' = [c \in Clients |-> IF phase[c] \in {"idle", "closing"} THEN told[c]
                                    ELSE "unknown"]
      /\ UNCHANGED <<doc, seen, expected, saved, epoch, base>>
  BY DEF Crash
<1>2. \/ active' = active
      \/ work.stage \in {"write", "undo", "restore"} /\ active' \in HalfWritten(v)
  BY DEF Crash
<1>3. active' \in Configuration
  <2>1. CASE active' = active
    BY <2>1 DEF Inductive, DeviceOK
  <2>2. CASE work.stage = "write" /\ active' \in HalfWritten(v)
    <3>1. work.want \in Configuration /\ work.want.set \in Settings /\ active \in Configuration
      BY <2>2 DEF Inductive, DeviceOK, WorkOK, Wanted
    <3>2. PICK n \in 0..NumParts : active' = Merge(1..n, work.want)
      BY <2>2 DEF HalfWritten
    <3> QED BY <3>1, <3>2, MergeKind
  <2>3. CASE work.stage \in {"undo", "restore"} /\ active' \in HalfWritten(v) /\ active' # active
    <3>1. work.before \in Configuration /\ work.before.set \in Settings /\ active \in Configuration
      BY <1>1, <2>3 DEF Inductive, DeviceOK, Crash, Encodable
    <3>2. PICK n \in 0..NumParts : active' = Merge(1..n, work.before)
      BY <2>3 DEF HalfWritten
    <3> QED BY <3>1, <3>2, MergeKind
  <2> QED BY <1>2, <2>1, <2>2, <2>3
<1>4. ServiceOK'
  BY <1>1, KindFacts DEF Inductive, ServiceOK, Phases, Endings
<1>5. QueueOK'
  BY <1>1, KindFacts DEF QueueOK, Stages
<1>6. DeviceOK' /\ WorkOK' /\ Spaced'
  BY <1>1, <1>3, KindFacts DEF Inductive, DeviceOK, WorkOK, Spaced
<1>7. Store_!Crash
  <2> DEFINE pending == [c \in Clients |-> IF phase[c] \in {"idle", "closing"} THEN NoCall
                                           ELSE call[c]]
  <2>1. pending' = [c \in Clients |-> NoCall]
    BY <1>1
  <2>2. told' = [c \in Clients |-> IF pending[c] = NoCall THEN told[c] ELSE "unknown"]
    <3>1. \A c \in Clients : pending[c] = NoCall <=> phase[c] \in {"idle", "closing"}
      BY CallFacts DEF Inductive, ServiceOK
    <3> QED BY <1>1, <3>1
  <2>3. CASE work.stage \notin {"idle", "read"}
    <3>1. PICK c \in Clients : c = me
      BY <2>3, HandledCall
    <3>2. pending[c] = call[c] /\ call[c] # NoCall /\ call[c].op # "get" /\ work # Idle
      BY <2>3, <3>1, HandledCall
    <3>3. Persist \/ saved = base.saved
      BY <2>3 DEF Inductive, WorkOK
    <3>4. active'.set \in Contents /\ saved' \in Contents
      BY <1>1, <1>3 DEF Inductive, DeviceOK, Configuration
    <3>5. Store_!CutShort(c)
      BY <1>1, <3>1, <3>2, <3>3, <3>4 DEF Store_!CutShort, Persist
    <3> QED BY <1>1, <2>1, <2>2, <3>5 DEF Store_!Crash
  <2>4. CASE work.stage = "read"
    <3>1. work # Idle /\ active' = active /\ active.set = base.active /\ saved = base.saved
      BY <1>2, <2>4, KindFacts DEF Inductive, WorkOK
    <3> QED BY <1>1, <2>1, <2>2, <3>1 DEF Store_!Crash
  <2>5. CASE work.stage = "idle"
    <3>1. work = Idle /\ active' = active
      BY <1>2, <2>5 DEF Inductive, QueueOK
    <3> QED BY <1>1, <2>1, <2>2, <3>1 DEF Store_!Crash
  <2> QED BY <2>3, <2>4, <2>5 DEF Inductive, QueueOK, Stages
<1> QED BY <1>4, <1>5, <1>6, <1>7 DEF Inductive, Step, Store_!Next

LEMMA CallStep == ASSUME Inductive, NEW c \in Clients, Call(c) PROVE Inductive' /\ Step
<1>1. PICK r \in Calls :
         /\ call' = [call EXCEPT ![c] = r]
         /\ phase' = [phase EXCEPT ![c] = IF r.op \in {"get", "apply"} THEN "asking"
                                          ELSE "waiting"]
  BY DEF Call
<1>2. /\ phase[c] = "idle" /\ queue' = Append(queue, c)
      /\ UNCHANGED <<doc, seen, expected, told, work, session, time, device, base>>
  BY DEF Call
<1>3. /\ phase'[c] \in {"asking", "waiting"} /\ call'[c] = r
      /\ phase'[c] = "asking" <=> r.op \in {"get", "apply"}
      /\ \A d \in Clients \ {c} : UNCHANGED <<phase[d], call[d]>>
      /\ call' = [call EXCEPT ![c] = call'[c]] /\ phase' = [phase EXCEPT ![c] = phase'[c]]
  BY <1>1 DEF Inductive, ServiceOK
<1>4. ServiceOK'
  <2>1. /\ call' \in [Clients -> Calls \union {NoCall}] /\ phase' \in [Clients -> Phases]
    BY <1>1, <1>3 DEF Inductive, ServiceOK, Phases
  <2> QED BY <1>1, <1>2, <1>3, <2>1 DEF Inductive, ServiceOK
<1>5. Inductive'
  BY <1>2, <1>3, <1>4, ServiceStep DEF Phases
<1>6. Store_!Ask(c)
  <2> DEFINE pending == [d \in Clients |-> IF phase[d] \in {"idle", "closing"} THEN NoCall
                                           ELSE call[d]]
  <2>1. pending[c] = NoCall /\ pending' = [pending EXCEPT ![c] = r] /\ pending'[c] = r
    BY <1>2, <1>3
  <2>2. r \in Store_!Calls
    BY CallFacts DEF Store_!Calls
  <2> QED BY <1>2, <2>1, <2>2 DEF Store_!Ask, device
<1> QED BY <1>5, <1>6 DEF Step, Store_!Next

LEMMA CompareStep == ASSUME Inductive, NEW c \in Clients, Compare(c) PROVE Inductive' /\ Step
<1>1. /\ phase[c] = "stamping" /\ call[c] \in Calls /\ call[c].op = "apply" /\ call[c] # NoCall
      /\ UNCHANGED <<doc, seen, work, session, time, device, base>>
  BY CallFacts DEF Compare, Inductive, ServiceOK
<1> DEFINE pending == [d \in Clients |-> IF phase[d] \in {"idle", "closing"} THEN NoCall
                                         ELSE call[d]]
<1>2. CASE /\ expected' = [expected EXCEPT ![c] = Revision(session, seen[c])]
           /\ Revision(doc[c].session, doc[c].cfg) = Revision(session, seen[c])
           /\ phase' = [phase EXCEPT ![c] = "waiting"] /\ queue' = Append(queue, c)
           /\ UNCHANGED <<call, told>>
  <2>1. Revision(session, seen[c]) = doc[c]
    BY <1>2 DEF Inductive, ServiceOK, Documents, Revision
  <2>2. /\ phase'[c] = "waiting" /\ phase' = [phase EXCEPT ![c] = phase'[c]]
        /\ \A d \in Clients \ {c} : UNCHANGED phase[d]
        /\ call' = [call EXCEPT ![c] = call'[c]]
    BY <1>2 DEF Inductive, ServiceOK
  <2>3. /\ phase' \in [Clients -> Phases] /\ expected' \in [Clients -> Documents]
        /\ expected'[c] = doc[c] /\ \A d \in Clients \ {c} : expected'[d] = expected[d]
    BY <1>2, <2>1 DEF Inductive, ServiceOK, Phases
  <2>4. ServiceOK'
    BY <1>1, <1>2, <2>2, <2>3 DEF Inductive, ServiceOK
  <2>5. Inductive'
    BY <1>1, <1>2, <2>2, <2>4, ServiceStep DEF Phases
  <2>6. pending' = pending
    BY <1>1, <1>2, <2>2
  <2>7. UNCHANGED Store_!vars
    BY <1>1, <1>2, <2>6 DEF Store_!vars, device
  <2> QED BY <2>5, <2>7 DEF Step
<1>3. CASE Dismiss(c, "refused") /\ UNCHANGED expected
  <2>1. /\ phase' = [phase EXCEPT ![c] = "idle"] /\ call' = [call EXCEPT ![c] = NoCall]
        /\ told' = [told EXCEPT ![c] = "refused"] /\ UNCHANGED queue
    BY <1>3 DEF Dismiss
  <2>2. /\ phase'[c] = "idle" /\ phase' = [phase EXCEPT ![c] = phase'[c]]
        /\ \A d \in Clients \ {c} : UNCHANGED <<phase[d], call[d]>>
        /\ call' = [call EXCEPT ![c] = call'[c]]
    BY <2>1 DEF Inductive, ServiceOK
  <2>3. /\ phase' \in [Clients -> Phases] /\ call' \in [Clients -> Calls \union {NoCall}]
        /\ told' \in [Clients -> Endings]
    BY <2>1 DEF Inductive, ServiceOK, Phases, Endings
  <2>4. ServiceOK'
    BY <1>1, <1>3, <2>2, <2>3 DEF Inductive, ServiceOK
  <2>5. Inductive'
    BY <1>1, <2>1, <2>2, <2>4, ServiceStep DEF Phases
  <2>6. pending[c] # NoCall /\ pending' = [pending EXCEPT ![c] = NoCall]
    BY <1>1, <2>2
  <2>7. Store_!Refuse(c)
    BY <1>1, <2>1, <2>6 DEF Store_!Refuse, Store_!Answer, device
  <2> QED BY <2>5, <2>7 DEF Step, Store_!Next
<1> QED BY <1>2, <1>3 DEF Compare

LEMMA CloseStep == ASSUME Inductive, NEW c \in Clients, Close(c) PROVE Inductive' /\ Step
<1>1. /\ phase[c] = "closing" /\ phase' = [phase EXCEPT ![c] = "idle"]
      /\ call' = [call EXCEPT ![c] = NoCall]
      /\ doc' \in {doc, [doc EXCEPT ![c] = [session |-> session, cfg |-> seen[c]]]}
      /\ UNCHANGED <<seen, expected, told, queue, work, session, time, device, base>>
  BY DEF Close
<1>2. /\ phase'[c] = "idle" /\ phase' = [phase EXCEPT ![c] = phase'[c]]
      /\ \A d \in Clients \ {c} : UNCHANGED <<phase[d], call[d], doc[d]>>
      /\ call' = [call EXCEPT ![c] = call'[c]]
  BY <1>1 DEF Inductive, ServiceOK
<1>3. /\ phase' \in [Clients -> Phases] /\ call' \in [Clients -> Calls \union {NoCall}]
      /\ doc' \in [Clients -> Documents]
  BY <1>1 DEF Inductive, ServiceOK, DeviceOK, Phases, Documents
<1>4. ServiceOK'
  BY <1>1, <1>2, <1>3 DEF Inductive, ServiceOK
<1>5. Inductive'
  BY <1>1, <1>2, <1>4, ServiceStep DEF Phases
<1>6. UNCHANGED Store_!vars
  BY <1>1, <1>2 DEF Store_!vars, device
<1> QED BY <1>5, <1>6 DEF Step

--------------------------------------------------------------------------------
\* The invariant of the specification, and every step one of ConfigStore's.

LEMMA StartsInductive == Init => Inductive /\ Store_!Init
<1> SUFFICES ASSUME Init PROVE Inductive /\ Store_!Init
  OBVIOUS
<1>1. active \in Configuration /\ saved \in Contents /\ work = Idle
  BY KindFacts DEF Init, Configuration
<1>2. ServiceOK
  BY KindFacts DEF Init, ServiceOK, Phases, Endings
<1>3. QueueOK
  BY KindFacts DEF Init, QueueOK, Stages
<1>4. DeviceOK /\ WorkOK /\ Spaced
  BY <1>1, KindFacts DEF Init, DeviceOK, WorkOK, Spaced, Configuration
<1>5. Store_!Init
  BY <1>1 DEF Init, Store_!Init, Configuration
<1> QED BY <1>2, <1>3, <1>4, <1>5 DEF Inductive

LEMMA EveryStep == Inductive /\ [Next]_vars => Inductive' /\ Step
<1> SUFFICES ASSUME Inductive, [Next]_vars PROVE Inductive' /\ Step
  OBVIOUS
<1>1. CASE Transaction
  BY <1>1, ReadForItemStep, CheckStep, WriteActiveStep, ReadbackStep, StoreStep, RereadStep
  DEF Transaction
<1>2. CASE Rollback
  BY <1>2, UndoStep, UndoCheckStep, UndoStoreStep, UndoRereadStep DEF Rollback
<1>3. CASE NvmCommand
  BY <1>3, KeepStep, NvmOperationStep, LoadedStep, UndoStep, RestoreCheckStep DEF NvmCommand
<1>4. CASE Take \/ ReadConfiguration
  BY <1>4, TakeStep, ReadConfigurationStep
<1>5. CASE Tick \/ World
  BY <1>5, TickStep, ConnectStep, CrashStep DEF World
<1>6. ASSUME NEW c \in Clients, Call(c) \/ Service(c)
      PROVE  Inductive' /\ Step
  BY <1>6, CallStep, CompareStep, CloseStep DEF Service
<1>7. CASE UNCHANGED vars
  <2>1. ServiceOK' /\ QueueOK'
    BY <1>7 DEF vars, service, Inductive, ServiceOK, QueueOK, me
  <2>2. DeviceOK' /\ WorkOK'
    BY <1>7 DEF vars, service, device, Inductive, DeviceOK, WorkOK, Wanted, Persist, me
  <2>3. Spaced'
    BY <1>7 DEF vars, time, Inductive, Spaced
  <2>4. UNCHANGED Store_!vars
    BY <1>7 DEF vars, service, device, Store_!vars
  <2> QED BY <2>1, <2>2, <2>3, <2>4 DEF Inductive, Step
<1> QED BY <1>1, <1>2, <1>3, <1>4, <1>5, <1>6, <1>7 DEF Next, Manager

\* The invariant holds throughout: among other things a client whose settings
\* are on their way to the device holds the document that they are to replace,
\* and every stage of a handler knows what the device held before it.
THEOREM InductiveHolds == Spec => []Inductive
<1>1. Init => Inductive
  BY StartsInductive
<1>2. Inductive /\ [Next]_vars => Inductive'
  BY EveryStep
<1> QED BY <1>1, <1>2, PTL DEF Spec

\* What the invariant leaves out of the types.
Counted == connected \in BOOLEAN /\ calls \in Nat /\ upsets \in Nat /\ moves \in Nat

LEMMA StageCounted ==
    ASSUME Counted, NEW s, Stage(s), Lost \/ Succeed \/ UNCHANGED connected, upsets' \in Nat
    PROVE  Counted'
BY DEF Counted, Stage, Lost, Succeed

LEMMA SpendCounts == ASSUME Counted PROVE \A fault : Spend(fault) => upsets' \in Nat
<1>1. SUFFICES ASSUME NEW fault, Spend(fault) PROVE upsets' \in Nat
  OBVIOUS
<1>2. CASE fault
  BY <1>1, <1>2 DEF Spend, Counted
<1>3. CASE ~fault
  BY <1>1, <1>3 DEF Spend, Counted
<1> QED BY <1>2, <1>3

LEMMA CountedKept == ASSUME Counted, [Next]_vars PROVE Counted'
<1>1. CASE ReadConfiguration \/ Transaction
  <2>1. CASE ReadConfiguration \/ ReadForItem \/ Check \/ Readback \/ Reread
    <3>1. Lost \/ Succeed \/ UNCHANGED connected
      BY <2>1 DEF ReadConfiguration, ReadForItem, Check, Readback, Reread, Read, End, Goto
    <3>2. upsets' \in Nat
      BY <2>1, SpendCounts DEF ReadConfiguration, ReadForItem, Check, Readback, Reread, Read,
                               Counted
    <3> QED BY <2>1, <3>1, <3>2, StageCounted DEF ReadConfiguration, ReadForItem, Check,
                                                  Readback, Reread
  <2>2. CASE WriteActive
    <3>1. Lost \/ Succeed \/ UNCHANGED connected
      BY <2>2 DEF WriteActive, Write, End, Goto, Results
    <3>2. upsets' \in Nat
      BY <2>2, SpendCounts DEF WriteActive, Write, Counted
    <3> QED BY <2>2, <3>1, <3>2, StageCounted DEF WriteActive
  <2>3. CASE Store
    <3>1. Lost \/ Succeed \/ UNCHANGED connected
      BY <2>3 DEF Store, Nvm, End, Goto, Results
    <3>2. upsets' \in Nat
      BY <2>3, SpendCounts DEF Store, Nvm, Counted
    <3> QED BY <2>3, <3>1, <3>2, StageCounted DEF Store
  <2> QED BY <1>1, <2>1, <2>2, <2>3 DEF Transaction
<1>2. CASE Rollback \/ NvmCommand
  <2>1. CASE UndoCheck \/ UndoReread \/ Keep \/ Loaded \/ RestoreCheck
    <3>1. Lost \/ Succeed \/ UNCHANGED connected
      BY <2>1 DEF UndoCheck, UndoReread, Keep, Loaded, RestoreCheck, Read, End, Goto
    <3>2. upsets' \in Nat
      BY <2>1, SpendCounts DEF UndoCheck, UndoReread, Keep, Loaded, RestoreCheck, Read, Counted
    <3> QED BY <2>1, <3>1, <3>2, StageCounted DEF UndoCheck, UndoReread, Keep, Loaded, RestoreCheck
  <2>2. CASE Undo \/ Restore
    <3>1. Lost \/ Succeed \/ UNCHANGED connected
      BY <2>2 DEF Undo, Restore, Write, End, Goto, Results
    <3>2. upsets' \in Nat
      BY <2>2, SpendCounts DEF Undo, Restore, Write, Counted
    <3> QED BY <2>2, <3>1, <3>2, StageCounted DEF Undo, Restore
  <2>3. CASE UndoStore \/ NvmOperation
    <3>1. Lost \/ Succeed \/ UNCHANGED connected
      BY <2>3 DEF UndoStore, NvmOperation, Nvm, End, Goto, Results
    <3>2. upsets' \in Nat
      BY <2>3, SpendCounts DEF UndoStore, NvmOperation, Nvm, Counted
    <3> QED BY <2>3, <3>1, <3>2, StageCounted DEF UndoStore, NvmOperation
  <2> QED BY <1>2, <2>1, <2>2, <2>3 DEF Rollback, NvmCommand
<1>3. CASE Take \/ Tick \/ World \/ UNCHANGED vars
  <2>1. CASE Take
    BY <2>1 DEF Take, Counted
  <2>2. CASE Tick \/ UNCHANGED vars
    BY <2>2 DEF Tick, vars, Counted
  <2>3. CASE Disconnect \/ Connect
    <3>1. Move /\ connected' \in BOOLEAN /\ UNCHANGED <<calls, upsets>>
      BY <2>3 DEF Disconnect, Connect
    <3> QED BY <3>1 DEF Move, Counted
  <2>4. CASE Crash
    <3>1. Move /\ connected' \in BOOLEAN /\ UNCHANGED <<calls, upsets>>
      BY <2>4 DEF Crash
    <3> QED BY <3>1 DEF Move, Counted
  <2> QED BY <1>3, <2>1, <2>2, <2>3, <2>4 DEF World
<1>4. ASSUME NEW c \in Clients, Call(c) \/ Service(c) PROVE Counted'
  BY <1>4 DEF Call, Service, Compare, Close, Counted
<1> QED BY <1>1, <1>2, <1>3, <1>4 DEF Next, Manager

\* Type correctness: among other things every ending is one of the errors that the service
\* reports, and what a handler has in hand are contents a device can hold
\* (varlink.rs:303-420, manager.rs:504-523).
THEOREM TypeOKHolds == Spec => []TypeOK
<1>1. Init => Counted
  BY DEF Init, Counted
<1>2. Counted /\ [Next]_vars => Counted'
  BY CountedKept
<1>3. Inductive /\ Counted => TypeOK
  BY DEF Inductive, ServiceOK, QueueOK, DeviceOK, Spaced, Documents, Counted, TypeOK
<1> QED BY <1>1, <1>2, <1>3, InductiveHolds, PTL DEF Spec

\* The first write of an ApplyConfiguration or StoreConfiguration finds on the
\* device exactly the settings of the document that the client holds.
THEOREM AppliesOverWhatWasShown == Spec => WritesOverWhatWasShown
<1> DEFINE Shown == work.stage = "check" /\ work'.stage = "write" /\ call[me].op = "apply" =>
                       active = doc[me].cfg
<1>1. Inductive /\ [Next]_vars => [Shown]_vars
  <2> SUFFICES ASSUME Inductive, Next, work.stage = "check", work'.stage = "write",
                      call[me].op = "apply"
               PROVE  active = doc[me].cfg
    OBVIOUS
  <2>1. me \in Clients /\ phase[me] = "waiting" /\ expected[me] = doc[me]
    BY HandledCall DEF Inductive, ServiceOK
  <2>2. Check
    BY KindFacts
    DEF Next, Manager, Transaction, Rollback, NvmCommand, World, Service, Take,
        ReadConfiguration, ReadForItem, WriteActive, Readback, Store, Reread, Undo, UndoCheck,
        UndoStore, UndoReread, Keep, NvmOperation, Loaded, Restore, RestoreCheck, Stage,
        Tick, Disconnect, Connect, Crash, Call, Compare, Close
  <2>3. expected[me] = Revision(session, active)
    <3>1. ~(Lost \/ End("refused"))
      BY KindFacts DEF Lost, End, Answer
    <3> QED BY <2>2, <3>1 DEF Check, Read, RevisionMatches, Results
  <2> QED BY <2>1, <2>3 DEF Revision
<1>2. Spec => []Inductive
  BY InductiveHolds
<1> QED BY <1>1, <1>2, PTL DEF Spec, WritesOverWhatWasShown

\* A store or a reset is sent only once the last mutation of the NVM, also that
\* of a rollback, is a second ago.
THEOREM MutationsAreSpaced == Spec => MutationsSpaced
<1>1. Inductive /\ [Next]_vars =>
         [recent => ~Store /\ ~(NvmOperation /\ call[me].op = "reset")]_vars
  BY DEF Inductive, Spaced, Store, NvmOperation
<1>2. Spec => []Inductive
  BY InductiveHolds
<1> QED BY <1>1, <1>2, PTL DEF Spec, MutationsSpaced

\* The transactions of the service and the manager keep what docs/varlink.md
\* promises of a device's active and saved settings.
THEOREM TransactionsImplementStore == Spec => ImplementsConfigStore
<1>1. Init => Store_!Init
  BY StartsInductive
<1>2. Inductive /\ [Next]_vars => [Store_!Next]_(Store_!vars)
  BY EveryStep DEF Step
<1>3. Spec => []Inductive
  BY InductiveHolds
<1> QED BY <1>1, <1>2, <1>3, PTL DEF Spec, ImplementsConfigStore, Store_!Spec
================================================================================
